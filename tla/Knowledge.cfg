SPECIFICATION Spec
CONSTANTS
    A = A
    B = B
    file = file
    c1 = c1
    c2 = c2
    c3 = c3
    c4 = c4
    c5 = c5
    care = care
    stop = stop
    push = push
    hear = hear
    small = small
    limit = limit
    plea = plea
    reject = reject
    comfort = comfort
    unclear = unclear
    unheard = unheard
    Corpora <- MCCorpora
    Title <- MCTitle
    FileName = file
    TargetMin = 3
    TargetMax = 6
    MaxTokens = 8
    ShortThreshold = 2
    Overlap = 1
    Chunk <- MCChunk
    Libraries <- MCLibraries
    Context <- MCContext
    Cases <- MCCases
    TopicId <- MCTopicId
    K = 60
    FusionLimit = 5
    RerankLimit = 5
    SelectLimit = 3
    PerDocument = 2
    Budget = 9
    Text <- MCText
    Important = {limit, plea}
    Tokens <- MCTokens
    Anyone = Anyone
    Window = 4
    ContextBudget = 8
    MaxFacts = 2
    MaxPreferences = 2
    Scene <- MCScene
    PolicyScenes <- MCPolicyScenes
    Rejection = reject
    Unclear = unclear
    Topic <- MCTopic
    Controlled <- MCControlled
    BaseExcluded = {push}
    BoundaryTopic = stop
    PlanCases <- MCPlanCases
    ContextCases <- MCContextCases
INVARIANTS TypeOK ChunksFit NothingLost OnlineContextIsOnline FusionRespectsDominance MissingIsUnavoidable VerdictIsOfThePrompt PlanHonoursPolicies BoundariesFirst
CHECK_DEADLOCK FALSE

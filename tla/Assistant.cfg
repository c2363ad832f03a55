SPECIFICATION Spec
CONSTANTS
    s1 = s1
    s2 = s2
    bad = bad
    ask = ask
    threat = threat
    reply = reply
    reject = reject
    comfort = comfort
    unclear = unclear
    unheard = unheard
    tEmpathy = tEmpathy
    tBoundary = tBoundary
    tPush = tPush
    Torn = Torn
    NoSkill = NoSkill
    Skill <- MCSkill
    Valid <- MCValid
    MaxEdits = 1
    Corpus = {c1, c2}
    Expected = c1
    Settings <- MCSettings
    MaxStarts = 2
    Text <- MCText
    Important = {}
    Tokens <- MCTokens
    Anyone = Anyone
    Window = 3
    ContextBudget = 100
    MaxFacts = 2
    MaxPreferences = 2
    Scene <- MCScene
    PolicyScenes <- MCPolicyScenes
    Rejection = reject
    Unclear = unclear
    Topic <- MCTopic
    Controlled <- MCTopic
    BaseExcluded = {tPush}
    BoundaryTopic = tBoundary
    Requests <- MCRequests
    UnsafeText = {threat}
    Plans <- MCPlans
    PoliciesOf <- MCPoliciesOf
    Reply = reply
    MaxAttempts = 2
    MaxTurns = 2
INVARIANTS TypeOK NoLeak CleanMeansAssembled TurnsHaveConnections HistoryIsPast TracesTellOutcome
PROPERTIES TransactionsEnd ClosesEnd
CHECK_DEADLOCK FALSE

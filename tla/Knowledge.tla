----------------------------- MODULE Knowledge -----------------------------
(***************************************************************************)
(* The procedures that hold no lock and share no state, beside each other: *)
(* a behaviour is the building of one corpus, one retrieval, the finishing *)
(* of one plan or the fitting of one context.                              *)
(***************************************************************************)
EXTENDS Ingestion, EvidenceRanking, ContextWindow, ScenePlan

CONSTANTS
    PlanCases,      \* a model's plan with its known facts and unknowns, the facts
                    \* that the context holds, the policies of the skill, and
                    \* whether the message says that its context is missing
    ContextCases    \* a request and the messages of the graph's state

ASSUME CasesAssumption ==
    /\ \A c \in PlanCases : /\ c.kind = "plan"
                            /\ c.plan \in Plan /\ c.missing \in BOOLEAN
                            /\ DOMAIN c.policies = PolicyScenes
                            /\ Range(c.policies) \subseteq Policy
    /\ \A c \in ContextCases : /\ c.kind = "context"
                               /\ c.messages \in Seq(Message) /\ c.request.text \in Text
                               /\ c.request.summary \in Nat
                               /\ \A s \in {c.request.facts, c.request.preferences} :
                                     s \in Seq(Range(s)) /\ Costs(s) \in Seq(Nat)

VARIABLES
    input,          \* a case, or None
    output          \* its outcome, or None

vars == <<ingestVars, rankVars, input, output>>

None == [kind |-> "none"]
Raised == [kind |-> "ValueError"]

FinishPlan ==
    /\ input.kind = "plan" /\ output = None
    /\ LET directed == Directed(input.plan, input.policies, input.missing)
       IN  output' = IF PolicyOverlap(directed.scenes, input.policies) THEN Raised
                     ELSE [kind |-> "plan",
                           plan |-> FinishedPlan(input.plan, input.policies, input.missing),
                           known |-> KnownFacts(input.known, input.traceable),
                           unknowns |-> KeyUnknowns(input.unknowns, input.known, input.traceable)]
    /\ UNCHANGED <<ingestVars, rankVars, input>>

FitContext ==
    /\ input.kind = "context" /\ output = None
    /\ output' = [kind |-> "context",
                  context |-> BuildContext(input.request, LastOf(input.messages, Window))]
    /\ UNCHANGED <<ingestVars, rankVars, input>>

Init ==
    /\ output = None
    /\ \/ IngestInit /\ RankIdle /\ input = None
       \/ IngestIdle /\ RankInit /\ input = None
       \/ IngestIdle /\ RankIdle /\ input \in PlanCases \cup ContextCases

Next ==
    \/ IngestNext /\ UNCHANGED <<rankVars, input, output>>
    \/ RankNext /\ UNCHANGED <<ingestVars, input, output>>
    \/ FinishPlan
    \/ FitContext

Spec == Init /\ [][Next]_vars

-----------------------------------------------------------------------------
(* Properties *)

TypeOK ==
    /\ IngestTypeOK
    /\ step \in {"idle", "fuse", "rerank", "resolve", "select", "expand", "fit", "core",
                 "rest", "assess", "assemble", "prompt", "done"}
    /\ Range(selected) \subseteq Range(Chunk) /\ Len(selected) <= SelectLimit
    /\ output.kind \in {"none", "ValueError", input.kind}

\* Of a finished plan: no topic is both required and excluded; what a policy of
\* an active scene demands is demanded, whatever the model said; what the model
\* excluded is excluded unless a policy requires it; after an explicit rejection
\* the task is a boundary, if it is not the relationship's end; and every fact the
\* model claimed is either held by the context or listed as unknown.
PlanHonoursPolicies ==
    output.kind = "plan" =>
        LET plan == output.plan
            policies == {input.policies[s] : s \in plan.scenes}
        IN  /\ plan.required \cap plan.excluded = {}
            /\ plan.required \cup plan.excluded \subseteq Controlled
            /\ \A p \in policies : p.required \subseteq plan.required
                                   /\ p.excluded \subseteq plan.excluded
            /\ Unclear \notin plan.scenes =>
                  \A t \in input.plan.excluded \cap Controlled :
                      t \in plan.excluded \/ \E p \in policies : t \in p.required
            /\ Rejection \in plan.scenes => plan.task \in {"boundary", "relationship_exit"}
            /\ output.known \subseteq input.traceable
            /\ input.known \cup input.unknowns = output.known \cup output.unknowns

\* Either the current message stands alone, or a context keeps within its budget;
\* and the messages it has are the recent ones in their order, of which one that
\* states a boundary is left out only for the current message and newer ones that
\* state one.
BoundariesFirst ==
    output.kind = "context" =>
        LET context == output.context
            recent == Recent(LastOf(input.messages, Window), input.request.text)
            cost == [i \in DOMAIN recent |-> Tokens[recent[i].text]]
            current == Tokens[input.request.text]
            summary == IF context.summary THEN input.request.summary ELSE 0
            marked == {i \in DOMAIN recent : recent[i].text \in Important}
        IN  \E kept \in SUBSET DOMAIN recent :
                /\ context.history = Picked(recent, kept)
                /\ \/ kept = {} /\ context.facts = <<>> /\ context.preferences = <<>> /\ ~context.summary
                   \/ current + Total(Restrict(cost, kept)) + Total(Costs(context.facts))
                          + Total(Costs(context.preferences)) + summary <= ContextBudget
                /\ \A i \in marked \ kept :
                      current + cost[i] + Total(Restrict(cost, {j \in kept \cap marked : j > i}))
                          > ContextBudget

=============================================================================

----------------------------- MODULE ScenePlan -----------------------------
(***************************************************************************)
(* What agents/assistant/nodes.py makes of the plan of a model before it   *)
(* is used.                                                                *)
(*                                                                         *)
(* A plan is a record of sets: the lists of the code are freed of          *)
(* duplicates and nothing depends on their order.                          *)
(***************************************************************************)
EXTENDS Integers, Sequences

CONSTANTS
    Scene,          \* scenes a plan may name
    PolicyScenes,   \* SCENE_POLICY_IDS
    Rejection,      \* "explicit_rejection"
    Unclear,        \* "insufficient_information"
    Topic,          \* topics a plan may name
    Controlled,     \* CONTROLLED_TOPICS
    BaseExcluded,   \* the topics every plan of our own excludes
    BoundaryTopic   \* "boundary"

ASSUME SceneAssumption ==
    /\ PolicyScenes \subseteq Scene
    /\ {Rejection, Unclear} \subseteq PolicyScenes /\ Rejection # Unclear
    /\ Controlled \subseteq Topic
    /\ BaseExcluded \subseteq Controlled
    /\ BoundaryTopic \in Controlled \ BaseExcluded

\* A policy of the compiled skill, and a plan.
Policy == [required : SUBSET Controlled, excluded : SUBSET Controlled]
Plan == [scenes : SUBSET Scene, task : {"relationship_exit", "general_advice", "boundary", "reply"},
         action : {"respond", "clarify", "stop"},
         required : SUBSET Topic, excluded : SUBSET Topic]

\* _base_retrieval, _demo_plan and _unsafe_plan
DemoPlan == [scenes |-> {}, task |-> "reply", action |-> "respond",
             required |-> {}, excluded |-> BaseExcluded]
UnsafePlan == [DemoPlan EXCEPT !.task = "boundary", !.action = "stop",
                               !.required = {BoundaryTopic}]

\* _enforce_known_fact_provenance: facts that no source holds become unknowns.
KnownFacts(known, traceable) == known \cap traceable
KeyUnknowns(unknowns, known, traceable) == unknowns \cup (known \ traceable)

\* The scenes that the skill has a policy for decide about task and action; a
\* scene the skill does not have is dropped.
Directed(plan, policies, missingContext) ==
    LET active == plan.scenes \cap DOMAIN policies
        rejected == Rejection \in active /\ plan.task # "relationship_exit"
        vague == ~rejected /\ (Unclear \in active \/ (active = {} /\ missingContext))
    IN  CASE rejected ->
               [plan EXCEPT !.scenes = active, !.task = "boundary", !.action = "stop"]
          [] vague ->
               [scenes |-> {Unclear}, task |-> "general_advice", action |-> "clarify",
                required |-> {}, excluded |-> {}]
          [] OTHER -> [plan EXCEPT !.scenes = active]

PolicyRequired(scenes, policies) == UNION {policies[s].required : s \in scenes}
PolicyExcluded(scenes, policies) == UNION {policies[s].excluded : s \in scenes}

\* analyze_scene_and_plan raises when the active policies contradict each other.
PolicyOverlap(scenes, policies) ==
    PolicyRequired(scenes, policies) \cap PolicyExcluded(scenes, policies) # {}

\* Slip: the model's exclusions are added after the policies' requirements.
ModelExcludesLast(plan, policies) ==
    LET excluded == (plan.excluded \cap Controlled) \cup PolicyExcluded(plan.scenes, policies)
    IN  [plan EXCEPT
           !.required = (((plan.required \cap Controlled)
                             \cup PolicyRequired(plan.scenes, policies)) \ excluded),
           !.excluded = excluded]

\* The topics of the model yield to those of the policies, and among the
\* model's own an exclusion wins.
Ruled(plan, policies) ==
    LET required == (plan.required \ plan.excluded) \cap Controlled
        excluded == plan.excluded \cap Controlled
        mustHave == PolicyRequired(plan.scenes, policies)
        mustNot == PolicyExcluded(plan.scenes, policies)
    IN  [plan EXCEPT !.required = (required \ mustNot) \cup mustHave,
                     !.excluded = (excluded \ mustHave) \cup mustNot]

FinishedPlan(plan, policies, missingContext) ==
    Ruled(Directed(plan, policies, missingContext), policies)

=============================================================================

----------------------------- MODULE AgentTurn -----------------------------
(***************************************************************************)
(* A turn of the assistant: the five nodes of agents/assistant/nodes.py,   *)
(* the model client, RetrievalService.retrieve and the one connection of   *)
(* the repository, in a process whose runtime starts, closes and dies      *)
(* (AppRuntime), whose skill is checked and compiled anew (SkillRuntime)   *)
(* and whose corpus is replaced.                                           *)
(*                                                                         *)
(* The graph lock lets one turn run at a time (ChatSession has the turns   *)
(* of several conversations queue for it).  The turns are those of one     *)
(* conversation, whose messages the graph's checkpointer keeps.  What      *)
(* retrieval selects from what it finds is EvidenceRanking's subject; here *)
(* it finds something or nothing.                                          *)
(***************************************************************************)
EXTENDS AppRuntime, ContextWindow, ScenePlan

CONSTANTS
    Requests,       \* what may be asked: text, relationship, facts, ...
    UnsafeText,     \* the texts contains_unsafe_input refuses
    Plans,          \* what the model may answer to the planning prompt
    PoliciesOf,     \* the scene policies of each skill
    Reply,          \* the text of an answer
    MaxAttempts,    \* attempts of call_json (2)
    MaxTurns        \* bound on turns

ASSUME TurnAssumption ==
    /\ UnsafeText \subseteq Text /\ Reply \in Text
    /\ \A r \in Requests : r.text \in Text
    /\ Plans \subseteq Plan
    /\ \A s \in Valid : /\ DOMAIN PoliciesOf[s] \subseteq Scene
                        /\ \A c \in DOMAIN PoliciesOf[s] : PoliciesOf[s][c] \in Policy
    /\ MaxAttempts \in Nat \ {0} /\ MaxTurns \in Nat

VARIABLES
    pc,             \* the node, or the step of retrieve, that runs next
    request,        \* the request of the turn
    viewed,         \* the artifact that the node's view was made from
    attempts,       \* attempts of call_json that have failed
    plan,           \* scene_and_retrieval_plan
    context,        \* conversation_context
    messages,       \* the conversation's messages in the checkpointer
    rows,           \* retrieval_traces
    traceOf,        \* retrieval_trace_id, as the turn that wrote it
    outcome         \* [turn -> "running", "answered" or "failed"]

turnVars == <<pc, request, viewed, attempts, plan, context, messages, rows, traceOf, outcome>>
vars == <<skillFiles, artifact, processVars, graphHeld, served, turnVars>>

NoContext == [history |-> <<>>, facts |-> <<>>, preferences |-> <<>>, summary |-> FALSE]

\* The steps of RetrievalService.retrieve, and what follows when it raises.
Searching == {"lexical", "vector", "expand", "trace", "failing"}
Step == {"context", "analyze", "plan", "retrieve", "generate", "answer", "validate"}
            \cup Searching

Row == [turn : 1 .. MaxTurns,
        says : {"retrieved", "scene_analysis_failed", "retrieval_failed", "generation_failed"}]

turn == Len(outcome)

TurnTypeOK ==
    /\ pc \in {"rest"} \cup Step
    /\ request \in Requests
    /\ viewed \in Skill \cup {NoSkill}
    /\ attempts \in 0 .. MaxAttempts
    /\ plan \in Plan
    /\ messages \in Seq(Message) /\ Len(messages) <= Window
    /\ rows \subseteq Row
    /\ traceOf \in 0 .. MaxTurns
    /\ outcome \in Seq({"running", "answered", "failed"}) /\ turn <= MaxTurns

TurnInit ==
    /\ pc = "rest"
    /\ request \in Requests
    /\ viewed = NoSkill
    /\ attempts = 0
    /\ plan = DemoPlan
    /\ context = NoContext
    /\ messages = <<>>
    /\ rows = {}
    /\ traceOf = 0
    /\ outcome = <<>>

Postgres == backend = "postgres"
Unsafe == request.text \in UnsafeText

-----------------------------------------------------------------------------
(* Steps of a turn *)

\* What a turn leaves alone.
Quiet == UNCHANGED <<skillFiles, artifact, settings, stage, shut, errors, backend,
                     open, draining, served, starts>>

Goes(from, to) == pc = from /\ pc' = to /\ UNCHANGED <<graphHeld, outcome>>

\* The last node returns, or one raises: the turn is over and the lock released.
\* (The graph keeps its values; a later turn replaces each before it reads it,
\* so that all but the trace's identity may be forgotten here.)
TurnForgotten == viewed' = NoSkill /\ attempts' = 0 /\ plan' = DemoPlan /\ context' = NoContext

EndTurn(how) ==
    /\ pc' = "rest"
    /\ graphHeld' = FALSE
    /\ TurnForgotten
    /\ outcome' = [outcome EXCEPT ![turn] = how]

\* stream_chat, once it has the graph lock: the errors of the start are checked
\* before, and draining anew.  The graph appends the message and checkpoints it.
BeginTurn ==
    /\ pc = "rest" /\ ~graphHeld
    /\ stage = "up" /\ errors = {} /\ ~draining
    /\ turn < MaxTurns
    /\ request' \in Requests
    /\ messages' = AppendRecent(messages, <<From(request'.text)>>)
    /\ graphHeld' = TRUE
    /\ pc' = "context"
    /\ outcome' = Append(outcome, "running")
    /\ UNCHANGED <<tx, viewed, attempts, plan, context, rows, traceOf>>
    /\ Quiet

\* AssistantNodes.build_context
MakeContext ==
    /\ Goes("context", "analyze")
    /\ context' = BuildContext(request, LastOf(messages, Window))
    /\ UNCHANGED <<tx, request, viewed, attempts, plan, messages, rows, traceOf>>
    /\ Quiet

\* SkillRuntime.view: a process without an artifact, or one whose artifact has
\* no policy for a scene, raises.
Views(scenes) == SkillLoaded /\ scenes \subseteq DOMAIN PoliciesOf[artifact]

\* A node raises where nothing writes a trace.
RaisePlainly ==
    /\ EndTurn("failed")
    /\ UNCHANGED <<tx, request, messages, rows, traceOf>>
    /\ Quiet

\* The node takes its view and calls the model.
TakeView(from, to, scenes) ==
    /\ Views(scenes)
    /\ Goes(from, to)
    /\ viewed' = artifact
    /\ UNCHANGED <<tx, request, attempts, plan, context, messages, rows, traceOf>>
    /\ Quiet

\* Slip: after the last attempt the count starts anew.
TriesForever == attempts' = (attempts + 1) % MaxAttempts

\* The for of call_json: an attempt that failed is followed by another one,
\* unless it was the last.
NextAttempt == attempts + 1 < MaxAttempts /\ attempts' = attempts + 1

\* call_json at "plan" or "answer" goes on after an attempt that may be repeated:
\* no transport, 429, 5xx, an answer that does not fit the schema.  (When it
\* gives up, after its last attempt or at once on another 4xx, the node raises.)
CallAgain ==
    /\ pc \in {"plan", "answer"}
    /\ NextAttempt
    /\ UNCHANGED <<pc, graphHeld, outcome, tx, request, viewed, plan, context, messages,
                   rows, traceOf>>
    /\ Quiet

(* The connection.  No statement of a search or of the context loader ends the *)
(* transaction it is in.                                                       *)

\* A statement succeeds, or raises and aborts the transaction, or finds the
\* connection lost; in an aborted transaction every statement raises.
StatementWorks == Postgres /\ tx \in {"idle", "open"} /\ tx' = "open"
StatementRaises ==
    /\ Postgres
    /\ \/ tx \in {"idle", "open"} /\ tx' \in {"aborted", "lost"}
       \/ tx \in {"aborted", "lost"} /\ UNCHANGED tx

\* Slip: what a failed write has begun is not rolled back.
NoRollback == tx' = IF tx = "lost" THEN "lost" ELSE "aborted"

\* The rollback of write_trace and of mark_trace_failure, whatever failed.
Rollback == tx' \in IF tx = "lost" THEN {"lost"} ELSE {"idle", "lost"}

\* write_trace: the row is committed, or nothing is.
WriteTrace(says) ==
    \/ /\ tx \in {"idle", "open"}
       /\ tx' = "idle"
       /\ rows' = rows \cup {[turn |-> turn, says |-> says]}
    \/ Rollback /\ UNCHANGED rows

\* _write_failure_trace needs a skill, and swallows what the write raises.
WriteFailureTrace(says) ==
    IF Postgres /\ SkillLoaded THEN WriteTrace(says) ELSE UNCHANGED <<tx, rows>>

\* Slip: the failure is written as a trace of its own.
WriteAnotherTrace(says) == WriteFailureTrace(says)

\* _mark_trace_failure updates the row the turn's retrieval wrote, if there is
\* one.
MarkTraceFailure(says) ==
    IF ~Postgres THEN UNCHANGED <<tx, rows>>
    ELSE \/ /\ tx \in {"idle", "open"}
            /\ tx' = "idle"
            /\ rows' = {IF r.turn = traceOf THEN [turn |-> r.turn, says |-> says] ELSE r : r \in rows}
         \/ Rollback /\ UNCHANGED rows

(* analyze_scene_and_plan *)

PlanWithoutModel ==
    /\ Goes("analyze", "retrieve")
    /\ \/ Unsafe /\ plan' = UnsafePlan
       \/ ~Unsafe /\ settings.mode = "demo" /\ plan' = DemoPlan
    /\ UNCHANGED <<tx, request, viewed, attempts, context, messages, rows, traceOf>>
    /\ Quiet

AskForPlan ==
    /\ ~Unsafe /\ settings.mode # "demo"
    /\ TakeView("analyze", "plan", PolicyScenes)

NoViewForPlan ==
    /\ pc = "analyze" /\ ~Unsafe /\ settings.mode # "demo"
    /\ ~Views(PolicyScenes)
    /\ RaisePlainly

Policies == [s \in PolicyScenes |-> PoliciesOf[viewed][s]]

\* The model's plan, finished by the policies of the view.  (missing: the message
\* says itself that its context is missing.)
PlanWithModel ==
    /\ Goes("plan", "retrieve")
    /\ \E answer \in Plans, missing \in BOOLEAN :
          /\ ~PolicyOverlap(Directed(answer, Policies, missing).scenes, Policies)
          /\ plan' = FinishedPlan(answer, Policies, missing)
    /\ attempts' = 0
    /\ UNCHANGED <<tx, request, viewed, context, messages, rows, traceOf>>
    /\ Quiet

\* The active policies contradict each other: ValueError.
PoliciesContradict ==
    /\ pc = "plan"
    /\ \E answer \in Plans, missing \in BOOLEAN :
          PolicyOverlap(Directed(answer, Policies, missing).scenes, Policies)
    /\ RaisePlainly

PlanFails ==
    /\ pc = "plan"
    /\ WriteFailureTrace("scene_analysis_failed")
    /\ EndTurn("failed")
    /\ UNCHANGED <<request, messages, traceOf>>
    /\ Quiet

(* retrieve_evidence *)

NoViewForRetrieval ==
    /\ pc = "retrieve" /\ ~Views(plan.scenes)
    /\ RaisePlainly

\* DemoRetrievalService finds nothing and LocalJsonRetrievalService the nearest
\* cards; neither has a connection, and only the second may raise.
RetrieveLocally ==
    /\ ~Postgres /\ Views(plan.scenes)
    /\ Goes("retrieve", "generate")
    /\ traceOf' = turn
    /\ UNCHANGED <<tx, request, viewed, attempts, plan, context, messages, rows>>
    /\ Quiet

EncoderMissing ==
    /\ backend = "local" /\ Views(plan.scenes)
    /\ Goes("retrieve", "failing")
    /\ UNCHANGED <<tx, request, viewed, attempts, plan, context, messages, rows, traceOf>>
    /\ Quiet

BeginSearch == Postgres /\ TakeView("retrieve", "lexical", plan.scenes)

Searches(from, to) ==
    /\ Goes(from, to)
    /\ UNCHANGED <<request, viewed, attempts, plan, context, messages, rows, traceOf>>
    /\ Quiet

\* A query without tokens asks the database nothing.
LexicalSearch ==
    /\ Searches("lexical", "vector")
    /\ StatementWorks \/ UNCHANGED tx

\* A lexical search that raises is not caught: the whole retrieval does.
LexicalRaises == Searches("lexical", "failing") /\ StatementRaises

\* VectorRetriever turns whatever is raised, by the encoder, by the check of the
\* filters or by the statement, into VectorUnavailable, and retrieve goes on.
VectorSearch == Searches("vector", "expand") /\ StatementWorks
VectorMissing ==
    /\ Searches("vector", "expand")
    /\ StatementRaises \/ UNCHANGED tx

\* load_expansion_context, when something is selected that has a parent or a
\* neighbour.
Expand ==
    /\ Searches("expand", "trace")
    /\ StatementWorks \/ UNCHANGED tx
ExpandRaises == Searches("expand", "failing") /\ StatementRaises

\* The trace may fail; the retrieval has its result anyway.
Trace ==
    /\ Goes("trace", "generate")
    /\ WriteTrace("retrieved")
    /\ traceOf' = turn
    /\ UNCHANGED <<request, viewed, attempts, plan, context, messages>>
    /\ Quiet

RetrievalFails ==
    /\ pc = "failing"
    /\ WriteFailureTrace("retrieval_failed")
    /\ EndTurn("failed")
    /\ UNCHANGED <<request, messages, traceOf>>
    /\ Quiet

(* generate_answer and validate_output *)

AnswerWithoutModel ==
    /\ Unsafe \/ settings.mode = "demo"
    /\ Goes("generate", "validate")
    /\ UNCHANGED <<tx, request, viewed, attempts, plan, context, messages, rows, traceOf>>
    /\ Quiet

AskForAnswer ==
    /\ ~Unsafe /\ settings.mode # "demo"
    /\ TakeView("generate", "answer", plan.scenes)

NoViewForAnswer ==
    /\ pc = "generate" /\ ~Unsafe /\ settings.mode # "demo"
    /\ ~Views(plan.scenes)
    /\ RaisePlainly

AnswerWithModel ==
    /\ Goes("answer", "validate")
    /\ attempts' = 0
    /\ UNCHANGED <<tx, request, viewed, plan, context, messages, rows, traceOf>>
    /\ Quiet

AnswerFails ==
    /\ pc = "answer"
    /\ MarkTraceFailure("generation_failed")
    /\ EndTurn("failed")
    /\ UNCHANGED <<request, messages, traceOf>>
    /\ Quiet

\* What is unsafe or too long is replaced; the answer joins the conversation.
ValidateOutput ==
    /\ pc = "validate"
    /\ messages' = AppendRecent(messages, <<[role |-> "assistant", text |-> Reply]>>)
    /\ EndTurn("answered")
    /\ UNCHANGED <<tx, request, rows, traceOf>>
    /\ Quiet

TurnStep ==
    \/ MakeContext \/ CallAgain
    \/ PlanWithoutModel \/ AskForPlan \/ NoViewForPlan
    \/ PlanWithModel \/ PoliciesContradict \/ PlanFails
    \/ NoViewForRetrieval \/ RetrieveLocally \/ EncoderMissing
    \/ BeginSearch \/ LexicalSearch \/ LexicalRaises \/ VectorSearch \/ VectorMissing
    \/ Expand \/ ExpandRaises \/ Trace \/ RetrievalFails
    \/ AnswerWithoutModel \/ AskForAnswer \/ NoViewForAnswer
    \/ AnswerWithModel \/ AnswerFails \/ ValidateOutput

-----------------------------------------------------------------------------
(* The process that the turns run in *)

\* The process ends, perhaps in the middle of a turn.  (What the graph has
\* appended is taken to be checkpointed.)
Crash ==
    /\ stage # "down"
    /\ NewProcess
    /\ pc' = "rest" /\ TurnForgotten
    /\ outcome' = IF graphHeld THEN [outcome EXCEPT ![turn] = "failed"] ELSE outcome
    /\ UNCHANGED <<request, messages, rows, traceOf>>

Init == SkillInit /\ RuntimeInit /\ TurnInit

Next ==
    \/ SkillFilesNext /\ UNCHANGED <<processVars, graphHeld, served, turnVars>>
    \/ RuntimeStep /\ UNCHANGED turnVars
    \/ Readiness /\ UNCHANGED turnVars
    \/ Publish /\ UNCHANGED turnVars
    \/ BeginTurn
    \/ TurnStep
    \/ Crash

\* A turn goes on (the model call and the database time out), and close goes on
\* when it has the graph lock.
Fairness ==
    /\ WF_vars(TurnStep)
    /\ WF_vars(FinishClose /\ UNCHANGED turnVars)

Spec == Init /\ [][Next]_vars /\ Fairness

-----------------------------------------------------------------------------
(* Properties *)

TypeOK == SkillTypeOK /\ RuntimeTypeOK /\ TurnTypeOK

\* A runtime that is not running, because start raised, because it was closed or
\* because there was none yet, holds no connection: every way out of a partial
\* assembly passes through _close_resources.
NoLeak == stage = "down" => open = {} /\ tx = "closed"

\* What the settings ask for is there, all of it.
Assembly ==
    /\ backend = IF Production THEN "postgres" ELSE settings.mode
    /\ open = {"checkpoints", "threads"} \cup (IF Production THEN {"repository"} ELSE {})
    /\ tx = "closed" <=> ~Production

\* A start that leaves no errors, the only condition under which chat requests
\* are accepted, has assembled what the settings ask for: a degraded assembly,
\* with its checkpointer in memory, never serves a turn.
CleanMeansAssembled == stage = "up" /\ errors = {} => Assembly

\* While a turn runs, nothing it uses is closed: close waits for the graph lock,
\* and no start replaces the connection under it.
TurnsHaveConnections == graphHeld => stage \in {"up", "closing"} /\ Assembly

\* A turn that has used the repository's connection leaves it outside of any
\* transaction, however it ends: no search does, so it is the trace, written or
\* rolled back, that has to.  The one exception is a retrieval that raises while
\* the process has no skill: its trace needs the skill's version, and the
\* transaction stays as it is.
TransactionsEnd ==
    [][/\ pc \in Searching \cup {"generate", "answer", "validate"}
       /\ pc' = "rest" /\ stage' # "down"
       => \/ tx' \in {"closed", "idle", "lost"}
          \/ pc = "failing" /\ artifact = NoSkill]_vars

\* The history in the prompt is of the conversation before this turn, in its order,
\* also when the turn repeats an earlier message (the retry of a failed turn); and it
\* is all of it, as far as the window goes, if all fits the budget.
HistoryIsPast ==
    LET past == SubSeq(messages, 1, Len(messages) - 1)
        costs == [i \in DOMAIN past |-> Tokens[past[i].text]]
    IN  pc \notin {"rest", "context"} =>
            /\ \E kept \in SUBSET DOMAIN past : context.history = Picked(past, kept)
            /\ Tokens[request.text] + Total(costs) <= ContextBudget => context.history = past

\* A turn leaves one trace at most, and a trace that reports a failure belongs
\* to a turn that failed.
TracesTellOutcome ==
    /\ \A r, s \in rows : r.turn = s.turn => r = s
    /\ \A r \in rows : r.says # "retrieved" => outcome[r.turn] = "failed"

\* close comes to its end: the turn it waits for does, with all its attempts.
ClosesEnd == stage = "closing" ~> stage # "closing"

=============================================================================

--------------------------- MODULE AssistantProofs ---------------------------
(***************************************************************************)
(* For all settings, skills, requests and plans, any number of turns,      *)
(* starts and attempts: what a start assembles is complete and is given    *)
(* back, a turn keeps its connections, its transactions end with it, its   *)
(* trace tells how it ended and its prompt has the conversation before it. *)
(***************************************************************************)
EXTENDS AgentTurn, ContextWindowProofs, SequenceTheorems, TLAPS

\* What is open, and what the connection may be like, at each step of start; a
\* start that is not clean has a degraded assembly or, if only the skill or the
\* model is missing, a complete one.
AtStage ==
    /\ settings \in Settings
    /\ stage \in {"down", "skill", "assemble", "degraded"} => open = {} /\ tx = "closed"
    /\ stage \in {"corpus", "encoder", "saver", "store", "probe"} => Production /\ tx # "closed"
    /\ stage \in {"corpus", "encoder", "saver"} => open = {"repository"}
    /\ stage = "store" => open = {"repository", "checkpoints"}
    /\ stage = "probe" => Assembly
    /\ stage = "degraded" => "assembly" \in errors
    /\ stage \in {"finish", "up", "closing"} => Assembly \/ "assembly" \in errors

\* Between its first node and its end a turn has the graph lock.
Held == graphHeld <=> pc # "rest"

\* The tables, and where the turn's trace is in them.
Books ==
    /\ rows \subseteq Row
    /\ outcome \in Seq({"running", "answered", "failed"})
    /\ \A r \in rows : r.turn \in 1 .. turn
    /\ pc # "rest" => turn \in 1 .. MaxTurns
    /\ pc \notin {"rest", "generate", "answer", "validate"} => \A r \in rows : r.turn # turn
    /\ pc \in {"generate", "answer", "validate"} =>
          traceOf = turn /\ \A r \in rows : r.turn = turn => r.says = "retrieved"

\* A search is one of the repository's, and leaves its transaction to the trace.
Transactions ==
    /\ pc \in {"lexical", "vector", "expand", "trace"} => Postgres
    /\ pc \in {"generate", "answer", "validate"} => tx \in {"closed", "idle", "lost"}

Core == AtStage /\ Held /\ TurnsHaveConnections /\ Books /\ Transactions /\ TracesTellOutcome

-----------------------------------------------------------------------------
(* The runtime's steps *)

LEMMA StartInv ==
    ASSUME AtStage, RuntimeStep, ~graphHeld
    PROVE  AtStage'
<1>1. CASE Start \/ LoadSkill \/ FailStart \/ BeginClose \/ FinishClose \/ FinishStart
    BY <1>1 DEF AtStage, Start, LoadSkill, FailStart, BeginClose, FinishClose, FinishStart,
                CloseResources, Assembly, Production
<1>2. CASE AssembleLocal
    BY <1>2 DEF AtStage, AssembleLocal, Assembly, Production
<1>3. CASE Connect \/ CheckCorpus \/ LoadEncoder \/ OpenSaver
    BY <1>3 DEF AtStage, Connect, CheckCorpus, LoadEncoder, OpenSaver, Assembled, Production
<1>4. CASE OpenStore
    BY <1>4 DEF AtStage, OpenStore, Assembled, Assembly, Production
<1>5. CASE ProductionFails
    BY <1>5 DEF AtStage, ProductionFails, CloseResources, AssemblyError, Assembly, Production
<1>6. CASE Degrade
    BY <1>6 DEF AtStage, Degrade, Assembly, Production
<1>7. CASE Probe
    BY <1>7 DEF AtStage, Probe, Assembly, Production
<1>8. QED
    BY <1>1, <1>2, <1>3, <1>4, <1>5, <1>6, <1>7 DEF RuntimeStep

\* While a turn runs, nothing but the beginning of close can happen to the runtime.
LEMMA RuntimeUnderTurn ==
    ASSUME TurnsHaveConnections, RuntimeStep, graphHeld
    PROVE  BeginClose
BY DEF TurnsHaveConnections, RuntimeStep, Start, LoadSkill, FailStart, AssembleLocal, Connect,
       CheckCorpus, LoadEncoder, OpenSaver, OpenStore, Assembled, ProductionFails, Degrade,
       Probe, FinishStart, FinishClose, GraphLockFree

-----------------------------------------------------------------------------
(* The steps of a turn *)

\* A turn's step has the lock; what it does to the connection, it does to one the
\* repository has; and it goes on with the turn or ends it.
Ends(how) ==
    /\ pc' = "rest" /\ graphHeld' = FALSE
    /\ outcome' = [outcome EXCEPT ![turn] = how]
GoesOn == pc' # "rest" /\ graphHeld' = graphHeld /\ outcome' = outcome
Shape ==
    /\ pc # "rest" /\ Quiet
    /\ tx' = tx \/ (Postgres /\ tx' # "closed")
    /\ GoesOn \/ Ends("failed") \/ Ends("answered")

USE DEF Goes, Searches, EndTurn, Ends, GoesOn

LEMMA TurnShape ==
    ASSUME Core, TurnStep
    PROVE  Shape
<1>1. CASE MakeContext \/ PlanWithoutModel \/ PlanWithModel \/ RetrieveLocally
             \/ EncoderMissing \/ AnswerWithoutModel \/ AnswerWithModel
    BY <1>1 DEF Shape, MakeContext, PlanWithoutModel, PlanWithModel, RetrieveLocally,
                EncoderMissing, AnswerWithoutModel, AnswerWithModel
<1>2. CASE CallAgain
    BY <1>2 DEF Shape, CallAgain
<1>3. CASE AskForPlan \/ BeginSearch \/ AskForAnswer
    BY <1>3 DEF Shape, AskForPlan, BeginSearch, AskForAnswer, TakeView
<1>4. CASE NoViewForPlan \/ PoliciesContradict \/ NoViewForRetrieval \/ NoViewForAnswer
    BY <1>4 DEF Shape, NoViewForPlan, PoliciesContradict, NoViewForRetrieval, NoViewForAnswer,
                RaisePlainly
<1>5. CASE LexicalSearch \/ LexicalRaises \/ VectorSearch \/ VectorMissing \/ Expand \/ ExpandRaises
    BY <1>5 DEF Shape, LexicalSearch, LexicalRaises, VectorSearch, VectorMissing, Expand,
                ExpandRaises, StatementWorks, StatementRaises
<1>6. CASE Trace
    BY <1>6 DEF Shape, Trace, WriteTrace, Rollback, Core, Transactions
<1>7. CASE PlanFails \/ RetrievalFails
    BY <1>7 DEF Shape, PlanFails, RetrievalFails, WriteFailureTrace, WriteTrace, Rollback
<1>8. CASE AnswerFails
    BY <1>8 DEF Shape, AnswerFails, MarkTraceFailure, Rollback
<1>9. CASE ValidateOutput
    BY <1>9 DEF Shape, ValidateOutput
<1>10. QED
    BY <1>1, <1>2, <1>3, <1>4, <1>5, <1>6, <1>7, <1>8, <1>9 DEF TurnStep

\* The runtime's parts of the invariant follow from the shape alone.
LEMMA ShapeKeepsRuntime ==
    ASSUME Core, Shape
    PROVE  AtStage' /\ Held' /\ TurnsHaveConnections'
<1>1. graphHeld /\ stage \in {"up", "closing"} /\ Assembly /\ settings \in Settings
    BY DEF Core, Shape, Held, TurnsHaveConnections, AtStage
<1>2. UNCHANGED <<settings, stage, errors, backend, open>>
    BY DEF Shape, Quiet
<1>3. tx' = "closed" <=> tx = "closed"
    <2>1. settings.mode \in {"demo", "local", "production"}
        BY <1>1, SettingsAssumption
    <2>2. Postgres => tx # "closed"
        BY <1>1, <2>1 DEF Assembly, Postgres, Production
    <2>3. QED
        BY <2>2 DEF Shape
<1>4. Assembly'
    BY <1>1, <1>2, <1>3 DEF Assembly, Production
<1>5. AtStage'
    BY <1>1, <1>2, <1>4 DEF AtStage
<1>6. Held'
    <2>1. CASE GoesOn
        BY <1>1, <2>1 DEF Held
    <2>2. CASE ~GoesOn
        BY <2>2 DEF Held, Shape
    <2>3. QED
        BY <2>1, <2>2
<1>7. TurnsHaveConnections'
    BY <1>1, <1>2, <1>4 DEF TurnsHaveConnections
<1>8. QED
    BY <1>5, <1>6, <1>7

Outcome == {"running", "answered", "failed"}

\* What the end of a turn does to the outcomes.
LEMMA OutcomeEnds ==
    ASSUME Core, pc # "rest", NEW how \in {"answered", "failed"}, Ends(how)
    PROVE  /\ outcome' \in Seq(Outcome) /\ turn' = turn /\ turn \in 1 .. MaxTurns
           /\ outcome'[turn] = how
           /\ \A i \in 1 .. turn : i # turn => outcome'[i] = outcome[i]
<1>1. outcome \in Seq(Outcome) /\ turn \in 1 .. MaxTurns /\ MaxTurns \in Nat
    BY TurnAssumption DEF Core, Books, Outcome
<1>2. how \in Outcome /\ outcome' = [outcome EXCEPT ![turn] = how] /\ turn = Len(outcome)
    BY DEF Outcome, turn
<1>3. QED
    BY <1>1, <1>2, ExceptSeq DEF turn

\* A turn that ends with the tables as they are.
LEMMA EndsQuietly ==
    ASSUME Core, pc # "rest", NEW how \in {"answered", "failed"}, Ends(how), rows' = rows
    PROVE  Books' /\ TracesTellOutcome'
<1>1. /\ outcome' \in Seq(Outcome) /\ turn' = turn /\ turn \in 1 .. MaxTurns
      /\ \A i \in 1 .. turn : i # turn => outcome'[i] = outcome[i]
    BY OutcomeEnds
<1>2. \A r \in rows : r.turn \in 1 .. turn /\ (r.turn = turn => r.says = "retrieved")
    BY DEF Core, Books
<1>3. Books'
    BY <1>1, <1>2 DEF Core, Books, Outcome
<1>4. TracesTellOutcome'
    BY <1>1, <1>2 DEF Core, TracesTellOutcome
<1>5. QED
    BY <1>3, <1>4

\* A turn that fails before it has written a trace, and now may.
LEMMA EndsWithTrace ==
    ASSUME Core, pc \in {"plan", "failing"}, Ends("failed"),
           NEW says \in {"scene_analysis_failed", "retrieval_failed"},
           rows' = rows \/ rows' = rows \cup {[turn |-> turn, says |-> says]}
    PROVE  Books' /\ TracesTellOutcome'
<1> DEFINE row == [turn |-> turn, says |-> says]
<1>1. /\ outcome' \in Seq(Outcome) /\ turn' = turn /\ turn \in 1 .. MaxTurns
      /\ outcome'[turn] = "failed"
      /\ \A i \in 1 .. turn : i # turn => outcome'[i] = outcome[i]
    BY OutcomeEnds
<1>2. \A r \in rows : r.turn \in 1 .. turn /\ r.turn # turn
    BY DEF Core, Books
<1>3. row \in Row /\ row.turn = turn
    BY <1>1 DEF Row
<1> HIDE DEF row
<1>4. CASE rows' = rows
    BY <1>4, EndsQuietly
<1>5. CASE rows' = rows \cup {row}
    <2>1. Books'
        BY <1>1, <1>2, <1>3, <1>5 DEF Core, Books, Outcome
    <2>2. TracesTellOutcome'
        BY <1>1, <1>2, <1>3, <1>5 DEF Core, TracesTellOutcome
    <2>3. QED
        BY <2>1, <2>2
<1>6. QED
    BY <1>4, <1>5 DEF row

\* A step of a turn that leaves the tables alone.
Late == {"generate", "answer", "validate"}

LEMMA GoesOnQuietly ==
    ASSUME Core, pc # "rest", GoesOn, rows' = rows, pc \in Late <=> pc' \in Late,
           traceOf' = traceOf
    PROVE  Books' /\ TracesTellOutcome'
<1>1. turn' = turn
    BY DEF turn
<1>2. Books'
    BY <1>1 DEF Core, Books, Late
<1>3. TracesTellOutcome'
    BY DEF Core, TracesTellOutcome
<1>4. QED
    BY <1>2, <1>3

\* The turn's retrieval is over, and its trace is written or not.
LEMMA TraceBooks ==
    ASSUME Core, pc \in {"retrieve", "trace"}, pc' = "generate", GoesOn, traceOf' = turn,
           rows' = rows \/ rows' = rows \cup {[turn |-> turn, says |-> "retrieved"]}
    PROVE  Books' /\ TracesTellOutcome'
<1> DEFINE row == [turn |-> turn, says |-> "retrieved"]
<1>1. turn' = turn /\ outcome' = outcome /\ turn \in 1 .. MaxTurns
    BY DEF turn, Core, Books
<1>2. row \in Row /\ row.turn = turn /\ row.says = "retrieved"
    BY <1>1 DEF Row
<1>3. \A r \in rows : r.turn \in 1 .. turn /\ r.turn # turn
    BY DEF Core, Books
<1>4. rows' = rows \/ rows' = rows \cup {row}
    OBVIOUS
<1> HIDE DEF row
<1>5. Books'
    BY <1>1, <1>2, <1>3, <1>4 DEF Core, Books
<1>6. TracesTellOutcome'
    BY <1>1, <1>2, <1>3, <1>4 DEF Core, TracesTellOutcome
<1>7. QED
    BY <1>5, <1>6

\* A failed answer is marked in the trace of the turn, and in no other.
LEMMA AnswerFailsBooks ==
    ASSUME Core, AnswerFails
    PROVE  Books' /\ TracesTellOutcome'
<1> DEFINE Marked(r) ==
        IF r.turn = traceOf THEN [turn |-> r.turn, says |-> "generation_failed"] ELSE r
<1>1. pc = "answer" /\ Ends("failed") /\ traceOf = turn
    BY DEF AnswerFails, Core, Books
<1>2. rows' = rows \/ rows' = {Marked(r) : r \in rows}
    BY DEF AnswerFails, MarkTraceFailure
<1>3. /\ outcome' \in Seq(Outcome) /\ turn' = turn /\ turn \in 1 .. MaxTurns
      /\ outcome'[turn] = "failed"
      /\ \A i \in 1 .. turn : i # turn => outcome'[i] = outcome[i]
    BY <1>1, OutcomeEnds
<1>4. CASE rows' = rows
    BY <1>1, <1>4, EndsQuietly
<1>5. CASE rows' = {Marked(r) : r \in rows}
    <2>1. \A r \in rows : /\ Marked(r) \in Row /\ Marked(r).turn = r.turn
                          /\ r.turn # turn => Marked(r) = r
        BY <1>1 DEF Core, Books, Row
    <2> HIDE DEF Marked
    <2>2. \A s \in rows' : \E r \in rows : s = Marked(r)
        BY <1>5
    <2>3. Books'
        BY <1>1, <1>3, <2>1, <2>2 DEF Core, Books, Outcome
    <2>4. TracesTellOutcome'
        BY <1>1, <1>3, <2>1, <2>2 DEF Core, Books, TracesTellOutcome
    <2>5. QED
        BY <2>3, <2>4
<1>6. QED
    BY <1>2, <1>4, <1>5

LEMMA TurnBooks ==
    ASSUME Core, TurnStep
    PROVE  Books' /\ TracesTellOutcome'
<1>1. CASE MakeContext \/ PlanWithoutModel \/ PlanWithModel \/ EncoderMissing
             \/ AnswerWithoutModel \/ AnswerWithModel
    BY <1>1, GoesOnQuietly DEF MakeContext, PlanWithoutModel, PlanWithModel, EncoderMissing,
                               AnswerWithoutModel, AnswerWithModel, Late
<1>2. CASE CallAgain
    BY <1>2, GoesOnQuietly DEF CallAgain, Late
<1>3. CASE AskForPlan \/ BeginSearch \/ AskForAnswer
    BY <1>3, GoesOnQuietly DEF AskForPlan, BeginSearch, AskForAnswer, TakeView, Late
<1>4. CASE NoViewForPlan \/ PoliciesContradict \/ NoViewForRetrieval \/ NoViewForAnswer
    BY <1>4, EndsQuietly DEF NoViewForPlan, PoliciesContradict, NoViewForRetrieval,
                             NoViewForAnswer, RaisePlainly
<1>5. CASE LexicalSearch \/ LexicalRaises \/ VectorSearch \/ VectorMissing \/ Expand \/ ExpandRaises
    BY <1>5, GoesOnQuietly DEF LexicalSearch, LexicalRaises, VectorSearch, VectorMissing, Expand,
                               ExpandRaises, Late
<1>6. CASE RetrieveLocally
    BY <1>6, TraceBooks DEF RetrieveLocally
<1>7. CASE Trace
    BY <1>7, TraceBooks DEF Trace, WriteTrace
<1>8. CASE PlanFails
    BY <1>8, EndsWithTrace DEF PlanFails, WriteFailureTrace, WriteTrace
<1>9. CASE RetrievalFails
    BY <1>9, EndsWithTrace DEF RetrievalFails, WriteFailureTrace, WriteTrace
<1>10. CASE AnswerFails
    BY <1>10, AnswerFailsBooks
<1>11. CASE ValidateOutput
    BY <1>11, EndsQuietly DEF ValidateOutput
<1>12. QED
    BY <1>1, <1>2, <1>3, <1>4, <1>5, <1>6, <1>7, <1>8, <1>9, <1>10, <1>11 DEF TurnStep

\* Only the trace's own step, and a retrieval that has no connection, lead to the
\* answer.
LEMMA TurnTransactions ==
    ASSUME Core, TurnStep
    PROVE  Transactions'
<1>1. UNCHANGED backend
    BY TurnShape DEF Shape, Quiet
<1>2. CASE MakeContext \/ PlanWithoutModel \/ PlanWithModel \/ EncoderMissing \/ AnswerWithoutModel
             \/ AnswerWithModel \/ CallAgain
    BY <1>1, <1>2 DEF Core, Transactions, Postgres, MakeContext, PlanWithoutModel, PlanWithModel,
                      EncoderMissing, AnswerWithoutModel, AnswerWithModel, CallAgain
<1>3. CASE AskForPlan \/ AskForAnswer \/ BeginSearch
    BY <1>1, <1>3 DEF Core, Transactions, Postgres, AskForPlan, AskForAnswer, BeginSearch, TakeView
<1>4. CASE LexicalSearch \/ LexicalRaises \/ VectorSearch \/ VectorMissing \/ Expand \/ ExpandRaises
    BY <1>1, <1>4 DEF Core, Transactions, Postgres, LexicalSearch, LexicalRaises, VectorSearch,
                      VectorMissing, Expand, ExpandRaises
<1>5. CASE RetrieveLocally
    <2>1. tx = "closed"
        <3>1. graphHeld
            BY <1>5 DEF RetrieveLocally, Core, Held
        <3>2. QED
            BY <1>5, <3>1 DEF RetrieveLocally, Core, TurnsHaveConnections, Assembly, Postgres
    <2>2. QED
        BY <1>5, <2>1 DEF RetrieveLocally, Transactions
<1>6. CASE Trace
    BY <1>6 DEF Trace, WriteTrace, Rollback, Transactions
<1>7. CASE NoViewForPlan \/ PoliciesContradict \/ NoViewForRetrieval \/ NoViewForAnswer
             \/ PlanFails \/ RetrievalFails \/ AnswerFails \/ ValidateOutput
    BY <1>7 DEF Transactions, NoViewForPlan, PoliciesContradict, NoViewForRetrieval,
                NoViewForAnswer, PlanFails, RetrievalFails, AnswerFails, ValidateOutput, RaisePlainly
<1>8. QED
    BY <1>2, <1>3, <1>4, <1>5, <1>6, <1>7 DEF TurnStep

-----------------------------------------------------------------------------
(* The invariant *)

LEMMA BeginTurnCore ==
    ASSUME Core, BeginTurn
    PROVE  Core'
<1>1. /\ stage = "up" /\ errors = {} /\ Assembly /\ pc = "rest" /\ pc' = "context"
      /\ UNCHANGED <<settings, stage, errors, backend, open, tx, rows>>
      /\ turn < MaxTurns /\ outcome' = Append(outcome, "running")
    BY DEF BeginTurn, Core, AtStage, Quiet
<1>2. graphHeld'
    BY DEF BeginTurn
<1>3. AtStage'
    BY <1>1 DEF Core, AtStage, Assembly, Production
<1>4. Held' /\ TurnsHaveConnections'
    BY <1>1, <1>2 DEF Held, TurnsHaveConnections, Assembly, Production
<1>5. /\ outcome' \in Seq(Outcome) /\ turn' = turn + 1 /\ turn \in Nat /\ MaxTurns \in Nat
      /\ \A i \in 1 .. turn : outcome'[i] = outcome[i]
    BY <1>1, TurnAssumption DEF Core, Books, Outcome, turn
<1>6. \A r \in rows : r.turn \in 1 .. turn
    BY DEF Core, Books
<1>7. Books'
    BY <1>1, <1>5, <1>6 DEF Core, Books, Outcome
<1>8. Transactions'
    BY <1>1 DEF Transactions
<1>9. TracesTellOutcome'
    BY <1>1, <1>5, <1>6 DEF Core, TracesTellOutcome
<1>10. QED
    BY <1>3, <1>4, <1>7, <1>8, <1>9 DEF Core

\* A crash ends the turn that runs, as a failed one.
LEMMA CrashCore ==
    ASSUME Core, Crash
    PROVE  Core'
<1>1. /\ stage' = "down" /\ open' = {} /\ tx' = "closed" /\ pc' = "rest" /\ rows' = rows
      /\ settings' = settings
    BY DEF Crash, NewProcess
<1>2. ~graphHeld'
    BY DEF Crash, NewProcess
<1>3. AtStage' /\ Held' /\ TurnsHaveConnections' /\ Transactions'
    BY <1>1, <1>2 DEF Core, AtStage, Held, TurnsHaveConnections, Transactions
<1>4. CASE ~graphHeld
    <2>1. outcome' = outcome
        BY <1>4 DEF Crash
    <2>2. QED
        BY <1>1, <1>3, <2>1 DEF Core, Books, TracesTellOutcome, turn
<1>5. CASE graphHeld
    <2>1. pc # "rest" /\ outcome' = [outcome EXCEPT ![turn] = "failed"]
        BY <1>5 DEF Crash, Core, Held
    <2>2. graphHeld' = FALSE
        BY DEF Crash, NewProcess
    <2>3. Books' /\ TracesTellOutcome'
        BY <1>1, <2>1, <2>2, EndsQuietly
    <2>4. QED
        BY <1>3, <2>3 DEF Core
<1>6. QED
    BY <1>4, <1>5

\* Whatever leaves turns alone and keeps the runtime's part of the invariant.
LEMMA OutsideTurn ==
    ASSUME Core, UNCHANGED turnVars, AtStage', UNCHANGED graphHeld,
           graphHeld => /\ UNCHANGED <<settings, backend, open, tx>>
                        /\ stage' \in {"up", "closing"},
           pc # "rest" => UNCHANGED <<backend, tx>>
    PROVE  Core'
<1>1. Held' /\ Books' /\ TracesTellOutcome'
    BY DEF Core, Held, Books, TracesTellOutcome, turn, turnVars
<1>2. TurnsHaveConnections'
    BY DEF Core, TurnsHaveConnections, Assembly, Production
<1>3. Transactions'
    BY DEF Core, Transactions, Postgres, turnVars
<1>4. QED
    BY <1>1, <1>2, <1>3 DEF Core

LEMMA StepCore == ASSUME Core, [Next]_vars PROVE Core'
<1>1. CASE TurnStep
    BY <1>1, TurnShape, ShapeKeepsRuntime, TurnBooks, TurnTransactions DEF Core
<1>2. CASE BeginTurn
    BY <1>2, BeginTurnCore
<1>3. CASE Crash
    BY <1>3, CrashCore
<1>4. CASE RuntimeStep /\ UNCHANGED turnVars
    <2>1. UNCHANGED graphHeld
        BY <1>4 DEF RuntimeStep, Start, LoadSkill, FailStart, AssembleLocal, Connect, CheckCorpus,
                    LoadEncoder, OpenSaver, OpenStore, Assembled, ProductionFails, Degrade,
                    Probe, FinishStart, BeginClose, FinishClose
    <2>2. CASE graphHeld
        <3>1. BeginClose /\ stage \in {"up", "closing"}
            BY <1>4, <2>2, RuntimeUnderTurn DEF Core, TurnsHaveConnections
        <3>2. AtStage'
            BY <3>1 DEF Core, AtStage, BeginClose, Assembly, Production
        <3>3. QED
            BY <1>4, <2>1, <3>1, <3>2, OutsideTurn DEF BeginClose
    <2>3. CASE ~graphHeld
        <3>1. AtStage' /\ pc = "rest"
            BY <1>4, <2>3, StartInv DEF Core, Held
        <3>2. QED
            BY <1>4, <2>1, <2>3, <3>1, OutsideTurn
    <2>4. QED
        BY <2>2, <2>3
<1>5. CASE \/ SkillFilesNext /\ UNCHANGED <<processVars, graphHeld, served, turnVars>>
           \/ Readiness /\ UNCHANGED turnVars
           \/ Publish /\ UNCHANGED turnVars
           \/ UNCHANGED vars
    <2>1. UNCHANGED <<settings, stage, errors, backend, open, tx, graphHeld, turnVars>>
        BY <1>5 DEF Readiness, Publish, processVars, vars
    <2>2. AtStage'
        BY <2>1 DEF Core, AtStage, Assembly, Production
    <2>3. QED
        BY <2>1, <2>2, OutsideTurn DEF Core, TurnsHaveConnections
<1>6. QED
    BY <1>1, <1>2, <1>3, <1>4, <1>5 DEF Next

LEMMA InitCore == Init => Core
<1> SUFFICES ASSUME Init PROVE Core
    OBVIOUS
<1> USE DEF Init, RuntimeInit, TurnInit
<1>1. AtStage
    BY DEF AtStage
<1>2. Held /\ TurnsHaveConnections
    BY DEF Held, TurnsHaveConnections
<1>3. Books /\ Transactions /\ TracesTellOutcome
    BY DEF Books, Transactions, TracesTellOutcome
<1>4. QED
    BY <1>1, <1>2, <1>3 DEF Core

THEOREM CoreInvariant == Spec => []Core
BY InitCore, StepCore, PTL DEF Spec

-----------------------------------------------------------------------------
\* A runtime that does not run holds no connection, whatever raised while it was
\* assembled (start and _close_resources, runtime.py).
THEOREM NothingLeaks == Spec => []NoLeak
<1>1. Core => NoLeak
    BY DEF Core, AtStage, NoLeak
<1>2. QED
    BY <1>1, CoreInvariant, PTL

\* A start without errors has assembled all that the settings ask for: no turn is
\* served by a degraded assembly (_assemble_dependencies, runtime.py).
THEOREM CleanStartsAreComplete == Spec => []CleanMeansAssembled
<1>1. Core => CleanMeansAssembled
    BY DEF Core, AtStage, CleanMeansAssembled
<1>2. QED
    BY <1>1, CoreInvariant, PTL

\* Nothing a turn uses is closed or replaced while it runs (close, runtime.py).
THEOREM TurnsKeepConnections == Spec => []TurnsHaveConnections
<1>1. Core => TurnsHaveConnections
    BY DEF Core
<1>2. QED
    BY <1>1, CoreInvariant, PTL

\* One trace a turn, and a failure is reported by a turn that failed (the two trace
\* helpers of nodes.py, write_trace and mark_trace_failure of postgres.py).
THEOREM TracesAreTrue == Spec => []TracesTellOutcome
<1>1. Core => TracesTellOutcome
    BY DEF Core
<1>2. QED
    BY <1>1, CoreInvariant, PTL

\* A turn that has used the connection leaves it outside of a transaction, but for
\* a retrieval that raises in a process without a skill (postgres.py, write_trace).
THEOREM TransactionsAreEnded == Spec => TransactionsEnd
<1> DEFINE Clean == \/ tx' \in {"closed", "idle", "lost"}
                    \/ pc = "failing" /\ artifact = NoSkill
           Ended == pc \in Searching \cup Late /\ pc' = "rest" /\ stage' # "down" => Clean
<1>1. ASSUME Core, [Next]_vars PROVE Ended
    <2> SUFFICES ASSUME pc \in Searching \cup Late, pc' = "rest", stage' # "down"
                 PROVE  Clean
        BY DEF Ended
    <2>1. pc \in {"lexical", "vector", "expand", "trace", "failing", "generate", "answer", "validate"}
        BY DEF Searching, Late
    <2>2. TurnStep
        BY <1>1, <2>1 DEF Next, Crash, NewProcess, BeginTurn, turnVars, vars
    <2>3. \/ NoViewForAnswer \/ RetrievalFails \/ AnswerFails \/ ValidateOutput
        BY <2>1, <2>2 DEF TurnStep, MakeContext, CallAgain, PlanWithoutModel, AskForPlan,
            NoViewForPlan, PlanWithModel, PoliciesContradict, PlanFails, NoViewForRetrieval,
            RetrieveLocally, EncoderMissing, BeginSearch, LexicalSearch, LexicalRaises,
            VectorSearch, VectorMissing, Expand, ExpandRaises, Trace, AnswerWithoutModel,
            AskForAnswer, AnswerWithModel, TakeView
    <2>4. CASE NoViewForAnswer \/ ValidateOutput
        BY <1>1, <2>4 DEF NoViewForAnswer, ValidateOutput, RaisePlainly, Core, Transactions
    <2>5. CASE RetrievalFails
        <3>1. CASE ~Postgres
            <4>1. tx = "closed"
                BY <1>1, <2>1, <3>1 DEF Core, Held, TurnsHaveConnections, Assembly, Postgres
            <4>2. QED
                BY <2>5, <3>1, <4>1 DEF RetrievalFails, WriteFailureTrace
        <3>2. CASE Postgres
            BY <2>5, <3>2 DEF RetrievalFails, WriteFailureTrace, WriteTrace, Rollback, SkillLoaded
        <3>3. QED
            BY <3>1, <3>2
    <2>6. CASE AnswerFails
        BY <1>1, <2>6 DEF AnswerFails, MarkTraceFailure, Rollback, Core, Transactions
    <2>7. QED
        BY <2>3, <2>4, <2>5, <2>6
<1>2. QED
    BY <1>1, CoreInvariant, PTL DEF Spec, TransactionsEnd, Late

-----------------------------------------------------------------------------
(* Types *)

\* A process keeps only skills that were valid, and a node that plans has a view
\* of one that has all the policies.
Viewed ==
    /\ artifact \in Valid \cup {NoSkill}
    /\ pc = "plan" => viewed \in Valid /\ PolicyScenes \subseteq DOMAIN PoliciesOf[viewed]

\* What the policies make of a plan is a plan.
LEMMA PlansAreFinished ==
    ASSUME NEW answer \in Plan, NEW missing \in BOOLEAN, NEW policies \in [PolicyScenes -> Policy]
    PROVE  FinishedPlan(answer, policies, missing) \in Plan
<1> DEFINE d == Directed(answer, policies, missing)
           active == answer.scenes \cap PolicyScenes
<1>1. active \in SUBSET Scene /\ Unclear \in Scene /\ Unclear \in PolicyScenes
    BY SceneAssumption
<1>2. \/ d = [answer EXCEPT !.scenes = active, !.task = "boundary", !.action = "stop"]
      \/ d = [scenes |-> {Unclear}, task |-> "general_advice", action |-> "clarify",
              required |-> {}, excluded |-> {}]
      \/ d = [answer EXCEPT !.scenes = active]
    BY DEF Directed
<1>3. d \in Plan /\ d.scenes \subseteq PolicyScenes
    <2>1. active \subseteq PolicyScenes
        OBVIOUS
    <2> HIDE DEF d, active
    <2>2. CASE d = [answer EXCEPT !.scenes = active, !.task = "boundary", !.action = "stop"]
        BY <1>1, <2>1, <2>2 DEF Plan
    <2>3. CASE d = [scenes |-> {Unclear}, task |-> "general_advice", action |-> "clarify",
                    required |-> {}, excluded |-> {}]
        <3>1. {Unclear} \in SUBSET Scene /\ {} \in SUBSET Topic /\ {Unclear} \subseteq PolicyScenes
            BY <1>1
        <3>2. QED
            BY <2>3, <3>1 DEF Plan
    <2>4. CASE d = [answer EXCEPT !.scenes = active]
        BY <1>1, <2>1, <2>4 DEF Plan
    <2>5. QED
        BY <1>2, <2>2, <2>3, <2>4
<1> HIDE DEF d
<1> DEFINE mustHave == PolicyRequired(d.scenes, policies)
           mustNot == PolicyExcluded(d.scenes, policies)
<1>4. mustHave \subseteq Controlled /\ mustNot \subseteq Controlled
    <2>1. /\ \A t : t \in mustHave <=> \E s \in d.scenes : t \in policies[s].required
          /\ \A t : t \in mustNot <=> \E s \in d.scenes : t \in policies[s].excluded
        BY DEF PolicyRequired, PolicyExcluded
    <2>2. QED
        BY <1>3, <2>1 DEF Policy
<1>5. FinishedPlan(answer, policies, missing) =
        [d EXCEPT !.required = (((d.required \ d.excluded) \cap Controlled) \ mustNot) \cup mustHave,
                  !.excluded = ((d.excluded \cap Controlled) \ mustHave) \cup mustNot]
    BY DEF FinishedPlan, Ruled, d
<1>6. /\ (((d.required \ d.excluded) \cap Controlled) \ mustNot) \cup mustHave \in SUBSET Topic
      /\ ((d.excluded \cap Controlled) \ mustHave) \cup mustNot \in SUBSET Topic
    BY <1>4, SceneAssumption
<1> HIDE DEF mustHave, mustNot
<1>7. QED
    BY <1>3, <1>5, <1>6 DEF Plan

\* The window of a list of messages, appended to, is one.
LEMMA WindowTypes ==
    ASSUME NEW old \in Seq(Message), NEW m \in Message
    PROVE  /\ AppendRecent(old, <<m>>) \in Seq(Message)
           /\ Len(AppendRecent(old, <<m>>)) <= Window
<1> DEFINE s == old \o <<m>>
<1>1. s \in Seq(Message) /\ Len(s) \in Nat
    OBVIOUS
<1> HIDE DEF s
<1>2. LastOf(s, Window) \in Seq(Message) /\ Len(LastOf(s, Window)) <= Window
    BY <1>1, LastMessages
<1>3. QED
    BY <1>2 DEF AppendRecent, s

LEMMA RuntimeTypes ==
    ASSUME TypeOK, Viewed, UNCHANGED turnVars,
           \/ SkillFilesNext /\ UNCHANGED <<processVars, graphHeld, served>>
           \/ RuntimeStep \/ Readiness \/ Publish
    PROVE  TypeOK' /\ Viewed'
<1>1. TurnTypeOK'
    BY DEF TypeOK, TurnTypeOK, turnVars, turn
<1>2. CASE SkillFilesNext /\ UNCHANGED <<processVars, graphHeld, served>>
    <2>1. SkillTypeOK' /\ artifact' = artifact
        BY <1>2, SkillAssumption, EditAssumption
        DEF TypeOK, SkillTypeOK, SkillFilesNext, EditSource, CompileTruncates, CompileWrites
    <2>2. RuntimeTypeOK'
        BY <1>2 DEF TypeOK, RuntimeTypeOK, processVars
    <2>3. QED
        BY <1>1, <2>1, <2>2 DEF TypeOK, Viewed, turnVars
<1>3. CASE Readiness \/ Publish
    <2>1. artifact' \in Valid \cup {NoSkill}
        BY <1>3 DEF Readiness, Publish, CheckSkill, Consistent, Viewed
    <2>2. SkillTypeOK' /\ RuntimeTypeOK'
        BY <1>3, <2>1, SkillAssumption
        DEF TypeOK, SkillTypeOK, RuntimeTypeOK, Readiness, Publish, skillFiles, processVars
    <2>3. QED
        BY <1>1, <2>1, <2>2 DEF TypeOK, Viewed, turnVars
<1>4. CASE RuntimeStep
    <2>1. artifact' \in Valid \cup {NoSkill} /\ skillFiles' = skillFiles
        BY <1>4 DEF RuntimeStep, Viewed, Start, LoadSkill, CheckSkill, Consistent, FailStart,
            AssembleLocal, Connect, CheckCorpus, LoadEncoder, OpenSaver, OpenStore, Assembled,
            ProductionFails, Degrade, Probe, FinishStart, BeginClose, FinishClose
    <2>2. SkillTypeOK'
        BY <2>1, SkillAssumption DEF TypeOK, SkillTypeOK, skillFiles
    <2>3. RuntimeTypeOK'
        <3> USE DEF TypeOK, RuntimeTypeOK, Starting
        <3>1. CASE Start \/ LoadSkill \/ FailStart \/ FinishStart \/ BeginClose \/ FinishClose
            <4>1. CASE Start
                BY <4>1, StartAssumption DEF Start
            <4>2. CASE LoadSkill
                <5>1. errors' \subseteq {"skill", "model", "assembly"}
                    BY <4>2 DEF LoadSkill
                <5>2. QED
                    BY <4>2, <5>1 DEF LoadSkill
            <4>3. CASE FailStart \/ FinishStart \/ FinishClose
                BY <4>3 DEF FailStart, FinishStart, FinishClose, CloseResources
            <4>4. CASE BeginClose
                <5>1. shut' \in BOOLEAN
                    BY <4>4 DEF BeginClose
                <5>2. QED
                    BY <4>4, <5>1 DEF BeginClose
            <4>5. QED
                BY <3>1, <4>1, <4>2, <4>3, <4>4
        <3>2. CASE AssembleLocal
            <4>1. settings.mode \in {"demo", "local"}
                BY <3>2, SettingsAssumption DEF AssembleLocal, Production
            <4>2. QED
                BY <3>2, <4>1 DEF AssembleLocal
        <3>3. CASE Connect \/ CheckCorpus \/ LoadEncoder \/ OpenSaver \/ OpenStore
            BY <3>3 DEF Connect, CheckCorpus, LoadEncoder, OpenSaver, OpenStore, Assembled
        <3>4. CASE ProductionFails \/ Degrade \/ Probe
            BY <3>4 DEF ProductionFails, CloseResources, AssemblyError, Degrade, Probe
        <3>5. QED
            BY <1>4, <3>1, <3>2, <3>3, <3>4 DEF RuntimeStep
    <2>4. QED
        BY <1>1, <2>1, <2>2, <2>3 DEF TypeOK, Viewed, turnVars
<1>5. QED
    BY <1>2, <1>3, <1>4

\* What a node's step does to the turn's own variables.
LEMMA TurnVariables ==
    ASSUME TypeOK, Viewed, TurnStep
    PROVE  /\ request' \in Requests
           /\ viewed' \in Skill \cup {NoSkill}
           /\ attempts' \in 0 .. MaxAttempts
           /\ plan' \in Plan
           /\ pc' \in {"rest"} \cup Step
           /\ pc' = "plan" => viewed' \in Valid /\ PolicyScenes \subseteq DOMAIN PoliciesOf[viewed']
           /\ messages' = messages
                \/ messages' = AppendRecent(messages, <<[role |-> "assistant", text |-> Reply]>>)
           /\ traceOf' \in {traceOf, turn}
<1> USE TurnAssumption DEF TypeOK, TurnTypeOK, Viewed, Step, Searching, TurnForgotten
<1> DEFINE Rest == /\ UNCHANGED <<request, messages, traceOf>>
                   /\ pc' = "rest" /\ TurnForgotten
<1>1. DemoPlan \in Plan /\ UnsafePlan \in Plan
    <2>1. BaseExcluded \in SUBSET Topic /\ {BoundaryTopic} \in SUBSET Topic /\ {} \in SUBSET Topic
          /\ {} \in SUBSET Scene
        BY SceneAssumption
    <2>2. QED
        BY <2>1 DEF DemoPlan, UnsafePlan, Plan
<1>2. CASE Rest
    BY <1>1, <1>2
<1>3. CASE MakeContext \/ EncoderMissing \/ AnswerWithoutModel \/ AnswerWithModel
    BY <1>3 DEF MakeContext, EncoderMissing, AnswerWithoutModel, AnswerWithModel
<1>4. CASE PlanWithoutModel
    BY <1>1, <1>4 DEF PlanWithoutModel
<1>5. CASE CallAgain
    BY <1>5 DEF CallAgain, NextAttempt
<1>6. CASE PlanWithModel
    <2>1. pc = "plan"
        BY <1>6 DEF PlanWithModel
    <2>2. Policies \in [PolicyScenes -> Policy]
        BY <2>1 DEF Policies
    <2>3. plan' \in Plan
        <3>1. PICK answer \in Plans, missing \in BOOLEAN :
                  plan' = FinishedPlan(answer, Policies, missing)
            BY <1>6 DEF PlanWithModel
        <3>2. answer \in Plan
            OBVIOUS
        <3>3. QED
            BY <2>2, <3>1, <3>2, PlansAreFinished
    <2>4. QED
        BY <1>6, <2>3 DEF PlanWithModel
<1>7. CASE AskForPlan \/ BeginSearch \/ AskForAnswer
    <2>1. artifact \in Valid /\ viewed' = artifact /\ Valid \subseteq Skill
        BY <1>7, SkillAssumption DEF AskForPlan, BeginSearch, AskForAnswer, TakeView, Views, SkillLoaded
    <2>2. pc' = "plan" => PolicyScenes \subseteq DOMAIN PoliciesOf[artifact]
        BY <1>7 DEF AskForPlan, BeginSearch, AskForAnswer, TakeView, Views
    <2>3. QED
        BY <1>7, <2>1, <2>2 DEF AskForPlan, BeginSearch, AskForAnswer, TakeView
<1>8. CASE LexicalSearch \/ LexicalRaises \/ VectorSearch \/ VectorMissing \/ Expand \/ ExpandRaises
    BY <1>8 DEF LexicalSearch, LexicalRaises, VectorSearch, VectorMissing, Expand, ExpandRaises
<1>9. CASE RetrieveLocally \/ Trace
    BY <1>9 DEF RetrieveLocally, Trace
<1>10. CASE NoViewForPlan \/ PoliciesContradict \/ NoViewForRetrieval \/ NoViewForAnswer
              \/ PlanFails \/ RetrievalFails \/ AnswerFails
    BY <1>2, <1>10 DEF NoViewForPlan, PoliciesContradict, NoViewForRetrieval, NoViewForAnswer,
                       PlanFails, RetrievalFails, AnswerFails, RaisePlainly
<1>11. CASE ValidateOutput
    BY <1>1, <1>11 DEF ValidateOutput
<1>12. QED
    BY <1>3, <1>4, <1>5, <1>6, <1>7, <1>8, <1>9, <1>10, <1>11 DEF TurnStep

\* What it does to the connection.
LEMMA ConnectionTypes ==
    ASSUME RuntimeTypeOK, TurnStep
    PROVE  tx' \in {"closed", "idle", "open", "aborted", "lost"}
BY DEF RuntimeTypeOK, TurnStep, MakeContext, CallAgain, PlanWithoutModel, AskForPlan,
       NoViewForPlan, PlanWithModel, PoliciesContradict, PlanFails, NoViewForRetrieval,
       RetrieveLocally, EncoderMissing, BeginSearch, LexicalSearch, LexicalRaises,
       VectorSearch, VectorMissing, Expand, ExpandRaises, Trace, AnswerWithoutModel,
       AskForAnswer, NoViewForAnswer, AnswerWithModel, AnswerFails, ValidateOutput,
       RetrievalFails, TakeView, RaisePlainly, WriteTrace, WriteFailureTrace,
       MarkTraceFailure, Rollback, StatementWorks, StatementRaises

LEMMA TurnTypes ==
    ASSUME Core, TypeOK, Viewed, BeginTurn \/ TurnStep \/ Crash
    PROVE  TypeOK' /\ Viewed'
<1>1. rows' \subseteq Row /\ outcome' \in Seq(Outcome)
    <2>1. Core'
        BY StepCore DEF Next
    <2>2. QED
        BY <2>1 DEF Core, Books, Outcome
<1>2. turn \in 0 .. MaxTurns /\ MaxTurns \in Nat /\ outcome \in Seq(Outcome)
    BY TurnAssumption DEF TypeOK, TurnTypeOK, turn, Outcome
<1>3. CASE BeginTurn
    <2>1. From(request'.text) \in Message /\ messages \in Seq(Message)
        BY <1>3, TurnAssumption DEF BeginTurn, From, Message, TypeOK, TurnTypeOK
    <2>2. messages' \in Seq(Message) /\ Len(messages') <= Window
        BY <1>3, <2>1, WindowTypes DEF BeginTurn
    <2>3. turn' <= MaxTurns
        BY <1>2, <1>3 DEF BeginTurn, turn, Outcome
    <2>4. SkillTypeOK' /\ artifact' = artifact
        BY <1>3 DEF BeginTurn, Quiet, skillFiles, TypeOK, SkillTypeOK
    <2>5. RuntimeTypeOK'
        BY <1>3 DEF BeginTurn, Quiet, TypeOK, RuntimeTypeOK
    <2>6. TurnTypeOK' /\ Viewed'
        BY <1>1, <1>3, <2>2, <2>3, <2>4 DEF BeginTurn, TypeOK, TurnTypeOK, Step, Viewed, Outcome
    <2>7. QED
        BY <2>4, <2>5, <2>6 DEF TypeOK
<1>4. CASE TurnStep
    <2>1. Shape
        BY <1>4, TurnShape
    <2>2. SkillTypeOK' /\ artifact' = artifact
        BY <2>1 DEF Shape, Quiet, skillFiles, TypeOK, SkillTypeOK
    <2>3. RuntimeTypeOK'
        <3>1. tx' \in {"closed", "idle", "open", "aborted", "lost"}
            BY <1>4, ConnectionTypes DEF TypeOK
        <3>2. graphHeld' \in BOOLEAN
            BY <2>1 DEF Shape, TypeOK, RuntimeTypeOK
        <3>3. QED
            BY <2>1, <3>1, <3>2 DEF Shape, Quiet, TypeOK, RuntimeTypeOK
    <2>4. turn' = turn
        <3>1. CASE GoesOn
            BY <3>1 DEF turn
        <3>2. CASE Ends("failed") \/ Ends("answered")
            BY <2>1, <3>2, OutcomeEnds DEF Shape
        <3>3. QED
            BY <2>1, <3>1, <3>2 DEF Shape
    <2>5. messages' \in Seq(Message) /\ Len(messages') <= Window
        <3>1. [role |-> "assistant", text |-> Reply] \in Message
            BY TurnAssumption DEF Message
        <3>2. messages \in Seq(Message) /\ Len(messages) <= Window
            BY DEF TypeOK, TurnTypeOK
        <3>3. QED
            BY <1>4, <3>1, <3>2, TurnVariables, WindowTypes
    <2>6. TurnTypeOK' /\ Viewed'
        BY <1>1, <1>2, <1>4, <2>2, <2>4, <2>5, TurnVariables DEF TypeOK, TurnTypeOK, Viewed, Outcome
    <2>7. QED
        BY <2>2, <2>3, <2>6 DEF TypeOK
<1>5. CASE Crash
    <2>1. SkillTypeOK' /\ RuntimeTypeOK' /\ artifact' = NoSkill
        BY <1>5 DEF Crash, NewProcess, skillFiles, TypeOK, SkillTypeOK, RuntimeTypeOK
    <2>2. turn' = turn
        <3>1. CASE ~graphHeld
            BY <1>5, <3>1 DEF Crash, turn
        <3>2. CASE graphHeld
            <4>1. pc # "rest" /\ Ends("failed")
                BY <1>5, <3>2 DEF Crash, NewProcess, Core, Held
            <4>2. QED
                BY <4>1, OutcomeEnds
        <3>3. QED
            BY <3>1, <3>2
    <2>3. DemoPlan \in Plan
        <3>1. BaseExcluded \in SUBSET Topic /\ {} \in SUBSET Topic /\ {} \in SUBSET Scene
            BY SceneAssumption
        <3>2. QED
            BY <3>1 DEF DemoPlan, Plan
    <2>4. TurnTypeOK' /\ Viewed'
        BY <1>1, <1>2, <1>5, <2>1, <2>2, <2>3, TurnAssumption
        DEF Crash, TurnForgotten, TypeOK, TurnTypeOK, Viewed, Outcome
    <2>5. QED
        BY <2>1, <2>4 DEF TypeOK
<1>6. QED
    BY <1>3, <1>4, <1>5

\* Every variable keeps its type: in particular a plan that the policies finished
\* is a plan, a turn is asked at most MaxAttempts times, and the conversation
\* stays within its window.
THEOREM Types == Spec => []TypeOK
<1>1. Init => TypeOK /\ Viewed
    <2> SUFFICES ASSUME Init PROVE TypeOK /\ Viewed
        OBVIOUS
    <2>1. SkillTypeOK /\ RuntimeTypeOK
        <3>1. SkillTypeOK
            BY SkillAssumption, EditAssumption DEF Init, SkillInit, SkillTypeOK
        <3>2. starts \in 0 .. MaxStarts
            BY StartAssumption DEF Init, RuntimeInit
        <3>3. RuntimeTypeOK
            BY <3>2 DEF Init, RuntimeInit, RuntimeTypeOK
        <3>4. QED
            BY <3>1, <3>3
    <2>2. DemoPlan \in Plan
        <3>1. BaseExcluded \in SUBSET Topic /\ {} \in SUBSET Topic /\ {} \in SUBSET Scene
            BY SceneAssumption
        <3>2. QED
            BY <3>1 DEF DemoPlan, Plan
    <2>3. TurnTypeOK
        BY <2>2, TurnAssumption, WindowAssumption DEF Init, TurnInit, TurnTypeOK, turn
    <2>4. Viewed
        BY DEF Init, SkillInit, TurnInit, Viewed
    <2>5. QED
        BY <2>1, <2>3, <2>4 DEF TypeOK
<1>2. Core /\ TypeOK /\ Viewed /\ [Next]_vars => TypeOK' /\ Viewed'
    <2> SUFFICES ASSUME Core, TypeOK, Viewed, [Next]_vars PROVE TypeOK' /\ Viewed'
        OBVIOUS
    <2>1. CASE BeginTurn \/ TurnStep \/ Crash
        BY <2>1, TurnTypes
    <2>2. CASE \/ SkillFilesNext /\ UNCHANGED <<processVars, graphHeld, served, turnVars>>
               \/ (RuntimeStep \/ Readiness \/ Publish) /\ UNCHANGED turnVars
        BY <2>2, RuntimeTypes
    <2>3. CASE UNCHANGED vars
        BY <2>3 DEF vars, skillFiles, processVars, turnVars, TypeOK, SkillTypeOK, RuntimeTypeOK,
                    TurnTypeOK, turn, Viewed
    <2>4. QED
        BY <2>1, <2>2, <2>3 DEF Next
<1>3. QED
    BY <1>1, <1>2, CoreInvariant, PTL DEF Spec

-----------------------------------------------------------------------------
(* The conversation of a turn *)

\* While a turn runs, its message is the last of the conversation; and the context is
\* what build_context made of that conversation.
Remembered ==
    pc # "rest" =>
        /\ messages # <<>> /\ messages[Len(messages)] = From(request.text)
        /\ pc # "context" => context = BuildContext(request, LastOf(messages, Window))

\* A node that does not end the turn leaves the conversation alone, and the context
\* too if it is not build_context.
LEMMA TurnRemembers ==
    ASSUME TurnStep, pc' # "rest"
    PROVE  /\ pc # "rest" /\ messages' = messages /\ request' = request
           /\ MakeContext \/ (context' = context /\ pc # "context")
<1>1. CASE MakeContext
    BY <1>1 DEF MakeContext
<1>2. CASE EncoderMissing \/ AnswerWithoutModel \/ AnswerWithModel \/ PlanWithoutModel \/ PlanWithModel
    BY <1>2 DEF EncoderMissing, AnswerWithoutModel, AnswerWithModel, PlanWithoutModel, PlanWithModel
<1>3. CASE CallAgain
    BY <1>3 DEF CallAgain
<1>4. CASE AskForPlan \/ BeginSearch \/ AskForAnswer
    BY <1>4 DEF AskForPlan, BeginSearch, AskForAnswer, TakeView
<1>5. CASE LexicalSearch \/ LexicalRaises \/ VectorSearch \/ VectorMissing \/ Expand \/ ExpandRaises
    BY <1>5 DEF LexicalSearch, LexicalRaises, VectorSearch, VectorMissing, Expand, ExpandRaises
<1>6. CASE RetrieveLocally \/ Trace
    BY <1>6 DEF RetrieveLocally, Trace
<1>7. CASE NoViewForPlan \/ PoliciesContradict \/ NoViewForRetrieval \/ NoViewForAnswer
             \/ PlanFails \/ RetrievalFails \/ AnswerFails \/ ValidateOutput
    BY <1>7 DEF NoViewForPlan, PoliciesContradict, NoViewForRetrieval, NoViewForAnswer,
                PlanFails, RetrievalFails, AnswerFails, RaisePlainly, ValidateOutput
<1>8. QED
    BY <1>1, <1>2, <1>3, <1>4, <1>5, <1>6, <1>7 DEF TurnStep

\* The last of the messages after append_recent is the one that was appended.
LEMMA LastAppended ==
    ASSUME NEW old \in Seq(Message), NEW m \in Message, NEW new, new = AppendRecent(old, <<m>>)
    PROVE  new # <<>> /\ new[Len(new)] = m
<1> DEFINE all == old \o <<m>>
<1>1. all \in Seq(Message) /\ all # <<>> /\ all[Len(all)] = m
    <2>1. all \in Seq(Message) /\ Len(all) = Len(old) + 1 /\ all[Len(old) + 1] = m
        OBVIOUS
    <2>2. QED
        BY <2>1
<1>2. new = LastOf(all, Window)
    BY DEF AppendRecent
<1> HIDE DEF all
<1>3. QED
    BY <1>1, <1>2, LastMessages

LEMMA StepRemembers ==
    ASSUME TypeOK, Remembered, [Next]_vars
    PROVE  Remembered'
<1>1. CASE BeginTurn
    <2>1. messages \in Seq(Message) /\ From(request'.text) \in Message
        BY <1>1, TurnAssumption DEF BeginTurn, From, Message, TypeOK, TurnTypeOK
    <2>2. messages' = AppendRecent(messages, <<From(request'.text)>>) /\ pc' = "context"
        BY <1>1 DEF BeginTurn
    <2>3. messages' # <<>> /\ messages'[Len(messages')] = From(request'.text)
        BY <2>1, <2>2, LastAppended
    <2>4. QED
        BY <2>2, <2>3 DEF Remembered, From
<1>2. CASE TurnStep
    <2>1. CASE pc' = "rest"
        BY <2>1 DEF Remembered
    <2>2. CASE pc' # "rest"
        <3>1. /\ pc # "rest" /\ messages' = messages /\ request' = request
              /\ MakeContext \/ (context' = context /\ pc # "context")
            BY <1>2, <2>2, TurnRemembers
        <3>2. CASE MakeContext
            <4>1. context' = BuildContext(request, LastOf(messages, Window))
                BY <3>2 DEF MakeContext
            <4>2. context' = BuildContext(request', LastOf(messages', Window))
                BY <3>1, <4>1
            <4>3. QED
                BY <3>1, <4>2 DEF Remembered, From
        <3>3. CASE context' = context /\ pc # "context"
            <4>1. context' = BuildContext(request', LastOf(messages', Window))
                BY <3>1, <3>3 DEF Remembered
            <4>2. QED
                BY <3>1, <4>1 DEF Remembered, From
        <3>4. QED
            BY <3>1, <3>2, <3>3
    <2>3. QED
        BY <2>1, <2>2
<1>3. CASE Crash
    BY <1>3 DEF Crash, Remembered
<1>4. CASE UNCHANGED turnVars
    BY <1>4 DEF turnVars, Remembered, BuildContext, LastOf, From
<1>5. QED
    BY <1>1, <1>2, <1>3, <1>4 DEF Next, vars

\* A turn's prompt has the conversation before it and nothing of itself, also where
\* the turn repeats an earlier message, and has all of it if all of it fits
\* (context_builder.py 37-57, schemas.py append_recent).
THEOREM HistoryIsKept == Spec => []HistoryIsPast
<1>1. Init => Remembered
    BY DEF Init, TurnInit, Remembered
<1>2. TypeOK /\ Remembered /\ [Next]_vars => Remembered'
    BY StepRemembers
<1>3. TypeOK /\ Remembered => HistoryIsPast
    <2> SUFFICES ASSUME TypeOK, Remembered, pc \notin {"rest", "context"} PROVE HistoryIsPast
        BY DEF HistoryIsPast
    <2> DEFINE past == SubSeq(messages, 1, Len(messages) - 1)
               start == Tokens[request.text]
               kept == Kept(start)[past]
               cost == MessageCosts(past)
               tried == Tried(past)
               used == After(TextCosts(past, tried), start)
    <2>1. messages \in Seq(Message) /\ Len(messages) <= Window /\ request \in Requests
        BY DEF TypeOK, TurnTypeOK
    <2>2. LastOf(messages, Window) = messages
        BY <2>1, LastMessages
    <2>3. messages # <<>> /\ messages[Len(messages)] = From(request.text)
          /\ context = BuildContext(request, messages)
        BY <2>2 DEF Remembered
    <2>4. Recent(messages, request.text) = past /\ Recent(messages, request.text) \in Seq(Message)
        BY <2>1, <2>3, RecentMessages
    <2>5. context.history = Picked(past, kept)
        BY <2>3, <2>4 DEF BuildContext
    <2>6. start \in Nat
        BY <2>1, TurnAssumption, WindowAssumption
    <2>7. /\ past \in Seq(Message) /\ kept = Kept(start)[past] /\ cost = MessageCosts(past)
          /\ tried = Tried(past) /\ used = After(TextCosts(past, tried), start)
        BY <2>4
    <2> HIDE DEF past, start, kept, cost, tried, used
    <2>8. kept \in SUBSET (DOMAIN past) /\ (start + Total(cost) <= ContextBudget => kept = DOMAIN past)
        BY <2>6, <2>7, KeptMessages
    <2>9. kept = DOMAIN past => Picked(past, kept) = past
        BY <2>7, <2>8, PickedAt
    <2>10. cost = [i \in DOMAIN past |-> Tokens[past[i].text]]
        BY <2>7 DEF MessageCosts
    <2>11. QED
        BY <2>5, <2>8, <2>9, <2>10 DEF HistoryIsPast, past, start
<1>4. QED
    BY <1>1, <1>2, <1>3, Types, PTL DEF Spec

=============================================================================

----------------------------- MODULE AppRuntime -----------------------------
(***************************************************************************)
(* AppRuntime of backend/app/bootstrap/runtime.py: start, its three        *)
(* assemblies and the degraded one, readiness, close and shutdown, and the *)
(* end of the process.                                                     *)
(*                                                                         *)
(* start, close and shutdown run under the runtime's lock, so that one of  *)
(* them is in progress at a time; their steps are separate because each    *)
(* may raise.  The graph lock is held by a turn (AgentTurn); close waits   *)
(* for it with the runtime's lock in its hand.                             *)
(***************************************************************************)
EXTENDS SkillRuntime

CONSTANTS
    Corpus,         \* the corpus versions that may be published
    Expected,       \* the version the settings name
    Settings,       \* the settings a process may be started with
    MaxStarts       \* bound on calls of start that assemble anything

ASSUME CorpusAssumption == Expected \in Corpus
ASSUME SettingsAssumption ==
    Settings \subseteq [mode : {"demo", "local", "production"},
                        modelConfigured : BOOLEAN, lexicalOnly : BOOLEAN]
ASSUME StartAssumption == MaxStarts \in Nat

VARIABLES
    settings,       \* the settings of this process
    stage,          \* how far start or close is
    shut,           \* _shutdown
    errors,         \* readiness_errors
    backend,        \* the assembly that the services were built on
    open,           \* the resources in _closers
    tx,             \* the transaction state of the repository's connection
    draining,       \* chat_service._draining
    graphHeld,      \* a turn holds graph_lock
    served,         \* the version whose status is published
    starts

processVars == <<settings, stage, shut, errors, backend, open, tx, draining, starts>>

\* start in progress, from its first line to its return
Starting == {"skill", "assemble", "corpus", "encoder", "saver", "store",
             "degraded", "probe", "finish"}

RuntimeTypeOK ==
    /\ settings \in Settings
    /\ stage \in Starting \cup {"down", "up", "closing"}
    /\ shut \in BOOLEAN
    /\ errors \subseteq {"skill", "model", "assembly"}
    /\ backend \in {"none", "demo", "local", "postgres", "degraded"}
    /\ open \subseteq {"repository", "checkpoints", "threads"}
    /\ tx \in {"closed", "idle", "open", "aborted", "lost"}
    /\ draining \in BOOLEAN
    /\ graphHeld \in BOOLEAN
    /\ served \in Corpus
    /\ starts \in 0 .. MaxStarts

RuntimeInit ==
    /\ settings \in Settings
    /\ stage = "down"
    /\ shut = FALSE
    /\ errors = {}
    /\ backend = "none"
    /\ open = {}
    /\ tx = "closed"
    /\ draining = FALSE
    /\ graphHeld = FALSE
    /\ served \in Corpus
    /\ starts = 0

-----------------------------------------------------------------------------
(* start *)

Production == settings.mode = "production"

\* Slip: the resources opened so far are forgotten, not closed.
ForgetResources == open' = {} /\ UNCHANGED tx

\* _close_resources: what a closer raises is swallowed.
CloseResources == open' = {} /\ tx' = "closed"

\* The first lines of start.  After shutdown it raises, and when it has been
\* started it returns at once; neither changes anything.
Start ==
    /\ stage = "down" /\ ~shut
    /\ starts < MaxStarts
    /\ starts' = starts + 1
    /\ stage' = "skill"
    /\ errors' = {}
    /\ UNCHANGED <<skillFiles, artifact, settings, shut, backend, open, tx,
                   draining, graphHeld, served>>

LoadSkill ==
    /\ stage = "skill"
    /\ CheckSkill
    /\ errors' = (IF artifact' = NoSkill THEN {"skill"} ELSE {})
                 \cup (IF settings.mode # "demo" /\ ~settings.modelConfigured
                       THEN {"model"} ELSE {})
    /\ stage' = "assemble"
    /\ UNCHANGED <<skillFiles, settings, shut, backend, open, tx, draining,
                   graphHeld, served, starts>>

\* The except of start: everything is closed, and start raises.
FailStart ==
    /\ stage \in {"assemble", "degraded", "finish"}
    /\ stage = "assemble" => ~Production
    /\ CloseResources
    /\ stage' = "down"
    /\ UNCHANGED <<skillFiles, artifact, settings, shut, errors, backend,
                   draining, graphHeld, served, starts>>

\* _assemble_local_dependencies
AssembleLocal ==
    /\ stage = "assemble" /\ ~Production
    /\ backend' = settings.mode
    /\ open' = {"checkpoints", "threads"}
    /\ stage' = "finish"
    /\ UNCHANGED <<skillFiles, artifact, settings, shut, errors, tx, draining,
                   graphHeld, served, starts>>

\* The steps of _assemble_production_dependencies that go well: each opens its
\* resource and leaves the rest alone.
Assembled(at, next, resource) ==
    /\ stage = at /\ Production
    /\ open' = open \cup resource
    /\ stage' = next
    /\ UNCHANGED <<skillFiles, artifact, settings, shut, errors, draining,
                   graphHeld, served, starts>>

Connect == Assembled("assemble", "corpus", {"repository"}) /\ tx' = "idle" /\ UNCHANGED backend

\* Repository.readiness asks for the published version and ends no transaction.
CheckCorpus ==
    /\ Assembled("corpus", "encoder", {})
    /\ served = Expected
    /\ tx' = "open"
    /\ UNCHANGED backend

\* Without its encoder the service may start on lexical search alone; the
\* reranker may be missing.  Both are failures of a turn's own steps then.
LoadEncoder == Assembled("encoder", "saver", {}) /\ UNCHANGED <<tx, backend>>

OpenSaver == Assembled("saver", "store", {"checkpoints"}) /\ UNCHANGED <<tx, backend>>

OpenStore ==
    /\ Assembled("store", "probe", {"threads"})
    /\ backend' = "postgres"
    /\ UNCHANGED tx

\* Slip: the error is logged and not kept.
ErrorForgotten == UNCHANGED errors

\* _assemble_dependencies keeps what the assembly raised.
AssemblyError == errors' = errors \cup {"assembly"}

\* Any of these steps may raise, the encoder's only if it has to be there.
ProductionFails ==
    /\ Production
    /\ stage \in {"assemble", "corpus", "encoder", "saver", "store"}
    /\ stage = "encoder" => ~settings.lexicalOnly
    /\ CloseResources
    /\ AssemblyError
    /\ stage' = "degraded"
    /\ UNCHANGED <<skillFiles, artifact, settings, shut, backend, draining,
                   graphHeld, served, starts>>

\* The process goes on with a retrieval that raises, a checkpointer in memory
\* and the local thread store.
Degrade ==
    /\ stage = "degraded"
    /\ backend' = "degraded"
    /\ open' = {"threads"}
    /\ stage' = "finish"
    /\ UNCHANGED <<skillFiles, artifact, settings, shut, errors, tx, draining,
                   graphHeld, served, starts>>

\* The model is probed only when nothing else is wrong.
Probe ==
    /\ stage = "probe"
    /\ \/ UNCHANGED errors
       \/ errors = {} /\ errors' = {"model"}
    /\ stage' = "finish"
    /\ UNCHANGED <<skillFiles, artifact, settings, shut, backend, open, tx,
                   draining, graphHeld, served, starts>>

\* Nodes, graph and a new ChatService, which is not draining; it shares the
\* list of errors.  Pending deletions are finished (ChatSession!Start).
FinishStart ==
    /\ stage = "finish"
    /\ draining' = FALSE
    /\ stage' = "up"
    /\ UNCHANGED <<skillFiles, artifact, settings, shut, errors, backend, open,
                   tx, graphHeld, served, starts>>

-----------------------------------------------------------------------------
(* readiness, close, shutdown, and the end of the process *)

\* A probe of a started runtime reports the errors of the start and checks the
\* skill anew, without any lock.
Readiness ==
    /\ stage \in {"up", "closing"}
    /\ CheckSkill
    /\ UNCHANGED <<skillFiles, processVars, graphHeld, served>>

\* close, or shutdown when it is for good
BeginClose ==
    /\ stage = "up"
    /\ shut' \in {shut, TRUE}
    /\ draining' = TRUE
    /\ stage' = "closing"
    /\ UNCHANGED <<skillFiles, artifact, settings, errors, backend, open, tx,
                   graphHeld, served, starts>>

\* Slip: the connections are closed without waiting for the graph lock.
CloseAtOnce == stage = "closing"

GraphLockFree == stage = "closing" /\ ~graphHeld

FinishClose ==
    /\ GraphLockFree
    /\ CloseResources
    /\ stage' = "down"
    /\ UNCHANGED <<skillFiles, artifact, settings, shut, errors, backend,
                   draining, graphHeld, served, starts>>

\* The process dies and another one is started with the same settings.
NewProcess ==
    /\ stage' = "down"
    /\ shut' = FALSE
    /\ errors' = {}
    /\ backend' = "none"
    /\ open' = {}
    /\ tx' = "closed"
    /\ draining' = FALSE
    /\ graphHeld' = FALSE
    /\ artifact' = NoSkill
    /\ UNCHANGED <<skillFiles, settings, served, starts>>

\* Another version is published, or one is rolled back to (CorpusLifecycle).
Publish ==
    /\ served' \in Corpus \ {served}
    /\ UNCHANGED <<skillFiles, artifact, processVars, graphHeld>>

RuntimeStep ==
    \/ Start \/ LoadSkill \/ FailStart \/ AssembleLocal
    \/ Connect \/ CheckCorpus \/ LoadEncoder \/ OpenSaver \/ OpenStore
    \/ ProductionFails \/ Degrade \/ Probe \/ FinishStart
    \/ BeginClose \/ FinishClose

=============================================================================

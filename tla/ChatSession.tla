----------------------------- MODULE ChatSession -----------------------------
(***************************************************************************)
(* ChatService of backend/app/services/chat_service.py with what it rules  *)
(* over: the metadata rows of ThreadStore, the LangGraph checkpoints, the  *)
(* global graph lock, the event streams of backend/app/api/v1/routes.py    *)
(* and, from backend/app/bootstrap/runtime.py, draining, closing and the   *)
(* clean-up of unfinished deletions at the next start.                     *)
(*                                                                         *)
(* The lease of a conversation is taken and given back by the actions of   *)
(* ConversationMutex, which ThreadLocks is proved to implement.            *)
(*                                                                         *)
(* Endpoints are synchronous: an endpoint, and each next() of an event     *)
(* stream, runs in a thread of one bounded pool and keeps that thread      *)
(* while it waits for a lease or for the graph lock.  A stream between two *)
(* next() calls has no thread but keeps its lease.  The two databases may  *)
(* fail at any call; a request is sent once (the client's retry is another *)
(* request).                                                               *)
(***************************************************************************)
EXTENDS Naturals, FiniteSets

CONSTANTS
    Request,        \* the HTTP requests a behaviour may contain
    Kinds,          \* the operations they ask for, out of chat, get, delete
    Owner,          \* the device ids
    Thread,         \* the thread_id values
    NoThread,       \* no conversation
    Nobody,         \* no owner, no holder of the graph lock
    PoolSize,       \* the threads of the worker pool
    MaxRestarts     \* bound on process restarts

ASSUME PoolAssumption == PoolSize \in Nat \ {0}
ASSUME RestartAssumption == MaxRestarts \in Nat
ASSUME KindAssumption == Kinds \subseteq {"chat", "get", "delete"}
ASSUME NobodyAssumption == Nobody \notin Request \cup Owner /\ NoThread \notin Thread

VARIABLES
    wants, inside,  \* the leases, as in ConversationMutex
    op,             \* op[r]: what request r asks for, by whom, of which thread
    pc,             \* how far request r is
    outcome,        \* what request r came to
    abandoned,      \* streams closed while their generator was running
    graphLock,      \* the holder of the runtime's graph_lock
    row,            \* ThreadStore: the metadata row of each thread
    saved,          \* checkpointer: the messages of each thread
    phase,          \* the process: up, draining, closed or down
    restarts,       \* restarts so far
    claimed,        \* history: the life of the conversation a chat claimed
    deleted,        \* history: the conversations whose deletion was reported
    seen            \* history: the messages a get returned

vars == <<wants, inside, op, pc, outcome, abandoned, graphLock, row, saved,
          phase, restarts, claimed, deleted, seen>>

\* Where a request is while it keeps a pool thread.
Running == {"waiting", "leased", "checked", "turn", "thinking",
            "tombstoned", "wiped", "undo"}
\* Where a stream is between two next() calls.
Paused == {"open", "started", "told", "ended"}
Over == {"done", "gone"}

\* One message of a conversation.  life tells apart the conversations that had
\* the same thread_id one after the other.
Message == [turn : Request, part : {"user", "assistant"}, life : Nat]

TypeOK ==
    /\ wants \in [Request -> Thread \cup {NoThread}]
    /\ inside \subseteq Request
    /\ op \in [Request -> [kind : Kinds \cup {"none"}, owner : Owner \cup {Nobody},
                           thread : Thread \cup {NoThread}]]
    /\ pc \in [Request -> {"new"} \cup Running \cup Paused \cup Over]
    /\ outcome \in [Request -> {"none", "complete", "error", "read", "deleted",
                                "refused", "missing", "failed"}]
    /\ abandoned \subseteq {r \in Request : pc[r] \in {"turn", "thinking"}}
    /\ graphLock \in Request \cup {Nobody}
    /\ row \in [Thread -> [owner : Owner \cup {Nobody}, deleting : BOOLEAN, life : Nat]]
    /\ saved \in [Thread -> SUBSET Message]
    /\ phase \in {"up", "draining", "closed", "down"}
    /\ restarts \in 0 .. MaxRestarts
    /\ claimed \in [Request -> Nat]
    /\ deleted \subseteq Thread \X Nat
    /\ seen \in [Request -> SUBSET Message]

Init ==
    /\ wants = [r \in Request |-> NoThread]
    /\ inside = {}
    /\ op = [r \in Request |-> [kind |-> "none", owner |-> Nobody, thread |-> NoThread]]
    /\ pc = [r \in Request |-> "new"]
    /\ outcome = [r \in Request |-> "none"]
    /\ abandoned = {}
    /\ graphLock = Nobody
    /\ row = [t \in Thread |-> [owner |-> Nobody, deleting |-> FALSE, life |-> 0]]
    /\ saved = [t \in Thread |-> {}]
    /\ phase = "up"
    /\ restarts = 0
    /\ claimed = [r \in Request |-> 0]
    /\ deleted = {}
    /\ seen = [r \in Request |-> {}]

-----------------------------------------------------------------------------
(* The pool, the lease and the end of a request *)

Lease == INSTANCE ConversationMutex WITH Caller <- Request

leases == <<wants, inside>>
stores == <<row, saved, deleted, claimed>>
process == <<phase, restarts>>

ThreadFree == Cardinality({r \in Request : pc[r] \in Running}) < PoolSize

Goto(r, l) == pc' = [pc EXCEPT ![r] = l]
Conclude(r, o) == outcome' = [outcome EXCEPT ![r] = o]

(* As in ThreadLocks, a definition called a slip is used by no action: it is  *)
(* a mistake the code could make in the definition that follows it.           *)

\* Slip: an error is answered without giving the lease back.
AnswerWithLease(r, o) ==
    /\ UNCHANGED leases
    /\ Goto(r, "done")
    /\ Conclude(r, o)

\* A request that held its conversation's lease answers o and gives it back.
Answer(r, o) ==
    /\ Lease!Leave(r)
    /\ Goto(r, "done")
    /\ Conclude(r, o)

-----------------------------------------------------------------------------
(* ThreadStore *)

\* owns, and the ownership test of claim: the row is there, belongs to this
\* device and is not being deleted.
Owns(r) ==
    LET w == row[op[r].thread] IN w.owner = op[r].owner /\ ~w.deleting

\* begin_delete, cancel_delete
SetDeleting(t, b) == row' = [row EXCEPT ![t].deleting = b]

\* finalize_delete removes the row; a row claimed later is another conversation.
NoRow(t) == [owner |-> Nobody, deleting |-> FALSE, life |-> row[t].life + 1]
RemoveRow(t) == row' = [row EXCEPT ![t] = NoRow(t)]

\* claim's INSERT ... ON CONFLICT DO NOTHING takes a thread_id without a row.
Unclaimed(t) == row[t].owner = Nobody
InsertRow(r) == row' = [row EXCEPT ![op[r].thread].owner = op[r].owner]

\* Slip: the row becomes visible again when it could not be removed.
RestoreRow(t) == SetDeleting(t, FALSE)

\* finalize_delete raised: the row stays as a tombstone.
KeepTombstone(t) == UNCHANGED row

\* Slip: nothing is deleted.
EraseNothing(t) == UNCHANGED saved

\* checkpointer.delete_thread
Erase(t) == saved' = [saved EXCEPT ![t] = {}]

-----------------------------------------------------------------------------
(* The graph lock *)

\* Slip: the lock is not waited for.
GraphIgnored == TRUE

\* Nobody is using the graph and the stores.
GraphFree == graphLock = Nobody

\* Slip: a path out of the `with self._graph_lock` block leaves it locked.
GraphKept == UNCHANGED graphLock

\* The end of a `with self._graph_lock` block.
GraphLeft == graphLock' = Nobody

-----------------------------------------------------------------------------
(* Requests *)

\* A request reaches its endpoint and queues for the lease of its thread.  A
\* chat is turned away at once while the service drains; the other two learn
\* of it only under the graph lock.
Arrive(r, kind, o, t) ==
    /\ pc[r] = "new"
    /\ phase # "down" /\ (kind = "chat" => phase = "up")
    /\ ThreadFree
    /\ op' = [op EXCEPT ![r] = [kind |-> kind, owner |-> o, thread |-> t]]
    /\ Lease!Ask(r, t)
    /\ Goto(r, "waiting")
    /\ UNCHANGED <<outcome, abandoned, graphLock, stores, process, seen>>

ObtainLease(r) ==
    /\ pc[r] = "waiting"
    /\ Lease!Enter(r)
    /\ Goto(r, "leased")
    /\ UNCHANGED <<op, outcome, abandoned, graphLock, stores, process, seen>>

\* stream_chat: the state is looked at again once the lease is there.
Recheck(r) ==
    /\ pc[r] = "leased" /\ op[r].kind = "chat"
    /\ \/ /\ phase = "up"
          /\ Goto(r, "checked")
          /\ UNCHANGED <<leases, outcome>>
       \/ /\ phase # "up"
          /\ Answer(r, "refused")
    /\ UNCHANGED <<op, abandoned, graphLock, stores, process, seen>>

\* Slip: the lease is given back on every way out of stream_chat.
LeaseReturned(r) == Lease!Leave(r)

\* stream_chat: on success the lease goes to the stream.
LeaseHandedOver(r) == UNCHANGED leases

\* stream_chat: claim inserts the row if there is none and tells whether it is
\* this device's.  On any other outcome the lease is given back at once.
Claim(r) ==
    /\ pc[r] = "checked"
    /\ \/ /\ phase # "closed"
          /\ \/ Unclaimed(op[r].thread) /\ InsertRow(r)
             \/ Owns(r) /\ UNCHANGED row
          /\ claimed' = [claimed EXCEPT ![r] = row[op[r].thread].life]
          /\ LeaseHandedOver(r)
          /\ Goto(r, "open")
          /\ UNCHANGED outcome
       \/ /\ phase # "closed"
          /\ ~Unclaimed(op[r].thread) /\ ~Owns(r)
          /\ Answer(r, "missing")
          /\ UNCHANGED <<row, claimed>>
       \/ /\ Answer(r, "failed")     \* the store raised; a closed one always does
          /\ UNCHANGED <<row, claimed>>
    /\ UNCHANGED <<op, abandoned, graphLock, saved, deleted, process, seen>>

-----------------------------------------------------------------------------
(* The event stream *)

\* The framework asks for the next event as soon as a pool thread is free.
\* Only the graph turn takes time; the other events are made at once.
NextEvent(r, from, to) ==
    /\ pc[r] = from
    /\ ThreadFree
    /\ Goto(r, to)
    /\ UNCHANGED <<leases, op, outcome, abandoned, graphLock, stores, process, seen>>

YieldStart(r) == NextEvent(r, "open", "started")
BeginTurn(r) == NextEvent(r, "started", "turn")
YieldEnd(r) == NextEvent(r, "told", "ended")

\* Slip: a stream that was closed in the meantime is still counted as running.
TellAnyone(r, o) ==
    /\ Conclude(r, o)
    /\ Goto(r, IF r \in abandoned THEN "gone" ELSE "told")
    /\ UNCHANGED abandoned

\* The generator yields the result of the turn.  If the stream was closed in
\* the meantime nobody takes it, and the generator is never resumed.
Tell(r, o) ==
    /\ Conclude(r, o)
    /\ Goto(r, IF r \in abandoned THEN "gone" ELSE "told")
    /\ abandoned' = abandoned \ {r}

Write(r, part) ==
    LET t == op[r].thread IN
    saved' = [saved EXCEPT ![t] = @ \cup {[turn |-> r, part |-> part, life |-> row[t].life]}]

\* Slip: ownership was checked by claim and is not checked again.
MayTurnOnceClaimed(r) == phase = "up"

\* Slip: draining was checked before the lease and is not checked again.
MayTurnWhenOwned(r) == Owns(r)

\* Under the graph lock, the turn is refused when the service drains or the
\* conversation is no longer this device's.
MayTurn(r) == phase = "up" /\ Owns(r)

\* events(): the graph lock is taken, the test passes and the graph starts by
\* checkpointing the user's message.
EnterTurn(r) ==
    /\ pc[r] = "turn" /\ GraphFree
    /\ MayTurn(r)
    /\ graphLock' = r
    /\ Write(r, "user")
    /\ Goto(r, "thinking")
    /\ UNCHANGED <<leases, op, outcome, abandoned, row, deleted, claimed, process, seen>>

\* events(): the test fails, or the store or the graph raises before anything
\* is written; the lock is free again when the error is told.
RefuseTurn(r) ==
    /\ pc[r] = "turn" /\ GraphFree
    /\ Tell(r, "error")
    /\ UNCHANGED <<leases, op, graphLock, stores, process, seen>>

\* The graph returns: the answer is checkpointed.
FinishTurn(r) ==
    /\ pc[r] = "thinking"
    /\ Write(r, "assistant")
    /\ GraphLeft
    /\ Tell(r, "complete")
    /\ UNCHANGED <<leases, op, row, deleted, claimed, process, seen>>

\* The graph raises: the user's message stays without an answer.
FailTurn(r) ==
    /\ pc[r] = "thinking"
    /\ GraphLeft
    /\ Tell(r, "error")
    /\ UNCHANGED <<leases, op, stores, process, seen>>

\* next() finds the generator exhausted, and __next__ closes the stream.
Exhaust(r) ==
    /\ pc[r] = "ended"
    /\ ThreadFree
    /\ Lease!Leave(r)
    /\ Goto(r, "done")
    /\ UNCHANGED <<op, outcome, abandoned, graphLock, stores, process, seen>>

\* The client disconnects, or the framework cancels the response: close() is
\* called.  A paused generator is closed; a running one raises ValueError and
\* keeps running; the lease is given back either way.
CloseStream(r) ==
    /\ r \in inside
    /\ \/ /\ pc[r] \in Paused
          /\ Goto(r, "gone")
          /\ UNCHANGED abandoned
       \/ /\ pc[r] \in {"turn", "thinking"}
          /\ abandoned' = abandoned \cup {r}
          /\ UNCHANGED pc
    /\ Lease!Leave(r)
    /\ UNCHANGED <<op, outcome, graphLock, stores, process, seen>>

-----------------------------------------------------------------------------
(* Reading and deleting *)

\* get_thread and delete_thread begin alike: lease, graph lock, state, owner.
Rejected(r) ==
    /\ \/ phase # "up" /\ Answer(r, "refused")
       \/ phase = "up" /\ ~Owns(r) /\ Answer(r, "missing")
       \/ phase = "up" /\ Answer(r, "failed")       \* the store raised
    /\ UNCHANGED <<op, abandoned, graphLock, stores, process, seen>>

\* get_thread: all of it under the graph lock, where nothing else can happen.
ReadThread(r) ==
    /\ pc[r] = "leased" /\ op[r].kind = "get"
    /\ GraphFree
    /\ \/ Rejected(r)
       \/ /\ phase = "up" /\ Owns(r)
          /\ seen' = [seen EXCEPT ![r] = saved[op[r].thread]]
          /\ Answer(r, "read")
          /\ UNCHANGED <<op, abandoned, graphLock, stores, process>>

\* delete_thread: the tombstone.  The graph lock is kept until the end.
BeginDelete(r) ==
    /\ pc[r] = "leased" /\ op[r].kind = "delete"
    /\ GraphFree
    /\ \/ Rejected(r)
       \/ /\ phase = "up" /\ Owns(r)
          /\ graphLock' = r
          /\ SetDeleting(op[r].thread, TRUE)
          /\ Goto(r, "tombstoned")
          /\ UNCHANGED <<leases, op, outcome, abandoned, saved, deleted, claimed, process, seen>>

\* delete_thread: the checkpoint goes, or the checkpointer raises, with or
\* without the messages gone.
WipeCheckpoint(r) ==
    /\ pc[r] = "tombstoned"
    /\ \/ Erase(op[r].thread) /\ Goto(r, "wiped")
       \/ Erase(op[r].thread) /\ Goto(r, "undo")
       \/ UNCHANGED saved /\ Goto(r, "undo")
    /\ UNCHANGED <<leases, op, outcome, abandoned, graphLock, row, deleted, claimed, process, seen>>

\* delete_thread: the checkpointer raised; the tombstone is taken back, unless
\* that raises too.  The client is told of the failure.
UndoDelete(r) ==
    /\ pc[r] = "undo"
    /\ \/ SetDeleting(op[r].thread, FALSE)
       \/ UNCHANGED row
    /\ GraphLeft
    /\ Answer(r, "failed")
    /\ UNCHANGED <<op, abandoned, saved, deleted, claimed, process, seen>>

\* delete_thread: the row goes; if that raises it stays as a tombstone and the
\* client is told all the same that the conversation is deleted.
FinalizeDelete(r) ==
    LET t == op[r].thread IN
    /\ pc[r] = "wiped"
    /\ \/ RemoveRow(t)
       \/ KeepTombstone(t)
    /\ deleted' = deleted \cup {<<t, row[t].life>>}
    /\ GraphLeft
    /\ Answer(r, "deleted")
    /\ UNCHANGED <<op, abandoned, saved, claimed, process, seen>>

-----------------------------------------------------------------------------
(* The process *)

\* shutdown: begin_draining, which waits for nobody.
BeginDraining ==
    /\ phase = "up"
    /\ phase' = "draining"
    /\ UNCHANGED <<leases, op, pc, outcome, abandoned, graphLock, stores, restarts, seen>>

\* shutdown: the connections are closed under the graph lock.
CloseResources ==
    /\ phase = "draining"
    /\ GraphFree
    /\ phase' = "closed"
    /\ UNCHANGED <<leases, op, pc, outcome, abandoned, graphLock, stores, restarts, seen>>

\* The process ends, after closing or by a crash: every request, lease, lock
\* and stream is lost, the two databases stay as they are.
Stop ==
    /\ phase # "down" /\ restarts < MaxRestarts
    /\ phase' = "down"
    /\ restarts' = restarts + 1
    /\ wants' = [r \in Request |-> NoThread]
    /\ inside' = {}
    /\ pc' = [r \in Request |-> IF pc[r] \in {"new"} \cup Over THEN pc[r] ELSE "gone"]
    /\ abandoned' = {}
    /\ graphLock' = Nobody
    /\ UNCHANGED <<op, outcome, stores, seen>>

\* start: _finish_pending_deletions, before the first request.  Of each
\* tombstone the checkpoint is deleted and then the row; whichever call raises
\* leaves the rest for the next start.
Start ==
    /\ phase = "down"
    /\ phase' = "up"
    /\ \E wipe \in SUBSET {t \in Thread : row[t].deleting} : \E drop \in SUBSET wipe :
        /\ saved' = [t \in Thread |-> IF t \in wipe THEN {} ELSE saved[t]]
        /\ row' = [t \in Thread |-> IF t \in drop THEN NoRow(t) ELSE row[t]]
    /\ UNCHANGED <<leases, op, pc, outcome, abandoned, graphLock, restarts, deleted, claimed, seen>>

-----------------------------------------------------------------------------
\* What the pool threads and the framework do with a request once it is there.
Serve(r) ==
    \/ ObtainLease(r) \/ Recheck(r) \/ Claim(r)
    \/ YieldStart(r) \/ BeginTurn(r) \/ YieldEnd(r) \/ Exhaust(r)
    \/ EnterTurn(r) \/ RefuseTurn(r) \/ FinishTurn(r) \/ FailTurn(r)
    \/ ReadThread(r)
    \/ BeginDelete(r) \/ WipeCheckpoint(r) \/ UndoDelete(r) \/ FinalizeDelete(r)

Next ==
    \/ \E r \in Request :
        \/ \E k \in Kinds, o \in Owner, t \in Thread : Arrive(r, k, o, t)
        \/ Serve(r)
        \/ CloseStream(r)
    \/ BeginDraining \/ CloseResources \/ Stop \/ Start

Spec == Init /\ [][Next]_vars

\* Worker threads run, model and database calls end (they have timeouts), a
\* client reads what it is sent or disconnects, and shutdown goes on to close.
\* Nothing makes a client send a request or hang up, or the process stop.
Fairness ==
    /\ \A r \in Request : WF_vars(Serve(r))
    /\ WF_vars(CloseResources)

FairSpec == Spec /\ Fairness

-----------------------------------------------------------------------------
(* Properties *)

\* A turn runs, and its messages are written, only while the row of its thread
\* is there, not being deleted, and the requesting device's: the test under the
\* graph lock (events, line 171) still holds when the graph returns.
TurnsOnOwnThread ==
    \A r \in Request : pc[r] = "thinking" => graphLock = r /\ Owns(r)

\* Messages never outlive the row they belong to and never meet another
\* device's row or a later conversation of the same thread_id, whatever failed
\* or crashed during a deletion (delete_thread, lines 222-232).
ContentOwned ==
    \A t \in Thread : \A m \in saved[t] :
        row[t].owner = op[m.turn].owner /\ row[t].life = m.life

\* What was reported deleted does not come back: its row stays invisible until
\* it is gone and its messages are never seen again (line 229).
DeletedForGood ==
    \A t \in Thread : <<t, row[t].life>> \in deleted => row[t].deleting /\ saved[t] = {}

\* A reader gets messages of its own device only, and never half of a turn
\* under way: a user's message without its answer is one whose turn failed or
\* was lost with the process (get_thread reads under the graph lock).
ReadsAreSettled ==
    \A r \in Request : \A m \in seen[r] :
        /\ op[m.turn].owner = op[r].owner
        /\ \/ [m EXCEPT !.part = "assistant"] \in seen[r]
           \/ outcome[m.turn] = "error"
           \/ outcome[m.turn] = "none" /\ pc[m.turn] = "gone"

\* A stream keeps its conversation's lease until it is exhausted or closed; a
\* generator that is still running after close is the only exception.
StreamsHoldLease ==
    \A r \in Request :
        pc[r] \in Paused \cup {"checked", "turn", "thinking"} => r \in inside \cup abandoned

\* After shutdown has closed the connections nothing is read from or written
\* to the stores until the next start (_close_locked closes under graph_lock).
ClosedIsFinal == [][phase = "closed" => UNCHANGED <<stores, seen>>]_vars

\* Every request that reached its endpoint is answered and every stream gets to
\* its end event, or the client or the process went away: no lease, lock or
\* generator is left waiting for another.
Answered ==
    \A r \in Request : pc[r] # "new" ~> pc[r] \in {"ended"} \cup Over

\* "whatever becomes of the graph, the stream closes with end" (line 167): a
\* stream that sent start goes on to end, unless it is closed.
StreamsEnd == \A r \in Request : pc[r] = "started" ~> pc[r] \in {"ended"} \cup Over

\* Shutdown gets the graph lock and closes.
DrainCloses == phase = "draining" ~> phase \in {"closed", "down"}

\* "stream writes, reads and deletions of one conversation are strictly serial"
\* (lines 156-157): every message of a conversation was written by a turn that
\* claimed that conversation, not by one that claimed an earlier conversation
\* of the same thread_id, deleted since.
SerialWrites ==
    \A t \in Thread : \A m \in saved[t] : claimed[m.turn] = m.life

=============================================================================

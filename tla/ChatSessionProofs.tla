-------------------------- MODULE ChatSessionProofs --------------------------
(***************************************************************************)
(* For any requests, devices, thread_ids, pool size and number of          *)
(* restarts: ChatSession keeps its types, runs turns only on conversations *)
(* of the requesting device, never lets messages outlive or change their   *)
(* conversation, and never shows again what it reported deleted.           *)
(***************************************************************************)
EXTENDS ChatSession, TLAPS

\* Where a request has the graph lock.
Deleting == {"tombstoned", "wiped", "undo"}
Holding == {"thinking"} \cup Deleting

\* The graph lock has one holder, and the connections are open as long as it
\* has one.
LockHeld ==
    \A r \in Request : pc[r] \in Holding => graphLock = r /\ phase \in {"up", "draining"}

\* A request that has arrived is somebody's, about some conversation.
Known == \A r \in Request : pc[r] # "new" => op[r].owner \in Owner /\ op[r].thread \in Thread

\* A turn under way is on the device's own conversation.
TurnsOwned == \A r \in Request : pc[r] = "thinking" => Owns(r)

\* A deletion under way has its tombstone, was not reported yet, and once the
\* checkpoint is deleted it stays so.
DeletesUnderWay ==
    \A r \in Request : pc[r] \in Deleting =>
        LET t == op[r].thread IN
        /\ row[t].deleting
        /\ <<t, row[t].life>> \notin deleted
        /\ pc[r] = "wiped" => saved[t] = {}

\* Messages are those of requests that have arrived.
Authored == \A t \in Thread : \A m \in saved[t] : pc[m.turn] # "new"

\* What was reported deleted is not in the future.
DeletedPast == \A t \in Thread, n \in Nat : <<t, n>> \in deleted => n <= row[t].life

\* The inductive invariant, next to TypeOK.
Core ==
    /\ LockHeld /\ Known /\ TurnsOwned /\ DeletesUnderWay /\ Authored
    /\ ContentOwned /\ DeletedForGood /\ DeletedPast

-----------------------------------------------------------------------------
(* Lemmas *)

\* A step that leaves requests, rows, messages and reports as they are, and
\* gives nobody the graph lock or takes it from its holder, keeps Core.
LEMMA QuietStep ==
    ASSUME TypeOK, Core,
           UNCHANGED <<op, row, saved, deleted>>,
           \A r \in Request : pc[r] # "new" <=> pc'[r] # "new",
           \A r \in Request : pc'[r] \in Holding =>
               pc'[r] = pc[r] /\ graphLock' = graphLock /\ phase' \in {"up", "draining"}
    PROVE  Core'
<1>1. LockHeld'
    BY DEF Core, LockHeld
<1>2. Known'
    BY DEF Core, Known
<1>3. TurnsOwned'
    BY DEF Core, TurnsOwned, Owns, Holding
<1>4. DeletesUnderWay'
    BY DEF Core, DeletesUnderWay, Holding, Deleting
<1>5. Authored'
    <2> SUFFICES ASSUME NEW t \in Thread, NEW m \in saved[t]
                 PROVE  pc'[m.turn] # "new"
        BY DEF Authored
    <2>1. m.turn \in Request
        BY DEF TypeOK, Message
    <2>2. QED
        BY <2>1 DEF Core, Authored
<1>6. ContentOwned' /\ DeletedForGood' /\ DeletedPast'
    BY DEF Core, ContentOwned, DeletedForGood, DeletedPast
<1>7. QED
    BY <1>1, <1>2, <1>3, <1>4, <1>5, <1>6 DEF Core

\* Only one request at a time has the graph lock.
LEMMA OneHolder ==
    ASSUME TypeOK, LockHeld, NEW r \in Request, NEW s \in Request,
           pc[r] \in Holding, pc[s] \in Holding
    PROVE  r = s
BY DEF LockHeld

\* Nobody has it while it is free.
LEMMA NoHolder ==
    ASSUME TypeOK, LockHeld, GraphFree, NEW r \in Request
    PROVE  pc[r] \notin Holding
BY NobodyAssumption DEF LockHeld, GraphFree

-----------------------------------------------------------------------------
(* What the operations on the stores do *)

Rows == [owner : Owner \cup {Nobody}, deleting : BOOLEAN, life : Nat]

\* begin_delete and cancel_delete change the mark of one row.
LEMMA MarkedRow ==
    ASSUME TypeOK, NEW t \in Thread, NEW b \in BOOLEAN, SetDeleting(t, b)
    PROVE  /\ row' \in [Thread -> Rows]
           /\ row' = [u \in Thread |->
                IF u = t THEN [owner |-> row[t].owner, deleting |-> b, life |-> row[t].life]
                         ELSE row[u]]
<1>1. row \in [Thread -> Rows]
    BY DEF TypeOK, Rows
<1>2. row' = [row EXCEPT ![t] = [row[t] EXCEPT !.deleting = b]]
    BY Zenon DEF SetDeleting
<1>3. ASSUME NEW w \in Rows
      PROVE  [w EXCEPT !.deleting = b] = [owner |-> w.owner, deleting |-> b, life |-> w.life]
    BY DEF Rows
<1>4. row' = [row EXCEPT ![t] = [owner |-> row[t].owner, deleting |-> b, life |-> row[t].life]]
    BY <1>1, <1>2, <1>3, Zenon
<1>5. [owner |-> row[t].owner, deleting |-> b, life |-> row[t].life] \in Rows
    BY <1>1 DEF Rows
<1>6. QED
    BY <1>1, <1>4, <1>5

\* claim gives one row an owner.
LEMMA InsertedRow ==
    ASSUME TypeOK, NEW r \in Request, op[r].thread \in Thread, op[r].owner \in Owner, InsertRow(r)
    PROVE  /\ row' \in [Thread -> Rows]
           /\ row' = [u \in Thread |->
                IF u = op[r].thread
                THEN [owner |-> op[r].owner, deleting |-> row[u].deleting, life |-> row[u].life]
                ELSE row[u]]
<1> DEFINE t == op[r].thread
           o == op[r].owner
<1>1. row \in [Thread -> Rows]
    BY DEF TypeOK, Rows
<1>2. row' = [row EXCEPT ![t] = [row[t] EXCEPT !.owner = o]]
    BY Zenon DEF InsertRow
<1>3. ASSUME NEW w \in Rows, NEW p \in Owner
      PROVE  [w EXCEPT !.owner = p] = [owner |-> p, deleting |-> w.deleting, life |-> w.life]
    BY DEF Rows
<1>4. row' = [row EXCEPT ![t] = [owner |-> o, deleting |-> row[t].deleting, life |-> row[t].life]]
    BY <1>1, <1>2, <1>3, Zenon
<1>5. [owner |-> o, deleting |-> row[t].deleting, life |-> row[t].life] \in Rows
    BY <1>1 DEF Rows
<1>6. QED
    BY <1>1, <1>4, <1>5

\* finalize_delete makes room for the thread_id's next conversation.
LEMMA RemovedRow ==
    ASSUME TypeOK, NEW t \in Thread, RemoveRow(t)
    PROVE  /\ row' \in [Thread -> Rows]
           /\ row' = [u \in Thread |-> IF u = t THEN NoRow(t) ELSE row[u]]
<1>1. row \in [Thread -> Rows]
    BY DEF TypeOK, Rows
<1>2. NoRow(t) \in Rows
    BY <1>1 DEF NoRow, Rows
<1>3. QED
    BY <1>1, <1>2 DEF RemoveRow

\* The graph adds one message of the conversation it runs on.
LEMMA Written ==
    ASSUME TypeOK, NEW r \in Request, op[r].thread \in Thread,
           NEW part \in {"user", "assistant"}, Write(r, part)
    PROVE  /\ saved' \in [Thread -> SUBSET Message]
           /\ \A u \in Thread : \A m \in saved'[u] :
                \/ m \in saved[u]
                \/ u = op[r].thread /\ m.turn = r /\ m.life = row[u].life
           /\ \A u \in Thread : u # op[r].thread => saved'[u] = saved[u]
<1> DEFINE t == op[r].thread
           m0 == [turn |-> r, part |-> part, life |-> row[t].life]
<1>1. m0 \in Message
    BY DEF TypeOK, Message
<1>2. saved' = [saved EXCEPT ![t] = saved[t] \cup {m0}]
    BY Zenon DEF Write
<1>3. m0.turn = r /\ m0.life = row[t].life
    OBVIOUS
<1> HIDE DEF m0
<1>4. QED
    BY <1>1, <1>2, <1>3 DEF TypeOK

-----------------------------------------------------------------------------
(* Types *)

LEMMA InitTypes == Init => TypeOK
BY RestartAssumption DEF Init, TypeOK, Running, Paused, Over

LEMMA NextTypes == TypeOK /\ Known /\ [Next]_vars => TypeOK'
<1> SUFFICES ASSUME TypeOK, Known, [Next]_vars
             PROVE  TypeOK'
    OBVIOUS
<1> USE DEF TypeOK, Running, Paused, Over, Goto, Conclude, leases, stores, process, Rows
<1>1. ASSUME NEW r \in Request, NEW k \in Kinds, NEW o \in Owner, NEW t \in Thread, Arrive(r, k, o, t)
      PROVE  TypeOK'
    BY <1>1 DEF Arrive, Lease!Ask
<1>2. ASSUME NEW r \in Request, Serve(r)
      PROVE  TypeOK'
    <2> USE DEF Answer, Lease!Leave
    <2>1. CASE ObtainLease(r)
        BY <2>1 DEF ObtainLease, Lease!Enter
    <2>2. CASE Recheck(r)
        BY <2>2 DEF Recheck
    <2>3. CASE Claim(r)
        <3>1. op[r].thread \in Thread /\ op[r].owner \in Owner
            BY <2>3 DEF Claim, Known
        <3>2. row' \in [Thread -> Rows]
            BY <2>3, <3>1, InsertedRow DEF Claim
        <3>3. claimed' \in [Request -> Nat]
            BY <2>3, <3>1 DEF Claim
        <3>4. QED
            BY <2>3, <3>2, <3>3 DEF Claim, LeaseHandedOver
    <2>4. CASE YieldStart(r) \/ BeginTurn(r) \/ YieldEnd(r)
        BY <2>4 DEF YieldStart, BeginTurn, YieldEnd, NextEvent
    <2>5. CASE Exhaust(r)
        BY <2>5 DEF Exhaust
    <2>6. CASE EnterTurn(r)
        <3>1. op[r].thread \in Thread
            BY <2>6 DEF EnterTurn, Known
        <3>2. saved' \in [Thread -> SUBSET Message]
            BY <2>6, <3>1, Written DEF EnterTurn
        <3>3. QED
            BY <2>6, <3>2 DEF EnterTurn
    <2>7. CASE RefuseTurn(r)
        BY <2>7 DEF RefuseTurn, Tell
    <2>8. CASE FinishTurn(r)
        <3>1. op[r].thread \in Thread
            BY <2>8 DEF FinishTurn, Known
        <3>2. saved' \in [Thread -> SUBSET Message]
            BY <2>8, <3>1, Written DEF FinishTurn
        <3>3. QED
            BY <2>8, <3>2 DEF FinishTurn, Tell, GraphLeft
    <2>9. CASE FailTurn(r)
        BY <2>9 DEF FailTurn, Tell, GraphLeft
    <2>10. CASE ReadThread(r)
        <3>1. op[r].thread \in Thread
            BY <2>10 DEF ReadThread, Known
        <3>2. seen' \in [Request -> SUBSET Message]
            BY <2>10, <3>1 DEF ReadThread, Rejected
        <3>3. QED
            BY <2>10, <3>2 DEF ReadThread, Rejected
    <2>11. CASE BeginDelete(r)
        <3>1. op[r].thread \in Thread
            BY <2>11 DEF BeginDelete, Known
        <3>2. row' \in [Thread -> Rows]
            BY <2>11, <3>1, MarkedRow DEF BeginDelete, Rejected
        <3>3. QED
            BY <2>11, <3>2 DEF BeginDelete, Rejected
    <2>12. CASE WipeCheckpoint(r)
        BY <2>12 DEF WipeCheckpoint, Erase
    <2>13. CASE UndoDelete(r)
        <3>1. op[r].thread \in Thread
            BY <2>13 DEF UndoDelete, Known
        <3>2. row' \in [Thread -> Rows]
            BY <2>13, <3>1, MarkedRow DEF UndoDelete
        <3>3. QED
            BY <2>13, <3>2 DEF UndoDelete, GraphLeft
    <2>14. CASE FinalizeDelete(r)
        <3>1. op[r].thread \in Thread
            BY <2>14 DEF FinalizeDelete, Known
        <3>2. row' \in [Thread -> Rows]
            BY <2>14, <3>1, RemovedRow DEF FinalizeDelete, KeepTombstone
        <3>3. deleted' \subseteq Thread \X Nat
            BY <2>14, <3>1 DEF FinalizeDelete
        <3>4. QED
            BY <2>14, <3>2, <3>3 DEF FinalizeDelete, GraphLeft
    <2>15. QED
        BY <1>2, <2>1, <2>2, <2>3, <2>4, <2>5, <2>6, <2>7, <2>8, <2>9, <2>10,
           <2>11, <2>12, <2>13, <2>14 DEF Serve
<1>3. ASSUME NEW r \in Request, CloseStream(r)
      PROVE  TypeOK'
    BY <1>3 DEF CloseStream, Lease!Leave
<1>4. CASE BeginDraining \/ CloseResources
    BY <1>4 DEF BeginDraining, CloseResources
<1>5. CASE Stop
    BY <1>5, RestartAssumption DEF Stop
<1>6. CASE Start
    BY <1>6 DEF Start, NoRow
<1>7. CASE UNCHANGED vars
    BY <1>7 DEF vars
<1>8. QED
    BY <1>1, <1>2, <1>3, <1>4, <1>5, <1>6, <1>7 DEF Next

-----------------------------------------------------------------------------
(* The steps that change what Core is about *)

LEMMA ArriveCore ==
    ASSUME TypeOK, Core, NEW r \in Request, NEW k \in Kinds, NEW o \in Owner, NEW t \in Thread,
           Arrive(r, k, o, t)
    PROVE  Core'
<1>1. /\ op' = [op EXCEPT ![r] = [kind |-> k, owner |-> o, thread |-> t]]
      /\ pc[r] = "new" /\ pc' = [pc EXCEPT ![r] = "waiting"]
      /\ UNCHANGED <<graphLock, row, saved, deleted, phase>>
    BY DEF Arrive, Goto, stores, process
<1>2. \A s \in Request : s # r => op'[s] = op[s] /\ pc'[s] = pc[s]
    BY <1>1 DEF TypeOK
<1>3. op'[r].owner = o /\ op'[r].thread = t /\ pc'[r] = "waiting"
    BY <1>1 DEF TypeOK
<1>4. LockHeld' /\ Known' /\ TurnsOwned' /\ DeletesUnderWay'
    BY <1>1, <1>2, <1>3
    DEF Core, LockHeld, Known, TurnsOwned, DeletesUnderWay, Owns, Holding, Deleting
<1>5. \A u \in Thread : \A m \in saved[u] : m.turn \in Request /\ m.turn # r
    BY <1>1 DEF TypeOK, Message, Core, Authored
<1>6. Authored' /\ ContentOwned'
    BY <1>1, <1>2, <1>5 DEF Core, Authored, ContentOwned
<1>7. DeletedForGood' /\ DeletedPast'
    BY <1>1 DEF Core, DeletedForGood, DeletedPast
<1>8. QED
    BY <1>4, <1>6, <1>7 DEF Core

\* claim takes a thread_id that has no row: it has no messages either, and no
\* turn or deletion is under way on it.
LEMMA InsertCore ==
    ASSUME TypeOK, Core, NEW r \in Request, pc[r] = "checked",
           Unclaimed(op[r].thread), InsertRow(r), Goto(r, "open"),
           UNCHANGED <<op, graphLock, phase, saved, deleted>>
    PROVE  Core'
<1> DEFINE t == op[r].thread
           o == op[r].owner
<1>1. t \in Thread /\ o \in Owner /\ o # Nobody
    BY NobodyAssumption DEF Core, Known
<1>2. pc' = [pc EXCEPT ![r] = "open"]
    BY DEF Goto
<1>3. \A u \in Thread : /\ row'[u].deleting = row[u].deleting
                        /\ row'[u].life = row[u].life
                        /\ u # t => row'[u] = row[u]
    BY <1>1, InsertedRow
<1>4. \A s \in Request : pc'[s] \in Holding => pc'[s] = pc[s]
    BY <1>2 DEF TypeOK, Holding, Deleting
<1>5. LockHeld' /\ Known'
    BY <1>2, <1>4 DEF TypeOK, Core, LockHeld, Known
<1>6. TurnsOwned'
    <2> SUFFICES ASSUME NEW s \in Request, pc'[s] = "thinking" PROVE Owns(s)'
        BY DEF TurnsOwned
    <2>1. Owns(s) /\ op[s].thread \in Thread /\ op[s].owner \in Owner
        BY <1>4 DEF Core, TurnsOwned, Known, Holding
    <2>2. op[s].thread # t
        BY <2>1, NobodyAssumption DEF Owns, Unclaimed
    <2>3. QED
        BY <1>3, <2>1, <2>2 DEF Owns
<1>7. DeletesUnderWay'
    <2> SUFFICES ASSUME NEW s \in Request, pc'[s] \in Deleting
                 PROVE  LET u == op[s].thread IN
                        /\ row'[u].deleting
                        /\ <<u, row'[u].life>> \notin deleted
                        /\ pc'[s] = "wiped" => saved[u] = {}
        BY DEF DeletesUnderWay
    <2>1. pc'[s] = pc[s] /\ op[s].thread \in Thread
        BY <1>4 DEF Core, Known, Holding, Deleting
    <2>2. QED
        BY <1>3, <2>1 DEF Core, DeletesUnderWay
<1>8. \A u \in Thread : \A m \in saved[u] : m.turn \in Request /\ pc[m.turn] # "new" /\ u # t
    <2> SUFFICES ASSUME NEW u \in Thread, NEW m \in saved[u]
                 PROVE  m.turn \in Request /\ pc[m.turn] # "new" /\ u # t
        OBVIOUS
    <2>1. m.turn \in Request
        BY DEF TypeOK, Message
    <2>2. pc[m.turn] # "new" /\ row[u].owner = op[m.turn].owner
        BY DEF Core, Authored, ContentOwned
    <2>3. row[u].owner # Nobody
        BY <2>1, <2>2, NobodyAssumption DEF Core, Known
    <2>4. QED
        BY <2>1, <2>2, <2>3 DEF Unclaimed
<1>9. Authored' /\ ContentOwned'
    BY <1>2, <1>3, <1>8 DEF TypeOK, Core, Authored, ContentOwned
<1>10. DeletedForGood' /\ DeletedPast'
    BY <1>3 DEF Core, DeletedForGood, DeletedPast
<1>11. QED
    BY <1>5, <1>6, <1>7, <1>9, <1>10 DEF Core

\* The graph starts on a conversation whose row it has just found.
LEMMA EnterTurnCore ==
    ASSUME TypeOK, Core, NEW r \in Request, EnterTurn(r)
    PROVE  Core'
<1> DEFINE t == op[r].thread
<1>1. /\ phase = "up" /\ Owns(r) /\ graphLock' = r /\ pc[r] = "turn"
      /\ pc' = [pc EXCEPT ![r] = "thinking"]
      /\ Write(r, "user")
      /\ UNCHANGED <<op, row, deleted, phase>>
    BY DEF EnterTurn, MayTurn, Goto, process
<1>2. t \in Thread
    BY <1>1 DEF Core, Known
<1>3. \A s \in Request : pc'[s] \in Holding => s = r
    BY <1>1, NoHolder DEF EnterTurn, Core, TypeOK
<1>4. pc'[r] = "thinking" /\ Owns(r)'
    BY <1>1 DEF TypeOK, Owns
<1>5. LockHeld' /\ Known' /\ TurnsOwned' /\ DeletesUnderWay'
    BY <1>1, <1>3, <1>4
    DEF Core, LockHeld, Known, TurnsOwned, DeletesUnderWay, Holding, Deleting, TypeOK
<1>6. /\ \A u \in Thread : \A m \in saved'[u] :
            m \in saved[u] \/ (u = t /\ m.turn = r /\ m.life = row[u].life)
      /\ \A u \in Thread : u # t => saved'[u] = saved[u]
    BY <1>1, <1>2, Written
<1>7. Authored' /\ ContentOwned'
    <2> SUFFICES ASSUME NEW u \in Thread, NEW m \in saved'[u]
                 PROVE  /\ pc'[m.turn] # "new"
                        /\ row[u].owner = op[m.turn].owner /\ row[u].life = m.life
        BY <1>1 DEF Authored, ContentOwned
    <2>1. CASE m \in saved[u]
        BY <1>1, <2>1 DEF TypeOK, Message, Core, Authored, ContentOwned
    <2>2. CASE u = t /\ m.turn = r /\ m.life = row[u].life
        BY <1>1, <1>4, <2>2 DEF Owns
    <2>3. QED
        BY <1>6, <2>1, <2>2
<1>8. DeletedForGood' /\ DeletedPast'
    BY <1>1, <1>6 DEF Core, DeletedForGood, DeletedPast, Owns
<1>9. QED
    BY <1>5, <1>7, <1>8 DEF Core

\* The graph returns to the conversation it started on: only it had the lock.
LEMMA FinishTurnCore ==
    ASSUME TypeOK, Core, NEW r \in Request, FinishTurn(r)
    PROVE  Core'
<1> DEFINE t == op[r].thread
<1>1. /\ pc[r] = "thinking" /\ Owns(r)
      /\ pc' \in [Request -> {"new"} \cup Running \cup Paused \cup Over]
      /\ pc'[r] \in {"gone", "told"}
      /\ \A s \in Request : s # r => pc'[s] = pc[s]
      /\ Write(r, "assistant")
      /\ UNCHANGED <<op, row, deleted, phase>>
    BY DEF FinishTurn, Tell, Goto, process, TypeOK, Paused, Over, Core, TurnsOwned
<1>2. t \in Thread
    BY <1>1 DEF Core, Known
<1>3. \A s \in Request : pc'[s] \notin Holding
    BY <1>1, OneHolder DEF Core, Holding, Deleting
<1>4. LockHeld' /\ Known' /\ TurnsOwned' /\ DeletesUnderWay'
    BY <1>1, <1>3 DEF Core, LockHeld, Known, TurnsOwned, DeletesUnderWay, Holding
<1>5. /\ \A u \in Thread : \A m \in saved'[u] :
            m \in saved[u] \/ (u = t /\ m.turn = r /\ m.life = row[u].life)
      /\ \A u \in Thread : u # t => saved'[u] = saved[u]
    BY <1>1, <1>2, Written
<1>6. Authored' /\ ContentOwned'
    <2> SUFFICES ASSUME NEW u \in Thread, NEW m \in saved'[u]
                 PROVE  /\ pc'[m.turn] # "new"
                        /\ row[u].owner = op[m.turn].owner /\ row[u].life = m.life
        BY <1>1 DEF Authored, ContentOwned
    <2>1. CASE m \in saved[u]
        BY <1>1, <2>1 DEF TypeOK, Message, Core, Authored, ContentOwned
    <2>2. CASE u = t /\ m.turn = r /\ m.life = row[u].life
        BY <1>1, <2>2 DEF Owns
    <2>3. QED
        BY <1>5, <2>1, <2>2
<1>7. DeletedForGood' /\ DeletedPast'
    BY <1>1, <1>5 DEF Core, DeletedForGood, DeletedPast, Owns
<1>8. QED
    BY <1>4, <1>6, <1>7 DEF Core

\* The tombstone: what is not deleted yet was not reported deleted.
LEMMA TombstoneCore ==
    ASSUME TypeOK, Core, NEW r \in Request, pc[r] = "leased", GraphFree, phase = "up", Owns(r),
           graphLock' = r, SetDeleting(op[r].thread, TRUE), Goto(r, "tombstoned"),
           UNCHANGED <<op, phase, saved, deleted>>
    PROVE  Core'
<1> DEFINE t == op[r].thread
<1>1. t \in Thread
    BY DEF Core, Known
<1>2. /\ row'[t].deleting
      /\ \A u \in Thread : /\ row'[u].owner = row[u].owner /\ row'[u].life = row[u].life
                           /\ u # t => row'[u] = row[u]
    <2>1. row' = [u \in Thread |->
                    IF u = t THEN [owner |-> row[t].owner, deleting |-> TRUE, life |-> row[t].life]
                             ELSE row[u]]
        BY <1>1, MarkedRow, Zenon
    <2>2. QED
        BY <1>1, <2>1
<1>3. /\ pc'[r] = "tombstoned"
      /\ \A s \in Request : s # r => pc'[s] = pc[s]
    BY DEF TypeOK, Goto
<1>4. \A s \in Request : pc'[s] \in Holding => s = r
    BY <1>3, NoHolder DEF Core
<1>5. LockHeld' /\ Known' /\ TurnsOwned'
    BY <1>3, <1>4 DEF Core, LockHeld, Known, TurnsOwned, Holding
<1>6. DeletesUnderWay'
    <2>1. row'[t].deleting /\ <<t, row'[t].life>> \notin deleted
        BY <1>1, <1>2 DEF Core, DeletedForGood, Owns
    <2>2. QED
        BY <1>3, <1>4, <2>1 DEF DeletesUnderWay, Holding
<1>7. Authored' /\ ContentOwned'
    <2>1. \A u \in Thread : \A m \in saved[u] : m.turn \in Request
        BY DEF TypeOK, Message
    <2>2. QED
        BY <1>2, <1>3, <2>1 DEF Core, Authored, ContentOwned
<1>8. DeletedForGood' /\ DeletedPast'
    BY <1>2 DEF Core, DeletedForGood, DeletedPast
<1>9. QED
    BY <1>5, <1>6, <1>7, <1>8 DEF Core

\* The checkpoint is deleted, or not.
LEMMA WipeCheckpointCore ==
    ASSUME TypeOK, Core, NEW r \in Request, WipeCheckpoint(r)
    PROVE  Core'
<1> DEFINE t == op[r].thread
<1>1. /\ pc[r] = "tombstoned" /\ UNCHANGED <<op, graphLock, row, deleted, phase>>
      /\ \A s \in Request : s # r => pc'[s] = pc[s]
      /\ \A u \in Thread : saved'[u] \subseteq saved[u]
      /\ \/ pc'[r] = "wiped" /\ saved'[t] = {}
         \/ pc'[r] = "undo"
    BY DEF WipeCheckpoint, Erase, Goto, TypeOK, process, Core, Known
<1>2. \A s \in Request : pc[s] \in Holding => s = r
    BY <1>1, OneHolder DEF Core, Holding, Deleting
<1>3. LockHeld' /\ Known' /\ TurnsOwned' /\ DeletesUnderWay'
    BY <1>1, <1>2 DEF Core, LockHeld, Known, TurnsOwned, DeletesUnderWay, Holding, Deleting
<1>4. \A u \in Thread : \A m \in saved[u] : m.turn \in Request
    BY DEF TypeOK, Message
<1>5. Authored' /\ ContentOwned'
    BY <1>1, <1>4 DEF Core, Authored, ContentOwned
<1>6. DeletedForGood' /\ DeletedPast'
    BY <1>1 DEF Core, DeletedForGood, DeletedPast
<1>7. QED
    BY <1>3, <1>5, <1>6 DEF Core

\* The tombstone is taken back only from a conversation not reported deleted.
LEMMA UndoDeleteCore ==
    ASSUME TypeOK, Core, NEW r \in Request, UndoDelete(r)
    PROVE  Core'
<1> DEFINE t == op[r].thread
<1>1. /\ pc[r] = "undo" /\ UNCHANGED <<op, saved, deleted, phase>>
      /\ pc'[r] = "done"
      /\ \A s \in Request : s # r => pc'[s] = pc[s]
    BY DEF UndoDelete, Answer, Goto, TypeOK, process
<1>2. t \in Thread /\ <<t, row[t].life>> \notin deleted
    BY <1>1 DEF Core, Known, DeletesUnderWay, Deleting
<1>3. \A u \in Thread : /\ row'[u].owner = row[u].owner /\ row'[u].life = row[u].life
                        /\ u # t => row'[u] = row[u]
    <2>1. CASE SetDeleting(t, FALSE)
        <3>1. row' = [u \in Thread |->
                        IF u = t THEN [owner |-> row[t].owner, deleting |-> FALSE, life |-> row[t].life]
                                 ELSE row[u]]
            BY <1>2, <2>1, MarkedRow, Zenon
        <3>2. QED
            BY <1>2, <3>1
    <2>2. CASE UNCHANGED row
        BY <2>2
    <2>3. QED
        BY <2>1, <2>2 DEF UndoDelete
<1>4. \A s \in Request : pc'[s] \notin Holding
    BY <1>1, OneHolder DEF Core, Holding, Deleting
<1>5. LockHeld' /\ Known' /\ TurnsOwned' /\ DeletesUnderWay'
    BY <1>1, <1>4 DEF Core, LockHeld, Known, TurnsOwned, DeletesUnderWay, Holding
<1>6. \A u \in Thread : \A m \in saved[u] : m.turn \in Request
    BY DEF TypeOK, Message
<1>7. Authored' /\ ContentOwned'
    BY <1>1, <1>3, <1>6 DEF Core, Authored, ContentOwned
<1>8. DeletedForGood' /\ DeletedPast'
    BY <1>1, <1>2, <1>3 DEF Core, DeletedForGood, DeletedPast
<1>9. QED
    BY <1>5, <1>7, <1>8 DEF Core

\* The row goes, or stays as a tombstone without messages: what is reported is
\* over either way, and the next conversation of the thread_id was never reported.
LEMMA FinalizeDeleteCore ==
    ASSUME TypeOK, Core, NEW r \in Request, FinalizeDelete(r)
    PROVE  Core'
<1> DEFINE t == op[r].thread
<1>1. /\ pc[r] = "wiped" /\ UNCHANGED <<op, saved, phase>>
      /\ deleted' = deleted \cup {<<t, row[t].life>>}
      /\ RemoveRow(t) \/ UNCHANGED row
      /\ pc'[r] = "done"
      /\ \A s \in Request : s # r => pc'[s] = pc[s]
    BY DEF FinalizeDelete, KeepTombstone, Answer, Goto, TypeOK, process
<1>2. t \in Thread /\ row[t].deleting /\ saved[t] = {}
    BY <1>1 DEF Core, Known, DeletesUnderWay, Deleting
<1>3. \A u \in Thread : u # t => row'[u] = row[u]
    BY <1>1, <1>2, RemovedRow
<1>4. \/ row'[t] = row[t]
      \/ row'[t].life = row[t].life + 1
    BY <1>1, <1>2, RemovedRow DEF NoRow
<1>5. \A s \in Request : pc'[s] \notin Holding
    BY <1>1, OneHolder DEF Core, Holding, Deleting
<1>6. LockHeld' /\ Known' /\ TurnsOwned' /\ DeletesUnderWay'
    BY <1>1, <1>5 DEF Core, LockHeld, Known, TurnsOwned, DeletesUnderWay, Holding
<1>7. \A u \in Thread : \A m \in saved[u] : m.turn \in Request /\ u # t
    BY <1>2 DEF TypeOK, Message
<1>8. Authored' /\ ContentOwned'
    BY <1>1, <1>3, <1>7 DEF Core, Authored, ContentOwned
<1>9. \A u \in Thread : row[u].life \in Nat
    BY DEF TypeOK
<1>10. DeletedPast'
    BY <1>1, <1>2, <1>3, <1>4, <1>9 DEF Core, DeletedPast
<1>11. DeletedForGood'
    <2> SUFFICES ASSUME NEW u \in Thread, <<u, row'[u].life>> \in deleted'
                 PROVE  row'[u].deleting /\ saved[u] = {}
        BY <1>1 DEF DeletedForGood
    <2>1. CASE row'[u] = row[u]
        BY <1>1, <1>2, <2>1 DEF Core, DeletedForGood
    <2>2. CASE u = t /\ row'[t].life = row[t].life + 1
        <3>1. row[t].life + 1 \in Nat /\ ~(row[t].life + 1 <= row[t].life)
            BY <1>2, <1>9
        <3>2. <<t, row[t].life + 1>> \notin deleted
            BY <1>2, <3>1 DEF Core, DeletedPast
        <3>3. QED
            BY <1>1, <1>2, <1>9, <2>2, <3>2
    <2>3. QED
        BY <1>3, <1>4, <2>1, <2>2
<1>12. QED
    BY <1>6, <1>8, <1>10, <1>11 DEF Core

\* The next process removes messages, and rows whose messages it removed.
LEMMA StartCore ==
    ASSUME TypeOK, Core, Start
    PROVE  Core'
<1>1. /\ phase = "down" /\ UNCHANGED <<op, pc, deleted>>
      /\ \E wipe \in SUBSET {t \in Thread : row[t].deleting} : \E drop \in SUBSET wipe :
            /\ saved' = [t \in Thread |-> IF t \in wipe THEN {} ELSE saved[t]]
            /\ row' = [t \in Thread |-> IF t \in drop THEN NoRow(t) ELSE row[t]]
    BY DEF Start
<1>2. \A t \in Thread :
        \/ row'[t] = row[t] /\ saved'[t] \subseteq saved[t]
        \/ row'[t].life = row[t].life + 1 /\ saved'[t] = {}
    BY <1>1 DEF NoRow
<1>3. \A s \in Request : pc'[s] \notin Holding
    BY <1>1 DEF Core, LockHeld
<1>4. LockHeld' /\ Known' /\ TurnsOwned' /\ DeletesUnderWay'
    BY <1>1, <1>3 DEF Core, LockHeld, Known, TurnsOwned, DeletesUnderWay, Holding
<1>5. Authored' /\ ContentOwned'
    BY <1>1, <1>2 DEF Core, Authored, ContentOwned
<1>6. \A t \in Thread : row[t].life \in Nat
    BY DEF TypeOK
<1>7. DeletedPast'
    BY <1>1, <1>2, <1>6 DEF Core, DeletedPast
<1>8. DeletedForGood'
    <2> SUFFICES ASSUME NEW t \in Thread, <<t, row'[t].life>> \in deleted
                 PROVE  row'[t].deleting /\ saved'[t] = {}
        BY <1>1 DEF DeletedForGood
    <2>1. CASE row'[t] = row[t] /\ saved'[t] \subseteq saved[t]
        BY <2>1 DEF Core, DeletedForGood
    <2>2. CASE row'[t].life = row[t].life + 1
        <3>1. row[t].life + 1 \in Nat /\ ~(row[t].life + 1 <= row[t].life)
            BY <1>6
        <3>2. QED
            BY <2>2, <3>1 DEF Core, DeletedPast
    <2>3. QED
        BY <1>2, <2>1, <2>2
<1>9. QED
    BY <1>4, <1>5, <1>7, <1>8 DEF Core

-----------------------------------------------------------------------------
(* The invariant *)

LEMMA InitCore == Init => Core
BY NobodyAssumption
DEF Init, Core, LockHeld, Known, TurnsOwned, DeletesUnderWay, Authored, ContentOwned,
    DeletedForGood, DeletedPast, Holding, Deleting

LEMMA NextCore == TypeOK /\ Core /\ [Next]_vars => Core'
<1> SUFFICES ASSUME TypeOK, Core, [Next]_vars
             PROVE  Core'
    OBVIOUS
<1>1. ASSUME NEW r \in Request, NEW k \in Kinds, NEW o \in Owner, NEW t \in Thread, Arrive(r, k, o, t)
      PROVE  Core'
    BY <1>1, ArriveCore
<1>2. ASSUME NEW r \in Request, Serve(r)
      PROVE  Core'
    <2> USE DEF Goto, Holding, Deleting, stores, process
    <2>1. CASE ObtainLease(r)
        BY <2>1, QuietStep DEF ObtainLease, TypeOK, Core, LockHeld
    <2>2. CASE Recheck(r)
        BY <2>2, QuietStep DEF Recheck, Answer, TypeOK, Core, LockHeld
    <2>3. CASE Claim(r)
        <3>1. CASE Unclaimed(op[r].thread) /\ InsertRow(r) /\ Goto(r, "open")
            BY <2>3, <3>1, InsertCore DEF Claim
        <3>2. CASE UNCHANGED row
            BY <2>3, <3>2, QuietStep DEF Claim, Answer, TypeOK, Core, LockHeld
        <3>3. QED
            BY <2>3, <3>1, <3>2 DEF Claim
    <2>4. CASE YieldStart(r) \/ BeginTurn(r) \/ YieldEnd(r)
        BY <2>4, QuietStep DEF YieldStart, BeginTurn, YieldEnd, NextEvent, TypeOK, Core, LockHeld
    <2>5. CASE Exhaust(r)
        BY <2>5, QuietStep DEF Exhaust, TypeOK, Core, LockHeld
    <2>6. CASE EnterTurn(r)
        BY <2>6, EnterTurnCore
    <2>7. CASE RefuseTurn(r)
        BY <2>7, QuietStep DEF RefuseTurn, Tell, TypeOK, Core, LockHeld
    <2>8. CASE FinishTurn(r)
        BY <2>8, FinishTurnCore
    <2>9. CASE FailTurn(r)
        <3>1. \A s \in Request : pc'[s] \notin Holding
            BY <2>9, OneHolder DEF FailTurn, Tell, TypeOK, Core
        <3>2. QED
            BY <2>9, <3>1, QuietStep DEF FailTurn, Tell, TypeOK
    <2>10. CASE ReadThread(r)
        BY <2>10, QuietStep DEF ReadThread, Rejected, Answer, TypeOK, Core, LockHeld
    <2>11. CASE BeginDelete(r)
        <3>1. CASE Rejected(r)
            BY <2>11, <3>1, QuietStep DEF BeginDelete, Rejected, Answer, TypeOK, Core, LockHeld
        <3>2. CASE ~Rejected(r)
            BY <2>11, <3>2, TombstoneCore DEF BeginDelete
        <3>3. QED
            BY <3>1, <3>2
    <2>12. CASE WipeCheckpoint(r)
        BY <2>12, WipeCheckpointCore
    <2>13. CASE UndoDelete(r)
        BY <2>13, UndoDeleteCore
    <2>14. CASE FinalizeDelete(r)
        BY <2>14, FinalizeDeleteCore
    <2>15. QED
        BY <1>2, <2>1, <2>2, <2>3, <2>4, <2>5, <2>6, <2>7, <2>8, <2>9, <2>10,
           <2>11, <2>12, <2>13, <2>14 DEF Serve
<1>3. ASSUME NEW r \in Request, CloseStream(r)
      PROVE  Core'
    BY <1>3, QuietStep DEF CloseStream, Goto, stores, process, TypeOK, Paused, Core, LockHeld,
       Holding, Deleting
<1>4. CASE BeginDraining
    BY <1>4, QuietStep DEF BeginDraining, stores, TypeOK, Core, LockHeld
<1>5. CASE CloseResources
    BY <1>5, QuietStep, NoHolder DEF CloseResources, stores, Core
<1>6. CASE Stop
    BY <1>6, QuietStep DEF Stop, stores, TypeOK, Holding, Deleting, Over
<1>7. CASE Start
    BY <1>7, StartCore
<1>8. CASE UNCHANGED vars
    BY <1>8, QuietStep DEF vars, Core, LockHeld
<1>9. QED
    BY <1>1, <1>2, <1>3, <1>4, <1>5, <1>6, <1>7, <1>8 DEF Next

-----------------------------------------------------------------------------
(* Theorems *)

\* Types hold in every behaviour, and with them Core, which the theorems below
\* take their properties from.
THEOREM TypesAndCore == Spec => [](TypeOK /\ Core)
<1>1. Init => TypeOK /\ Core
    BY InitTypes, InitCore
<1>2. TypeOK /\ Core /\ [Next]_vars => TypeOK' /\ Core'
    BY NextTypes, NextCore DEF Core
<1>3. QED
    BY <1>1, <1>2, PTL DEF Spec

\* Every variable keeps its type, for any requests, devices, threads and pool.
THEOREM Types == Spec => []TypeOK
BY TypesAndCore, PTL

\* A turn runs only under the graph lock and on a row that is the requesting
\* device's, although the row was tested before the graph ran and ownership,
\* deletions and restarts of other requests go on (events, under graph_lock).
THEOREM TurnsStayOnOwnThread == Spec => []TurnsOnOwnThread
<1>1. Core => TurnsOnOwnThread
    BY DEF Core, LockHeld, TurnsOwned, TurnsOnOwnThread, Holding
<1>2. QED
    BY <1>1, TypesAndCore, PTL

\* Messages never outlive their row, whichever calls of delete_thread and of
\* the clean-up at start fail or are cut off by a crash.
THEOREM ContentStaysOwned == Spec => []ContentOwned
<1>1. Core => ContentOwned
    BY DEF Core
<1>2. QED
    BY <1>1, TypesAndCore, PTL

\* What delete_thread reported deleted never comes back, with the row gone or
\* left as a tombstone, over any number of restarts.
THEOREM DeletionIsForGood == Spec => []DeletedForGood
<1>1. Core => DeletedForGood
    BY DEF Core
<1>2. QED
    BY <1>1, TypesAndCore, PTL

-----------------------------------------------------------------------------
(* Leases and closing *)

\* What holds the lease: a request from obtaining it to its answer, and a
\* stream until it is closed, which only an abandoned generator survives.
Served == (Running \ {"waiting"}) \cup Paused
LeaseKept == \A r \in Request : pc[r] \in Served => r \in inside \cup abandoned

LEMMA NextLeaseKept == TypeOK /\ LeaseKept /\ [Next]_vars => LeaseKept'
<1> SUFFICES ASSUME TypeOK, LeaseKept, [Next]_vars
             PROVE  LeaseKept'
    OBVIOUS
<1> USE DEF LeaseKept, Served, Running, Paused, TypeOK, Goto, leases
<1>1. ASSUME NEW r \in Request, NEW k \in Kinds, NEW o \in Owner, NEW t \in Thread, Arrive(r, k, o, t)
      PROVE  LeaseKept'
    BY <1>1 DEF Arrive, Lease!Ask
<1>2. ASSUME NEW r \in Request, Serve(r)
      PROVE  LeaseKept'
    <2> USE DEF Answer, Lease!Leave
    <2>1. CASE ObtainLease(r)
        BY <2>1 DEF ObtainLease, Lease!Enter
    <2>2. CASE Recheck(r)
        BY <2>2 DEF Recheck
    <2>3. CASE Claim(r)
        BY <2>3 DEF Claim, LeaseHandedOver
    <2>4. CASE YieldStart(r) \/ BeginTurn(r) \/ YieldEnd(r)
        BY <2>4 DEF YieldStart, BeginTurn, YieldEnd, NextEvent
    <2>5. CASE Exhaust(r)
        BY <2>5 DEF Exhaust
    <2>6. CASE EnterTurn(r) \/ WipeCheckpoint(r)
        BY <2>6 DEF EnterTurn, WipeCheckpoint
    <2>7. CASE RefuseTurn(r) \/ FinishTurn(r) \/ FailTurn(r)
        BY <2>7 DEF RefuseTurn, FinishTurn, FailTurn, Tell
    <2>8. CASE ReadThread(r)
        BY <2>8 DEF ReadThread, Rejected
    <2>9. CASE BeginDelete(r)
        BY <2>9 DEF BeginDelete, Rejected
    <2>10. CASE UndoDelete(r) \/ FinalizeDelete(r)
        BY <2>10 DEF UndoDelete, FinalizeDelete
    <2>11. QED
        BY <1>2, <2>1, <2>2, <2>3, <2>4, <2>5, <2>6, <2>7, <2>8, <2>9, <2>10 DEF Serve
<1>3. ASSUME NEW r \in Request, CloseStream(r)
      PROVE  LeaseKept'
    BY <1>3 DEF CloseStream, Lease!Leave
<1>4. CASE BeginDraining \/ CloseResources
    BY <1>4 DEF BeginDraining, CloseResources
<1>5. CASE Stop
    BY <1>5 DEF Stop, Over
<1>6. CASE Start
    BY <1>6 DEF Start
<1>7. CASE UNCHANGED vars
    BY <1>7 DEF vars
<1>8. QED
    BY <1>1, <1>2, <1>3, <1>4, <1>5, <1>6, <1>7 DEF Next

\* The lease that stream_chat hands to the stream stays with it until the stream
\* is exhausted or closed; a running generator survives its close without it.
THEOREM StreamsKeepLease == Spec => []StreamsHoldLease
<1>1. Init => LeaseKept
    BY DEF Init, LeaseKept, Served, Running, Paused
<1>2. TypeOK /\ LeaseKept => StreamsHoldLease
    BY DEF LeaseKept, Served, Running, Paused, StreamsHoldLease
<1>3. QED
    BY <1>1, <1>2, NextLeaseKept, Types, PTL DEF Spec

LEMMA ClosedStep ==
    TypeOK /\ Core /\ [Next]_vars => [phase = "closed" => UNCHANGED <<stores, seen>>]_vars
<1> SUFFICES ASSUME TypeOK, Core, Next, phase = "closed"
             PROVE  UNCHANGED <<row, saved, deleted, claimed, seen>>
    BY DEF vars, stores
<1>1. \A r \in Request : pc[r] \notin Holding
    BY DEF Core, LockHeld
<1>2. ASSUME NEW r \in Request, NEW k \in Kinds, NEW o \in Owner, NEW t \in Thread, Arrive(r, k, o, t)
      PROVE  UNCHANGED <<row, saved, deleted, claimed, seen>>
    BY <1>2 DEF Arrive, stores
<1>3. ASSUME NEW r \in Request, Serve(r)
      PROVE  UNCHANGED <<row, saved, deleted, claimed, seen>>
    BY <1>1, <1>3
    DEF Serve, stores, Holding, Deleting, ObtainLease, Recheck, Claim, YieldStart, BeginTurn,
        YieldEnd, NextEvent, Exhaust, EnterTurn, MayTurn, RefuseTurn, FinishTurn, FailTurn,
        ReadThread, BeginDelete, Rejected, WipeCheckpoint, UndoDelete, FinalizeDelete
<1>4. ASSUME NEW r \in Request, CloseStream(r)
      PROVE  UNCHANGED <<row, saved, deleted, claimed, seen>>
    BY <1>4 DEF CloseStream, stores
<1>5. CASE BeginDraining \/ CloseResources \/ Stop \/ Start
    BY <1>5 DEF BeginDraining, CloseResources, Stop, Start, stores
<1>6. QED
    BY <1>2, <1>3, <1>4, <1>5 DEF Next

\* Once the connections are closed the stores do not change, and nobody reads
\* them, until the next start: whoever would has to have the graph lock, and
\* closing took it.
THEOREM ClosingIsFinal == Spec => ClosedIsFinal
BY TypesAndCore, ClosedStep, PTL DEF Spec, ClosedIsFinal

-----------------------------------------------------------------------------
(* What readers see *)

Partner(m) == [m EXCEPT !.part = "assistant"]

\* The turn raised, or was lost with the process or a closed stream.
Failed(q) == outcome[q] = "error" \/ (outcome[q] = "none" /\ pc[q] = "gone")

\* A request has come to nothing yet until it is answered or tells its turn.
Unconcluded ==
    \A q \in Request : pc[q] \in {"new", "open", "started"} \cup Running => outcome[q] = "none"

\* A message in a conversation is that of a request for it, and it is answered
\* unless its turn is under way or failed.
TurnsSettled ==
    \A t \in Thread : \A m \in saved[t] :
        /\ op[m.turn].thread = t
        /\ Partner(m) \in saved[t] \/ pc[m.turn] = "thinking" \/ Failed(m.turn)

\* What was read is settled, and both the reader and the authors have arrived.
ReadsSettled ==
    \A r \in Request : \A m \in seen[r] :
        /\ pc[r] # "new" /\ pc[m.turn] # "new"
        /\ op[m.turn].owner = op[r].owner
        /\ Partner(m) \in seen[r] \/ Failed(m.turn)

Settled == Unconcluded /\ TurnsSettled /\ ReadsSettled

\* A request that has arrived stays what it is, and a failed turn stays failed.
Steady ==
    \A q \in Request : pc[q] # "new" =>
        pc'[q] # "new" /\ op'[q] = op[q] /\ (Failed(q) => Failed(q)')

LEMMA NextSteady == TypeOK /\ Unconcluded /\ [Next]_vars => Unconcluded' /\ Steady
<1> SUFFICES ASSUME TypeOK, Unconcluded, [Next]_vars
             PROVE  Unconcluded' /\ Steady
    OBVIOUS
<1> USE DEF Unconcluded, Steady, Failed, Running, Paused, Over, TypeOK, Goto, Conclude
<1>1. ASSUME NEW r \in Request, NEW k \in Kinds, NEW o \in Owner, NEW t \in Thread, Arrive(r, k, o, t)
      PROVE  Unconcluded' /\ Steady
    BY <1>1 DEF Arrive
<1>2. ASSUME NEW r \in Request, Serve(r)
      PROVE  Unconcluded' /\ Steady
    <2> USE DEF Answer
    <2>1. CASE ObtainLease(r)
        BY <2>1 DEF ObtainLease
    <2>2. CASE Recheck(r)
        BY <2>2 DEF Recheck
    <2>3. CASE Claim(r)
        BY <2>3 DEF Claim
    <2>4. CASE YieldStart(r) \/ BeginTurn(r) \/ YieldEnd(r)
        BY <2>4 DEF YieldStart, BeginTurn, YieldEnd, NextEvent
    <2>5. CASE Exhaust(r)
        BY <2>5 DEF Exhaust
    <2>6. CASE EnterTurn(r) \/ WipeCheckpoint(r)
        BY <2>6 DEF EnterTurn, WipeCheckpoint
    <2>7. CASE RefuseTurn(r) \/ FinishTurn(r) \/ FailTurn(r)
        <3>1. /\ pc[r] \in {"turn", "thinking"} /\ op' = op
              /\ \E l \in {"told", "gone"} : pc' = [pc EXCEPT ![r] = l]
              /\ \E o \in {"complete", "error"} : outcome' = [outcome EXCEPT ![r] = o]
            BY <2>7 DEF RefuseTurn, FinishTurn, FailTurn, Tell
        <3>2. outcome[r] = "none" /\ ~Failed(r) /\ pc'[r] \in {"told", "gone"}
            BY <3>1
        <3>3. \A q \in Request \ {r} : pc'[q] = pc[q] /\ outcome'[q] = outcome[q]
            BY <3>1
        <3>4. QED
            BY <3>1, <3>2, <3>3
    <2>8. CASE ReadThread(r)
        BY <2>8 DEF ReadThread, Rejected
    <2>9. CASE BeginDelete(r)
        BY <2>9 DEF BeginDelete, Rejected
    <2>10. CASE UndoDelete(r) \/ FinalizeDelete(r)
        BY <2>10 DEF UndoDelete, FinalizeDelete
    <2>11. QED
        BY <1>2, <2>1, <2>2, <2>3, <2>4, <2>5, <2>6, <2>7, <2>8, <2>9, <2>10 DEF Serve
<1>3. ASSUME NEW r \in Request, CloseStream(r)
      PROVE  Unconcluded' /\ Steady
    BY <1>3 DEF CloseStream
<1>4. CASE BeginDraining \/ CloseResources
    BY <1>4 DEF BeginDraining, CloseResources
<1>5. CASE Stop
    BY <1>5 DEF Stop
<1>6. CASE Start
    BY <1>6 DEF Start
<1>7. CASE UNCHANGED vars
    BY <1>7 DEF vars
<1>8. QED
    BY <1>1, <1>2, <1>3, <1>4, <1>5, <1>6, <1>7 DEF Next

\* Reads stay settled whatever is not read.
LEMMA ReadsStay ==
    ASSUME TypeOK, ReadsSettled, Steady, seen' = seen
    PROVE  ReadsSettled'
<1> SUFFICES ASSUME NEW r \in Request, NEW m \in seen[r]
             PROVE  /\ pc'[r] # "new" /\ pc'[m.turn] # "new"
                    /\ op'[m.turn].owner = op'[r].owner
                    /\ Partner(m) \in seen[r] \/ Failed(m.turn)'
    BY DEF ReadsSettled, Partner
<1>1. m.turn \in Request
    BY DEF TypeOK, Message
<1>2. QED
    BY <1>1 DEF ReadsSettled, Steady

\* Conversations stay settled when they are wiped or left alone, and the turns
\* under way go on or fail.
LEMMA TurnsStay ==
    ASSUME TypeOK, Authored, TurnsSettled, Steady,
           \A t \in Thread : saved'[t] = saved[t] \/ saved'[t] = {},
           \A q \in Request : pc[q] = "thinking" => pc'[q] = "thinking" \/ Failed(q)'
    PROVE  TurnsSettled'
<1> SUFFICES ASSUME NEW t \in Thread, NEW m \in saved'[t]
             PROVE  /\ op'[m.turn].thread = t
                    /\ Partner(m) \in saved'[t] \/ pc'[m.turn] = "thinking" \/ Failed(m.turn)'
    BY DEF TurnsSettled, Partner
<1>1. m \in saved[t] /\ saved'[t] = saved[t]
    OBVIOUS
<1>2. m.turn \in Request /\ pc[m.turn] # "new"
    BY <1>1 DEF TypeOK, Message, Authored
<1>3. QED
    BY <1>1, <1>2 DEF TurnsSettled, Steady

\* A turn writes the user's message when it begins, and the answer to it when
\* the graph returns.
LEMMA TurnsWrite ==
    ASSUME TypeOK, Core, TurnsSettled, Steady, NEW r \in Request, EnterTurn(r) \/ FinishTurn(r)
    PROVE  TurnsSettled'
<1> DEFINE part == IF EnterTurn(r) THEN "user" ELSE "assistant"
           n == [turn |-> r, part |-> part, life |-> row[op[r].thread].life]
<1>1. /\ op[r].thread \in Thread /\ op' = op
      /\ saved' = [saved EXCEPT ![op[r].thread] = @ \cup {n}]
    <2>1. pc[r] # "new" /\ (EnterTurn(r) => ~FinishTurn(r))
        BY DEF EnterTurn, FinishTurn
    <2>2. QED
        BY <2>1 DEF EnterTurn, FinishTurn, Write, Core, Known
<1>2. \A q \in Request \ {r} : pc[q] = "thinking" => pc'[q] = "thinking"
    BY DEF EnterTurn, FinishTurn, Tell, Goto, TypeOK
<1> SUFFICES ASSUME NEW t \in Thread, NEW m \in saved'[t]
             PROVE  /\ op'[m.turn].thread = t
                    /\ Partner(m) \in saved'[t] \/ pc'[m.turn] = "thinking" \/ Failed(m.turn)'
    BY DEF TurnsSettled, Partner
<1>3. saved[t] \subseteq saved'[t] /\ (m \in saved[t] \/ (m = n /\ t = op[r].thread))
    BY <1>1 DEF TypeOK
<1>4. CASE m \in saved[t] /\ m.turn # r
    <2>1. m.turn \in Request /\ pc[m.turn] # "new"
        BY <1>4 DEF TypeOK, Message, Core, Authored
    <2>2. QED
        BY <1>1, <1>2, <1>3, <1>4, <2>1 DEF TurnsSettled, Steady
<1>5. CASE m.turn = r
    <2>1. op[r].thread = t
        BY <1>3, <1>5 DEF TurnsSettled
    <2>2. CASE EnterTurn(r)
        <3>1. pc'[r] = "thinking"
            BY <2>2 DEF EnterTurn, Goto, TypeOK
        <3>2. QED
            BY <1>1, <1>5, <2>1, <3>1
    <2>3. CASE FinishTurn(r) /\ ~EnterTurn(r)
        <3>1. m \in Message /\ m.life = row[t].life
            <4>1. CASE m \in saved[t]
                BY <4>1 DEF TypeOK, Core, ContentOwned
            <4>2. CASE m = n
                BY <2>1, <2>3, <4>2 DEF TypeOK, Message
            <4>3. QED
                BY <1>3, <4>1, <4>2
        <3>2. Partner(m) = n
            BY <1>5, <2>1, <2>3, <3>1 DEF Partner, Message
        <3>3. n \in saved'[t]
            BY <1>1, <2>1 DEF TypeOK
        <3>4. QED
            BY <1>1, <1>5, <2>1, <3>2, <3>3
    <2>4. QED
        BY <2>2, <2>3
<1>6. QED
    BY <1>3, <1>4, <1>5

\* A reader gets the whole conversation when no turn is under way.
LEMMA ReadIsSettled ==
    ASSUME TypeOK, Core, TurnsSettled, ReadsSettled, Steady, NEW r \in Request, ReadThread(r)
    PROVE  ReadsSettled'
<1>1. CASE seen' = seen
    BY <1>1, ReadsStay
<1>2. CASE seen' # seen
    <2> DEFINE t == op[r].thread
    <2>1. /\ GraphFree /\ Owns(r) /\ pc[r] = "leased"
          /\ seen' = [seen EXCEPT ![r] = saved[t]]
        BY <1>2 DEF ReadThread, Rejected
    <2>2. t \in Thread
        BY <2>1 DEF Core, Known
    <2> SUFFICES ASSUME NEW q \in Request, NEW m \in seen'[q]
                 PROVE  /\ pc'[q] # "new" /\ pc'[m.turn] # "new"
                        /\ op'[m.turn].owner = op'[q].owner
                        /\ Partner(m) \in seen'[q] \/ Failed(m.turn)'
        BY DEF ReadsSettled, Partner
    <2>3. CASE q # r
        <3>1. seen'[q] = seen[q] /\ m.turn \in Request
            BY <2>1, <2>3 DEF TypeOK, Message
        <3>2. QED
            BY <3>1 DEF ReadsSettled, Steady
    <2>4. CASE q = r
        <3>1. seen'[r] = saved[t] /\ m \in saved[t]
            BY <2>1, <2>4 DEF TypeOK
        <3>2. m.turn \in Request /\ pc[m.turn] # "new" /\ op[m.turn].owner = op[r].owner
            BY <2>1, <2>2, <3>1 DEF TypeOK, Message, Core, Authored, ContentOwned, Owns
        <3>3. pc[m.turn] # "thinking"
            BY <2>1, <3>2, NoHolder DEF Core, Holding
        <3>4. Partner(m) \in saved[t] \/ Failed(m.turn)
            BY <2>2, <3>1, <3>3 DEF TurnsSettled
        <3>5. QED
            BY <2>1, <2>4, <3>1, <3>2, <3>4 DEF Steady
    <2>5. QED
        BY <2>3, <2>4
<1>3. QED
    BY <1>1, <1>2

LEMMA NextSettled == TypeOK /\ Core /\ Settled /\ [Next]_vars => Settled'
<1> SUFFICES ASSUME TypeOK, Core, Settled, [Next]_vars
             PROVE  TurnsSettled' /\ ReadsSettled'
    BY NextSteady DEF Settled
<1>1. Steady
    BY NextSteady DEF Settled
<1>2. ASSUME seen' = seen,
             \A t \in Thread : saved'[t] = saved[t] \/ saved'[t] = {},
             \A q \in Request : pc[q] = "thinking" => pc'[q] = "thinking" \/ Failed(q)'
      PROVE  TurnsSettled' /\ ReadsSettled'
    BY <1>1, <1>2, ReadsStay, TurnsStay DEF Settled, Core
<1>3. ASSUME NEW r \in Request, NEW k \in Kinds, NEW o \in Owner, NEW t \in Thread, Arrive(r, k, o, t)
      PROVE  TurnsSettled' /\ ReadsSettled'
    BY <1>2, <1>3 DEF Arrive, Goto, stores, TypeOK
<1>4. ASSUME NEW r \in Request, Serve(r)
      PROVE  TurnsSettled' /\ ReadsSettled'
    <2>1. CASE \/ ObtainLease(r) \/ Recheck(r) \/ Claim(r) \/ YieldStart(r) \/ BeginTurn(r)
               \/ YieldEnd(r) \/ Exhaust(r) \/ RefuseTurn(r)
        <3>1. seen' = seen /\ saved' = saved
            BY <2>1 DEF ObtainLease, Recheck, Claim, YieldStart, BeginTurn, YieldEnd, NextEvent,
                        Exhaust, RefuseTurn, stores
        <3>2. \A q \in Request : pc[q] = "thinking" => pc'[q] = "thinking"
            BY <2>1 DEF ObtainLease, Recheck, Claim, YieldStart, BeginTurn, YieldEnd, NextEvent,
                        Exhaust, RefuseTurn, Tell, Answer, Goto, TypeOK
        <3>3. QED
            BY <1>2, <3>1, <3>2
    <2>2. CASE FailTurn(r)
        <3>1. seen' = seen /\ saved' = saved
            BY <2>2 DEF FailTurn, stores
        <3>2. \A q \in Request : pc[q] = "thinking" => pc'[q] = "thinking" \/ Failed(q)'
            BY <2>2 DEF FailTurn, Tell, Goto, Conclude, Failed, TypeOK
        <3>3. QED
            BY <1>2, <3>1, <3>2
    <2>3. CASE EnterTurn(r) \/ FinishTurn(r)
        <3>1. seen' = seen
            BY <2>3 DEF EnterTurn, FinishTurn
        <3>2. QED
            BY <1>1, <2>3, <3>1, TurnsWrite, ReadsStay DEF Settled
    <2>4. CASE ReadThread(r)
        <3>1. saved' = saved /\ pc[r] = "leased"
            BY <2>4 DEF ReadThread, Rejected, stores
        <3>2. \A q \in Request : pc[q] = "thinking" => pc'[q] = "thinking"
            BY <2>4 DEF ReadThread, Rejected, Answer, Goto, TypeOK
        <3>3. QED
            BY <1>1, <2>4, <3>1, <3>2, ReadIsSettled, TurnsStay DEF Settled, Core
    <2>5. CASE BeginDelete(r) \/ WipeCheckpoint(r) \/ UndoDelete(r) \/ FinalizeDelete(r)
        <3>1. /\ seen' = seen
              /\ \A t \in Thread : saved'[t] = saved[t] \/ saved'[t] = {}
            BY <2>5 DEF BeginDelete, Rejected, WipeCheckpoint, UndoDelete, FinalizeDelete, Erase,
                        stores, TypeOK
        <3>2. \A q \in Request : pc[q] = "thinking" => pc'[q] = "thinking"
            BY <2>5 DEF BeginDelete, Rejected, WipeCheckpoint, UndoDelete, FinalizeDelete, Answer,
                        Goto, TypeOK
        <3>3. QED
            BY <1>2, <3>1, <3>2
    <2>6. QED
        BY <1>4, <2>1, <2>2, <2>3, <2>4, <2>5 DEF Serve
<1>5. ASSUME NEW r \in Request, CloseStream(r)
      PROVE  TurnsSettled' /\ ReadsSettled'
    <2>1. seen' = seen /\ saved' = saved
        BY <1>5 DEF CloseStream, stores
    <2>2. \A q \in Request : pc[q] = "thinking" => pc'[q] = "thinking"
        BY <1>5 DEF CloseStream, Goto, Paused, TypeOK
    <2>3. QED
        BY <1>2, <2>1, <2>2
<1>6. CASE BeginDraining \/ CloseResources
    BY <1>2, <1>6 DEF BeginDraining, CloseResources, stores
<1>7. CASE Stop
    <2>1. \A q \in Request : pc[q] = "thinking" => Failed(q)'
        BY <1>7 DEF Stop, Settled, Unconcluded, Running, Over, Failed
    <2>2. QED
        BY <1>2, <1>7, <2>1 DEF Stop, stores
<1>8. CASE Start
    BY <1>2, <1>8 DEF Start
<1>9. CASE UNCHANGED vars
    BY <1>2, <1>9 DEF vars
<1>10. QED
    BY <1>3, <1>4, <1>5, <1>6, <1>7, <1>8, <1>9 DEF Next

\* Whatever turns, closes and crashes come between, a reader has seen messages of
\* its own device only, and none whose turn was under way.
THEOREM ReadsStaySettled == Spec => []ReadsAreSettled
<1>1. Init => Settled
    BY DEF Init, Settled, Unconcluded, TurnsSettled, ReadsSettled, Running
<1>2. Settled => ReadsAreSettled
    <2>1. ReadsSettled => ReadsAreSettled
        BY DEF ReadsSettled, ReadsAreSettled, Partner, Failed
    <2>2. QED
        BY <2>1 DEF Settled
<1>3. QED
    BY <1>1, <1>2, NextSettled, TypesAndCore, PTL DEF Spec

=============================================================================

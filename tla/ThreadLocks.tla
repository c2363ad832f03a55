----------------------------- MODULE ThreadLocks -----------------------------
(***************************************************************************)
(* ThreadExecutionLocks and _ThreadLease of                                *)
(* backend/app/services/chat_service.py: a registry of lock objects, one   *)
(* per conversation in use, that forgets an object once nobody uses it.    *)
(*                                                                         *)
(* A section under `with self._guard` is one step: it touches nothing but  *)
(* the registry and the counts, both only ever touched under the guard,    *)
(* and it never blocks.  Taking and freeing an entry's own lock are steps  *)
(* of their own, so that between them any other caller may come and go.    *)
(* A caller is a worker thread; it may ask again once its lease is given   *)
(* back, for the same conversation or another.                             *)
(***************************************************************************)
EXTENDS Naturals, FiniteSets

CONSTANTS
    Caller,     \* the threads that call acquire
    Thread,     \* the thread_id values
    Entry,      \* identities of _LockEntry objects
    None        \* no entry, no conversation

ASSUME CallerAssumption == IsFiniteSet(Caller)
ASSUME NoneAssumption == None \notin Entry /\ None \notin Thread

VARIABLES
    entries,    \* the registry: entries[t] is t's _LockEntry, or None
    locked,     \* locked[e]: somebody has taken e.lock
    users,      \* users[e]: e.users
    pc,         \* where each caller is
    thread,     \* thread[c]: the thread_id c asked for
    entry       \* entry[c]: the _LockEntry c obtained from the registry

vars == <<entries, locked, users, pc, thread, entry>>

TypeOK ==
    /\ entries \in [Thread -> Entry \cup {None}]
    /\ locked \in [Entry -> BOOLEAN]
    /\ users \in [Entry -> Nat]
    /\ pc \in [Caller -> {"idle", "waiting", "holding", "releasing"}]
    /\ thread \in [Caller -> Thread \cup {None}]
    /\ entry \in [Caller -> Entry \cup {None}]

Init ==
    /\ entries = [t \in Thread |-> None]
    /\ locked = [e \in Entry |-> FALSE]
    /\ users = [e \in Entry |-> 0]
    /\ pc = [c \in Caller |-> "idle"]
    /\ thread = [c \in Caller |-> None]
    /\ entry = [c \in Caller |-> None]

-----------------------------------------------------------------------------
\* The callers that hold a reference to entry e.
Referrers(e) == {c \in Caller : entry[c] = e}

\* No reference to e is left anywhere: the object may be (re)allocated.
Unreferenced(e) ==
    /\ Referrers(e) = {}
    /\ \A t \in Thread : entries[t] # e

(* Single ideas of the code, each with the slip in it that some property must  *)
(* catch; the slips are used by no action.                                     *)

\* Slip: the caller is counted only after it got the lock, and then forgotten.
NotCounted(n) == n

\* The caller is counted when it takes its reference, before it waits.
Counted(n) == n + 1

\* Slip: whoever leaves takes the entry out, used or not.
AnyUsers(n) == TRUE

\* Slip: the count is compared as it was before this caller left.
OneUser(n) == n = 1

\* Nobody is left to use an entry with this many users.
NoUsers(n) == n = 0

\* Slip: the entry's lock is not waited for.
LockIgnored(e) == TRUE

\* The entry's own lock can be taken.
LockFree(e) == ~locked[e]

\* Slip: the lease is marked as released but its lock is not.
UnlockForgotten(e) == UNCHANGED locked

\* lock.release()
Unlock(e) == locked' = [locked EXCEPT ![e] = FALSE]

\* acquire, the guarded part: setdefault finds t's entry or stores a new one
\* (no users, its lock free), and the caller is counted before it waits.
Register(c, t) ==
    /\ pc[c] = "idle"
    /\ \E e \in Entry :
        \/ /\ entries[t] = e
           /\ users' = [users EXCEPT ![e] = Counted(@)]
           /\ UNCHANGED <<entries, locked>>
           /\ entry' = [entry EXCEPT ![c] = e]
        \/ /\ entries[t] = None
           /\ Unreferenced(e)
           /\ entries' = [entries EXCEPT ![t] = e]
           /\ users' = [users EXCEPT ![e] = Counted(0)]
           /\ locked' = [locked EXCEPT ![e] = FALSE]
           /\ entry' = [entry EXCEPT ![c] = e]
    /\ thread' = [thread EXCEPT ![c] = t]
    /\ pc' = [pc EXCEPT ![c] = "waiting"]

\* acquire, the wait: entry.lock.acquire() returns and a lease is made.
Obtain(c) ==
    /\ pc[c] = "waiting"
    /\ LockFree(entry[c])
    /\ locked' = [locked EXCEPT ![entry[c]] = TRUE]
    /\ pc' = [pc EXCEPT ![c] = "holding"]
    /\ UNCHANGED <<entries, users, thread, entry>>

\* _ThreadLease.release, first half: the lease is marked and the lock freed.
\* A second call of release finds the mark and changes nothing.
ReleaseLock(c) ==
    /\ pc[c] = "holding"
    /\ Unlock(entry[c])
    /\ pc' = [pc EXCEPT ![c] = "releasing"]
    /\ UNCHANGED <<entries, users, thread, entry>>

\* _ThreadLease.release, second half, under the guard: the caller is no longer
\* counted, and the last one to go takes the entry out of the registry.
Deregister(c) ==
    LET e == entry[c]
        t == thread[c]
        left == users[e] - 1
    IN  /\ pc[c] = "releasing"
        /\ users' = [users EXCEPT ![e] = left]
        /\ entries' = IF NoUsers(left) /\ entries[t] = e
                      THEN [entries EXCEPT ![t] = None]
                      ELSE entries
        /\ pc' = [pc EXCEPT ![c] = "idle"]
        /\ thread' = [thread EXCEPT ![c] = None]
        /\ entry' = [entry EXCEPT ![c] = None]
        /\ UNCHANGED locked

Next ==
    \E c \in Caller :
        \/ \E t \in Thread : Register(c, t)
        \/ Obtain(c)
        \/ ReleaseLock(c)
        \/ Deregister(c)

Spec == Init /\ [][Next]_vars

\* A caller that has the lock gives it back (every user of the registry does so
\* in a finally, an except or close) and a caller in a guarded section finishes
\* it.  Of those waiting for one lock, some caller gets it when it is free;
\* threading.Lock keeps no queue, so no caller in particular is promised it.
Fairness ==
    /\ \A c \in Caller : WF_vars(ReleaseLock(c)) /\ WF_vars(Deregister(c))
    /\ \A t \in Thread : WF_vars(\E c \in Caller : thread[c] = t /\ Obtain(c))

FairSpec == Spec /\ Fairness

-----------------------------------------------------------------------------
(* Properties *)

\* "Serializes one conversation" (line 61): two callers never hold a lease on
\* the same conversation, however often its lock object was dropped and made
\* anew in between.
Serialized ==
    \A c, d \in Caller :
        (pc[c] = "holding" /\ pc[d] = "holding" /\ thread[c] = thread[d]) => c = d

\* "without retaining idle lock objects" (line 61): what the registry stores is
\* in use by a caller, and once every lease is given back it is empty.
NoIdleEntries ==
    \A t \in Thread :
        entries[t] # None => \E c \in Caller : thread[c] = t /\ entry[c] = entries[t]

\* The bookkeeping behind both (comment at line 70): users is the exact number of callers that
\* refer to an entry, waiting ones included; all callers of one conversation
\* use the one entry that is registered for it; no entry serves two
\* conversations; and an entry's lock is taken by one caller exactly when one
\* of its referrers holds a lease.
Accounting ==
    /\ \A e \in Entry :
        /\ users[e] = Cardinality(Referrers(e))
        /\ locked[e] <=> \E c \in Referrers(e) : pc[c] = "holding"
    /\ \A c \in Caller :
        /\ pc[c] = "idle" <=> entry[c] = None
        /\ pc[c] = "idle" <=> thread[c] = None
        /\ pc[c] # "idle" => entries[thread[c]] = entry[c]
    /\ \A c, d \in Caller :
        (entry[c] = entry[d] /\ pc[c] # "idle") => thread[c] = thread[d]
    /\ \A c, d \in Caller :
        (pc[c] = "holding" /\ pc[d] = "holding" /\ entry[c] = entry[d]) => c = d

\* The lock of a conversation is never lost: whenever somebody waits for a
\* conversation, somebody gets it.
LockPassedOn ==
    \A t \in Thread :
        (\E c \in Caller : thread[c] = t /\ pc[c] = "waiting")
            ~> (\E c \in Caller : thread[c] = t /\ pc[c] = "holding")

\* The registry implements the abstract mutex: a caller is inside from the
\* moment its lock is taken to the moment it is freed; leaving the registry
\* afterwards is invisible.
Mutex ==
    INSTANCE ConversationMutex WITH
        NoThread <- None,
        wants <- [c \in Caller |->
                    IF pc[c] \in {"waiting", "holding"} THEN thread[c] ELSE None],
        inside <- {c \in Caller : pc[c] = "holding"}

ImplementsMutex == Mutex!Spec

=============================================================================

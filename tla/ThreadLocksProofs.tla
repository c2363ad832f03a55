-------------------------- MODULE ThreadLocksProofs --------------------------
(***************************************************************************)
(* For every finite set of callers, every set of conversations and every   *)
(* supply of lock objects: the registry of ThreadLocks keeps its books,    *)
(* serializes each conversation, retains no idle lock, and implements      *)
(* ConversationMutex.                                                      *)
(***************************************************************************)
EXTENDS ThreadLocks, FiniteSetTheorems, TLAPS

\* The inductive invariant.  Serialized follows from Accounting; NoIdleEntries
\* is needed to know that a caller who finds an entry in the registry shares
\* it only with callers of its own conversation.
IndInv == TypeOK /\ Accounting /\ NoIdleEntries

-----------------------------------------------------------------------------
\* Referrers are finitely many, so their number is a natural number, and it is
\* zero only when there are none.
LEMMA ReferrersFinite ==
    ASSUME NEW e
    PROVE  /\ IsFiniteSet(Referrers(e))
           /\ Cardinality(Referrers(e)) \in Nat
           /\ Cardinality(Referrers(e)) = 0 <=> Referrers(e) = {}
<1>1. IsFiniteSet(Referrers(e))
    BY CallerAssumption, FS_Subset DEF Referrers
<1>2. QED
    BY <1>1, FS_CardinalityType, FS_EmptySet

\* A caller that had no entry and takes e is one more referrer of e and of no
\* other entry.
LEMMA ReferrerAdded ==
    ASSUME TypeOK, NEW c \in Caller, NEW e \in Entry,
           entry[c] = None, entry' = [entry EXCEPT ![c] = e]
    PROVE  /\ Cardinality(Referrers(e)') = Cardinality(Referrers(e)) + 1
           /\ Referrers(e)' = Referrers(e) \cup {c}
           /\ \A f \in Entry : f # e => Referrers(f)' = Referrers(f)
<1>1. Referrers(e)' = Referrers(e) \cup {c}
    BY DEF Referrers, TypeOK
<1>2. c \notin Referrers(e)
    BY NoneAssumption DEF Referrers
<1>3. Cardinality(Referrers(e) \cup {c}) = Cardinality(Referrers(e)) + 1
    BY <1>2, ReferrersFinite, FS_AddElement
<1>4. \A f \in Entry : f # e => Referrers(f)' = Referrers(f)
    BY NoneAssumption DEF Referrers, TypeOK
<1>5. QED
    BY <1>1, <1>3, <1>4

\* A caller that drops its entry e is one referrer of e less and none of any
\* other entry.
LEMMA ReferrerRemoved ==
    ASSUME TypeOK, NEW c \in Caller, NEW e \in Entry,
           entry[c] = e, entry' = [entry EXCEPT ![c] = None]
    PROVE  /\ Cardinality(Referrers(e)') = Cardinality(Referrers(e)) - 1
           /\ Referrers(e)' = Referrers(e) \ {c}
           /\ \A f \in Entry : f # e => Referrers(f)' = Referrers(f)
<1>1. Referrers(e)' = Referrers(e) \ {c}
    BY NoneAssumption DEF Referrers, TypeOK
<1>2. c \in Referrers(e)
    BY DEF Referrers
<1>3. Cardinality(Referrers(e) \ {c}) = Cardinality(Referrers(e)) - 1
    BY <1>2, ReferrersFinite, FS_RemoveElement
<1>4. \A f \in Entry : f # e => Referrers(f)' = Referrers(f)
    BY NoneAssumption DEF Referrers, TypeOK
<1>5. QED
    BY <1>1, <1>3, <1>4

-----------------------------------------------------------------------------
LEMMA InitInv == Init => IndInv
<1> SUFFICES ASSUME Init PROVE IndInv
    OBVIOUS
<1>1. TypeOK
    BY DEF Init, TypeOK
<1>2. \A e \in Entry : Referrers(e) = {}
    BY NoneAssumption DEF Init, Referrers
<1>3. Accounting
    BY <1>2, FS_EmptySet DEF Init, Accounting
<1>4. NoIdleEntries
    BY DEF Init, NoIdleEntries
<1>5. QED
    BY <1>1, <1>3, <1>4 DEF IndInv

\* A caller joins an existing entry or stores a fresh one.
LEMMA RegisterInv ==
    ASSUME IndInv, NEW c \in Caller, NEW t \in Thread, Register(c, t)
    PROVE  IndInv'
<1> USE NoneAssumption
<1>1. TypeOK /\ Accounting /\ NoIdleEntries
    BY DEF IndInv
<1>2. PICK e \in Entry :
        /\ \/ /\ entries[t] = e
              /\ users' = [users EXCEPT ![e] = users[e] + 1]
              /\ UNCHANGED <<entries, locked>>
           \/ /\ entries[t] = None
              /\ Unreferenced(e)
              /\ entries' = [entries EXCEPT ![t] = e]
              /\ users' = [users EXCEPT ![e] = 1]
              /\ locked' = [locked EXCEPT ![e] = FALSE]
        /\ entry' = [entry EXCEPT ![c] = e]
    BY DEF Register, Counted
<1>3. /\ pc[c] = "idle"
      /\ thread' = [thread EXCEPT ![c] = t]
      /\ pc' = [pc EXCEPT ![c] = "waiting"]
    BY DEF Register
<1>4. entry[c] = None
    BY <1>1, <1>3 DEF Accounting
<1>5. TypeOK'
    <2>1. entries' \in [Thread -> Entry \cup {None}] /\ users' \in [Entry -> Nat]
        BY <1>1, <1>2 DEF TypeOK
    <2>2. locked' \in [Entry -> BOOLEAN]
        BY <1>1, <1>2 DEF TypeOK
    <2>3. /\ pc' \in [Caller -> {"idle", "waiting", "holding", "releasing"}]
          /\ thread' \in [Caller -> Thread \cup {None}]
          /\ entry' \in [Caller -> Entry \cup {None}]
        BY <1>1, <1>2, <1>3 DEF TypeOK
    <2>4. QED
        BY <2>1, <2>2, <2>3 DEF TypeOK
<1>6. /\ Cardinality(Referrers(e)') = Cardinality(Referrers(e)) + 1
      /\ Referrers(e)' = Referrers(e) \cup {c}
      /\ \A f \in Entry : f # e => Referrers(f)' = Referrers(f)
    BY <1>1, <1>2, <1>4, ReferrerAdded
<1>7. entries'[t] = e /\ \A s \in Thread : s # t => entries'[s] = entries[s]
    BY <1>1, <1>2 DEF TypeOK
\* Whoever refers to e already is a caller of t.
<1>8. \A d \in Caller : entry[d] = e => thread[d] = t
    <2>1. CASE entries[t] = e
        <3>1. PICK b \in Caller : thread[b] = t /\ entry[b] = e
            BY <1>1, <2>1 DEF NoIdleEntries
        <3>2. pc[b] # "idle"
            BY <1>1, <3>1 DEF Accounting
        <3>3. QED
            BY <1>1, <3>1, <3>2 DEF Accounting
    <2>2. CASE Unreferenced(e)
        BY <2>2 DEF Unreferenced, Referrers
    <2>3. QED
        BY <1>2, <2>1, <2>2
<1>9. \A d \in Caller : d # c =>
        pc'[d] = pc[d] /\ thread'[d] = thread[d] /\ entry'[d] = entry[d]
    BY <1>1, <1>2, <1>3 DEF TypeOK
<1>10. pc'[c] = "waiting" /\ thread'[c] = t /\ entry'[c] = e
    BY <1>1, <1>2, <1>3 DEF TypeOK
<1>11. \A f \in Entry :
        /\ users'[f] = Cardinality(Referrers(f))'
        /\ locked'[f] <=> \E d \in Referrers(f)' : pc'[d] = "holding"
    <2> SUFFICES ASSUME NEW f \in Entry
                 PROVE  /\ users'[f] = Cardinality(Referrers(f)')
                        /\ locked'[f] <=> \E d \in Referrers(f)' : pc'[d] = "holding"
        OBVIOUS
    <2>1. /\ users[f] = Cardinality(Referrers(f))
          /\ locked[f] <=> \E d \in Referrers(f) : pc[d] = "holding"
        BY <1>1 DEF Accounting
    <2>2. Unreferenced(e) => Cardinality(Referrers(e)) = 0 /\ Referrers(e) = {}
        BY ReferrersFinite DEF Unreferenced
    <2>3. users'[f] = Cardinality(Referrers(f)')
        BY <1>1, <1>2, <1>6, <2>1, <2>2 DEF TypeOK
    <2>4. \/ locked'[f] <=> locked[f]
          \/ f = e /\ Referrers(e) = {} /\ ~locked'[e]
        BY <1>1, <1>2, <2>2 DEF TypeOK
    <2>5. locked'[f] <=> \E d \in Referrers(f)' : pc'[d] = "holding"
        <3>1. CASE f = e
            <4>1. \A d \in Referrers(e) : d # c /\ pc'[d] = pc[d]
                BY <1>4, <1>9 DEF Referrers
            <4>2. (\E d \in Referrers(e)' : pc'[d] = "holding")
                    <=> (\E d \in Referrers(e) : pc[d] = "holding")
                BY <1>6, <1>10, <4>1
            <4>3. QED
                BY <2>1, <2>4, <3>1, <4>2
        <3>2. CASE f # e
            <4>1. Referrers(f)' = Referrers(f) /\ c \notin Referrers(f)
                BY <1>4, <1>6, <3>2 DEF Referrers
            <4>2. locked'[f] <=> locked[f]
                BY <2>4, <3>2
            <4>3. QED
                BY <1>9, <2>1, <4>1, <4>2 DEF Referrers
        <3>3. QED
            BY <3>1, <3>2
    <2>6. QED
        BY <2>3, <2>5
<1>12. Accounting'
    <2>1. \A d \in Caller :
            /\ pc'[d] = "idle" <=> entry'[d] = None
            /\ pc'[d] = "idle" <=> thread'[d] = None
        BY <1>1, <1>9, <1>10 DEF Accounting
    <2>2. \A d \in Caller : pc'[d] # "idle" => entries'[thread'[d]] = entry'[d]
        <3> SUFFICES ASSUME NEW d \in Caller, pc'[d] # "idle", d # c
                     PROVE  entries'[thread[d]] = entry[d]
            BY <1>7, <1>9, <1>10
        <3>1. pc[d] # "idle" /\ entries[thread[d]] = entry[d] /\ thread[d] \in Thread
            BY <1>1, <1>9 DEF Accounting, TypeOK
        <3>2. entry[d] \in Entry
            BY <1>1, <3>1 DEF Accounting, TypeOK
        <3>3. CASE thread[d] = t
            BY <1>2, <1>7, <3>1, <3>2, <3>3
        <3>4. CASE thread[d] # t
            BY <1>7, <3>1, <3>4
        <3>5. QED
            BY <3>3, <3>4
    <2>3. \A b, d \in Caller :
            (entry'[b] = entry'[d] /\ pc'[b] # "idle") => thread'[b] = thread'[d]
        BY <1>1, <1>8, <1>9, <1>10 DEF Accounting
    <2>4. \A b, d \in Caller :
            (pc'[b] = "holding" /\ pc'[d] = "holding" /\ entry'[b] = entry'[d]) => b = d
        BY <1>1, <1>9, <1>10 DEF Accounting
    <2>5. QED
        BY <1>11, <2>1, <2>2, <2>3, <2>4 DEF Accounting
<1>13. NoIdleEntries'
    <2> SUFFICES ASSUME NEW s \in Thread, entries'[s] # None
                 PROVE  \E d \in Caller : thread'[d] = s /\ entry'[d] = entries'[s]
        BY DEF NoIdleEntries
    <2>1. CASE s = t
        BY <1>7, <1>10, <2>1
    <2>2. CASE s # t
        <3>1. PICK d \in Caller : thread[d] = s /\ entry[d] = entries[s]
            BY <1>1, <1>7, <2>2 DEF NoIdleEntries
        <3>2. d # c
            BY <1>1, <1>3, <3>1 DEF Accounting
        <3>3. QED
            BY <1>7, <1>9, <2>2, <3>1, <3>2
    <2>3. QED
        BY <2>1, <2>2
<1>14. QED
    BY <1>5, <1>12, <1>13 DEF IndInv

\* A waiting caller takes its entry's free lock: nobody else held it.
LEMMA ObtainInv ==
    ASSUME IndInv, NEW c \in Caller, Obtain(c)
    PROVE  IndInv'
<1> USE NoneAssumption
<1> DEFINE e == entry[c]
<1>1. TypeOK /\ Accounting /\ NoIdleEntries
    BY DEF IndInv
<1>2. /\ pc[c] = "waiting" /\ ~locked[e]
      /\ locked' = [locked EXCEPT ![e] = TRUE]
      /\ pc' = [pc EXCEPT ![c] = "holding"]
      /\ UNCHANGED <<entries, users, thread, entry>>
    BY DEF Obtain, LockFree
<1>3. e \in Entry
    BY <1>1, <1>2 DEF Accounting, TypeOK
<1>4. TypeOK'
    BY <1>1, <1>2 DEF TypeOK
<1>5. \A f \in Entry : Referrers(f)' = Referrers(f)
    BY <1>2 DEF Referrers
<1>6. c \in Referrers(e) /\ \A d \in Referrers(e) : pc[d] # "holding"
    BY <1>1, <1>2, <1>3 DEF Accounting, Referrers
<1>7. pc'[c] = "holding" /\ \A d \in Caller : d # c => pc'[d] = pc[d]
    BY <1>1, <1>2 DEF TypeOK
<1>8. \A f \in Entry :
        /\ users'[f] = Cardinality(Referrers(f)')
        /\ locked'[f] <=> \E d \in Referrers(f)' : pc'[d] = "holding"
    <2> SUFFICES ASSUME NEW f \in Entry
                 PROVE  /\ users'[f] = Cardinality(Referrers(f)')
                        /\ locked'[f] <=> \E d \in Referrers(f)' : pc'[d] = "holding"
        OBVIOUS
    <2>1. /\ users[f] = Cardinality(Referrers(f))
          /\ locked[f] <=> \E d \in Referrers(f) : pc[d] = "holding"
        BY <1>1 DEF Accounting
    <2>2. CASE f = e
        <3>1. locked'[f]
            BY <1>1, <1>2, <1>3, <2>2 DEF TypeOK
        <3>2. QED
            BY <1>2, <1>5, <1>6, <1>7, <2>1, <2>2, <3>1
    <2>3. CASE f # e
        <3>1. locked'[f] <=> locked[f]
            BY <1>1, <1>2, <2>3 DEF TypeOK
        <3>2. \A d \in Referrers(f) : d \in Caller /\ d # c
            BY <2>3 DEF Referrers
        <3>3. QED
            BY <1>2, <1>5, <1>7, <2>1, <3>1, <3>2
    <2>4. QED
        BY <2>2, <2>3
<1>9. Accounting'
    <2>1. \A d \in Caller :
            /\ pc'[d] = "idle" <=> entry'[d] = None
            /\ pc'[d] = "idle" <=> thread'[d] = None
            /\ pc'[d] # "idle" => entries'[thread'[d]] = entry'[d]
        BY <1>1, <1>2, <1>7 DEF Accounting
    <2>2. \A b, d \in Caller :
            (entry'[b] = entry'[d] /\ pc'[b] # "idle") => thread'[b] = thread'[d]
        BY <1>1, <1>2, <1>7 DEF Accounting
    <2>3. \A b, d \in Caller :
            (pc'[b] = "holding" /\ pc'[d] = "holding" /\ entry'[b] = entry'[d]) => b = d
        BY <1>1, <1>2, <1>6, <1>7 DEF Accounting, Referrers
    <2>4. QED
        BY <1>8, <2>1, <2>2, <2>3 DEF Accounting
<1>10. NoIdleEntries'
    BY <1>1, <1>2 DEF NoIdleEntries
<1>11. QED
    BY <1>4, <1>9, <1>10 DEF IndInv

\* A holder frees its entry's lock: it was the only holder of that entry.
LEMMA ReleaseLockInv ==
    ASSUME IndInv, NEW c \in Caller, ReleaseLock(c)
    PROVE  IndInv'
<1> USE NoneAssumption
<1> DEFINE e == entry[c]
<1>1. TypeOK /\ Accounting /\ NoIdleEntries
    BY DEF IndInv
<1>2. /\ pc[c] = "holding"
      /\ locked' = [locked EXCEPT ![e] = FALSE]
      /\ pc' = [pc EXCEPT ![c] = "releasing"]
      /\ UNCHANGED <<entries, users, thread, entry>>
    BY DEF ReleaseLock, Unlock
<1>3. e \in Entry
    BY <1>1, <1>2 DEF Accounting, TypeOK
<1>4. TypeOK'
    BY <1>1, <1>2 DEF TypeOK
<1>5. \A f \in Entry : Referrers(f)' = Referrers(f)
    BY <1>2 DEF Referrers
<1>6. \A d \in Referrers(e) : d # c => pc[d] # "holding"
    BY <1>1, <1>2 DEF Accounting, Referrers
<1>7. pc'[c] = "releasing" /\ \A d \in Caller : d # c => pc'[d] = pc[d]
    BY <1>1, <1>2 DEF TypeOK
<1>8. \A f \in Entry :
        /\ users'[f] = Cardinality(Referrers(f)')
        /\ locked'[f] <=> \E d \in Referrers(f)' : pc'[d] = "holding"
    <2> SUFFICES ASSUME NEW f \in Entry
                 PROVE  /\ users'[f] = Cardinality(Referrers(f)')
                        /\ locked'[f] <=> \E d \in Referrers(f)' : pc'[d] = "holding"
        OBVIOUS
    <2>1. /\ users[f] = Cardinality(Referrers(f))
          /\ locked[f] <=> \E d \in Referrers(f) : pc[d] = "holding"
        BY <1>1 DEF Accounting
    <2>2. CASE f = e
        <3>1. ~locked'[f]
            BY <1>1, <1>2, <1>3, <2>2 DEF TypeOK
        <3>2. \A d \in Referrers(e) : pc'[d] # "holding"
            BY <1>6, <1>7 DEF Referrers
        <3>3. QED
            BY <1>2, <1>5, <2>1, <2>2, <3>1, <3>2
    <2>3. CASE f # e
        <3>1. locked'[f] <=> locked[f]
            BY <1>1, <1>2, <2>3 DEF TypeOK
        <3>2. \A d \in Referrers(f) : d \in Caller /\ d # c
            BY <2>3 DEF Referrers
        <3>3. QED
            BY <1>2, <1>5, <1>7, <2>1, <3>1, <3>2
    <2>4. QED
        BY <2>2, <2>3
<1>9. Accounting'
    <2>1. \A d \in Caller :
            /\ pc'[d] = "idle" <=> entry'[d] = None
            /\ pc'[d] = "idle" <=> thread'[d] = None
            /\ pc'[d] # "idle" => entries'[thread'[d]] = entry'[d]
        BY <1>1, <1>2, <1>7 DEF Accounting
    <2>2. \A b, d \in Caller :
            (entry'[b] = entry'[d] /\ pc'[b] # "idle") => thread'[b] = thread'[d]
        BY <1>1, <1>2, <1>7 DEF Accounting
    <2>3. \A b, d \in Caller :
            (pc'[b] = "holding" /\ pc'[d] = "holding" /\ entry'[b] = entry'[d]) => b = d
        BY <1>1, <1>2, <1>7 DEF Accounting
    <2>4. QED
        BY <1>8, <2>1, <2>2, <2>3 DEF Accounting
<1>10. NoIdleEntries'
    BY <1>1, <1>2 DEF NoIdleEntries
<1>11. QED
    BY <1>4, <1>9, <1>10 DEF IndInv

\* A caller that gave its lock back drops its reference; the entry leaves the
\* registry exactly when no caller of the conversation is left.
LEMMA DeregisterInv ==
    ASSUME IndInv, NEW c \in Caller, Deregister(c)
    PROVE  IndInv'
<1> USE NoneAssumption
<1>1. TypeOK /\ Accounting /\ NoIdleEntries
    BY DEF IndInv
<1>0. PICK e \in Entry, t \in Thread : entry[c] = e /\ thread[c] = t /\ entries[t] = e
    BY <1>1 DEF Deregister, Accounting, TypeOK
<1>2. /\ pc[c] = "releasing"
      /\ users' = [users EXCEPT ![e] = users[e] - 1]
      /\ entries' = IF users[e] - 1 = 0 /\ entries[t] = e
                    THEN [entries EXCEPT ![t] = None]
                    ELSE entries
      /\ pc' = [pc EXCEPT ![c] = "idle"]
      /\ thread' = [thread EXCEPT ![c] = None]
      /\ entry' = [entry EXCEPT ![c] = None]
      /\ UNCHANGED locked
    BY <1>0 DEF Deregister, NoUsers
<1>3. entry[c] = e /\ thread[c] = t /\ entries[t] = e
    BY <1>0
<1>4. /\ Cardinality(Referrers(e)') = Cardinality(Referrers(e)) - 1
      /\ Referrers(e)' = Referrers(e) \ {c}
      /\ \A f \in Entry : f # e => Referrers(f)' = Referrers(f)
    BY <1>1, <1>2, <1>3, ReferrerRemoved
<1>5. users[e] = Cardinality(Referrers(e)) /\ users[e] \in Nat
    BY <1>1, <1>3 DEF Accounting, TypeOK
<1>6. c \in Referrers(e)
    BY <1>3 DEF Referrers
<1>7. users[e] - 1 \in Nat
    BY <1>5, <1>6, ReferrersFinite
<1>8. TypeOK'
    <2>1. users' \in [Entry -> Nat]
        BY <1>1, <1>2, <1>7 DEF TypeOK
    <2>2. entries' \in [Thread -> Entry \cup {None}]
        BY <1>1, <1>2 DEF TypeOK
    <2>3. QED
        BY <1>1, <1>2, <2>1, <2>2 DEF TypeOK
<1>9. /\ pc'[c] = "idle" /\ thread'[c] = None /\ entry'[c] = None
      /\ \A d \in Caller : d # c =>
            pc'[d] = pc[d] /\ thread'[d] = thread[d] /\ entry'[d] = entry[d]
    BY <1>1, <1>2 DEF TypeOK
\* The entry is forgotten exactly when c was its last referrer.
<1>10. entries' = IF Referrers(e) = {c}
                  THEN [entries EXCEPT ![t] = None]
                  ELSE entries
    <2>1. users[e] - 1 = 0 <=> Cardinality(Referrers(e)') = 0
        BY <1>4, <1>5
    <2>2. Cardinality(Referrers(e) \ {c}) = 0 <=> Referrers(e) \ {c} = {}
        BY ReferrersFinite, FS_RemoveElement, FS_EmptySet
    <2>3. Referrers(e) \ {c} = {} <=> Referrers(e) = {c}
        BY <1>6
    <2>4. QED
        BY <1>2, <1>3, <1>4, <2>1, <2>2, <2>3
<1>11. \A f \in Entry :
        /\ users'[f] = Cardinality(Referrers(f)')
        /\ locked'[f] <=> \E d \in Referrers(f)' : pc'[d] = "holding"
    <2> SUFFICES ASSUME NEW f \in Entry
                 PROVE  /\ users'[f] = Cardinality(Referrers(f)')
                        /\ locked'[f] <=> \E d \in Referrers(f)' : pc'[d] = "holding"
        OBVIOUS
    <2>1. /\ users[f] = Cardinality(Referrers(f))
          /\ locked[f] <=> \E d \in Referrers(f) : pc[d] = "holding"
        BY <1>1 DEF Accounting
    <2>2. users'[f] = Cardinality(Referrers(f)')
        BY <1>1, <1>2, <1>4, <2>1 DEF TypeOK
    <2>3. (\E d \in Referrers(f) : pc[d] = "holding")
            <=> (\E d \in Referrers(f)' : pc'[d] = "holding")
        BY <1>2, <1>4, <1>9 DEF Referrers
    <2>4. QED
        BY <1>2, <2>1, <2>2, <2>3
<1>12. Accounting'
    <2>1. \A d \in Caller :
            /\ pc'[d] = "idle" <=> entry'[d] = None
            /\ pc'[d] = "idle" <=> thread'[d] = None
        BY <1>1, <1>9 DEF Accounting
    <2>2. \A d \in Caller : pc'[d] # "idle" => entries'[thread'[d]] = entry'[d]
        <3> SUFFICES ASSUME NEW d \in Caller, pc'[d] # "idle"
                     PROVE  entries'[thread[d]] = entry[d]
            BY <1>9
        <3>1. d # c /\ pc[d] # "idle" /\ entries[thread[d]] = entry[d]
            BY <1>1, <1>9 DEF Accounting
        <3>2. CASE Referrers(e) = {c}
            <4>1. thread[d] # t
                BY <1>3, <3>1, <3>2 DEF Referrers
            <4>2. QED
                BY <1>1, <1>10, <3>1, <3>2, <4>1 DEF TypeOK
        <3>3. CASE Referrers(e) # {c}
            BY <1>10, <3>1, <3>3
        <3>4. QED
            BY <3>2, <3>3
    <2>3. \A b, d \in Caller :
            (entry'[b] = entry'[d] /\ pc'[b] # "idle") => thread'[b] = thread'[d]
        BY <1>1, <1>9 DEF Accounting
    <2>4. \A b, d \in Caller :
            (pc'[b] = "holding" /\ pc'[d] = "holding" /\ entry'[b] = entry'[d]) => b = d
        BY <1>1, <1>9 DEF Accounting
    <2>5. QED
        BY <1>11, <2>1, <2>2, <2>3, <2>4 DEF Accounting
<1>13. NoIdleEntries'
    <2> SUFFICES ASSUME NEW s \in Thread, entries'[s] # None
                 PROVE  \E d \in Caller : thread'[d] = s /\ entry'[d] = entries'[s]
        BY DEF NoIdleEntries
    <2>1. entries'[s] = entries[s] /\ (s = t => Referrers(e) # {c})
        BY <1>1, <1>10 DEF TypeOK
    <2>2. PICK b \in Caller : thread[b] = s /\ entry[b] = entries[s]
        BY <1>1, <2>1 DEF NoIdleEntries
    <2>3. CASE b # c
        BY <1>9, <2>1, <2>2, <2>3
    <2>4. CASE b = c
        <3>1. PICK d \in Referrers(e) : d # c
            BY <1>3, <1>6, <2>1, <2>2, <2>4
        <3>2. d \in Caller /\ entry[d] = e /\ pc[d] # "idle"
            BY <1>1, <1>3 DEF Accounting, Referrers
        <3>3. thread[d] = t
            BY <1>1, <1>3, <3>2 DEF Accounting
        <3>4. QED
            BY <1>3, <1>9, <2>1, <2>2, <2>4, <3>1, <3>2, <3>3
    <2>5. QED
        BY <2>3, <2>4
<1>14. QED
    BY <1>8, <1>12, <1>13 DEF IndInv

LEMMA NextInv == IndInv /\ [Next]_vars => IndInv'
<1> SUFFICES ASSUME IndInv, [Next]_vars PROVE IndInv'
    OBVIOUS
<1>1. ASSUME NEW c \in Caller, NEW t \in Thread, Register(c, t) PROVE IndInv'
    BY <1>1, RegisterInv
<1>2. ASSUME NEW c \in Caller, Obtain(c) PROVE IndInv'
    BY <1>2, ObtainInv
<1>3. ASSUME NEW c \in Caller, ReleaseLock(c) PROVE IndInv'
    BY <1>3, ReleaseLockInv
<1>4. ASSUME NEW c \in Caller, Deregister(c) PROVE IndInv'
    BY <1>4, DeregisterInv
<1>5. CASE UNCHANGED vars
    <2>1. \A e : Referrers(e)' = Referrers(e)
        BY <1>5 DEF vars, Referrers
    <2>2. TypeOK' /\ NoIdleEntries'
        BY <1>5 DEF vars, IndInv, TypeOK, NoIdleEntries
    <2>3. Accounting'
        BY <1>5, <2>1 DEF vars, IndInv, Accounting
    <2>4. QED
        BY <2>2, <2>3 DEF IndInv
<1>6. QED
    BY <1>1, <1>2, <1>3, <1>4, <1>5 DEF Next

-----------------------------------------------------------------------------
\* The registry's bookkeeping is exact in every reachable state.
THEOREM AccountingInvariant == Spec => [](TypeOK /\ Accounting)
<1>1. IndInv => TypeOK /\ Accounting
    BY DEF IndInv
<1>2. QED
    BY <1>1, InitInv, NextInv, PTL DEF Spec

\* Every variable keeps its type: counts stay natural numbers.
THEOREM Types == Spec => []TypeOK
BY AccountingInvariant, PTL

\* Two callers never hold leases on one conversation, whatever the history of
\* its lock object (ThreadExecutionLocks, "Serializes one conversation").
THEOREM MutualExclusion == Spec => []Serialized
<1>1. IndInv => Serialized
    BY DEF IndInv, Accounting, Serialized
<1>2. QED
    BY <1>1, InitInv, NextInv, PTL DEF Spec

\* An entry stays in the registry only while a caller uses it
\* ("without retaining idle lock objects").
THEOREM RegistryReclaimed == Spec => []NoIdleEntries
<1>1. IndInv => NoIdleEntries
    BY DEF IndInv
<1>2. QED
    BY <1>1, InitInv, NextInv, PTL DEF Spec

-----------------------------------------------------------------------------
\* The refinement: wants and inside as the abstract mutex sees them.
Wants == [c \in Caller |-> IF pc[c] \in {"waiting", "holding"} THEN thread[c] ELSE None]
Inside == {c \in Caller : pc[c] = "holding"}

LEMMA InitRefines == Init => Mutex!Init
BY DEF Init, Mutex!Init

LEMMA StepRefines == IndInv /\ [Next]_vars => [Mutex!Next]_(Mutex!vars)
<1> SUFFICES ASSUME IndInv, [Next]_vars PROVE [Mutex!Next]_(Mutex!vars)
    OBVIOUS
<1>1. TypeOK /\ Accounting
    BY DEF IndInv
<1>2. ASSUME NEW c \in Caller, NEW t \in Thread, Register(c, t)
      PROVE  Mutex!Ask(c, t)
    BY <1>1, <1>2 DEF Register, Mutex!Ask, TypeOK
<1>3. ASSUME NEW c \in Caller, Obtain(c)
      PROVE  Mutex!Enter(c)
    <2>1. Wants[c] = thread[c] /\ thread[c] # None
        BY <1>1, <1>3 DEF Obtain, Wants, Accounting
    <2>2. ASSUME NEW d \in Caller, pc[d] = "holding", thread[d] = thread[c]
          PROVE  FALSE
        <3>1. entry[d] = entry[c] /\ entry[c] \in Entry
            BY <1>1, <1>3, <2>2, NoneAssumption DEF Obtain, Accounting, TypeOK
        <3>2. locked[entry[c]]
            BY <1>1, <2>2, <3>1 DEF Accounting, Referrers
        <3>3. QED
            BY <1>3, <3>2 DEF Obtain, LockFree
    <2>3. Inside' = Inside \cup {c} /\ Wants' = Wants
        BY <1>1, <1>3 DEF Obtain, Inside, Wants, TypeOK
    <2>4. \A d \in Inside : Wants[d] # Wants[c]
        BY <2>1, <2>2 DEF Inside, Wants
    <2>5. QED
        BY <2>1, <2>3, <2>4 DEF Mutex!Enter, Inside, Wants
<1>4. ASSUME NEW c \in Caller, ReleaseLock(c)
      PROVE  Mutex!Leave(c)
    BY <1>1, <1>4 DEF ReleaseLock, Mutex!Leave, TypeOK
<1>5. ASSUME NEW c \in Caller, Deregister(c)
      PROVE  UNCHANGED Mutex!vars
    BY <1>1, <1>5 DEF Deregister, Mutex!vars, TypeOK
<1>6. CASE UNCHANGED vars
    BY <1>6 DEF vars, Mutex!vars
<1>7. QED
    BY <1>2, <1>3, <1>4, <1>5, <1>6 DEF Next, Mutex!Next

\* ThreadExecutionLocks is a mutex per conversation: what its users may rely on
\* without knowing of entries, counts or the registry.
THEOREM Refinement == Spec => ImplementsMutex
<1>1. Spec => []IndInv
    BY InitInv, NextInv, PTL DEF Spec
<1>2. QED
    BY <1>1, InitRefines, StepRefines, PTL DEF Spec, Mutex!Spec, ImplementsMutex

=============================================================================

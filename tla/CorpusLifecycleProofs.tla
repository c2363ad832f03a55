----------------------- MODULE CorpusLifecycleProofs -----------------------
(***************************************************************************)
(* For any number of publishing and rolling back runs that overlap and die *)
(* anywhere, any versions, chunks and builds: one complete version is      *)
(* served, one is kept, and what was published does not change.            *)
(***************************************************************************)
EXTENDS CorpusLifecycle, FiniteSetTheorems, TLAPS

Row == [status : {"absent", "staging", "published", "retired"},
        chunks : SUBSET Chunk, embedded : SUBSET Chunk,
        linked : Version \cup {NoVersion}, publishedAt : Nat]

\* What TypeOK says of one version.
RowOK(c) ==
    /\ c \in Row
    /\ c.embedded \subseteq c.chunks
    /\ c.status = "absent" => c = Absent
    /\ c.publishedAt > 0 <=> c.status \in {"published", "retired"}

\* No two versions are published, or retired, at once.
Single ==
    \A v, w \in Version :
        corpus[v].status = corpus[w].status /\ corpus[v].status \in {"published", "retired"}
            => v = w

\* Timestamps are given out once, so that they order the published versions; a
\* run that waits for the table lock has one that no version has yet.
Timed ==
    /\ \A v \in Version : corpus[v].publishedAt <= clock
    /\ \A v, w \in Version :
          corpus[v].publishedAt = corpus[w].publishedAt /\ corpus[v].publishedAt > 0 => v = w
    /\ \A j \in Job : pc[j] = "locked" =>
          began[j] \in 1 .. clock /\ \A v \in Version : corpus[v].publishedAt # began[j]
    /\ \A j, k \in Job : pc[j] = "locked" /\ pc[k] = "locked" /\ began[j] = began[k] => j = k

\* What was published is complete.
Whole == \A v \in Version : corpus[v].status \in {"published", "retired"} => Complete(v)

\* Something is published since the first publication, and something retired
\* since the second.
Remembered ==
    /\ served[1] # NoVersion => \E v \in Version : corpus[v].status = "published"
    /\ served[2] # NoVersion => \E v \in Version : corpus[v].status = "retired"

\* A run that has begun is about some version.
Targeted == \A j \in Job : pc[j] \notin Ended => target[j] \in Version

Inv == TypeOK /\ Single /\ Timed /\ Whole /\ Remembered /\ Targeted

-----------------------------------------------------------------------------
(* The swap *)

\* The tables between the two UPDATEs and the pruning.
Between(v, now) == [Retire(corpus) EXCEPT ![v].status = "published", ![v].publishedAt = now]

LEMMA BetweenRows ==
    ASSUME TypeOK, NEW v \in Version, NEW now \in Nat
    PROVE  /\ Between(v, now) \in [Version -> Row]
           /\ Between(v, now)[v] = [corpus[v] EXCEPT !.status = "published", !.publishedAt = now]
           /\ \A w \in Version \ {v} :
                 IF corpus[w].status = "published"
                 THEN Between(v, now)[w] = [corpus[w] EXCEPT !.status = "retired"]
                 ELSE Between(v, now)[w] = corpus[w]
<1>1. corpus \in [Version -> Row]
    BY DEF TypeOK, Row
<1>2. Retire(corpus) \in [Version -> Row]
    <2>1. \A w \in Version : corpus[w] \in Row
        BY <1>1
    <2>2. \A w \in Version : [corpus[w] EXCEPT !.status = "retired"] \in Row
        BY <2>1 DEF Row
    <2>3. QED
        BY <2>1, <2>2 DEF Retire
<1>3. [Retire(corpus)[v] EXCEPT !.status = "published", !.publishedAt = now]
          = [corpus[v] EXCEPT !.status = "published", !.publishedAt = now]
    BY <1>1, <1>2 DEF Retire, Row
<1>4. [corpus[v] EXCEPT !.status = "published", !.publishedAt = now] \in Row
    BY <1>1 DEF Row
<1>5. Between(v, now) =
          [Retire(corpus) EXCEPT ![v] =
              [Retire(corpus)[v] EXCEPT !.status = "published", !.publishedAt = now]]
    BY <1>2 DEF Between
<1>6. QED
    BY <1>1, <1>2, <1>3, <1>4, <1>5 DEF Retire

\* After a swap the new version is published and the one that was is retired; of
\* the others, some are gone.
LEMMA SwapRows ==
    ASSUME TypeOK, NEW v \in Version, NEW now \in Nat, SwapTo(v, now)
    PROVE  /\ corpus' = Prune(Between(v, now))
           /\ DOMAIN corpus' = Version
           /\ corpus'[v] = [corpus[v] EXCEPT !.status = "published", !.publishedAt = now]
           /\ \A w \in Version \ {v} :
                 \/ corpus'[w] = Absent
                 \/ corpus[w].status # "published" /\ corpus'[w] = corpus[w]
                 \/ /\ corpus[w].status = "published"
                    /\ corpus'[w] = [corpus[w] EXCEPT !.status = "retired"]
<1> DEFINE mid == Between(v, now)
<1>1. corpus' = Prune(mid) /\ corpus \in [Version -> Row]
    BY DEF SwapTo, Between, TypeOK, Row
<1>2. /\ mid[v] = [corpus[v] EXCEPT !.status = "published", !.publishedAt = now]
      /\ \A w \in Version \ {v} :
            IF corpus[w].status = "published"
            THEN mid[w] = [corpus[w] EXCEPT !.status = "retired"] ELSE mid[w] = corpus[w]
    BY BetweenRows
<1> HIDE DEF mid
<1>3. /\ DOMAIN corpus' = Version
      /\ \A w \in Version : corpus'[w] \in {Absent, mid[w]}
      /\ mid[v].status # "retired" => corpus'[v] = mid[v]
    BY <1>1 DEF Prune
<1>4. mid[v].status = "published"
    BY <1>1, <1>2 DEF Row
<1>5. QED
    BY <1>1, <1>2, <1>3, <1>4 DEF mid

\* Of retired versions with different times one is kept at most.
LEMMA PruneLeavesOne ==
    ASSUME NEW s \in [Version -> Row],
           \A v, w \in Version :
               s[v].status = "retired" /\ s[w].status = "retired"
                   /\ s[v].publishedAt = s[w].publishedAt => v = w
    PROVE  \A v, w \in Version :
               Prune(s)[v].status = "retired" /\ Prune(s)[w].status = "retired" => v = w
<1> SUFFICES ASSUME NEW v \in Version, NEW w \in Version,
                    Prune(s)[v].status = "retired", Prune(s)[w].status = "retired"
             PROVE  v = w
    OBVIOUS
<1>1. v \in KeepLatest(s) /\ w \in KeepLatest(s)
    BY DEF Prune, Absent
<1>2. s[v].publishedAt <= s[w].publishedAt /\ s[w].publishedAt <= s[v].publishedAt
    BY <1>1 DEF KeepLatest
<1>3. s[v].publishedAt \in Nat /\ s[w].publishedAt \in Nat
    BY DEF Row
<1>4. QED
    BY <1>1, <1>2, <1>3 DEF KeepLatest

\* Of two retired versions, or one, one is kept.
LEMMA PruneLeavesSome ==
    ASSUME NEW s \in [Version -> Row], NEW a \in Version, NEW b \in Version,
           s[a].status = "retired",
           \A w \in Version : s[w].status = "retired" => w \in {a, b}
    PROVE  \E w \in Version : Prune(s)[w].status = "retired"
<1>1. s[a].publishedAt \in Nat /\ s[b].publishedAt \in Nat
    BY DEF Row
<1>2. PICK w \in {a, b} : /\ s[w].status = "retired"
                          /\ s[b].status = "retired" => s[b].publishedAt <= s[w].publishedAt
                          /\ s[a].publishedAt <= s[w].publishedAt
    BY <1>1
<1>3. w \in KeepLatest(s)
    BY <1>2 DEF KeepLatest
<1>4. QED
    BY <1>2, <1>3 DEF Prune

-----------------------------------------------------------------------------
(* The invariant *)

LEMMA SwapInv ==
    ASSUME Inv, NEW j \in Job, NEW status \in {"staging", "retired"}, Swap(j, status)
    PROVE  Inv'
<1> USE NoVersionAssumption
<1>1. target[j] \in Version
    BY DEF Swap, Inv, Targeted, Ended
<1>2. Targeted'
    BY DEF Swap, Goto, Inv, Targeted, TypeOK, Ended
<1>3. CASE ~Valid(target[j], status)
    <2>1. /\ UNCHANGED <<corpus, served, target, build, began, clock, alone>>
          /\ pc' = [pc EXCEPT ![j] = "refused"]
        BY <1>3 DEF Swap, Goto
    <2>2. TypeOK'
        BY <2>1 DEF Inv, TypeOK, Ended
    <2>3. Timed'
        BY <2>1 DEF Inv, Timed, TypeOK
    <2>4. QED
        BY <1>2, <2>1, <2>2, <2>3 DEF Inv, Single, Whole, Remembered, Complete
<1>4. CASE Valid(target[j], status)
    <2> DEFINE v == target[j]
               now == began[j]
    <2>1. /\ SwapTo(v, now) /\ pc[j] = "locked" /\ pc' = [pc EXCEPT ![j] = "done"]
          /\ UNCHANGED <<target, build, began, clock, alone>>
          /\ corpus[v].status = status /\ Complete(v)
        BY <1>4 DEF Swap, Goto, Valid
    <2>2. /\ now \in 1 .. clock /\ clock \in Nat /\ now \in Nat /\ now > 0
          /\ \A w \in Version : corpus[w].publishedAt # now
          /\ corpus \in [Version -> Row] /\ v \in Version
          /\ \A w \in Version : RowOK(corpus[w]) /\ corpus[w] \in Row
        BY <1>1, <2>1 DEF Inv, Timed, TypeOK, RowOK, Row
    <2>3. /\ corpus' = Prune(Between(v, now))
          /\ DOMAIN corpus' = Version
          /\ corpus'[v] = [corpus[v] EXCEPT !.status = "published", !.publishedAt = now]
          /\ \A w \in Version \ {v} :
                 \/ corpus'[w] = Absent
                 \/ corpus[w].status # "published" /\ corpus'[w] = corpus[w]
                 \/ /\ corpus[w].status = "published"
                    /\ corpus'[w] = [corpus[w] EXCEPT !.status = "retired"]
        BY <2>1, <2>2, SwapRows DEF Inv
    <2> HIDE DEF v, now
    <2>4. \A w \in Version : RowOK(corpus'[w])
        <3> SUFFICES ASSUME NEW w \in Version PROVE RowOK(corpus'[w])
            OBVIOUS
        <3>1. CASE w = v
            BY <2>1, <2>2, <2>3, <3>1 DEF RowOK, Row
        <3>2. CASE corpus'[w] = Absent
            BY <3>2 DEF RowOK, Row, Absent
        <3>3. CASE corpus'[w] = corpus[w]
            BY <2>2, <3>3
        <3>4. CASE corpus[w].status = "published"
                   /\ corpus'[w] = [corpus[w] EXCEPT !.status = "retired"]
            BY <2>2, <3>4 DEF RowOK, Row
        <3>5. QED
            BY <2>3, <3>1, <3>2, <3>3, <3>4
    <2>5. \A w \in Version : corpus'[w] \in Row
        BY <2>4 DEF RowOK
    <2>6. corpus' \in [Version -> Row]
        <3>1. corpus' = [w \in Version |-> corpus'[w]]
            BY <2>3 DEF Prune
        <3>2. QED
            BY <2>5, <3>1
    <2>7. served' = <<v, served[1]>>
        BY <2>1 DEF SwapTo
    <2>8. TypeOK'
        <3>1. served' \in (Version \cup {NoVersion}) \X (Version \cup {NoVersion})
            BY <2>7 DEF Inv, TypeOK, v
        <3>2. QED
            BY <2>1, <2>4, <2>6, <3>1 DEF Inv, TypeOK, RowOK, Row, Ended
    <2>9. Timed'
        <3>1. \A w \in Version : \/ corpus'[w].publishedAt \in {0, corpus[w].publishedAt}
                                 \/ w = v /\ corpus'[w].publishedAt = now
            <4> SUFFICES ASSUME NEW w \in Version
                         PROVE  \/ corpus'[w].publishedAt \in {0, corpus[w].publishedAt}
                                \/ w = v /\ corpus'[w].publishedAt = now
                OBVIOUS
            <4>1. corpus[w] \in Row
                BY <2>2
            <4>2. CASE w = v
                BY <2>3, <4>1, <4>2 DEF Row
            <4>3. CASE w # v
                BY <2>3, <4>1, <4>3 DEF Absent, Row
            <4>4. QED
                BY <4>2, <4>3
        <3>2. \A w \in Version : corpus'[w].publishedAt <= clock'
            BY <2>1, <2>2, <3>1 DEF Inv, Timed
        <3>3. \A x, w \in Version :
                  corpus'[x].publishedAt = corpus'[w].publishedAt /\ corpus'[x].publishedAt > 0
                      => x = w
            BY <2>2, <3>1 DEF Inv, Timed
        <3>4. \A k \in Job : pc'[k] = "locked" => k # j /\ pc[k] = "locked"
            BY <2>1 DEF Inv, TypeOK
        <3>5. \A k \in Job : pc'[k] = "locked" =>
                  /\ began'[k] \in 1 .. clock' /\ began'[k] # now
                  /\ \A w \in Version : corpus'[w].publishedAt # began'[k]
            <4> SUFFICES ASSUME NEW k \in Job, pc'[k] = "locked"
                         PROVE  /\ began'[k] \in 1 .. clock' /\ began'[k] # now
                                /\ \A w \in Version : corpus'[w].publishedAt # began'[k]
                OBVIOUS
            <4>1. /\ began'[k] = began[k] /\ clock' = clock /\ began[k] \in 1 .. clock
                  /\ \A w \in Version : corpus[w].publishedAt # began[k]
                BY <2>1, <3>4 DEF Inv, Timed
            <4>2. began[k] # now
                BY <2>1, <3>4 DEF Inv, Timed, now
            <4>3. QED
                BY <2>2, <3>1, <4>1, <4>2
        <3>6. \A k, l \in Job : pc'[k] = "locked" /\ pc'[l] = "locked" /\ began'[k] = began'[l]
                                   => k = l
            BY <2>1, <3>4 DEF Inv, Timed
        <3>7. QED
            BY <3>2, <3>3, <3>5, <3>6 DEF Timed
    <2>10. /\ Between(v, now) \in [Version -> Row]
           /\ Between(v, now)[v].status = "published"
           /\ \A w \in Version \ {v} :
                 /\ Between(v, now)[w].publishedAt = corpus[w].publishedAt
                 /\ Between(v, now)[w].status = IF corpus[w].status = "published" THEN "retired"
                                                ELSE corpus[w].status
        <3>1. /\ Between(v, now) \in [Version -> Row]
              /\ Between(v, now)[v] = [corpus[v] EXCEPT !.status = "published", !.publishedAt = now]
              /\ \A w \in Version \ {v} :
                    IF corpus[w].status = "published"
                    THEN Between(v, now)[w] = [corpus[w] EXCEPT !.status = "retired"]
                    ELSE Between(v, now)[w] = corpus[w]
            BY <2>2, BetweenRows DEF Inv
        <3>2. \A w \in Version : corpus[w] \in Row
            BY <2>2
        <3>3. QED
            BY <2>2, <3>1, <3>2 DEF Row
    <2>11. \A w \in Version : Between(v, now)[w].status = "retired" =>
              /\ w # v /\ corpus[w].status \in {"published", "retired"}
              /\ Between(v, now)[w].publishedAt = corpus[w].publishedAt
        BY <2>10
    <2>12. Single'
        <3>1. \A w \in Version : corpus'[w].status = "published" => w = v
            BY <2>2, <2>3 DEF Absent, Row
        <3>2. \A x, w \in Version :
                  corpus'[x].status = "retired" /\ corpus'[w].status = "retired" => x = w
            <4> DEFINE mid == Between(v, now)
            <4>1. /\ corpus' = Prune(mid) /\ mid \in [Version -> Row]
                  /\ \A w \in Version : mid[w].status = "retired" =>
                        /\ corpus[w].status \in {"published", "retired"}
                        /\ mid[w].publishedAt = corpus[w].publishedAt
                BY <2>3, <2>10, <2>11
            <4> HIDE DEF mid
            <4>2. \A w \in Version : corpus[w].status \in {"published", "retired"}
                                        => corpus[w].publishedAt > 0
                BY <2>2 DEF RowOK
            <4>3. \A x, w \in Version :
                      mid[x].status = "retired" /\ mid[w].status = "retired"
                          /\ mid[x].publishedAt = mid[w].publishedAt => x = w
                BY <4>1, <4>2 DEF Inv, Timed
            <4>4. \A x, w \in Version :
                      Prune(mid)[x].status = "retired" /\ Prune(mid)[w].status = "retired" => x = w
                BY <4>1, <4>3, PruneLeavesOne
            <4>5. QED
                BY <4>1, <4>4
        <3>3. QED
            BY <3>1, <3>2 DEF Single
    <2>13. Whole'
        <3> SUFFICES ASSUME NEW w \in Version, corpus'[w].status \in {"published", "retired"}
                     PROVE  Complete(w)'
            BY DEF Whole
        <3>1. /\ corpus'[w].chunks = corpus[w].chunks /\ corpus'[w].embedded = corpus[w].embedded
              /\ Complete(w)
            <4>1. CASE w = v
                <5>1. corpus[v] \in Row
                    BY <2>2
                <5>2. QED
                    BY <2>1, <2>3, <4>1, <5>1 DEF v, Row
            <4>2. CASE w # v
                <5>1. corpus[w] \in Row /\ Absent.status = "absent"
                    BY <2>2 DEF Absent
                <5>2. \/ corpus'[w] = corpus[w]
                      \/ /\ corpus[w].status = "published"
                         /\ corpus'[w] = [corpus[w] EXCEPT !.status = "retired"]
                    BY <2>3, <4>2, <5>1
                <5>3. QED
                    BY <5>1, <5>2 DEF Inv, Whole, Row
            <4>3. QED
                BY <4>1, <4>2
        <3>2. QED
            BY <3>1 DEF Complete
    <2>14. Remembered'
        <3>1. corpus'[v].status = "published"
            BY <2>2, <2>3 DEF v, Row
        <3>2. ASSUME NEW a \in Version, corpus[a].status = "published"
              PROVE  \E w \in Version : corpus'[w].status = "retired"
            <4>1. PICK b \in Version : \A w \in Version : corpus[w].status = "retired" => w = b
                BY <3>2 DEF Inv, Single
            <4>2. Between(v, now)[a].status = "retired"
                BY <2>1, <2>10, <3>2 DEF v
            <4>3. \A w \in Version : Between(v, now)[w].status = "retired" => w \in {a, b}
                BY <2>11, <3>2, <4>1 DEF Inv, Single
            <4>4. QED
                BY <2>3, <2>10, <4>2, <4>3, PruneLeavesSome
        <3>3. served'[2] = served[1]
            BY <2>7
        <3>4. QED
            BY <1>1, <3>1, <3>2, <3>3 DEF Inv, Remembered, v
    <2>15. QED
        BY <1>2, <2>8, <2>9, <2>12, <2>13, <2>14 DEF Inv
<1>5. QED
    BY <1>3, <1>4

\* A step that begins no transaction and swaps nothing: what was published stays.
LEMMA QuietInv ==
    ASSUME Inv, TypeOK', Targeted', NEW j \in Job, NEW to,
           pc' = [pc EXCEPT ![j] = to], to # "locked",
           UNCHANGED <<began, clock, served>>,
           \A v \in Version :
               \/ corpus'[v] = corpus[v]
               \/ /\ corpus[v].status \in {"absent", "staging"}
                  /\ corpus'[v].status \in {"absent", "staging"}
               \/ corpus'[v] = [corpus[v] EXCEPT !.linked = Published]
    PROVE  Inv'
<1>1. \A v \in Version :
          /\ corpus[v] \in Row
          /\ corpus'[v].publishedAt = corpus[v].publishedAt
          /\ \/ corpus'[v].status = corpus[v].status
             \/ /\ corpus[v].status \in {"absent", "staging"}
                /\ corpus'[v].status \in {"absent", "staging"}
          /\ corpus[v].status \in {"published", "retired"} =>
                corpus'[v].chunks = corpus[v].chunks /\ corpus'[v].embedded = corpus[v].embedded
    <2> SUFFICES ASSUME NEW v \in Version
                 PROVE  /\ corpus[v] \in Row
                        /\ corpus'[v].publishedAt = corpus[v].publishedAt
                        /\ \/ corpus'[v].status = corpus[v].status
                           \/ /\ corpus[v].status \in {"absent", "staging"}
                              /\ corpus'[v].status \in {"absent", "staging"}
                        /\ corpus[v].status \in {"published", "retired"} =>
                              /\ corpus'[v].chunks = corpus[v].chunks
                              /\ corpus'[v].embedded = corpus[v].embedded
        OBVIOUS
    <2>1. /\ corpus[v] \in Row /\ corpus'[v] \in Row
          /\ corpus[v].publishedAt > 0 <=> corpus[v].status \in {"published", "retired"}
          /\ corpus'[v].publishedAt > 0 <=> corpus'[v].status \in {"published", "retired"}
        BY DEF Inv, TypeOK, Row
    <2>2. CASE corpus'[v] = corpus[v]
        BY <2>1, <2>2
    <2>3. CASE /\ corpus[v].status \in {"absent", "staging"}
               /\ corpus'[v].status \in {"absent", "staging"}
        <3>1. corpus[v].publishedAt = 0 /\ corpus'[v].publishedAt = 0
            BY <2>1, <2>3 DEF Row
        <3>2. QED
            BY <2>1, <2>3, <3>1
    <2>4. CASE corpus'[v] = [corpus[v] EXCEPT !.linked = Published]
        BY <2>1, <2>4 DEF Row
    <2>5. QED
        BY <2>2, <2>3, <2>4
<1>2. Single'
    BY <1>1 DEF Inv, Single
<1>3. \A k \in Job : pc'[k] = "locked" => pc[k] = "locked"
    BY DEF Inv, TypeOK
<1>4. Timed'
    <2>1. \A v \in Version : corpus'[v].publishedAt <= clock'
        BY <1>1 DEF Inv, Timed
    <2>2. \A v, w \in Version :
              corpus'[v].publishedAt = corpus'[w].publishedAt /\ corpus'[v].publishedAt > 0 => v = w
        BY <1>1 DEF Inv, Timed
    <2>3. \A k \in Job : pc'[k] = "locked" =>
              began'[k] \in 1 .. clock' /\ \A v \in Version : corpus'[v].publishedAt # began'[k]
        BY <1>1, <1>3 DEF Inv, Timed
    <2>4. \A k, l \in Job : pc'[k] = "locked" /\ pc'[l] = "locked" /\ began'[k] = began'[l] => k = l
        BY <1>3 DEF Inv, Timed
    <2>5. QED
        BY <2>1, <2>2, <2>3, <2>4 DEF Timed
<1>5. Whole'
    BY <1>1 DEF Inv, Whole, Complete
<1>6. Remembered'
    BY <1>1 DEF Inv, Remembered
<1>7. QED
    BY <1>2, <1>4, <1>5, <1>6 DEF Inv

LEMMA BeginSwapInv ==
    ASSUME Inv, NEW j \in Job, BeginSwap(j)
    PROVE  Inv'
<1>1. /\ clock \in Nat /\ clock' = clock + 1 /\ pc[j] = "swap"
      /\ began' = [began EXCEPT ![j] = clock + 1] /\ pc' = [pc EXCEPT ![j] = "locked"]
      /\ UNCHANGED <<corpus, target, build, served, alone>>
      /\ began \in [Job -> Nat] /\ \A v \in Version : corpus[v].publishedAt \in Nat
    BY DEF BeginSwap, Goto, Inv, TypeOK
<1>2. TypeOK'
    BY <1>1 DEF Inv, TypeOK
<1>3. \A k \in Job : pc'[k] = "locked" =>
          \/ k = j /\ began'[k] = clock + 1
          \/ k # j /\ pc[k] = "locked" /\ began'[k] = began[k] /\ began[k] \in 1 .. clock
    BY <1>1 DEF Inv, TypeOK, Timed
<1>4. Timed'
    <2>1. \A v \in Version : corpus'[v].publishedAt <= clock /\ clock < clock'
        BY <1>1 DEF Inv, Timed
    <2>2. \A v, w \in Version :
              corpus'[v].publishedAt = corpus'[w].publishedAt /\ corpus'[v].publishedAt > 0 => v = w
        BY <1>1 DEF Inv, Timed
    <2>3. \A k \in Job : pc'[k] = "locked" =>
              began'[k] \in 1 .. clock' /\ \A v \in Version : corpus'[v].publishedAt # began'[k]
        BY <1>1, <1>3, <2>1 DEF Inv, Timed
    <2>4. \A k, l \in Job : pc'[k] = "locked" /\ pc'[l] = "locked" /\ began'[k] = began'[l] => k = l
        BY <1>1, <1>3 DEF Inv, Timed
    <2>5. QED
        BY <1>1, <2>1, <2>2, <2>3, <2>4 DEF Timed
<1>5. Targeted'
    BY <1>1 DEF Inv, TypeOK, Targeted, Ended
<1>6. QED
    BY <1>1, <1>2, <1>4, <1>5 DEF Inv, Single, Whole, Remembered, Complete

LEMMA BeginInv ==
    ASSUME Inv, NEW j \in Job, NEW v \in Version, NEW first \in {"check", "swap"},
           Begin(j, v, first), build' \in [Job -> SUBSET Chunk]
    PROVE  Inv'
<1>1. /\ pc' = [pc EXCEPT ![j] = first] /\ target' = [target EXCEPT ![j] = v]
      /\ alone' \subseteq Job /\ UNCHANGED <<corpus, began, clock, served>>
    BY DEF Begin, Goto, Inv, TypeOK
<1>2. TypeOK'
    BY <1>1 DEF Inv, TypeOK
<1>3. Targeted'
    BY <1>1 DEF Inv, TypeOK, Targeted, Ended
<1>4. QED
    BY <1>1, <1>2, <1>3, QuietInv

LEMMA PublisherInv ==
    ASSUME Inv, NEW j \in Job,
           \/ CheckReadiness(j) \/ CleanStaging(j) \/ WriteStagingBuild(j)
           \/ WriteEmbeddings(j) \/ LinkSupersedes(j) \/ Crash(j)
    PROVE  Inv'
<1> DEFINE v == target[j]
<1>1. PICK to \in Ended \cup {"clean", "write", "embed", "link", "swap"} :
          pc' = [pc EXCEPT ![j] = to]
    BY DEF CheckReadiness, CleanStaging, WriteStagingBuild, WriteEmbeddings, LinkSupersedes,
           Crash, Goto, Ended
<1>2. /\ pc[j] \notin Ended /\ v \in Version
      /\ UNCHANGED <<target, build, began, clock, served, alone>>
    BY DEF CheckReadiness, CleanStaging, WriteStagingBuild, WriteEmbeddings, LinkSupersedes,
           Crash, Keeping, Inv, Targeted, Ended
<1>3. Published \in Version \cup {NoVersion} /\ build[j] \in SUBSET Chunk
    BY DEF Published, With, Inv, TypeOK
<1>4. /\ corpus \in [Version -> Row] /\ corpus[v] \in Row
      /\ \A w \in Version : RowOK(corpus[w])
    BY <1>2 DEF Inv, TypeOK, RowOK, Row
<1>5. \/ UNCHANGED corpus
      \/ corpus[v].status = "staging" /\ corpus' = [corpus EXCEPT ![v] = Absent]
      \/ /\ corpus[v].status = "absent"
         /\ corpus' = [corpus EXCEPT ![v] = [Absent EXCEPT !.status = "staging", !.chunks = build[j]]]
      \/ /\ corpus[v].status = "staging" /\ build[j] \subseteq corpus[v].chunks
         /\ corpus' = [corpus EXCEPT ![v] = [corpus[v] EXCEPT !.embedded = @ \cup build[j]]]
      \/ /\ corpus[v].status # "absent"
         /\ corpus' = [corpus EXCEPT ![v] = [corpus[v] EXCEPT !.linked = Published]]
    BY <1>4 DEF CheckReadiness, CleanStaging, WriteStagingBuild, WriteEmbeddings, LinkSupersedes,
           Crash, Leftover, Writable, MayEmbed
<1> HIDE DEF v
<1>6. PICK row : /\ corpus' = [corpus EXCEPT ![v] = row] /\ RowOK(row)
                 /\ \/ row = corpus[v]
                    \/ corpus[v].status \in {"absent", "staging"} /\ row.status \in {"absent", "staging"}
                    \/ row = [corpus[v] EXCEPT !.linked = Published]
    <2>1. CASE UNCHANGED corpus
        <3>1. corpus' = [corpus EXCEPT ![v] = corpus[v]]
            BY <1>4, <2>1
        <3>2. QED
            BY <1>2, <1>4, <3>1 DEF v
    <2>2. CASE corpus[v].status = "staging" /\ corpus' = [corpus EXCEPT ![v] = Absent]
        <3>1. RowOK(Absent) /\ Absent.status = "absent"
            BY DEF RowOK, Row, Absent
        <3>2. QED
            BY <2>2, <3>1
    <2>3. CASE /\ corpus[v].status = "absent"
               /\ corpus' = [corpus EXCEPT ![v] =
                                [Absent EXCEPT !.status = "staging", !.chunks = build[j]]]
        <3> DEFINE staged == [Absent EXCEPT !.status = "staging", !.chunks = build[j]]
        <3>1. Absent \in Row /\ Absent.embedded = {} /\ Absent.publishedAt = 0
            BY DEF Absent, Row
        <3>2. RowOK(staged) /\ staged.status = "staging"
            <4>1. staged \in Row
                BY <1>3, <3>1 DEF Row
            <4>2. /\ staged.status = "staging" /\ staged.chunks = build[j]
                  /\ staged.embedded = {} /\ staged.publishedAt = 0
                BY <3>1 DEF Row
            <4> HIDE DEF staged
            <4>3. QED
                BY <4>1, <4>2 DEF RowOK
        <3>3. QED
            BY <2>3, <3>2
    <2>4. CASE /\ corpus[v].status = "staging" /\ build[j] \subseteq corpus[v].chunks
               /\ corpus' = [corpus EXCEPT ![v] = [corpus[v] EXCEPT !.embedded = @ \cup build[j]]]
        <3>1. RowOK([corpus[v] EXCEPT !.embedded = @ \cup build[j]])
            BY <1>2, <1>3, <1>4, <2>4 DEF RowOK, Row, v
        <3>2. [corpus[v] EXCEPT !.embedded = @ \cup build[j]].status = "staging"
            BY <1>4, <2>4 DEF Row
        <3>3. QED
            BY <2>4, <3>1, <3>2
    <2>5. CASE corpus[v].status # "absent"
               /\ corpus' = [corpus EXCEPT ![v] = [corpus[v] EXCEPT !.linked = Published]]
        <3>1. RowOK([corpus[v] EXCEPT !.linked = Published])
            BY <1>2, <1>3, <1>4, <2>5 DEF RowOK, Row, v
        <3>2. QED
            BY <2>5, <3>1
    <2>6. QED
        BY <1>5, <2>1, <2>2, <2>3, <2>4, <2>5
<1>7. /\ corpus' \in [Version -> Row]
      /\ \A w \in Version : RowOK(corpus'[w])
      /\ \A w \in Version :
             \/ corpus'[w] = corpus[w]
             \/ /\ corpus[w].status \in {"absent", "staging"}
                /\ corpus'[w].status \in {"absent", "staging"}
             \/ corpus'[w] = [corpus[w] EXCEPT !.linked = Published]
    BY <1>4, <1>6 DEF RowOK
<1>8. TypeOK'
    BY <1>1, <1>2, <1>7 DEF Inv, TypeOK, RowOK, Row, Ended
<1>9. Targeted'
    BY <1>1, <1>2 DEF Inv, Targeted, TypeOK
<1>10. to # "locked"
    BY <1>1 DEF Ended
<1>11. QED
    BY <1>1, <1>2, <1>7, <1>8, <1>9, <1>10, QuietInv

LEMMA InitInv == Init => Inv
<1> SUFFICES ASSUME Init PROVE Inv
    OBVIOUS
<1> USE DEF Init
<1>1. TypeOK
    BY DEF TypeOK, Absent, Ended
<1>2. Single /\ Timed /\ Whole
    BY DEF Single, Timed, Whole, Absent
<1>3. Remembered /\ Targeted
    BY DEF Remembered, Targeted, Ended
<1>4. QED
    BY <1>1, <1>2, <1>3 DEF Inv

LEMMA StepInv == Inv /\ [Next]_vars => Inv'
<1> SUFFICES ASSUME Inv, [Next]_vars PROVE Inv'
    OBVIOUS
<1>1. ASSUME NEW j \in Publisher, NEW v \in Version, NEW b \in Builds, BeginPublish(j, v, b)
      PROVE  Inv'
    <2>1. build' \in [Job -> SUBSET Chunk]
        BY <1>1, BuildsAssumption DEF BeginPublish, Inv, TypeOK
    <2>2. QED
        BY <1>1, <2>1, BeginInv DEF BeginPublish, Job
<1>2. ASSUME NEW j \in Rollbacker, NEW v \in Version, BeginRollback(j, v)
      PROVE  Inv'
    <2>1. build' \in [Job -> SUBSET Chunk]
        BY <1>2 DEF BeginRollback, Inv, TypeOK
    <2>2. QED
        BY <1>2, <2>1, BeginInv DEF BeginRollback, Job
<1>3. ASSUME NEW j \in Job, Publish(j) \/ Rollback(j)
      PROVE  Inv'
    BY <1>3, SwapInv DEF Publish, Rollback
<1>4. CASE UNCHANGED vars
    BY <1>4 DEF vars, Inv, TypeOK, Single, Timed, Whole, Complete, Remembered, Targeted
<1>5. QED
    BY <1>1, <1>2, <1>3, <1>4, BeginSwapInv, PublisherInv DEF Next

LEMMA Invariant == Spec => []Inv
BY InitInv, StepInv, PTL DEF Spec

-----------------------------------------------------------------------------
(* The theorems *)

\* The tables keep their types, whatever the runs do.
THEOREM Types == Spec => []TypeOK
<1>1. Inv => TypeOK
    BY DEF Inv
<1>2. QED
    BY <1>1, Invariant, PTL

\* Since the first publication one version is published, and a complete one.
THEOREM OneVersionServed == Spec => []AlwaysServing
<1>1. ASSUME Inv, served[1] # NoVersion
      PROVE  \E v \in Version : With("published") = {v} /\ Complete(v)
    <2>1. PICK v \in Version : corpus[v].status = "published"
        BY <1>1 DEF Inv, Remembered
    <2>2. With("published") = {v} /\ Complete(v)
        BY <1>1, <2>1 DEF With, Inv, Single, Whole
    <2>3. QED
        BY <2>2
<1>2. Inv => AlwaysServing
    BY <1>1 DEF AlwaysServing
<1>3. QED
    BY <1>2, Invariant, PTL

\* Since the second publication one version is retired, and a complete one.
THEOREM OneVersionKept == Spec => []RollbackAvailable
<1>1. ASSUME Inv PROVE Cardinality(With("retired")) <= 1
    <2>1. CASE With("retired") = {}
        BY <2>1, FS_EmptySet
    <2>2. CASE With("retired") # {}
        <3>1. PICK v \in Version : With("retired") = {v}
            BY <1>1, <2>2 DEF With, Inv, Single
        <3>2. Cardinality({v}) = 1
            BY FS_Singleton
        <3>3. QED
            BY <3>1, <3>2
    <2>3. QED
        BY <2>1, <2>2
<1>2. ASSUME Inv, served[2] # NoVersion PROVE \E v \in With("retired") : Complete(v)
    BY <1>2 DEF With, Inv, Remembered, Whole
<1>3. Inv => RollbackAvailable
    BY <1>1, <1>2 DEF RollbackAvailable
<1>4. QED
    BY <1>3, Invariant, PTL

\* A step leaves the chunks and embeddings of a published or retired version
\* alone, or drops them all.
THEOREM PublishedIsFrozen == Spec => ContentFrozen
<1> DEFINE Frozen ==
        \A v \in Version :
            (corpus[v].status \in {"published", "retired"} /\ corpus'[v].status # "absent")
                => /\ corpus'[v].status # "staging"
                   /\ corpus'[v].chunks = corpus[v].chunks
                   /\ corpus'[v].embedded = corpus[v].embedded
<1>1. ASSUME Inv, [Next]_vars PROVE Frozen
    <2>1. \A w \in Version : corpus[w] \in Row
        BY <1>1 DEF Inv, TypeOK, Row
    <2>2. CASE UNCHANGED corpus
        BY <2>2
    <2>3. ASSUME NEW j \in Job, NEW status \in {"staging", "retired"}, Swap(j, status)
          PROVE  Frozen
        <3>1. CASE Valid(target[j], status)
            <4>1. target[j] \in Version /\ began[j] \in Nat /\ TypeOK
                BY <1>1, <2>3 DEF Swap, Inv, Targeted, TypeOK, Ended
            <4>2. SwapTo(target[j], began[j])
                BY <2>3, <3>1 DEF Swap
            <4>3. /\ corpus'[target[j]] =
                        [corpus[target[j]] EXCEPT !.status = "published", !.publishedAt = began[j]]
                  /\ \A w \in Version \ {target[j]} :
                        \/ corpus'[w] = Absent
                        \/ corpus[w].status # "published" /\ corpus'[w] = corpus[w]
                        \/ /\ corpus[w].status = "published"
                           /\ corpus'[w] = [corpus[w] EXCEPT !.status = "retired"]
                BY <4>1, <4>2, SwapRows
            <4> SUFFICES ASSUME NEW w \in Version, corpus[w].status \in {"published", "retired"},
                                corpus'[w].status # "absent"
                         PROVE  /\ corpus'[w].status # "staging"
                                /\ corpus'[w].chunks = corpus[w].chunks
                                /\ corpus'[w].embedded = corpus[w].embedded
                OBVIOUS
            <4>4. CASE w = target[j]
                <5>1. corpus[w] \in Row
                    BY <2>1
                <5>2. QED
                    BY <4>3, <4>4, <5>1 DEF Row
            <4>5. CASE w # target[j]
                <5>1. corpus[w] \in Row /\ Absent.status = "absent"
                    BY <2>1 DEF Absent
                <5>2. \/ corpus'[w] = corpus[w]
                      \/ corpus'[w] = [corpus[w] EXCEPT !.status = "retired"]
                    BY <4>3, <4>5, <5>1
                <5>3. QED
                    BY <5>1, <5>2 DEF Row
            <4>6. QED
                BY <4>4, <4>5
        <3>2. CASE ~Valid(target[j], status)
            BY <2>2, <2>3, <3>2 DEF Swap
        <3>3. QED
            BY <3>1, <3>2
    <2>4. ASSUME NEW j \in Job, CleanStaging(j) \/ WriteStagingBuild(j) \/ WriteEmbeddings(j)
          PROVE  Frozen
        <3>1. /\ target[j] \in Version
              /\ \/ UNCHANGED corpus
                 \/ /\ corpus[target[j]].status \in {"absent", "staging"}
                    /\ \A w \in Version \ {target[j]} : corpus'[w] = corpus[w]
            BY <1>1, <2>4 DEF CleanStaging, WriteStagingBuild, WriteEmbeddings, Leftover, Writable,
                              MayEmbed, Inv, Targeted, TypeOK, Ended
        <3>2. QED
            BY <2>2, <3>1
    <2>5. ASSUME NEW j \in Job, LinkSupersedes(j)
          PROVE  Frozen
        <3>1. \A w \in Version :
                  corpus'[w] = corpus[w] \/ corpus'[w] = [corpus[w] EXCEPT !.linked = Published]
            BY <1>1, <2>5 DEF LinkSupersedes, Inv, TypeOK
        <3>2. QED
            BY <2>1, <3>1 DEF Row
    <2>6. QED
        BY <1>1, <2>2, <2>3, <2>4, <2>5
           DEF Next, vars, BeginPublish, BeginRollback, Begin, CheckReadiness, BeginSwap, Publish,
               Rollback, Crash
<1>2. QED
    BY <1>1, Invariant, PTL DEF Spec, ContentFrozen

-----------------------------------------------------------------------------
(* Runs that overlap with no other *)

\* How a publish leaves the tables for its next step, if nobody else is at work.
Staged(j) ==
    LET c == corpus[target[j]] IN
    /\ pc[j] = "write" => c.status # "staging"
    /\ pc[j] \in {"embed", "link", "swap", "locked"} => c.status = "staging" /\ c.chunks = build[j]
    /\ pc[j] = "embed" => c.embedded = {}
    /\ pc[j] \in {"link", "swap", "locked"} => c.embedded = build[j]

Stage == Ended \cup {"check", "clean", "write", "embed", "link", "swap", "locked"}

Unhindered ==
    \A j \in alone :
        /\ pc[j] # "new"
        /\ pc[j] \notin Ended => \A k \in Job \ {j} : pc[k] \in Ended
        /\ j \in Publisher => Staged(j)

\* A run under way that is alone is the one that takes the step.
LEMMA UnhinderedStep ==
    ASSUME Inv, Unhindered, NEW j \in Job, NEW to, to # "new", pc[j] \notin Ended,
           pc' = [pc EXCEPT ![j] = to], UNCHANGED <<target, build, alone>>,
           j \in alone \cap Publisher => Staged(j)'
    PROVE  Unhindered'
<1> SUFFICES ASSUME NEW i \in alone
             PROVE  /\ pc'[i] # "new"
                    /\ pc'[i] \notin Ended => \A k \in Job \ {i} : pc'[k] \in Ended
                    /\ i \in Publisher => Staged(i)'
    BY DEF Unhindered
<1>1. pc \in [Job -> Stage] /\ i \in Job
    BY DEF Inv, TypeOK, Stage
<1>2. CASE i = j
    BY <1>1, <1>2 DEF Unhindered
<1>3. CASE i # j
    <2>1. pc'[i] = pc[i] /\ pc[i] \in Ended
        BY <1>1, <1>3 DEF Unhindered
    <2>2. pc'[i] # "new"
        BY <2>1 DEF Unhindered
    <2>3. Staged(i)'
        BY <2>1 DEF Staged, Ended
    <2>4. QED
        BY <2>1, <2>2, <2>3
<1>4. QED
    BY <1>2, <1>3

LEMMA UnhinderedInv == Inv /\ Unhindered /\ [Next]_vars => Unhindered'
<1> SUFFICES ASSUME Inv, Unhindered, [Next]_vars PROVE Unhindered'
    OBVIOUS
<1>1. pc \in [Job -> Stage] /\ alone \subseteq Job
    BY DEF Inv, TypeOK, Stage
<1>2. ASSUME NEW j \in Job, NEW v \in Version, NEW first \in {"check", "swap"}, Begin(j, v, first),
             j \in Publisher => first = "check"
      PROVE  Unhindered'
    <2>1. /\ pc[j] = "new" /\ pc' = [pc EXCEPT ![j] = first] /\ j \notin alone
          /\ \A i \in alone' : \/ i = j /\ \A k \in Job : pc[k] \in Ended
                               \/ i # j /\ i \in alone /\ pc[i] \in Ended
        <3>1. pc[j] = "new" /\ pc' = [pc EXCEPT ![j] = first] /\ j \notin alone
            BY <1>2 DEF Begin, Goto, Unhindered
        <3>2. CASE \A k \in Job : pc[k] \in Ended
            BY <1>1, <1>2, <3>1, <3>2 DEF Begin
        <3>3. CASE ~\A k \in Job : pc[k] \in Ended
            BY <1>2, <3>1, <3>3 DEF Begin
        <3>4. QED
            BY <3>1, <3>2, <3>3
    <2> SUFFICES ASSUME NEW i \in alone'
                 PROVE  /\ pc'[i] # "new"
                        /\ pc'[i] \notin Ended => \A k \in Job \ {i} : pc'[k] \in Ended
                        /\ i \in Publisher => Staged(i)'
        BY DEF Unhindered
    <2>2. CASE i = j
        BY <1>1, <1>2, <2>1, <2>2 DEF Staged
    <2>3. CASE i # j
        <3>1. i \in alone /\ pc'[i] = pc[i] /\ pc[i] \in Ended
            BY <1>1, <2>1, <2>3
        <3>2. pc'[i] # "new"
            BY <3>1 DEF Unhindered
        <3>3. Staged(i)'
            BY <3>1 DEF Staged, Ended
        <3>4. QED
            BY <3>1, <3>2, <3>3
    <2>4. QED
        BY <2>2, <2>3
<1>3. ASSUME NEW j \in Job,
             \/ CheckReadiness(j) \/ CleanStaging(j) \/ WriteStagingBuild(j)
             \/ WriteEmbeddings(j) \/ LinkSupersedes(j) \/ BeginSwap(j)
             \/ Publish(j) \/ Rollback(j) \/ Crash(j)
      PROVE  Unhindered'
    <2>1. PICK to : to # "new" /\ pc' = [pc EXCEPT ![j] = to]
        BY <1>3 DEF CheckReadiness, CleanStaging, WriteStagingBuild, WriteEmbeddings,
                    LinkSupersedes, BeginSwap, Publish, Rollback, Swap, Crash, Goto
    <2>2. pc[j] \notin Ended /\ UNCHANGED <<target, build, alone>>
        BY <1>3 DEF CheckReadiness, CleanStaging, WriteStagingBuild, WriteEmbeddings,
                    LinkSupersedes, BeginSwap, Publish, Rollback, Swap, Crash, Keeping, Ended
    <2>3. /\ target[j] \in Version /\ build[j] \in SUBSET Chunk
          /\ corpus \in [Version -> Row] /\ corpus[target[j]] \in Row
          /\ pc'[j] = to
        BY <1>1, <2>1, <2>2 DEF Inv, Targeted, TypeOK, Row
    <2>4. ASSUME j \in alone \cap Publisher PROVE Staged(j)'
        <3> DEFINE c == corpus[target[j]]
                   d == corpus'[target[j]]
        <3>1. Staged(j) /\ target'[j] = target[j] /\ build'[j] = build[j]
            BY <2>2, <2>4 DEF Unhindered
        <3>2. CASE CleanStaging(j)
            <4>1. d.status # "staging" /\ to = "write"
                BY <2>1, <2>3, <3>2, <1>1 DEF CleanStaging, Leftover, Absent, Goto
            <4>2. QED
                BY <2>3, <3>1, <4>1 DEF Staged
        <3>3. CASE WriteStagingBuild(j)
            <4>1. \/ to = "refused"
                  \/ /\ to = "embed"
                     /\ d = [Absent EXCEPT !.status = "staging", !.chunks = build[j]]
                BY <2>1, <2>3, <3>3, <1>1 DEF WriteStagingBuild, Goto
            <4>2. Absent \in Row /\ Absent.embedded = {}
                BY DEF Absent, Row
            <4>3. CASE to = "refused"
                BY <2>3, <4>3 DEF Staged
            <4>4. CASE to = "embed"
                <5>1. d.status = "staging" /\ d.chunks = build[j] /\ d.embedded = {}
                    BY <2>3, <4>1, <4>2, <4>4 DEF Row
                <5>2. QED
                    BY <2>3, <3>1, <4>4, <5>1 DEF Staged
            <4>5. QED
                BY <4>1, <4>3, <4>4
        <3>4. CASE WriteEmbeddings(j)
            <4>1. \/ to = "refused"
                  \/ /\ to = "link" /\ pc[j] = "embed"
                     /\ d = [c EXCEPT !.embedded = @ \cup build[j]]
                BY <2>1, <2>3, <3>4, <1>1 DEF WriteEmbeddings, Goto
            <4>2. CASE to = "refused"
                BY <2>3, <4>2 DEF Staged
            <4>3. CASE to = "link"
                <5>1. c.status = "staging" /\ c.chunks = build[j] /\ c.embedded = {}
                    BY <3>1, <4>1, <4>3 DEF Staged
                <5>2. d.status = "staging" /\ d.chunks = build[j] /\ d.embedded = build[j]
                    BY <2>3, <4>1, <4>3, <5>1 DEF Row
                <5>3. QED
                    BY <2>3, <3>1, <4>3, <5>2 DEF Staged
            <4>4. QED
                BY <4>1, <4>2, <4>3
        <3>5. CASE LinkSupersedes(j)
            <4>1. /\ to = "swap" /\ pc[j] = "link"
                  /\ d = c \/ d = [c EXCEPT !.linked = Published]
                BY <2>1, <2>3, <3>5, <1>1 DEF LinkSupersedes, Goto
            <4>2. d.status = c.status /\ d.chunks = c.chunks /\ d.embedded = c.embedded
                BY <2>3, <4>1 DEF Row
            <4>3. QED
                BY <2>3, <3>1, <4>1, <4>2 DEF Staged
        <3>6. CASE BeginSwap(j)
            <4>1. to = "locked" /\ pc[j] = "swap" /\ d = c
                BY <2>1, <2>3, <3>6, <1>1 DEF BeginSwap, Goto
            <4>2. QED
                BY <2>3, <3>1, <4>1 DEF Staged
        <3>7. CASE CheckReadiness(j) \/ Publish(j) \/ Rollback(j) \/ Crash(j)
            <4>1. to \in {"done", "clean", "refused", "crashed"}
                BY <2>1, <2>3, <3>7, <1>1 DEF CheckReadiness, Publish, Rollback, Swap, Crash, Goto
            <4>2. QED
                BY <2>3, <4>1 DEF Staged
        <3>8. QED
            BY <1>3, <3>2, <3>3, <3>4, <3>5, <3>6, <3>7
    <2>5. QED
        BY <2>1, <2>2, <2>4, UnhinderedStep
<1>4. CASE UNCHANGED vars
    BY <1>4 DEF vars, Unhindered, Staged
<1>5. QED
    BY <1>2, <1>3, <1>4, JobAssumption DEF Next, BeginPublish, BeginRollback, Job

\* A publish that overlaps with no other run succeeds unless its version has been
\* published before or its build has nothing to serve.
THEOREM RerunsSucceed == Spec => RerunSucceeds
<1> DEFINE Excused ==
        \A j \in Publisher \cap alone :
            pc[j] # "refused" /\ pc'[j] = "refused" =>
                \/ corpus[target[j]].status \in {"published", "retired"}
                \/ build[j] \cap Online = {}
<1>1. Init => Unhindered
    BY DEF Init, Unhindered
<1>2. ASSUME Inv, Unhindered, [Next]_vars PROVE Excused
    <2> SUFFICES ASSUME NEW j \in Publisher \cap alone, pc[j] # "refused", pc'[j] = "refused"
                 PROVE  \/ corpus[target[j]].status \in {"published", "retired"}
                        \/ build[j] \cap Online = {}
        OBVIOUS
    <2>1. pc \in [Job -> Stage] /\ j \in Job /\ j \notin Rollbacker /\ Staged(j)
        BY <1>2, JobAssumption DEF Inv, TypeOK, Stage, Unhindered, Job
    <2>2. \A i \in Job : \A to : pc' = [pc EXCEPT ![i] = to] => i = j /\ to = "refused"
        BY <2>1
    <2>3. CheckReadiness(j) \/ WriteStagingBuild(j) \/ WriteEmbeddings(j) \/ Publish(j)
        <3>1. CASE \E i \in Job : CheckReadiness(i)
            <4>1. PICK i \in Job : CheckReadiness(i)
                BY <3>1
            <4>2. i = j
                BY <2>2, <4>1 DEF CheckReadiness, Goto
            <4>3. QED
                BY <4>1, <4>2
        <3>2. CASE ~\E i \in Job : CheckReadiness(i)
            BY <1>2, <2>1, <2>2, <3>2 DEF Next, vars, BeginPublish, BeginRollback, Begin,
                CleanStaging, WriteStagingBuild, WriteEmbeddings, LinkSupersedes, BeginSwap, Publish,
                Rollback, Swap, Crash, Goto, Job
        <3>3. QED
            BY <3>1, <3>2
    <2>4. pc[j] \notin Ended /\ target[j] \in Version
        BY <1>2, <2>1, <2>3 DEF CheckReadiness, WriteStagingBuild, WriteEmbeddings, Publish, Swap,
            Ended, Inv, Targeted
    <2>5. CASE WriteStagingBuild(j)
        <3>1. pc[j] = "write" /\ corpus[target[j]].status # "absent"
            BY <2>1, <2>2, <2>5 DEF WriteStagingBuild, Writable, Goto
        <3>2. QED
            BY <1>2, <2>1, <2>4, <3>1 DEF Staged, Inv, TypeOK
    <2>6. CASE WriteEmbeddings(j)
        BY <2>1, <2>2, <2>6 DEF WriteEmbeddings, MayEmbed, Staged, Goto
    <2>7. CASE Publish(j)
        BY <2>1, <2>2, <2>7 DEF Publish, Swap, Valid, Complete, Staged, Goto
    <2>8. CASE CheckReadiness(j)
        BY <2>1, <2>2, <2>8 DEF CheckReadiness, Ready, With, Goto
    <2>9. QED
        BY <2>3, <2>5, <2>6, <2>7, <2>8
<1>3. Spec => []Unhindered
    BY <1>1, UnhinderedInv, Invariant, PTL DEF Spec
<1>4. QED
    BY <1>2, <1>3, Invariant, PTL DEF Spec, RerunSucceeds

=============================================================================

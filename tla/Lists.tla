------------------------------- MODULE Lists -------------------------------
(***************************************************************************)
(* What retrieval and context building do to Python lists: sorted(...,     *)
(* key=...), a comprehension with a condition, a slice, sum(...), and one  *)
(* pass that takes what still fits a limit.  All of it is stated of places *)
(* in the list, without recursion over its elements except for the pass.   *)
(***************************************************************************)
EXTENDS Integers, SequencesExt, FiniteSetsExt, TLC

If(condition) == IF condition THEN 1 ELSE 0
Least(n, m) == IF n < m THEN n ELSE m

\* Of tuples of integers, the smaller one comes first.
Before(a, b) ==
    \E i \in DOMAIN a : a[i] < b[i] /\ \A j \in 1 .. i - 1 : a[j] = b[j]

\* The places of a sequence in an order, a set of pairs.
InOrder(places, order) ==
    [k \in 1 .. Cardinality(places) |->
        CHOOSE x \in places : Cardinality({y \in places : <<y, x>> \in order}) = k - 1]

At(s, places) == [k \in DOMAIN places |-> s[places[k]]]

\* sorted by a key, a tuple of integers: equal elements keep their order.
Sorted(s, key) ==
    At(s, InOrder(DOMAIN s,
              {p \in (DOMAIN s) \X (DOMAIN s) :
                  \/ Before(key[s[p[1]]], key[s[p[2]]])
                  \/ key[s[p[1]]] = key[s[p[2]]] /\ p[1] < p[2]}))

\* The elements at some places, and those that are in a set, in their order.
Ascending[places \in SUBSET Nat] ==
    InOrder(places, {p \in places \X places : p[1] < p[2]})
Picked(s, places) == At(s, Ascending[places])
Those(s, T) == Picked(s, {i \in DOMAIN s : s[i] \in T})

TakeFirst(s, n) == SubSeq(s, 1, Least(Len(s), n))

\* The sum of the values of a function.
Total(f) == MapThenSumSet(LAMBDA x : f[x], DOMAIN f)

\* One pass over items with costs, each of which is taken if it still fits the
\* limit: what is used after each item, and the items that are taken.
Used(costs, start, limit) ==
    LET after[k \in 0 .. Len(costs)] ==
            IF k = 0 THEN start
            ELSE LET before == after[k - 1]
                 IN  IF before + costs[k] <= limit THEN before + costs[k] ELSE before
    IN  after
Fitting(costs, start, limit) ==
    LET used == Used(costs, start, limit)
    IN  {k \in DOMAIN costs : used[k - 1] + costs[k] <= limit}

=============================================================================

------------------------- MODULE ContextWindowProofs -------------------------
(***************************************************************************)
(* For all lists, costs and limits: what sorting, picking and summing do   *)
(* (Lists), what one pass that takes what fits leaves, and so what the     *)
(* context of a request has of its messages (ContextWindow).               *)
(***************************************************************************)
EXTENDS ContextWindow, FiniteSetTheorems, WellFoundedInduction, TLAPS

-----------------------------------------------------------------------------
(* Orders *)

Strict(order, S) ==
    /\ \A x \in S : <<x, x>> \notin order
    /\ \A x, y, z \in S : <<x, y>> \in order /\ <<y, z>> \in order => <<x, z>> \in order
    /\ \A x, y \in S : x = y \/ <<x, y>> \in order \/ <<y, x>> \in order

\* The places of a finite set are taken by its elements, each by one, and lower
\* places by those that come first.
LEMMA Places ==
    ASSUME NEW S, IsFiniteSet(S), NEW order, Strict(order, S), NEW places,
           places = InOrder(S, order)
    PROVE  /\ DOMAIN places = 1 .. Cardinality(S)
           /\ \A k \in DOMAIN places : places[k] \in S
           /\ \A x \in S : \E k \in DOMAIN places : places[k] = x
           /\ \A i, j \in DOMAIN places : i < j => <<places[i], places[j]>> \in order
           /\ \A i, j \in DOMAIN places : places[i] = places[j] => i = j
<1> DEFINE n == Cardinality(S)
           below(x) == {y \in S : <<y, x>> \in order}
           rank == [x \in S |-> Cardinality(below(x))]
<1>1. n \in Nat
    BY FS_CardinalityType
<1>2. ASSUME NEW x \in S
      PROVE  /\ IsFiniteSet(below(x)) /\ Cardinality(below(x)) \in Nat
             /\ Cardinality(below(x)) < n
    <2>1. IsFiniteSet(S \ {x}) /\ Cardinality(S \ {x}) = n - 1
        BY FS_RemoveElement
    <2>2. below(x) \in SUBSET (S \ {x})
        BY DEF Strict
    <2>3. IsFiniteSet(below(x)) /\ Cardinality(below(x)) <= n - 1
        BY <2>1, <2>2, FS_Subset
    <2>4. Cardinality(below(x)) \in Nat
        BY <2>3, FS_CardinalityType
    <2>5. QED
        BY <1>1, <2>3, <2>4
<1>3. ASSUME NEW x \in S, NEW y \in S, <<x, y>> \in order
      PROVE  Cardinality(below(x)) < Cardinality(below(y))
    <2>1. below(x) \in SUBSET below(y) /\ x \in below(y) /\ x \notin below(x)
        BY <1>3 DEF Strict
    <2>2. /\ Cardinality(below(x)) <= Cardinality(below(y))
          /\ Cardinality(below(y)) = Cardinality(below(x)) => below(y) = below(x)
        BY <1>2, <2>1, FS_Subset
    <2>3. Cardinality(below(x)) # Cardinality(below(y))
        BY <2>1, <2>2
    <2>4. Cardinality(below(x)) \in Nat /\ Cardinality(below(y)) \in Nat
        BY <1>2
    <2>5. QED
        BY <2>2, <2>3, <2>4
<1>4. rank \in Injection(S, 0 .. n - 1)
    <2>1. \A x \in S : rank[x] \in 0 .. n - 1
        BY <1>1, <1>2
    <2>2. ASSUME NEW x \in S, NEW y \in S, rank[x] = rank[y], x # y PROVE FALSE
        <3>1. rank[x] \in Nat /\ rank[x] = Cardinality(below(x)) /\ rank[y] = Cardinality(below(y))
            BY <1>2
        <3>2. CASE <<x, y>> \in order
            <4>1. Cardinality(below(x)) < Cardinality(below(y))
                BY <1>3, <3>2
            <4>2. QED
                BY <2>2, <3>1, <4>1
        <3>3. CASE <<y, x>> \in order
            <4>1. Cardinality(below(y)) < Cardinality(below(x))
                BY <1>3, <3>3
            <4>2. QED
                BY <2>2, <3>1, <4>1
        <3>4. QED
            BY <2>2, <3>2, <3>3 DEF Strict
    <2>3. rank = [x \in S |-> rank[x]]
        OBVIOUS
    <2> HIDE DEF rank
    <2>4. QED
        BY <2>1, <2>2, <2>3 DEF Injection, IsInjective
<1>5. IsFiniteSet(0 .. n - 1) /\ Cardinality(0 .. n - 1) = n
    BY <1>1, FS_Interval
<1>6. rank \in Surjection(S, 0 .. n - 1)
    BY <1>4, <1>5, FS_Injection
<1>7. \A k \in 1 .. n : \E x \in S : Cardinality(below(x)) = k - 1
    <2>1. \A k \in 1 .. n : k - 1 \in 0 .. n - 1
        BY <1>1
    <2>2. \A m \in 0 .. n - 1 : \E x \in S : rank[x] = m
        BY <1>6 DEF Surjection
    <2>3. QED
        BY <2>1, <2>2
<1>8. places = [k \in 1 .. n |-> CHOOSE x \in S : Cardinality(below(x)) = k - 1]
    BY DEF InOrder
<1>9. \A k \in 1 .. n : places[k] \in S /\ rank[places[k]] = k - 1
    BY <1>7, <1>8
<1>10. DOMAIN places = 1 .. n
    BY <1>8
<1>11. \A x, y \in S : <<x, y>> \in order => rank[x] < rank[y]
    BY <1>3
<1>12. \A x \in S : rank[x] + 1 \in 1 .. n /\ rank[x] \in Nat
    BY <1>1, <1>2
<1>13. \A x, y \in S : rank[x] = rank[y] => x = y
    BY <1>4 DEF Injection, IsInjective
<1> HIDE DEF n, rank
<1>14. \A x \in S : \E k \in 1 .. n : places[k] = x
    <2>1. SUFFICES ASSUME NEW x \in S PROVE \E k \in 1 .. n : places[k] = x
        OBVIOUS
    <2>2. rank[places[rank[x] + 1]] = rank[x] /\ places[rank[x] + 1] \in S
        BY <1>9, <1>12
    <2>3. QED
        BY <1>12, <1>13, <2>2
<1>15. ASSUME NEW i \in 1 .. n, NEW j \in 1 .. n, i < j PROVE <<places[i], places[j]>> \in order
    <2>1. rank[places[i]] < rank[places[j]] /\ places[i] \in S /\ places[j] \in S
        BY <1>1, <1>9, <1>15
    <2>2. places[i] # places[j] /\ <<places[j], places[i]>> \notin order
        BY <1>11, <1>12, <2>1
    <2>3. QED
        BY <2>1, <2>2 DEF Strict
<1>16. \A i, j \in 1 .. n : places[i] = places[j] => i = j
    BY <1>1, <1>9
<1>17. QED
    BY <1>9, <1>10, <1>14, <1>15, <1>16 DEF n

Lower == {p \in Nat \X Nat : p[1] < p[2]}

\* A set of numbers that is not empty has a least one.
LEMMA FirstNumber ==
    ASSUME NEW numbers \in SUBSET Nat, numbers # {}
    PROVE  \E k \in numbers : \A j \in numbers : k <= j
<1>1. IsWellFoundedOn(Lower, Nat)
    BY NatLessThanWellFounded DEF OpToRel, Lower
<1>2. PICK k \in numbers : \A j \in numbers : <<j, k>> \notin Lower
    BY <1>1, WFMin
<1>3. \A j \in numbers : j \in Nat /\ k \in Nat /\ ~(j < k)
    BY <1>2 DEF Lower
<1>4. QED
    BY <1>2, <1>3

\* Tuples of one length are compared as numbers are.
LEMMA BeforeIsStrict ==
    ASSUME NEW n \in Nat, NEW a \in [1 .. n -> Int], NEW b \in [1 .. n -> Int],
           NEW c \in [1 .. n -> Int]
    PROVE  /\ ~Before(a, a)
           /\ Before(a, b) /\ Before(b, c) => Before(a, c)
           /\ a = b \/ Before(a, b) \/ Before(b, a)
<1>1. ~Before(a, a)
    BY DEF Before
<1>2. ASSUME Before(a, b), Before(b, c) PROVE Before(a, c)
    <2>1. PICK i \in 1 .. n : a[i] < b[i] /\ \A k \in 1 .. i - 1 : a[k] = b[k]
        BY <1>2 DEF Before
    <2>2. PICK j \in 1 .. n : b[j] < c[j] /\ \A k \in 1 .. j - 1 : b[k] = c[k]
        BY <1>2 DEF Before
    <2>3. \A k \in 1 .. n : a[k] \in Int /\ b[k] \in Int /\ c[k] \in Int
        OBVIOUS
    <2>4. CASE i <= j
        <3>1. b[i] <= c[i]
            BY <2>2, <2>3, <2>4
        <3>2. a[i] < c[i]
            BY <2>1, <2>3, <3>1
        <3>3. \A k \in 1 .. i - 1 : a[k] = c[k]
            BY <2>1, <2>2, <2>4
        <3>4. QED
            BY <3>2, <3>3 DEF Before
    <2>5. CASE j < i
        <3>1. a[j] < c[j] /\ \A k \in 1 .. j - 1 : a[k] = c[k]
            BY <2>1, <2>2, <2>3, <2>5
        <3>2. QED
            BY <3>1 DEF Before
    <2>6. QED
        BY <2>4, <2>5
<1>3. ASSUME a # b PROVE Before(a, b) \/ Before(b, a)
    <2> DEFINE different == {i \in 1 .. n : a[i] # b[i]}
    <2>1. different \in SUBSET Nat /\ different # {}
        <3>1. a = [i \in 1 .. n |-> a[i]] /\ b = [i \in 1 .. n |-> b[i]]
            OBVIOUS
        <3>2. CASE \A i \in 1 .. n : a[i] = b[i]
            <4>1. [i \in 1 .. n |-> a[i]] = [i \in 1 .. n |-> b[i]]
                BY <3>2
            <4>2. QED
                BY <1>3, <3>1, <4>1
        <3>3. different \in SUBSET (1 .. n) /\ 1 .. n \in SUBSET Nat
            OBVIOUS
        <3>4. QED
            BY <3>2, <3>3
    <2>2. PICK i \in different : \A k \in different : i <= k
        BY <2>1, FirstNumber
    <2>3. i \in 1 .. n /\ \A k \in 1 .. i - 1 : a[k] = b[k]
        BY <2>2
    <2>4. a[i] \in Int /\ b[i] \in Int /\ a[i] # b[i]
        BY <2>2
    <2>5. CASE a[i] < b[i]
        BY <2>3, <2>5 DEF Before
    <2>6. CASE b[i] < a[i]
        BY <2>3, <2>6 DEF Before
    <2>7. QED
        BY <2>4, <2>5, <2>6
<1>4. QED
    BY <1>1, <1>2, <1>3

LEMMA FirstPlaces ==
    ASSUME NEW n \in Nat
    PROVE  IsFiniteSet(1 .. n) /\ Cardinality(1 .. n) = n
<1>1. IsFiniteSet(1 .. n) /\ Cardinality(1 .. n) = IF 1 > n THEN 0 ELSE n - 1 + 1
    BY FS_Interval
<1>2. QED
    BY <1>1

Rearranged(t, s) ==
    \E places \in Bijection(DOMAIN s, DOMAIN s) : \A k \in DOMAIN s : t[k] = s[places[k]]

GoingUp(t, key) ==
    \A i, j \in DOMAIN t : i < j => Before(key[t[i]], key[t[j]]) \/ key[t[i]] = key[t[j]]

Keys(s, key, n) == \A i \in DOMAIN s : key[s[i]] \in [1 .. n -> Int]

\* A sorted sequence has the elements of the unsorted one, none before one with a
\* smaller key.  Places tell where they come from.
LEMMA SortedIsInOrder ==
    ASSUME NEW E, NEW s \in Seq(E), NEW key, NEW n \in Nat, Keys(s, key, n), NEW sorted,
           sorted = Sorted(s, key)
    PROVE  /\ sorted \in Seq(E) /\ Len(sorted) = Len(s)
           /\ Rearranged(sorted, s) /\ GoingUp(sorted, key)
<1> DEFINE D == DOMAIN s
           order == {p \in D \X D : \/ Before(key[s[p[1]]], key[s[p[2]]])
                                    \/ key[s[p[1]]] = key[s[p[2]]] /\ p[1] < p[2]}
           places == InOrder(D, order)
<1>1. D = 1 .. Len(s) /\ Len(s) \in Nat
    OBVIOUS
<1>2. IsFiniteSet(D) /\ Cardinality(D) = Len(s)
    BY <1>1, FirstPlaces
<1>3. \A i, j \in D : <<i, j>> \in order <=> \/ Before(key[s[i]], key[s[j]])
                                             \/ key[s[i]] = key[s[j]] /\ i < j
    OBVIOUS
<1>4. \A i \in D : key[s[i]] \in [1 .. n -> Int] /\ i \in Nat
    BY <1>1 DEF Keys
<1> HIDE DEF D, order
<1>5. Strict(order, D)
    <2>1. \A i \in D : <<i, i>> \notin order
        <3>1. \A i \in D : ~Before(key[s[i]], key[s[i]]) /\ ~(i < i)
            BY <1>4, BeforeIsStrict
        <3>2. QED
            BY <1>3, <3>1
    <2>2. ASSUME NEW i \in D, NEW j \in D, NEW k \in D, <<i, j>> \in order, <<j, k>> \in order
          PROVE  <<i, k>> \in order
        <3>1. Before(key[s[i]], key[s[j]]) /\ Before(key[s[j]], key[s[k]]) => Before(key[s[i]], key[s[k]])
            BY <1>4, BeforeIsStrict
        <3>2. i < j /\ j < k => i < k
            BY <1>4
        <3>3. QED
            BY <2>2, <1>3, <3>1, <3>2
    <2>3. ASSUME NEW i \in D, NEW j \in D, i # j
          PROVE  <<i, j>> \in order \/ <<j, i>> \in order
        <3>1. CASE key[s[i]] = key[s[j]]
            <4>1. i < j \/ j < i
                BY <1>4, <2>3
            <4>2. QED
                BY <1>3, <3>1, <4>1
        <3>2. CASE key[s[i]] # key[s[j]]
            <4>1. Before(key[s[i]], key[s[j]]) \/ Before(key[s[j]], key[s[i]])
                BY <1>4, <3>2, BeforeIsStrict
            <4>2. QED
                BY <1>3, <4>1
        <3>3. QED
            BY <3>1, <3>2
    <2>4. QED
        BY <2>1, <2>2, <2>3 DEF Strict
<1>6. /\ DOMAIN places = D
      /\ \A k \in D : places[k] \in D
      /\ \A x \in D : \E k \in D : places[k] = x
      /\ \A i, j \in D : i < j => <<places[i], places[j]>> \in order
      /\ \A i, j \in D : places[i] = places[j] => i = j
    <2> DEFINE P == InOrder(D, order)
    <2>1. P = InOrder(D, order)
        OBVIOUS
    <2> HIDE DEF P
    <2>2. /\ DOMAIN P = 1 .. Cardinality(D)
          /\ \A k \in DOMAIN P : P[k] \in D
          /\ \A x \in D : \E k \in DOMAIN P : P[k] = x
          /\ \A i, j \in DOMAIN P : i < j => <<P[i], P[j]>> \in order
          /\ \A i, j \in DOMAIN P : P[i] = P[j] => i = j
        BY <1>2, <1>5, <2>1, Places
    <2>3. 1 .. Cardinality(D) = D
        BY <1>1, <1>2
    <2>4. QED
        BY <2>1, <2>2, <2>3
<1>7. sorted = [k \in DOMAIN places |-> s[places[k]]]
    BY DEF Sorted, At, D, order
<1>8. places = [k \in D |-> places[k]]
    BY <1>2, <1>6 DEF InOrder
<1> HIDE DEF places
<1>9. places \in Bijection(D, D)
    <2>1. places \in [D -> D]
        BY <1>6, <1>8
    <2>2. QED
        BY <1>6, <2>1 DEF Bijection, Injection, IsInjective, Surjection
<1>10. \A k \in D : sorted[k] = s[places[k]]
    BY <1>6, <1>7
<1>11. sorted \in Seq(E) /\ Len(sorted) = Len(s) /\ DOMAIN sorted = D
    <2>1. \A k \in D : s[places[k]] \in E
        BY <1>6 DEF D
    <2>2. sorted \in [1 .. Len(s) -> E]
        BY <1>1, <1>6, <1>7, <2>1
    <2>3. QED
        BY <1>1, <2>2
<1>12. \A i, j \in D : i < j => Before(key[sorted[i]], key[sorted[j]]) \/ key[sorted[i]] = key[sorted[j]]
    <2>1. SUFFICES ASSUME NEW i \in D, NEW j \in D, i < j
                   PROVE  Before(key[sorted[i]], key[sorted[j]]) \/ key[sorted[i]] = key[sorted[j]]
        OBVIOUS
    <2>2. <<places[i], places[j]>> \in order /\ places[i] \in D /\ places[j] \in D
        BY <1>6, <2>1
    <2>3. QED
        BY <1>3, <1>10, <2>2
<1>13. Rearranged(sorted, s)
    BY <1>9, <1>10 DEF Rearranged, D
<1>14. GoingUp(sorted, key)
    BY <1>11, <1>12 DEF GoingUp
<1>15. QED
    BY <1>11, <1>13, <1>14 DEF D

\* Places of a sequence in ascending order.
LEMMA PlacesAscend ==
    ASSUME NEW n \in Nat, NEW T \in SUBSET (1 .. n), NEW places, places = Ascending[T]
    PROVE  /\ IsFiniteSet(T) /\ Cardinality(T) \in Nat /\ Cardinality(T) <= n
           /\ DOMAIN places = 1 .. Cardinality(T)
           /\ places \in Bijection(1 .. Cardinality(T), T)
           /\ \A i, j \in DOMAIN places : i < j => places[i] < places[j]
           /\ T = 1 .. n => \A k \in 1 .. n : places[k] = k
<1> DEFINE order == {p \in T \X T : p[1] < p[2]}
           in == InOrder(T, order)
<1>1. IsFiniteSet(T) /\ Cardinality(T) <= n /\ Cardinality(T) \in Nat
    <2>1. IsFiniteSet(1 .. n) /\ Cardinality(1 .. n) = n
        BY FirstPlaces
    <2>2. IsFiniteSet(T) /\ Cardinality(T) <= Cardinality(1 .. n)
        BY <2>1, FS_Subset
    <2>3. QED
        BY <2>1, <2>2, FS_CardinalityType
<1>2. T \in SUBSET Nat
    OBVIOUS
<1>3. places = in
    BY <1>2 DEF Ascending
<1>4. Strict(order, T)
    BY DEF Strict
<1>5. \A i, j \in T : <<i, j>> \in order <=> i < j
    OBVIOUS
<1>6. places = [k \in 1 .. Cardinality(T) |->
                   CHOOSE x \in T : Cardinality({y \in T : <<y, x>> \in order}) = k - 1]
    BY <1>3 DEF InOrder
<1> HIDE DEF order
<1>7. /\ DOMAIN places = 1 .. Cardinality(T)
      /\ \A k \in DOMAIN places : places[k] \in T
      /\ \A x \in T : \E k \in DOMAIN places : places[k] = x
      /\ \A i, j \in DOMAIN places : i < j => <<places[i], places[j]>> \in order
      /\ \A i, j \in DOMAIN places : places[i] = places[j] => i = j
    BY <1>1, <1>3, <1>4, Places
<1>8. \A i, j \in DOMAIN places : i < j => places[i] < places[j]
    BY <1>5, <1>7
<1> HIDE DEF in
<1>9. places \in Bijection(1 .. Cardinality(T), T)
    <2>1. places \in [1 .. Cardinality(T) -> T]
        BY <1>6, <1>7
    <2>2. QED
        BY <1>7, <2>1 DEF Bijection, Injection, IsInjective, Surjection
<1>10. ASSUME T = 1 .. n, NEW k \in 1 .. n PROVE places[k] = k
    <2>1. Cardinality(T) = n
        BY <1>10, FirstPlaces
    <2>2. \A x \in T : Cardinality({y \in T : <<y, x>> \in order}) = x - 1
        <3>1. SUFFICES ASSUME NEW x \in T
                       PROVE  Cardinality({y \in T : <<y, x>> \in order}) = x - 1
            OBVIOUS
        <3>2. {y \in T : <<y, x>> \in order} = 1 .. x - 1
            BY <1>5, <1>10
        <3>3. x - 1 \in Nat
            BY <1>10
        <3>4. QED
            BY <3>2, <3>3, FirstPlaces
    <2>3. places[k] \in T /\ Cardinality({y \in T : <<y, places[k]>> \in order}) = k - 1
        <3>1. k \in T /\ Cardinality({y \in T : <<y, k>> \in order}) = k - 1
            BY <1>10, <2>2
        <3>2. places[k] = CHOOSE x \in T : Cardinality({y \in T : <<y, x>> \in order}) = k - 1
            BY <1>6, <2>1
        <3>3. QED
            BY <3>1, <3>2
    <2>4. places[k] - 1 = k - 1
        BY <2>2, <2>3
    <2>5. QED
        BY <2>3, <2>4, <1>10
<1>11. QED
    BY <1>1, <1>7, <1>8, <1>9, <1>10

\* What is picked of a sequence.
LEMMA PickedAt ==
    ASSUME NEW E, NEW s \in Seq(E), NEW T \in SUBSET (DOMAIN s), NEW picked, picked = Picked(s, T)
    PROVE  /\ IsFiniteSet(T) /\ Cardinality(T) \in Nat /\ Cardinality(T) <= Len(s)
           /\ picked \in Seq(E) /\ Len(picked) = Cardinality(T)
           /\ Ascending[T] \in Bijection(DOMAIN picked, T)
           /\ \A k \in DOMAIN picked : picked[k] = s[Ascending[T][k]]
           /\ T = DOMAIN s => picked = s
<1> DEFINE places == Ascending[T]
           n == Cardinality(T)
<1>1. DOMAIN s = 1 .. Len(s) /\ Len(s) \in Nat
    OBVIOUS
<1>2. picked = [k \in DOMAIN places |-> s[places[k]]]
    BY DEF Picked, At
<1>3. places = Ascending[T]
    OBVIOUS
<1> HIDE DEF places
<1>4. /\ IsFiniteSet(T) /\ n \in Nat /\ n <= Len(s)
      /\ DOMAIN places = 1 .. n
      /\ places \in Bijection(1 .. n, T)
      /\ T = 1 .. Len(s) => \A k \in 1 .. Len(s) : places[k] = k
    BY <1>1, <1>3, PlacesAscend
<1> HIDE DEF n
<1>5. \A k \in 1 .. n : places[k] \in T
    BY <1>4 DEF Bijection, Injection
<1>6. picked \in [1 .. n -> E]
    BY <1>1, <1>2, <1>4, <1>5
<1>7. picked \in Seq(E) /\ Len(picked) = n /\ DOMAIN picked = 1 .. n
    BY <1>4, <1>6
<1>8. ASSUME T = DOMAIN s PROVE picked = s
    <2>1. n = Len(s)
        BY <1>1, <1>8, FirstPlaces DEF n
    <2>2. \A k \in 1 .. Len(s) : picked[k] = s[k]
        BY <1>1, <1>2, <1>4, <1>8, <2>1
    <2>3. picked = [k \in 1 .. Len(s) |-> picked[k]] /\ s = [k \in 1 .. Len(s) |-> s[k]]
        BY <1>1, <1>6, <2>1
    <2>4. [k \in 1 .. Len(s) |-> picked[k]] = [k \in 1 .. Len(s) |-> s[k]]
        BY <2>2
    <2>5. QED
        BY <2>3, <2>4
<1>9. \A k \in DOMAIN picked : picked[k] = s[places[k]]
    BY <1>2
<1>10. QED
    BY <1>3, <1>4, <1>7, <1>8, <1>9 DEF n

\* Those elements of a sequence that are in a set.
LEMMA ThoseOfSet ==
    ASSUME NEW E, NEW s \in Seq(E), NEW T, NEW those, those = Those(s, T)
    PROVE  /\ those \in Seq(E) /\ Len(those) <= Len(s)
           /\ Range(those) = Range(s) \cap T
<1> DEFINE within == {i \in DOMAIN s : s[i] \in T}
           places == Ascending[within]
<1>1. those = Picked(s, within) /\ within \in SUBSET DOMAIN s
    BY DEF Those
<1>2. /\ those \in Seq(E) /\ Len(those) <= Len(s)
      /\ places \in Bijection(DOMAIN those, within)
      /\ \A k \in DOMAIN those : those[k] = s[places[k]]
    <2> HIDE DEF within
    <2>1. QED
        BY <1>1, PickedAt
<1> HIDE DEF places
<1>3. /\ \A k \in DOMAIN those : places[k] \in within
      /\ \A i \in within : \E k \in DOMAIN those : places[k] = i
    BY <1>2 DEF Bijection, Injection, Surjection
<1>4. Range(those) = Range(s) \cap T
    BY <1>2, <1>3 DEF Range
<1>5. QED
    BY <1>2, <1>4

-----------------------------------------------------------------------------
(* Sums *)

\* A number for each element, as so many units, and how many there are.
Units(f, S) == {u \in S \X Nat : u[2] < f[u[1]]}
Weight(f, S) == Cardinality(Units(f, S))

LEMMA UnitsOfOne ==
    ASSUME NEW f, NEW x, f[x] \in Nat
    PROVE  IsFiniteSet(Units(f, {x})) /\ Weight(f, {x}) = f[x]
<1>1. Units(f, {x}) = {x} \X (0 .. f[x] - 1)
    BY DEF Units
<1>2. IsFiniteSet({x}) /\ Cardinality({x}) = 1
    BY FS_Singleton
<1>3. IsFiniteSet(0 .. f[x] - 1) /\ Cardinality(0 .. f[x] - 1) = f[x]
    <2>1. /\ IsFiniteSet(0 .. f[x] - 1)
          /\ Cardinality(0 .. f[x] - 1) = IF 0 > f[x] - 1 THEN 0 ELSE f[x] - 1 - 0 + 1
        BY FS_Interval
    <2>2. QED
        BY <2>1
<1>4. /\ IsFiniteSet({x} \X (0 .. f[x] - 1))
      /\ Cardinality({x} \X (0 .. f[x] - 1)) = 1 * f[x]
    BY <1>2, <1>3, FS_Product
<1>5. 1 * f[x] = f[x]
    OBVIOUS
<1>6. QED
    BY <1>1, <1>4, <1>5 DEF Weight

LEMMA UnitsAreFinite ==
    ASSUME NEW S, IsFiniteSet(S), NEW f, \A x \in S : f[x] \in Nat
    PROVE  IsFiniteSet(Units(f, S)) /\ Weight(f, S) \in Nat
<1> DEFINE each == {Units(f, {x}) : x \in S}
           to == [x \in S |-> Units(f, {x})]
<1>1. to \in Surjection(S, each)
    <2>1. to \in [S -> each] /\ \A t \in each : \E x \in S : to[x] = t
        OBVIOUS
    <2>2. QED
        BY <2>1 DEF Surjection
<1>2. IsFiniteSet(each)
    BY <1>1, FS_Surjection
<1>3. \A t \in each : IsFiniteSet(t)
    BY UnitsOfOne
<1>4. IsFiniteSet(UNION each)
    BY <1>2, <1>3, FS_UNION
<1>5. Units(f, S) = UNION each
    BY DEF Units
<1>6. QED
    BY <1>4, <1>5, FS_CardinalityType DEF Weight

\* The weight of all is that of one and of the others.
LEMMA WeightWithout ==
    ASSUME NEW S, IsFiniteSet(S), NEW f, \A y \in S : f[y] \in Nat, NEW x \in S
    PROVE  Weight(f, S) = f[x] + Weight(f, S \ {x})
<1>1. IsFiniteSet(S \ {x})
    BY FS_RemoveElement
<1>2. /\ IsFiniteSet(Units(f, S \ {x})) /\ Weight(f, S \ {x}) \in Nat
      /\ IsFiniteSet(Units(f, {x})) /\ Weight(f, {x}) = f[x]
    BY <1>1, UnitsAreFinite, UnitsOfOne
<1>3. /\ Units(f, S) = Units(f, {x}) \cup Units(f, S \ {x})
      /\ Units(f, {x}) \cap Units(f, S \ {x}) = {}
    BY DEF Units
<1>4. Cardinality(Units(f, S)) = Cardinality(Units(f, {x})) + Cardinality(Units(f, S \ {x}))
                                     - Cardinality(Units(f, {x}) \cap Units(f, S \ {x}))
    BY <1>2, <1>3, FS_Union
<1>5. Cardinality(Units(f, {x}) \cap Units(f, S \ {x})) = 0
    BY <1>3, FS_EmptySet
<1>6. QED
    BY <1>2, <1>4, <1>5 DEF Weight

\* The sum over a finite set counts its units.
LEMMA TotalIsWeight ==
    ASSUME NEW S, IsFiniteSet(S), NEW f \in [S -> Nat]
    PROVE  Total(f) = Weight(f, S) /\ Total(f) \in Nat
<1> DEFINE some(T) == CHOOSE x \in T : TRUE
           Sums(sum) == sum = [T \in SUBSET S |-> IF T = {} THEN 0 ELSE f[some(T)] + sum[T \ {some(T)}]]
           weights == [T \in SUBSET S |-> Weight(f, T)]
           sum == CHOOSE g : Sums(g)
<1>1. DOMAIN f = S
    OBVIOUS
<1>2. Total(f) = sum[S]
    BY <1>1 DEF Total, MapThenSumSet, MapThenFoldSet
<1>3. \A T \in SUBSET S : T # {} =>
          Weight(f, T) = f[some(T)] + Weight(f, T \ {some(T)})
    <2>1. SUFFICES ASSUME NEW T \in SUBSET S, T # {}
                   PROVE  Weight(f, T) = f[some(T)] + Weight(f, T \ {some(T)})
        OBVIOUS
    <2>2. IsFiniteSet(T) /\ some(T) \in T /\ \A y \in T : f[y] \in Nat
        BY <2>1, FS_Subset
    <2>3. QED
        BY <2>2, WeightWithout
<1>4. Weight(f, {}) = 0
    <2>1. Units(f, {}) = {}
        BY DEF Units
    <2>2. QED
        BY <2>1, FS_EmptySet DEF Weight
<1>5. Sums(weights)
    <2>1. \A T \in SUBSET S : Weight(f, T) = IF T = {} THEN 0 ELSE f[some(T)] + weights[T \ {some(T)}]
        <3>1. \A T \in SUBSET S : T \ {some(T)} \in SUBSET S
            OBVIOUS
        <3>2. \A T \in SUBSET S : weights[T \ {some(T)}] = Weight(f, T \ {some(T)})
            BY <3>1
        <3>3. QED
            BY <1>3, <1>4, <3>2
    <2>2. QED
        BY <2>1
<1>6. Sums(sum)
    BY <1>5
<1>7. \A T \in SUBSET S : sum[T] = IF T = {} THEN 0 ELSE f[some(T)] + sum[T \ {some(T)}]
    BY <1>6
<1> HIDE DEF sum, weights
<1>8. \A T \in SUBSET S : sum[T] = Weight(f, T)
    <2> DEFINE wrong == {T \in SUBSET S : sum[T] # Weight(f, T)}
               sizes == {Cardinality(T) : T \in wrong}
    <2>1. SUFFICES ASSUME wrong # {} PROVE FALSE
        OBVIOUS
    <2>2. \A T \in SUBSET S : IsFiniteSet(T) /\ Cardinality(T) \in Nat
        BY FS_Subset, FS_CardinalityType
    <2>3. PICK k \in sizes : \A j \in sizes : k <= j
        <3>1. sizes \in SUBSET Nat /\ sizes # {}
            BY <2>1, <2>2
        <3> HIDE DEF sizes
        <3>2. QED
            BY <3>1, FirstNumber
    <2>4. PICK T \in wrong : k = Cardinality(T)
        BY <2>3
    <2>5. T # {}
        BY <1>4, <1>7, <2>4
    <2>6. some(T) \in T /\ Cardinality(T \ {some(T)}) = Cardinality(T) - 1
        BY <2>2, <2>4, <2>5, FS_RemoveElement
    <2>7. T \ {some(T)} \in SUBSET S /\ ~(Cardinality(T) <= Cardinality(T) - 1)
        BY <2>2, <2>4
    <2>8. T \ {some(T)} \notin wrong
        BY <2>3, <2>4, <2>6, <2>7
    <2>9. sum[T \ {some(T)}] = Weight(f, T \ {some(T)})
        BY <2>7, <2>8
    <2>10. sum[T] = Weight(f, T)
        BY <1>3, <1>7, <2>4, <2>5, <2>9
    <2>11. QED
        BY <2>4, <2>10
<1>9. QED
    BY <1>2, <1>8, UnitsAreFinite

\* Larger numbers have a larger sum.
LEMMA TotalGrows ==
    ASSUME NEW S, IsFiniteSet(S), NEW f \in [S -> Nat], NEW g \in [S -> Nat],
           \A x \in S : f[x] <= g[x]
    PROVE  /\ Total(f) <= Total(g)
           /\ (\E x \in S : f[x] < g[x]) => Total(f) < Total(g)
<1>1. /\ Total(f) = Cardinality(Units(f, S)) /\ Total(f) \in Nat
      /\ Total(g) = Cardinality(Units(g, S)) /\ Total(g) \in Nat
    BY TotalIsWeight DEF Weight
<1>2. IsFiniteSet(Units(g, S))
    BY UnitsAreFinite
<1>3. Units(f, S) \in SUBSET Units(g, S)
    <2>1. \A x \in S : f[x] \in Nat /\ g[x] \in Nat
        OBVIOUS
    <2>2. QED
        BY <2>1 DEF Units
<1>4. /\ Cardinality(Units(f, S)) <= Cardinality(Units(g, S))
      /\ Cardinality(Units(g, S)) = Cardinality(Units(f, S)) => Units(g, S) = Units(f, S)
    BY <1>2, <1>3, FS_Subset
<1>5. ASSUME NEW x \in S, f[x] < g[x] PROVE Units(g, S) # Units(f, S)
    <2>1. f[x] \in Nat /\ <<x, f[x]>> \in Units(g, S) /\ <<x, f[x]>> \notin Units(f, S)
        BY <1>5 DEF Units
    <2>2. QED
        BY <2>1
<1>6. QED
    BY <1>1, <1>4, <1>5

\* The order of the numbers does not matter.
LEMMA TotalOfPlaces ==
    ASSUME NEW S, IsFiniteSet(S), NEW T, NEW f \in [S -> Nat], NEW g \in [T -> Nat],
           NEW places \in Bijection(S, T), \A x \in S : f[x] = g[places[x]]
    PROVE  Total(f) = Total(g)
<1> DEFINE to == [u \in Units(f, S) |-> <<places[u[1]], u[2]>>]
<1>1. /\ places \in [S -> T]
      /\ \A x, y \in S : places[x] = places[y] => x = y
      /\ \A y \in T : \E x \in S : places[x] = y
    BY DEF Bijection, Injection, IsInjective, Surjection
<1>2. IsFiniteSet(T)
    BY FS_Surjection DEF Bijection
<1>3. Total(f) = Cardinality(Units(f, S)) /\ Total(g) = Cardinality(Units(g, T))
    BY <1>2, TotalIsWeight DEF Weight
<1>4. \A u \in Units(f, S) : to[u] = <<places[u[1]], u[2]>> /\ u \in S \X Nat /\ u[2] < f[u[1]]
    BY DEF Units
<1>5. to \in [Units(f, S) -> Units(g, T)]
    <2>1. \A u \in Units(f, S) : <<places[u[1]], u[2]>> \in Units(g, T)
        BY <1>1, <1>4 DEF Units
    <2>2. QED
        BY <2>1
<1>6. \A u, v \in Units(f, S) : to[u] = to[v] => u = v
    BY <1>1, <1>4
<1>7. \A v \in Units(g, T) : \E u \in Units(f, S) : to[u] = v
    <2>1. SUFFICES ASSUME NEW v \in Units(g, T) PROVE \E u \in Units(f, S) : to[u] = v
        OBVIOUS
    <2>2. v \in T \X Nat /\ v[2] < g[v[1]]
        BY <2>1 DEF Units
    <2>3. PICK x \in S : places[x] = v[1]
        BY <1>1, <2>2
    <2>4. <<x, v[2]>> \in Units(f, S)
        BY <2>2, <2>3 DEF Units
    <2>5. to[<<x, v[2]>>] = v
        BY <1>4, <2>2, <2>3, <2>4
    <2>6. QED
        BY <2>4, <2>5
<1> HIDE DEF to
<1>8. to \in Bijection(Units(f, S), Units(g, T))
    BY <1>5, <1>6, <1>7 DEF Bijection, Injection, IsInjective, Surjection
<1>9. IsFiniteSet(Units(f, S))
    BY UnitsAreFinite
<1>10. QED
    BY <1>3, <1>8, <1>9, FS_Bijection DEF ExistsBijection

LEMMA TotalOfNone ==
    ASSUME NEW f \in [{} -> Nat]
    PROVE  Total(f) = 0
<1>1. IsFiniteSet({}) /\ Cardinality({}) = 0
    BY FS_EmptySet
<1>2. Total(f) = Weight(f, {})
    BY <1>1, TotalIsWeight
<1>3. Units(f, {}) = {}
    BY DEF Units
<1>4. QED
    BY <1>1, <1>2, <1>3 DEF Weight

\* The sum of all is that of one number and of the others.
LEMMA TotalWithout ==
    ASSUME NEW S, IsFiniteSet(S), NEW f \in [S -> Nat], NEW x \in S,
           NEW g \in [S \ {x} -> Nat], \A y \in S \ {x} : g[y] = f[y]
    PROVE  Total(f) = f[x] + Total(g)
<1>1. IsFiniteSet(S \ {x})
    BY FS_RemoveElement
<1>2. Units(f, S \ {x}) = Units(g, S \ {x})
    BY DEF Units
<1>3. Weight(f, S) = f[x] + Weight(f, S \ {x})
    BY WeightWithout
<1>4. Total(f) = Weight(f, S) /\ Total(g) = Weight(g, S \ {x})
    BY <1>1, TotalIsWeight
<1>5. QED
    BY <1>2, <1>3, <1>4 DEF Weight

\* One number is changed.
LEMMA TotalChanged ==
    ASSUME NEW S, IsFiniteSet(S), NEW f \in [S -> Nat], NEW g \in [S -> Nat], NEW x \in S,
           \A y \in S \ {x} : g[y] = f[y]
    PROVE  Total(f) \in Nat /\ Total(g) = Total(f) - f[x] + g[x]
<1> DEFINE h == [y \in S \ {x} |-> f[y]]
<1>1. h \in [S \ {x} -> Nat] /\ \A y \in S \ {x} : h[y] = f[y] /\ h[y] = g[y]
    OBVIOUS
<1>2. IsFiniteSet(S \ {x})
    BY FS_RemoveElement
<1> HIDE DEF h
<1>3. Total(h) \in Nat
    BY <1>1, <1>2, TotalIsWeight
<1>4. Total(f) = f[x] + Total(h)
    BY <1>1, TotalWithout
<1>5. Total(g) = g[x] + Total(h)
    BY <1>1, TotalWithout
<1>6. f[x] \in Nat /\ g[x] \in Nat
    OBVIOUS
<1>7. QED
    BY <1>3, <1>4, <1>5, <1>6

\* One number more, at the end and at the beginning.
LEMMA TotalAppended ==
    ASSUME NEW n \in Nat, NEW f \in [1 .. n -> Nat], NEW g \in [1 .. n + 1 -> Nat],
           \A i \in 1 .. n : g[i] = f[i]
    PROVE  Total(g) = Total(f) + g[n + 1] /\ Total(f) \in Nat
<1>1. IsFiniteSet(1 .. n) /\ IsFiniteSet(1 .. n + 1)
    BY FirstPlaces
<1>2. n + 1 \in 1 .. n + 1 /\ (1 .. n + 1) \ {n + 1} = 1 .. n
    OBVIOUS
<1>3. Total(g) = g[n + 1] + Total(f)
    BY <1>1, <1>2, TotalWithout
<1>4. Total(f) \in Nat /\ g[n + 1] \in Nat
    BY <1>1, <1>2, TotalIsWeight
<1>5. QED
    BY <1>3, <1>4

LEMMA TotalOfOthers ==
    ASSUME NEW S, IsFiniteSet(S), NEW x \in S, NEW T, NEW f \in [S -> Nat], NEW g \in [T -> Nat],
           NEW places \in Bijection(T, S \ {x}), \A y \in T : g[y] = f[places[y]]
    PROVE  Total(f) = f[x] + Total(g) /\ Total(g) \in Nat
<1> DEFINE h == [y \in S \ {x} |-> f[y]]
<1>1. h \in [S \ {x} -> Nat] /\ \A y \in S \ {x} : h[y] = f[y]
    OBVIOUS
<1> HIDE DEF h
<1>2. IsFiniteSet(S \ {x})
    BY FS_RemoveElement
<1>3. places \in [T -> S \ {x}] /\ places \in Injection(T, S \ {x})
    BY DEF Bijection, Injection
<1>4. IsFiniteSet(T)
    BY <1>2, <1>3, FS_Injection
<1>5. \A y \in T : g[y] = h[places[y]]
    BY <1>1, <1>3
<1>6. Total(g) = Total(h)
    BY <1>1, <1>4, <1>5, TotalOfPlaces
<1>7. Total(f) = f[x] + Total(h)
    BY <1>1, TotalWithout
<1>8. QED
    BY <1>4, <1>6, <1>7, TotalIsWeight

LEMMA TotalOfTail ==
    ASSUME NEW n \in Nat, NEW f, NEW g
    PROVE  f \in [1 .. n + 1 -> Nat] /\ g \in [1 .. n -> Nat] /\ (\A i \in 1 .. n : g[i] = f[i + 1])
               => Total(f) = f[1] + Total(g) /\ Total(g) \in Nat
<1> DEFINE all == 1 .. n + 1
           early == 1 .. n
           first == 1
           later == 2 .. n + 1
           places == [i \in early |-> i + 1]
<1>1. SUFFICES ASSUME f \in [all -> Nat], g \in [early -> Nat], \A i \in early : g[i] = f[i + 1]
               PROVE  Total(f) = f[first] + Total(g) /\ Total(g) \in Nat
    OBVIOUS
<1>2. IsFiniteSet(all) /\ first \in all /\ all \ {first} = later
    BY FirstPlaces
<1>3. places \in Bijection(early, later)
    <2>1. /\ places \in [early -> later]
          /\ \A i, j \in early : places[i] = places[j] => i = j
        OBVIOUS
    <2>2. \A j \in later : j - 1 \in early /\ places[j - 1] = j
        OBVIOUS
    <2> HIDE DEF places
    <2>3. QED
        BY <2>1, <2>2 DEF Bijection, Injection, IsInjective, Surjection
<1>4. \A i \in early : g[i] = f[places[i]]
    BY <1>1
<1> HIDE DEF all, early, first, later, places
<1>5. QED
    BY <1>1, <1>2, <1>3, <1>4, TotalOfOthers

-----------------------------------------------------------------------------
(* The elements of sequences *)

LEMMA ElementsOf ==
    ASSUME NEW E, NEW s \in Seq(E)
    PROVE  /\ Range(s) \subseteq E /\ s \in Seq(Range(s))
           /\ \A F : Range(s) \subseteq F => s \in Seq(F)
           /\ \A x : x \in Range(s) <=> \E i \in DOMAIN s : s[i] = x
           /\ s # <<>> => Head(s) \in Range(s) /\ Tail(s) \in Seq(E) /\ Len(Tail(s)) = Len(s) - 1
<1>1. Range(s) \subseteq E
    BY DEF Range
<1>2. \A F : Range(s) \subseteq F => s \in Seq(F)
    BY DEF Range
<1>3. \A x : x \in Range(s) <=> \E i \in DOMAIN s : s[i] = x
    BY DEF Range
<1>4. s # <<>> => Head(s) \in Range(s) /\ Tail(s) \in Seq(E) /\ Len(Tail(s)) = Len(s) - 1
    BY DEF Range
<1>5. QED
    BY <1>1, <1>2, <1>3, <1>4

LEMMA ElementsLeft ==
    ASSUME NEW E, NEW s \in Seq(E), s # <<>>
    PROVE  Range(s) = Range(Tail(s)) \cup {Head(s)}
<1>1. \A i \in DOMAIN s : i # 1 => i - 1 \in DOMAIN Tail(s) /\ Tail(s)[i - 1] = s[i]
    OBVIOUS
<1>2. \A i \in DOMAIN Tail(s) : i + 1 \in DOMAIN s /\ Tail(s)[i] = s[i + 1]
    OBVIOUS
<1>3. 1 \in DOMAIN s /\ s[1] = Head(s)
    OBVIOUS
<1>4. ASSUME NEW x \in Range(s) PROVE x \in Range(Tail(s)) \cup {Head(s)}
    BY <1>1, <1>3 DEF Range
<1>5. Range(Tail(s)) \cup {Head(s)} \subseteq Range(s)
    BY <1>2, <1>3 DEF Range
<1>6. QED
    BY <1>4, <1>5

LEMMA ElementsAdded ==
    ASSUME NEW E, NEW s \in Seq(E), NEW x \in E
    PROVE  Range(Append(s, x)) = Range(s) \cup {x}
<1> DEFINE t == Append(s, x)
<1>1. t \in Seq(E) /\ Len(t) = Len(s) + 1 /\ Len(s) \in Nat /\ t[Len(s) + 1] = x
    OBVIOUS
<1>2. \A i \in DOMAIN s : i \in DOMAIN t /\ t[i] = s[i]
    OBVIOUS
<1>3. \A i \in DOMAIN t : i \in DOMAIN s \/ i = Len(s) + 1
    OBVIOUS
<1>4. Len(s) + 1 \in DOMAIN t
    BY <1>1
<1>5. Range(t) = Range(s) \cup {x}
    BY <1>1, <1>2, <1>3, <1>4 DEF Range
<1>6. QED
    BY <1>5

LEMMA TakenFirst ==
    ASSUME NEW E, NEW s \in Seq(E), NEW n \in Nat, NEW t, t = TakeFirst(s, n)
    PROVE  /\ t \in Seq(E) /\ Range(t) \subseteq Range(s)
           /\ (DOMAIN t) \subseteq (DOMAIN s) /\ \A i \in DOMAIN t : t[i] = s[i]
<1> DEFINE m == Least(Len(s), n)
<1>1. m \in Nat /\ m <= Len(s) /\ Len(s) \in Nat
    BY DEF Least
<1>2. t = SubSeq(s, 1, m)
    BY DEF TakeFirst
<1> HIDE DEF m
<1>3. t \in Seq(E) /\ Len(t) = m
    BY <1>1, <1>2
<1>4. DOMAIN t = 1 .. m /\ DOMAIN s = 1 .. Len(s)
    BY <1>3
<1>5. \A i \in 1 .. m : t[i] = s[i]
    BY <1>1, <1>2
<1>6. (DOMAIN t) \subseteq (DOMAIN s)
    BY <1>1, <1>4
<1>7. QED
    BY <1>3, <1>4, <1>5, <1>6 DEF Range

\* What is sorted has the same elements.
LEMMA ElementsSorted ==
    ASSUME NEW E, NEW s \in Seq(E), NEW key, NEW n \in Nat, Keys(s, key, n), NEW sorted,
           sorted = Sorted(s, key)
    PROVE  sorted \in Seq(E) /\ Len(sorted) = Len(s) /\ Range(sorted) = Range(s)
<1>1. sorted \in Seq(E) /\ Len(sorted) = Len(s)
    BY SortedIsInOrder
<1>2. PICK places \in Bijection(DOMAIN s, DOMAIN s) : \A k \in DOMAIN s : sorted[k] = s[places[k]]
    BY SortedIsInOrder DEF Rearranged
<1>3. /\ \A k \in DOMAIN s : places[k] \in DOMAIN s
      /\ \A i \in DOMAIN s : \E k \in DOMAIN s : places[k] = i
    BY DEF Bijection, Injection, Surjection
<1>4. DOMAIN sorted = DOMAIN s
    BY <1>1
<1>5. QED
    BY <1>1, <1>2, <1>3, <1>4 DEF Range

\* The sum over some of the numbers.
LEMMA TotalOfSome ==
    ASSUME NEW D, NEW f \in [D -> Nat], NEW S \in SUBSET D, IsFiniteSet(S)
    PROVE  /\ Restrict(f, S) \in [S -> Nat] /\ Total(Restrict(f, S)) \in Nat
           /\ \A x \in S : Restrict(f, S)[x] = f[x]
BY TotalIsWeight DEF Restrict

\* One of them more.
LEMMA TotalOfSomeMore ==
    ASSUME NEW D, NEW f \in [D -> Nat], NEW S \in SUBSET D, IsFiniteSet(S), NEW x \in D \ S
    PROVE  Total(Restrict(f, S \cup {x})) = Total(Restrict(f, S)) + f[x]
<1> DEFINE T == S \cup {x}
           g == Restrict(f, T)
           h == Restrict(f, S)
<1>1. T \in SUBSET D /\ IsFiniteSet(T) /\ x \in T /\ T \ {x} = S
    BY FS_AddElement
<1>2. /\ g \in [T -> Nat] /\ \A y \in T : g[y] = f[y]
      /\ h \in [S -> Nat] /\ Total(h) \in Nat /\ \A y \in S : h[y] = f[y]
    <2> HIDE DEF T
    <2>1. QED
        BY <1>1, TotalOfSome
<1> HIDE DEF T, g, h
<1>3. \A y \in T \ {x} : h[y] = g[y]
    BY <1>1, <1>2
<1>4. Total(g) = g[x] + Total(h)
    BY <1>1, <1>2, <1>3, TotalWithout
<1>5. g[x] = f[x] /\ f[x] \in Nat
    BY <1>1, <1>2
<1>6. QED
    BY <1>2, <1>4, <1>5 DEF T, g, h

\* And some of them more.
LEMMA TotalOfPart ==
    ASSUME NEW D, NEW f \in [D -> Nat], NEW T \in SUBSET D, IsFiniteSet(T), NEW S \in SUBSET T
    PROVE  /\ Total(Restrict(f, S)) <= Total(Restrict(f, T))
           /\ Total(Restrict(f, S)) \in Nat /\ Total(Restrict(f, T)) \in Nat
<1> DEFINE g == Restrict(f, T)
           h == Restrict(f, S)
<1>1. IsFiniteSet(S) /\ S \in SUBSET D
    BY FS_Subset
<1>2. /\ g \in [T -> Nat] /\ \A y \in T : g[y] = f[y]
      /\ h \in [S -> Nat] /\ \A y \in S : h[y] = f[y]
    BY <1>1, TotalOfSome
<1> HIDE DEF g, h
<1>3. /\ Total(h) = Cardinality(Units(h, S)) /\ Total(h) \in Nat
      /\ Total(g) = Cardinality(Units(g, T)) /\ Total(g) \in Nat
    BY <1>1, <1>2, TotalIsWeight DEF Weight
<1>4. IsFiniteSet(Units(g, T))
    BY <1>2, UnitsAreFinite
<1>5. Units(h, S) \in SUBSET Units(g, T)
    BY <1>2 DEF Units
<1>6. Cardinality(Units(h, S)) <= Cardinality(Units(g, T))
    BY <1>4, <1>5, FS_Subset
<1>7. QED
    BY <1>3, <1>6 DEF g, h

-----------------------------------------------------------------------------
(* A pass *)

\* What is used after each item.
LEMMA UsedAfterEach ==
    ASSUME NEW costs \in Seq(Nat), NEW start \in Nat, NEW limit \in Int, NEW used,
           used = Used(costs, start, limit)
    PROVE  /\ \A k \in 0 .. Len(costs) : used[k] \in Nat
           /\ used[0] = start
           /\ \A k \in 1 .. Len(costs) :
                 used[k] = IF used[k - 1] + costs[k] <= limit THEN used[k - 1] + costs[k]
                           ELSE used[k - 1]
<1> DEFINE n == Len(costs)
           more(b, k) == IF b + costs[k] <= limit THEN b + costs[k] ELSE b
           Passed(u) == u = [k \in 0 .. n |-> IF k = 0 THEN start ELSE more(u[k - 1], k)]
           Upto(g, m) == /\ g \in [0 .. m -> Nat] /\ g[0] = start
                         /\ \A k \in 1 .. m : g[k] = more(g[k - 1], k)
<1>1. n \in Nat /\ \A k \in 1 .. n : costs[k] \in Nat
    OBVIOUS
<1>2. \A b \in Nat, k \in 1 .. n : more(b, k) \in Nat
    BY <1>1
<1>3. used = CHOOSE u : Passed(u)
    BY DEF Used
<1> HIDE DEF n, more
<1>4. \A m \in 0 .. n : \E g : Upto(g, m)
    <2> DEFINE missing == {m \in 0 .. n : ~\E g : Upto(g, m)}
    <2>1. SUFFICES ASSUME missing # {} PROVE FALSE
        OBVIOUS
    <2>2. missing \in SUBSET Nat
        BY <1>1
    <2>3. PICK m \in missing : \A j \in missing : m <= j
        BY <2>1, <2>2, FirstNumber
    <2>4. m # 0
        <3>1. Upto([k \in 0 .. 0 |-> start], 0)
            OBVIOUS
        <3>2. QED
            BY <2>3, <3>1
    <2>5. m \in 1 .. n /\ m - 1 \in 0 .. n /\ ~(m <= m - 1)
        BY <1>1, <2>3, <2>4
    <2>6. m - 1 \notin missing
        BY <2>3, <2>5
    <2>7. PICK g : Upto(g, m - 1)
        BY <2>5, <2>6
    <2> DEFINE h == [k \in 0 .. m |-> IF k = m THEN more(g[m - 1], m) ELSE g[k]]
    <2>8. m - 1 \in 0 .. m - 1 /\ g[m - 1] \in Nat
        BY <1>1, <2>5, <2>7
    <2>9. more(g[m - 1], m) \in Nat
        BY <1>2, <2>5, <2>8
    <2>10. h \in [0 .. m -> Nat]
        BY <1>1, <2>5, <2>7, <2>9
    <2>11. h[0] = start
        BY <1>1, <2>5, <2>7
    <2>12. ASSUME NEW k \in 1 .. m PROVE h[k] = more(h[k - 1], k)
        <3>1. k - 1 \in 0 .. m /\ k - 1 # m /\ k \in 0 .. m
            BY <1>1, <2>5
        <3>2. h[k - 1] = g[k - 1]
            BY <3>1
        <3>3. CASE k = m
            BY <3>1, <3>2, <3>3
        <3>4. CASE k # m
            <4>1. k \in 1 .. m - 1
                BY <1>1, <2>5, <3>4
            <4>2. g[k] = more(g[k - 1], k)
                BY <2>7, <4>1
            <4>3. QED
                BY <3>1, <3>2, <3>4, <4>2
        <3>5. QED
            BY <3>3, <3>4
    <2>13. Upto(h, m)
        BY <2>10, <2>11, <2>12
    <2>14. QED
        BY <2>3, <2>13
<1>5. \E u : Passed(u)
    <2>1. PICK g : Upto(g, n)
        <3>1. n \in 0 .. n
            BY <1>1
        <3> HIDE DEF Upto
        <3>2. QED
            BY <1>4, <3>1
    <2>2. \A k \in 0 .. n : g[k] = IF k = 0 THEN start ELSE more(g[k - 1], k)
        BY <1>1, <2>1
    <2>3. g = [k \in 0 .. n |-> g[k]]
        BY <2>1
    <2>4. Passed(g)
        BY <2>2, <2>3
    <2>5. QED
        BY <2>4
<1>6. Passed(used)
    BY <1>3, <1>5
<1>7. used[0] = start /\ \A k \in 1 .. n : used[k] = more(used[k - 1], k)
    BY <1>1, <1>6
<1>8. \A k \in 0 .. n : used[k] \in Nat
    <2> DEFINE wrong == {k \in 0 .. n : used[k] \notin Nat}
    <2>1. SUFFICES ASSUME wrong # {} PROVE FALSE
        OBVIOUS
    <2>2. wrong \in SUBSET Nat
        BY <1>1
    <2>3. PICK k \in wrong : \A j \in wrong : k <= j
        BY <2>1, <2>2, FirstNumber
    <2>4. k \in 1 .. n /\ k - 1 \in 0 .. n /\ ~(k <= k - 1)
        BY <1>1, <1>7, <2>3
    <2>5. used[k - 1] \in Nat
        BY <2>3, <2>4
    <2>6. used[k] \in Nat
        BY <1>2, <1>7, <2>4, <2>5
    <2>7. QED
        BY <2>3, <2>6
<1>9. QED
    BY <1>7, <1>8 DEF n, more

\* What is used in the end is what some of the costs come to.
UsedInAll(used, start, costs, S) == used[Len(costs)] = start + Total(Restrict(costs, S))

\* What a pass takes is within the limit, and what it leaves would have exceeded it
\* together with what was taken before.
LEMMA PassTakes ==
    ASSUME NEW costs \in Seq(Nat), NEW start \in Nat, NEW limit \in Int, NEW used, NEW taken,
           used = Used(costs, start, limit), taken = Fitting(costs, start, limit)
    PROVE  /\ taken \in SUBSET (DOMAIN costs) /\ IsFiniteSet(taken)
           /\ UsedInAll(used, start, costs, taken)
           /\ used[Len(costs)] \in Nat /\ Total(Restrict(costs, taken)) \in Nat
           /\ taken # {} \/ start <= limit => used[Len(costs)] <= limit
           /\ \A k \in (DOMAIN costs) \ taken :
                 start + Total(Restrict(costs, {j \in taken : j < k})) + costs[k] > limit
<1> DEFINE n == Len(costs)
           sum(S) == Total(Restrict(costs, S))
           upto(k) == {j \in taken : j <= k}
           Right(k) == /\ used[k] = start + sum(upto(k))
                       /\ upto(k) # {} \/ start <= limit => used[k] <= limit
<1>1. n \in Nat /\ costs \in [1 .. n -> Nat] /\ DOMAIN costs = 1 .. n
    OBVIOUS
<1>2. /\ \A k \in 0 .. n : used[k] \in Nat
      /\ used[0] = start
      /\ \A k \in 1 .. n : used[k] = IF used[k - 1] + costs[k] <= limit THEN used[k - 1] + costs[k]
                                     ELSE used[k - 1]
    BY UsedAfterEach
<1>3. \A k \in 1 .. n : k \in taken <=> used[k - 1] + costs[k] <= limit
    BY DEF Fitting
<1>4. taken \in SUBSET (1 .. n) /\ IsFiniteSet(taken)
    <2>1. taken \in SUBSET (1 .. n)
        BY DEF Fitting
    <2>2. IsFiniteSet(1 .. n)
        BY <1>1, FirstPlaces
    <2>3. QED
        BY <2>1, <2>2, FS_Subset
<1> HIDE DEF n
<1>5. \A S \in SUBSET taken :
          /\ IsFiniteSet(S) /\ sum(S) \in Nat
          /\ \A k \in (1 .. n) \ S : sum(S \cup {k}) = sum(S) + costs[k]
    <2>1. SUFFICES ASSUME NEW S \in SUBSET taken
                   PROVE  /\ IsFiniteSet(S) /\ sum(S) \in Nat
                          /\ \A k \in (1 .. n) \ S : sum(S \cup {k}) = sum(S) + costs[k]
        OBVIOUS
    <2>2. IsFiniteSet(S) /\ S \in SUBSET (1 .. n)
        BY <1>4, FS_Subset
    <2>3. sum(S) \in Nat
        BY <1>1, <2>2, TotalOfSome
    <2>4. \A k \in (1 .. n) \ S : Total(Restrict(costs, S \cup {k})) = Total(Restrict(costs, S)) + costs[k]
        BY <1>1, <2>2, TotalOfSomeMore
    <2>5. QED
        BY <2>2, <2>3, <2>4
<1>6. \A k \in 0 .. n : upto(k) \in SUBSET taken
    OBVIOUS
<1>7. Right(0)
    <2>1. upto(0) = {}
        BY <1>4
    <2>2. Restrict(costs, {}) \in [{} -> Nat]
        BY DEF Restrict
    <2>3. sum({}) = 0
        BY <2>2, TotalOfNone
    <2>4. sum(upto(0)) = 0
        BY <2>1, <2>3
    <2> HIDE DEF sum
    <2>5. QED
        BY <1>2, <2>1, <2>4
<1>8. ASSUME NEW k \in 1 .. n, Right(k - 1) PROVE Right(k)
    <2>1. k - 1 \in 0 .. n /\ k \in 0 .. n /\ used[k - 1] \in Nat /\ costs[k] \in Nat
        BY <1>1, <1>2
    <2>2. CASE k \in taken
        <3>1. upto(k) = upto(k - 1) \cup {k} /\ k \notin upto(k - 1)
            BY <1>1, <1>4, <2>2
        <3>2. sum(upto(k)) = sum(upto(k - 1)) + costs[k] /\ sum(upto(k - 1)) \in Nat
            <4> HIDE DEF sum, upto
            <4>1. QED
                BY <1>5, <1>6, <2>1, <3>1
        <3>3. used[k] = used[k - 1] + costs[k] /\ used[k] <= limit
            BY <1>2, <1>3, <2>2
        <3>4. used[k] = start + sum(upto(k))
            <4> HIDE DEF sum, upto
            <4>1. QED
                BY <1>8, <2>1, <3>2, <3>3
        <3>5. QED
            BY <3>3, <3>4
    <2>3. CASE k \notin taken
        <3>1. upto(k) = upto(k - 1)
            BY <1>1, <1>4, <2>3
        <3>2. used[k] = used[k - 1]
            BY <1>2, <1>3, <2>3
        <3>3. QED
            BY <1>8, <3>1, <3>2
    <2>4. QED
        BY <2>2, <2>3
<1>9. \A k \in 0 .. n : Right(k)
    <2> HIDE DEF Right
    <2> DEFINE wrong == {k \in 0 .. n : ~Right(k)}
    <2>1. SUFFICES ASSUME wrong # {} PROVE FALSE
        OBVIOUS
    <2>2. wrong \in SUBSET Nat
        BY <1>1
    <2>3. PICK k \in wrong : \A j \in wrong : k <= j
        BY <2>1, <2>2, FirstNumber
    <2>4. k \in 1 .. n /\ k - 1 \in 0 .. n /\ ~(k <= k - 1)
        BY <1>1, <1>7, <2>3
    <2>5. Right(k - 1)
        BY <2>3, <2>4
    <2>6. QED
        BY <1>8, <2>3, <2>4, <2>5
<1>10. Right(n) /\ upto(n) = taken
    <2>1. upto(n) = taken
        BY <1>1, <1>4
    <2>2. n \in 0 .. n
        BY <1>1
    <2> HIDE DEF Right, upto
    <2>3. QED
        BY <1>9, <2>1, <2>2
<1>11. ASSUME NEW k \in (1 .. n) \ taken PROVE start + sum({j \in taken : j < k}) + costs[k] > limit
    <2>1. k - 1 \in 0 .. n /\ used[k - 1] \in Nat /\ costs[k] \in Nat
        BY <1>1, <1>2
    <2>2. upto(k - 1) = {j \in taken : j < k}
        BY <1>1, <1>4
    <2>3. ~(used[k - 1] + costs[k] <= limit)
        BY <1>3
    <2>4. used[k - 1] = start + sum(upto(k - 1))
        BY <1>9, <2>1
    <2>5. sum(upto(k - 1)) \in Nat
        BY <1>5, <1>6, <2>1
    <2> HIDE DEF sum, upto
    <2>6. start + sum(upto(k - 1)) + costs[k] > limit
        BY <2>1, <2>3, <2>4, <2>5
    <2>7. QED
        BY <2>2, <2>6
<1>12. UsedInAll(used, start, costs, taken) /\ (taken # {} \/ start <= limit => used[n] <= limit)
    BY <1>10 DEF UsedInAll, n
<1>13. used[n] \in Nat /\ sum(taken) \in Nat
    <2>1. n \in 0 .. n
        BY <1>1
    <2>2. QED
        BY <1>2, <1>5, <2>1
<1>14. QED
    BY <1>1, <1>4, <1>11, <1>12, <1>13 DEF n

ImageOf(places, S) == {places[k] : k \in S}
SameTotal(f, g) == Total(f) = Total(g)
SameSum(f, S, g, T) == Total(Restrict(f, S)) = Total(Restrict(g, T))
SameAt(f, g, places) == \A k \in DOMAIN f : f[k] = g[places[k]]

LEMMA TotalMoved ==
    ASSUME NEW S, IsFiniteSet(S), NEW T, NEW f \in [S -> Nat], NEW g \in [T -> Nat],
           NEW places \in Bijection(S, T), SameAt(f, g, places)
    PROVE  SameTotal(f, g)
<1>1. \A x \in S : f[x] = g[places[x]]
    BY DEF SameAt
<1>2. QED
    BY <1>1, TotalOfPlaces DEF SameTotal

\* The same numbers at other places have the same sum.
LEMMA TotalOfImage ==
    ASSUME NEW C, NEW D, NEW f \in [C -> Nat], NEW g \in [D -> Nat], NEW places \in Bijection(C, D),
           SameAt(f, g, places), NEW S \in SUBSET C, IsFiniteSet(S), NEW image,
           image = ImageOf(places, S)
    PROVE  /\ image \in SUBSET D /\ IsFiniteSet(image)
           /\ SameSum(f, S, g, image)
<1>1. /\ \A k \in C : places[k] \in D
      /\ \A j, k \in C : places[j] = places[k] => j = k
    BY DEF Bijection, Injection, IsInjective
<1> DEFINE to == [k \in S |-> places[k]]
<1>2. to \in Bijection(S, image)
    <2>1. /\ to \in [S -> image]
          /\ \A j, k \in S : to[j] = to[k] => j = k
          /\ \A x \in image : \E k \in S : to[k] = x
        BY <1>1 DEF ImageOf
    <2> HIDE DEF to
    <2>2. QED
        BY <2>1 DEF Bijection, Injection, IsInjective, Surjection
<1>3. image \in SUBSET D
    BY <1>1 DEF ImageOf
<1>4. IsFiniteSet(image)
    BY <1>2, FS_Surjection DEF Bijection
<1>5. /\ Restrict(f, S) \in [S -> Nat] /\ Restrict(g, image) \in [image -> Nat]
      /\ \A k \in S : Restrict(f, S)[k] = f[k]
      /\ \A x \in image : Restrict(g, image)[x] = g[x]
    <2>1. Restrict(f, S) \in [S -> Nat] /\ \A k \in S : Restrict(f, S)[k] = f[k]
        BY TotalOfSome
    <2>2. /\ Restrict(g, image) \in [image -> Nat]
          /\ \A x \in image : Restrict(g, image)[x] = g[x]
        BY <1>3 DEF Restrict
    <2>3. QED
        BY <2>1, <2>2
<1>6. \A k \in S : Restrict(f, S)[k] = Restrict(g, image)[to[k]]
    BY <1>5 DEF ImageOf, SameAt
<1> HIDE DEF to
<1>7. Total(Restrict(f, S)) = Total(Restrict(g, image))
    BY <1>2, <1>5, <1>6, TotalOfPlaces
<1>8. QED
    BY <1>3, <1>4, <1>7 DEF SameSum

-----------------------------------------------------------------------------
(* The messages of a context *)

\* The order in which messages are tried: what is tried before an important one
\* is important too, and newer.
LEMMA TriedInOrder ==
    ASSUME NEW recent \in Seq(Message), NEW tried, tried = Tried(recent)
    PROVE  /\ tried \in Bijection(DOMAIN recent, DOMAIN recent)
           /\ Len(tried) = Len(recent) /\ DOMAIN tried = DOMAIN recent
           /\ \A j, k \in DOMAIN recent :
                 j < k /\ recent[tried[k]].text \in Important =>
                     recent[tried[j]].text \in Important /\ tried[j] > tried[k]
<1> DEFINE D == DOMAIN recent
           s == [i \in D |-> i]
           key == [i \in D |-> Precedence(recent, i)]
<1>1. D = 1 .. Len(recent) /\ Len(recent) \in Nat
    OBVIOUS
<1>2. s \in Seq(D) /\ Len(s) = Len(recent) /\ DOMAIN s = D /\ \A i \in D : s[i] = i
    BY <1>1
<1>3. \A i \in D : /\ key[i] = <<If(recent[i].text \notin Important), -i>>
                   /\ If(recent[i].text \notin Important) \in {0, 1}
    BY DEF Precedence, If
<1>4. Keys(s, key, 2)
    <2>1. \A i \in D : key[s[i]] \in [1 .. 2 -> Int]
        BY <1>1, <1>2, <1>3
    <2>2. QED
        BY <1>2, <2>1 DEF Keys
<1>5. tried = Sorted(s, key)
    BY DEF Tried
<1> HIDE DEF s, key
<1>6. /\ tried \in Seq(D) /\ Len(tried) = Len(s)
      /\ Rearranged(tried, s) /\ GoingUp(tried, key)
    BY <1>2, <1>4, <1>5, SortedIsInOrder
<1>7. DOMAIN tried = D
    BY <1>1, <1>2, <1>6
<1>8. tried \in Bijection(D, D)
    <2> DEFINE Moved(places) == \A k \in D : tried[k] = s[places[k]]
    <2>1. PICK places \in Bijection(D, D) : Moved(places)
        BY <1>2, <1>6 DEF Rearranged
    <2>2. \A k \in D : places[k] \in D
        BY <2>1 DEF Bijection, Injection
    <2>3. \A k \in D : tried[k] = places[k]
        BY <1>2, <2>1, <2>2
    <2>4. tried = [k \in D |-> tried[k]] /\ places = [k \in D |-> places[k]]
        BY <1>6, <1>7, <2>1 DEF Bijection, Injection
    <2>5. [k \in D |-> tried[k]] = [k \in D |-> places[k]]
        BY <2>3
    <2>6. QED
        BY <2>1, <2>4, <2>5
<1>9. ASSUME NEW j \in D, NEW k \in D, j < k, recent[tried[k]].text \in Important
      PROVE  recent[tried[j]].text \in Important /\ tried[j] > tried[k]
    <2> DEFINE x == tried[j]
               y == tried[k]
    <2>1. x \in D /\ y \in D /\ x # y
        <3>1. j # k
            BY <1>1, <1>9
        <3>2. QED
            BY <1>8, <3>1 DEF Bijection, Injection, IsInjective
    <2>2. Before(key[x], key[y]) \/ key[x] = key[y]
        BY <1>6, <1>7, <1>9 DEF GoingUp
    <2>3. recent[y].text \in Important
        BY <1>9
    <2> HIDE DEF x, y
    <2>4. key[y] = <<0, -y>>
        BY <1>3, <2>1, <2>3 DEF If
    <2>5. key[x] = <<If(recent[x].text \notin Important), -x>> /\ If(recent[x].text \notin Important) \in {0, 1}
        BY <1>3, <2>1
    <2>6. key[x] # key[y]
        BY <1>1, <2>1, <2>4, <2>5
    <2>7. PICK i \in {1, 2} : key[x][i] < key[y][i] /\ \A m \in 1 .. i - 1 : key[x][m] = key[y][m]
        <3>1. DOMAIN key[x] = {1, 2}
            BY <2>5
        <3>2. QED
            BY <2>2, <2>6, <3>1 DEF Before
    <2>8. i = 2
        BY <2>4, <2>5, <2>7
    <2>9. key[x][1] = 0 /\ -x < -y
        BY <2>4, <2>5, <2>7, <2>8
    <2>10. recent[x].text \in Important
        BY <2>5, <2>9 DEF If
    <2>11. QED
        BY <1>1, <2>1, <2>9, <2>10 DEF x, y
<1>10. QED
    BY <1>2, <1>6, <1>7, <1>8, <1>9 DEF D

MessageCosts(recent) == [i \in DOMAIN recent |-> Tokens[recent[i].text]]

\* What a pass adds to what was used before, and that it adds nothing beyond the budget.
ComesTo(used, start, part) == used \in Nat /\ part \in Nat /\ used = start + part
WithinLimit(used, start, took) == took # {} \/ start <= ContextBudget => used <= ContextBudget

\* An important message is left only for the current message and newer important ones.
ImportantFirst(recent, cost, start, kept) ==
    \A i \in (DOMAIN recent) \ kept :
        recent[i].text \in Important =>
            start + cost[i]
                + Total(Restrict(cost, {j \in kept : recent[j].text \in Important /\ j > i}))
                > ContextBudget

\* The messages that are taken: within the budget if there are any, an important one
\* is left only for newer important ones, and all are taken if all of them fit.
LEMMA KeptMessages ==
    ASSUME NEW recent \in Seq(Message), NEW start \in Nat, NEW tried, tried = Tried(recent),
           NEW kept, kept = Kept(start)[recent],
           NEW cost, cost = MessageCosts(recent),
           NEW used, used = After(TextCosts(recent, tried), start)
    PROVE  /\ kept \in SUBSET (DOMAIN recent)
           /\ ComesTo(used, start, Total(Restrict(cost, kept))) /\ WithinLimit(used, start, kept)
           /\ ImportantFirst(recent, cost, start, kept)
           /\ start + Total(cost) <= ContextBudget => kept = DOMAIN recent
<1> DEFINE D == DOMAIN recent
           costs == TextCosts(recent, tried)
           taken == Fitting(costs, start, ContextBudget)
           sum(S) == Total(Restrict(costs, S))
           part(S) == Total(Restrict(cost, S))
           image(S) == ImageOf(tried, S)
           earlier(k) == {j \in taken : j < k}
           newer(i) == {j \in kept : recent[j].text \in Important /\ j > i}
<1>1. D = 1 .. Len(recent) /\ Len(recent) \in Nat /\ IsFiniteSet(D)
    BY FirstPlaces
<1>2. cost \in [D -> Nat] /\ DOMAIN cost = D
    <2>1. \A i \in D : recent[i] \in Message
        OBVIOUS
    <2>2. \A i \in D : recent[i].text \in Text
        BY <2>1 DEF Message
    <2>3. \A i \in D : Tokens[recent[i].text] \in Nat
        BY <2>2, WindowAssumption
    <2>4. QED
        BY <2>3 DEF MessageCosts
<1>3. /\ tried \in Bijection(D, D)
      /\ Len(tried) = Len(recent) /\ DOMAIN tried = D
      /\ \A j, k \in D :
            j < k /\ recent[tried[k]].text \in Important =>
                recent[tried[j]].text \in Important /\ tried[j] > tried[k]
    BY TriedInOrder
<1>4. /\ \A k \in D : tried[k] \in D
      /\ \A i \in D : \E k \in D : tried[k] = i
    BY <1>3 DEF Bijection, Injection, Surjection
<1>5. /\ costs \in Seq(Nat) /\ costs \in [D -> Nat] /\ Len(costs) = Len(recent)
      /\ DOMAIN costs = D /\ \A k \in D : costs[k] = cost[tried[k]]
    <2>1. costs = [k \in D |-> Tokens[recent[tried[k]].text]]
        BY <1>3 DEF TextCosts
    <2>2. \A k \in D : costs[k] = cost[tried[k]] /\ costs[k] \in Nat
        BY <1>2, <1>4, <2>1 DEF MessageCosts
    <2>3. costs \in [D -> Nat]
        BY <2>1, <2>2
    <2> HIDE DEF costs
    <2>4. costs \in Seq(Nat) /\ Len(costs) = Len(recent)
        BY <1>1, <2>3
    <2>5. QED
        BY <2>2, <2>3, <2>4
<1>6. kept = image(taken)
    BY DEF Kept, ImageOf
<1>7. used = Used(costs, start, ContextBudget)[Len(costs)]
    BY DEF After
<1> HIDE DEF costs, taken
<1>8. /\ taken \in SUBSET D /\ IsFiniteSet(taken)
      /\ used = start + sum(taken) /\ used \in Nat /\ sum(taken) \in Nat
      /\ taken # {} \/ start <= ContextBudget => used <= ContextBudget
      /\ \A k \in D \ taken : start + sum(earlier(k)) + costs[k] > ContextBudget
    <2> DEFINE u == Used(costs, start, ContextBudget)
    <2>1. costs \in Seq(Nat) /\ ContextBudget \in Int /\ u = Used(costs, start, ContextBudget)
              /\ taken = Fitting(costs, start, ContextBudget)
        BY <1>5, WindowAssumption DEF taken
    <2>2. used = u[Len(costs)]
        BY <1>7
    <2> HIDE DEF u
    <2>3. taken \in SUBSET (DOMAIN costs) /\ IsFiniteSet(taken)
        BY <2>1, PassTakes
    <2>4. UsedInAll(u, start, costs, taken)
        BY <2>1, PassTakes
    <2>5. u[Len(costs)] \in Nat /\ Total(Restrict(costs, taken)) \in Nat
        BY <2>1, PassTakes
    <2>6. taken # {} \/ start <= ContextBudget => u[Len(costs)] <= ContextBudget
        BY <2>1, PassTakes
    <2>7. \A k \in (DOMAIN costs) \ taken :
                start + Total(Restrict(costs, {j \in taken : j < k})) + costs[k] > ContextBudget
        BY <2>1, PassTakes
    <2>8. QED
        BY <1>5, <2>2, <2>3, <2>4, <2>5, <2>6, <2>7 DEF UsedInAll
<1>9. ASSUME NEW S \in SUBSET D
      PROVE  image(S) \in SUBSET D /\ IsFiniteSet(image(S)) /\ sum(S) = part(image(S))
    <2> DEFINE im == image(S)
    <2>1. IsFiniteSet(S) /\ im = ImageOf(tried, S)
        BY <1>1, FS_Subset
    <2>2. /\ costs \in [D -> Nat] /\ cost \in [D -> Nat] /\ tried \in Bijection(D, D)
          /\ SameAt(costs, cost, tried) /\ S \in SUBSET D
        BY <1>2, <1>3, <1>5 DEF SameAt
    <2> HIDE DEF im, D
    <2>3. SameSum(costs, S, cost, im)
        BY <2>1, <2>2, TotalOfImage
    <2>4. im \in SUBSET D /\ IsFiniteSet(im)
        BY <2>1, <2>2, TotalOfImage
    <2>5. QED
        BY <2>3, <2>4 DEF im, SameSum
<1> HIDE DEF sum, part
<1>10. kept \in SUBSET D /\ sum(taken) = part(kept)
    BY <1>6, <1>8, <1>9
<1>11. taken = {} => kept = {}
    BY <1>6 DEF ImageOf
<1>12. \A S, T \in SUBSET D : S \in SUBSET T => part(S) <= part(T) /\ part(S) \in Nat /\ part(T) \in Nat
    <2>1. SUFFICES ASSUME NEW S \in SUBSET D, NEW T \in SUBSET D, S \in SUBSET T
                   PROVE  part(S) <= part(T) /\ part(S) \in Nat /\ part(T) \in Nat
        OBVIOUS
    <2>2. IsFiniteSet(T)
        BY <1>1, FS_Subset
    <2>3. QED
        BY <1>2, <2>1, <2>2, TotalOfPart DEF part
<1>13. ASSUME NEW i \in D \ kept
       PROVE  \E k \in D \ taken : tried[k] = i /\ cost[i] \in Nat /\ costs[k] = cost[i]
    <2>1. PICK k \in D : tried[k] = i
        BY <1>4
    <2>2. k \notin taken
        BY <1>6, <2>1 DEF ImageOf
    <2>3. cost[i] \in Nat /\ costs[k] = cost[i]
        BY <1>2, <1>5, <2>1
    <2>4. QED
        BY <2>1, <2>2, <2>3
<1>14. ASSUME NEW i \in D \ kept, recent[i].text \in Important
       PROVE  start + cost[i] + part(newer(i)) > ContextBudget
    <2>1. PICK k \in D \ taken : tried[k] = i /\ cost[i] \in Nat /\ costs[k] = cost[i]
        BY <1>13
    <2>2. earlier(k) \in SUBSET D
        BY <1>8
    <2>3. image(earlier(k)) \in SUBSET newer(i)
        <3>1. \A j \in earlier(k) : j \in D /\ j \in taken /\ j < k
            BY <1>8
        <3>2. \A j \in earlier(k) : recent[tried[j]].text \in Important /\ tried[j] > i
            BY <1>3, <1>14, <2>1, <3>1
        <3>3. \A j \in earlier(k) : tried[j] \in kept
            BY <1>6, <3>1 DEF ImageOf
        <3>4. QED
            BY <3>2, <3>3 DEF ImageOf
    <2>4. newer(i) \in SUBSET D
        BY <1>10
    <2>5. sum(earlier(k)) = part(image(earlier(k))) /\ image(earlier(k)) \in SUBSET D
        BY <1>9, <2>2
    <2>6. part(image(earlier(k))) <= part(newer(i)) /\ part(newer(i)) \in Nat
              /\ part(image(earlier(k))) \in Nat
        BY <1>12, <2>3, <2>4, <2>5
    <2>7. start + sum(earlier(k)) + costs[k] > ContextBudget
        BY <1>8, <2>1
    <2> HIDE DEF earlier, newer, image
    <2>8. QED
        BY <2>1, <2>5, <2>6, <2>7, WindowAssumption
<1>15. ASSUME start + Total(cost) <= ContextBudget, kept # D PROVE FALSE
    <2>1. PICK i \in D \ kept : TRUE
        BY <1>10, <1>15
    <2>2. PICK k \in D \ taken : tried[k] = i /\ cost[i] \in Nat /\ costs[k] = cost[i]
        BY <1>13
    <2> DEFINE S == earlier(k)
               T == S \cup {k}
    <2>3. S \in SUBSET D /\ T \in SUBSET D /\ k \in D \ S /\ IsFiniteSet(S)
        BY <1>1, <1>8, <2>2, FS_Subset
    <2>4. start + sum(S) + costs[k] > ContextBudget
        BY <1>8, <2>2
    <2> HIDE DEF S
    <2>5. sum(T) = sum(S) + costs[k]
        <3>1. costs \in [D -> Nat] /\ S \in SUBSET D /\ IsFiniteSet(S) /\ k \in D \ S
            BY <1>5, <2>3
        <3> HIDE DEF D
        <3>2. Total(Restrict(costs, S \cup {k})) = Total(Restrict(costs, S)) + costs[k]
            BY <3>1, TotalOfSomeMore
        <3>3. QED
            BY <3>2 DEF sum
    <2> HIDE DEF T
    <2>6. sum(T) = part(image(T)) /\ image(T) \in SUBSET D
        BY <1>9, <2>3
    <2>7. part(image(T)) <= part(D) /\ part(image(T)) \in Nat
        BY <1>12, <2>6
    <2>8. Restrict(cost, D) = cost
        BY <1>2 DEF Restrict
    <2>9. part(D) = Total(cost) /\ part(D) \in Nat
        BY <1>12, <2>8 DEF part
    <2>10. sum(S) \in Nat /\ costs[k] \in Nat
        <3>1. image(S) \in SUBSET D /\ sum(S) = part(image(S))
            BY <1>9, <2>3
        <3>2. part(image(S)) \in Nat
            BY <1>12, <3>1
        <3>3. QED
            BY <1>5, <2>2, <3>1, <3>2
    <2> HIDE DEF image
    <2>11. QED
        BY <1>15, <2>4, <2>5, <2>6, <2>7, <2>9, <2>10, WindowAssumption
<1>16. ComesTo(used, start, Total(Restrict(cost, kept))) /\ WithinLimit(used, start, kept)
    BY <1>8, <1>10, <1>11 DEF part, ComesTo, WithinLimit
<1>17. ImportantFirst(recent, cost, start, kept)
    BY <1>14 DEF ImportantFirst, part
<1>18. QED
    BY <1>10, <1>15, <1>16, <1>17

-----------------------------------------------------------------------------
(* Facts, preferences and the summary *)

LEMMA CostsOfSome ==
    ASSUME NEW E, NEW s \in Seq(E), Costs(s) \in Seq(Nat), NEW t \in Seq(E), Range(t) \subseteq Range(s)
    PROVE  Costs(t) \in Seq(Nat)
<1>1. \A i \in DOMAIN s : s[i].cost \in Nat
    <2>1. Costs(s) = [i \in DOMAIN s |-> s[i].cost]
        BY DEF Costs
    <2>2. \A i \in DOMAIN Costs(s) : Costs(s)[i] \in Nat
        OBVIOUS
    <2>3. QED
        BY <2>1, <2>2
<1>2. \A k \in DOMAIN t : \E i \in DOMAIN s : t[k] = s[i]
    BY DEF Range
<1>3. \A k \in DOMAIN t : t[k].cost \in Nat
    BY <1>1, <1>2
<1>4. DOMAIN t = 1 .. Len(t) /\ Len(t) \in Nat
    OBVIOUS
<1>5. Costs(t) \in [1 .. Len(t) -> Nat]
    BY <1>3, <1>4 DEF Costs
<1>6. QED
    BY <1>4, <1>5

\* What is used after a pass is what was used before and the costs of what it took.
LEMMA ItemsThatFit ==
    ASSUME NEW E, NEW items \in Seq(E), NEW costs \in Seq(Nat), costs = Costs(items),
           NEW start \in Nat, NEW fits, fits = WhatFits(items, start),
           NEW used, used = After(costs, start)
    PROVE  /\ ComesTo(used, start, Total(Costs(fits))) /\ WithinLimit(used, start, DOMAIN fits)
           /\ fits # <<>> => DOMAIN fits # {}
<1> DEFINE taken == Fitting(costs, start, ContextBudget)
           u == Used(costs, start, ContextBudget)
           places == Ascending[taken]
<1>1. /\ u = Used(costs, start, ContextBudget) /\ taken = Fitting(costs, start, ContextBudget)
      /\ ContextBudget \in Int /\ used = u[Len(costs)]
    BY WindowAssumption DEF After
<1>2. fits = Picked(items, taken)
    BY DEF WhatFits
<1>3. DOMAIN costs = DOMAIN items /\ \A i \in DOMAIN items : costs[i] = items[i].cost /\ costs[i] \in Nat
    <2>1. costs = [i \in DOMAIN items |-> items[i].cost]
        BY DEF Costs
    <2>2. \A i \in DOMAIN costs : costs[i] \in Nat
        OBVIOUS
    <2>3. QED
        BY <2>1, <2>2
<1> HIDE DEF u, taken
<1>4. taken \in SUBSET (DOMAIN costs) /\ IsFiniteSet(taken)
    BY <1>1, PassTakes
<1>5. UsedInAll(u, start, costs, taken)
    BY <1>1, PassTakes
<1>6. u[Len(costs)] \in Nat /\ Total(Restrict(costs, taken)) \in Nat
    BY <1>1, PassTakes
<1>7. taken # {} \/ start <= ContextBudget => u[Len(costs)] <= ContextBudget
    BY <1>1, PassTakes
<1>8. taken \in SUBSET (DOMAIN items)
    BY <1>3, <1>4
<1>9. /\ fits \in Seq(E) /\ Len(fits) = Cardinality(taken)
      /\ places \in Bijection(DOMAIN fits, taken)
      /\ \A k \in DOMAIN fits : fits[k] = items[places[k]]
    BY <1>2, <1>8, PickedAt
<1> HIDE DEF places
<1>10. \A k \in DOMAIN fits : places[k] \in taken
    BY <1>9 DEF Bijection, Injection
<1>11. /\ Restrict(costs, taken) \in [taken -> Nat]
       /\ \A i \in taken : Restrict(costs, taken)[i] = items[i].cost
    BY <1>3, <1>8 DEF Restrict
<1>12. /\ Costs(fits) \in [DOMAIN fits -> Nat]
       /\ \A k \in DOMAIN fits : Costs(fits)[k] = Restrict(costs, taken)[places[k]]
    <2>1. \A k \in DOMAIN fits : fits[k].cost = Restrict(costs, taken)[places[k]]
                                 /\ fits[k].cost \in Nat
        BY <1>3, <1>8, <1>9, <1>10, <1>11
    <2>2. QED
        BY <2>1 DEF Costs
<1>13. IsFiniteSet(DOMAIN fits)
    <2>1. DOMAIN fits = 1 .. Len(fits) /\ Len(fits) \in Nat
        BY <1>9
    <2>2. QED
        BY <2>1, FirstPlaces
<1>14. Total(Costs(fits)) = Total(Restrict(costs, taken))
    <2> DEFINE f == Costs(fits)
               g == Restrict(costs, taken)
               D == DOMAIN fits
    <2>1. /\ f \in [D -> Nat] /\ g \in [taken -> Nat] /\ IsFiniteSet(D)
          /\ places \in Bijection(D, taken) /\ SameAt(f, g, places)
        BY <1>9, <1>11, <1>12, <1>13 DEF SameAt
    <2> HIDE DEF f, g, D
    <2>2. SameTotal(f, g)
        BY <2>1, TotalMoved
    <2>3. QED
        BY <2>2 DEF SameTotal, f, g
<1>15. ASSUME taken = {} PROVE DOMAIN fits = {}
    <2>1. Len(fits) = 0
        BY <1>9, <1>15, FS_EmptySet
    <2>2. QED
        BY <1>9, <2>1
<1>16. fits # <<>> => DOMAIN fits # {}
    BY <1>9
<1>17. QED
    BY <1>1, <1>5, <1>6, <1>7, <1>14, <1>15, <1>16 DEF UsedInAll, ComesTo, WithinLimit

\* Facts or preferences that may be shown.
LEMMA Candidates ==
    ASSUME NEW items, items \in Seq(Range(items)), Costs(items) \in Seq(Nat), NEW T,
           NEW n \in Nat, NEW some, some = TakeFirst(Those(items, T), n)
    PROVE  some \in Seq(Range(items)) /\ Costs(some) \in Seq(Nat)
<1> DEFINE E == Range(items)
           those == Those(items, T)
<1>1. those = Those(items, T) /\ some = TakeFirst(those, n) /\ items \in Seq(E)
    OBVIOUS
<1> HIDE DEF those, E
<1>2. those \in Seq(E) /\ Range(those) = Range(items) \cap T
    BY <1>1, ThoseOfSet
<1>3. some \in Seq(E) /\ Range(some) \subseteq Range(those)
    BY <1>1, <1>2, TakenFirst
<1>4. Costs(some) \in Seq(Nat)
    BY <1>1, <1>2, <1>3, CostsOfSome
<1>5. QED
    BY <1>3, <1>4 DEF E

FitsBudget(request, context, cost, kept) ==
    \/ kept = {} /\ context.facts = <<>> /\ context.preferences = <<>> /\ ~context.summary
    \/ Tokens[request.text] + Total(Restrict(cost, kept)) + Total(Costs(context.facts))
           + Total(Costs(context.preferences))
           + (IF context.summary THEN request.summary ELSE 0) <= ContextBudget

\* The parts of a context together: within the budget, or only the current message.
LEMMA ContextWithin ==
    ASSUME NEW request, request.text \in Text, request.summary \in Nat,
           request.facts \in Seq(Range(request.facts)), Costs(request.facts) \in Seq(Nat),
           request.preferences \in Seq(Range(request.preferences)),
           Costs(request.preferences) \in Seq(Nat),
           NEW messages, NEW recent \in Seq(Message), recent = Recent(messages, request.text),
           NEW kept, kept = Kept(Tokens[request.text])[recent],
           NEW cost, cost = MessageCosts(recent),
           NEW context, context = BuildContext(request, messages)
    PROVE  /\ context.history = Picked(recent, kept)
           /\ FitsBudget(request, context, cost, kept)
<1> DEFINE start == Tokens[request.text]
           tried == Tried(recent)
           facts == TakeFirst(Those(request.facts,
                        {f \in Range(request.facts) : f.relationship = request.relationship}),
                        MaxFacts)
           preferences == TakeFirst(Those(request.preferences,
                              {f \in Range(request.preferences) :
                                  f.relationship \in {Anyone, request.relationship}}),
                              MaxPreferences)
           factCosts == Costs(facts)
           preferenceCosts == Costs(preferences)
           used1 == After(TextCosts(recent, tried), start)
           used2 == After(factCosts, used1)
           used3 == After(preferenceCosts, used2)
           shownFacts == WhatFits(facts, used1)
           shownPreferences == WhatFits(preferences, used2)
           summary == request.summary > 0 /\ used3 + request.summary <= ContextBudget
<1>1. start \in Nat /\ ContextBudget \in Nat /\ MaxFacts \in Nat /\ MaxPreferences \in Nat
    BY WindowAssumption
<1>2. facts \in Seq(Range(request.facts)) /\ factCosts \in Seq(Nat)
    BY <1>1, Candidates
<1>3. preferences \in Seq(Range(request.preferences)) /\ preferenceCosts \in Seq(Nat)
    BY <1>1, Candidates
<1>4. context = [history |-> Picked(recent, kept), facts |-> shownFacts,
                 preferences |-> shownPreferences, summary |-> summary]
    BY DEF BuildContext
<1>5. /\ tried = Tried(recent) /\ used1 = After(TextCosts(recent, tried), start)
      /\ factCosts = Costs(facts) /\ used2 = After(factCosts, used1)
      /\ shownFacts = WhatFits(facts, used1)
      /\ preferenceCosts = Costs(preferences) /\ used3 = After(preferenceCosts, used2)
      /\ shownPreferences = WhatFits(preferences, used2)
      /\ kept = Kept(start)[recent]
    OBVIOUS
<1> HIDE DEF start, tried, facts, preferences, factCosts, preferenceCosts, used1, used2, used3,
             shownFacts, shownPreferences
<1>6. /\ used1 \in Nat /\ used1 = start + Total(Restrict(cost, kept))
      /\ kept # {} \/ start <= ContextBudget => used1 <= ContextBudget
    <2>1. ComesTo(used1, start, Total(Restrict(cost, kept)))
        BY <1>1, <1>5, KeptMessages
    <2>2. WithinLimit(used1, start, kept)
        BY <1>1, <1>5, KeptMessages
    <2>3. QED
        BY <2>1, <2>2 DEF ComesTo, WithinLimit
<1>7. /\ used2 \in Nat /\ used2 = used1 + Total(Costs(shownFacts)) /\ Total(Costs(shownFacts)) \in Nat
      /\ shownFacts # <<>> \/ used1 <= ContextBudget => used2 <= ContextBudget
    <2>1. ComesTo(used2, used1, Total(Costs(shownFacts))) /\ WithinLimit(used2, used1, DOMAIN shownFacts)
        BY <1>2, <1>5, <1>6, ItemsThatFit
    <2>2. shownFacts # <<>> => DOMAIN shownFacts # {}
        BY <1>2, <1>5, <1>6, ItemsThatFit
    <2>3. QED
        BY <2>1, <2>2 DEF ComesTo, WithinLimit
<1>8. /\ used3 \in Nat /\ used3 = used2 + Total(Costs(shownPreferences))
      /\ Total(Costs(shownPreferences)) \in Nat
      /\ shownPreferences # <<>> \/ used2 <= ContextBudget => used3 <= ContextBudget
    <2>1. /\ ComesTo(used3, used2, Total(Costs(shownPreferences)))
          /\ WithinLimit(used3, used2, DOMAIN shownPreferences)
        BY <1>3, <1>5, <1>7, ItemsThatFit
    <2>2. shownPreferences # <<>> => DOMAIN shownPreferences # {}
        BY <1>3, <1>5, <1>7, ItemsThatFit
    <2>3. QED
        BY <2>1, <2>2 DEF ComesTo, WithinLimit
<1>9. /\ context.history = Picked(recent, kept) /\ context.facts = shownFacts
      /\ context.preferences = shownPreferences /\ context.summary = summary
    BY <1>4
<1> DEFINE extra == IF context.summary THEN request.summary ELSE 0
<1>10. used3 + extra = Tokens[request.text] + Total(Restrict(cost, kept)) + Total(Costs(context.facts))
                           + Total(Costs(context.preferences)) + extra
    BY <1>6, <1>7, <1>8, <1>9 DEF start
<1> SUFFICES FitsBudget(request, context, cost, kept)
    BY <1>9
<1>11. CASE context.summary
    BY <1>9, <1>10, <1>11 DEF FitsBudget
<1>12. CASE ~context.summary
    <2>1. extra = 0
        BY <1>12
    <2>2. CASE used3 <= ContextBudget
        BY <1>8, <1>9, <1>10, <2>1, <2>2 DEF FitsBudget
    <2>3. CASE ~(used3 <= ContextBudget)
        BY <1>6, <1>7, <1>8, <1>9, <1>12, <2>3 DEF FitsBudget
    <2>4. QED
        BY <2>2, <2>3
<1>13. QED
    BY <1>11, <1>12

-----------------------------------------------------------------------------
(* The window *)

LEMMA LargestNumber ==
    ASSUME NEW n \in Nat, NEW numbers \in SUBSET (1 .. n), numbers # {}
    PROVE  Max(numbers) \in numbers /\ \A j \in numbers : j <= Max(numbers)
<1> DEFINE bounds == {k \in Nat : \A j \in numbers : j <= k}
<1>1. n \in bounds
    OBVIOUS
<1>2. PICK k \in bounds : \A j \in bounds : k <= j
    <2>1. bounds \in SUBSET Nat /\ bounds # {}
        BY <1>1
    <2> HIDE DEF bounds
    <2>2. QED
        BY <2>1, FirstNumber
<1>3. k \in numbers
    <2>1. SUFFICES ASSUME k \notin numbers PROVE FALSE
        OBVIOUS
    <2>2. PICK j \in numbers : TRUE
        OBVIOUS
    <2>3. j \in Nat /\ j >= 1 /\ j <= k /\ k \in Nat
        BY <1>2, <2>2
    <2>4. \A i \in numbers : i \in Nat /\ i <= k /\ i # k
        BY <1>2, <2>1
    <2>5. k - 1 \in Nat /\ \A i \in numbers : i <= k - 1
        BY <2>3, <2>4
    <2>6. k - 1 \in bounds /\ ~(k <= k - 1)
        BY <2>3, <2>5
    <2>7. QED
        BY <1>2, <2>6
<1>4. k \in numbers /\ \A j \in numbers : k >= j
    BY <1>2, <1>3
<1>5. \E x \in numbers : \A y \in numbers : x >= y
    BY <1>4
<1>6. Max(numbers) \in numbers /\ \A y \in numbers : Max(numbers) >= y
    BY <1>5 DEF Max
<1>7. QED
    BY <1>6

\* The current message is taken out of the window where it is last; so if it is the
\* last one, what is left is what was there before it.
LEMMA RecentMessages ==
    ASSUME NEW messages \in Seq(Message), NEW text, NEW recent, recent = Recent(messages, text)
    PROVE  /\ recent \in Seq(Message)
           /\ messages # <<>> /\ messages[Len(messages)] = From(text) =>
                  recent = SubSeq(messages, 1, Len(messages) - 1)
<1> DEFINE same == {i \in DOMAIN messages : messages[i] = From(text)}
           last == Max(same)
<1>1. DOMAIN messages = 1 .. Len(messages) /\ Len(messages) \in Nat
    OBVIOUS
<1>2. CASE same = {}
    <2>1. recent = messages
        BY <1>2 DEF Recent
    <2>2. messages # <<>> => Len(messages) \in DOMAIN messages
        OBVIOUS
    <2>3. QED
        BY <1>2, <2>1, <2>2
<1>3. CASE same # {}
    <2>1. recent = SubSeq(messages, 1, last - 1) \o SubSeq(messages, last + 1, Len(messages))
        BY <1>3 DEF Recent, RemoveAt
    <2>2. last \in 1 .. Len(messages) /\ \A i \in same : i <= last
        <3>1. same \in SUBSET (1 .. Len(messages))
            BY <1>1
        <3> HIDE DEF same
        <3>2. QED
            BY <1>1, <1>3, <3>1, LargestNumber
    <2>3. recent \in Seq(Message)
        <3> HIDE DEF last
        <3>1. SubSeq(messages, 1, last - 1) \in Seq(Message)
            BY <1>1, <2>2
        <3>2. SubSeq(messages, last + 1, Len(messages)) \in Seq(Message)
            BY <1>1, <2>2
        <3>3. QED
            BY <2>1, <3>1, <3>2
    <2>4. ASSUME messages # <<>>, messages[Len(messages)] = From(text)
          PROVE  recent = SubSeq(messages, 1, Len(messages) - 1)
        <3>1. Len(messages) \in same
            BY <1>1, <2>4
        <3>2. last = Len(messages)
            <4>1. Len(messages) <= last /\ last <= Len(messages) /\ last \in Nat
                BY <1>1, <2>2, <3>1
            <4>2. QED
                BY <1>1, <4>1
        <3> HIDE DEF last
        <3>3. SubSeq(messages, last + 1, Len(messages)) = <<>>
            BY <1>1, <3>2
        <3>4. SubSeq(messages, 1, last - 1) \in Seq(Message)
            BY <1>1, <2>2
        <3>5. QED
            BY <2>1, <3>2, <3>3, <3>4
    <2>5. QED
        BY <2>3, <2>4
<1>4. QED
    BY <1>2, <1>3

LEMMA LastMessages ==
    ASSUME NEW E, NEW s \in Seq(E), NEW last, last = LastOf(s, Window)
    PROVE  /\ last \in Seq(E) /\ Len(last) <= Window
           /\ Len(s) <= Window => last = s
           /\ s # <<>> => last # <<>> /\ last[Len(last)] = s[Len(s)]
<1> DEFINE first == IF Len(s) < Window THEN 1 ELSE Len(s) - Window + 1
<1>1. Len(s) \in Nat /\ Window \in Nat /\ Window >= 1
    BY WindowAssumption
<1>2. last = SubSeq(s, first, Len(s))
    BY DEF LastOf
<1>3. first \in Nat /\ first >= 1 /\ first <= Len(s) + 1 /\ Len(s) - first + 1 <= Window
      /\ (Len(s) <= Window => first = 1) /\ (Len(s) >= 1 => first <= Len(s))
    BY <1>1
<1> HIDE DEF first
<1>4. last \in Seq(E) /\ Len(last) = Len(s) - first + 1
    BY <1>1, <1>2, <1>3
<1>5. \A i \in 1 .. Len(last) : last[i] = s[first + i - 1]
    BY <1>1, <1>2, <1>3, <1>4
<1>6. ASSUME Len(s) <= Window PROVE last = s
    <2>1. first = 1 /\ Len(last) = Len(s)
        BY <1>1, <1>3, <1>4, <1>6
    <2>2. \A i \in 1 .. Len(s) : last[i] = s[i]
        BY <1>5, <2>1
    <2>3. last = [i \in 1 .. Len(s) |-> last[i]] /\ s = [i \in 1 .. Len(s) |-> s[i]]
        BY <1>4, <2>1
    <2>4. [i \in 1 .. Len(s) |-> last[i]] = [i \in 1 .. Len(s) |-> s[i]]
        BY <2>2
    <2>5. QED
        BY <2>3, <2>4
<1>7. ASSUME s # <<>> PROVE last # <<>> /\ last[Len(last)] = s[Len(s)]
    <2>1. Len(s) >= 1
        BY <1>1, <1>7
    <2>2. Len(last) >= 1 /\ first + Len(last) - 1 = Len(s)
        BY <1>1, <1>3, <1>4, <2>1
    <2>3. last[Len(last)] = s[first + Len(last) - 1]
        BY <1>4, <1>5, <2>2
    <2>4. last # <<>>
        BY <2>2
    <2>5. QED
        BY <2>2, <2>3, <2>4
<1>8. QED
    BY <1>1, <1>3, <1>4, <1>6, <1>7

=============================================================================

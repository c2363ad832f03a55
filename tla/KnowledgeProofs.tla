--------------------------- MODULE KnowledgeProofs ---------------------------
(***************************************************************************)
(* For all libraries, searches, verdicts of a reranker and limits: a       *)
(* candidate that no search ranks behind another stays before it, a topic  *)
(* goes without evidence only if it must, and the prompt holds all that    *)
(* the verdict is about.  For all plans of a model, all policies and       *)
(* whatever the context holds: a finished plan honours the policies of the *)
(* skill.  For all conversations and budgets: a context keeps within its   *)
(* budget, and what states a boundary has its part first.  And what        *)
(* IngestionProofs shows of the building of a corpus holds of the          *)
(* specification that the run knowledge checks.                            *)
(***************************************************************************)
EXTENDS Knowledge, IngestionProofs, ContextWindowProofs

-----------------------------------------------------------------------------
(* Scores *)

\* A share is a number, and more for a better rank.
LEMMA Shares ==
    ASSUME NEW weight \in {45 * 8, 45 * 10, 55 * 8, 55 * 10}, NEW n \in Nat, K \in Nat,
           (K + n) * (K + n) <= 8 * 45 * Fine
    PROVE  /\ Share(weight, n) \in Nat
           /\ n # 0 => Share(weight, n) > 0
           /\ \A m \in Nat : m # 0 /\ m < n => Share(weight, n) < Share(weight, m)
<1> DEFINE w == weight * Fine
           square == 8 * 45 * Fine
<1>1. w \in Nat /\ square \in Nat /\ square <= w
    <2>1. Fine \in Nat
        BY DEF Fine
    <2>2. QED
        BY <2>1
<1>2. \A m \in Nat : m # 0 => K + m \in Nat /\ K + m > 0
    OBVIOUS
<1>3. \A m \in Nat : m # 0 => Share(weight, m) = w \div (K + m)
    BY DEF Share
<1>4. Share(weight, 0) = 0
    BY DEF Share
<1> HIDE DEF w, square
<1>5. \A a \in Nat : a > 0 => w \div a \in Nat
    BY <1>1
<1>6. \A a, b \in Nat : 0 < b /\ b < a /\ a * a <= w => w \div a < w \div b
    <2>1. SUFFICES ASSUME NEW a \in Nat, NEW b \in Nat, 0 < b, b < a, a * a <= w
                   PROVE  w \div a < w \div b
        OBVIOUS
    <2> DEFINE q == w \div a
    <2>2. q \in Nat /\ a * q <= w /\ w < a * q + a
        BY <1>1, <2>1
    <2>3. q >= a
        <3>1. CASE q + 1 <= a
            <4>1. a * (q + 1) <= a * a
                BY <2>1, <2>2, <3>1
            <4>2. QED
                BY <1>1, <2>1, <2>2, <4>1
        <3>2. QED
            BY <2>1, <2>2, <3>1
    <2>4. b * (q + 1) <= w
        <3>1. b * (q + 1) <= (a - 1) * (q + 1)
            BY <2>1, <2>2
        <3>2. (a - 1) * (q + 1) = a * q + a - q - 1
            BY <2>1, <2>2
        <3>3. a * q + a - q - 1 <= a * q
            BY <2>1, <2>2, <2>3
        <3>4. QED
            BY <1>1, <2>1, <2>2, <3>1, <3>2, <3>3
    <2> HIDE DEF q
    <2>5. q + 1 <= w \div b
        BY <1>1, <2>1, <2>2, <2>4
    <2>6. w \div b \in Nat
        BY <1>5, <2>1
    <2>7. q < w \div b
        BY <2>2, <2>5, <2>6
    <2>8. QED
        BY <2>7 DEF q
<1>7. (K + n) * (K + n) <= w
    BY <1>1, <1>2 DEF square
<1>8. Share(weight, n) \in Nat
    BY <1>2, <1>3, <1>4, <1>5
<1>9. ASSUME n # 0 PROVE Share(weight, n) > 0
    <2> DEFINE a == K + n
    <2>1. a \in Nat /\ a > 0 /\ a * a <= w
        BY <1>2, <1>7, <1>9
    <2> HIDE DEF a
    <2>2. a * 1 <= a * a
        BY <2>1
    <2>3. a <= w
        BY <1>1, <2>1, <2>2
    <2>4. w \div a >= 1
        BY <1>1, <2>1, <2>3
    <2>5. w \div a \in Nat
        BY <1>5, <2>1
    <2>6. QED
        BY <1>3, <1>9, <2>4, <2>5 DEF a
<1>10. ASSUME NEW m \in Nat, m # 0, m < n PROVE Share(weight, n) < Share(weight, m)
    <2>1. n # 0 /\ K + m \in Nat /\ K + n \in Nat /\ 0 < K + m /\ K + m < K + n
        BY <1>10, <1>2
    <2>2. w \div (K + n) < w \div (K + m)
        BY <1>6, <1>7, <2>1
    <2>3. QED
        BY <1>3, <1>10, <2>1, <2>2
<1>11. QED
    BY <1>8, <1>9, <1>10

\* In one list: a better rank, a larger share.
LEMMA SharesOfList ==
    ASSUME NEW weight \in {45 * 8, 45 * 10, 55 * 8, 55 * 10}, NEW E, NEW list \in Seq(E), K \in Nat,
           (K + Len(list)) * (K + Len(list)) <= 8 * 45 * Fine, NEW a, NEW b
    PROVE  /\ Share(weight, RankIn(list, a)) \in Nat
           /\ NoWorse(list, a, b) => Share(weight, RankIn(list, b)) <= Share(weight, RankIn(list, a))
           /\ NoWorse(list, a, b) /\ ~NoWorse(list, b, a) =>
                  Share(weight, RankIn(list, b)) < Share(weight, RankIn(list, a))
<1>1. \A c : RankIn(list, c) \in Nat /\ RankIn(list, c) <= Len(list)
    <2>1. \A c : c \in Range(list) => \E i \in DOMAIN list : list[i] = c
        BY DEF Range
    <2>2. \A c : RankIn(list, c) \in DOMAIN list \cup {0}
        BY <2>1 DEF RankIn
    <2>3. DOMAIN list = 1 .. Len(list) /\ Len(list) \in Nat
        OBVIOUS
    <2>4. QED
        BY <2>2, <2>3
<1> DEFINE r == RankIn(list, a)
           t == RankIn(list, b)
           bound == 8 * 45 * Fine
<1>2. r \in Nat /\ t \in Nat /\ r <= Len(list) /\ t <= Len(list) /\ Len(list) \in Nat
    BY <1>1
<1>3. bound \in Nat /\ (K + Len(list)) * (K + Len(list)) <= bound
    BY DEF Fine
<1>4. NoWorse(list, a, b) <=> t = 0 \/ (r # 0 /\ r <= t)
    BY DEF NoWorse
<1>5. NoWorse(list, b, a) <=> r = 0 \/ (t # 0 /\ t <= r)
    BY DEF NoWorse
<1> HIDE DEF r, t, bound
<1>6. ASSUME NEW n \in Nat, n <= Len(list) PROVE (K + n) * (K + n) <= bound
    <2> DEFINE x == K + n
               y == K + Len(list)
    <2>1. x \in Nat /\ y \in Nat /\ x <= y /\ y * y <= bound
        BY <1>2, <1>3, <1>6
    <2> HIDE DEF x, y
    <2>2. x * x <= x * y /\ x * y <= y * y /\ x * x \in Nat /\ x * y \in Nat /\ y * y \in Nat
        BY <2>1
    <2>3. x * x <= bound
        BY <1>3, <2>1, <2>2
    <2>4. QED
        BY <2>3 DEF x
<1>7. /\ Share(weight, r) \in Nat /\ r # 0 => Share(weight, r) > 0
      /\ \A m \in Nat : m # 0 /\ m < r => Share(weight, r) < Share(weight, m)
    BY <1>2, <1>6, Shares DEF bound
<1>8. /\ Share(weight, t) \in Nat
      /\ \A m \in Nat : m # 0 /\ m < t => Share(weight, t) < Share(weight, m)
    BY <1>2, <1>6, Shares DEF bound
<1>9. t = 0 => Share(weight, t) = 0
    BY DEF Share
<1>10. Share(weight, r) \in Nat
    BY <1>2, <1>6, Shares DEF bound
<1>11. NoWorse(list, a, b) => Share(weight, t) <= Share(weight, r)
    BY <1>2, <1>4, <1>7, <1>8, <1>9, <1>10
<1>12. NoWorse(list, a, b) /\ ~NoWorse(list, b, a) => Share(weight, t) < Share(weight, r)
    BY <1>2, <1>4, <1>5, <1>7, <1>8, <1>9, <1>10
<1>13. QED
    BY <1>10, <1>11, <1>12 DEF r, t

\* What is known of a case.
LEMMA CaseFacts ==
    ASSUME case \in Cases
    PROVE  /\ case.lexical \in Seq(Seq(Range(Chunk))) /\ case.vector \in Seq(Seq(Range(Chunk)))
           /\ DOMAIN case.vector = DOMAIN case.lexical /\ IsFiniteSet(DOMAIN case.lexical)
           /\ \A q \in DOMAIN case.lexical :
                 /\ Lexical[q] \in Seq(Range(Chunk))
                 /\ (K + Len(Lexical[q])) * (K + Len(Lexical[q])) <= 8 * 45 * Fine
                 /\ Vector[q] \in Seq(Range(Chunk))
                 /\ (K + Len(Vector[q])) * (K + Len(Vector[q])) <= 8 * 45 * Fine
<1>1. CaseOK(case) /\ K \in Nat
    BY RankingAssumption
<1>2. case.lexical \in Seq(Seq(Range(Chunk))) /\ case.vector \in Seq(Seq(Range(Chunk)))
    BY <1>1 DEF CaseOK
<1>3. Len(case.lexical) = Len(case.vector)
    BY <1>1 DEF CaseOK
<1>4. DOMAIN case.vector = DOMAIN case.lexical /\ DOMAIN case.lexical = 1 .. Len(case.lexical)
    BY <1>2, <1>3
<1>5. IsFiniteSet(DOMAIN case.lexical)
    BY <1>2, <1>4, FirstPlaces
<1>6. ASSUME NEW list \in Seq(Range(Chunk)), (K + Len(list)) * (K + Len(list)) <= 8 * 45 * Fine
      PROVE  /\ Healthy(list) \in Seq(Range(Chunk))
             /\ (K + Len(Healthy(list))) * (K + Len(Healthy(list))) <= 8 * 45 * Fine
    <2> DEFINE x == K + Len(Healthy(list))
               y == K + Len(list)
               bound == 8 * 45 * Fine
    <2>1. Healthy(list) \in Seq(Range(Chunk)) /\ Len(Healthy(list)) <= Len(list)
        BY ThoseOfSet DEF Healthy
    <2>2. x \in Nat /\ y \in Nat /\ x <= y
        BY <1>1, <2>1
    <2>3. bound \in Nat /\ y * y <= bound
        BY <1>6 DEF Fine
    <2> HIDE DEF x, y, bound
    <2>4. x * x <= x * y /\ x * y <= y * y /\ x * x \in Nat /\ x * y \in Nat /\ y * y \in Nat
        BY <2>2
    <2>5. x * x <= bound
        BY <2>3, <2>4
    <2>6. QED
        BY <2>1, <2>5 DEF x, bound
<1>7. ASSUME NEW q \in DOMAIN case.lexical
      PROVE  /\ case.lexical[q] \in Seq(Range(Chunk)) /\ case.vector[q] \in Seq(Range(Chunk))
             /\ (K + Len(case.lexical[q])) * (K + Len(case.lexical[q])) <= 8 * 45 * Fine
             /\ (K + Len(case.vector[q])) * (K + Len(case.vector[q])) <= 8 * 45 * Fine
    <2>1. case.lexical[q] \in Seq(Range(Chunk)) /\ case.vector[q] \in Seq(Range(Chunk))
        BY <1>2, <1>4
    <2>2. \A list \in {case.lexical[q], case.vector[q]} :
              (K + Len(list)) * (K + Len(list)) <= 8 * 45 * Fine
        BY <1>1 DEF CaseOK
    <2>3. QED
        BY <2>1, <2>2
<1>8. \A q \in DOMAIN case.lexical : /\ Lexical[q] = Healthy(case.lexical[q])
                                     /\ Vector[q] = Healthy(case.vector[q])
    BY <1>4 DEF Lexical, Vector
<1>9. QED
    BY <1>2, <1>4, <1>5, <1>6, <1>7, <1>8

\* Over all queries: one who is nowhere behind, and somewhere before, scores more.
LEMMA FusedRespectsRanks ==
    ASSUME case \in Cases, NEW a, NEW b
    PROVE  /\ Fused(a) \in Nat
           /\ NoWorseAnywhere(a, b) /\ ~NoWorseAnywhere(b, a) => Fused(b) < Fused(a)
<1> DEFINE Q == DOMAIN case.lexical
           f == [q \in Q |-> FromQuery(q, a)]
           g == [q \in Q |-> FromQuery(q, b)]
           weight(q) == IF q = 1 THEN 10 ELSE 8
<1>1. IsFiniteSet(Q) /\ K \in Nat
    BY CaseFacts, RankingAssumption
<1>2. ASSUME NEW q \in Q, NEW x, NEW y
      PROVE  /\ FromQuery(q, x) \in Nat
             /\ NoWorse(Lexical[q], x, y) /\ NoWorse(Vector[q], x, y) =>
                  /\ FromQuery(q, y) <= FromQuery(q, x)
                  /\ ~NoWorse(Lexical[q], y, x) \/ ~NoWorse(Vector[q], y, x) =>
                         FromQuery(q, y) < FromQuery(q, x)
    <2> DEFINE lex(z) == Share(45 * weight(q), RankIn(Lexical[q], z))
               vec(z) == Share(55 * weight(q), RankIn(Vector[q], z))
    <2>1. /\ 45 * weight(q) \in {45 * 8, 45 * 10, 55 * 8, 55 * 10}
          /\ 55 * weight(q) \in {45 * 8, 45 * 10, 55 * 8, 55 * 10}
        OBVIOUS
    <2>2. FromQuery(q, x) = lex(x) + vec(x) /\ FromQuery(q, y) = lex(y) + vec(y)
        BY DEF FromQuery
    <2>3. /\ Lexical[q] \in Seq(Range(Chunk))
          /\ (K + Len(Lexical[q])) * (K + Len(Lexical[q])) <= 8 * 45 * Fine
          /\ Vector[q] \in Seq(Range(Chunk))
          /\ (K + Len(Vector[q])) * (K + Len(Vector[q])) <= 8 * 45 * Fine
        BY CaseFacts
    <2> HIDE DEF weight
    <2>4. /\ lex(x) \in Nat /\ lex(y) \in Nat
          /\ NoWorse(Lexical[q], x, y) => lex(y) <= lex(x)
          /\ NoWorse(Lexical[q], x, y) /\ ~NoWorse(Lexical[q], y, x) => lex(y) < lex(x)
        BY <1>1, <2>1, <2>3, SharesOfList
    <2>5. /\ vec(x) \in Nat /\ vec(y) \in Nat
          /\ NoWorse(Vector[q], x, y) => vec(y) <= vec(x)
          /\ NoWorse(Vector[q], x, y) /\ ~NoWorse(Vector[q], y, x) => vec(y) < vec(x)
        BY <1>1, <2>1, <2>3, SharesOfList
    <2> HIDE DEF lex, vec
    <2>6. QED
        BY <2>2, <2>4, <2>5
<1>3. f \in [Q -> Nat] /\ g \in [Q -> Nat]
    BY <1>2
<1>4. Fused(a) = Total(f) /\ Fused(b) = Total(g)
    BY DEF Fused
<1>5. Fused(a) \in Nat
    BY <1>1, <1>3, <1>4, TotalIsWeight
<1>6. ASSUME NoWorseAnywhere(a, b), ~NoWorseAnywhere(b, a) PROVE Fused(b) < Fused(a)
    <2>1. \A q \in Q : g[q] <= f[q]
        BY <1>2, <1>6 DEF NoWorseAnywhere
    <2>2. \E q \in Q : g[q] < f[q]
        BY <1>2, <1>6 DEF NoWorseAnywhere
    <2> HIDE DEF f, g, Q
    <2>3. QED
        BY <1>1, <1>3, <1>4, <2>1, <2>2, TotalGrows
<1>7. QED
    BY <1>5, <1>6

-----------------------------------------------------------------------------
(* Types *)

Item(S) == [chunk : S, context : Seq(DOMAIN Context)]
ToFit(S) == [part : {"chunk", "parent", "neighbor"}, chunk : S, context : Seq(DOMAIN Context)]

\* What a stage has not begun with is empty.
Searching == {"idle", "fuse", "rerank", "resolve"}
Selecting == Searching \cup {"select", "expand"}

RankTypes ==
    /\ step \in Selecting \cup {"fit", "core", "rest", "assess", "assemble", "prompt", "done"}
    /\ step # "idle" => case \in Cases
    /\ DOMAIN score \subseteq Range(Chunk) /\ \A c \in DOMAIN score : score[c] \in Int
    /\ ranked \in Seq(DOMAIN score)
    /\ eligible \in Seq(Range(ranked)) /\ selected \in Seq(Range(ranked))
    /\ Len(selected) <= SelectLimit
    /\ expanded \in Seq(Item(Range(ranked))) /\ evidence \in Seq(Item(Range(ranked)))
    /\ prompt \in Seq(Item(Range(ranked)))
    /\ step \in {"core", "rest"} => todo \in Seq(ToFit(Range(ranked)))
    /\ step = "prompt" => todo \in Seq(Item(Range(ranked)))
    /\ step \notin {"core", "rest", "prompt"} => todo = <<>>
    /\ used \in Nat
    /\ step \in {"idle", "fuse"} => ranked = <<>>
    /\ step \in Searching => eligible = <<>> /\ selected = <<>>
    /\ step \in Selecting => expanded = <<>> /\ evidence = <<>> /\ prompt = <<>> /\ used = 0

LEMMA Tuples ==
    /\ \A x \in Int : <<x>> \in [1 .. 1 -> Int]
    /\ \A x, y \in Int : <<x, y>> \in [1 .. 2 -> Int]
    /\ \A x, y, z \in Int : <<x, y, z>> \in [1 .. 3 -> Int]
<1>1. \A x \in Int : <<x>> \in [1 .. 1 -> Int]
    OBVIOUS
<1>2. \A x, y \in Int : <<x, y>> \in [1 .. 2 -> Int]
    OBVIOUS
<1>3. \A x, y, z \in Int : <<x, y, z>> \in [1 .. 3 -> Int]
    OBVIOUS
<1>4. QED
    BY <1>1, <1>2, <1>3

LEMMA IfIsNumber == \A condition : If(condition) \in Int
BY DEF If

\* What Fuse does: the list has found candidates, none before one with more points.
LEMMA FuseFacts ==
    ASSUME RankTypes, Fuse
    PROVE  /\ step = "fuse" /\ step' = "rerank" /\ case \in Cases /\ case' = case
           /\ Found \subseteq Range(Chunk)
           /\ DOMAIN score' = Found /\ \A c \in DOMAIN score' : score'[c] \in Int
           /\ ranked' \in Seq(Found)
           /\ \A i, j \in DOMAIN ranked' : i < j => Fused(ranked'[j]) <= Fused(ranked'[i])
<1>1. /\ step = "fuse" /\ step' = "rerank" /\ case \in Cases /\ case' = case
      /\ FusionLimit \in Nat
    BY RankingAssumption DEF Fuse, RankTypes
<1>4. Found \subseteq Range(Chunk)
    <2>1. \A q \in DOMAIN case.lexical : Lexical[q] \in Seq(Range(Chunk)) /\ Vector[q] \in Seq(Range(Chunk))
        BY <1>1, CaseFacts
    <2>2. \A q \in DOMAIN case.lexical : /\ Range(Lexical[q]) \subseteq Range(Chunk)
                                         /\ Range(Vector[q]) \subseteq Range(Chunk)
        BY <2>1, ElementsOf
    <2>3. QED
        BY <2>2 DEF Found
<1>5. DOMAIN score' = Found /\ \A c \in DOMAIN score' : score'[c] \in Int
    BY <1>1, FusedRespectsRanks DEF Fuse
<1> DEFINE those == Those(Chunk, Found)
           key == [c \in Found |-> <<-Fused(c), -case.preferred[c], Ids[c]>>]
           sorted == Sorted(those, key)
<1>6. those \in Seq(Range(Chunk)) /\ Range(those) = Found
    <2>1. Chunk \in Seq(Range(Chunk))
        BY RankingAssumption
    <2>2. those \in Seq(Range(Chunk)) /\ Range(those) = Range(Chunk) \cap Found
        BY <2>1, ThoseOfSet
    <2>3. QED
        BY <1>4, <2>2
<1>7. those \in Seq(Found)
    BY <1>6, ElementsOf
<1>8. Keys(those, key, 3)
    <2>1. \A c \in Found : Ids[c] \in Int
        <3>1. Chunk \in Seq(Range(Chunk))
            BY RankingAssumption
        <3>2. \A c \in Range(Chunk) : \E i \in DOMAIN Chunk : Chunk[i] = c
            BY DEF Range
        <3>3. \A c \in Range(Chunk) : Ids[c] \in DOMAIN Chunk
            BY <3>2 DEF Ids
        <3>4. QED
            BY <1>4, <3>1, <3>3
    <2>2. \A c \in Found : -Fused(c) \in Int
        BY <1>1, FusedRespectsRanks
    <2>3. \A c \in Found : -case.preferred[c] \in Int
        <3>1. CaseOK(case)
            BY <1>1, RankingAssumption
        <3>2. \A c \in Range(Chunk) : case.preferred[c] \in Nat
            BY <3>1 DEF CaseOK
        <3>3. QED
            BY <1>4, <3>2
    <2>4. \A c \in Found : key[c] \in [1 .. 3 -> Int]
        BY <2>1, <2>2, <2>3, Tuples
    <2>5. \A i \in DOMAIN those : those[i] \in Found
        BY <1>7
    <2> HIDE DEF those, key
    <2>6. QED
        BY <2>4, <2>5 DEF Keys
<1>9. \A a, b \in Found : Before(key[a], key[b]) \/ key[a] = key[b] => Fused(b) <= Fused(a)
    <2>1. SUFFICES ASSUME NEW a \in Found, NEW b \in Found, Before(key[a], key[b]) \/ key[a] = key[b]
                   PROVE  Fused(b) <= Fused(a)
        OBVIOUS
    <2>2. DOMAIN key[a] = 1 .. 3 /\ key[a][1] = -Fused(a) /\ key[b][1] = -Fused(b)
        OBVIOUS
    <2>3. Fused(a) \in Nat /\ Fused(b) \in Nat
        BY <1>1, FusedRespectsRanks
    <2> HIDE DEF key
    <2>4. CASE key[a] = key[b]
        BY <2>2, <2>3, <2>4
    <2>5. CASE Before(key[a], key[b])
        <3>1. PICK i \in 1 .. 3 : key[a][i] < key[b][i] /\ \A j \in 1 .. i - 1 : key[a][j] = key[b][j]
            BY <2>2, <2>5 DEF Before
        <3>2. CASE i = 1
            BY <2>2, <2>3, <3>1, <3>2
        <3>3. CASE i # 1
            <4>1. 1 \in 1 .. i - 1
                BY <3>1, <3>3
            <4>2. key[a][1] = key[b][1]
                BY <3>1, <4>1
            <4>3. QED
                BY <2>2, <2>3, <4>2
        <3>4. QED
            BY <3>2, <3>3
    <2>6. QED
        BY <2>1, <2>4, <2>5
<1> HIDE DEF key, those
<1>10. /\ sorted \in Seq(Found)
       /\ \A i, j \in DOMAIN sorted :
             i < j => Before(key[sorted[i]], key[sorted[j]]) \/ key[sorted[i]] = key[sorted[j]]
    BY <1>7, <1>8, SortedIsInOrder DEF GoingUp
<1> HIDE DEF sorted
<1>11. ranked' = TakeFirst(sorted, FusionLimit)
    BY DEF Fuse, sorted, key, those
<1>12. /\ ranked' \in Seq(Found) /\ (DOMAIN ranked') \subseteq (DOMAIN sorted)
       /\ \A i \in DOMAIN ranked' : ranked'[i] = sorted[i]
    <2> DEFINE first == TakeFirst(sorted, FusionLimit)
    <2>1. first \in Seq(Found)
        BY <1>1, <1>10, TakenFirst
    <2>2. (DOMAIN first) \subseteq (DOMAIN sorted)
        BY <1>1, <1>10, TakenFirst
    <2>3. \A i \in DOMAIN first : first[i] = sorted[i]
        BY <1>1, <1>10, TakenFirst
    <2> HIDE DEF first
    <2>4. ranked' = first
        BY <1>11 DEF first
    <2>5. QED
        BY <2>1, <2>2, <2>3, <2>4
<1>13. \A i \in DOMAIN ranked' : ranked'[i] \in Found
    BY <1>12
<1>14. \A i, j \in DOMAIN ranked' : i < j => Fused(ranked'[j]) <= Fused(ranked'[i])
    BY <1>9, <1>10, <1>12, <1>13
<1>15. QED
    BY <1>1, <1>4, <1>5, <1>12, <1>14

LEMMA FuseTypes ==
    ASSUME RankTypes, Fuse
    PROVE  RankTypes'
<1>1. UNCHANGED <<case, eligible, selected, expanded, evidence, todo, used, prompt>>
    BY DEF Fuse, fitting
<1>2. /\ eligible = <<>> /\ selected = <<>> /\ expanded = <<>> /\ evidence = <<>>
      /\ prompt = <<>> /\ used = 0 /\ todo = <<>> /\ Len(selected) <= SelectLimit
    BY FuseFacts DEF RankTypes, Searching, Selecting
<1>3. QED
    BY <1>1, <1>2, FuseFacts DEF RankTypes, Searching, Selecting

LEMMA RerankTypes ==
    ASSUME RankTypes, Rerank
    PROVE  RankTypes'
<1>1. step = "rerank" /\ step' = "resolve" /\ case \in Cases /\ RerankLimit \in Nat
    BY RankingAssumption DEF Rerank, RankTypes
<1>2. UNCHANGED <<case, eligible, selected, expanded, evidence, todo, used, prompt>>
    BY DEF Rerank, fitting
<1>3. /\ eligible = <<>> /\ selected = <<>> /\ expanded = <<>> /\ evidence = <<>>
      /\ prompt = <<>> /\ used = 0 /\ todo = <<>> /\ Len(selected) <= SelectLimit
    BY <1>1 DEF RankTypes, Searching, Selecting
<1>4. /\ ranked \in Seq(DOMAIN score) /\ DOMAIN score \subseteq Range(Chunk)
      /\ \A c \in DOMAIN score : score[c] \in Int
    BY DEF RankTypes
<1> DEFINE kept == TakeFirst(ranked, RerankLimit)
           key == [c \in Range(kept) |-> <<-case.scores[c]>>]
           sorted == Sorted(kept, key)
<1>5. kept \in Seq(DOMAIN score) /\ kept \in Seq(Range(kept)) /\ Range(kept) \subseteq Range(Chunk)
    <2>1. kept \in Seq(DOMAIN score)
        BY <1>1, <1>4, TakenFirst
    <2> HIDE DEF kept
    <2>2. Range(kept) \subseteq DOMAIN score /\ kept \in Seq(Range(kept))
        BY <2>1, ElementsOf
    <2>3. QED
        BY <1>4, <2>1, <2>2
<1>6. CASE DOMAIN case.scores = {}
    <2>1. ranked' = kept /\ score' = score
        BY <1>6 DEF Rerank
    <2> HIDE DEF kept
    <2>2. QED
        BY <1>1, <1>2, <1>3, <1>4, <1>5, <2>1 DEF RankTypes, Searching, Selecting
<1>7. CASE DOMAIN case.scores # {}
    <2>1. ranked' = sorted /\ score' = [c \in Range(kept) |-> case.scores[c] * (One \div 100)]
        BY <1>7 DEF Rerank
    <2>2. case.scores \in [Range(Chunk) -> Int]
        <3>1. case.scores \in [{} -> Int] \cup [Range(Chunk) -> Int]
            BY <1>1, RankingAssumption DEF CaseOK
        <3>2. QED
            BY <1>7, <3>1
    <2> HIDE DEF kept
    <2>3. \A c \in Range(kept) : case.scores[c] \in Int
        BY <1>5, <2>2
    <2>4. One \div 100 \in Int
        <3>1. Fine \in Nat
            BY DEF Fine
        <3>2. One \in Nat
            BY <3>1 DEF One
        <3>3. QED
            BY <3>2
    <2>5. DOMAIN score' = Range(kept) /\ \A c \in DOMAIN score' : score'[c] \in Int
        BY <2>1, <2>3, <2>4
    <2>6. Keys(kept, key, 1)
        <3>1. \A c \in Range(kept) : key[c] \in [1 .. 1 -> Int]
            BY <2>3, Tuples
        <3>2. \A i \in DOMAIN kept : kept[i] \in Range(kept)
            BY <1>5
        <3> HIDE DEF key
        <3>3. QED
            BY <3>1, <3>2 DEF Keys
    <2> HIDE DEF key
    <2>7. sorted \in Seq(Range(kept))
        BY <1>5, <2>6, ElementsSorted
    <2> HIDE DEF sorted
    <2>8. QED
        BY <1>1, <1>2, <1>3, <1>5, <2>1, <2>5, <2>7 DEF RankTypes, Searching, Selecting
<1>8. QED
    BY <1>6, <1>7

LEMMA ResolveFacts ==
    ASSUME RankTypes, Resolve
    PROVE  /\ ranked' \in Seq(DOMAIN score) /\ eligible' \in Seq(Range(ranked'))
           /\ Range(eligible') = {c \in Range(ranked') : ~Barred(c)}
<1> DEFINE kept == Those(ranked, Range(ranked) \ Suppressed)
<1>1. ranked' = kept /\ eligible' = Those(ranked', {c \in Range(ranked') : ~Barred(c)})
    BY DEF Resolve
<1>2. kept \in Seq(DOMAIN score)
    BY ThoseOfSet DEF RankTypes
<1> HIDE DEF kept
<1>3. ranked' \in Seq(Range(ranked'))
    BY <1>1, <1>2, ElementsOf
<1>4. /\ eligible' \in Seq(Range(ranked'))
      /\ Range(eligible') = Range(ranked') \cap {c \in Range(ranked') : ~Barred(c)}
    BY <1>1, <1>3, ThoseOfSet
<1>5. QED
    BY <1>1, <1>2, <1>4

LEMMA ResolveTypes ==
    ASSUME RankTypes, Resolve
    PROVE  RankTypes'
<1>1. step = "resolve" /\ step' = "select"
    BY DEF Resolve
<1>2. UNCHANGED <<case, score, selected, expanded, evidence, todo, used, prompt>>
    BY DEF Resolve, fitting
<1>3. /\ selected = <<>> /\ expanded = <<>> /\ evidence = <<>>
      /\ prompt = <<>> /\ used = 0 /\ todo = <<>> /\ Len(selected) <= SelectLimit
    BY <1>1 DEF RankTypes, Searching, Selecting
<1>4. QED
    BY <1>1, <1>2, <1>3, ResolveFacts DEF RankTypes, Searching, Selecting

\* The candidate that select_diverse takes adds as many required topics as any.
LEMMA BestIsTaken ==
    ASSUME RankTypes, Select
    PROVE  \E best \in Range(eligible) :
              /\ eligible' \in Seq(Range(eligible)) /\ Range(eligible) = Range(eligible') \cup {best}
              /\ selected' = IF DocumentFull(best) \/ Repeats(best) THEN selected
                             ELSE Append(selected, best)
              /\ \A c \in Range(eligible) : Adds(c) <= Adds(best)
<1> DEFINE key == [c \in Range(eligible) |-> <<-Adds(c), If(Of(c).kind = "example"), -score[c]>>]
           order == Sorted(eligible, key)
<1>1. /\ eligible # <<>> /\ eligible' = Tail(order)
      /\ selected' = IF DocumentFull(Head(order)) \/ Repeats(Head(order)) THEN selected
                     ELSE Append(selected, Head(order))
    BY DEF Select
<1>2. /\ eligible \in Seq(Range(eligible))
      /\ \A c \in Range(eligible) : score[c] \in Int
    <2>1. /\ eligible \in Seq(Range(ranked)) /\ ranked \in Seq(DOMAIN score)
          /\ \A c \in DOMAIN score : score[c] \in Int
        BY DEF RankTypes
    <2>2. eligible \in Seq(Range(eligible)) /\ Range(eligible) \subseteq DOMAIN score
        BY <2>1, ElementsOf
    <2>3. QED
        BY <2>1, <2>2
<1>3. \A c \in Range(eligible) : Adds(c) \in Nat
    <2>1. case \in Cases
        BY DEF Select, RankTypes
    <2>2. case.required \subseteq TopicId /\ IsFiniteSet(TopicId)
        BY <2>1, RankingAssumption DEF CaseOK
    <2>3. \A c : (Of(c).topics \cap case.required) \ Covered \in SUBSET TopicId
        BY <2>2
    <2>4. \A T \in SUBSET TopicId : Cardinality(T) \in Nat
        BY <2>2, FS_Subset, FS_CardinalityType
    <2>5. QED
        BY <2>3, <2>4 DEF Adds
<1>4. \A c \in Range(eligible) : key[c] = <<-Adds(c), If(Of(c).kind = "example"), -score[c]>>
    OBVIOUS
<1>5. \A c \in Range(eligible) : key[c] \in [1 .. 3 -> Int] /\ key[c][1] = -Adds(c)
    BY <1>2, <1>3, <1>4, IfIsNumber, Tuples
<1>6. Keys(eligible, key, 3)
    <2>1. \A i \in DOMAIN eligible : eligible[i] \in Range(eligible)
        BY <1>2
    <2> HIDE DEF key
    <2>2. QED
        BY <1>5, <2>1 DEF Keys
<1> HIDE DEF key
<1>7. /\ order \in Seq(Range(eligible)) /\ Len(order) = Len(eligible) /\ Range(order) = Range(eligible)
      /\ \A i, j \in DOMAIN order :
            i < j => Before(key[order[i]], key[order[j]]) \/ key[order[i]] = key[order[j]]
    BY <1>2, <1>6, ElementsSorted, SortedIsInOrder DEF GoingUp
<1> HIDE DEF order
<1>8. order # <<>> /\ Head(order) = order[1] /\ 1 \in DOMAIN order
    BY <1>1, <1>2, <1>7
<1>9. /\ Range(order) = Range(Tail(order)) \cup {Head(order)}
      /\ Tail(order) \in Seq(Range(eligible)) /\ Head(order) \in Range(order)
    BY <1>7, <1>8, ElementsLeft, ElementsOf
<1>10. ASSUME NEW c \in Range(eligible) PROVE Adds(c) <= Adds(Head(order))
    <2>1. PICK i \in DOMAIN order : order[i] = c
        BY <1>7, ElementsOf
    <2>2. i = 1 \/ 1 < i
        BY <1>7
    <2>3. c = Head(order) \/ Before(key[Head(order)], key[c]) \/ key[Head(order)] = key[c]
        BY <1>7, <1>8, <2>1, <2>2
    <2> DEFINE h == Head(order)
    <2>4. h \in Range(eligible) /\ Adds(h) \in Nat /\ Adds(c) \in Nat
        BY <1>3, <1>7, <1>9
    <2>5. /\ key[h] \in [1 .. 3 -> Int] /\ key[h][1] = -Adds(h)
          /\ key[c] \in [1 .. 3 -> Int] /\ key[c][1] = -Adds(c)
        BY <1>5, <2>4
    <2> HIDE DEF h
    <2>6. Before(key[h], key[c]) => key[h][1] <= key[c][1]
        <3>1. ASSUME NEW k \in 1 .. 3, key[h][k] < key[c][k],
                     \A j \in 1 .. k - 1 : key[h][j] = key[c][j]
              PROVE  key[h][1] <= key[c][1]
            BY <2>5, <3>1
        <3>2. QED
            BY <2>5, <3>1 DEF Before
    <2>7. QED
        BY <2>3, <2>4, <2>5, <2>6 DEF h
<1>11. QED
    BY <1>1, <1>7, <1>9, <1>10

LEMMA SelectTypes ==
    ASSUME RankTypes, Select
    PROVE  RankTypes'
<1>1. PICK best \in Range(eligible) :
          /\ eligible' \in Seq(Range(eligible))
          /\ selected' = IF DocumentFull(best) \/ Repeats(best) THEN selected
                         ELSE Append(selected, best)
    BY BestIsTaken
<1>2. step = "select" /\ Len(selected) < SelectLimit
    BY DEF Select
<1>3. UNCHANGED <<case, step, ranked, score, expanded, evidence, todo, used, prompt>>
    BY DEF Select, fitting
<1>4. eligible \in Seq(Range(ranked)) /\ selected \in Seq(Range(ranked))
    BY DEF RankTypes
<1>5. Range(eligible) \subseteq Range(ranked)
    BY <1>4, ElementsOf
<1>6. eligible' \in Seq(Range(ranked))
    BY <1>1, <1>5
<1>7. selected' \in Seq(Range(ranked)) /\ Len(selected') <= SelectLimit
    <2>1. SelectLimit \in Nat
        BY RankingAssumption
    <2>2. best \in Range(ranked)
        BY <1>5
    <2>3. QED
        BY <1>1, <1>2, <1>4, <2>1, <2>2
<1>8. QED
    BY <1>2, <1>3, <1>6, <1>7 DEF RankTypes, Searching, Selecting

LEMMA SelectEndsTypes ==
    ASSUME RankTypes, SelectEnds
    PROVE  RankTypes'
<1>1. step = "select" /\ step' = "expand"
    BY DEF SelectEnds
<1>2. UNCHANGED <<case, ranked, score, eligible, selected, expanded, evidence, todo, used, prompt>>
    BY DEF SelectEnds, found, fitting
<1>3. QED
    BY <1>1, <1>2 DEF RankTypes, Searching, Selecting

LEMMA ExpandTypes ==
    ASSUME RankTypes, Expand
    PROVE  RankTypes'
<1>1. step = "expand" /\ step' = "fit" /\ case \in Cases
    BY DEF Expand, RankTypes
<1>2. UNCHANGED <<case, ranked, score, eligible, selected, evidence, todo, used, prompt>>
    BY DEF Expand, found, fitting
<1>3. selected \in Seq(Range(ranked)) /\ Range(ranked) \subseteq Range(Chunk)
    <2>1. ranked \in Seq(DOMAIN score) /\ DOMAIN score \subseteq Range(Chunk)
        BY DEF RankTypes
    <2>2. QED
        BY <2>1, ElementsOf DEF RankTypes
<1>4. ASSUME NEW c \in Range(ranked) PROVE Related(c) \in Seq(Nat)
    <2>1. Of(c) \in Attributes
        BY <1>1, <1>3, RankingAssumption DEF Of, CaseOK
    <2>2. Of(c).parent \in Nat /\ Of(c).neighbours \in Seq(Nat)
        BY <2>1 DEF Attributes
    <2>3. <<Of(c).parent>> \in Seq(Nat) /\ <<>> \in Seq(Nat)
        BY <2>2
    <2>4. QED
        BY <2>2, <2>3 DEF Related
<1> DEFINE before(i) == UNION {Range(Related(selected[j])) : j \in 1 .. i - 1}
           context(i) == Those(Related(selected[i]), (DOMAIN Context) \ before(i))
<1>5. ASSUME NEW i \in DOMAIN selected PROVE context(i) \in Seq(DOMAIN Context)
    <2>1. selected[i] \in Range(ranked)
        BY <1>3
    <2>2. Related(selected[i]) \in Seq(Nat)
        BY <1>4, <2>1
    <2> HIDE DEF before
    <2>3. /\ context(i) \in Seq(Nat)
          /\ Range(context(i)) = Range(Related(selected[i])) \cap ((DOMAIN Context) \ before(i))
        BY <2>2, ThoseOfSet
    <2> HIDE DEF context
    <2>4. QED
        BY <2>3, ElementsOf
<1>6. expanded' = [i \in DOMAIN selected |-> [chunk |-> selected[i], context |-> context(i)]]
    BY DEF Expand
<1> HIDE DEF context
<1>7. expanded' \in Seq(Item(Range(ranked)))
    <2>1. \A i \in DOMAIN selected : [chunk |-> selected[i], context |-> context(i)] \in Item(Range(ranked))
        BY <1>3, <1>5 DEF Item
    <2>2. DOMAIN selected = 1 .. Len(selected) /\ Len(selected) \in Nat
        BY <1>3
    <2>3. QED
        BY <1>6, <2>1, <2>2
<1>8. QED
    BY <1>1, <1>2, <1>7 DEF RankTypes, Searching, Selecting

\* The core chunks and the examples are expanded chunks.
LEMMA Divided ==
    ASSUME RankTypes
    PROVE  Core \in Seq(Item(Range(ranked))) /\ Examples \in Seq(Item(Range(ranked)))
<1> DEFINE R == Range(ranked)
           rank == [e \in Range(expanded) |-> <<If(Of(e.chunk).topics \cap case.required = {}),
                                                -score[e.chunk], Ids[e.chunk]>>]
           byScore == [e \in Range(expanded) |-> <<-score[e.chunk], Ids[e.chunk]>>]
<1>1. expanded \in Seq(Item(R)) /\ Range(expanded) \subseteq Item(R)
    BY ElementsOf DEF RankTypes
<1>2. /\ ranked \in Seq(DOMAIN score) /\ DOMAIN score \subseteq Range(Chunk)
      /\ \A c \in DOMAIN score : score[c] \in Int
    BY DEF RankTypes
<1>3. R \subseteq DOMAIN score
    BY <1>2, ElementsOf
<1>4. \A c \in R : score[c] \in Int /\ Ids[c] \in Int
    <2>1. Chunk \in Seq(Range(Chunk))
        BY RankingAssumption
    <2>2. \A c \in Range(Chunk) : \E i \in DOMAIN Chunk : Chunk[i] = c
        BY DEF Range
    <2>3. \A c \in Range(Chunk) : Ids[c] \in DOMAIN Chunk
        BY <2>2 DEF Ids
    <2>4. QED
        BY <1>2, <1>3, <2>1, <2>3
<1>5. \A e \in Range(expanded) : e.chunk \in R
    BY <1>1 DEF Item
<1>6. \A e \in Range(expanded) : rank[e] \in [1 .. 3 -> Int] /\ byScore[e] \in [1 .. 2 -> Int]
    BY <1>4, <1>5, IfIsNumber, Tuples
<1> HIDE DEF rank, byScore, R
<1>7. ASSUME NEW T, NEW those, those = Those(expanded, T)
      PROVE  /\ those \in Seq(Item(R))
             /\ Keys(those, rank, 3) /\ Keys(those, byScore, 2)
    <2>1. those \in Seq(Item(R)) /\ Range(those) \subseteq Range(expanded)
        BY <1>1, <1>7, ThoseOfSet
    <2>2. \A i \in DOMAIN those : those[i] \in Range(expanded)
        BY <2>1 DEF Range
    <2>3. QED
        BY <1>6, <2>1, <2>2 DEF Keys
<1>8. Sorted(Those(expanded, {e \in Range(expanded) : Of(e.chunk).kind # "example"}), rank) \in Seq(Item(R))
    BY <1>7, ElementsSorted
<1>9. Sorted(Those(expanded, {e \in Range(expanded) : Of(e.chunk).kind = "example"}), byScore) \in Seq(Item(R))
    BY <1>7, ElementsSorted
<1>10. QED
    BY <1>8, <1>9 DEF Core, Examples, rank, byScore, R

LEMMA PartsToFit ==
    ASSUME NEW S, NEW items \in Seq(Item(S)), NEW part \in {"chunk", "parent", "neighbor"}
    PROVE  Parts(part, items) \in Seq(ToFit(S))
<1>1. \A e \in Item(S) : Part(part, e) \in ToFit(S)
    BY DEF Part, Item, ToFit
<1>2. \A i \in DOMAIN items : items[i] \in Item(S)
    OBVIOUS
<1>3. \A i \in DOMAIN items : Part(part, items[i]) \in ToFit(S)
    BY <1>1, <1>2
<1>4. DOMAIN items = 1 .. Len(items) /\ Len(items) \in Nat
    OBVIOUS
<1>5. Parts(part, items) = [i \in 1 .. Len(items) |-> Part(part, items[i])]
    BY <1>4 DEF Parts
<1>6. QED
    BY <1>3, <1>4, <1>5

LEMMA FitCoreTypes ==
    ASSUME RankTypes, FitCore
    PROVE  RankTypes'
<1>1. step = "fit" /\ step' = "core" /\ todo' = Parts("chunk", Core)
    BY DEF FitCore
<1>2. UNCHANGED <<case, ranked, score, eligible, selected, expanded, evidence, used, prompt>>
    BY DEF FitCore, found
<1>3. todo' \in Seq(ToFit(Range(ranked)))
    BY <1>1, Divided, PartsToFit
<1>4. QED
    BY <1>1, <1>2, <1>3 DEF RankTypes, Searching, Selecting

LEMMA FitRestTypes ==
    ASSUME RankTypes, FitRest
    PROVE  RankTypes'
<1> DEFINE R == Range(ranked)
           missing == case.required \ TopicsOf(Shown)
           needed == {e \in Range(expanded) : Of(e.chunk).topics \cap missing # {}}
           others == Those(Examples, Range(expanded) \ needed)
           first == Those(Examples, needed)
           last == [k \in 1 .. 2 * Len(others) |->
                      Part(IF k % 2 = 1 THEN "chunk" ELSE "parent", others[(k + 1) \div 2])]
<1>1. /\ step = "core" /\ step' = "rest"
      /\ todo' = Parts("chunk", first) \o Parts("parent", Core) \o Parts("neighbor", Core) \o last
    BY DEF FitRest
<1>2. UNCHANGED <<case, ranked, score, eligible, selected, expanded, evidence, used, prompt>>
    BY DEF FitRest, found
<1>3. others \in Seq(Item(R)) /\ first \in Seq(Item(R))
    BY Divided, ThoseOfSet
<1> HIDE DEF others, first
<1>4. last \in Seq(ToFit(R))
    <2>1. \A k \in 1 .. 2 * Len(others) : (k + 1) \div 2 \in 1 .. Len(others)
        <3>1. Len(others) \in Nat
            BY <1>3
        <3>2. QED
            BY <3>1
    <2>2. \A k \in 1 .. 2 * Len(others) : others[(k + 1) \div 2] \in Item(R)
        BY <1>3, <2>1
    <2>3. \A e \in Item(R) : Part("chunk", e) \in ToFit(R) /\ Part("parent", e) \in ToFit(R)
        BY DEF Part, Item, ToFit
    <2>4. \A k \in 1 .. 2 * Len(others) :
              Part(IF k % 2 = 1 THEN "chunk" ELSE "parent", others[(k + 1) \div 2]) \in ToFit(R)
        BY <2>2, <2>3
    <2>5. 2 * Len(others) \in Nat
        BY <1>3
    <2>6. QED
        BY <2>4, <2>5
<1>5. /\ Parts("chunk", first) \in Seq(ToFit(R)) /\ Parts("parent", Core) \in Seq(ToFit(R))
      /\ Parts("neighbor", Core) \in Seq(ToFit(R))
    BY <1>3, Divided, PartsToFit
<1> HIDE DEF last, R
<1>6. todo' \in Seq(ToFit(R))
    BY <1>1, <1>4, <1>5
<1>7. QED
    BY <1>1, <1>2, <1>6 DEF RankTypes, Searching, Selecting, R

\* The numbers of a library and of what the context loader knows.
LEMMA Counts ==
    ASSUME RankTypes, step # "idle"
    PROVE  /\ \A c \in Range(ranked) : Of(c).tokens \in Nat
           /\ \A x \in DOMAIN Context : /\ Context[x].cost \in Nat /\ Context[x].tokens \in Nat
                                        /\ Context[x].tokens <= Context[x].cost
           /\ Budget \in Nat
<1>1. \A c \in Range(ranked) : Of(c).tokens \in Nat
    <2>1. Range(ranked) \subseteq Range(Chunk)
        <3>1. ranked \in Seq(DOMAIN score) /\ DOMAIN score \subseteq Range(Chunk)
            BY DEF RankTypes
        <3>2. QED
            BY <3>1, ElementsOf
    <2>2. case.library \in DOMAIN Libraries
        BY RankingAssumption DEF RankTypes, CaseOK
    <2>3. \A c \in Range(ranked) : Of(c) \in Attributes
        BY <2>1, <2>2, RankingAssumption DEF Of
    <2>4. QED
        BY <2>3 DEF Attributes
<1>2. ASSUME NEW x \in DOMAIN Context
      PROVE  /\ Context[x].cost \in Nat /\ Context[x].tokens \in Nat
             /\ Context[x].tokens <= Context[x].cost
    <2>1. /\ Context[x] \in [kind : {"parent", "neighbor"}, cost : Nat, tokens : Nat]
          /\ Context[x].tokens <= Context[x].cost
        BY RankingAssumption
    <2>2. QED
        BY <2>1
<1>3. QED
    BY <1>1, <1>2, RankingAssumption

\* What KeepChunk does.
LEMMA ChunkKept ==
    ASSUME RankTypes, KeepChunk
    PROVE  /\ todo' \in Seq(ToFit(Range(ranked)))
           /\ \/ UNCHANGED <<evidence, used>>
              \/ \E c \in Range(ranked) :
                    /\ used + Of(c).tokens <= Budget
                    /\ evidence' = Append(evidence, [chunk |-> c, context |-> <<>>])
                    /\ used' = used + Of(c).tokens
<1>1. todo \in Seq(ToFit(Range(ranked))) /\ todo # <<>> /\ todo' = Tail(todo) /\ step # "idle"
    BY DEF KeepChunk, RankTypes
<1>2. Head(todo) \in ToFit(Range(ranked)) /\ todo' \in Seq(ToFit(Range(ranked)))
    BY <1>1
<1> DEFINE c == Head(todo).chunk
<1>3. c \in Range(ranked)
    BY <1>2 DEF ToFit
<1>4. used \in Nat /\ Of(c).tokens \in Nat /\ Budget \in Nat
    BY <1>1, <1>3, Counts DEF RankTypes
<1>5. IF used + Of(c).tokens > Budget THEN UNCHANGED <<evidence, used>>
      ELSE /\ evidence' = Append(evidence, [chunk |-> c, context |-> <<>>])
           /\ used' = used + Of(c).tokens
    BY DEF KeepChunk
<1> HIDE DEF c
<1>6. QED
    BY <1>2, <1>3, <1>4, <1>5

LEMMA KeepChunkTypes ==
    ASSUME RankTypes, KeepChunk
    PROVE  RankTypes'
<1>1. step \in {"core", "rest"}
    BY DEF KeepChunk
<1>2. UNCHANGED <<case, step, ranked, score, eligible, selected, expanded, prompt>>
    BY DEF KeepChunk, found
<1>3. /\ evidence \in Seq(Item(Range(ranked))) /\ used \in Nat
      /\ \A c \in Range(ranked) : Of(c).tokens \in Nat
    BY <1>1, Counts DEF RankTypes
<1>4. <<>> \in Seq(DOMAIN Context)
    OBVIOUS
<1>5. \A c \in Range(ranked) : [chunk |-> c, context |-> <<>>] \in Item(Range(ranked))
    BY <1>4 DEF Item
<1>6. evidence' \in Seq(Item(Range(ranked))) /\ used' \in Nat
    <2>1. CASE UNCHANGED <<evidence, used>>
        BY <1>3, <2>1
    <2>2. ASSUME NEW c \in Range(ranked), used' = used + Of(c).tokens,
                 evidence' = Append(evidence, [chunk |-> c, context |-> <<>>])
          PROVE  evidence' \in Seq(Item(Range(ranked))) /\ used' \in Nat
        BY <1>3, <1>5, <2>2
    <2>3. QED
        BY <2>1, <2>2, ChunkKept
<1>7. todo' \in Seq(ToFit(Range(ranked)))
    BY ChunkKept
<1>8. QED
    BY <1>1, <1>2, <1>6, <1>7 DEF RankTypes, Searching, Selecting

\* What KeepContext does.
LEMMA ContextKept ==
    ASSUME RankTypes, KeepContext
    PROVE  /\ todo' \in Seq(ToFit(Range(ranked)))
           /\ \/ UNCHANGED <<evidence, used>>
              \/ \E i \in DOMAIN evidence, x \in DOMAIN Context :
                    /\ used + Context[x].cost <= Budget
                    /\ evidence' = [evidence EXCEPT ![i].context = Append(@, x)]
                    /\ used' = used + Context[x].cost
<1> DEFINE e == Head(todo)
           x == Head(e.context)
           place == CHOOSE i \in DOMAIN evidence : evidence[i].chunk = e.chunk
           shorter == [e EXCEPT !.context = Tail(e.context)]
<1>1. todo \in Seq(ToFit(Range(ranked))) /\ todo # <<>> /\ step # "idle"
    BY DEF KeepContext, RankTypes
<1>2. e \in ToFit(Range(ranked)) /\ Tail(todo) \in Seq(ToFit(Range(ranked)))
    BY <1>1
<1>3. IF e.context = <<>> \/ e.chunk \notin Range(Shown)
      THEN todo' = Tail(todo) /\ UNCHANGED <<evidence, used>>
      ELSE /\ todo' = <<shorter>> \o Tail(todo)
           /\ IF Context[x].kind # e.part \/ used + Context[x].cost > Budget
              THEN UNCHANGED <<evidence, used>>
              ELSE /\ evidence' = [evidence EXCEPT ![place].context = Append(@, x)]
                   /\ used' = used + Context[x].cost
    BY DEF KeepContext
<1>4. CASE e.context = <<>> \/ e.chunk \notin Range(Shown)
    BY <1>2, <1>3, <1>4
<1>5. CASE e.context # <<>> /\ e.chunk \in Range(Shown)
    <2>1. e.context \in Seq(DOMAIN Context)
        BY <1>2 DEF ToFit
    <2>2. x \in DOMAIN Context /\ Tail(e.context) \in Seq(DOMAIN Context)
        <3> DEFINE context == e.context
        <3>1. context \in Seq(DOMAIN Context) /\ context # <<>>
            BY <1>5, <2>1
        <3> HIDE DEF context
        <3>2. Head(context) \in DOMAIN Context /\ Tail(context) \in Seq(DOMAIN Context)
            BY <3>1
        <3>3. QED
            BY <3>2 DEF context
    <2>3. shorter \in ToFit(Range(ranked))
        BY <1>2, <2>2 DEF ToFit
    <2>4. \E i \in DOMAIN evidence : evidence[i].chunk = e.chunk
        BY <1>5 DEF Shown, Range
    <2>5. place \in DOMAIN evidence
        BY <2>4
    <2>6. used \in Nat /\ Context[x].cost \in Nat /\ Budget \in Nat
        BY <1>1, <2>2, Counts DEF RankTypes
    <2> HIDE DEF e, x, place, shorter
    <2>7. todo' = <<shorter>> \o Tail(todo)
        BY <1>3, <1>5
    <2>8. todo' \in Seq(ToFit(Range(ranked)))
        BY <1>2, <2>3, <2>7
    <2>9. QED
        BY <1>3, <1>5, <2>2, <2>5, <2>6, <2>8
<1>6. QED
    BY <1>4, <1>5

LEMMA KeepContextTypes ==
    ASSUME RankTypes, KeepContext
    PROVE  RankTypes'
<1>1. step = "rest"
    BY DEF KeepContext
<1>2. UNCHANGED <<case, step, ranked, score, eligible, selected, expanded, prompt>>
    BY DEF KeepContext, found
<1>3. /\ evidence \in Seq(Item(Range(ranked))) /\ used \in Nat
      /\ \A x \in DOMAIN Context : Context[x].cost \in Nat
    BY <1>1, Counts DEF RankTypes
<1>4. ASSUME NEW i \in DOMAIN evidence, NEW x \in DOMAIN Context
      PROVE  [evidence EXCEPT ![i].context = Append(@, x)] \in Seq(Item(Range(ranked)))
    <2>1. evidence[i] \in Item(Range(ranked))
        BY <1>3
    <2>2. Append(evidence[i].context, x) \in Seq(DOMAIN Context)
        BY <2>1 DEF Item
    <2>3. [evidence[i] EXCEPT !.context = Append(@, x)] \in Item(Range(ranked))
        BY <2>1, <2>2 DEF Item
    <2>4. QED
        BY <1>3, <2>3
<1>5. evidence' \in Seq(Item(Range(ranked))) /\ used' \in Nat
    <2>1. CASE UNCHANGED <<evidence, used>>
        BY <1>3, <2>1
    <2>2. ASSUME NEW i \in DOMAIN evidence, NEW x \in DOMAIN Context,
                 used' = used + Context[x].cost,
                 evidence' = [evidence EXCEPT ![i].context = Append(@, x)]
          PROVE  evidence' \in Seq(Item(Range(ranked))) /\ used' \in Nat
        <3>1. used' \in Nat
            BY <1>3, <2>2
        <3>2. evidence' \in Seq(Item(Range(ranked)))
            BY <1>4, <2>2, Zenon
        <3>3. QED
            BY <3>1, <3>2
    <2>3. QED
        BY <2>1, <2>2, ContextKept
<1>6. todo' \in Seq(ToFit(Range(ranked)))
    BY ContextKept
<1>7. QED
    BY <1>1, <1>2, <1>5, <1>6 DEF RankTypes, Searching, Selecting

LEMMA FitEndsTypes ==
    ASSUME RankTypes, FitEnds
    PROVE  RankTypes'
<1>1. step = "rest" /\ step' = "assess" /\ todo = <<>>
    BY DEF FitEnds
<1>2. UNCHANGED <<case, ranked, score, eligible, selected, expanded, evidence, todo, used, prompt>>
    BY DEF FitEnds, found, fitting
<1>3. QED
    BY <1>1, <1>2 DEF RankTypes, Searching, Selecting

LEMMA AssessTypes ==
    ASSUME RankTypes, Assess
    PROVE  RankTypes'
<1>1. step = "assess" /\ step' = "assemble" /\ (evidence' = <<>> \/ evidence' = evidence)
    BY DEF Assess
<1>2. UNCHANGED <<case, ranked, score, eligible, selected, expanded, todo, used, prompt>>
    BY DEF Assess, found
<1>3. evidence' \in Seq(Item(Range(ranked)))
    <2>1. evidence \in Seq(Item(Range(ranked))) /\ <<>> \in Seq(Item(Range(ranked)))
        BY DEF RankTypes
    <2>2. QED
        BY <1>1, <2>1
<1>4. QED
    BY <1>1, <1>2, <1>3 DEF RankTypes, Searching, Selecting

\* The prompt's evidence is what has been kept, in another order.
LEMMA Assembled ==
    ASSUME RankTypes, Assemble
    PROVE  /\ todo' \in Seq(Item(Range(ranked))) /\ Len(todo') = Len(evidence)
           /\ Range(todo') = Range(evidence)
           /\ \E places \in Bijection(DOMAIN evidence, DOMAIN evidence) :
                 \A k \in DOMAIN evidence : todo'[k] = evidence[places[k]]
<1> DEFINE key == [e \in Range(evidence) |-> <<If(Of(e.chunk).kind = "example"), -score[e.chunk]>>]
<1>1. evidence \in Seq(Item(Range(ranked)))
    BY DEF RankTypes
<1>2. Range(ranked) \subseteq DOMAIN score /\ \A c \in DOMAIN score : score[c] \in Int
    BY ElementsOf DEF RankTypes
<1>3. \A e \in Range(evidence) : e.chunk \in Range(ranked)
    <2>1. Range(evidence) \subseteq Item(Range(ranked))
        BY <1>1, ElementsOf
    <2>2. QED
        BY <2>1 DEF Item
<1>4. \A e \in Range(evidence) : key[e] \in [1 .. 2 -> Int]
    BY <1>2, <1>3, IfIsNumber, Tuples
<1>5. \A i \in DOMAIN evidence : evidence[i] \in Range(evidence)
    BY DEF Range
<1>6. todo' = Sorted(evidence, key)
    BY DEF Assemble
<1> HIDE DEF key
<1>7. Keys(evidence, key, 2)
    BY <1>4, <1>5 DEF Keys
<1>8. /\ todo' \in Seq(Item(Range(ranked))) /\ Len(todo') = Len(evidence)
      /\ Range(todo') = Range(evidence)
    BY <1>1, <1>6, <1>7, ElementsSorted
<1>9. Rearranged(todo', evidence)
    BY <1>1, <1>6, <1>7, SortedIsInOrder
<1>10. QED
    BY <1>8, <1>9 DEF Rearranged

LEMMA AssembleTypes ==
    ASSUME RankTypes, Assemble
    PROVE  RankTypes'
<1>1. step = "assemble" /\ step' = "prompt" /\ used' = 0
    BY DEF Assemble
<1>2. UNCHANGED <<case, ranked, score, eligible, selected, expanded, evidence, prompt>>
    BY DEF Assemble, found
<1>3. todo' \in Seq(Item(Range(ranked)))
    BY Assembled
<1>4. QED
    BY <1>1, <1>2, <1>3 DEF RankTypes, Searching, Selecting

\* What the prompt counts of an item is a number.
LEMMA PromptCounts ==
    ASSUME RankTypes, step # "idle", NEW e \in Item(Range(ranked))
    PROVE  PromptCost(e) \in Nat
<1>1. e.chunk \in Range(ranked) /\ e.context \in Seq(DOMAIN Context)
    BY DEF Item
<1> DEFINE n == Len(e.context)
           f == [i \in DOMAIN e.context |-> Context[e.context[i]].tokens]
<1>2. n \in Nat /\ DOMAIN e.context = 1 .. n /\ \A i \in 1 .. n : e.context[i] \in DOMAIN Context
    BY <1>1
<1>3. f \in [1 .. n -> Nat]
    BY <1>2, Counts
<1>4. Total(f) \in Nat
    <2> HIDE DEF f
    <2>1. QED
        BY <1>2, <1>3, FirstPlaces, TotalIsWeight
<1>5. QED
    BY <1>1, <1>4, Counts DEF PromptCost

LEMMA AdmitTypes ==
    ASSUME RankTypes, Admit
    PROVE  RankTypes'
<1>1. step = "prompt" /\ todo # <<>> /\ todo' = Tail(todo)
    BY DEF Admit
<1>2. UNCHANGED <<case, step, ranked, score, eligible, selected, expanded, evidence>>
    BY DEF Admit, found
<1>3. todo \in Seq(Item(Range(ranked))) /\ prompt \in Seq(Item(Range(ranked))) /\ used \in Nat
    BY <1>1 DEF RankTypes
<1>4. Head(todo) \in Item(Range(ranked)) /\ todo' \in Seq(Item(Range(ranked)))
    BY <1>1, <1>3
<1>5. PromptCost(Head(todo)) \in Nat
    BY <1>1, <1>4, PromptCounts
<1>6. prompt' \in Seq(Item(Range(ranked))) /\ used' \in Nat
    <2>1. \/ used' = used /\ prompt' = prompt
          \/ used' = used + PromptCost(Head(todo)) /\ prompt' = Append(prompt, Head(todo))
        BY DEF Admit
    <2> DEFINE e == Head(todo)
               S == Item(Range(ranked))
    <2>2. e \in S /\ prompt \in Seq(S) /\ PromptCost(e) \in Nat
        BY <1>3, <1>4, <1>5
    <2> HIDE DEF e, S
    <2>3. Append(prompt, e) \in Seq(S)
        BY <2>2
    <2>4. prompt' \in Seq(S)
        BY <2>1, <2>2, <2>3 DEF e
    <2>5. used' \in Nat
        BY <1>3, <2>1, <2>2 DEF e
    <2>6. QED
        BY <2>4, <2>5 DEF S
<1>7. QED
    BY <1>1, <1>2, <1>4, <1>6 DEF RankTypes, Searching, Selecting

LEMMA PromptEndsTypes ==
    ASSUME RankTypes, PromptEnds
    PROVE  RankTypes'
<1>1. step = "prompt" /\ step' = "done" /\ todo = <<>>
    BY DEF PromptEnds
<1>2. UNCHANGED <<case, ranked, score, eligible, selected, expanded, evidence, todo, used, prompt>>
    BY DEF PromptEnds, found, fitting
<1>3. QED
    BY <1>1, <1>2 DEF RankTypes, Searching, Selecting

LEMMA StartTypes == RankInit \/ RankIdle => RankTypes
<1>1. SUFFICES ASSUME RankInit \/ RankIdle PROVE RankTypes
    OBVIOUS
<1>2. /\ step \in {"idle", "fuse"} /\ (step # "idle" => case \in Cases)
      /\ ranked = <<>> /\ score = <<>> /\ eligible = <<>> /\ selected = <<>>
      /\ expanded = <<>> /\ evidence = <<>> /\ todo = <<>> /\ used = 0 /\ prompt = <<>>
    BY <1>1 DEF RankInit, RankIdle, RankStart
<1>3. DOMAIN score = {} /\ Range(ranked) = {} /\ SelectLimit \in Nat /\ Len(selected) = 0
    BY <1>2, RankingAssumption DEF Range
<1>4. \A S : <<>> \in Seq(S)
    OBVIOUS
<1>5. QED
    BY <1>2, <1>3, <1>4 DEF RankTypes, Searching, Selecting

LEMMA StepTypes == RankTypes /\ [RankNext]_rankVars => RankTypes'
<1>1. SUFFICES ASSUME RankTypes, [RankNext]_rankVars PROVE RankTypes'
    OBVIOUS
<1>2. CASE RankNext
    BY <1>1, <1>2, FuseTypes, RerankTypes, ResolveTypes, SelectTypes, SelectEndsTypes, ExpandTypes,
       FitCoreTypes, FitRestTypes, KeepChunkTypes, KeepContextTypes, FitEndsTypes, AssessTypes,
       AssembleTypes, AdmitTypes, PromptEndsTypes DEF RankNext
<1>3. CASE UNCHANGED rankVars
    BY <1>1, <1>3 DEF rankVars, RankTypes
<1>4. QED
    BY <1>1, <1>2, <1>3

\* The stages and the sequences they hand on are what RankTypes says.
THEOREM RankTypesAlways == RankSpec => []RankTypes
BY StartTypes, StepTypes, PTL DEF RankSpec

-----------------------------------------------------------------------------
(* The selection *)

\* While select_diverse runs: what is not barred is still to come, or is kept out
\* for a reason that lasts, and as long as a candidate would add a topic, each
\* selected one has added one.
Selection ==
    /\ step = "select" =>
          /\ \A c \in Range(ranked) :
                ~Barred(c) => c \in Range(eligible) \/ DocumentFull(c) \/ Repeats(c)
          /\ (\E c \in Range(eligible) : Adds(c) > 0) => Cardinality(Covered) >= Len(selected)
    /\ MissingIsUnavoidable

LEMMA Finite ==
    ASSUME RankTypes
    PROVE  /\ IsFiniteSet(Range(selected))
           /\ step # "idle" => \A T \in SUBSET case.required : IsFiniteSet(T) /\ Cardinality(T) \in Nat
<1>1. IsFiniteSet(Range(selected))
    <2>1. selected \in Seq(Range(selected)) /\ Len(selected) \in Nat /\ DOMAIN selected = 1 .. Len(selected)
        BY ElementsOf DEF RankTypes
    <2>2. selected \in Surjection(1 .. Len(selected), Range(selected))
        BY <2>1 DEF Surjection, Range
    <2>3. QED
        BY <2>1, <2>2, FirstPlaces, FS_Surjection
<1>2. ASSUME step # "idle", NEW T \in SUBSET case.required
      PROVE  IsFiniteSet(T) /\ Cardinality(T) \in Nat
    <2>1. IsFiniteSet(TopicId) /\ T \in SUBSET TopicId
        BY <1>2, RankingAssumption DEF RankTypes, CaseOK
    <2>2. QED
        BY <2>1, FS_Subset, FS_CardinalityType
<1>3. QED
    BY <1>1, <1>2

LEMMA ResolveSelection ==
    ASSUME RankTypes, Resolve
    PROVE  Selection'
<1>1. /\ step' = "select" /\ step # "idle" /\ selected' = selected /\ selected = <<>>
      /\ case' = case
    BY DEF Resolve, RankTypes, Searching
<1>2. \A c : Barred(c)' <=> Barred(c)
    BY <1>1 DEF Barred, Inapplicable, Of
<1>3. \A c \in Range(ranked)' : ~Barred(c)' => c \in Range(eligible)'
    BY <1>2, ResolveFacts
<1>4. Covered' = {} /\ Len(selected') = 0
    BY <1>1 DEF Covered, TopicsOf, Range
<1>5. Cardinality(Covered') >= Len(selected')
    BY <1>4, FS_EmptySet
<1>6. MissingIsUnavoidable'
    BY <1>1 DEF MissingIsUnavoidable
<1>7. QED
    BY <1>3, <1>5, <1>6 DEF Selection

LEMMA SelectSelection ==
    ASSUME RankTypes, Selection, Select
    PROVE  Selection'
<1>1. PICK best \in Range(eligible) :
          /\ Range(eligible) = Range(eligible') \cup {best}
          /\ selected' = IF DocumentFull(best) \/ Repeats(best) THEN selected
                         ELSE Append(selected, best)
          /\ \A c \in Range(eligible) : Adds(c) <= Adds(best)
    BY BestIsTaken
<1>2. step = "select" /\ step' = "select" /\ ranked' = ranked /\ case' = case
    BY DEF Select
<1>3. \A c : Of(c)' = Of(c) /\ (Barred(c)' <=> Barred(c))
    BY <1>2 DEF Barred, Inapplicable, Of
<1>4. MissingIsUnavoidable'
    BY <1>2 DEF MissingIsUnavoidable
<1>5. /\ \A c \in Range(ranked) :
             ~Barred(c) => c \in Range(eligible) \/ DocumentFull(c) \/ Repeats(c)
      /\ (\E c \in Range(eligible) : Adds(c) > 0) => Cardinality(Covered) >= Len(selected)
    BY <1>2 DEF Selection
<1>6. CASE DocumentFull(best) \/ Repeats(best)
    <2>1. selected' = selected
        BY <1>1, <1>6
    <2>2. /\ Covered' = Covered /\ \A c : Adds(c)' = Adds(c)
        BY <1>2, <1>3, <2>1 DEF Covered, TopicsOf, Adds
    <2>3. \A c : (DocumentFull(c)' <=> DocumentFull(c)) /\ (Repeats(c)' <=> Repeats(c))
        BY <1>3, <2>1 DEF DocumentFull, Repeats
    <2>4. \A c \in Range(ranked)' :
              ~Barred(c)' => c \in Range(eligible)' \/ DocumentFull(c)' \/ Repeats(c)'
        BY <1>1, <1>2, <1>3, <1>5, <1>6, <2>3
    <2>5. (\E c \in Range(eligible)' : Adds(c)' > 0) => Cardinality(Covered') >= Len(selected')
        BY <1>1, <1>5, <2>1, <2>2
    <2>6. QED
        BY <1>4, <2>4, <2>5 DEF Selection
<1>7. CASE ~(DocumentFull(best) \/ Repeats(best))
    <2>1. selected \in Seq(Range(ranked)) /\ best \in Range(ranked)
        <3>1. eligible \in Seq(Range(ranked))
            BY DEF RankTypes
        <3>2. QED
            BY <3>1, ElementsOf DEF RankTypes
    <2>2. selected' = Append(selected, best)
        BY <1>1, <1>7
    <2>3. Range(selected') = Range(selected) \cup {best} /\ Len(selected') = Len(selected) + 1
        <3>1. \A x \in Range(ranked) : Range(Append(selected, x)) = Range(selected) \cup {x}
            BY <2>1, ElementsAdded
        <3>2. Len(Append(selected, best)) = Len(selected) + 1
            BY <2>1
        <3>3. QED
            BY <2>1, <2>2, <3>1, <3>2
    <2> DEFINE added == (Of(best).topics \cap case.required) \ Covered
    <2>4. Covered' = Covered \cup added
        BY <1>2, <1>3, <2>3 DEF Covered, TopicsOf
    <2>5. /\ IsFiniteSet(Range(selected)) /\ IsFiniteSet(Range(selected'))
          /\ \A T \in SUBSET case.required : IsFiniteSet(T) /\ Cardinality(T) \in Nat
        BY <1>2, <2>3, Finite, FS_AddElement
    <2>6. ASSUME NEW c PROVE DocumentFull(c) => DocumentFull(c)'
        <3> DEFINE old == {s \in Range(selected) : Of(s).document = Of(c).document}
                   new == {s \in Range(selected') : Of(s).document = Of(c).document}
        <3>1. old \in SUBSET new /\ IsFiniteSet(new)
            BY <2>3, <2>5, FS_Subset
        <3>2. Cardinality(old) <= Cardinality(new)
            BY <3>1, FS_Subset
        <3>3. Cardinality(old) \in Nat /\ Cardinality(new) \in Nat /\ PerDocument \in Nat
            BY <3>1, FS_Subset, FS_CardinalityType, RankingAssumption
        <3>4. DocumentFull(c) <=> Cardinality(old) >= PerDocument
            BY DEF DocumentFull
        <3>5. DocumentFull(c)' <=> Cardinality(new) >= PerDocument
            BY <1>3 DEF DocumentFull
        <3> HIDE DEF old, new
        <3>6. QED
            BY <3>2, <3>3, <3>4, <3>5
    <2>7. \A c : Repeats(c) => Repeats(c)'
        BY <1>3, <2>3 DEF Repeats
    <2>8. Repeats(best)'
        BY <2>3 DEF Repeats
    <2>9. \A c \in Range(ranked)' :
              ~Barred(c)' => c \in Range(eligible)' \/ DocumentFull(c)' \/ Repeats(c)'
        BY <1>1, <1>2, <1>3, <1>5, <2>6, <2>7, <2>8
    <2>10. ASSUME NEW c \in Range(eligible'), Adds(c)' > 0
           PROVE  Cardinality(Covered') >= Len(selected')
        <3> DEFINE more == (Of(c).topics \cap case.required) \ Covered
        <3>1. Adds(c)' = Cardinality((Of(c).topics \cap case.required) \ Covered')
            BY <1>2, <1>3 DEF Adds
        <3>2. (Of(c).topics \cap case.required) \ Covered' \in SUBSET more /\ more \in SUBSET case.required
            BY <2>4
        <3>3. Adds(c)' <= Cardinality(more)
            BY <2>5, <3>1, <3>2, FS_Subset
        <3>4. Adds(c) = Cardinality(more) /\ Adds(best) = Cardinality(added) /\ c \in Range(eligible)
            BY <1>1 DEF Adds
        <3>5. Adds(c)' \in Nat /\ Cardinality(more) \in Nat /\ Cardinality(added) \in Nat
            BY <2>5, <3>1, <3>2
        <3> HIDE DEF more, added
        <3>6. Adds(c) > 0 /\ Cardinality(added) > 0
            BY <1>1, <2>10, <3>3, <3>4, <3>5
        <3>7. Cardinality(Covered) >= Len(selected)
            BY <1>5, <3>4, <3>6
        <3>8. /\ IsFiniteSet(Covered) /\ Cardinality(Covered) \in Nat
              /\ IsFiniteSet(added) /\ Covered \cap added = {}
            BY <2>5 DEF Covered, added
        <3>9. Cardinality(Covered') = Cardinality(Covered) + Cardinality(added) - Cardinality({})
            BY <2>4, <3>8, FS_Union
        <3>10. Len(selected) \in Nat
            BY <2>1
        <3>11. QED
            BY <2>3, <3>5, <3>6, <3>7, <3>8, <3>9, <3>10, FS_EmptySet
    <2>11. QED
        BY <1>4, <2>9, <2>10 DEF Selection
<1>8. QED
    BY <1>6, <1>7

LEMMA SelectEndsSelection ==
    ASSUME RankTypes, Selection, SelectEnds
    PROVE  Selection'
<1>1. /\ step = "select" /\ step' = "expand"
      /\ eligible = <<>> \/ Len(selected) = SelectLimit
      /\ UNCHANGED <<case, ranked, score, eligible, selected>>
    BY DEF SelectEnds, found
<1>2. ASSUME NEW t \in case.required \ Covered, NEW c \in Range(ranked), t \in Of(c).topics, ~Barred(c)
      PROVE  \/ DocumentFull(c) \/ Repeats(c)
             \/ Len(selected) = SelectLimit /\ Cardinality(Covered) >= SelectLimit
    <2>1. CASE c \notin Range(eligible)
        BY <1>1, <1>2, <2>1 DEF Selection
    <2>2. CASE c \in Range(eligible)
        <3>1. eligible # <<>>
            BY <2>2 DEF Range
        <3> DEFINE more == (Of(c).topics \cap case.required) \ Covered
        <3>2. t \in more /\ more \in SUBSET case.required
            BY <1>2
        <3>3. IsFiniteSet(more) /\ Cardinality(more) \in Nat
            BY <1>1, <3>2, Finite
        <3>4. Cardinality(more) # 0
            BY <3>2, <3>3, FS_EmptySet
        <3>5. Adds(c) > 0
            BY <3>3, <3>4 DEF Adds
        <3>6. QED
            BY <1>1, <2>2, <3>1, <3>5 DEF Selection
    <2>3. QED
        BY <2>1, <2>2
<1>3. MissingIsUnavoidable
    BY <1>1 DEF MissingIsUnavoidable
<1>4. \A t \in case.required \ Covered : \A c \in {x \in Range(ranked) : t \in Of(x).topics /\ ~Barred(x)} :
          \/ DocumentFull(c) \/ Repeats(c)
          \/ Len(selected) = SelectLimit /\ Cardinality(Covered) >= SelectLimit
    BY <1>2
<1>5. MissingIsUnavoidable'
    BY <1>1, <1>4 DEF MissingIsUnavoidable, Covered, TopicsOf, Of, Barred, Inapplicable, DocumentFull, Repeats
<1>6. QED
    BY <1>1, <1>5 DEF Selection

\* A required topic goes without evidence only if it must, whatever the searches
\* have found and whatever the limits are.
THEOREM TopicsAreNotMissed == RankSpec => []MissingIsUnavoidable
<1>1. RankInit \/ RankIdle => Selection
    BY DEF RankInit, RankIdle, RankStart, Selection, MissingIsUnavoidable
<1>2. ASSUME RankTypes, Selection, [RankNext]_rankVars PROVE Selection'
    <2>1. CASE Resolve
        BY <1>2, <2>1, ResolveSelection
    <2>2. CASE Select
        BY <1>2, <2>2, SelectSelection
    <2>3. CASE SelectEnds
        BY <1>2, <2>3, SelectEndsSelection
    <2>4. CASE UNCHANGED rankVars
        <3>1. /\ case' = case /\ step' = step /\ ranked' = ranked
              /\ eligible' = eligible /\ selected' = selected
            BY <2>4 DEF rankVars
        <3>2. \A c : /\ Of(c)' = Of(c) /\ (Barred(c)' <=> Barred(c)) /\ Adds(c)' = Adds(c)
                     /\ (DocumentFull(c)' <=> DocumentFull(c)) /\ (Repeats(c)' <=> Repeats(c))
            BY <3>1 DEF Barred, Inapplicable, Of, Adds, Covered, TopicsOf, DocumentFull, Repeats
        <3>3. Covered' = Covered
            BY <3>1 DEF Covered, TopicsOf, Of
        <3>4. MissingIsUnavoidable' <=> MissingIsUnavoidable
            BY <3>1, <3>2, <3>3 DEF MissingIsUnavoidable
        <3>5. QED
            BY <1>2, <3>1, <3>2, <3>3, <3>4 DEF Selection
    <2>5. CASE step' \notin {"select", "expand"}
        BY <2>5 DEF Selection, MissingIsUnavoidable
    <2>6. RankNext => Resolve \/ Select \/ SelectEnds \/ step' \notin {"select", "expand"}
        BY DEF RankNext, Fuse, Rerank, Expand, FitCore, FitRest, KeepChunk, KeepContext, FitEnds,
               Assess, Assemble, Admit, PromptEnds
    <2>7. QED
        BY <1>2, <2>1, <2>2, <2>3, <2>4, <2>5, <2>6
<1>3. Selection => MissingIsUnavoidable
    BY DEF Selection
<1>4. QED
    BY <1>1, <1>2, <1>3, RankTypesAlways, PTL DEF RankSpec

-----------------------------------------------------------------------------
(* Fusion *)

\* A candidate that no search ranks behind another one stays before it, for all
\* lists and all weights of queries: it has more points.
THEOREM DominanceIsRespected == RankSpec => []FusionRespectsDominance
<1>1. RankInit \/ RankIdle => FusionRespectsDominance
    BY DEF RankInit, RankIdle, RankStart, FusionRespectsDominance
<1>2. ASSUME RankTypes, FusionRespectsDominance, [RankNext]_rankVars PROVE FusionRespectsDominance'
    <2>1. CASE Fuse
        <3>1. SUFFICES ASSUME NEW i \in DOMAIN ranked', NEW j \in DOMAIN ranked',
                              NoWorseAnywhere(ranked[i], ranked[j])',
                              ~NoWorseAnywhere(ranked[j], ranked[i])'
                       PROVE  i < j
            <4>1. SUFFICES ASSUME step' = "rerank"
                           PROVE  \A i, j \in DOMAIN ranked' :
                                     NoWorseAnywhere(ranked[i], ranked[j])' /\ ~NoWorseAnywhere(ranked[j], ranked[i])'
                                         => i < j
                BY DEF FusionRespectsDominance
            <4>2. QED
                OBVIOUS
        <3> DEFINE a == ranked'[i]
                   b == ranked'[j]
        <3>2. case \in Cases /\ case' = case /\ ranked' \in Seq(Found)
            BY <1>2, <2>1, FuseFacts
        <3>3. NoWorseAnywhere(a, b) /\ ~NoWorseAnywhere(b, a)
            <4>1. Lexical' = Lexical /\ Vector' = Vector
                BY <3>2 DEF Lexical, Vector, Healthy, Of
            <4>2. \A x, y : NoWorseAnywhere(x, y)' <=> NoWorseAnywhere(x, y)
                BY <3>2, <4>1 DEF NoWorseAnywhere
            <4>3. QED
                BY <3>1, <4>2
        <3>4. Fused(a) \in Nat /\ Fused(b) \in Nat /\ Fused(b) < Fused(a)
            BY <3>2, <3>3, FusedRespectsRanks
        <3>5. j < i => Fused(a) <= Fused(b)
            BY <1>2, <2>1, FuseFacts
        <3>6. i = j => Fused(a) = Fused(b)
            OBVIOUS
        <3>7. i \in Nat /\ j \in Nat
            BY <3>2
        <3> HIDE DEF a, b
        <3>8. QED
            BY <3>4, <3>5, <3>6, <3>7
    <2>2. CASE UNCHANGED rankVars
        <3>1. case' = case /\ step' = step /\ ranked' = ranked
            BY <2>2 DEF rankVars
        <3>2. \A a, b : NoWorseAnywhere(a, b)' <=> NoWorseAnywhere(a, b)
            BY <3>1 DEF NoWorseAnywhere, Lexical, Vector, Healthy, Of
        <3>3. QED
            BY <1>2, <3>1, <3>2 DEF FusionRespectsDominance
    <2>3. CASE step' # "rerank"
        BY <2>3 DEF FusionRespectsDominance
    <2>4. RankNext => Fuse \/ step' # "rerank"
        BY DEF RankNext, Rerank, Resolve, Select, SelectEnds, Expand, FitCore, FitRest, KeepChunk,
               KeepContext, FitEnds, Assess, Assemble, Admit, PromptEnds
    <2>5. QED
        BY <1>2, <2>1, <2>2, <2>3, <2>4
<1>3. QED
    BY <1>1, <1>2, RankTypesAlways, PTL DEF RankSpec

-----------------------------------------------------------------------------
(* The budgets *)

\* What an item, and what a sequence of them, takes of the budget of retrieval,
\* and of that of the prompt.
Cost(e) ==
    Of(e.chunk).tokens + Total([i \in DOMAIN e.context |-> Context[e.context[i]].cost])
Spent(s) == Total([i \in DOMAIN s |-> Cost(s[i])])
PromptSpent(s) == Total([i \in DOMAIN s |-> PromptCost(s[i])])

LEMMA CostCounts ==
    ASSUME RankTypes, step # "idle", NEW e \in Item(Range(ranked))
    PROVE  Cost(e) \in Nat /\ PromptCost(e) \in Nat /\ PromptCost(e) <= Cost(e)
<1>1. e.chunk \in Range(ranked) /\ e.context \in Seq(DOMAIN Context)
    BY DEF Item
<1> DEFINE D == DOMAIN e.context
           f == [i \in D |-> Context[e.context[i]].tokens]
           g == [i \in D |-> Context[e.context[i]].cost]
<1>2. IsFiniteSet(D)
    BY <1>1, FirstPlaces
<1>3. \A i \in D : e.context[i] \in DOMAIN Context
    BY <1>1
<1>4. f \in [D -> Nat] /\ g \in [D -> Nat] /\ \A i \in D : f[i] <= g[i]
    BY <1>3, Counts
<1>5. Total(f) \in Nat /\ Total(g) \in Nat /\ Total(f) <= Total(g)
    <2> HIDE DEF f, g, D
    <2>1. QED
        BY <1>2, <1>4, TotalIsWeight, TotalGrows
<1>6. PromptCost(e) = Of(e.chunk).tokens + Total(f) /\ Cost(e) = Of(e.chunk).tokens + Total(g)
    BY DEF PromptCost, Cost
<1>7. Of(e.chunk).tokens \in Nat
    BY <1>1, Counts
<1> HIDE DEF f, g
<1>8. QED
    BY <1>5, <1>6, <1>7

LEMMA SpentCounts ==
    ASSUME RankTypes, step # "idle", NEW s \in Seq(Item(Range(ranked)))
    PROVE  Spent(s) \in Nat /\ PromptSpent(s) \in Nat /\ PromptSpent(s) <= Spent(s)
<1> DEFINE D == DOMAIN s
           f == [i \in D |-> PromptCost(s[i])]
           g == [i \in D |-> Cost(s[i])]
<1>1. IsFiniteSet(D)
    BY FirstPlaces
<1>2. \A i \in D : s[i] \in Item(Range(ranked))
    OBVIOUS
<1>3. f \in [D -> Nat] /\ g \in [D -> Nat] /\ \A i \in D : f[i] <= g[i]
    BY <1>2, CostCounts
<1>4. PromptSpent(s) = Total(f) /\ Spent(s) = Total(g)
    BY DEF PromptSpent, Spent
<1> HIDE DEF f, g, D
<1>5. QED
    BY <1>1, <1>3, <1>4, TotalIsWeight, TotalGrows

LEMMA NothingSpent == Spent(<<>>) = 0
<1> DEFINE none == [i \in DOMAIN <<>> |-> Cost(<<>>[i])]
<1>1. none \in [{} -> Nat]
    OBVIOUS
<1>2. Spent(<<>>) = Total(none)
    BY DEF Spent
<1> HIDE DEF none
<1>3. QED
    BY <1>1, <1>2, TotalOfNone

LEMMA SpentOnAnother ==
    ASSUME RankTypes, step # "idle", NEW s \in Seq(Item(Range(ranked))), NEW e \in Item(Range(ranked))
    PROVE  Spent(Append(s, e)) = Spent(s) + Cost(e)
<1> DEFINE n == Len(s)
           t == Append(s, e)
           f == [i \in DOMAIN s |-> Cost(s[i])]
           g == [i \in DOMAIN t |-> Cost(t[i])]
<1>1. /\ n \in Nat /\ DOMAIN s = 1 .. n /\ DOMAIN t = 1 .. n + 1 /\ t[n + 1] = e
      /\ \A i \in 1 .. n : t[i] = s[i]
    OBVIOUS
<1>2. (\A i \in 1 .. n : s[i] \in Item(Range(ranked))) /\ \A i \in 1 .. n + 1 : t[i] \in Item(Range(ranked))
    OBVIOUS
<1>3. Spent(s) = Total(f) /\ Spent(t) = Total(g)
    BY DEF Spent
<1> HIDE DEF n, t
<1>4. f \in [1 .. n -> Nat] /\ g \in [1 .. n + 1 -> Nat]
    BY <1>1, <1>2, CostCounts
<1>5. (\A i \in 1 .. n : g[i] = f[i]) /\ g[n + 1] = Cost(e)
    BY <1>1
<1> HIDE DEF f, g
<1>6. Total(g) = Total(f) + g[n + 1]
    BY <1>1, <1>4, <1>5, TotalAppended
<1>7. QED
    BY <1>3, <1>5, <1>6 DEF t

LEMMA CostOfContext ==
    ASSUME RankTypes, step # "idle", NEW e \in Item(Range(ranked)), NEW x \in DOMAIN Context
    PROVE  Cost([e EXCEPT !.context = Append(@, x)]) = Cost(e) + Context[x].cost
<1> DEFINE s == e.context
           n == Len(s)
           t == Append(s, x)
           f == [i \in DOMAIN s |-> Context[s[i]].cost]
           g == [i \in DOMAIN t |-> Context[t[i]].cost]
           longer == [e EXCEPT !.context = t]
<1>1. s \in Seq(DOMAIN Context) /\ e.chunk \in Range(ranked)
    BY DEF Item
<1>2. longer.chunk = e.chunk /\ longer.context = t
    BY DEF Item
<1>3. /\ n \in Nat /\ DOMAIN s = 1 .. n /\ DOMAIN t = 1 .. n + 1 /\ t[n + 1] = x
      /\ \A i \in 1 .. n : t[i] = s[i]
    BY <1>1
<1>4. (\A i \in 1 .. n : s[i] \in DOMAIN Context) /\ \A i \in 1 .. n + 1 : t[i] \in DOMAIN Context
    BY <1>1
<1>5. Cost(e) = Of(e.chunk).tokens + Total(f) /\ Cost(longer) = Of(e.chunk).tokens + Total(g)
    BY <1>2 DEF Cost
<1>6. longer = [e EXCEPT !.context = Append(@, x)]
    OBVIOUS
<1> HIDE DEF longer, n, t, s
<1>7. f \in [1 .. n -> Nat] /\ g \in [1 .. n + 1 -> Nat]
    BY <1>3, <1>4, Counts
<1>8. (\A i \in 1 .. n : g[i] = f[i]) /\ g[n + 1] = Context[x].cost
    BY <1>3
<1> HIDE DEF f, g
<1>9. Total(g) = Total(f) + g[n + 1] /\ Total(f) \in Nat
    BY <1>3, <1>7, <1>8, TotalAppended
<1>10. Of(e.chunk).tokens \in Nat /\ Context[x].cost \in Nat
    BY <1>1, Counts
<1>11. QED
    BY <1>5, <1>6, <1>8, <1>9, <1>10

LEMMA SpentOnContext ==
    ASSUME RankTypes, step # "idle", NEW s \in Seq(Item(Range(ranked))), NEW i \in DOMAIN s,
           NEW x \in DOMAIN Context
    PROVE  Spent([s EXCEPT ![i].context = Append(@, x)]) = Spent(s) + Context[x].cost
<1> DEFINE D == DOMAIN s
           longer == [s[i] EXCEPT !.context = Append(@, x)]
           t == [s EXCEPT ![i] = longer]
           f == [k \in D |-> Cost(s[k])]
           g == [k \in D |-> Cost(t[k])]
<1>1. t = [s EXCEPT ![i].context = Append(@, x)]
    OBVIOUS
<1>2. DOMAIN t = D /\ t[i] = longer /\ \A k \in D \ {i} : t[k] = s[k]
    OBVIOUS
<1>3. IsFiniteSet(D)
    BY FirstPlaces
<1>4. \A k \in D : s[k] \in Item(Range(ranked))
    OBVIOUS
<1>5. Cost(longer) = Cost(s[i]) + Context[x].cost
    BY <1>4, CostOfContext
<1>6. (\A k \in D : Cost(s[k]) \in Nat) /\ Context[x].cost \in Nat
    BY <1>4, CostCounts, Counts
<1>7. Spent(s) = Total(f) /\ Spent(t) = Total(g)
    BY <1>2 DEF Spent
<1> HIDE DEF t, longer
<1>8. f \in [D -> Nat] /\ g \in [D -> Nat] /\ \A k \in D \ {i} : g[k] = f[k]
    BY <1>2, <1>5, <1>6
<1>9. f[i] = Cost(s[i]) /\ g[i] = Cost(s[i]) + Context[x].cost
    BY <1>2, <1>5
<1>10. i \in D
    OBVIOUS
<1> HIDE DEF f, g, D
<1>11. Total(f) \in Nat /\ Total(g) = Total(f) - f[i] + g[i]
    BY <1>3, <1>8, <1>10, TotalChanged
<1>12. QED
    BY <1>1, <1>6, <1>7, <1>9, <1>10, <1>11

\* The order does not change what the prompt counts.
LEMMA SpentInPrompt ==
    ASSUME RankTypes, Assemble
    PROVE  PromptSpent(todo') = PromptSpent(evidence)
<1> DEFINE D == DOMAIN evidence
           t == todo'
           f == [k \in DOMAIN t |-> PromptCost(t[k])]
           g == [k \in D |-> PromptCost(evidence[k])]
<1>1. PICK places \in Bijection(D, D) : \A k \in D : t[k] = evidence[places[k]]
    BY Assembled
<1>2. evidence \in Seq(Item(Range(ranked))) /\ t \in Seq(Item(Range(ranked))) /\ Len(t) = Len(evidence)
    BY Assembled DEF RankTypes
<1>3. DOMAIN t = D /\ IsFiniteSet(D)
    BY <1>2, FirstPlaces
<1>4. step # "idle"
    BY DEF Assemble
<1>5. \A k \in D : evidence[k] \in Item(Range(ranked)) /\ t[k] \in Item(Range(ranked))
    BY <1>2, <1>3
<1>6. f \in [D -> Nat] /\ g \in [D -> Nat]
    BY <1>3, <1>4, <1>5, CostCounts
<1>7. \A k \in D : places[k] \in D
    BY DEF Bijection, Injection
<1>8. \A k \in D : f[k] = g[places[k]]
    BY <1>1, <1>3, <1>7
<1>9. PromptSpent(t) = Total(f) /\ PromptSpent(evidence) = Total(g)
    BY DEF PromptSpent
<1> HIDE DEF f, g, D, t
<1>10. Total(f) = Total(g)
    BY <1>3, <1>6, <1>8, TotalOfPlaces
<1>11. QED
    BY <1>9, <1>10 DEF t

LEMMA SpentOnFirst ==
    ASSUME RankTypes, step # "idle", NEW s \in Seq(Item(Range(ranked))), s # <<>>
    PROVE  /\ PromptSpent(s) = PromptCost(Head(s)) + PromptSpent(Tail(s))
           /\ PromptCost(Head(s)) \in Nat /\ PromptSpent(Tail(s)) \in Nat
<1> DEFINE t == Tail(s)
           n == Len(t)
           f == [k \in DOMAIN s |-> PromptCost(s[k])]
           g == [k \in DOMAIN t |-> PromptCost(t[k])]
<1>1. /\ n \in Nat /\ DOMAIN s = 1 .. n + 1 /\ DOMAIN t = 1 .. n /\ \A k \in 1 .. n : t[k] = s[k + 1]
      /\ t \in Seq(Item(Range(ranked)))
    OBVIOUS
<1>2. Head(s) = s[1] /\ 1 \in 1 .. n + 1
    BY <1>1
<1>3. \A k \in 1 .. n + 1 : s[k] \in Item(Range(ranked))
    OBVIOUS
<1>4. PromptSpent(s) = Total(f) /\ PromptSpent(t) = Total(g)
    BY DEF PromptSpent
<1> HIDE DEF t, n
<1>5. \A k \in 1 .. n : k + 1 \in 1 .. n + 1
    BY <1>1
<1>6. \A k \in 1 .. n + 1 : PromptCost(s[k]) \in Nat
    BY <1>3, CostCounts
<1>7. f \in [1 .. n + 1 -> Nat] /\ f[1] = PromptCost(Head(s))
    BY <1>1, <1>2, <1>6
<1>8. g \in [1 .. n -> Nat] /\ \A k \in 1 .. n : g[k] = f[k + 1]
    BY <1>1, <1>5, <1>6
<1> HIDE DEF f, g
<1>9. Total(f) = f[1] + Total(g) /\ Total(g) \in Nat
    BY <1>1, <1>7, <1>8, TotalOfTail
<1>10. PromptCost(Head(s)) \in Nat
    BY <1>2, <1>6
<1>11. QED
    BY <1>4, <1>7, <1>9, <1>10 DEF t

-----------------------------------------------------------------------------
(* The verdict *)

ChunksOf(s) == {e.chunk : e \in Range(s)}

VerdictHolds(chunks) ==
    LET topics == UNION {Of(c).topics : c \in chunks}
    IN  /\ verdict.status = "insufficient" <=> chunks = {}
        /\ verdict.status # "insufficient" => verdict.covered = topics \cap case.required
        /\ verdict.status = "sufficient" =>
              /\ case.required \subseteq topics
              /\ \E c \in chunks : Of(c).kind \in {"principle", "strategy"}

\* What is kept is within the budget, and so is what is still to come into the
\* prompt: it counts no more than retrieval has counted.
WithinBudget ==
    /\ step \in {"fit", "core", "rest"} => used = Spent(evidence) /\ used <= Budget
    /\ step \in {"assess", "assemble"} => Spent(evidence) <= Budget
    /\ step = "prompt" => /\ used + PromptSpent(todo) <= Budget
                          /\ ChunksOf(prompt) \cup ChunksOf(todo) = ChunksOf(evidence)
    /\ step = "done" => ChunksOf(prompt) = ChunksOf(evidence)
    /\ step \in {"assemble", "prompt", "done"} => VerdictHolds(ChunksOf(evidence))
    /\ step \notin {"prompt", "done"} => prompt = <<>>

LEMMA ChunksAreShown == Range(Shown) = ChunksOf(evidence)
BY DEF Shown, ChunksOf, Range

LEMMA SameCosts ==
    ASSUME case' = case
    PROVE  /\ \A s : Spent(s)' = Spent(s)
           /\ \A s : PromptSpent(s)' = PromptSpent(s)
<1>1. \A c : Of(c)' = Of(c)
    BY DEF Of
<1>2. \A e : Cost(e)' = Cost(e) /\ PromptCost(e)' = PromptCost(e)
    BY <1>1 DEF Cost, PromptCost
<1>3. \A s : Spent(s)' = Spent(s)
    BY <1>2 DEF Spent
<1>4. \A s : PromptSpent(s)' = PromptSpent(s)
    BY <1>2 DEF PromptSpent
<1>5. QED
    BY <1>3, <1>4

LEMMA ExpandBudget ==
    ASSUME RankTypes, WithinBudget, Expand
    PROVE  WithinBudget'
<1>1. step = "expand" /\ step' = "fit" /\ case' = case
      /\ evidence' = evidence /\ used' = used /\ prompt' = prompt
    BY DEF Expand, fitting
<1>2. evidence = <<>> /\ used = 0 /\ prompt = <<>> /\ Budget \in Nat
    BY <1>1, RankingAssumption DEF RankTypes, Selecting
<1>3. Spent(evidence)' = 0
    BY <1>1, <1>2, NothingSpent, SameCosts
<1>4. QED
    BY <1>1, <1>2, <1>3 DEF WithinBudget

LEMMA FitBudget ==
    ASSUME RankTypes, WithinBudget, FitCore \/ FitRest \/ FitEnds
    PROVE  WithinBudget'
<1>1. /\ step \in {"fit", "core", "rest"} /\ step' \in {"core", "rest", "assess"} /\ case' = case
      /\ evidence' = evidence /\ used' = used /\ prompt' = prompt
    BY DEF FitCore, FitRest, FitEnds, fitting
<1>2. Spent(evidence)' = Spent(evidence)
    BY <1>1, SameCosts
<1>3. QED
    BY <1>1, <1>2 DEF WithinBudget

LEMMA KeepBudget ==
    ASSUME RankTypes, WithinBudget, KeepChunk \/ KeepContext
    PROVE  WithinBudget'
<1>1. step \in {"core", "rest"} /\ step' = step /\ case' = case /\ prompt' = prompt /\ step # "idle"
    BY DEF KeepChunk, KeepContext
<1>2. used = Spent(evidence) /\ used <= Budget /\ prompt = <<>>
    BY <1>1 DEF WithinBudget
<1>3. evidence \in Seq(Item(Range(ranked)))
    BY DEF RankTypes
<1>4. used' = Spent(evidence') /\ used' <= Budget
    <2>1. CASE UNCHANGED <<evidence, used>>
        BY <1>2, <2>1
    <2>2. ASSUME NEW c \in Range(ranked), used + Of(c).tokens <= Budget,
                 used' = used + Of(c).tokens,
                 evidence' = Append(evidence, [chunk |-> c, context |-> <<>>])
          PROVE  used' = Spent(evidence') /\ used' <= Budget
        <3> DEFINE none == [i \in DOMAIN <<>> |-> Context[<<>>[i]].cost]
                   e == [chunk |-> c, context |-> <<>>]
        <3>1. e \in Item(Range(ranked))
            <4>1. <<>> \in Seq(DOMAIN Context)
                OBVIOUS
            <4>2. QED
                BY <4>1 DEF Item
        <3>2. none \in [{} -> Nat]
            OBVIOUS
        <3>3. Cost(e) = Of(c).tokens + Total(none)
            BY DEF Cost
        <3> HIDE DEF none
        <3>4. Total(none) = 0
            BY <3>2, TotalOfNone
        <3>5. Of(c).tokens \in Nat
            BY <1>1, Counts
        <3>6. Cost(e) = Of(c).tokens
            BY <3>3, <3>4, <3>5
        <3>7. evidence' = Append(evidence, e)
            BY <2>2
        <3> HIDE DEF e
        <3>8. Spent(Append(evidence, e)) = Spent(evidence) + Cost(e)
            BY <1>1, <1>3, <3>1, SpentOnAnother
        <3>9. QED
            BY <1>2, <2>2, <3>6, <3>7, <3>8
    <2>3. ASSUME NEW i \in DOMAIN evidence, NEW x \in DOMAIN Context, used + Context[x].cost <= Budget,
                 used' = used + Context[x].cost,
                 evidence' = [evidence EXCEPT ![i].context = Append(@, x)]
          PROVE  used' = Spent(evidence') /\ used' <= Budget
        <3> DEFINE longer == [evidence EXCEPT ![i].context = Append(@, x)]
        <3>1. Spent(longer) = Spent(evidence) + Context[x].cost
            BY <1>1, <1>3, SpentOnContext
        <3>2. evidence' = longer
            BY <2>3, Zenon
        <3> HIDE DEF longer
        <3>3. QED
            BY <1>2, <2>3, <3>1, <3>2
    <2>4. CASE KeepChunk
        BY <2>1, <2>2, <2>4, ChunkKept
    <2>5. CASE KeepContext
        BY <2>1, <2>3, <2>5, ContextKept
    <2>6. QED
        BY <2>4, <2>5
<1>5. Spent(evidence)' = Spent(evidence')
    BY <1>1, SameCosts
<1>6. QED
    BY <1>1, <1>2, <1>4, <1>5 DEF WithinBudget

LEMMA AssessBudget ==
    ASSUME RankTypes, WithinBudget, Assess
    PROVE  WithinBudget'
<1>1. /\ step = "assess" /\ step' = "assemble" /\ case' = case /\ prompt' = prompt
      /\ verdict' = Verdict
      /\ evidence' = IF Verdict.status = "insufficient" THEN <<>> ELSE evidence
    BY DEF Assess
<1>2. Spent(evidence) <= Budget /\ prompt = <<>> /\ Budget \in Nat
    BY <1>1, RankingAssumption DEF WithinBudget
<1>3. Spent(evidence)' <= Budget
    <2>1. Spent(evidence)' = Spent(evidence')
        BY <1>1, SameCosts
    <2>2. Spent(<<>>) <= Budget
        BY <1>2, NothingSpent
    <2>3. CASE Verdict.status = "insufficient"
        BY <1>1, <2>1, <2>2, <2>3
    <2>4. CASE Verdict.status # "insufficient"
        BY <1>1, <1>2, <2>1, <2>4
    <2>5. QED
        BY <2>3, <2>4
<1>4. VerdictHolds(ChunksOf(evidence))'
    <2> DEFINE chunks == ChunksOf(evidence)
               topics == UNION {Of(c).topics : c \in chunks}
               viable == {c \in chunks : ~Barred(c)}
    <2>1. /\ Verdict.covered = topics \cap case.required
          /\ viable = {} => Verdict.status = "insufficient"
          /\ Verdict.status = "sufficient" =>
                /\ case.required \subseteq topics
                /\ \E c \in viable : Of(c).kind \in {"principle", "strategy"}
        <3>1. Range(Assessed) = chunks /\ TopicsOf(Assessed) = topics
            BY ChunksAreShown DEF Assessed, TopicsOf
        <3>2. Verdict.covered = topics \cap case.required
            BY <3>1 DEF Verdict
        <3>3. viable = {} => Verdict.status = "insufficient"
            BY <3>1 DEF Verdict
        <3>4. Verdict.status = "sufficient" =>
                  /\ case.required \ topics = {}
                  /\ ~(\A c \in viable : Of(c).kind \notin {"principle", "strategy"})
            BY <3>1 DEF Verdict
        <3> HIDE DEF chunks, topics, viable
        <3>5. QED
            BY <3>2, <3>3, <3>4
    <2>2. \A c : Of(c)' = Of(c)
        BY <1>1 DEF Of
    <2>3. CASE Verdict.status = "insufficient"
        <3>1. ChunksOf(evidence)' = {}
            BY <1>1, <2>3 DEF ChunksOf, Range
        <3>2. QED
            BY <1>1, <2>3, <3>1 DEF VerdictHolds
    <2>4. CASE Verdict.status # "insufficient"
        <3>1. ChunksOf(evidence)' = chunks
            BY <1>1, <2>4 DEF ChunksOf
        <3>2. chunks # {}
            BY <2>1, <2>4
        <3>3. UNION {Of(c).topics : c \in chunks}' = topics
            BY <2>2, <3>1
        <3> HIDE DEF chunks
        <3>4. QED
            BY <1>1, <2>1, <2>2, <2>4, <3>1, <3>2, <3>3 DEF VerdictHolds
    <2>5. QED
        BY <2>3, <2>4
<1>5. QED
    BY <1>1, <1>2, <1>3, <1>4 DEF WithinBudget

LEMMA VerdictStays ==
    ASSUME case' = case, verdict' = verdict, evidence' = evidence, VerdictHolds(ChunksOf(evidence))
    PROVE  VerdictHolds(ChunksOf(evidence))'
<1>1. \A c : Of(c)' = Of(c)
    BY DEF Of
<1>2. ChunksOf(evidence)' = ChunksOf(evidence)
    BY DEF ChunksOf
<1>3. QED
    BY <1>1, <1>2 DEF VerdictHolds

LEMMA AssembleBudget ==
    ASSUME RankTypes, WithinBudget, Assemble
    PROVE  WithinBudget'
<1>1. /\ step = "assemble" /\ step' = "prompt" /\ used' = 0 /\ case' = case /\ prompt' = prompt
      /\ evidence' = evidence /\ verdict' = verdict
    BY DEF Assemble
<1>2. Spent(evidence) <= Budget /\ prompt = <<>> /\ VerdictHolds(ChunksOf(evidence)) /\ Budget \in Nat
    BY <1>1, RankingAssumption DEF WithinBudget
<1>3. evidence \in Seq(Item(Range(ranked)))
    BY DEF RankTypes
<1>4. /\ Spent(evidence) \in Nat /\ PromptSpent(evidence) \in Nat
      /\ PromptSpent(evidence) <= Spent(evidence)
    BY <1>1, <1>3, SpentCounts
<1>5. PromptSpent(todo)' = PromptSpent(evidence)
    BY <1>1, SpentInPrompt, SameCosts
<1>6. ChunksOf(prompt)' = {} /\ ChunksOf(todo)' = ChunksOf(evidence) /\ ChunksOf(evidence)' = ChunksOf(evidence)
    <2>1. Range(todo') = Range(evidence)
        BY Assembled
    <2>2. ChunksOf(prompt)' = {}
        BY <1>1, <1>2 DEF ChunksOf, Range
    <2>3. ChunksOf(todo)' = ChunksOf(evidence)
        BY <2>1 DEF ChunksOf
    <2>4. ChunksOf(evidence)' = ChunksOf(evidence)
        BY <1>1 DEF ChunksOf
    <2>5. QED
        BY <2>2, <2>3, <2>4
<1>7. VerdictHolds(ChunksOf(evidence))'
    BY <1>1, <1>2, VerdictStays
<1>8. QED
    BY <1>1, <1>2, <1>4, <1>5, <1>6, <1>7 DEF WithinBudget

\* The prompt never drops an item.
LEMMA AdmitBudget ==
    ASSUME RankTypes, WithinBudget, Admit
    PROVE  WithinBudget'
<1> DEFINE e == Head(todo)
           S == Item(Range(ranked))
<1>1. /\ step = "prompt" /\ step' = step /\ todo # <<>> /\ todo' = Tail(todo) /\ case' = case
      /\ evidence' = evidence /\ verdict' = verdict
    BY DEF Admit
<1>2. /\ used + PromptSpent(todo) <= Budget /\ VerdictHolds(ChunksOf(evidence))
      /\ ChunksOf(prompt) \cup ChunksOf(todo) = ChunksOf(evidence)
    BY <1>1 DEF WithinBudget
<1>3. todo \in Seq(S) /\ prompt \in Seq(S) /\ used \in Nat /\ Budget \in Nat
    BY <1>1, RankingAssumption DEF RankTypes
<1>4. /\ PromptSpent(todo) = PromptCost(e) + PromptSpent(Tail(todo))
      /\ PromptCost(e) \in Nat /\ PromptSpent(Tail(todo)) \in Nat
    BY <1>1, <1>3, SpentOnFirst
<1>5. used' = used + PromptCost(e) /\ prompt' = Append(prompt, e)
    <2>1. IF used + PromptCost(e) > Budget THEN UNCHANGED <<used, prompt>>
          ELSE used' = used + PromptCost(e) /\ prompt' = Append(prompt, e)
        BY DEF Admit
    <2> HIDE DEF e, S
    <2>2. used + PromptCost(e) <= Budget
        BY <1>2, <1>3, <1>4
    <2>3. QED
        BY <1>3, <1>4, <2>1, <2>2
<1>6. PromptSpent(todo)' = PromptSpent(Tail(todo))
    BY <1>1, SameCosts
<1>7. used' + PromptSpent(todo)' <= Budget
    <2> HIDE DEF e, S
    <2>1. QED
        BY <1>2, <1>3, <1>4, <1>5, <1>6
<1>8. ChunksOf(prompt)' \cup ChunksOf(todo)' = ChunksOf(evidence)
    <2>1. e \in S
        BY <1>1, <1>3
    <2>2. Range(todo) = Range(Tail(todo)) \cup {e}
        BY <1>1, <1>3, ElementsLeft
    <2> HIDE DEF e, S
    <2>3. \A x \in S : Range(Append(prompt, x)) = Range(prompt) \cup {x}
        BY <1>3, ElementsAdded
    <2>4. Range(prompt') = Range(prompt) \cup {e} /\ Range(todo) = Range(todo') \cup {e}
        BY <1>1, <1>5, <2>1, <2>2, <2>3
    <2>5. ChunksOf(prompt)' = ChunksOf(prompt) \cup {e.chunk} /\ ChunksOf(todo) = ChunksOf(todo)' \cup {e.chunk}
        BY <2>4 DEF ChunksOf
    <2>6. QED
        BY <1>2, <2>5
<1>9. ChunksOf(evidence)' = ChunksOf(evidence)
    BY <1>1 DEF ChunksOf
<1>10. VerdictHolds(ChunksOf(evidence))'
    BY <1>1, <1>2, VerdictStays
<1>11. QED
    BY <1>1, <1>7, <1>8, <1>9, <1>10 DEF WithinBudget

LEMMA PromptEndsBudget ==
    ASSUME RankTypes, WithinBudget, PromptEnds
    PROVE  WithinBudget'
<1>1. /\ step = "prompt" /\ step' = "done" /\ todo = <<>> /\ case' = case
      /\ evidence' = evidence /\ verdict' = verdict /\ prompt' = prompt
    BY DEF PromptEnds, fitting
<1>2. /\ VerdictHolds(ChunksOf(evidence))
      /\ ChunksOf(prompt) \cup ChunksOf(todo) = ChunksOf(evidence)
    BY <1>1 DEF WithinBudget
<1>3. ChunksOf(todo) = {}
    BY <1>1 DEF ChunksOf, Range
<1>4. ChunksOf(prompt)' = ChunksOf(prompt) /\ ChunksOf(evidence)' = ChunksOf(evidence)
    BY <1>1 DEF ChunksOf
<1>5. VerdictHolds(ChunksOf(evidence))'
    BY <1>1, <1>2, VerdictStays
<1>6. QED
    BY <1>1, <1>2, <1>3, <1>4, <1>5 DEF WithinBudget

\* The verdict in a prompt is about what is in that prompt, for all chunks, costs and
\* budgets: the prompt counts no more than retrieval has counted, so it drops nothing.
THEOREM VerdictIsKept == RankSpec => []VerdictIsOfThePrompt
<1>1. RankInit \/ RankIdle => WithinBudget
    BY DEF RankInit, RankIdle, RankStart, WithinBudget
<1>2. ASSUME RankTypes, WithinBudget, [RankNext]_rankVars PROVE WithinBudget'
    <2>1. CASE Fuse \/ Rerank \/ Resolve \/ Select \/ SelectEnds
        <3>1. step \notin {"prompt", "done"} /\ prompt' = prompt
              /\ step' \in {"rerank", "resolve", "select", "expand"}
            BY <2>1 DEF Fuse, Rerank, Resolve, Select, SelectEnds
        <3>2. QED
            BY <1>2, <3>1 DEF WithinBudget
    <2>2. CASE UNCHANGED rankVars
        <3>1. /\ step' = step /\ case' = case /\ evidence' = evidence /\ used' = used
              /\ todo' = todo /\ verdict' = verdict /\ prompt' = prompt
            BY <2>2 DEF rankVars
        <3>2. Spent(evidence)' = Spent(evidence) /\ PromptSpent(todo)' = PromptSpent(todo)
            BY <3>1, SameCosts
        <3>3. /\ ChunksOf(prompt)' = ChunksOf(prompt) /\ ChunksOf(todo)' = ChunksOf(todo)
              /\ ChunksOf(evidence)' = ChunksOf(evidence)
            BY <3>1 DEF ChunksOf
        <3>4. VerdictHolds(ChunksOf(evidence)) => VerdictHolds(ChunksOf(evidence))'
            BY <3>1, VerdictStays
        <3>5. QED
            BY <1>2, <3>1, <3>2, <3>3, <3>4 DEF WithinBudget
    <2>3. QED
        BY <1>2, <2>1, <2>2, ExpandBudget, FitBudget, KeepBudget, AssessBudget, AssembleBudget,
           AdmitBudget, PromptEndsBudget DEF RankNext
<1>3. WithinBudget => VerdictIsOfThePrompt
    <2>1. SUFFICES ASSUME WithinBudget, step = "done" PROVE VerdictIsOfThePrompt
        BY DEF VerdictIsOfThePrompt
    <2>2. ChunksOf(prompt) = Range(Shown) /\ VerdictHolds(ChunksOf(prompt))
        BY <2>1, ChunksAreShown DEF WithinBudget
    <2>3. {prompt[i].chunk : i \in DOMAIN prompt} = ChunksOf(prompt)
        BY DEF ChunksOf, Range
    <2>4. QED
        BY <2>2, <2>3 DEF VerdictIsOfThePrompt, VerdictHolds
<1>4. QED
    BY <1>1, <1>2, <1>3, RankTypesAlways, PTL DEF RankSpec

-----------------------------------------------------------------------------
(* Plans, corpora, contexts, and all together *)

\* Where a plan has come from.
Finished(c) ==
    [kind |-> "plan",
     plan |-> FinishedPlan(c.plan, c.policies, c.missing),
     known |-> KnownFacts(c.known, c.traceable),
     unknowns |-> KeyUnknowns(c.unknowns, c.known, c.traceable)]

PlanInv ==
    /\ input \in PlanCases \cup ContextCases \cup {None}
    /\ output.kind = "plan" =>
          /\ input \in PlanCases
          /\ ~PolicyOverlap(Directed(input.plan, input.policies, input.missing).scenes,
                            input.policies)
          /\ output = Finished(input)

LEMMA PlanInvariant == Spec => []PlanInv
<1>1. Init => PlanInv
    BY DEF Init, PlanInv, None
<1>2. ASSUME PlanInv, [Next]_vars PROVE PlanInv'
    <2>1. CASE FinishPlan
        <3>1. input' = input /\ input.kind = "plan"
            BY <2>1 DEF FinishPlan
        <3>2. input \in PlanCases
            BY <1>2, <3>1, CasesAssumption DEF PlanInv, None
        <3>3. \/ output' = Raised
              \/ /\ ~PolicyOverlap(Directed(input.plan, input.policies, input.missing).scenes,
                                   input.policies)
                 /\ output' = Finished(input)
            BY <2>1 DEF FinishPlan, Finished
        <3>4. Raised.kind # "plan"
            BY DEF Raised
        <3>5. QED
            BY <1>2, <3>1, <3>2, <3>3, <3>4 DEF PlanInv
    <2>2. CASE FitContext
        <3>1. input' = input /\ output'.kind = "context"
            BY <2>2 DEF FitContext
        <3>2. QED
            BY <1>2, <3>1 DEF PlanInv
    <2>3. CASE UNCHANGED <<input, output>>
        BY <1>2, <2>3 DEF PlanInv
    <2>4. QED
        BY <1>2, <2>1, <2>2, <2>3 DEF Next, vars
<1>3. QED
    BY <1>1, <1>2, PTL DEF Spec

-----------------------------------------------------------------------------
\* What the policies make of a plan that they direct: a scene of the result is one
\* the skill has a policy for, and after a rejection the task is fixed.
LEMMA DirectedPlan ==
    ASSUME NEW plan \in Plan, NEW policies, DOMAIN policies = PolicyScenes,
           NEW missing \in BOOLEAN, NEW directed, directed = Directed(plan, policies, missing)
    PROVE  /\ directed \in Plan /\ directed.scenes \subseteq PolicyScenes
           /\ Unclear \notin directed.scenes => directed.excluded = plan.excluded
           /\ Rejection \in directed.scenes => directed.task \in {"boundary", "relationship_exit"}
<1> DEFINE active == plan.scenes \cap DOMAIN policies
           rejected == Rejection \in active /\ plan.task # "relationship_exit"
           vague == ~rejected /\ (Unclear \in active \/ (active = {} /\ missing))
<1>1. active \subseteq PolicyScenes /\ active \in SUBSET Scene
    BY SceneAssumption DEF Plan
<1>2. CASE rejected
    <2>1. directed = [plan EXCEPT !.scenes = active, !.task = "boundary", !.action = "stop"]
        BY <1>2 DEF Directed
    <2>2. /\ directed.scenes = active /\ directed.task = "boundary"
          /\ directed.excluded = plan.excluded /\ directed \in Plan
        BY <1>1, <2>1 DEF Plan
    <2>3. QED
        BY <1>1, <2>2
<1>3. CASE vague
    <2>1. directed = [scenes |-> {Unclear}, task |-> "general_advice", action |-> "clarify",
                      required |-> {}, excluded |-> {}]
        BY <1>3 DEF Directed
    <2>2. directed \in Plan /\ directed.scenes = {Unclear}
        BY <2>1, SceneAssumption DEF Plan
    <2>3. QED
        BY <2>2, SceneAssumption
<1>4. CASE ~rejected /\ ~vague
    <2>1. directed = [plan EXCEPT !.scenes = active]
        BY <1>4 DEF Directed
    <2>2. /\ directed.scenes = active /\ directed.task = plan.task
          /\ directed.excluded = plan.excluded /\ directed \in Plan
        BY <1>1, <2>1 DEF Plan
    <2>3. QED
        BY <1>1, <1>4, <2>2
<1>5. QED
    BY <1>2, <1>3, <1>4

\* The topics of a plan whose policies do not contradict each other.
LEMMA RuledPlan ==
    ASSUME NEW plan \in Plan, NEW policies, DOMAIN policies = PolicyScenes,
           \A s \in PolicyScenes : policies[s] \in Policy,
           plan.scenes \subseteq PolicyScenes, ~PolicyOverlap(plan.scenes, policies),
           NEW ruled, ruled = Ruled(plan, policies)
    PROVE  /\ ruled.scenes = plan.scenes /\ ruled.task = plan.task
           /\ ruled.required \cap ruled.excluded = {}
           /\ ruled.required \cup ruled.excluded \subseteq Controlled
           /\ \A s \in plan.scenes : /\ policies[s].required \subseteq ruled.required
                                     /\ policies[s].excluded \subseteq ruled.excluded
           /\ \A t \in plan.excluded \cap Controlled :
                 t \in ruled.excluded \/ \E s \in plan.scenes : t \in policies[s].required
<1> DEFINE required == (plan.required \ plan.excluded) \cap Controlled
           excluded == plan.excluded \cap Controlled
           mustHave == PolicyRequired(plan.scenes, policies)
           mustNot == PolicyExcluded(plan.scenes, policies)
<1>1. ruled = [plan EXCEPT !.required = (required \ mustNot) \cup mustHave,
                           !.excluded = (excluded \ mustHave) \cup mustNot]
    BY DEF Ruled
<1>2. /\ \A t : t \in mustHave <=> \E s \in plan.scenes : t \in policies[s].required
      /\ \A t : t \in mustNot <=> \E s \in plan.scenes : t \in policies[s].excluded
    BY DEF PolicyRequired, PolicyExcluded
<1>3. mustHave \subseteq Controlled /\ mustNot \subseteq Controlled
    BY <1>2 DEF Policy
<1>4. mustHave \cap mustNot = {}
    BY DEF PolicyOverlap
<1> HIDE DEF mustHave, mustNot
<1>5. /\ ruled.scenes = plan.scenes /\ ruled.task = plan.task
      /\ ruled.required = (required \ mustNot) \cup mustHave
      /\ ruled.excluded = (excluded \ mustHave) \cup mustNot
    BY <1>1 DEF Plan
<1>6. QED
    BY <1>2, <1>3, <1>4, <1>5

\* A finished plan honours the policies of the skill (nodes.py,
\* _apply_policy_directives and analyze_scene_and_plan), whatever the model answered,
\* and claims no fact that the context does not hold.
THEOREM PlansHonourPolicies == Spec => []PlanHonoursPolicies
<1>1. PlanInv => PlanHonoursPolicies
    <2> SUFFICES ASSUME PlanInv, output.kind = "plan" PROVE PlanHonoursPolicies
        BY DEF PlanHonoursPolicies
    <2> DEFINE policies == input.policies
               directed == Directed(input.plan, policies, input.missing)
               plan == output.plan
    <2>1. /\ input.plan \in Plan /\ input.missing \in BOOLEAN
          /\ DOMAIN policies = PolicyScenes /\ Range(policies) \subseteq Policy
          /\ ~PolicyOverlap(directed.scenes, policies)
          /\ output = Finished(input)
        BY CasesAssumption DEF PlanInv
    <2>2. \A s \in PolicyScenes : policies[s] \in Policy
        BY <2>1 DEF Range
    <2>3. /\ plan = Ruled(directed, policies)
          /\ output.known = KnownFacts(input.known, input.traceable)
          /\ output.unknowns = KeyUnknowns(input.unknowns, input.known, input.traceable)
        BY <2>1 DEF Finished, FinishedPlan
    <2>4. /\ directed \in Plan /\ directed.scenes \subseteq PolicyScenes
          /\ Unclear \notin directed.scenes => directed.excluded = input.plan.excluded
          /\ Rejection \in directed.scenes => directed.task \in {"boundary", "relationship_exit"}
        BY <2>1, DirectedPlan
    <2> HIDE DEF policies, directed, plan
    <2>5. /\ plan.scenes = directed.scenes /\ plan.task = directed.task
          /\ plan.required \cap plan.excluded = {}
          /\ plan.required \cup plan.excluded \subseteq Controlled
          /\ \A s \in directed.scenes : /\ policies[s].required \subseteq plan.required
                                        /\ policies[s].excluded \subseteq plan.excluded
          /\ \A t \in directed.excluded \cap Controlled :
                t \in plan.excluded \/ \E s \in directed.scenes : t \in policies[s].required
        BY <2>1, <2>2, <2>3, <2>4, RuledPlan
    <2>6. /\ output.known \subseteq input.traceable
          /\ input.known \cup input.unknowns = output.known \cup output.unknowns
        BY <2>3 DEF KnownFacts, KeyUnknowns
    <2>7. QED
        BY <2>4, <2>5, <2>6 DEF PlanHonoursPolicies, plan, policies
<1>2. QED
    BY <1>1, PlanInvariant, PTL

-----------------------------------------------------------------------------
\* What a context is made of.
ContextOf(c) == [kind |-> "context",
                 context |-> BuildContext(c.request, LastOf(c.messages, Window))]

ContextInv ==
    /\ input \in PlanCases \cup ContextCases \cup {None}
    /\ output.kind = "context" => input \in ContextCases /\ output = ContextOf(input)

LEMMA ContextInvariant == Spec => []ContextInv
<1>1. Init => ContextInv
    BY DEF Init, ContextInv, None
<1>2. ASSUME ContextInv, [Next]_vars PROVE ContextInv'
    <2>1. CASE FinishPlan
        <3>1. input' = input
            BY <2>1 DEF FinishPlan
        <3>2. output'.kind # "context"
            BY <2>1 DEF FinishPlan, Raised
        <3>3. QED
            BY <1>2, <3>1, <3>2 DEF ContextInv
    <2>2. CASE FitContext
        <3>1. input' = input /\ input.kind = "context" /\ output' = ContextOf(input)
            BY <2>2 DEF FitContext, ContextOf
        <3>2. input \in ContextCases
            BY <1>2, <3>1, CasesAssumption DEF ContextInv, None
        <3>3. QED
            BY <1>2, <3>1, <3>2 DEF ContextInv
    <2>3. CASE UNCHANGED <<input, output>>
        BY <1>2, <2>3 DEF ContextInv
    <2>4. QED
        BY <1>2, <2>1, <2>2, <2>3 DEF Next, vars
<1>3. QED
    BY <1>1, <1>2, PTL DEF Spec

\* A context keeps within the budget unless the current message stands alone, and a
\* message that states a boundary is left out only for the current message and newer
\* ones that state one (context_builder.py 37-77).
THEOREM BoundariesAlways == Spec => []BoundariesFirst
<1>1. ContextInv => BoundariesFirst
    <2> SUFFICES ASSUME ContextInv, output.kind = "context" PROVE BoundariesFirst
        BY DEF BoundariesFirst
    <2> DEFINE request == input.request
               messages == LastOf(input.messages, Window)
               recent == Recent(messages, request.text)
               start == Tokens[request.text]
               kept == Kept(start)[recent]
               cost == MessageCosts(recent)
               context == output.context
               tried == Tried(recent)
               usage == After(TextCosts(recent, tried), start)
               marked == {i \in DOMAIN recent : recent[i].text \in Important}
               newer(i) == {j \in kept \cap marked : j > i}
    <2>1. /\ input.messages \in Seq(Message) /\ request.text \in Text /\ request.summary \in Nat
          /\ request.facts \in Seq(Range(request.facts)) /\ Costs(request.facts) \in Seq(Nat)
          /\ request.preferences \in Seq(Range(request.preferences))
          /\ Costs(request.preferences) \in Seq(Nat)
        BY CasesAssumption DEF ContextInv
    <2>2. context = BuildContext(request, messages)
        BY DEF ContextInv, ContextOf
    <2>3. messages \in Seq(Message)
        BY <2>1, LastMessages
    <2>4. /\ recent = Recent(messages, request.text) /\ kept = Kept(start)[recent]
          /\ cost = MessageCosts(recent) /\ tried = Tried(recent)
          /\ usage = After(TextCosts(recent, tried), start) /\ start = Tokens[request.text]
        OBVIOUS
    <2> HIDE DEF request, messages, context
    <2>5. recent \in Seq(Message)
        BY <2>3, RecentMessages
    <2>6. start \in Nat
        BY <2>1, WindowAssumption
    <2> HIDE DEF recent, start, kept, cost, tried, usage
    <2>7. /\ kept \in SUBSET (DOMAIN recent)
          /\ ImportantFirst(recent, cost, start, kept)
        BY <2>4, <2>5, <2>6, KeptMessages
    <2>8. /\ context.history = Picked(recent, kept)
          /\ FitsBudget(request, context, cost, kept)
        BY <2>1, <2>2, <2>4, <2>5, ContextWithin
    <2>9. \A i \in marked \ kept : start + cost[i] + Total(Restrict(cost, newer(i))) > ContextBudget
        <3>1. SUFFICES ASSUME NEW i \in marked \ kept
                       PROVE  start + cost[i] + Total(Restrict(cost, newer(i))) > ContextBudget
            OBVIOUS
        <3>2. newer(i) = {j \in kept : recent[j].text \in Important /\ j > i}
            BY <2>7
        <3>3. i \in (DOMAIN recent) \ kept /\ recent[i].text \in Important
            OBVIOUS
        <3> HIDE DEF newer, marked
        <3>4. start + cost[i]
                  + Total(Restrict(cost, {j \in kept : recent[j].text \in Important /\ j > i}))
                  > ContextBudget
            BY <2>7, <3>3 DEF ImportantFirst
        <3>5. QED
            BY <3>2, <3>4
    <2>10. cost = [i \in DOMAIN recent |-> Tokens[recent[i].text]]
        BY <2>4 DEF MessageCosts
    <2>11. QED
        BY <2>4, <2>7, <2>8, <2>9, <2>10
           DEF BoundariesFirst, FitsBudget, request, messages, context, recent, start
<1>2. QED
    BY <1>1, ContextInvariant, PTL

-----------------------------------------------------------------------------
\* Every step is one of ingestion or leaves it alone, so that its invariants are
\* invariants here too.
LEMMA IngestionSteps == [Next]_vars => [IngestNext]_ingestVars
BY DEF Next, FinishPlan, FitContext, vars

LEMMA IngestionInvariant == Spec => []IngestInv
<1>1. Init => IngestInv
    <2>1. IngestIdle => IngestInv
        <3> SUFFICES ASSUME IngestIdle PROVE IngestInv
            OBVIOUS
        <3> USE DEF IngestIdle, Blank
        <3>1. pending \in Joined /\ headings \in Path /\ corpus \in Seq(Document)
            BY DEF Nothing, Joined, Path
        <3>2. running \in BOOLEAN
            OBVIOUS
        <3>3. IngestTypeOK
            BY <3>1, <3>2 DEF IngestTypeOK
        <3>4. Shapes
            BY DEF Shapes, WellFormed, EndsBy
        <3>5. Sizes /\ AllPlaced
            BY ChunkAssumption DEF Sizes, ChunksFit, AllPlaced, Nothing
        <3>6. QED
            BY <3>3, <3>4, <3>5 DEF IngestInv
    <2>2. QED
        BY <2>1, InitInv DEF Init
<1>2. ASSUME IngestInv, [Next]_vars PROVE IngestInv'
    BY <1>2, IngestionSteps, StepInv
<1>3. QED
    BY <1>1, <1>2, PTL DEF Spec

\* No chunk exceeds MaxTokens (chunker.py 54-99).
THEOREM ChunksFitAlways == Spec => []ChunksFit
<1>1. IngestInv => ChunksFit
    BY DEF IngestInv, Sizes
<1>2. QED
    BY <1>1, IngestionInvariant, PTL

\* No token of a document is lost, repeated more than once or moved (chunker.py 17-99).
THEOREM NothingLostAlways == Spec => []NothingLost
<1>1. Init => Layout
    BY BlankLayout DEF Init, IngestInit, IngestIdle
<1>2. IngestInv /\ Layout /\ [Next]_vars => Layout'
    BY IngestionSteps, StepLayout
<1>3. QED
    BY <1>1, <1>2, LaidOut, IngestionInvariant, PTL DEF Spec

\* What may be shown with an online chunk is online (pipeline.py, expander.py).
THEOREM ContextIsAdmittedAlways == Spec => []OnlineContextIsOnline
<1>1. Init => Admitted
    <2>1. Init => records = <<>>
        BY DEF Init, IngestInit, IngestIdle, Blank
    <2>2. records = <<>> => Admitted
        BY DEF Admitted
    <2>3. QED
        BY <2>1, <2>2
<1>2. IngestInv /\ Admitted /\ [Next]_vars => Admitted'
    BY IngestionSteps, StepAdmits
<1>3. QED
    BY <1>1, <1>2, AdmittedAlike, IngestionInvariant, PTL DEF Spec

-----------------------------------------------------------------------------
\* A retrieval beside the other procedures is a retrieval by itself.
THEOREM RetrievalsAreSteps == Spec => RankSpec
<1>1. Init => RankInit \/ RankIdle
    BY DEF Init
<1>2. [Next]_vars => [RankNext]_rankVars
    BY DEF Next, FinishPlan, FitContext, vars
<1>3. QED
    BY <1>1, <1>2, PTL DEF Spec, RankSpec

\* A candidate that no search ranks behind another one stays before it (fusion.py).
THEOREM DominanceAlways == Spec => []FusionRespectsDominance
BY RetrievalsAreSteps, DominanceIsRespected, PTL

\* A required topic goes without evidence only if it must (diversity.py).
THEOREM TopicsAlways == Spec => []MissingIsUnavoidable
BY RetrievalsAreSteps, TopicsAreNotMissed, PTL

\* The verdict of a prompt is about what is in it (sufficiency.py, context_assembler.py).
THEOREM VerdictAlways == Spec => []VerdictIsOfThePrompt
BY RetrievalsAreSteps, VerdictIsKept, PTL

OutputOK == output.kind \in {"none", "ValueError", input.kind}

\* The variables of all procedures have their types: what is selected is found and no
\* more than is asked for, and an outcome is one of its case.
THEOREM TypesAlways == Spec => []TypeOK
<1>1. Init => OutputOK
    BY DEF Init, OutputOK, None
<1>2. OutputOK /\ [Next]_vars => OutputOK'
    <2>1. SUFFICES ASSUME OutputOK, [Next]_vars PROVE OutputOK'
        OBVIOUS
    <2>2. CASE FinishPlan
        <3>1. input' = input /\ input.kind = "plan" /\ output'.kind \in {"ValueError", "plan"}
            BY <2>2 DEF FinishPlan, Raised
        <3>2. QED
            BY <3>1 DEF OutputOK
    <2>3. CASE FitContext
        <3>1. input' = input /\ input.kind = "context" /\ output'.kind = "context"
            BY <2>3 DEF FitContext
        <3>2. QED
            BY <3>1 DEF OutputOK
    <2>4. CASE UNCHANGED <<input, output>>
        BY <2>1, <2>4 DEF OutputOK
    <2>5. QED
        BY <2>1, <2>2, <2>3, <2>4 DEF Next, vars
<1>3. RankTypes => /\ step \in {"idle", "fuse", "rerank", "resolve", "select", "expand", "fit", "core",
                                "rest", "assess", "assemble", "prompt", "done"}
                   /\ Range(selected) \subseteq Range(Chunk) /\ Len(selected) <= SelectLimit
    <2>1. SUFFICES ASSUME RankTypes PROVE Range(selected) \subseteq Range(Chunk)
        BY DEF RankTypes, Selecting, Searching
    <2>2. /\ selected \in Seq(Range(ranked)) /\ ranked \in Seq(DOMAIN score)
          /\ DOMAIN score \subseteq Range(Chunk)
        BY <2>1 DEF RankTypes
    <2>3. Range(selected) \subseteq Range(ranked) /\ Range(ranked) \subseteq DOMAIN score
        BY <2>2, ElementsOf
    <2>4. QED
        BY <2>2, <2>3
<1>4. IngestInv /\ RankTypes /\ OutputOK => TypeOK
    BY <1>3 DEF TypeOK, OutputOK, IngestInv
<1>5. QED
    BY <1>1, <1>2, <1>4, IngestionInvariant, RetrievalsAreSteps, RankTypesAlways, PTL DEF Spec

=============================================================================

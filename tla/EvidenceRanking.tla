-------------------------- MODULE EvidenceRanking --------------------------
(***************************************************************************)
(* RetrievalService.retrieve (backend/app/knowledge/retrieval): how the    *)
(* candidates of the lexical and the vector searches become the evidence   *)
(* in a prompt, and the verdict that goes with it.                         *)
(*                                                                         *)
(* One behaviour is one retrieval: a stage is a step, and so is every turn *)
(* of the loops that select, fit the budget and fill the prompt.  A        *)
(* candidate is the name of a chunk; what is known of the chunk is in its  *)
(* library.  Scores are integers in units of 1 / One, with the weights of  *)
(* the code in tenths and hundredths.                                      *)
(***************************************************************************)
EXTENDS Lists

CONSTANTS
    Chunk,          \* the chunks that may be found, in the order of their ids
    Libraries,      \* a sequence of libraries, [Chunk -> attributes] each
    Context,        \* what the context loader knows: kind, and tokens as retrieval
                    \* and as the prompt count them
    Cases,          \* what is searched for, and found: see CaseOK
    TopicId,
    K,              \* k of weighted_rrf (60)
    FusionLimit,    \* fusion_top_k (20)
    RerankLimit,    \* rerank_top_k (15)
    SelectLimit,    \* final_top_k (6)
    PerDocument,    \* chunks of one document (2)
    Budget          \* evidence_budget (3500)

Fine == 1000000
One == 1000 * Fine

\* The attributes of a chunk that retrieval reads: bad metadata, its document,
\* topics, kind, actions, the scenes it is not for, its collection, the chunks it
\* supersedes, its tokens, the chunks it nearly repeats, and its context.
Attributes ==
    [healthy : BOOLEAN, document : Nat, topics : SUBSET TopicId,
     kind : {"principle", "strategy", "example", "other"},
     actions : SUBSET {"advance", "stop"}, notFor : SUBSET {"scene"},
     collection : {"original", "new_kb"}, decision : Nat,
     supersedes : SUBSET Range(Chunk),
     tokens : Nat, twins : SUBSET Range(Chunk),
     parent : Nat, neighbours : Seq(Nat)]

\* lexical and vector: a ranked list for each query, none so long that the scores
\* of two ranks are equal.  scores: the reranker's, in hundredths, for every chunk,
\* or for none when it is unavailable.  preferred: how many of the plan's soft
\* preferences a chunk meets (_soft_preference_score).
CaseOK(c) ==
    /\ c.library \in DOMAIN Libraries
    /\ {c.lexical, c.vector} \subseteq Seq(Seq(Range(Chunk)))
    /\ Len(c.lexical) = Len(c.vector)
    /\ \A q \in DOMAIN c.lexical : \A list \in {c.lexical[q], c.vector[q]} :
          (K + Len(list)) * (K + Len(list)) <= 8 * 45 * Fine
    /\ c.scores \in [{} -> Int] \cup [Range(Chunk) -> Int]
    /\ c.preferred \in [Range(Chunk) -> Nat]
    /\ c.required \cup c.excluded \subseteq TopicId

ASSUME RankingAssumption ==
    /\ Chunk \in Seq(Range(Chunk)) /\ IsFiniteSet(TopicId)
    /\ {K, FusionLimit, RerankLimit, SelectLimit, PerDocument, Budget} \subseteq Nat
    /\ \A l \in DOMAIN Libraries : \A c \in Range(Chunk) : Libraries[l][c] \in Attributes
    /\ \A c \in Cases : CaseOK(c)
    /\ \A x \in DOMAIN Context :
          /\ Context[x] \in [kind : {"parent", "neighbor"}, cost : Nat, tokens : Nat]
          /\ Context[x].tokens <= Context[x].cost

VARIABLES
    case,           \* the retrieval: library, plan, what is found
    step,           \* the stage that is next
    ranked,         \* fused, reranked and resolved candidates in their order
    score,          \* [candidate -> rerank_score or rrf_score]
    eligible,       \* select_diverse's eligible and selected
    selected,
    expanded,       \* the selected chunks with all their context
    evidence,       \* what fits the budget of it
    todo,           \* what is still to be fitted, or to be put into the prompt
    used,           \* tokens that are spent of the budget
    verdict,        \* evidence_assessment
    prompt          \* what assemble_prompt lets in of the evidence

rankVars == <<case, step, ranked, score, eligible, selected, expanded, evidence, todo, used,
              verdict, prompt>>
found == <<ranked, score, eligible, selected>>
fitting == <<evidence, todo, used>>

NoVerdict == [status |-> "none", covered |-> {}, missing |-> {}]

RankStart(at) ==
    /\ step = at /\ ranked = <<>> /\ score = <<>> /\ eligible = <<>> /\ selected = <<>>
    /\ expanded = <<>> /\ evidence = <<>> /\ todo = <<>> /\ used = 0
    /\ verdict = NoVerdict /\ prompt = <<>>

RankIdle == case = [library |-> 0] /\ RankStart("idle")
RankInit == case \in Cases /\ RankStart("fuse")

Of(c) == Libraries[case.library][c]
Ids == [c \in Range(Chunk) |-> CHOOSE i \in DOMAIN Chunk : Chunk[i] = c]

-----------------------------------------------------------------------------
(* Fusion *)

\* isolate_bad_candidates
Healthy(list) == Those(list, {c \in Range(Chunk) : Of(c).healthy})
Lexical == [q \in DOMAIN case.lexical |-> Healthy(case.lexical[q])]
Vector == [q \in DOMAIN case.vector |-> Healthy(case.vector[q])]

\* The rank of a candidate in a list, 0 if it is not there.
RankIn(list, c) == IF c \in Range(list) THEN CHOOSE i \in DOMAIN list : list[i] = c ELSE 0

\* Slip: a rank that is missing is read as 0.
ShareOrBest(weight, rank) == (weight * Fine) \div (K + rank)

\* What a list with a weight adds for a rank.
Share(weight, rank) == IF rank = 0 THEN 0 ELSE (weight * Fine) \div (K + rank)

\* weighted_rrf with query_weights: 1.0 for the first query, 0.8 for the others.
FromQuery(q, c) ==
    LET weight == IF q = 1 THEN 10 ELSE 8
    IN  Share(45 * weight, RankIn(Lexical[q], c)) + Share(55 * weight, RankIn(Vector[q], c))
Fused(c) == Total([q \in DOMAIN case.lexical |-> FromQuery(q, c)])

Found == UNION {Range(Lexical[q]) \cup Range(Vector[q]) : q \in DOMAIN case.lexical}

\* Ties go to the candidate that meets more soft preferences, then to the id.
Fuse ==
    /\ step = "fuse"
    /\ LET key == [c \in Found |-> <<-Fused(c), -case.preferred[c], Ids[c]>>]
       IN  ranked' = TakeFirst(Sorted(Those(Chunk, Found), key), FusionLimit)
    /\ score' = [c \in Found |-> Fused(c)]
    /\ step' = "rerank"
    /\ UNCHANGED <<case, eligible, selected, expanded, fitting, verdict, prompt>>

-----------------------------------------------------------------------------
(* Reranking, conflicts and selection *)

\* A reranker that raises leaves the order, and the scores, of the fusion.
Rerank ==
    /\ step = "rerank"
    /\ LET kept == TakeFirst(ranked, RerankLimit)
       IN  IF DOMAIN case.scores = {}
           THEN ranked' = kept /\ UNCHANGED score
           ELSE /\ ranked' = Sorted(kept, [c \in Range(kept) |-> <<-case.scores[c]>>])
                /\ score' = [c \in Range(kept) |-> case.scores[c] * (One \div 100)]
    /\ step' = "resolve"
    /\ UNCHANGED <<case, eligible, selected, expanded, fitting, verdict, prompt>>

Inapplicable(c) == Of(c).notFor \cap case.scenes # {}

\* _resolve_conflicts: a chunk of the new collection suppresses one of the
\* original that it supersedes, unless that is clearly more relevant (by 0.15).
Suppressed ==
    {old \in Range(ranked) :
        \E new \in Range(ranked) :
            /\ Of(new).decision = Of(old).decision /\ Of(new).decision # 0
            /\ Of(new).collection = "new_kb" /\ Of(old).collection = "original"
            /\ old \in Of(new).supersedes
            /\ score[new] >= score[old] - 15 * (One \div 100)}

Barred(c) == Of(c).topics \cap case.excluded # {} \/ Inapplicable(c)

\* _resolve_conflicts, and the first lines of select_diverse
Resolve ==
    /\ step = "resolve"
    /\ ranked' = Those(ranked, Range(ranked) \ Suppressed)
    /\ eligible' = Those(ranked', {c \in Range(ranked') : ~Barred(c)})
    /\ step' = "select"
    /\ UNCHANGED <<case, score, selected, expanded, fitting, verdict, prompt>>

TopicsOf(s) == UNION {Of(c).topics : c \in Range(s)}
Covered == TopicsOf(selected) \cap case.required

\* Slip: topics that are covered already count again.
CountsAgain(c) == Cardinality(Of(c).topics \cap case.required)

\* How many required topics a candidate would add.
Adds(c) == Cardinality((Of(c).topics \cap case.required) \ Covered)

DocumentFull(c) ==
    Cardinality({s \in Range(selected) : Of(s).document = Of(c).document}) >= PerDocument
Repeats(c) == \E s \in Range(selected) : s = c \/ s \in Of(c).twins

\* A turn of the loop: the best candidate is taken from the list, and selected
\* unless its document has its share or it nearly repeats a selected one.
Select ==
    /\ step = "select"
    /\ eligible # <<>> /\ Len(selected) < SelectLimit
    /\ LET key == [c \in Range(eligible) |-> <<-Adds(c), If(Of(c).kind = "example"), -score[c]>>]
           order == Sorted(eligible, key)
           best == Head(order)
       IN  /\ eligible' = Tail(order)
           /\ selected' = IF DocumentFull(best) \/ Repeats(best) THEN selected
                          ELSE Append(selected, best)
    /\ UNCHANGED <<case, step, ranked, score, expanded, fitting, verdict, prompt>>

SelectEnds ==
    /\ step = "select"
    /\ eligible = <<>> \/ Len(selected) = SelectLimit
    /\ step' = "expand"
    /\ UNCHANGED <<case, found, expanded, fitting, verdict, prompt>>

-----------------------------------------------------------------------------
(* Context and budget *)

\* expand_selected: parent, then neighbours; what is loaded is given to the first
\* chunk that has it.
Related(c) == (IF case.parents /\ Of(c).parent # 0 THEN <<Of(c).parent>> ELSE <<>>)
                  \o Of(c).neighbours

Expand ==
    /\ step = "expand"
    /\ expanded' =
         [i \in DOMAIN selected |->
            [chunk |-> selected[i],
             context |-> Those(Related(selected[i]),
                 (DOMAIN Context) \ UNION {Range(Related(selected[j])) : j \in 1 .. i - 1})]]
    /\ step' = "fit"
    /\ UNCHANGED <<case, found, fitting, verdict, prompt>>

\* The core chunks, those with required topics first, and the examples.
Core ==
    Sorted(Those(expanded, {e \in Range(expanded) : Of(e.chunk).kind # "example"}),
           [e \in Range(expanded) |-> <<If(Of(e.chunk).topics \cap case.required = {}),
                                        -score[e.chunk], Ids[e.chunk]>>])
Examples ==
    Sorted(Those(expanded, {e \in Range(expanded) : Of(e.chunk).kind = "example"}),
           [e \in Range(expanded) |-> <<-score[e.chunk], Ids[e.chunk]>>])

\* To fit the chunks of items, or the context of one kind.
Part(part, e) == [part |-> part, chunk |-> e.chunk, context |-> e.context]
Parts(part, items) == [i \in DOMAIN items |-> Part(part, items[i])]

Shown == [i \in DOMAIN evidence |-> evidence[i].chunk]

\* _fit_budget begins with the core chunks.
FitCore ==
    /\ step = "fit"
    /\ todo' = Parts("chunk", Core)
    /\ step' = "core"
    /\ UNCHANGED <<case, found, expanded, evidence, used, verdict, prompt>>

\* Then come the examples that cover what the core does not, parents and neighbours
\* of the core, and the other examples, each with its parents.
FitRest ==
    /\ step = "core" /\ todo = <<>>
    /\ LET missing == case.required \ TopicsOf(Shown)
           needed == {e \in Range(expanded) : Of(e.chunk).topics \cap missing # {}}
           others == Those(Examples, Range(expanded) \ needed)
       IN  todo' = Parts("chunk", Those(Examples, needed))
                       \o Parts("parent", Core) \o Parts("neighbor", Core)
                       \o [k \in 1 .. 2 * Len(others) |->
                              Part(IF k % 2 = 1 THEN "chunk" ELSE "parent", others[(k + 1) \div 2])]
    /\ step' = "rest"
    /\ UNCHANGED <<case, found, expanded, evidence, used, verdict, prompt>>

\* A chunk is kept without its context if it still fits.
KeepChunk ==
    /\ step \in {"core", "rest"} /\ todo # <<>> /\ Head(todo).part = "chunk"
    /\ LET c == Head(todo).chunk
       IN  IF used + Of(c).tokens > Budget THEN UNCHANGED <<evidence, used>>
           ELSE /\ evidence' = Append(evidence, [chunk |-> c, context |-> <<>>])
                /\ used' = used + Of(c).tokens
    /\ todo' = Tail(todo)
    /\ UNCHANGED <<case, step, found, expanded, verdict, prompt>>

\* One of the context, if its chunk has been kept, is added to it.
KeepContext ==
    /\ step = "rest" /\ todo # <<>> /\ Head(todo).part # "chunk"
    /\ LET e == Head(todo)
           x == Head(e.context)
           at == CHOOSE i \in DOMAIN evidence : evidence[i].chunk = e.chunk
       IN  IF e.context = <<>> \/ e.chunk \notin Range(Shown)
           THEN todo' = Tail(todo) /\ UNCHANGED <<evidence, used>>
           ELSE /\ todo' = <<[e EXCEPT !.context = Tail(e.context)]>> \o Tail(todo)
                /\ IF Context[x].kind # e.part \/ used + Context[x].cost > Budget
                   THEN UNCHANGED <<evidence, used>>
                   ELSE /\ evidence' = [evidence EXCEPT ![at].context = Append(@, x)]
                        /\ used' = used + Context[x].cost
    /\ UNCHANGED <<case, step, found, expanded, verdict, prompt>>

FitEnds ==
    /\ step = "rest" /\ todo = <<>>
    /\ step' = "assess"
    /\ UNCHANGED <<case, found, expanded, fitting, verdict, prompt>>

-----------------------------------------------------------------------------
(* The verdict and the prompt *)

\* Slip: the chunks are assessed as they were selected, before the budget.
AsSelected == selected

\* What assess_evidence is given.
Assessed == Shown

\* assess_evidence (the runtime gives it no reranker threshold): topics count
\* wherever they are, and opposing actions of two chunks, or of one, conflict.
Verdict ==
    LET covered == TopicsOf(Assessed)
        missing == case.required \ covered
        viable == {c \in Range(Assessed) : ~Barred(c)}
        actions == UNION {Of(c).actions : c \in Range(Assessed)}
        status == IF viable = {} \/ (case.required # {} /\ case.required \cap covered = {})
                  THEN "insufficient"
                  ELSE IF {"advance", "stop"} \subseteq actions THEN "conflicting"
                  ELSE IF missing # {} \/ \A c \in viable : Of(c).kind \notin {"principle", "strategy"}
                  THEN "partially_sufficient"
                  ELSE "sufficient"
    IN  [status |-> status, covered |-> covered \cap case.required, missing |-> missing]

\* Evidence that does not suffice is withheld.
Assess ==
    /\ step = "assess"
    /\ verdict' = Verdict
    /\ evidence' = IF Verdict.status = "insufficient" THEN <<>> ELSE evidence
    /\ step' = "assemble"
    /\ UNCHANGED <<case, found, expanded, todo, used, prompt>>

\* _evidence_within_budget of the prompt: it counts again, tokens this time, and
\* drops what exceeds its budget.
PromptCost(e) ==
    Of(e.chunk).tokens + Total([i \in DOMAIN e.context |-> Context[e.context[i]].tokens])

Assemble ==
    /\ step = "assemble"
    /\ todo' = Sorted(evidence, [e \in Range(evidence) |->
                                    <<If(Of(e.chunk).kind = "example"), -score[e.chunk]>>])
    /\ used' = 0
    /\ step' = "prompt"
    /\ UNCHANGED <<case, found, expanded, evidence, verdict, prompt>>

Admit ==
    /\ step = "prompt" /\ todo # <<>>
    /\ LET e == Head(todo)
       IN  IF used + PromptCost(e) > Budget THEN UNCHANGED <<used, prompt>>
           ELSE used' = used + PromptCost(e) /\ prompt' = Append(prompt, e)
    /\ todo' = Tail(todo)
    /\ UNCHANGED <<case, step, found, expanded, evidence, verdict>>

PromptEnds ==
    /\ step = "prompt" /\ todo = <<>>
    /\ step' = "done"
    /\ UNCHANGED <<case, found, expanded, fitting, verdict, prompt>>

RankNext ==
    \/ Fuse \/ Rerank \/ Resolve \/ Select \/ SelectEnds \/ Expand
    \/ FitCore \/ FitRest \/ KeepChunk \/ KeepContext \/ FitEnds
    \/ Assess \/ Assemble \/ Admit \/ PromptEnds

RankSpec == (RankInit \/ RankIdle) /\ [][RankNext]_rankVars

-----------------------------------------------------------------------------
(* Properties *)

\* A list that does not have a candidate ranks it behind all that it has.
NoWorse(list, a, b) ==
    RankIn(list, b) = 0 \/ (RankIn(list, a) # 0 /\ RankIn(list, a) <= RankIn(list, b))
NoWorseAnywhere(a, b) ==
    \A q \in DOMAIN case.lexical : NoWorse(Lexical[q], a, b) /\ NoWorse(Vector[q], a, b)

\* A candidate that no search of no query ranks behind another one, and that one
\* of them ranks before it, is before it in the fused list.
FusionRespectsDominance ==
    step = "rerank" =>
        \A i, j \in DOMAIN ranked :
            NoWorseAnywhere(ranked[i], ranked[j]) /\ ~NoWorseAnywhere(ranked[j], ranked[i]) => i < j

\* A required topic goes without evidence only if every candidate that has it is
\* kept out by its document's share, by a selected chunk it repeats, or by a full
\* selection in which each chunk was needed for a required topic of its own.
MissingIsUnavoidable ==
    step = "expand" =>
        \A t \in case.required \ Covered :
            \A c \in {x \in Range(ranked) : t \in Of(x).topics /\ ~Barred(x)} :
                \/ DocumentFull(c) \/ Repeats(c)
                \/ Len(selected) = SelectLimit /\ Cardinality(Covered) >= SelectLimit

\* The verdict in the prompt is about the evidence in the prompt: the topics it
\* calls covered are covered there, all that was assessed is there although the
\* prompt has a budget of its own, "sufficient" means that every required topic is
\* covered and not by examples alone, and evidence that does not suffice is not
\* shown.
VerdictIsOfThePrompt ==
    LET shown == {prompt[i].chunk : i \in DOMAIN prompt}
        topics == UNION {Of(c).topics : c \in shown}
    IN  step = "done" =>
            /\ shown = Range(Shown)
            /\ verdict.status = "insufficient" <=> shown = {}
            /\ verdict.status # "insufficient" => verdict.covered = topics \cap case.required
            /\ verdict.status = "sufficient" =>
                  /\ case.required \subseteq topics
                  /\ \E c \in shown : Of(c).kind \in {"principle", "strategy"}

=============================================================================

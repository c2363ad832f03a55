---------------------------- MODULE MCKnowledge ----------------------------
EXTENDS Knowledge

CONSTANTS A, B, file, c1, c2, c3, c4, c5, care, stop, push,
          hear, small, limit, plea, reject, comfort, unclear, unheard

-----------------------------------------------------------------------------
(* Corpora: every document of at most four lines, longer ones, and pairs with   *)
(* equal headings                                                              *)

L(kind, level, title, tokens) ==
    [kind |-> kind, level |-> level, title |-> title, tokens |-> tokens]

Alphabet ==
    {L("heading", 1, A, 1), L("heading", 2, B, 1), L("heading", 3, A, 1),
     L("text", 1, B, 1), L("text", 1, B, 4), L("text", 1, B, 9),
     L("blank", 1, A, 0), L("fence", 3, A, 1), L("fence", 4, A, 1), L("-", 1, A, 1)}

Doc(ls, collection, override) ==
    [lines |-> ls, collection |-> collection, override |-> override]

Nested == <<L("heading", 1, A, 1), L("heading", 2, B, 1), L("text", 1, A, 4), L("blank", 1, A, 0),
            L("text", 1, A, 9), L("heading", 2, A, 1), L("text", 1, A, 1), L("text", 1, A, 1)>>

\* A chunk of a short block and a long one, and a short section of the same path.
Rest(n) == <<L("heading", 1, A, 1), L("text", 1, B, 2), L("blank", 1, A, 0), L("text", 1, B, n),
             L("heading", 1, A, 1), L("text", 1, B, 1)>>

MCTitle == {A, B, file}
MCCorpora ==
    {<<Doc(ls, "original", "none")>> : ls \in UNION {[1 .. n -> Alphabet] : n \in 1 .. 4}}
    \cup {<<Doc(Rest(n), "original", "none")>> : n \in {5, 6, 9}}
    \cup {<<Doc(Nested, "original", "none"), Doc(Nested, "new_kb", o)>> :
            o \in {"none", "online", "research", "invalid"}}
    \cup {<<Doc(Nested, "new_kb", o), Doc(Nested, "new_kb", p)>> :
            o, p \in {"none", "online", "research", "invalid"}}

-----------------------------------------------------------------------------
(* Retrievals *)

MCChunk == <<c1, c2, c3, c4, c5>>
MCTopicId == {care, stop, push, hear}

C(doc, topics, kind, collection, tokens, parent) ==
    [healthy |-> TRUE, document |-> doc, topics |-> topics, kind |-> kind, actions |-> {},
     notFor |-> {}, collection |-> collection, decision |-> 0, supersedes |-> {},
     tokens |-> tokens, twins |-> {}, parent |-> parent, neighbours |-> <<>>]

\* Two documents; c1 supersedes c4, c3 and c5 nearly repeat each other, c2 is an
\* example, c3 and c4 oppose each other.
Library1 ==
    (c1 :> [C(1, {care}, "principle", "new_kb", 2, 11) EXCEPT !.decision = 1, !.supersedes = {c4}])
    @@ (c2 :> [C(1, {care, stop}, "example", "original", 3, 11) EXCEPT !.neighbours = <<12>>])
    @@ (c3 :> [C(1, {stop}, "strategy", "original", 2, 11)
                 EXCEPT !.actions = {"advance"}, !.neighbours = <<12>>, !.twins = {c5}])
    @@ (c4 :> [C(2, {care, push}, "strategy", "original", 3, 13)
                 EXCEPT !.decision = 1, !.actions = {"stop"}])
    @@ (c5 :> [C(2, {push}, "other", "original", 1, 0)
                 EXCEPT !.notFor = {"scene"}, !.twins = {c3}])

\* Every chunk of a document of its own, one of them unreadable, one that leaves
\* little room for others and is the only one with its topic.
Library2 ==
    (c1 :> C(1, {care, stop}, "example", "original", 4, 11))
    @@ (c2 :> [C(2, {care}, "principle", "original", 2, 11) EXCEPT !.healthy = FALSE])
    @@ (c3 :> C(3, {care, stop}, "example", "original", 3, 13))
    @@ (c4 :> [C(4, {care, stop}, "principle", "original", 2, 0) EXCEPT !.neighbours = <<12>>])
    @@ (c5 :> C(5, {push}, "strategy", "original", 8, 13))

\* Every chunk of a document of its own and with a topic of its own, except for two
\* that share one.
Library3 ==
    (c1 :> C(1, {care}, "principle", "original", 1, 0))
    @@ (c2 :> C(2, {stop}, "strategy", "original", 1, 0))
    @@ (c3 :> C(3, {push}, "example", "original", 1, 0))
    @@ (c4 :> C(4, {hear}, "other", "original", 1, 0))
    @@ (c5 :> C(5, {care}, "strategy", "original", 1, 0))

MCLibraries == <<Library1, Library2, Library3>>

MCContext == (11 :> [kind |-> "parent", cost |-> 3, tokens |-> 2])
             @@ (12 :> [kind |-> "neighbor", cost |-> 2, tokens |-> 2])
             @@ (13 :> [kind |-> "parent", cost |-> 1, tokens |-> 1])

Case(library, lexical, vector, scores, required, excluded, scenes) ==
    [library |-> library, lexical |-> lexical, vector |-> vector, scores |-> scores,
     required |-> required, excluded |-> excluded, scenes |-> scenes, parents |-> TRUE,
     preferred |-> [c \in Range(MCChunk) |-> IF c = c3 THEN 2 ELSE IF c = c4 THEN 1 ELSE 0]]

Lists(S, n) == UNION {{s \in [1 .. k -> S] : \A i, j \in 1 .. k : s[i] = s[j] => i = j} : k \in 0 .. n}

Orders == {s \in [1 .. 5 -> Range(MCChunk)] : \A i, j \in 1 .. 5 : s[i] = s[j] => i = j}

\* Two queries that find little, for the fusion; every order that a fusion may
\* yield, without a reranker; every verdict of a reranker in three scores; and more
\* required topics than chunks that may be selected.
MCCases ==
    {Case(1, <<l1, l2>>, <<v1, v2>>, <<>>, {care}, {}, {}) :
        l1, v1 \in Lists({c1, c3, c4}, 2), l2, v2 \in Lists({c1, c3}, 1)}
    \cup {Case(library, <<order>>, <<v>>, <<>>, required, {}, scenes) :
        library \in 1 .. 2, order \in Orders, v \in {<<>>, <<c3, c5>>},
        required \in {{care, stop}, {care, stop, push}}, scenes \in {{}, {"scene"}}}
    \cup {Case(library, <<MCChunk>>, <<<<>>>>, scores, required, excluded, {}) :
        library \in 1 .. 2, scores \in [Range(MCChunk) -> {20, 30, 80}],
        required \in {{}, {care, stop}, {care, stop, push}}, excluded \in {{}, {push}}}
    \cup {Case(3, <<order>>, <<<<>>>>, <<>>, MCTopicId, {}, {}) : order \in Orders}

-----------------------------------------------------------------------------
(* Plans and contexts *)

MCScene == {reject, comfort, unclear, unheard}
MCPolicyScenes == {reject, comfort, unclear}
MCTopic == {care, stop, push, "uncontrolled"}
MCControlled == {care, stop, push}

Rules(required, excluded) == [required |-> required, excluded |-> excluded]
MCPolicies ==
    {(reject :> Rules({stop}, {push})) @@ (comfort :> c) @@ (unclear :> Rules({}, {})) :
        c \in {Rules({care}, {}), Rules({care, push}, {}), Rules({}, {care})}}

MCPlanCases ==
    {[kind |-> "plan",
      plan |-> [scenes |-> scenes, task |-> task, action |-> "respond",
                required |-> required, excluded |-> excluded],
      policies |-> policies, missing |-> missing,
      known |-> {"said", "guessed"}, unknowns |-> {"asked"}, traceable |-> traceable] :
        scenes \in SUBSET MCScene, task \in {"relationship_exit", "reply"},
        required \in SUBSET {care, push, "uncontrolled"}, excluded \in SUBSET MCControlled,
        policies \in MCPolicies, missing \in BOOLEAN, traceable \in {{}, {"said", "asked"}}}

MCText == {small, limit, plea}
MCTokens == (small :> 1) @@ (limit :> 3) @@ (plea :> 4)

Says(role, text) == [role |-> role, text |-> text]
MCContextCases ==
    {[kind |-> "context",
      request |-> [text |-> text, relationship |-> 1, facts |-> facts,
                   preferences |-> preferences, summary |-> 1],
      messages |-> messages] :
        text \in {small, plea},
        preferences \in {<<>>, <<[relationship |-> Anyone, cost |-> 2], [relationship |-> 2, cost |-> 1]>>},
        facts \in {<<>>, <<[relationship |-> 2, cost |-> 1], [relationship |-> 1, cost |-> 2]>>},
        messages \in [1 .. 5 -> {Says("user", small), Says("user", limit), Says("user", plea),
                                 Says("assistant", small)}]}

=============================================================================

--------------------------- MODULE ContextWindow ---------------------------
(***************************************************************************)
(* The conversation window of agents/assistant/schemas.py and the context  *)
(* that retrieval/context_builder.py fits into a token budget.             *)
(*                                                                         *)
(* A text is a model value with a token count and, perhaps, one of the     *)
(* IMPORTANT_MARKERS; a fact is a record of its relationship and its cost. *)
(***************************************************************************)
EXTENDS Lists

CONSTANTS
    Text,           \* the contents of messages
    Important,      \* those that hold an important marker
    Tokens,         \* [Text -> Nat], token_count
    Anyone,         \* the relationship of a preference that has none
    Window,         \* messages that are kept (12)
    ContextBudget,  \* tokens of the context (2400)
    MaxFacts,       \* facts considered (20)
    MaxPreferences  \* preferences considered (10)

ASSUME WindowAssumption ==
    /\ Window \in Nat \ {0}
    /\ ContextBudget \in Nat /\ MaxFacts \in Nat /\ MaxPreferences \in Nat
    /\ Important \subseteq Text
    /\ Tokens \in [Text -> Nat]

Message == [role : {"user", "assistant"}, text : Text]

From(text) == [role |-> "user", text |-> text]

\* What s[-n:] leaves of a sequence.
LastOf(s, n) == SubSeq(s, IF Len(s) < n THEN 1 ELSE Len(s) - n + 1, Len(s))

\* Slip: the list is appended to, not cut.
AppendAll(old, new) == old \o new

\* append_recent: the reducer of the graph's messages.
AppendRecent(old, new) == LastOf(old \o new, Window)

\* Slip: the list is searched from its beginning.
WithoutEarliest(messages, text) ==
    LET same == {i \in DOMAIN messages : messages[i] = From(text)}
    IN  IF same = {} THEN messages ELSE RemoveAt(messages, Min(same))

\* The current message is in the window already; it is not its own history.
Recent(messages, text) ==
    LET same == {i \in DOMAIN messages : messages[i] = From(text)}
    IN  IF same = {} THEN messages ELSE RemoveAt(messages, Max(same))

\* Slip: the newest messages first, whatever they say.
NewestFirst(recent, i) == <<-i>>

\* The key by which messages take their part of the budget.
Precedence(recent, i) == <<If(recent[i].text \notin Important), -i>>

\* build_context: messages, facts, preferences and the summary, in this order.
Costs(items) == [k \in DOMAIN items |-> items[k].cost]
After(costs, start) == Used(costs, start, ContextBudget)[Len(costs)]
WhatFits(items, start) == Picked(items, Fitting(Costs(items), start, ContextBudget))

\* The places of messages in the order in which they are tried, what they cost, and
\* those that are taken.
Tried(recent) ==
    Sorted([i \in DOMAIN recent |-> i], [i \in DOMAIN recent |-> Precedence(recent, i)])
TextCosts(recent, places) == [k \in DOMAIN places |-> Tokens[recent[places[k]].text]]
Kept(start) ==
    [recent \in Seq(Message) |->
        LET tried == Tried(recent)
        IN  {tried[k] : k \in Fitting(TextCosts(recent, tried), start, ContextBudget)}]

BuildContext(request, messages) ==
    LET recent == Recent(messages, request.text)
        facts == TakeFirst(Those(request.facts,
                     {f \in Range(request.facts) : f.relationship = request.relationship}),
                     MaxFacts)
        preferences == TakeFirst(Those(request.preferences,
                     {f \in Range(request.preferences) :
                         f.relationship \in {Anyone, request.relationship}}),
                     MaxPreferences)
        afterMessages == After(TextCosts(recent, Tried(recent)), Tokens[request.text])
        afterFacts == After(Costs(facts), afterMessages)
        afterPreferences == After(Costs(preferences), afterFacts)
    IN  [history |-> Picked(recent, Kept(Tokens[request.text])[recent]),
         facts |-> WhatFits(facts, afterMessages),
         preferences |-> WhatFits(preferences, afterFacts),
         summary |-> /\ request.summary > 0
                     /\ afterPreferences + request.summary <= ContextBudget]

=============================================================================

-------------------------- MODULE ConversationMutex --------------------------
(***************************************************************************)
(* What ThreadExecutionLocks promises: any number of callers may ask for a *)
(* conversation, and at most one of them is inside it at a time.  Which    *)
(* waiting caller enters next is left open: threading.Lock keeps no order. *)
(***************************************************************************)
CONSTANTS
    Caller,     \* the worker threads that ask for a conversation
    Thread,     \* the conversations, by thread_id
    NoThread    \* what a caller that asked for nothing wants

VARIABLES
    wants,      \* wants[c]: the conversation c waits for or is inside of
    inside      \* the callers that are inside the conversation they want

vars == <<wants, inside>>

Init ==
    /\ wants = [c \in Caller |-> NoThread]
    /\ inside = {}

\* c asks for conversation t and waits.
Ask(c, t) ==
    /\ wants[c] = NoThread
    /\ wants' = [wants EXCEPT ![c] = t]
    /\ UNCHANGED inside

\* c enters: nobody is inside the conversation it waits for.
Enter(c) ==
    /\ wants[c] # NoThread
    /\ \A d \in inside : wants[d] # wants[c]
    /\ inside' = inside \cup {c}
    /\ UNCHANGED wants

\* c leaves the conversation it is inside of.
Leave(c) ==
    /\ c \in inside
    /\ inside' = inside \ {c}
    /\ wants' = [wants EXCEPT ![c] = NoThread]

Next ==
    \E c \in Caller :
        \/ \E t \in Thread : Ask(c, t)
        \/ Enter(c)
        \/ Leave(c)

Spec == Init /\ [][Next]_vars

=============================================================================

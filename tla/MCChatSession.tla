---------------------------- MODULE MCChatSession ----------------------------
(* ChatSession on a few requests of two devices for one thread_id.           *)
EXTENDS ChatSession, TLC

\* Requests are alike, and so are the devices.
Symmetry == Permutations(Request) \cup Permutations(Owner)

=============================================================================

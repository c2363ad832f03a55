---------------------------- MODULE MCThreadLocks ----------------------------
(* ThreadLocks on four callers, two conversations and four lock objects:     *)
(* enough for one conversation's entry to be dropped and made anew while two *)
(* others race for it, and for a dropped object to be allocated again.       *)
EXTENDS ThreadLocks

=============================================================================

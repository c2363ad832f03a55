---------------------------- MODULE MCResearchRun ----------------------------
(* ResearchRun on three files: one before and one after an edited one.       *)
EXTENDS ResearchRun

=============================================================================

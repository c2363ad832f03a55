-------------------------- MODULE MCCorpusLifecycle --------------------------
(* CorpusLifecycle on an original chunk that is online and a new one that is  *)
(* kept for research only: a build of the new one has nothing to serve, and   *)
(* can get in the other's way; a build of the original lacks a collection.    *)
EXTENDS CorpusLifecycle, TLC

CONSTANTS c1, n1

MCChunk == {c1, n1}
MCOnline == {c1}
MCNewKb == {n1}
MCBuilds == {{n1}, {c1}, {c1, n1}}

\* Runs of one script are alike, and so are the version names.
Symmetry == Permutations(Publisher) \cup Permutations(Rollbacker) \cup Permutations(Version)

=============================================================================

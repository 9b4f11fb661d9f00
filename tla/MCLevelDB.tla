----------------------------- MODULE MCLevelDB -----------------------------
(* Instances of LevelDB for TLC.                                           *)
EXTENDS LevelDB

CONSTANTS w1, w2, r1

\* The two writers are interchangeable (safety runs only).
Threads == Permutations({w1, w2})
=============================================================================

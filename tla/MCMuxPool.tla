----------------------------- MODULE MCMuxPool -----------------------------
(* Small instances of MuxPool for TLC.                                     *)
EXTENDS MuxPool, TLC

\* Callers are alike, and so are sessions and the two directions of a tunnel:
\* sound for the invariants.
Alike == Permutations(Callers) \cup Permutations(Sessions) \cup Permutations(Directions)
=============================================================================

------------------------------ MODULE MCCache -------------------------------
(* Instances of CacheCoordinator for TLC.                                  *)
EXTENDS CacheInvariants, TLC

CONSTANTS short, long, other  \* a one-chunk version, two of maximal length

MCNumChunks == [v \in Versions |-> IF v = short THEN 1 ELSE MaxChunks]

(* Sound where these are interchangeable: the requests always are, and the *)
(* two long versions have the same length.                                 *)
Symmetric == Permutations(Reqs) \cup Permutations({long, other})
=============================================================================

----------------------------- MODULE MCStorage ------------------------------
(* Instances of ChunkStorage for TLC.                                      *)
EXTENDS ChunkStorage, TLC

(* Inodes and tasks are interchangeable.                                   *)
Symmetric == Permutations(Inodes) \cup Permutations(Tasks)
=============================================================================

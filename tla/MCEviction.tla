----------------------------- MODULE MCEviction -----------------------------
(* Instances of Eviction for TLC.                                          *)
EXTENDS Eviction
=============================================================================

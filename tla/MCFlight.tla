------------------------------ MODULE MCFlight ------------------------------
(* Instances of SingleFlight for TLC.                                      *)
EXTENDS SingleFlight
=============================================================================

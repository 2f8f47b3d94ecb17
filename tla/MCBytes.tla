------------------------------ MODULE MCBytes -------------------------------
(* Instances of RoundTrip for TLC.                                         *)
EXTENDS RoundTrip
=============================================================================

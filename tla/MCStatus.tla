------------------------------ MODULE MCStatus ------------------------------
(* The status page for TLC: three bytes of input, two stations that may be   *)
(* exchanged.                                                              *)
EXTENDS Status

Symmetry == Permutations(Clients)
=============================================================================

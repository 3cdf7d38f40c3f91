-------------------------- MODULE MCCommonProtocol --------------------------
(***************************************************************************)
(* Small instances of the bridge core: message 1 fills one cell, message 2 *)
(* fills two.                                                              *)
(***************************************************************************)
EXTENDS CommonProtocol

MCLength == [m \in Message |-> m]
=============================================================================

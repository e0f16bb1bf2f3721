------------------------------- MODULE MCFleet -------------------------------
(***************************************************************************)
(* Instances of Fleet for TLC.                                              *)
(***************************************************************************)
EXTENDS Fleet, TLC

CONSTANTS c1, c2

const_Cluster == {c1, c2}
=============================================================================

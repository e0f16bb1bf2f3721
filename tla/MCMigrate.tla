----------------------------- MODULE MCMigrate ------------------------------
(***************************************************************************)
(* Instances of Migrate for TLC.                                            *)
(***************************************************************************)
EXTENDS Migrate, TLC

CONSTANTS c1, c2, c3

const_Cluster == {c1, c2, c3}

const_Source == {{c1}}

\* A list without and with the source, and none.
const_Target == {{c2, c3}, {c1, c2}, {}}

\* The source's own fleet, and another.
const_TargetFleet == {{c1, c2, c3}, {c2, c3}}
=============================================================================

------------------------------ MODULE MCBackup ------------------------------
(***************************************************************************)
(* An instance of Backup for TLC.                                           *)
(***************************************************************************)
EXTENDS Backup, TLC

CONSTANTS c1, c2

const_Cluster == {c1, c2}

const_Destination == {{}, {c1, c2}}

const_RestoreDestination == {{}, {c1}}
=============================================================================

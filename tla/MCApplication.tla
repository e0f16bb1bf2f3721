--------------------------- MODULE MCApplication ----------------------------
(***************************************************************************)
(* Instances of Application for TLC.                                        *)
(***************************************************************************)
EXTENDS Application, TLC

CONSTANTS c1, c2

const_Cluster == {c1, c2}

const_Rollout == {<<"nginx", "None">>, <<"istio", "nginx">>}
=============================================================================

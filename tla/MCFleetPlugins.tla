--------------------------- MODULE MCFleetPlugins ---------------------------
(***************************************************************************)
(* Instances of FleetPlugins for TLC.                                       *)
(***************************************************************************)
EXTENDS FleetPlugins, TLC

CONSTANTS c1, c2, c3

const_Member == {c1, c2, c3}

const_FirstReady == {{c1}, {c2, c3}}

const_FleetSpec ==
  {{"metric"}, {"kyverno", "grafana"}, {"backup"}, {"submariner"}}
=============================================================================

--------------------------- MODULE MCCustomCluster ---------------------------
(***************************************************************************)
(* Small instances of CustomCluster for TLC.                                *)
(***************************************************************************)
EXTENDS CustomCluster

\* Two versions a kubeadm upgrade apart; and a third out of its reach.
MCVersion2 == {<<1, 23, 0>>, <<1, 24, 0>>}

MCVersion == {<<1, 23, 0>>, <<1, 24, 0>>, <<1, 26, 0>>}
=============================================================================

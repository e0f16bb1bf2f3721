---------------------------- MODULE MCInventory -----------------------------
(* CustomMachines of one to three masters and one or two workers, some of    *)
(* which the webhook refuses.                                                *)
EXTENDS Inventory

m1 == <<"m1", "p1", "q1">>
m2 == <<"m2", "p2", "q2">>
m3 == <<"m3", "p3", "q3">>
w1 == <<"w1", "p4", "q4">>
w2 == <<"w2", "p5", "q5">>
moved == <<"w1", "p6", "q6">>     \* w1 with other addresses
second == <<"m1", "p7", "q7">>    \* a worker with the name of a master
unnamed == <<"", "p8", "q8">>
noAddress == <<"w3", "", "q9">>

Nodes == {<<>>, <<w1>>, <<w2, w1>>, <<moved, w2>>, <<w1, moved>>, <<second>>, <<w2, unnamed>>, <<w1, noAddress>>}

MCSpecs ==
  [master : {<<m1>>}, nodes : Nodes]
  \cup [master : {<<m1, m2>>, <<m1, m2, m3>>, <<m1, unnamed, m3>>}, nodes : {<<w1>>}]

\* Two that one upgrade takes to each other, and one that is too far from the first.
MCVersions == {<<1, 25, 4>>, <<1, 26, 0>>, <<1, 27, 1>>}
=============================================================================

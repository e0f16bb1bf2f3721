---------------------------- MODULE MCInstallers ----------------------------
(* Three members, in the order Karmada lists them. *)
EXTENDS Installers

MCMembers == <<"c1", "c2", "c3">>
=============================================================================

------------------------------ MODULE PluginSet ------------------------------
(***************************************************************************)
(* What reconcilePlugins promises, whatever runs concurrently inside: a     *)
(* call works for the releases that were wanted when it began.  It creates  *)
(* no other, and it deletes none of them; and it deletes a release that is  *)
(* not wanted only when all of those that are wanted are there.             *)
(***************************************************************************)
CONSTANT
  Release  \* the releases there may be

VARIABLES
  wanted,   \* the releases the fleet asks for now
  call,     \* of a running call, those it asked for when the call began: a set
            \* that is empty or has that one element
  releases  \* the releases there are

vars == <<wanted, call, releases>>

Init ==
  /\ wanted \in SUBSET Release
  /\ call = {}
  /\ releases = {}

\* The fleet or the readiness of its clusters changes.
Change ==
  /\ wanted' \in SUBSET Release
  /\ UNCHANGED <<call, releases>>

Begin ==
  /\ call = {}
  /\ call' = {wanted}
  /\ UNCHANGED <<wanted, releases>>

Apply ==
  /\ \E W \in call : \E R \in SUBSET W : releases' = releases \cup R
  /\ UNCHANGED <<wanted, call>>

Prune ==
  /\ \E W \in call :
       /\ W \subseteq releases
       /\ \E r \in releases \ W : releases' = releases \ {r}
  /\ UNCHANGED <<wanted, call>>

End ==
  /\ call # {}
  /\ call' = {}
  /\ UNCHANGED <<wanted, releases>>

Next == Change \/ Begin \/ Apply \/ Prune \/ End

Spec == Init /\ [][Next]_vars
=============================================================================

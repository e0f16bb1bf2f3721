---------------------------- MODULE Application -----------------------------
(***************************************************************************)
(* The Application controller of the fleet manager.  An Application has a   *)
(* source and sync policies.  For each policy and each selected cluster of  *)
(* the fleet the controller applies a Flux resource (a Kustomization or a   *)
(* HelmRelease); a policy with a rollout also gets a Flagger canary, and    *)
(* what the canary needs, in the cluster itself.  An Application without a  *)
(* fleet is one whose only cluster is the host.                             *)
(*                                                                          *)
(* One step of the controller is one whole call of Reconcile.  It has one   *)
(* worker, and polls: Reconcile is due as long as the Application is there. *)
(***************************************************************************)
EXTENDS FiniteSets, Integers

CONSTANTS
  Cluster,    \* the clusters of fleet.Spec.Clusters
  N,          \* the number of sync policies
  Rollout,    \* what the policies may be, functions to {"None", "istio", "nginx"}
  Renamed,    \* policies whose service has another name than the workload
  MaxRules,   \* bound on the rules of an ingress that are counted
  MaxEdits,   \* bound on the edits of the spec
  MaxMishaps  \* bound on calls that are cut short, and clusters that go

ASSUME ClusterAssumption == IsFiniteSet(Cluster)
ASSUME PolicyAssumption ==
  /\ N \in Nat \ {0}
  /\ Rollout \subseteq [1..N -> {"None", "istio", "nginx"}]
  /\ Renamed \subseteq 1..N
ASSUME BoundAssumption == MaxRules \in Nat \ {0} /\ MaxEdits \in Nat /\ MaxMishaps \in Nat

Policy == 1..N

\* What a rollout puts into a cluster, apart from the ingress.
Item == {"sidecar", "testloader", "metric", "canary"}

VARIABLES
  exists, deletionTimestamp, finalizer, \* the Application
  rollout,       \* the traffic routing provider of each policy, or "None"
  testLoader,    \* the policies that ask for a private test loader
  selected,      \* the clusters the selector of each policy matches
  fleet,         \* the fleet is there
  objects,       \* the clusters whose object is there
  source,        \* the Flux source is there
  resources,     \* the Flux resources: policy, cluster
  services,      \* the services Flux has deployed: policy, cluster
  made,          \* what the rollouts have made: policy, cluster, item
  labels,        \* the policies in the app label of the ingress of a cluster; none: no ingress
  rules,         \* the rules of the ingress for the host of each policy
  syncStatus,    \* status.syncStatus: a Flux resource each, and has it the status of a canary?
  edits, mishaps \* what is left of the bounds

objectVars == <<exists, deletionTimestamp, finalizer>>

specVars == <<rollout, testLoader, selected>>

fleetVars == <<fleet, objects>>

memberVars == <<made, labels, rules>>

vars == <<objectVars, specVars, fleetVars, source, resources, services, memberVars, syncStatus, edits, mishaps>>
-----------------------------------------------------------------------------
(* A rollout in one cluster is applied in four steps. *)

\* fetchFleetClusterList looks at every cluster of the fleet.
ListFails == objects # Cluster

\* Step 1 enables the sidecars of the namespace, or extends the ingress.
sidecarStep == 1

\* Step 2 installs the private test loader, or deletes it if it is not asked for.
testLoaderStep == 2

\* Step 3 needs the service, and applies the templates of the metrics.
metricStep == 3

\* Step 4 creates the canary, or updates the one that is found.
canaryStep == 4

\* Mutant: a private test loader is never taken away.
Mutant_syncRollout(p, i, k, was) == was \/
  CASE i = "sidecar"    -> rollout[p] # "nginx" /\ k >= sidecarStep
    [] i = "testloader" -> p \in testLoader /\ k >= testLoaderStep
    [] i = "metric"     -> k >= metricStep
    [] i = "canary"     -> k >= canaryStep

\* Is item i there once k steps of the rollout of p are done?
syncRollout(p, i, k, was) ==
  CASE i = "sidecar"    -> was \/ (rollout[p] # "nginx" /\ k >= sidecarStep)
    [] i = "testloader" -> IF k >= testLoaderStep THEN p \in testLoader ELSE was
    [] i = "metric"     -> was \/ k >= metricStep
    [] i = "canary"     -> was \/ k >= canaryStep

\* The canary is looked up under the name of the service and created under the
\* name of the workload.
canaryFound(p, c) == <<p, c, "canary">> \in made /\ p \notin Renamed

\* Mutant: the canary is only updated, never created.
Mutant_canaryCanBeApplied(p, c) == canaryFound(p, c)

canaryCanBeApplied(p, c) == canaryFound(p, c) \/ <<p, c, "canary">> \notin made

\* Mutant: a service that is not found is not an error.
Mutant_stopsAt(p, c) == IF ~canaryCanBeApplied(p, c) THEN metricStep ELSE canaryStep

\* Where the rollout of p in c stops when nothing fails.
stopsAt(p, c) ==
  IF <<p, c>> \notin services THEN testLoaderStep
  ELSE IF ~canaryCanBeApplied(p, c) THEN metricStep
  ELSE canaryStep

Completes(p) == rollout[p] # "None" => \A c \in selected[p] : stopsAt(p, c) = canaryStep

\* renderNginxIngress appends a rule each time.
addRule(n) == IF n < MaxRules THEN n + 1 ELSE n

\* The steps that are done for each policy and cluster are given by reach.
ApplyRollouts(reach) ==
  LET on(p, c) == rollout[p] = "nginx" /\ reach[<<p, c>>] >= sidecarStep IN
  /\ made' = {x \in Policy \X Cluster \X Item :
               IF rollout[x[1]] = "None" THEN x \in made
               ELSE syncRollout(x[1], x[3], reach[<<x[1], x[2]>>], x \in made)}
  /\ labels' = [c \in Cluster |-> labels[c] \cup {p \in Policy : on(p, c)}]
  /\ rules' = [c \in Cluster |-> [p \in Policy |-> IF on(p, c) THEN addRule(rules[c][p]) ELSE rules[c][p]]]
-----------------------------------------------------------------------------
(* Reconcile *)

\* A step of the controller that changes the finalizer to f.
Finalize(f) ==
  /\ finalizer' = f
  /\ exists' = ~(deletionTimestamp /\ ~f)
  /\ UNCHANGED deletionTimestamp

\* faulty: some call failed, among them the deferred patch.
Faults(faulty) ==
  /\ faulty => mishaps > 0
  /\ mishaps' = IF faulty THEN mishaps - 1 ELSE mishaps

\* The fleet is not found: the call returns, with RequeueAfter.  It does so for
\* an Application that is deleted, too.
reconcileNoFleet(patched) ==
  /\ exists
  /\ ~fleet
  /\ Finalize(finalizer \/ (patched /\ ~deletionTimestamp))
  /\ Faults(~patched)
  /\ UNCHANGED <<specVars, fleetVars, source, resources, services, memberVars, syncStatus, edits>>

\* How many steps are done for each policy and cluster, by a call that stops in
\* policy q: all for the policies before it and in the clusters D, and k in x.
Reach(q, D, x, k) ==
  [pc \in Policy \X Cluster |->
     IF pc[2] \notin selected[pc[1]] \/ pc[1] > q THEN 0
     ELSE IF pc[1] < q \/ pc[2] \in D THEN canaryStep
     ELSE IF pc[2] = x THEN k ELSE 0]

\* The canaries whose status is read in the clusters.  A canary that is not
\* found is an error, but syncRollout has just applied it.
reconcileRolloutSyncStatus ==
  {pc \in Policy \X Cluster : rollout[pc[1]] # "None" /\ pc[2] \in selected[pc[1]]}

\* All Flux resources are listed, those of no selected cluster, too.
reconcileSyncStatus(all) == {<<pc[1], pc[2], pc \in reconcileRolloutSyncStatus>> : pc \in all}

\* What a call does that stops in policy q (N + 1: none; the policies are
\* handled in order): the Flux resources of the clusters R are applied, the
\* rollouts of the clusters D are done, and that of the cluster x stops after k
\* steps.
Apply(q, R, D, x, k, patched) ==
  /\ source' = TRUE
  /\ resources' = resources
       \cup {pc \in Policy \X Cluster : pc[1] < q /\ pc[2] \in selected[pc[1]]}
       \cup ({q} \X R)
  /\ ApplyRollouts(Reach(q, D, x, k))
  /\ syncStatus' = IF patched /\ q = N + 1 THEN reconcileSyncStatus(resources') ELSE syncStatus
  /\ Finalize(finalizer \/ patched)
  /\ UNCHANGED <<specVars, fleetVars, services, edits>>

Normal == exists /\ ~deletionTimestamp /\ fleet

\* All policies are done, and the status is written.
reconcile(patched) ==
  /\ Normal /\ ~ListFails
  /\ \A p \in Policy : Completes(p)
  /\ Faults(~patched)
  /\ Apply(N + 1, {}, {}, CHOOSE c \in Cluster : TRUE, 0, patched)

\* A cluster of the fleet is missing: RequeueAfter, once the source is applied.
reconcileClusterMissing(patched) ==
  /\ Normal /\ ListFails
  /\ Faults(~patched)
  /\ Apply(1, {}, {}, CHOOSE c \in Cluster : TRUE, 0, patched)

\* The first policy q that cannot be completed: its rollout stops at a cluster
\* x, after some of those, D, where it does not.
reconcileStops(q, D, x, patched) ==
  /\ Normal /\ ~ListFails
  /\ ~Completes(q) /\ \A p \in Policy : p < q => Completes(p)
  /\ x \in selected[q] /\ stopsAt(q, x) < canaryStep
  /\ \A c \in D : stopsAt(q, c) = canaryStep
  /\ Faults(~patched)
  /\ Apply(q, selected[q], D, x, stopsAt(q, x), patched)

\* A call fails in policy q, while the Flux resources are applied.
reconcileFluxFails(q, R) ==
  /\ Normal /\ ~ListFails
  /\ \A p \in Policy : p < q => Completes(p)
  /\ Faults(TRUE)
  /\ Apply(q, R, {}, CHOOSE c \in Cluster : TRUE, 0, TRUE)

\* A call fails in the rollout of policy q in the cluster x.
reconcileRolloutFails(q, D, x, k) ==
  /\ Normal /\ ~ListFails
  /\ rollout[q] # "None"
  /\ \A p \in Policy : p < q => Completes(p)
  /\ \A c \in D : stopsAt(q, c) = canaryStep
  /\ k <= stopsAt(q, x)
  /\ Faults(TRUE)
  /\ Apply(q, selected[q], D, x, k, TRUE)

\* Mutant: an error of the deletion is only logged.
Mutant_keepsFinalizer(failed) == FALSE

keepsFinalizer(failed) == failed

\* Deletion takes four steps as well: ingress, test loader, metrics, canary.
\* The label of the namespace stays, and a canary that is not found.
deleteStep(p, c, i) ==
  CASE i = "testloader" -> 2
    [] i = "metric"     -> 3
    [] i = "canary"     -> IF canaryFound(p, c) THEN 4 ELSE 5
    [] i = "sidecar"    -> 5

DeleteRollouts(reach) ==
  LET off(p, c) == rollout[p] # "None" /\ reach[<<p, c>>] >= 1 IN
  /\ made' = {x \in made : rollout[x[1]] = "None" \/ reach[<<x[1], x[2]>>] < deleteStep(x[1], x[2], x[3])}
  /\ labels' = [c \in Cluster |-> {p \in labels[c] : ~off(p, c)}]
  /\ rules' = [c \in Cluster |-> [p \in Policy |->
                 IF p \in labels[c] /\ off(p, c) THEN 0 ELSE rules[c][p]]]

\* The deletion stops in policy q (N + 1: none), as above.  If a cluster is
\* missing, fetchRolloutClusters returns no cluster and no error.
reconcileDelete(q, D, x, k, patched) ==
  LET failed == ~ListFails /\ q \in Policy IN
  /\ exists /\ deletionTimestamp /\ fleet
  /\ q \in Policy => ~ListFails /\ rollout[q] # "None"
  /\ IF ListFails THEN UNCHANGED memberVars ELSE DeleteRollouts(Reach(q, D, x, k))
  /\ Finalize(keepsFinalizer(failed) \/ ~patched)
  /\ Faults(failed \/ ~patched)
  /\ UNCHANGED <<specVars, fleetVars, source, resources, services, syncStatus, edits>>

Reconcile ==
  \/ \E patched \in BOOLEAN : reconcileNoFleet(patched) \/ reconcile(patched) \/ reconcileClusterMissing(patched)
  \/ \E q \in Policy, patched \in BOOLEAN : \E D \in SUBSET selected[q], x \in selected[q] :
       reconcileStops(q, D, x, patched)
  \/ mishaps > 0 /\ \E q \in Policy : \E S \in SUBSET selected[q] :
       \/ reconcileFluxFails(q, S)
       \/ \E x \in selected[q] \ S, k \in 0..canaryStep : reconcileRolloutFails(q, S, x, k)
  \/ \E patched \in BOOLEAN : reconcileDelete(N + 1, {}, CHOOSE c \in Cluster : TRUE, 0, patched)
  \/ mishaps > 0 /\ \E q \in Policy : \E D \in SUBSET selected[q] :
       \E x \in selected[q] \ D, k \in 0..3 : reconcileDelete(q, D, x, k, TRUE)
-----------------------------------------------------------------------------
(* Flux, the garbage collector, users and the fleet (external). *)

FluxDeploys ==
  /\ services # resources
  /\ services' = resources
  /\ UNCHANGED <<objectVars, specVars, fleetVars, source, resources, memberVars, syncStatus, edits, mishaps>>

\* The Flux resources are owned by the Application.
GarbageCollect ==
  /\ ~exists
  /\ source \/ resources # {}
  /\ source' = FALSE
  /\ resources' = {}
  /\ UNCHANGED <<objectVars, specVars, fleetVars, services, memberVars, syncStatus, edits, mishaps>>

DeleteApplication ==
  /\ exists /\ ~deletionTimestamp
  /\ deletionTimestamp' = TRUE
  /\ exists' = finalizer
  /\ UNCHANGED <<finalizer, specVars, fleetVars, source, resources, services, memberVars, syncStatus, edits, mishaps>>

EditSpec ==
  /\ exists
  /\ edits > 0
  /\ edits' = edits - 1
  /\ \/ \E p \in Policy : testLoader' = (testLoader \ {p}) \cup ({p} \ testLoader) /\ UNCHANGED selected
     \/ \E p \in Policy, S \in SUBSET Cluster : selected' = [selected EXCEPT ![p] = S] /\ UNCHANGED testLoader
  /\ UNCHANGED <<objectVars, rollout, fleetVars, source, resources, services, memberVars, syncStatus, mishaps>>

FleetChanges ==
  /\ mishaps > 0
  /\ mishaps' = mishaps - 1
  /\ \/ fleet' = FALSE /\ UNCHANGED objects
     \/ \E c \in objects : objects' = objects \ {c} /\ UNCHANGED fleet
  /\ UNCHANGED <<objectVars, specVars, source, resources, services, memberVars, syncStatus, edits>>

FleetReturns ==
  /\ ~fleet \/ objects # Cluster
  /\ fleet' = TRUE
  /\ objects' = Cluster
  /\ UNCHANGED <<objectVars, specVars, source, resources, services, memberVars, syncStatus, edits, mishaps>>

Environment == FluxDeploys \/ GarbageCollect \/ DeleteApplication \/ EditSpec \/ FleetChanges \/ FleetReturns
-----------------------------------------------------------------------------
\* The Application has just been applied.
Init ==
  /\ exists = TRUE
  /\ deletionTimestamp = FALSE
  /\ finalizer = FALSE
  /\ rollout \in Rollout
  /\ testLoader = {1}
  /\ selected = [p \in Policy |-> Cluster]
  /\ fleet = TRUE
  /\ objects = Cluster
  /\ source = FALSE
  /\ resources = {}
  /\ services = {}
  /\ made = {}
  /\ labels = [c \in Cluster |-> {}]
  /\ rules = [c \in Cluster |-> [p \in Policy |-> 0]]
  /\ syncStatus = {}
  /\ edits = MaxEdits
  /\ mishaps = MaxMishaps

Next == Reconcile \/ Environment

Spec == Init /\ [][Next]_vars

\* The controller polls, Flux deploys, and a fleet or a cluster that is missing
\* is put back.  FleetReturns is the user's doing: an Application of a fleet
\* that is gone for good is never deleted.
Fairness ==
  /\ WF_vars(Reconcile)
  /\ WF_vars(FluxDeploys)
  /\ WF_vars(FleetReturns)

FairSpec == Spec /\ Fairness
-----------------------------------------------------------------------------
(* Properties. *)

\* Type correctness: resources and rules are those of a policy in a cluster.
\* Checked as a part of CanaryAfterService.
TypeOK ==
  /\ {exists, deletionTimestamp, finalizer, fleet, source} \subseteq BOOLEAN
  /\ rollout \in Rollout /\ testLoader \subseteq Policy /\ selected \in [Policy -> SUBSET Cluster]
  /\ objects \subseteq Cluster
  /\ resources \subseteq Policy \X Cluster /\ services \subseteq Policy \X Cluster
  /\ syncStatus \subseteq Policy \X Cluster \X BOOLEAN
  /\ made \subseteq Policy \X Cluster \X Item
  /\ labels \in [Cluster -> SUBSET Policy]
  /\ rules \in [Cluster -> [Policy -> 0..MaxRules]]
  /\ edits \in Nat /\ mishaps \in Nat

\* A canary is only made for a workload whose service is deployed in that
\* cluster, though the calls before may have stopped at any step.
CanaryAfterService ==
  /\ TypeOK
  /\ exists => \A p \in Policy, c \in Cluster : <<p, c, "canary">> \in made => <<p, c>> \in services

\* When the finalizer is removed, nothing of a rollout of the spec is left in a
\* selected cluster, if the objects of all clusters are there: the calls before
\* may have stopped anywhere.  Only a canary that is looked up under another
\* name than its own stays.
RolloutsDeleted ==
  [][exists /\ finalizer /\ ~exists' /\ ~ListFails =>
       \A p \in Policy : rollout[p] # "None" => \A c \in selected[p] :
         /\ \A i \in Item \ {"sidecar"} : <<p, c, i>> \in made' => i = "canary" /\ p \in Renamed
         /\ p \notin labels'[c] /\ rules'[c][p] = 0]_vars

\* Every policy gets to every selected cluster, its rollout included, and the
\* status lists it with the state of its canary, whatever stopped earlier calls.
Deployed ==
  <>[](exists /\ ~deletionTimestamp) =>
    <>[](\A p \in Policy, c \in Cluster : c \in selected[p] =>
           /\ <<p, c>> \in resources
           /\ <<p, c, rollout[p] # "None">> \in syncStatus
           /\ rollout[p] # "None" => <<p, c, "canary">> \in made)

\* A private test loader goes when it is not asked for any more, and comes when
\* it is: "if delete private testloader when rollout polity has changed".
TestLoaderFollowsSpec ==
  <>[](exists /\ ~deletionTimestamp) =>
    <>[](\A p \in Policy : rollout[p] # "None" => \A c \in selected[p] :
           (<<p, c, "testloader">> \in made) = (p \in testLoader))

=============================================================================

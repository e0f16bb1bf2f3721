------------------------ MODULE FleetPlugins_proofs -------------------------
(***************************************************************************)
(* Theorems about what the fleet manager puts into the clusters of a fleet. *)
(*                                                                          *)
(* Application, for every fleet, every number of policies with any          *)
(* rollouts, and all bounds.                                                *)
(*                                                                          *)
(* FleetPlugins, for every set of clusters and every choice of plugins: the *)
(* calls of reconcilePlugins keep the promise of PluginSet.  What has to be *)
(* known of the states of a call is that a result "Done" means that all     *)
(* stages of the plugin are applied.                                        *)
(*                                                                          *)
(* The two modules share no state, and no statement is about both.          *)
(***************************************************************************)
EXTENDS Application, FleetPlugins, TLAPS

-----------------------------------------------------------------------------
(* Application: the invariant. *)

\* Why CanaryAfterService holds: Flux takes a service away only with its
\* resource, and Reconcile never takes a resource away.  And the ingress has
\* rules only for the policies in its label, so that the deletion, which goes by
\* the label, finds them all.
RolloutInv ==
  /\ CanaryAfterService
  /\ exists => services \subseteq resources
  /\ \A c \in Cluster, p \in Policy : rules[c][p] # 0 => p \in labels[c]
-----------------------------------------------------------------------------
(* Application: facts about the helpers. *)

\* What Finalize leaves of the Application.
LEMMA FinalizeType ==
  ASSUME TypeOK, NEW f \in BOOLEAN, Finalize(f)
  PROVE  {exists', deletionTimestamp', finalizer'} \subseteq BOOLEAN
<1>1. deletionTimestamp \in BOOLEAN
  BY DEF TypeOK
<1>2. exists' \in BOOLEAN
  BY DEF Finalize
<1>3. finalizer' \in BOOLEAN /\ deletionTimestamp' \in BOOLEAN
  BY <1>1 DEF Finalize
<1> QED
  BY <1>2, <1>3

LEMMA FaultsType ==
  ASSUME TypeOK, NEW b, Faults(b)
  PROVE  mishaps' \in Nat
  BY DEF TypeOK, Faults

\* A rollout, carried as far as reach says, keeps to policies and clusters, and
\* extends the label of an ingress with its rules.
LEMMA RolloutsApplied ==
  ASSUME TypeOK, NEW reach, ApplyRollouts(reach)
  PROVE  /\ made' \subseteq Policy \X Cluster \X Item
         /\ labels' \in [Cluster -> SUBSET Policy]
         /\ rules' \in [Cluster -> [Policy -> 0..MaxRules]]
         /\ (\A c \in Cluster, p \in Policy : rules[c][p] # 0 => p \in labels[c])
              => \A c \in Cluster, p \in Policy : rules'[c][p] # 0 => p \in labels'[c]
         /\ \A p \in Policy, c \in Cluster :
              <<p, c, "canary">> \in made' =>
                <<p, c, "canary">> \in made \/ (rollout[p] # "None" /\ reach[<<p, c>>] >= canaryStep)
<1>1. made' \subseteq Policy \X Cluster \X Item
  BY DEF ApplyRollouts
<1>2. labels' \in [Cluster -> SUBSET Policy]
  BY DEF ApplyRollouts, TypeOK
<1>3. \A n \in 0..MaxRules : addRule(n) \in 0..MaxRules
  BY BoundAssumption DEF addRule
<1>4. rules' \in [Cluster -> [Policy -> 0..MaxRules]]
  BY <1>3 DEF ApplyRollouts, TypeOK
<1>5. ASSUME NEW c \in Cluster, NEW p \in Policy, rules[c][p] # 0 => p \in labels[c], rules'[c][p] # 0
      PROVE  p \in labels'[c]
  BY <1>5 DEF ApplyRollouts
<1>6. ASSUME NEW p \in Policy, NEW c \in Cluster, <<p, c, "canary">> \in made'
      PROVE  <<p, c, "canary">> \in made \/ (rollout[p] # "None" /\ reach[<<p, c>>] >= canaryStep)
  <2>1. \/ <<p, c, "canary">> \in made
        \/ /\ rollout[p] # "None"
           /\ syncRollout(p, "canary", reach[<<p, c>>], <<p, c, "canary">> \in made)
    BY <1>6 DEF ApplyRollouts
  <2> QED
    BY <2>1 DEF syncRollout
<1> QED
  BY <1>1, <1>2, <1>4, <1>5, <1>6

\* A deletion that gets as far as reach says.
LEMMA RolloutsDeletedType ==
  ASSUME TypeOK, NEW reach, DeleteRollouts(reach)
  PROVE  /\ made' \subseteq made
         /\ labels' \in [Cluster -> SUBSET Policy]
         /\ rules' \in [Cluster -> [Policy -> 0..MaxRules]]
         /\ (\A c \in Cluster, p \in Policy : rules[c][p] # 0 => p \in labels[c])
              => \A c \in Cluster, p \in Policy : rules'[c][p] # 0 => p \in labels'[c]
<1>1. made' \subseteq made
  BY DEF DeleteRollouts
<1>2. labels' \in [Cluster -> SUBSET Policy]
  BY DEF DeleteRollouts, TypeOK
<1>3. rules' \in [Cluster -> [Policy -> 0..MaxRules]]
  <2>1. 0 \in 0..MaxRules
    BY BoundAssumption
  <2>2. \A c \in Cluster, p \in Policy : rules[c][p] \in 0..MaxRules
    BY DEF TypeOK
  <2>3. rules' = [c \in Cluster |-> [p \in Policy |-> rules'[c][p]]]
    BY DEF DeleteRollouts
  <2>4. \A c \in Cluster, p \in Policy : rules'[c][p] \in {0, rules[c][p]}
    BY DEF DeleteRollouts
  <2> QED
    BY <2>1, <2>2, <2>3, <2>4
<1>4. ASSUME NEW c \in Cluster, NEW p \in Policy, rules[c][p] # 0 => p \in labels[c], rules'[c][p] # 0
      PROVE  p \in labels'[c]
  BY <1>4 DEF DeleteRollouts
<1> QED
  BY <1>1, <1>2, <1>3, <1>4
-----------------------------------------------------------------------------
(* Application: the steps. *)

\* A service is there wherever a rollout may run to its end.
LEMMA EndsAtService ==
  ASSUME NEW p, NEW c, stopsAt(p, c) = canaryStep
  PROVE  <<p, c>> \in services
  BY DEF stopsAt, canaryStep, testLoaderStep

\* Which rollouts Reach lets run to their end.
LEMMA ReachesCanary ==
  ASSUME NEW q \in Nat, NEW D, NEW x, NEW k \in 0..4, NEW p \in Policy, p \in Nat, NEW c \in Cluster,
         Reach(q, D, x, k)[<<p, c>>] >= 4
  PROVE  c \in selected[p] /\ (p < q \/ (p = q /\ (c \in D \/ (c = x /\ k = 4))))
<1> DEFINE r == Reach(q, D, x, k)[<<p, c>>]
<1>1. r = IF c \notin selected[p] \/ p > q THEN 0
          ELSE IF p < q \/ c \in D THEN 4
          ELSE IF c = x THEN k ELSE 0
  BY DEF Reach, canaryStep
<1>2. r >= 4
  OBVIOUS
<1> HIDE DEF r
<1>3. c \in selected[p] /\ ~(p > q)
  BY <1>1, <1>2
<1>4. p < q \/ p = q
  BY <1>3
<1>5. ASSUME ~(p < q), c \notin D PROVE c = x /\ k = 4
  BY <1>1, <1>2, <1>3, <1>5
<1> QED
  BY <1>3, <1>4, <1>5

\* The part of a reconcile that all its outcomes share.
LEMMA ApplyStep ==
  ASSUME RolloutInv, Normal, NEW q \in 1..(N + 1), NEW R \in SUBSET Cluster, NEW D, NEW x, NEW k \in 0..canaryStep,
         NEW patched \in BOOLEAN, Apply(q, R, D, x, k, patched), mishaps' \in Nat,
         q = N + 1 => R = {} /\ D = {} /\ k = 0,
         \A p \in Policy : p < q => Completes(p),
         \A c \in D : stopsAt(q, c) = canaryStep,
         k = canaryStep => stopsAt(q, x) = canaryStep
  PROVE  RolloutInv'
<1> DEFINE reach == Reach(q, D, x, k)
<1> USE DEF Policy
<1>1. TypeOK /\ N \in Nat \ {0}
  BY PolicyAssumption DEF RolloutInv, CanaryAfterService
<1>2. /\ made' \subseteq Policy \X Cluster \X Item
      /\ labels' \in [Cluster -> SUBSET Policy]
      /\ rules' \in [Cluster -> [Policy -> 0..MaxRules]]
      /\ \A c \in Cluster, p \in Policy : rules'[c][p] # 0 => p \in labels'[c]
      /\ \A p \in Policy, c \in Cluster :
           <<p, c, "canary">> \in made' =>
             <<p, c, "canary">> \in made \/ (rollout[p] # "None" /\ reach[<<p, c>>] >= canaryStep)
  <2>1. ApplyRollouts(reach)
    BY DEF Apply
  <2> HIDE DEF reach
  <2> QED
    BY <1>1, <2>1, RolloutsApplied DEF RolloutInv
<1>3. resources' \subseteq Policy \X Cluster /\ resources \subseteq resources'
  <2> DEFINE before == {pair \in Policy \X Cluster : pair[1] < q /\ pair[2] \in selected[pair[1]]}
  <2>1. resources' = resources \cup before \cup ({q} \X R)
    BY DEF Apply
  <2>2. resources \subseteq Policy \X Cluster /\ before \subseteq Policy \X Cluster
    BY <1>1 DEF TypeOK
  <2> HIDE DEF before
  <2>3. q \in Policy \/ R = {}
    BY <1>1
  <2>4. {q} \X R \subseteq Policy \X Cluster
    BY <2>3
  <2> QED
    BY <2>1, <2>2, <2>4
<1>4. syncStatus' \subseteq Policy \X Cluster \X BOOLEAN
  <2>1. reconcileSyncStatus(resources') \subseteq Policy \X Cluster \X BOOLEAN
    <3> SUFFICES ASSUME NEW pair \in resources'
                 PROVE  <<pair[1], pair[2], pair \in reconcileRolloutSyncStatus>> \in Policy \X Cluster \X BOOLEAN
      BY DEF reconcileSyncStatus
    <3>1. pair[1] \in Policy /\ pair[2] \in Cluster
      BY <1>3
    <3>2. (pair \in reconcileRolloutSyncStatus) \in BOOLEAN
      OBVIOUS
    <3> QED
      BY <3>1, <3>2
  <2> QED
    BY <1>1, <2>1 DEF Apply, TypeOK
<1>5. {exists', deletionTimestamp', finalizer'} \subseteq BOOLEAN
  <2> DEFINE f == finalizer \/ patched
  <2>1. f \in BOOLEAN /\ Finalize(f)
    BY DEF Apply
  <2> HIDE DEF f
  <2> QED
    BY <1>1, <2>1, FinalizeType
<1>6. TypeOK'
  <2>1. source' \in BOOLEAN
    BY DEF Apply
  <2>2. UNCHANGED <<rollout, testLoader, selected, fleet, objects, services, edits>>
    BY DEF Apply, specVars, fleetVars
  <2> QED
    BY <1>1, <1>2, <1>3, <1>4, <1>5, <2>1, <2>2 DEF TypeOK
<1>7. ASSUME NEW p \in Policy, NEW c \in Cluster, rollout[p] # "None", reach[<<p, c>>] >= canaryStep
      PROVE  <<p, c>> \in services
  <2>1. c \in selected[p] /\ (p < q \/ (p = q /\ (c \in D \/ (c = x /\ k = canaryStep))))
    <3>1. p \in Nat /\ q \in Nat /\ k \in 0..4 /\ canaryStep = 4
      BY <1>1 DEF canaryStep
    <3> QED
      BY <1>7, <3>1, ReachesCanary
  <2>2. stopsAt(p, c) = canaryStep
    BY <1>7, <2>1 DEF Completes
  <2> QED
    BY <2>2, EndsAtService
<1>8. exists /\ UNCHANGED services
  BY DEF Normal, Apply
<1> QED
  BY <1>2, <1>3, <1>6, <1>7, <1>8 DEF RolloutInv, CanaryAfterService

LEMMA ReconcileStep ==
  ASSUME RolloutInv, Reconcile, ~deletionTimestamp, fleet
  PROVE  RolloutInv'
<1> DEFINE any == CHOOSE c \in Cluster : TRUE
<1>1. TypeOK /\ N \in Nat \ {0} /\ Policy = 1..N
  BY PolicyAssumption DEF RolloutInv, CanaryAfterService, Policy
<1>2. \A p \in Policy : selected[p] \in SUBSET Cluster
  BY <1>1 DEF TypeOK
<1>3. 0 \in 0..canaryStep /\ 0 # canaryStep /\ TRUE \in BOOLEAN
  BY DEF canaryStep
<1>4. ASSUME NEW patched \in BOOLEAN, reconcile(patched)
      PROVE  RolloutInv'
  <2>1. /\ Normal /\ Apply(N + 1, {}, {}, any, 0, patched)
        /\ \A p \in Policy : Completes(p)
        /\ mishaps' \in Nat
    BY <1>1, <1>4, FaultsType DEF reconcile
  <2> HIDE DEF any
  <2>2. N + 1 \in 1..(N + 1)
    BY <1>1
  <2> QED
    BY <1>3, <2>1, <2>2, ApplyStep
<1>5. ASSUME NEW patched \in BOOLEAN, reconcileClusterMissing(patched)
      PROVE  RolloutInv'
  <2>1. /\ Normal /\ Apply(1, {}, {}, any, 0, patched)
        /\ mishaps' \in Nat
    BY <1>1, <1>5, FaultsType DEF reconcileClusterMissing
  <2> HIDE DEF any
  <2>2. 1 \in 1..(N + 1) /\ \A p \in Policy : ~(p < 1)
    BY <1>1
  <2> QED
    BY <1>3, <2>1, <2>2, ApplyStep
<1>6. ASSUME NEW q \in Policy, NEW patched \in BOOLEAN, NEW D, NEW x, reconcileStops(q, D, x, patched)
      PROVE  RolloutInv'
  <2> DEFINE k == stopsAt(q, x)
  <2>1. /\ Normal /\ Apply(q, selected[q], D, x, k, patched)
        /\ \A p \in Policy : p < q => Completes(p)
        /\ \A c \in D : stopsAt(q, c) = canaryStep
        /\ k < canaryStep
        /\ mishaps' \in Nat
    BY <1>1, <1>6, FaultsType DEF reconcileStops
  <2>2. k \in 0..canaryStep
    BY DEF stopsAt, canaryStep, metricStep, testLoaderStep
  <2>3. q \in 1..(N + 1) /\ q # N + 1
    BY <1>1
  <2> HIDE DEF k
  <2>4. k # canaryStep
    BY <2>1, <2>2 DEF canaryStep
  <2> QED
    BY <1>2, <2>1, <2>2, <2>3, <2>4, ApplyStep
<1>7. ASSUME NEW q \in Policy, NEW S \in SUBSET selected[q], reconcileFluxFails(q, S)
      PROVE  RolloutInv'
  <2>1. /\ Normal /\ Apply(q, S, {}, any, 0, TRUE)
        /\ \A p \in Policy : p < q => Completes(p)
        /\ mishaps' \in Nat
    BY <1>1, <1>7, FaultsType DEF reconcileFluxFails
  <2>2. q \in 1..(N + 1) /\ q # N + 1
    BY <1>1
  <2> DEFINE patched == TRUE
         none == {}
  <2>3. S \in SUBSET Cluster /\ patched \in BOOLEAN /\ Apply(q, S, none, any, 0, patched) /\ \A c : c \notin none
    BY <1>2, <2>1
  <2> HIDE DEF any, patched, none
  <2> QED
    BY <1>3, <2>1, <2>2, <2>3, ApplyStep
<1>8. ASSUME NEW q \in Policy, NEW D, NEW x, NEW k \in 0..canaryStep, reconcileRolloutFails(q, D, x, k)
      PROVE  RolloutInv'
  <2>1. /\ Normal /\ Apply(q, selected[q], D, x, k, TRUE)
        /\ \A p \in Policy : p < q => Completes(p)
        /\ \A c \in D : stopsAt(q, c) = canaryStep
        /\ k <= stopsAt(q, x)
        /\ mishaps' \in Nat
    BY <1>1, <1>8, FaultsType DEF reconcileRolloutFails
  <2>2. k = canaryStep => stopsAt(q, x) = canaryStep
    BY <2>1 DEF stopsAt, canaryStep, metricStep, testLoaderStep
  <2>3. q \in 1..(N + 1) /\ q # N + 1
    BY <1>1
  <2> QED
    BY <1>2, <1>3, <2>1, <2>2, <2>3, ApplyStep
<1>9. \A patched : ~reconcileNoFleet(patched)
  BY DEF reconcileNoFleet
<1>10. \A q, D, x, k, patched : ~reconcileDelete(q, D, x, k, patched)
  BY DEF reconcileDelete
<1> QED
  BY <1>4, <1>5, <1>6, <1>7, <1>8, <1>9, <1>10 DEF Reconcile

\* The two branches of Reconcile that do not apply anything.
LEMMA NoFleetStep ==
  ASSUME RolloutInv, NEW patched \in BOOLEAN, reconcileNoFleet(patched)
  PROVE  RolloutInv'
<1> DEFINE f == finalizer \/ (patched /\ ~deletionTimestamp)
<1>1. TypeOK
  BY DEF RolloutInv, CanaryAfterService
<1>2. /\ f \in BOOLEAN /\ Finalize(f) /\ exists
      /\ UNCHANGED <<rollout, testLoader, selected, fleet, objects, source, resources, services,
                     made, labels, rules, syncStatus, edits>>
      /\ mishaps' \in Nat
  BY <1>1, FaultsType DEF reconcileNoFleet, specVars, fleetVars, memberVars
<1> HIDE DEF f
<1>3. {exists', deletionTimestamp', finalizer'} \subseteq BOOLEAN
  BY <1>1, <1>2, FinalizeType
<1>4. TypeOK'
  BY <1>1, <1>2, <1>3 DEF TypeOK
<1> QED
  BY <1>2, <1>4 DEF RolloutInv, CanaryAfterService

LEMMA RolloutDeleteStep ==
  ASSUME RolloutInv, NEW q, NEW D, NEW x, NEW k, NEW patched \in BOOLEAN, reconcileDelete(q, D, x, k, patched)
  PROVE  RolloutInv'
<1> DEFINE failed == ~ListFails /\ q \in Policy
           f == keepsFinalizer(failed) \/ ~patched
           reach == Reach(q, D, x, k)
<1>1. TypeOK
  BY DEF RolloutInv, CanaryAfterService
<1>2. /\ f \in BOOLEAN /\ Finalize(f) /\ exists
      /\ UNCHANGED <<rollout, testLoader, selected, fleet, objects, source, resources, services, syncStatus, edits>>
      /\ UNCHANGED memberVars \/ DeleteRollouts(reach)
      /\ mishaps' \in Nat
  BY <1>1, FaultsType DEF reconcileDelete, specVars, fleetVars
<1> HIDE DEF f, reach
<1>3. {exists', deletionTimestamp', finalizer'} \subseteq BOOLEAN
  BY <1>1, <1>2, FinalizeType
<1>4. /\ made' \subseteq made
      /\ labels' \in [Cluster -> SUBSET Policy]
      /\ rules' \in [Cluster -> [Policy -> 0..MaxRules]]
      /\ \A c \in Cluster, p \in Policy : rules'[c][p] # 0 => p \in labels'[c]
  <2>1. CASE UNCHANGED memberVars
    BY <1>1, <2>1 DEF memberVars, TypeOK, RolloutInv
  <2>2. CASE DeleteRollouts(reach)
    BY <1>1, <2>2, RolloutsDeletedType DEF RolloutInv
  <2> QED
    BY <1>2, <2>1, <2>2
<1>5. TypeOK'
  BY <1>1, <1>2, <1>3, <1>4 DEF TypeOK
<1> QED
  BY <1>2, <1>4, <1>5 DEF RolloutInv, CanaryAfterService

LEMMA RolloutEnvironmentStep ==
  ASSUME RolloutInv, Environment
  PROVE  RolloutInv'
<1>1. TypeOK
  BY DEF RolloutInv, CanaryAfterService
<1> USE DEF objectVars, specVars, fleetVars, memberVars
<1>2. ASSUME TypeOK', exists' => exists, UNCHANGED <<resources, services, made, labels, rules>>
      PROVE  RolloutInv'
  BY <1>2 DEF RolloutInv, CanaryAfterService
<1>3. CASE FluxDeploys
  <2>1. TypeOK'
    BY <1>1, <1>3 DEF TypeOK, FluxDeploys
  <2> QED
    BY <1>3, <2>1 DEF FluxDeploys, RolloutInv, CanaryAfterService
<1>4. CASE GarbageCollect
  <2>1. TypeOK'
    BY <1>1, <1>4 DEF TypeOK, GarbageCollect
  <2> QED
    BY <1>4, <2>1 DEF GarbageCollect, RolloutInv, CanaryAfterService
<1>5. CASE DeleteApplication
  <2>1. exists' \in BOOLEAN /\ deletionTimestamp' \in BOOLEAN
    BY <1>1, <1>5 DEF TypeOK, DeleteApplication
  <2>2. TypeOK'
    BY <1>1, <1>5, <2>1 DEF TypeOK, DeleteApplication
  <2> QED
    BY <1>2, <1>5, <2>2 DEF DeleteApplication
<1>6. CASE EditSpec
  <2>1. testLoader' \subseteq Policy
    BY <1>1, <1>6 DEF TypeOK, EditSpec
  <2>2. selected' \in [Policy -> SUBSET Cluster]
    BY <1>1, <1>6 DEF TypeOK, EditSpec
  <2>3. edits' \in Nat
    BY <1>1, <1>6 DEF TypeOK, EditSpec
  <2>4. UNCHANGED <<objectVars, rollout, fleetVars, source, resources, services, memberVars, syncStatus, mishaps>>
    BY <1>6 DEF EditSpec
  <2>5. TypeOK'
    BY <1>1, <2>1, <2>2, <2>3, <2>4 DEF TypeOK
  <2> QED
    BY <1>2, <2>4, <2>5
<1>7. CASE FleetChanges
  <2>1. fleet' \in BOOLEAN
    BY <1>1, <1>7 DEF TypeOK, FleetChanges
  <2>2. objects' \subseteq Cluster /\ mishaps' \in Nat
    BY <1>1, <1>7 DEF TypeOK, FleetChanges
  <2>3. UNCHANGED <<objectVars, specVars, source, resources, services, memberVars, syncStatus, edits>>
    BY <1>7 DEF FleetChanges
  <2>4. TypeOK'
    BY <1>1, <2>1, <2>2, <2>3 DEF TypeOK
  <2> QED
    BY <1>2, <2>3, <2>4
<1>8. CASE FleetReturns
  <2>1. TypeOK'
    BY <1>1, <1>8 DEF TypeOK, FleetReturns
  <2> QED
    BY <1>2, <1>8, <2>1 DEF FleetReturns
<1> QED
  BY <1>3, <1>4, <1>5, <1>6, <1>7, <1>8 DEF Environment

LEMMA RolloutInvariant == Spec => []RolloutInv
<1>1. Init => RolloutInv
  <2> SUFFICES ASSUME Init PROVE RolloutInv
    OBVIOUS
  <2>1. /\ {exists, deletionTimestamp, finalizer, fleet, source} \subseteq BOOLEAN
        /\ edits \in Nat /\ mishaps \in Nat
    BY BoundAssumption DEF Init
  <2>2. testLoader \subseteq Policy
    BY PolicyAssumption DEF Init, Policy
  <2>3. rules \in [Cluster -> [Policy -> 0..MaxRules]]
    BY BoundAssumption DEF Init
  <2>4. /\ rollout \in Rollout /\ selected \in [Policy -> SUBSET Cluster] /\ objects \subseteq Cluster
        /\ resources = {} /\ services = {} /\ syncStatus = {} /\ made = {}
        /\ labels \in [Cluster -> SUBSET Policy]
        /\ \A c \in Cluster, p \in Policy : rules[c][p] = 0
    BY DEF Init
  <2> QED
    BY <2>1, <2>2, <2>3, <2>4 DEF RolloutInv, CanaryAfterService, TypeOK
<1>2. RolloutInv /\ [Next]_vars => RolloutInv'
  <2> SUFFICES ASSUME RolloutInv, [Next]_vars PROVE RolloutInv'
    OBVIOUS
  <2>1. CASE Reconcile
    <3>1. CASE ~deletionTimestamp /\ fleet
      BY <2>1, <3>1, ReconcileStep
    <3>2. CASE ~(~deletionTimestamp /\ fleet)
      <4>1. /\ \A patched : ~reconcile(patched) /\ ~reconcileClusterMissing(patched)
            /\ \A q, D, x, patched : ~reconcileStops(q, D, x, patched)
            /\ \A q, R : ~reconcileFluxFails(q, R)
            /\ \A q, D, x, k : ~reconcileRolloutFails(q, D, x, k)
        BY <3>2 DEF reconcile, reconcileClusterMissing, reconcileStops, reconcileFluxFails, reconcileRolloutFails, Normal
      <4>2. \/ \E patched \in BOOLEAN : reconcileNoFleet(patched)
            \/ \E patched \in BOOLEAN : \E q, D, x, k : reconcileDelete(q, D, x, k, patched)
        BY <2>1, <4>1 DEF Reconcile
      <4> QED
        BY <4>2, NoFleetStep, RolloutDeleteStep
    <3> QED
      BY <3>1, <3>2
  <2>2. CASE UNCHANGED vars
    BY <2>2 DEF vars, objectVars, specVars, fleetVars, memberVars, RolloutInv, CanaryAfterService, TypeOK
  <2> QED
    BY <2>1, <2>2, RolloutEnvironmentStep DEF Next
<1> QED
  BY <1>1, <1>2, PTL DEF Spec

\* Whichever calls fail at whichever step, however Flux, users and the fleet
\* interleave with the controller, no canary is made in a cluster where the
\* service it shifts traffic for is not deployed.
THEOREM CanariesHaveServices == Spec => []CanaryAfterService
<1>1. RolloutInv => CanaryAfterService
  BY DEF RolloutInv
<1> QED
  BY <1>1, RolloutInvariant, PTL

\* Only a call of reconcileDelete that has gone through all policies removes the
\* finalizer of an Application whose clusters are all there.
LEMMA FinalizerRemoved ==
  ASSUME RolloutInv, Next, exists, finalizer, ~exists', ~ListFails
  PROVE  \E D, x, k : DeleteRollouts(Reach(N + 1, D, x, k)) /\ UNCHANGED <<rollout, selected>>
<1>1. ~Environment
  BY DEF Environment, FluxDeploys, GarbageCollect, DeleteApplication, EditSpec, FleetChanges, FleetReturns, objectVars
<1>2. \A f : Finalize(f) => ~f /\ deletionTimestamp
  BY DEF Finalize
<1>3. /\ \A q, R, D, x, k, patched : Normal => ~Apply(q, R, D, x, k, patched)
      /\ \A patched : ~reconcileNoFleet(patched)
  BY <1>2 DEF Normal, Apply, reconcileNoFleet
<1>4. /\ \A patched : ~reconcile(patched) /\ ~reconcileClusterMissing(patched)
      /\ \A q, D, x, patched : ~reconcileStops(q, D, x, patched)
      /\ \A q, R : ~reconcileFluxFails(q, R)
      /\ \A q, D, x, k : ~reconcileRolloutFails(q, D, x, k)
  BY <1>3 DEF reconcile, reconcileClusterMissing, reconcileStops, reconcileFluxFails, reconcileRolloutFails
<1>5. \A q \in Policy : \A D, x, k, patched : ~reconcileDelete(q, D, x, k, patched)
  BY <1>2 DEF reconcileDelete, keepsFinalizer
<1>6. \E D, x, k, patched : reconcileDelete(N + 1, D, x, k, patched)
  BY <1>1, <1>3, <1>4, <1>5 DEF Next, Reconcile
<1> QED
  BY <1>6 DEF reconcileDelete, specVars

\* An Application is let go only when nothing of its rollouts is left in any
\* selected cluster, wherever the calls before, normal ones and deletions, had
\* stopped; the exceptions are those RolloutsDeleted names.
THEOREM FinalizerAfterRollouts == Spec => RolloutsDeleted
<1> DEFINE Gone == exists /\ finalizer /\ ~exists' /\ ~ListFails =>
       \A p \in Policy : rollout[p] # "None" => \A c \in selected[p] :
         /\ \A i \in Item \ {"sidecar"} : <<p, c, i>> \in made' => i = "canary" /\ p \in Renamed
         /\ p \notin labels'[c] /\ rules'[c][p] = 0
<1>1. RolloutInv /\ [Next]_vars => [Gone]_vars
  <2> SUFFICES ASSUME RolloutInv, Next, exists, finalizer, ~exists', ~ListFails,
                      NEW p \in Policy, rollout[p] # "None", NEW c \in selected[p]
               PROVE  /\ \A i \in Item \ {"sidecar"} : <<p, c, i>> \in made' => i = "canary" /\ p \in Renamed
                      /\ p \notin labels'[c] /\ rules'[c][p] = 0
    OBVIOUS
  <2>1. PICK D, x, k : DeleteRollouts(Reach(N + 1, D, x, k))
    BY FinalizerRemoved
  <2> DEFINE reach == Reach(N + 1, D, x, k)
  <2>2. c \in Cluster /\ p \in 1..N /\ N \in Nat
    BY PolicyAssumption DEF RolloutInv, CanaryAfterService, TypeOK, Policy
  <2>3. reach[<<p, c>>] = 4
    BY <2>2 DEF Reach, canaryStep
  <2>4. DeleteRollouts(reach)
    BY <2>1
  <2> HIDE DEF reach
  <2>5. p \notin labels'[c] /\ rules'[c][p] = 0
    <3>1. /\ labels'[c] = {o \in labels[c] : ~(rollout[o] # "None" /\ reach[<<o, c>>] >= 1)}
          /\ rules'[c][p] = IF p \in labels[c] /\ reach[<<p, c>>] >= 1 THEN 0 ELSE rules[c][p]
      BY <2>2, <2>4 DEF DeleteRollouts
    <3>2. rules[c][p] # 0 => p \in labels[c]
      BY <2>2 DEF RolloutInv
    <3> QED
      BY <2>3, <3>1, <3>2
  <2>6. ASSUME NEW i \in Item \ {"sidecar"}, <<p, c, i>> \in made'
        PROVE  i = "canary" /\ p \in Renamed
    <3>1. <<p, c, i>> \in made /\ 4 < deleteStep(p, c, i)
      BY <2>3, <2>4, <2>6 DEF DeleteRollouts
    <3>2. CASE i = "testloader"
      BY <3>1, <3>2 DEF deleteStep
    <3>3. CASE i = "metric"
      BY <3>1, <3>3 DEF deleteStep
    <3>4. CASE i = "canary"
      BY <3>1, <3>4 DEF deleteStep, canaryFound
    <3> QED
      BY <3>2, <3>3, <3>4 DEF Item
  <2> QED
    BY <2>5, <2>6
<1> QED
  BY <1>1, RolloutInvariant, PTL DEF Spec, RolloutsDeleted

-----------------------------------------------------------------------------
(* The charts. *)

\* A plugin has one stage or two.
LEMMA StagesShape ==
  ASSUME NEW p \in Plugin, NEW o, NEW cl
  PROVE  /\ Len(Stages(p, o, cl)) \in {1, 2}
         /\ DOMAIN Stages(p, o, cl) = 1..Len(Stages(p, o, cl))
<1>1. CASE p = "metric"             BY <1>1 DEF Stages
<1>2. CASE p = "grafana"            BY <1>2 DEF Stages
<1>3. CASE p = "kyverno"            BY <1>3 DEF Stages
<1>4. CASE p = "backup"             BY <1>4 DEF Stages
<1>5. CASE p = "distributedStorage" BY <1>5 DEF Stages
<1>6. CASE p = "flagger"            BY <1>6 DEF Stages
<1>7. CASE p = "submariner"         BY <1>7 DEF Stages
<1>8. CASE p = "provider"           BY <1>8 DEF Stages
<1> QED BY <1>1, <1>2, <1>3, <1>4, <1>5, <1>6, <1>7, <1>8 DEF Plugin

\* The first n stages of a plugin with n stages are all of them.
LEMMA AllStages ==
  ASSUME NEW p \in Plugin, NEW o, NEW cl
  PROVE  Applied(p, o, cl, Len(Stages(p, o, cl))) = Applied(p, o, cl, 2)
<1> DEFINE S == Stages(p, o, cl)
<1>1. Len(S) \in {1, 2} /\ DOMAIN S = 1..Len(S)
  BY StagesShape
<1> HIDE DEF S
<1>2. {j \in DOMAIN S : j <= Len(S)} = {j \in DOMAIN S : j <= 2}
  BY <1>1
<1> QED BY <1>2 DEF Applied, S

\* What is wanted is what the stages of the plugins that are on ask for.
LEMMA StageWanted ==
  ASSUME NEW p \in Plugin, NEW o, NEW cl, Enabled(p, o),
         NEW i \in DOMAIN Stages(p, o, cl)
  PROVE  Stages(p, o, cl)[i] \subseteq Wanted(o, cl)
<1> DEFINE S == Stages(p, o, cl)
<1>1. Len(S) \in {1, 2} /\ DOMAIN S = 1..Len(S)
  BY StagesShape
<1> HIDE DEF S
<1>2. i \in {j \in DOMAIN S : j <= 2}
  BY <1>1 DEF S
<1>3. S[i] \subseteq Applied(p, o, cl, 2)
  BY <1>2 DEF Applied, S
<1>4. Applied(p, o, cl, 2) \subseteq Wanted(o, cl)
  BY DEF Wanted
<1> QED BY <1>3, <1>4 DEF S

LEMMA WantedCovered ==
  ASSUME NEW o, NEW cl, NEW X,
         \A p \in Plugin : Enabled(p, o) => Applied(p, o, cl, 2) \subseteq X
  PROVE  Wanted(o, cl) \subseteq X
BY DEF Wanted

LEMMA StagesInRelease ==
  ASSUME NEW p \in Plugin, NEW o, NEW cl \in SUBSET Member,
         NEW i \in DOMAIN Stages(p, o, cl)
  PROVE  Stages(p, o, cl)[i] \subseteq Release
<1>0. i \in {1, 2}
  BY StagesShape
<1>1. CASE p = "metric"
  BY <1>0, <1>1 DEF Stages, Release, OnEach, RenderThanos, RenderPrometheus
<1>2. CASE p = "grafana"
  BY <1>0, <1>2 DEF Stages, Release, OnEach, RenderGrafana
<1>3. CASE p = "kyverno"
  BY <1>0, <1>3 DEF Stages, Release, OnEach, RenderKyverno, RenderKyvernoPolicy
<1>4. CASE p = "backup"
  BY <1>0, <1>4 DEF Stages, Release, OnEach, RenderVelero
<1>5. CASE p = "distributedStorage"
  BY <1>0, <1>5 DEF Stages, Release, OnEach, RenderStorageOperator, RenderClusterStorage
<1>6. CASE p = "flagger"
  BY <1>0, <1>6 DEF Stages, Release, OnEach, RenderFlagger, RenderRolloutTestloader
<1>7. CASE p = "submariner"
  BY <1>0, <1>7 DEF Stages, Release, OnEach, RenderSubmarinerBroker, RenderSubmarinerOperator
<1>8. CASE p = "provider"
  BY <1>0, <1>8 DEF Stages, Release, OnEach, RenderProvider
<1> QED BY <1>1, <1>2, <1>3, <1>4, <1>5, <1>6, <1>7, <1>8 DEF Plugin

LEMMA WantedInRelease ==
  ASSUME NEW o, NEW cl \in SUBSET Member
  PROVE  Wanted(o, cl) \subseteq Release
<1>1. ASSUME NEW p \in Plugin
      PROVE  Applied(p, o, cl, 2) \subseteq Release
  BY StagesInRelease DEF Applied
<1> QED BY <1>1, WantedCovered

\* The releases the metric and the backup plugin apply on their own.
LEMMA OwnReleasesWanted ==
  ASSUME NEW o, NEW cl, NEW D \in SUBSET cl
  PROVE  /\ Enabled("metric", o) => RenderThanos \cup RenderPrometheus(D) \subseteq Wanted(o, cl)
         /\ Enabled("backup", o) => RenderVelero(D) \subseteq Wanted(o, cl)
<1>1. /\ 1 \in DOMAIN Stages("metric", o, cl)
      /\ Stages("metric", o, cl)[1] = RenderThanos \cup RenderPrometheus(cl)
  BY DEF Stages
<1>2. /\ 1 \in DOMAIN Stages("backup", o, cl)
      /\ Stages("backup", o, cl)[1] = RenderVelero(cl)
  BY DEF Stages
<1>3. RenderPrometheus(D) \subseteq RenderPrometheus(cl)
  BY DEF RenderPrometheus, OnEach
<1>4. RenderVelero(D) \subseteq RenderVelero(cl)
  BY DEF RenderVelero, OnEach
<1>5. "metric" \in Plugin /\ "backup" \in Plugin
  BY DEF Plugin
<1>6. ASSUME Enabled("metric", o)
      PROVE  Stages("metric", o, cl)[1] \subseteq Wanted(o, cl)
  BY <1>1, <1>5, <1>6, StageWanted
<1>7. ASSUME Enabled("backup", o)
      PROVE  Stages("backup", o, cl)[1] \subseteq Wanted(o, cl)
  BY <1>2, <1>5, <1>7, StageWanted
<1> QED BY <1>1, <1>2, <1>3, <1>4, <1>6, <1>7
-----------------------------------------------------------------------------
(* The calls. *)

\* Of a running call: a goroutine that works is that of a plugin that is on, in
\* one of its stages; a result "Done" of a plugin that is on tells that all its
\* releases are there; and a call that deletes has applied all it wants.
CallInv ==
  /\ phase = "Collect" => \A p \in Plugin :
       /\ pc[p] # "Sent" => /\ Enabled(p, seen.options)
                            /\ stage[p] \in DOMAIN stagesOf(p)
                            /\ result[p] = "None"
       /\ result[p] = "Done" /\ Enabled(p, seen.options) => resourcesOf(p, 2) \subseteq releases
  /\ phase = "Prune" => kept \subseteq releases

IInv == PluginTypeOK /\ CallInv

\* A return leaves a state of the right type, with no call.
LEMMA ReturnTypes ==
  ASSUME return
  PROVE  /\ phase' = "Idle"
         /\ seen' \in [options : SUBSET Option, clusters : SUBSET Member]
         /\ pc' \in [Plugin -> {"Apply", "Wait", "Sent"}]
         /\ stage' \in [Plugin -> {1, 2}]
         /\ result' \in [Plugin -> {"None", "Done", "Requeue", "Error"}]
BY DEF return

LEMMA IdleInv ==
  ASSUME phase' = "Idle"
  PROVE  CallInv'
BY DEF CallInv

\* What a goroutine applies in its stage is wanted.
LEMMA StageOfCall ==
  ASSUME IInv, phase = "Collect", NEW p \in Plugin, pc[p] = "Apply"
  PROVE  /\ Enabled(p, seen.options)
         /\ stagesOf(p)[stage[p]] \subseteq kept
         /\ kept \subseteq Release
<1>1. Enabled(p, seen.options) /\ stage[p] \in DOMAIN stagesOf(p)
  BY DEF IInv, CallInv
<1>2. stagesOf(p)[stage[p]] \subseteq kept
  BY <1>1, StageWanted DEF stagesOf, kept
<1>3. seen.clusters \in SUBSET Member
  BY DEF IInv, PluginTypeOK
<1>4. kept \subseteq Release
  BY <1>3, WantedInRelease DEF kept
<1> QED BY <1>1, <1>2, <1>4

LEMMA InitInv == PluginInit => IInv
<1> SUFFICES ASSUME PluginInit PROVE IInv
  OBVIOUS
<1>1. PluginTypeOK
  BY PluginBounds, ReadyAssumption DEF PluginInit, PluginTypeOK
<1>2. CallInv
  BY DEF PluginInit, CallInv
<1> QED BY <1>1, <1>2 DEF IInv

\* A step of a goroutine that leaves the call as it is, sends no "Done" and only
\* adds releases.
LEMMA GoroutineInv ==
  ASSUME IInv, phase = "Collect", NEW p \in Plugin, pc[p] # "Sent",
         NEW r \in {"None", "Requeue", "Error"}, NEW q \in {"Wait", "Sent"},
         q = "Wait" => r = "None",
         UNCHANGED <<phase, seen, stage>>,
         pc' = [pc EXCEPT ![p] = q],
         result' = [result EXCEPT ![p] = r],
         releases \subseteq releases'
  PROVE  CallInv'
<1> USE DEF IInv
<1>1. pc \in [Plugin -> {"Apply", "Wait", "Sent"}] /\ result \in [Plugin -> {"None", "Done", "Requeue", "Error"}]
  BY DEF PluginTypeOK
<1>2. ASSUME NEW a \in Plugin
      PROVE  /\ pc'[a] # "Sent" => /\ Enabled(a, seen'.options)
                                   /\ stage'[a] \in DOMAIN stagesOf(a)'
                                   /\ result'[a] = "None"
             /\ result'[a] = "Done" /\ Enabled(a, seen'.options) => resourcesOf(a, 2)' \subseteq releases'
  <2>1. /\ pc[a] # "Sent" => /\ Enabled(a, seen.options)
                             /\ stage[a] \in DOMAIN stagesOf(a)
                             /\ result[a] = "None"
        /\ result[a] = "Done" /\ Enabled(a, seen.options) => resourcesOf(a, 2) \subseteq releases
    BY DEF CallInv
  <2>2. stagesOf(a)' = stagesOf(a) /\ resourcesOf(a, 2)' = resourcesOf(a, 2)
    BY DEF stagesOf, resourcesOf
  <2>3. CASE a = p
    BY <1>1, <2>1, <2>2, <2>3
  <2>4. CASE a # p
    BY <1>1, <2>1, <2>2, <2>4
  <2> QED BY <2>3, <2>4
<1>3. phase' # "Prune"
  OBVIOUS
<1> QED BY <1>2, <1>3 DEF CallInv

\* A plugin that is done has applied all its stages.
LEMMA FinishStep ==
  ASSUME IInv, NEW p \in Plugin, NEW ok \in BOOLEAN, finish(p, ok)
  PROVE  IInv'
<1>T. PluginTypeOK /\ CallInv
  BY DEF IInv
<1>1. faults' \in Nat
  BY <1>T DEF PluginTypeOK, finish
<1>2. /\ phase = "Collect" /\ pc[p] = "Wait"
      /\ UNCHANGED <<spec, ready, queued, phase, seen, stage, releases, readyReleases, objSecret, backupSecret, pluginEdits>>
      /\ pc' = [pc EXCEPT ![p] = "Sent"]
      /\ result' = [result EXCEPT ![p] = IF ok THEN "Done" ELSE "Error"]
  BY DEF finish, send, askedVars, apiVars
<1>3. PluginTypeOK'
  BY <1>T, <1>1, <1>2 DEF PluginTypeOK
<1>4. resourcesOf(p, 2) \subseteq releases
  <2>1. stage[p] = Len(Stages(p, seen.options, seen.clusters))
    BY DEF finish, stagesOf
  <2>2. resourcesOf(p, stage[p]) = resourcesOf(p, 2)
    BY <2>1, AllStages DEF resourcesOf
  <2> QED BY <1>T, <2>2 DEF finish, helmReleaseReady, PluginTypeOK
<1>5. pc \in [Plugin -> {"Apply", "Wait", "Sent"}] /\ result \in [Plugin -> {"None", "Done", "Requeue", "Error"}]
  BY <1>T DEF PluginTypeOK
<1>6. ASSUME NEW a \in Plugin
      PROVE  /\ pc'[a] # "Sent" => /\ Enabled(a, seen'.options)
                                   /\ stage'[a] \in DOMAIN stagesOf(a)'
                                   /\ result'[a] = "None"
             /\ result'[a] = "Done" /\ Enabled(a, seen'.options) => resourcesOf(a, 2)' \subseteq releases'
  <2>1. /\ pc[a] # "Sent" => /\ Enabled(a, seen.options)
                             /\ stage[a] \in DOMAIN stagesOf(a)
                             /\ result[a] = "None"
        /\ result[a] = "Done" /\ Enabled(a, seen.options) => resourcesOf(a, 2) \subseteq releases
    BY <1>T, <1>2 DEF CallInv
  <2>2. stagesOf(a)' = stagesOf(a) /\ resourcesOf(a, 2)' = resourcesOf(a, 2)
    BY <1>2 DEF stagesOf, resourcesOf
  <2>3. CASE a = p
    BY <1>2, <1>4, <1>5, <2>1, <2>2, <2>3
  <2>4. CASE a # p
    BY <1>2, <1>5, <2>1, <2>2, <2>4
  <2> QED BY <2>3, <2>4
<1>7. CallInv'
  BY <1>2, <1>6 DEF CallInv
<1> QED BY <1>3, <1>7 DEF IInv

\* Every step of a goroutine keeps the invariant.
LEMMA GoroutineStep ==
  ASSUME IInv, NEW p \in Plugin, goroutine(p)
  PROVE  IInv'
<1>T. PluginTypeOK /\ CallInv
  BY DEF IInv
<1>1. CASE patchStage(p)
  <2>1. phase = "Collect" /\ pc[p] = "Apply" /\ releases' = releases \cup stagesOf(p)[stage[p]]
    BY <1>1 DEF patchStage
  <2>2. stagesOf(p)[stage[p]] \subseteq Release
    BY <2>1, StageOfCall
  <2>3. PluginTypeOK'
    BY <1>T, <1>1, <2>1, <2>2 DEF PluginTypeOK, patchStage, askedVars, bounds
  <2>4. result' = [result EXCEPT ![p] = "None"]
    BY <1>T, <1>1, <2>1 DEF PluginTypeOK, CallInv, patchStage
  <2>5. CallInv'
    BY <1>1, <2>1, <2>4, GoroutineInv DEF patchStage
  <2> QED BY <2>3, <2>5 DEF IInv
<1>2. ASSUME NEW R \in SUBSET stagesOf(p)[stage[p]], patchStageFails(p, R)
      PROVE  IInv'
  <2>1. phase = "Collect" /\ pc[p] = "Apply" /\ releases' = releases \cup R
    BY <1>2 DEF patchStageFails
  <2>2. R \subseteq Release
    BY <2>1, StageOfCall
  <2>3. PluginTypeOK'
    BY <1>T, <1>2, <2>1, <2>2 DEF PluginTypeOK, patchStageFails, send, askedVars
  <2>4. CallInv'
    BY <1>2, <2>1, GoroutineInv DEF patchStageFails, send
  <2> QED BY <2>3, <2>4 DEF IInv
<1>3. CASE submarinerTooFew(p)
  <2>1. PluginTypeOK'
    BY <1>T, <1>3 DEF PluginTypeOK, submarinerTooFew, send, askedVars, apiVars, bounds
  <2>2. CallInv'
    BY <1>3, GoroutineInv DEF submarinerTooFew, send, apiVars
  <2> QED BY <2>1, <2>2 DEF IInv
<1>4. ASSUME NEW c \in Member, syncObjStoreSecret(p, c)
      PROVE  IInv'
  <2>1. /\ phase = "Collect" /\ pc[p] = "Apply" /\ p = "metric"
        /\ releases' = releases \cup RenderThanos \cup RenderPrometheus(seen.clusters \cap objSecret)
    BY <1>4 DEF syncObjStoreSecret
  <2>2. RenderThanos \cup RenderPrometheus(seen.clusters \cap objSecret) \subseteq kept
    BY <2>1, StageOfCall, OwnReleasesWanted DEF kept
  <2>3. kept \subseteq Release
    BY <2>1, StageOfCall
  <2>4. PluginTypeOK'
    BY <1>T, <1>4, <2>1, <2>2, <2>3 DEF PluginTypeOK, syncObjStoreSecret, send, askedVars, bounds
  <2>5. CallInv'
    BY <1>4, <2>1, GoroutineInv DEF syncObjStoreSecret, send
  <2> QED BY <2>4, <2>5 DEF IInv
<1>5. ASSUME NEW c \in Member, createBackupSecret(p, c)
      PROVE  IInv'
  <2> DEFINE D == IF secretsMissing(p) \subseteq {c} THEN seen.clusters ELSE {c}
  <2>1. /\ phase = "Collect" /\ pc[p] = "Apply" /\ p = "backup" /\ c \in seen.clusters
        /\ releases' = releases \cup RenderVelero(D)
    BY <1>5 DEF createBackupSecret
  <2>2. D \in SUBSET seen.clusters
    BY <2>1
  <2> HIDE DEF D
  <2>3. RenderVelero(D) \subseteq kept
    BY <2>1, <2>2, StageOfCall, OwnReleasesWanted DEF kept
  <2>4. kept \subseteq Release
    BY <2>1, StageOfCall
  <2>5. CASE pc' = [pc EXCEPT ![p] = "Wait"] /\ UNCHANGED <<stage, result>>
    <3>1. PluginTypeOK'
      BY <1>T, <1>5, <2>1, <2>3, <2>4, <2>5 DEF PluginTypeOK, createBackupSecret, askedVars, bounds
    <3>2. result' = [result EXCEPT ![p] = "None"]
      BY <1>T, <2>1, <2>5 DEF PluginTypeOK, CallInv
    <3>3. CallInv'
      BY <1>5, <2>1, <2>5, <3>2, GoroutineInv DEF createBackupSecret
    <3> QED BY <3>1, <3>3 DEF IInv
  <2>6. CASE send(p, "Error")
    <3>1. PluginTypeOK'
      BY <1>T, <1>5, <2>1, <2>3, <2>4, <2>6 DEF PluginTypeOK, createBackupSecret, send, askedVars, bounds
    <3>2. CallInv'
      BY <1>5, <2>1, <2>6, GoroutineInv DEF createBackupSecret, send
    <3> QED BY <3>1, <3>2 DEF IInv
  <2> QED BY <1>5, <2>5, <2>6 DEF createBackupSecret
<1>6. CASE waitStage(p)
  <2>1. PluginTypeOK'
    BY <1>T, <1>6 DEF PluginTypeOK, waitStage, send, askedVars, apiVars, bounds
  <2>2. CallInv'
    BY <1>6, GoroutineInv DEF waitStage, send, apiVars
  <2> QED BY <2>1, <2>2 DEF IInv
<1>7. CASE nextStage(p)
  <2>1. stage[p] + 1 \in DOMAIN stagesOf(p) /\ stage[p] + 1 = 2
    <3>1. /\ Len(stagesOf(p)) \in {1, 2}
          /\ DOMAIN stagesOf(p) = 1..Len(stagesOf(p))
      BY StagesShape DEF stagesOf
    <3>2. stage[p] \in {1, 2} /\ stage[p] < Len(stagesOf(p))
      BY <1>T, <1>7 DEF PluginTypeOK, nextStage
    <3>3. stage[p] = 1 /\ Len(stagesOf(p)) = 2
      BY <3>1, <3>2
    <3> QED BY <3>1, <3>3
  <2>2. PluginTypeOK'
    BY <1>T, <1>7, <2>1 DEF PluginTypeOK, nextStage, askedVars, apiVars, bounds
  <2>3. /\ phase = "Collect" /\ phase' = "Collect" /\ pc[p] = "Wait"
        /\ UNCHANGED <<seen, result, releases>>
        /\ stage' = [stage EXCEPT ![p] = @ + 1] /\ pc' = [pc EXCEPT ![p] = "Apply"]
    BY <1>7 DEF nextStage, apiVars
  <2>4. stage \in [Plugin -> {1, 2}] /\ pc \in [Plugin -> {"Apply", "Wait", "Sent"}]
    BY <1>T DEF PluginTypeOK
  <2>5. ASSUME NEW a \in Plugin
        PROVE  /\ pc'[a] # "Sent" => /\ Enabled(a, seen'.options)
                                     /\ stage'[a] \in DOMAIN stagesOf(a)'
                                     /\ result'[a] = "None"
               /\ result'[a] = "Done" /\ Enabled(a, seen'.options) => resourcesOf(a, 2)' \subseteq releases'
    <3>1. /\ pc[a] # "Sent" => /\ Enabled(a, seen.options)
                               /\ stage[a] \in DOMAIN stagesOf(a)
                               /\ result[a] = "None"
          /\ result[a] = "Done" /\ Enabled(a, seen.options) => resourcesOf(a, 2) \subseteq releases
      BY <1>T, <2>3 DEF CallInv
    <3>2. stagesOf(a)' = stagesOf(a) /\ resourcesOf(a, 2)' = resourcesOf(a, 2)
      BY <2>3 DEF stagesOf, resourcesOf
    <3>3. CASE a = p
      BY <2>1, <2>3, <2>4, <3>1, <3>2, <3>3
    <3>4. CASE a # p
      BY <2>3, <2>4, <3>1, <3>2, <3>4
    <3> QED BY <3>3, <3>4
  <2>6. CallInv'
    BY <2>3, <2>5 DEF CallInv
  <2> QED BY <2>2, <2>6 DEF IInv
<1>8. CASE panics(p)
  <2>1. return /\ queued' = TRUE
    BY <1>8 DEF panics, crash
  <2>2. PluginTypeOK'
    BY <1>T, <1>8, <2>1, ReturnTypes DEF PluginTypeOK, panics, askedVars, apiVars, bounds
  <2> QED BY <2>1, <2>2, ReturnTypes, IdleInv DEF IInv
<1>9. ASSUME NEW ok \in BOOLEAN, finish(p, ok)
      PROVE  IInv'
  BY <1>9, IInv, FinishStep
<1> QED BY <1>1, <1>2, <1>3, <1>4, <1>5, <1>6, <1>7, <1>8, <1>9 DEF goroutine

\* Every step keeps the invariant.
LEMMA NextInv == IInv /\ [PluginNext]_pluginVars => IInv'
<1> SUFFICES ASSUME IInv, [PluginNext]_pluginVars PROVE IInv'
  OBVIOUS
<1>T. PluginTypeOK /\ CallInv
  BY DEF IInv
<1>1. CASE reconcilePlugins
  <2>1. PluginTypeOK'
    BY <1>T, <1>1, OptionAssumption DEF PluginTypeOK, reconcilePlugins, askedVars, apiVars, bounds
  <2>2. phase' = "Collect" /\ seen' = [options |-> spec, clusters |-> ready]
    BY <1>1 DEF reconcilePlugins
  <2>3. ASSUME NEW p \in Plugin
        PROVE  /\ pc'[p] = (IF Enabled(p, spec) THEN "Apply" ELSE "Sent")
               /\ result'[p] = (IF Enabled(p, spec) THEN "None" ELSE "Done")
               /\ stage'[p] = 1
               /\ 1 \in DOMAIN stagesOf(p)'
    <3>1. /\ pc'[p] = (IF Enabled(p, spec) THEN "Apply" ELSE "Sent")
          /\ result'[p] = (IF Enabled(p, spec) THEN "None" ELSE "Done")
          /\ stage'[p] = 1
      BY <1>1 DEF reconcilePlugins
    <3>2. 1 \in DOMAIN Stages(p, seen'.options, seen'.clusters)
      BY StagesShape
    <3> QED BY <3>1, <3>2 DEF stagesOf
  <2>4. CallInv'
    BY <2>2, <2>3 DEF CallInv
  <2> QED BY <2>1, <2>4 DEF IInv
<1>2. CASE collect
  <2>1. CASE prune /\ phase' = "Prune" /\ UNCHANGED <<seen, pc, stage, result>>
    <3>1. PluginTypeOK'
      BY <1>T, <1>2, <2>1 DEF PluginTypeOK, collect, askedVars, apiVars, bounds, prune
    <3>2. \A p \in Plugin : Enabled(p, seen.options) => Applied(p, seen.options, seen.clusters, 2) \subseteq releases
      BY <1>T, <1>2, <2>1 DEF CallInv, collect, prune, resourcesOf
    <3>3. kept \subseteq releases
      BY <3>2, WantedCovered DEF kept
    <3>4. kept' = kept /\ releases' = releases
      BY <1>2, <2>1 DEF kept, collect, apiVars
    <3>5. CallInv'
      BY <2>1, <3>3, <3>4 DEF CallInv
    <3> QED BY <3>1, <3>5 DEF IInv
  <2>2. CASE return
    <3>1. PluginTypeOK'
      BY <1>T, <1>2, <2>2, ReturnTypes DEF PluginTypeOK, collect, askedVars, apiVars, bounds, prune
    <3> QED BY <2>2, <3>1, ReturnTypes, IdleInv DEF IInv
  <2> QED BY <1>2, <2>1, <2>2 DEF collect
<1>3. ASSUME NEW r \in redundant, NEW ok \in BOOLEAN, reconcilePluginResources(r, ok)
      PROVE  IInv'
  <2>1. CASE ok
    <3>1. PluginTypeOK'
      BY <1>T, <1>3, <2>1 DEF PluginTypeOK, reconcilePluginResources, askedVars, callVars
    <3>2. kept' = kept /\ phase' = "Prune" /\ releases' = releases \ {r}
      BY <1>3, <2>1 DEF reconcilePluginResources, callVars, kept
    <3>3. kept \subseteq releases /\ r \notin kept
      BY <1>T, <1>3 DEF CallInv, reconcilePluginResources, redundant
    <3>4. CallInv'
      BY <3>2, <3>3 DEF CallInv
    <3> QED BY <3>1, <3>4 DEF IInv
  <2>2. CASE ~ok
    <3>1. return /\ faults > 0 /\ faults' = faults - 1
      BY <1>3, <2>2 DEF reconcilePluginResources
    <3>2. PluginTypeOK'
      BY <1>T, <1>3, <2>2, <3>1, ReturnTypes DEF PluginTypeOK, reconcilePluginResources, askedVars
    <3> QED BY <3>1, <3>2, ReturnTypes, IdleInv DEF IInv
  <2> QED BY <2>1, <2>2
<1>4. CASE reconcileDone
  <2>1. PluginTypeOK'
    BY <1>T, <1>4, ReturnTypes DEF PluginTypeOK, reconcileDone, askedVars, apiVars, bounds
  <2> QED BY <1>4, <2>1, ReturnTypes, IdleInv DEF IInv, reconcileDone
<1>5. ASSUME NEW p \in Plugin, goroutine(p)
      PROVE  IInv'
  BY <1>5, IInv, GoroutineStep
<1>6. CASE Crash
  <2>1. return /\ queued' = TRUE
    BY <1>6 DEF Crash, crash
  <2>2. PluginTypeOK'
    BY <1>T, <1>6, <2>1, ReturnTypes DEF PluginTypeOK, Crash, askedVars, apiVars
  <2> QED BY <2>1, <2>2, ReturnTypes, IdleInv DEF IInv
<1>7. CASE EditPlugin
  <2>1. PluginTypeOK'
    BY <1>T, <1>7 DEF PluginTypeOK, EditPlugin, callVars, apiVars
  <2>2. CallInv'
    BY <1>T, <1>7 DEF CallInv, EditPlugin, callVars, apiVars, stagesOf, resourcesOf, kept
  <2> QED BY <2>1, <2>2 DEF IInv
<1>8. ASSUME NEW c \in Member, ClusterReadiness(c)
      PROVE  IInv'
  <2>1. PluginTypeOK'
    BY <1>T, <1>8 DEF PluginTypeOK, ClusterReadiness, callVars, apiVars
  <2>2. CallInv'
    BY <1>T, <1>8 DEF CallInv, ClusterReadiness, callVars, apiVars, stagesOf, resourcesOf, kept
  <2> QED BY <2>1, <2>2 DEF IInv
<1>9. ASSUME NEW r \in Release, ReleaseBecomesReady(r)
      PROVE  IInv'
  <2>1. PluginTypeOK'
    BY <1>T, <1>9 DEF PluginTypeOK, ReleaseBecomesReady, askedVars, callVars, bounds
  <2>2. CallInv'
    BY <1>T, <1>9 DEF CallInv, ReleaseBecomesReady, callVars, stagesOf, resourcesOf, kept
  <2> QED BY <2>1, <2>2 DEF IInv
<1>10. CASE UNCHANGED pluginVars
  <2>1. PluginTypeOK'
    BY <1>T, <1>10 DEF PluginTypeOK, pluginVars, askedVars, callVars, apiVars, bounds
  <2>2. CallInv'
    BY <1>T, <1>10 DEF CallInv, pluginVars, callVars, apiVars, stagesOf, resourcesOf, kept
  <2> QED BY <2>1, <2>2 DEF IInv
<1> QED
  BY <1>1, <1>2, <1>3, <1>4, <1>5, <1>6, <1>7, <1>8, <1>9, <1>10
  DEF PluginNext, controller, PluginEnvironment
-----------------------------------------------------------------------------
(* The theorems. *)

\* The states of every call are as CallInv tells.
THEOREM Invariance == PluginSpec => []IInv
<1>1. PluginInit => IInv
  BY InitInv
<1>2. IInv /\ [PluginNext]_pluginVars => IInv'
  BY NextInv
<1> QED BY <1>1, <1>2, PTL DEF PluginSpec

\* The variables have their types, for every fleet.
THEOREM TypeCorrect == PluginSpec => []PluginTypeOK
<1>1. IInv => PluginTypeOK
  BY DEF IInv
<1> QED BY <1>1, Invariance, PTL

LEMMA InitPromise == PluginInit => Promise!Init
<1> SUFFICES ASSUME PluginInit PROVE Promise!Init
  OBVIOUS
<1>1. ready \in SUBSET Member
  BY ReadyAssumption DEF PluginInit
<1>2. Wanted(spec, ready) \in SUBSET Release
  BY <1>1, WantedInRelease
<1> QED BY <1>2 DEF PluginInit, Promise!Init

\* A call that ends.
LEMMA EndPromise ==
  ASSUME phase # "Idle", return, UNCHANGED <<spec, ready, releases>>
  PROVE  Promise!End
BY DEF return, Promise!End

\* Steps that change neither the fleet nor the releases, nor what the call is for.
LEMMA StutterPromise ==
  ASSUME UNCHANGED <<spec, ready, seen, releases>>, (phase = "Idle") = (phase' = "Idle")
  PROVE  UNCHANGED Promise!vars
BY DEF Promise!vars, kept

\* A step that applies wanted releases.
LEMMA ApplyPromise ==
  ASSUME phase = "Collect", UNCHANGED <<spec, ready, seen, phase>>,
         NEW R, R \subseteq kept, releases' = releases \cup R
  PROVE  Promise!Apply
BY DEF Promise!Apply, kept

\* What a goroutine does is a step of the promise.
LEMMA GoroutinePromise ==
  ASSUME IInv, NEW p \in Plugin, goroutine(p)
  PROVE  [Promise!Next]_Promise!vars
<1>1. CASE patchStage(p)
  <2>1. /\ phase = "Collect" /\ pc[p] = "Apply" /\ releases' = releases \cup stagesOf(p)[stage[p]]
        /\ UNCHANGED <<spec, ready, seen, phase>>
    BY <1>1 DEF patchStage, askedVars
  <2>2. stagesOf(p)[stage[p]] \subseteq kept
    BY <2>1, StageOfCall
  <2> QED BY <2>1, <2>2, ApplyPromise DEF Promise!Next
<1>2. ASSUME NEW R \in SUBSET stagesOf(p)[stage[p]], patchStageFails(p, R)
      PROVE  [Promise!Next]_Promise!vars
  <2>1. /\ phase = "Collect" /\ pc[p] = "Apply" /\ releases' = releases \cup R
        /\ UNCHANGED <<spec, ready, seen, phase>>
    BY <1>2 DEF patchStageFails, askedVars
  <2>2. R \subseteq kept
    BY <2>1, StageOfCall
  <2> QED BY <2>1, <2>2, ApplyPromise DEF Promise!Next
<1>3. CASE submarinerTooFew(p)
  BY <1>3, StutterPromise DEF submarinerTooFew, askedVars, apiVars
<1>4. ASSUME NEW c \in Member, syncObjStoreSecret(p, c)
      PROVE  [Promise!Next]_Promise!vars
  <2> DEFINE R == RenderThanos \cup RenderPrometheus(seen.clusters \cap objSecret)
  <2>1. /\ phase = "Collect" /\ pc[p] = "Apply" /\ p = "metric" /\ releases' = releases \cup R
        /\ UNCHANGED <<spec, ready, seen, phase>>
    BY <1>4 DEF syncObjStoreSecret, askedVars
  <2>2. R \subseteq kept
    BY <2>1, StageOfCall, OwnReleasesWanted DEF kept
  <2> HIDE DEF R
  <2> QED BY <2>1, <2>2, ApplyPromise DEF Promise!Next
<1>5. ASSUME NEW c \in Member, createBackupSecret(p, c)
      PROVE  [Promise!Next]_Promise!vars
  <2> DEFINE D == IF secretsMissing(p) \subseteq {c} THEN seen.clusters ELSE {c}
  <2>1. /\ phase = "Collect" /\ pc[p] = "Apply" /\ p = "backup" /\ c \in seen.clusters
        /\ releases' = releases \cup RenderVelero(D)
        /\ UNCHANGED <<spec, ready, seen, phase>>
    BY <1>5 DEF createBackupSecret, askedVars
  <2>2. D \in SUBSET seen.clusters
    BY <2>1
  <2> HIDE DEF D
  <2>3. RenderVelero(D) \subseteq kept
    BY <2>1, <2>2, StageOfCall, OwnReleasesWanted DEF kept
  <2> QED BY <2>1, <2>3, ApplyPromise DEF Promise!Next
<1>6. CASE waitStage(p)
  BY <1>6, StutterPromise DEF waitStage, askedVars, apiVars
<1>7. CASE nextStage(p)
  BY <1>7, StutterPromise DEF nextStage, askedVars, apiVars
<1>8. CASE panics(p)
  BY <1>8, EndPromise DEF panics, crash, askedVars, apiVars, Promise!Next
<1>9. ASSUME NEW ok \in BOOLEAN, finish(p, ok)
      PROVE  [Promise!Next]_Promise!vars
  BY <1>9, StutterPromise DEF finish, askedVars, apiVars
<1> QED BY <1>1, <1>2, <1>3, <1>4, <1>5, <1>6, <1>7, <1>8, <1>9 DEF goroutine

\* Every step is a step of the promise, or changes nothing it speaks of.
LEMMA NextPromise == IInv /\ [PluginNext]_pluginVars => [Promise!Next]_Promise!vars
<1> SUFFICES ASSUME IInv, [PluginNext]_pluginVars PROVE [Promise!Next]_Promise!vars
  OBVIOUS
<1>1. CASE reconcilePlugins
  <2>1. /\ phase = "Idle" /\ phase' = "Collect" /\ seen' = [options |-> spec, clusters |-> ready]
        /\ UNCHANGED <<spec, ready, releases>>
    BY <1>1 DEF reconcilePlugins, askedVars, apiVars
  <2>2. kept' = Wanted(spec, ready)
    BY <2>1 DEF kept
  <2>3. Promise!Begin
    BY <2>1, <2>2 DEF Promise!Begin
  <2> QED BY <2>3 DEF Promise!Next
<1>2. CASE collect
  <2>1. CASE prune
    BY <1>2, <2>1, StutterPromise DEF collect, askedVars, apiVars
  <2>2. CASE ~prune
    BY <1>2, <2>2, EndPromise DEF collect, askedVars, apiVars, Promise!Next
  <2> QED BY <2>1, <2>2
<1>3. ASSUME NEW r \in redundant, NEW ok \in BOOLEAN, reconcilePluginResources(r, ok)
      PROVE  [Promise!Next]_Promise!vars
  <2>1. CASE ok
    <3>1. /\ phase = "Prune" /\ releases' = releases \ {r} /\ UNCHANGED <<spec, ready, seen, phase>>
      BY <1>3, <2>1 DEF reconcilePluginResources, askedVars, callVars
    <3>2. kept \subseteq releases /\ r \in releases \ kept
      BY <1>3, <3>1 DEF IInv, CallInv, redundant
    <3>3. kept' = kept
      BY <3>1 DEF kept
    <3>4. Promise!Prune
      BY <3>1, <3>2, <3>3 DEF Promise!Prune
    <3> QED BY <3>4 DEF Promise!Next
  <2>2. CASE ~ok
    BY <1>3, <2>2, EndPromise DEF reconcilePluginResources, askedVars, Promise!Next
  <2> QED BY <2>1, <2>2
<1>4. CASE reconcileDone
  BY <1>4, EndPromise DEF reconcileDone, askedVars, apiVars, Promise!Next
<1>5. ASSUME NEW p \in Plugin, goroutine(p)
      PROVE  [Promise!Next]_Promise!vars
  BY <1>5, GoroutinePromise
<1>6. CASE Crash
  BY <1>6, EndPromise DEF Crash, crash, askedVars, apiVars, Promise!Next
<1>7. ASSUME \/ EditPlugin
             \/ \E c \in Member : ClusterReadiness(c)
      PROVE  [Promise!Next]_Promise!vars
  <2>1. ready' \in SUBSET Member /\ UNCHANGED <<seen, phase, releases>>
    BY <1>7 DEF IInv, PluginTypeOK, EditPlugin, ClusterReadiness, callVars, apiVars
  <2>2. Wanted(spec', ready') \in SUBSET Release
    BY <2>1, WantedInRelease
  <2>3. Promise!Change
    BY <2>1, <2>2 DEF Promise!Change, kept
  <2> QED BY <2>3 DEF Promise!Next
<1>8. ASSUME NEW r \in Release, ReleaseBecomesReady(r)
      PROVE  [Promise!Next]_Promise!vars
  BY <1>8, StutterPromise DEF ReleaseBecomesReady, askedVars, callVars
<1>9. CASE UNCHANGED pluginVars
  BY <1>9, StutterPromise DEF pluginVars, askedVars, callVars, apiVars
<1> QED
  BY <1>1, <1>2, <1>3, <1>4, <1>5, <1>6, <1>7, <1>8, <1>9 DEF PluginNext, controller, PluginEnvironment

\* The calls of reconcilePlugins, with their goroutines, edits, crashes and
\* clusters that come and go, implement PluginSet.
THEOREM Refinement == PluginSpec => KeepsPromise
<1>1. PluginInit => Promise!Init
  BY InitPromise
<1>2. IInv /\ [PluginNext]_pluginVars => [Promise!Next]_Promise!vars
  BY NextPromise
<1> QED BY <1>1, <1>2, Invariance, PTL DEF PluginSpec, KeepsPromise, Promise!Spec

=============================================================================

---------------------------- MODULE FleetPlugins ----------------------------
(***************************************************************************)
(* reconcilePlugins of the Fleet controller.  One call starts a goroutine   *)
(* per plugin, which applies the releases of the plugin stage by stage and  *)
(* sends its result on a channel; when all have sent, the call deletes the  *)
(* releases no plugin has asked for, unless one of the results is an error  *)
(* or asks to be called again.  Flux makes the releases ready meanwhile, and *)
(* the fleet and its clusters change.                                       *)
(***************************************************************************)
EXTENDS PluginCharts

CONSTANTS
  FleetSpec,  \* the sets of options a user may choose
  FirstReady, \* the sets of clusters that may be ready at the start
  MaxPluginEdits, \* bound on the edits of fleet.Spec.Plugin
  MaxFaults   \* bound on failed API calls, crashes, and clusters that change their readiness

ASSUME OptionAssumption == FleetSpec \subseteq SUBSET Option
ASSUME ReadyAssumption == FirstReady \subseteq SUBSET Member
ASSUME PlaceAssumption == Broker \in Member /\ NoCluster \notin Member /\ IsFiniteSet(Member)
ASSUME PluginBounds == MaxPluginEdits \in Nat /\ MaxFaults \in Nat

VARIABLES
  spec,         \* fleet.Spec.Plugin
  ready,        \* the clusters that are ready
  queued,       \* is a reconcile due?
  phase,        \* of the call: "Idle", "Collect" or "Prune"
  seen,         \* the options and the clusters the call read when it began
  pc,           \* where the goroutine of each plugin is
  stage,        \* its stage
  result,       \* what it has sent
  releases,     \* the releases in the fleet's namespace
  readyReleases,\* those with condition Ready
  objSecret,    \* the clusters with the object store secret of Thanos
  backupSecret, \* the clusters with the secret of Velero
  pluginEdits,  \* what is left of MaxPluginEdits
  faults        \* and of MaxFaults

askedVars == <<spec, ready>>

callVars == <<phase, seen, pc, stage, result>>

apiVars == <<releases, readyReleases, objSecret, backupSecret>>

bounds == <<pluginEdits, faults>>

pluginVars == <<askedVars, queued, callVars, apiVars, bounds>>

\* What the goroutine of p applies in its stage, has applied when the stage is
\* done, and has applied at the end.
stagesOf(p) == Stages(p, seen.options, seen.clusters)

resourcesOf(p, n) == Applied(p, seen.options, seen.clusters, n)

kept == Wanted(seen.options, seen.clusters)
-----------------------------------------------------------------------------
(* The call. *)

\* BuildFleetClusters has found the ready clusters; the goroutines start.
reconcilePlugins ==
  /\ queued
  /\ phase = "Idle"
  /\ queued' = FALSE
  /\ phase' = "Collect"
  /\ seen' = [options |-> spec, clusters |-> ready]
  /\ pc' = [p \in Plugin |-> IF Enabled(p, spec) THEN "Apply" ELSE "Sent"]
  /\ stage' = [p \in Plugin |-> 1]
  /\ result' = [p \in Plugin |-> IF Enabled(p, spec) THEN "None" ELSE "Done"]
  /\ UNCHANGED <<askedVars, apiVars, bounds>>

send(p, r) ==
  /\ pc' = [pc EXCEPT ![p] = "Sent"]
  /\ result' = [result EXCEPT ![p] = r]
  /\ UNCHANGED stage

\* The call returns, or dies with the process: its local variables are gone.
return ==
  /\ phase' = "Idle"
  /\ seen' = [options |-> {}, clusters |-> {}]
  /\ pc' = [p \in Plugin |-> "Sent"]
  /\ stage' = [p \in Plugin |-> 1]
  /\ result' = [p \in Plugin |-> "Done"]

\* A goroutine that panics takes the process down, and the call with it.
crash ==
  /\ return
  /\ queued' = TRUE

\* Submariner wants two clusters.
tooFew(p) == p = "submariner" /\ Cardinality(seen.clusters) < 2

\* The secrets that go to the clusters with the first stage of the plugin.
secretsMissing(p) ==
  IF p = "metric" THEN seen.clusters \ objSecret
  ELSE IF p = "backup" THEN seen.clusters \ backupSecret
  ELSE {}

\* PatchResources for all releases of the stage.
patchStage(p) ==
  /\ phase = "Collect"
  /\ pc[p] = "Apply"
  /\ ~tooFew(p)
  /\ secretsMissing(p) = {}
  /\ releases' = releases \cup stagesOf(p)[stage[p]]
  /\ pc' = [pc EXCEPT ![p] = "Wait"]
  /\ UNCHANGED <<askedVars, queued, phase, seen, stage, result, readyReleases, objSecret, backupSecret, bounds>>

\* A write fails after the releases R have been applied.
patchStageFails(p, R) ==
  /\ phase = "Collect"
  /\ pc[p] = "Apply"
  /\ faults > 0
  /\ faults' = faults - 1
  /\ releases' = releases \cup R
  /\ send(p, "Error")
  /\ UNCHANGED <<askedVars, queued, phase, seen, readyReleases, objSecret, backupSecret, pluginEdits>>

submarinerTooFew(p) ==
  /\ phase = "Collect"
  /\ pc[p] = "Apply"
  /\ tooFew(p)
  /\ send(p, "Error")
  /\ UNCHANGED <<askedVars, queued, phase, seen, apiVars, bounds>>

\* The object store secret is created in the first cluster c without it.  The
\* code then updates the object its failed Get returned, which has no name: the
\* call fails although the secret is there.
syncObjStoreSecret(p, c) ==
  /\ phase = "Collect"
  /\ p = "metric"
  /\ pc[p] = "Apply"
  /\ c \in secretsMissing(p)
  /\ objSecret' = objSecret \cup {c}
  /\ releases' = releases \cup RenderThanos \cup RenderPrometheus(seen.clusters \cap objSecret)
  /\ send(p, "Error")
  /\ UNCHANGED <<askedVars, queued, phase, seen, readyReleases, backupSecret, bounds>>

\* createNewSecretInFleetCluster, cluster by cluster in the order of a map: the
\* first cluster c of that order gets the secret if it lacks it.  The object
\* carries the resource version of that cluster from then on, so the secret
\* cannot be created in another one.
createBackupSecret(p, c) ==
  LET missing == secretsMissing(p) IN
  /\ phase = "Collect"
  /\ p = "backup"
  /\ pc[p] = "Apply"
  /\ missing # {}
  /\ c \in seen.clusters
  /\ backupSecret' = backupSecret \cup {c}
  /\ releases' = releases \cup RenderVelero(IF missing \subseteq {c} THEN seen.clusters ELSE {c})
  /\ IF missing \subseteq {c}
     THEN pc' = [pc EXCEPT ![p] = "Wait"] /\ UNCHANGED <<stage, result>>
     ELSE send(p, "Error")
  /\ UNCHANGED <<askedVars, queued, phase, seen, readyReleases, objSecret, bounds>>

helmReleaseReady(p) == resourcesOf(p, stage[p]) \subseteq readyReleases

waitStage(p) ==
  /\ phase = "Collect"
  /\ pc[p] = "Wait"
  /\ ~helmReleaseReady(p)
  /\ send(p, "Requeue")
  /\ UNCHANGED <<askedVars, queued, phase, seen, apiVars, bounds>>

\* The broker cluster is not among the ready ones: getBrokerConfig dereferences
\* the cluster that was not found.
noBroker(p) == p = "submariner" /\ stage[p] = 1 /\ Broker \notin seen.clusters

nextStage(p) ==
  /\ phase = "Collect"
  /\ pc[p] = "Wait"
  /\ helmReleaseReady(p)
  /\ stage[p] < Len(stagesOf(p))
  /\ ~noBroker(p)
  /\ stage' = [stage EXCEPT ![p] = @ + 1]
  /\ pc' = [pc EXCEPT ![p] = "Apply"]
  /\ UNCHANGED <<askedVars, queued, phase, seen, result, apiVars, bounds>>

panics(p) ==
  /\ phase = "Collect"
  /\ pc[p] = "Wait"
  /\ helmReleaseReady(p)
  /\ noBroker(p)
  /\ crash
  /\ UNCHANGED <<askedVars, apiVars, bounds>>

\* updateNewSecretOwnerReference sends the object with the resource version of
\* one cluster to all of them: with two clusters one of the updates conflicts.
ownerConflict(p) == p = "backup" /\ Cardinality(seen.clusters) >= 2

\* The last stage is ready: the plugin's own last writes (owner references, the
\* service of the Thanos sidecars), and the result.
finish(p, ok) ==
  /\ phase = "Collect"
  /\ pc[p] = "Wait"
  /\ helmReleaseReady(p)
  /\ stage[p] = Len(stagesOf(p))
  /\ IF ownerConflict(p) THEN ~ok ELSE ok \/ faults > 0
  /\ faults' = IF ok \/ ownerConflict(p) THEN faults ELSE faults - 1
  /\ send(p, IF ok THEN "Done" ELSE "Error")
  /\ UNCHANGED <<askedVars, queued, phase, seen, apiVars, pluginEdits>>

allSent == \A p \in Plugin : pc[p] = "Sent"

\* Mutant: a result that asks to be called again does not keep the call from
\* deleting.
Mutant_prune == \A p \in Plugin : result[p] # "Error"

\* No result is an error or asks for another call.
prune == \A p \in Plugin : result[p] = "Done"

\* The channel is closed and read to its end.
collect ==
  /\ phase = "Collect"
  /\ allSent
  /\ queued' = (queued \/ ~prune)
  /\ IF prune THEN phase' = "Prune" /\ UNCHANGED <<seen, pc, stage, result>> ELSE return
  /\ UNCHANGED <<askedVars, apiVars, bounds>>

\* Mutant: only the releases for the whole fleet are compared.
Mutant_redundant == {r \in releases \ kept : r[2] = NoCluster}

\* The releases with the fleet's labels that no plugin has returned.
redundant == releases \ kept

\* One deletion of reconcilePluginResources; it may fail and end the call.
reconcilePluginResources(r, ok) ==
  /\ phase = "Prune"
  /\ ok \/ faults > 0
  /\ faults' = IF ok THEN faults ELSE faults - 1
  /\ releases' = IF ok THEN releases \ {r} ELSE releases
  /\ readyReleases' = readyReleases \cap releases'
  /\ queued' = (queued \/ ~ok)
  /\ IF ok THEN UNCHANGED callVars ELSE return
  /\ UNCHANGED <<askedVars, objSecret, backupSecret, pluginEdits>>

reconcileDone ==
  /\ phase = "Prune"
  /\ redundant = {}
  /\ return
  /\ UNCHANGED <<askedVars, queued, apiVars, bounds>>

\* The process dies and starts again.
Crash ==
  /\ phase # "Idle"
  /\ faults > 0
  /\ faults' = faults - 1
  /\ crash
  /\ UNCHANGED <<askedVars, apiVars, pluginEdits>>

goroutine(p) ==
  \/ patchStage(p)
  \/ \E R \in SUBSET stagesOf(p)[stage[p]] : patchStageFails(p, R)
  \/ submarinerTooFew(p)
  \/ \E c \in Member : syncObjStoreSecret(p, c) \/ createBackupSecret(p, c)
  \/ waitStage(p)
  \/ nextStage(p)
  \/ panics(p)
  \/ \E ok \in BOOLEAN : finish(p, ok)

controller ==
  \/ reconcilePlugins
  \/ collect
  \/ \E r \in redundant : \E ok \in BOOLEAN : reconcilePluginResources(r, ok)
  \/ reconcileDone
-----------------------------------------------------------------------------
(* Users, clusters and Flux (external). *)

EditPlugin ==
  /\ pluginEdits > 0
  /\ pluginEdits' = pluginEdits - 1
  /\ spec' \in FleetSpec
  /\ queued' = TRUE
  /\ UNCHANGED <<ready, callVars, apiVars, faults>>

ClusterReadiness(c) ==
  /\ faults > 0
  /\ faults' = faults - 1
  /\ ready' = IF c \in ready THEN ready \ {c} ELSE ready \cup {c}
  /\ queued' = TRUE
  /\ UNCHANGED <<spec, callVars, apiVars, pluginEdits>>

ReleaseBecomesReady(r) ==
  /\ r \in releases \ readyReleases
  /\ readyReleases' = readyReleases \cup {r}
  /\ UNCHANGED <<askedVars, queued, callVars, releases, objSecret, backupSecret, bounds>>

PluginEnvironment ==
  \/ EditPlugin
  \/ \E c \in Member : ClusterReadiness(c)
  \/ \E r \in Release : ReleaseBecomesReady(r)
-----------------------------------------------------------------------------
PluginInit ==
  /\ spec \in FleetSpec
  /\ ready \in FirstReady
  /\ queued = TRUE
  /\ phase = "Idle"
  /\ seen = [options |-> {}, clusters |-> {}]
  /\ pc = [p \in Plugin |-> "Sent"]
  /\ stage = [p \in Plugin |-> 1]
  /\ result = [p \in Plugin |-> "Done"]
  /\ releases = {}
  /\ readyReleases = {}
  /\ objSecret = {}
  /\ backupSecret = {}
  /\ pluginEdits = MaxPluginEdits
  /\ faults = MaxFaults

PluginNext ==
  \/ controller
  \/ \E p \in Plugin : goroutine(p)
  \/ Crash
  \/ PluginEnvironment

PluginSpec == PluginInit /\ [][PluginNext]_pluginVars

\* The scheduler runs the controller and every goroutine; Flux gets a release
\* ready in the end; and the random order of a Go map puts each cluster first
\* again and again.
PluginFairness ==
  /\ WF_pluginVars(controller)
  /\ WF_pluginVars(\E p \in Plugin : goroutine(p))
  /\ WF_pluginVars(\E r \in Release : ReleaseBecomesReady(r))
  /\ \A c \in Member : SF_pluginVars(createBackupSecret("backup", c) /\ c \in secretsMissing("backup"))

PluginFairSpec == PluginSpec /\ PluginFairness
-----------------------------------------------------------------------------
(* Properties. *)

\* Type correctness: every release is one a Render function names, for a cluster
\* or for the fleet, and Flux has only releases that exist.
PluginTypeOK ==
  /\ spec \in FleetSpec
  /\ ready \subseteq Member
  /\ queued \in BOOLEAN
  /\ phase \in {"Idle", "Collect", "Prune"}
  /\ seen \in [options : SUBSET Option, clusters : SUBSET Member]
  /\ pc \in [Plugin -> {"Apply", "Wait", "Sent"}]
  /\ stage \in [Plugin -> {1, 2}]
  /\ result \in [Plugin -> {"None", "Done", "Requeue", "Error"}]
  /\ releases \subseteq Release
  /\ readyReleases \subseteq releases
  /\ objSecret \subseteq Member /\ backupSecret \subseteq Member
  /\ pluginEdits \in Nat /\ faults \in Nat

\* The calls, as PluginSet describes them.
Promise ==
  INSTANCE PluginSet
    WITH wanted <- Wanted(spec, ready),
         call <- IF phase = "Idle" THEN {} ELSE {kept}

\* Whatever the goroutines do in whatever order: a call only applies what the
\* fleet asked for when it began, and deletes a release no plugin asks for only
\* when everything that is asked for has been applied.
KeepsPromise == Promise!Spec

\* Two clusters with the backup plugin, fewer than two clusters or no broker
\* cluster with Submariner: no call gets through all plugins.
Hopeless ==
  \/ "backup" \in spec /\ Cardinality(ready) >= 2
  \/ "submariner" \in spec /\ (Cardinality(ready) < 2 \/ Broker \notin ready)

\* In the end the releases are exactly the ones asked for, also after edits in
\* the middle of a call that worked with the options it had read before.
ReleasesFollowSpec ==
  <>[]~Hopeless => <>[](releases = Wanted(spec, ready))
=============================================================================

------------------------------ MODULE Migrate -------------------------------
(***************************************************************************)
(* The Migrate controller of the fleet manager: a Velero backup of a source  *)
(* cluster, which Velero copies to the target clusters through the object    *)
(* store, and a Velero restore of it in each of them.                        *)
(*                                                                          *)
(* One step of the controller is one whole call of Reconcile.               *)
(***************************************************************************)
EXTENDS FiniteSets, Integers

CONSTANTS
  Cluster,   \* the clusters of the fleets
  Source,    \* what spec.sourceCluster.clusters may be
  first,     \* the first cluster of that list
  Target,    \* what spec.targetClusters.clusters may be: empty if it is not set
  TargetFleet, \* what the clusters of the fleet spec.targetClusters.fleet may be
  MaxMishaps \* bound on cut calls, failed or expired backups, and clusters down

ASSUME ClusterAssumption == IsFiniteSet(Cluster)
ASSUME SpecAssumption ==
  /\ \A S \in Source : S \subseteq Cluster /\ first \in S
  /\ \A T \in Target \cup TargetFleet : T \subseteq Cluster
ASSUME BoundAssumption == MaxMishaps \in Nat

Status == {"None", "InProgress", "Completed", "Failed"}

Phase == {"", "BackupInProgress", "RestoreInProgress", "Completed"}

VARIABLES
  exists,            \* the Migrate is there
  deletionTimestamp, \* it is being deleted
  finalizer,         \* it carries its finalizer
  queued,            \* is its reconcile due, or a RequeueAfter running?
  source,            \* spec.sourceCluster.clusters
  target,            \* spec.targetClusters.clusters
  members,           \* the clusters of the fleet spec.targetClusters.fleet
  phase,             \* status.phase
  sourceReady,       \* the SourceReady condition
  targetStatus,      \* status.targetClustersStatus, by cluster
  fleet,             \* the fleets, of "source" and "target", that are there with
                     \* all objects of their clusters
  ready,             \* their ready clusters
  veleroBackup,      \* the Velero backup that was created in a cluster
  synced,            \* the clusters to which that of first was copied
  veleroRestore,     \* the Velero restore in a cluster
  mishaps            \* what is left of MaxMishaps

objectVars == <<exists, deletionTimestamp, finalizer>>

statusVars == <<phase, sourceReady, targetStatus>>

specVars == <<source, target, members>>

veleroVars == <<veleroBackup, synced, veleroRestore>>

vars == <<objectVars, queued, specVars, statusVars, fleet, ready, veleroVars, mishaps>>
-----------------------------------------------------------------------------
(* The controller. *)

\* fetchDestinationClusters fails without the fleet, or if a cluster it is asked
\* for is not ready.
fetchFails(f, dest) == f \notin fleet \/ ~(dest \subseteq ready)

\* The clusters it finds in the target's fleet: without a list, those that happen
\* to be ready, if any.
targetClusters == IF target = {} THEN members \cap ready ELSE target

\* A loop over clusters gets to all of them, unless something fails.
Reached(clusters) == IF mishaps > 0 THEN SUBSET clusters ELSE {clusters}

\* A deleted object without its finalizer goes.
Finalize(f) ==
  /\ finalizer' = f
  /\ exists' = ~(deletionTimestamp /\ ~f)
  /\ UNCHANGED deletionTimestamp

\* The end of a call that computes the phase p, the condition sr and the target
\* status ts: patched says that the deferred patch was written.
EndReconcile(cut, patched, again, p, sr, ts) ==
  LET faulty == cut \/ ~patched
      changed == ~finalizer \/ <<p, sr, ts>> # <<phase, sourceReady, targetStatus>>
  IN
  /\ faulty => mishaps > 0
  /\ mishaps' = IF faulty THEN mishaps - 1 ELSE mishaps
  /\ queued' = (faulty \/ again \/ changed)
  /\ phase' = IF patched THEN p ELSE phase
  /\ sourceReady' = IF patched THEN sr ELSE sourceReady
  /\ targetStatus' = IF patched THEN ts ELSE targetStatus

startPhase == IF phase = "" THEN "BackupInProgress" ELSE phase

Normal == queued /\ exists /\ ~deletionTimestamp

\* The source or the target clusters cannot be fetched, or the backup stage fails.
reconcileMigrateError(patched, fault) ==
  /\ Normal
  /\ fault \/ fetchFails("source", source)
  /\ fault => patched
  /\ EndReconcile(fault, patched, TRUE, startPhase, sourceReady, targetStatus)
  /\ Finalize(finalizer \/ patched)
  /\ UNCHANGED <<specVars, fleet, ready, veleroVars>>

\* Some cluster of the source, s, gets the backup.
reconcileMigrateBackup(s) ==
  [veleroBackup EXCEPT ![s] = IF @ = "None" THEN "InProgress" ELSE @]

\* Mutant: the restore does not wait for the copy of the backup.
Mutant_isSynced(c, vb) == TRUE

\* The Velero backup named after the first source cluster is found in c.
isSynced(c, vb) == c \in synced \/ (c = first /\ vb[c] # "None")

restorePhase == IF startPhase # "BackupInProgress" THEN "RestoreInProgress" ELSE startPhase

\* Mutant: a restore that has failed is done as well.
Mutant_allRestoreCompleted(ts) == \A c \in Cluster : ts[c] # "InProgress"

allRestoreCompleted(ts) == \A c \in Cluster : ts[c] \in {"None", "Completed"}

marksSourceReady(status) == status = "Completed"

\* Mutant: there is no RequeueAfter for a backup that is not found.
Mutant_requeues(all, ts) == all /\ ~allRestoreCompleted(ts)

requeues(all, ts) == ~all \/ ~allRestoreCompleted(ts)

\* Both stages: the backup in s, and, whatever the backup stage asks for, the
\* restore in the clusters R, whose status is read.
reconcileMigrate(s, R, patched) ==
  LET vb == reconcileMigrateBackup(s)
      sr == sourceReady \/ marksSourceReady(vb[s])
      fetched == ~fetchFails("target", target)
      found == fetched /\ \A c \in targetClusters : isSynced(c, vb)
      vr == [c \in Cluster |-> IF c \in R /\ veleroRestore[c] = "None" THEN "InProgress" ELSE veleroRestore[c]]
      all == found /\ R = targetClusters
      ts == [c \in Cluster |-> IF c \in targetClusters THEN vr[c] ELSE targetStatus[c]]
  IN
  /\ Normal
  /\ ~fetchFails("source", source)
  /\ s \in source
  /\ R # {} => found /\ R \subseteq targetClusters
  /\ veleroBackup' = vb
  /\ veleroRestore' = vr
  /\ EndReconcile(found /\ ~all, patched, requeues(all, ts) \/ ~fetched,
       IF ~fetched THEN startPhase
       ELSE IF all /\ allRestoreCompleted(ts) THEN "Completed" ELSE restorePhase,
       sr, IF all THEN ts ELSE targetStatus)
  /\ Finalize(finalizer \/ patched)
  /\ UNCHANGED <<specVars, fleet, ready, synced>>

\* The target status could not be read: the error clears the list.
reconcileMigrateStatusError(s) ==
  LET vb == reconcileMigrateBackup(s) IN
  /\ Normal
  /\ ~fetchFails("source", source) /\ ~fetchFails("target", target)
  /\ s \in source
  /\ \A c \in targetClusters : isSynced(c, vb)
  /\ veleroBackup' = vb
  /\ veleroRestore' = [c \in Cluster |-> IF c \in targetClusters /\ veleroRestore[c] = "None" THEN "InProgress" ELSE veleroRestore[c]]
  /\ EndReconcile(TRUE, TRUE, TRUE, restorePhase, sourceReady \/ marksSourceReady(vb[s]), [c \in Cluster |-> "None"])
  /\ Finalize(TRUE)
  /\ UNCHANGED <<specVars, fleet, ready, synced>>

\* The finalizer goes when all is deleted, or clusters cannot be found.
keepsFinalizer(fetched, done) == fetched /\ ~done

\* The backups of the clusters B, then the restores of the clusters R are deleted.
reconcileDeleteMigrate(B, R, patched) ==
  LET fetchedSource == ~fetchFails("source", source)
      fetched == fetchedSource /\ ~fetchFails("target", target)
      done == B = source /\ fetched /\ R = targetClusters
      keeps == keepsFinalizer(fetchedSource /\ (B = source => fetched), done)
  IN
  /\ queued /\ exists /\ deletionTimestamp
  /\ B \subseteq source /\ R \subseteq targetClusters
  /\ B # {} => fetchedSource
  /\ R # {} => fetched /\ B = source
  /\ fetchedSource /\ B # source => mishaps > 0
  /\ veleroBackup' = [c \in Cluster |-> IF c \in B THEN "None" ELSE veleroBackup[c]]
  /\ veleroRestore' = [c \in Cluster |-> IF c \in R THEN "None" ELSE veleroRestore[c]]
  /\ Finalize(keeps \/ ~patched)
  /\ EndReconcile(keeps, patched, ~done, phase, sourceReady, targetStatus)
  /\ UNCHANGED <<specVars, fleet, ready, synced>>

reconcileGone ==
  /\ queued
  /\ ~exists
  /\ queued' = FALSE
  /\ UNCHANGED <<objectVars, specVars, statusVars, fleet, ready, veleroVars, mishaps>>

Reconcile ==
  \/ \E patched, fault \in BOOLEAN : reconcileMigrateError(patched, fault)
  \/ \E s \in source, R \in Reached(targetClusters) \cup {{}}, patched \in BOOLEAN : reconcileMigrate(s, R, patched)
  \/ \E s \in source : reconcileMigrateStatusError(s)
  \/ \E B \in Reached(source) \cup {{}}, R \in Reached(targetClusters) \cup {{}}, patched \in BOOLEAN :
       reconcileDeleteMigrate(B, R, patched)
  \/ reconcileGone
-----------------------------------------------------------------------------
(* Velero in the clusters, users and the fleet (external).  Velero copies       *)
(* backups that are complete, and restores from those only.                    *)

VeleroBacksUp(c) ==
  /\ veleroBackup[c] = "InProgress"
  /\ \/ veleroBackup' = [veleroBackup EXCEPT ![c] = "Completed"] /\ UNCHANGED mishaps
     \/ /\ mishaps > 0
        /\ mishaps' = mishaps - 1
        /\ veleroBackup' = [veleroBackup EXCEPT ![c] = "Failed"]
  /\ UNCHANGED <<objectVars, queued, specVars, statusVars, fleet, ready, synced, veleroRestore>>

VeleroSyncs(c) ==
  /\ veleroBackup[first] = "Completed"
  /\ c \notin synced
  /\ synced' = synced \cup {c}
  /\ UNCHANGED <<objectVars, queued, specVars, statusVars, fleet, ready, veleroBackup, veleroRestore, mishaps>>

VeleroRestores(c) ==
  /\ veleroRestore[c] = "InProgress"
  /\ veleroRestore' = [veleroRestore EXCEPT ![c] =
       IF c \in synced \/ (c = first /\ veleroBackup[c] = "Completed") THEN "Completed" ELSE "Failed"]
  /\ UNCHANGED <<objectVars, queued, specVars, statusVars, fleet, ready, veleroBackup, synced, mishaps>>

\* The backup reaches its time to live.
VeleroExpires ==
  /\ mishaps > 0
  /\ mishaps' = mishaps - 1
  /\ veleroBackup[first] = "Completed"
  /\ veleroBackup' = [veleroBackup EXCEPT ![first] = "None"]
  /\ synced' = {}
  /\ UNCHANGED <<objectVars, queued, specVars, statusVars, fleet, ready, veleroRestore>>

DeleteMigrate ==
  /\ exists
  /\ ~deletionTimestamp
  /\ deletionTimestamp' = TRUE
  /\ exists' = finalizer
  /\ queued' = TRUE
  /\ UNCHANGED <<finalizer, specVars, statusVars, fleet, ready, veleroVars, mishaps>>

FleetChanges ==
  /\ mishaps > 0
  /\ mishaps' = mishaps - 1
  /\ \/ \E F \in (SUBSET fleet) \ {fleet} : fleet' = F /\ UNCHANGED ready
     \/ \E c \in ready : ready' = ready \ {c} /\ UNCHANGED fleet
  /\ UNCHANGED <<objectVars, queued, specVars, statusVars, veleroVars>>

ClusterBecomesReady(c) ==
  /\ c \notin ready
  /\ ready' = ready \cup {c}
  /\ UNCHANGED <<objectVars, queued, specVars, statusVars, fleet, veleroVars, mishaps>>

\* The manager starts again, and reconciles every Migrate.
Resync ==
  /\ exists
  /\ ~queued
  /\ mishaps > 0
  /\ mishaps' = mishaps - 1
  /\ queued' = TRUE
  /\ UNCHANGED <<objectVars, specVars, statusVars, fleet, ready, veleroVars>>

VeleroStep == \E c \in Cluster : VeleroBacksUp(c) \/ VeleroSyncs(c) \/ VeleroRestores(c)

Environment ==
  \/ VeleroStep
  \/ VeleroExpires
  \/ DeleteMigrate
  \/ FleetChanges
  \/ \E c \in Cluster : ClusterBecomesReady(c)
  \/ Resync
-----------------------------------------------------------------------------
\* The Migrate has just been applied.
Init ==
  /\ exists = TRUE
  /\ deletionTimestamp = FALSE
  /\ finalizer = FALSE
  /\ queued = TRUE
  /\ source \in Source
  /\ members \in TargetFleet
  /\ target \in Target /\ target \subseteq members
  /\ phase = ""
  /\ sourceReady = FALSE
  /\ targetStatus = [c \in Cluster |-> "None"]
  /\ fleet = {"source", "target"}
  /\ ready = Cluster
  /\ veleroBackup = [c \in Cluster |-> "None"]
  /\ synced = {}
  /\ veleroRestore = [c \in Cluster |-> "None"]
  /\ mishaps = MaxMishaps

Next == Reconcile \/ Environment

Spec == Init /\ [][Next]_vars

\* The work queue and its timers call Reconcile while it is due; Velero carries
\* out what is asked of it; clusters become ready.
Fairness ==
  /\ WF_vars(Reconcile)
  /\ WF_vars(VeleroStep)
  /\ WF_vars(\E c \in Cluster : ClusterBecomesReady(c))

FairSpec == Spec /\ Fairness
-----------------------------------------------------------------------------
(* Properties. *)

\* Type correctness: the phases are those the API declares.
\* Checked as a part of CompletedIsRestored.
TypeOK ==
  /\ {exists, deletionTimestamp, finalizer, queued, sourceReady} \subseteq BOOLEAN
  /\ source \in Source /\ target \in Target /\ members \in TargetFleet
  /\ fleet \subseteq {"source", "target"}
  /\ phase \in Phase
  /\ \A f \in {targetStatus, veleroBackup, veleroRestore} : f \in [Cluster -> Status]
  /\ synced \subseteq Cluster /\ ready \subseteq Cluster
  /\ mishaps \in Nat

\* The phase Completed is true to every target cluster the spec lists, and to
\* every cluster the status reports: the restore has been made and is complete,
\* also if later calls are cut short.  Without a list, a cluster of the fleet that
\* was not ready is neither listed nor reported: nothing is said of it.
CompletedIsRestored ==
  /\ TypeOK
  /\ phase = "Completed" /\ exists /\ ~deletionTimestamp =>
       \A c \in target \cup {d \in Cluster : targetStatus[d] # "None"} : veleroRestore[c] = "Completed"

\* Nothing is restored from a backup that is not complete, though the result
\* of the backup stage is not looked at: the copy Velero makes is waited for.
\* This is about targets other than the source itself.
RestoredAfterBackup ==
  [][\A c \in Cluster \ {first} : veleroRestore[c] = "None" /\ veleroRestore'[c] # "None" => c \in synced]_vars

\* The migration gets done: with fleets that stay and Velero succeeding, targets
\* other than the source are restored and the phase settles at
\* Completed, wherever calls are cut short.
MigrationCompletes ==
  LET wanted == IF target = {} THEN members ELSE target IN
  <>[](/\ exists /\ ~deletionTimestamp /\ fleet = {"source", "target"}
       /\ first \notin wanted /\ veleroBackup[first] # "Failed"
       /\ \A c \in wanted : veleroRestore[c] # "Failed") => <>[](phase = "Completed")
=============================================================================

------------------------------- MODULE Backup -------------------------------
(***************************************************************************)
(* The Backup and Restore controllers of the fleet manager: one Backup of a *)
(* fleet, once or on a schedule, and one Restore that refers to it.  Both   *)
(* create Velero objects in the clusters of the fleet, one goroutine per    *)
(* cluster, copy the status of those objects to their own, and are called   *)
(* again until all is complete.                                             *)
(*                                                                          *)
(* One step of a controller is one whole call of Reconcile.                 *)
(***************************************************************************)
EXTENDS FiniteSets, Integers

CONSTANTS
  Cluster,    \* the clusters of the fleet
  Destination,        \* what spec.destination.clusters of the Backup may be
  RestoreDestination, \* and of the Restore
  MaxRuns,    \* bound on the backups a schedule makes in a cluster
  MaxMishaps  \* bound on cut calls, failed backups, and changes of the fleet

ASSUME ClusterAssumption == IsFiniteSet(Cluster)
ASSUME DestinationAssumption ==
  Destination \subseteq SUBSET Cluster /\ RestoreDestination \subseteq SUBSET Cluster
ASSUME BoundAssumption == MaxRuns \in Nat \ {0} /\ MaxMishaps \in Nat

Kind == {"Backup", "Restore"}

Status == {"None", "InProgress", "Completed", "Failed"}

VARIABLES
  exists,            \* the Backup, the Restore is there
  deletionTimestamp, \* it is being deleted
  finalizer,         \* it carries its finalizer
  queued,            \* is its reconcile due, or a RequeueAfter running?
  scheduled,         \* backup.Spec.Schedule is set
  destination,       \* backup.Spec.Destination.Clusters; {} selects all
  restoreDestination,\* restore.Spec.Destination.Clusters; {} if there is none
  fleet,             \* the fleet and all objects of its clusters are there
  ready,             \* its ready clusters
  veleroBackup,      \* the Velero Backup of a one-time Backup, by cluster
  schedule,          \* the clusters with the Velero Schedule
  runs,              \* the most recent completed backup of the schedule, by cluster
  veleroRestore,     \* the Velero Restore, by cluster
  restoredRun,       \* the backup it names: 1 or, of a schedule, the run
  details,           \* backup.Status.Details: cluster, backup, status
  restoreDetails,    \* restore.Status.Details: the status, by cluster
  mishaps            \* what is left of MaxMishaps

objectVars == <<exists, deletionTimestamp, finalizer>>

specVars == <<scheduled, destination, restoreDestination>>

fleetVars == <<fleet, ready>>

veleroVars == <<veleroBackup, schedule, runs, veleroRestore, restoredRun>>

vars == <<objectVars, queued, specVars, fleetVars, veleroVars, details, restoreDetails, mishaps>>
-----------------------------------------------------------------------------
(* Shared by the controllers. *)

\* fetchDestinationClusters fails if a cluster it is asked for is not ready;
\* asked for none, it returns the clusters that are.
fetchFails(dest) == ~fleet \/ ~(dest \subseteq ready)

fetchDestinationClusters(dest) == IF dest = {} THEN ready ELSE dest

\* The end of a call: patched says that the deferred patch was written.
EndReconcile(k, cut, patched, again, changed) ==
  LET faulty == cut \/ ~patched IN
  /\ faulty => mishaps > 0
  /\ mishaps' = IF faulty THEN mishaps - 1 ELSE mishaps
  /\ queued' = [queued EXCEPT ![k] = faulty \/ again \/ (patched /\ changed)]

\* The clusters a loop over the given ones gets to: all, unless something fails.
Reached(clusters) == IF mishaps > 0 THEN SUBSET clusters ELSE {clusters}

\* A step of k that changes its finalizer to f; without it a deleted object goes.
Finalize(k, f) ==
  /\ finalizer' = [finalizer EXCEPT ![k] = f]
  /\ exists' = [exists EXCEPT ![k] = ~(deletionTimestamp[k] /\ ~f)]
  /\ UNCHANGED deletionTimestamp

Normal(k) == queued[k] /\ exists[k] /\ ~deletionTimestamp[k]

Deleting(k) == queued[k] /\ exists[k] /\ deletionTimestamp[k]

\* fetch... fails: the finalizer has been added, and the call is tried again.
FetchError(k, patched) ==
  /\ Finalize(k, finalizer[k] \/ patched)
  /\ EndReconcile(k, FALSE, patched, TRUE, FALSE)
  /\ UNCHANGED <<specVars, fleetVars, veleroVars, details, restoreDetails>>
-----------------------------------------------------------------------------
(* The Backup controller. *)

\* The name and the status of the Velero backup that is looked up for c: that
\* of the Backup, or the most recent completed one of the schedule, if any.
latest(c) == IF scheduled THEN runs[c] ELSE 1

latestStatus(c, vb) ==
  IF scheduled THEN (IF runs[c] = 0 THEN "None" ELSE "Completed") ELSE vb[c]

\* Mutant: an entry that is there is not updated.
Mutant_recordBackups(clusters, vb) ==
  details \cup {<<c, latest(c), latestStatus(c, vb)>> : c \in
                  {b \in clusters : ~\E d \in details : d[1] = b /\ d[2] = latest(b)}}

\* Status.Details is a list that only grows: an entry of the same cluster and
\* backup is updated, any other stays as it is.
recordBackups(clusters, vb) ==
  {d \in details : ~(d[1] \in clusters /\ d[2] = latest(d[1]))}
    \cup {<<c, latest(c), latestStatus(c, vb)>> : c \in clusters}

\* Mutant: one completed backup is enough.
Mutant_allBackupsCompleted(ds) == ds = {} \/ \E d \in ds : d[3] = "Completed"

allBackupsCompleted(ds) == \A d \in ds : d[3] = "Completed"

\* The Velero objects are created in the clusters S, and the status of the
\* clusters T is recorded.
reconcileBackup(S, T, patched) ==
  LET clusters == fetchDestinationClusters(destination)
      vb == [c \in Cluster |->
               IF c \in S /\ ~scheduled /\ veleroBackup[c] = "None" THEN "InProgress" ELSE veleroBackup[c]]
      ds == recordBackups(T, vb)
  IN
  /\ Normal("Backup")
  /\ ~fetchFails(destination)
  /\ S \subseteq clusters
  /\ T \subseteq clusters /\ (T # {} => S = clusters)
  /\ veleroBackup' = vb
  /\ schedule' = IF scheduled THEN schedule \cup S ELSE schedule
  /\ details' = IF patched THEN ds ELSE details
  /\ Finalize("Backup", finalizer["Backup"] \/ patched)
  /\ EndReconcile("Backup", T # clusters, patched, scheduled \/ ~allBackupsCompleted(ds),
                  ds # details \/ ~finalizer["Backup"])
  /\ UNCHANGED <<specVars, fleetVars, runs, veleroRestore, restoredRun, restoreDetails>>

reconcileBackupFetchError(patched) ==
  /\ Normal("Backup")
  /\ fetchFails(destination)
  /\ FetchError("Backup", patched)

\* Mutant: the finalizer stays if the clusters cannot be found.
Mutant_keepsFinalizer(fetched, done) == ~(fetched /\ done)

\* The finalizer is removed when all is deleted, and also when the clusters to
\* delete from cannot be found.
keepsFinalizer(fetched, done) == fetched /\ ~done

\* Velero objects are deleted in the clusters S.
reconcileDeleteBackup(S, patched) ==
  LET clusters == fetchDestinationClusters(destination)
      fetched == ~fetchFails(destination)
      keeps == keepsFinalizer(fetched, S = clusters)
  IN
  /\ Deleting("Backup")
  /\ IF fetched THEN S \subseteq clusters ELSE S = {}
  /\ schedule' = schedule \ S
  /\ veleroBackup' = [c \in Cluster |-> IF c \in S /\ ~scheduled THEN "None" ELSE veleroBackup[c]]
  /\ Finalize("Backup", keeps \/ ~patched)
  /\ EndReconcile("Backup", fetched /\ S # clusters, patched, ~fetched, FALSE)
  /\ UNCHANGED <<specVars, fleetVars, runs, veleroRestore, restoredRun, details, restoreDetails>>
-----------------------------------------------------------------------------
(* The Restore controller. *)

\* The referred Backup must be there, and its clusters include the ones of the
\* Restore.
fetchRestoreFails ==
  \/ ~exists["Backup"]
  \/ fetchFails(destination)
  \/ fetchFails(restoreDestination)
  \/ restoreDestination # {} /\ ~(restoreDestination \subseteq fetchDestinationClusters(destination))

fetchRestoreDestinationClusters ==
  IF restoreDestination = {} THEN fetchDestinationClusters(destination) ELSE restoreDestination

\* getBackupForRestore finds no completed backup of the schedule.
noCompletedBackup ==
  scheduled /\ \E c \in fetchRestoreDestinationClusters : runs[c] = 0

\* Mutant: a Failed restore counts as complete.
Mutant_allRestoreCompleted(rd) == \A c \in Cluster : rd[c] # "InProgress"

\* "None" is that of a cluster without an entry.
allRestoreCompleted(rd) == \A c \in Cluster : rd[c] \in {"None", "Completed"}

\* The Velero objects are created in the clusters S, and the status of the
\* clusters T is read.  CreateOrUpdate leaves the restores that exist alone.
reconcileRestore(S, T, patched) ==
  LET clusters == fetchRestoreDestinationClusters
      vr == [c \in Cluster |->
               IF c \in S /\ veleroRestore[c] = "None" THEN "InProgress" ELSE veleroRestore[c]]
      rd == [c \in Cluster |-> IF c \in T THEN vr[c] ELSE restoreDetails[c]]
  IN
  /\ Normal("Restore")
  /\ ~fetchRestoreFails
  /\ ~noCompletedBackup
  /\ S \subseteq clusters
  /\ T \subseteq clusters /\ (T # {} => S = clusters)
  /\ veleroRestore' = vr
  /\ restoredRun' = [c \in Cluster |->
       IF veleroRestore[c] = "None" /\ c \in S THEN (IF scheduled THEN runs[c] ELSE 1) ELSE restoredRun[c]]
  \* an error of syncVeleroRestoreStatus clears the list
  /\ restoreDetails' = IF patched THEN (IF S = clusters /\ T # clusters THEN [c \in Cluster |-> "None"] ELSE rd)
                       ELSE restoreDetails
  /\ Finalize("Restore", finalizer["Restore"] \/ patched)
  /\ EndReconcile("Restore", T # clusters, patched,
                  ~allRestoreCompleted(rd),
                  rd # restoreDetails \/ ~finalizer["Restore"])
  /\ UNCHANGED <<specVars, fleetVars, veleroBackup, schedule, runs, details>>

\* Reconcile returns without an error, and is not called again: there is no
\* completed backup ("stop reconcile"), they could not be listed, or the Backup
\* went away after its clusters were fetched.
reconcileRestoreStops(patched, fault) ==
  /\ Normal("Restore")
  /\ IF fault THEN mishaps > 0 /\ patched /\ (scheduled \/ ~exists["Backup"])
     ELSE ~fetchRestoreFails /\ noCompletedBackup
  /\ Finalize("Restore", finalizer["Restore"] \/ patched)
  /\ mishaps' = IF fault \/ ~patched THEN mishaps - 1 ELSE mishaps
  /\ ~patched => mishaps > 0
  /\ queued' = [queued EXCEPT !["Restore"] = ~patched \/ ~finalizer["Restore"]]
  /\ UNCHANGED <<specVars, fleetVars, veleroVars, details, restoreDetails>>

reconcileRestoreFetchError(patched) ==
  /\ Normal("Restore")
  /\ fetchRestoreFails
  /\ FetchError("Restore", patched)

reconcileDeleteRestore(S, patched) ==
  LET clusters == fetchRestoreDestinationClusters
      fetched == ~fetchRestoreFails
      keeps == keepsFinalizer(fetched, S = clusters)
  IN
  /\ Deleting("Restore")
  /\ IF fetched THEN S \subseteq clusters ELSE S = {}
  /\ veleroRestore' = [c \in Cluster |-> IF c \in S THEN "None" ELSE veleroRestore[c]]
  /\ restoredRun' = [c \in Cluster |-> IF c \in S THEN 0 ELSE restoredRun[c]]
  /\ Finalize("Restore", keeps \/ ~patched)
  /\ EndReconcile("Restore", fetched /\ S # clusters, patched, ~fetched, FALSE)
  /\ UNCHANGED <<specVars, fleetVars, veleroBackup, schedule, runs, details, restoreDetails>>

reconcileGone(k) ==
  /\ queued[k]
  /\ ~exists[k]
  /\ queued' = [queued EXCEPT ![k] = FALSE]
  /\ UNCHANGED <<objectVars, specVars, fleetVars, veleroVars, details, restoreDetails, mishaps>>

BackupReconcile ==
  \/ \E S, T \in Reached(fetchDestinationClusters(destination)) : \E patched \in BOOLEAN : reconcileBackup(S, T, patched)
  \/ \E patched \in BOOLEAN : reconcileBackupFetchError(patched)
  \/ \E S \in Reached(fetchDestinationClusters(destination)) \cup {{}} : \E patched \in BOOLEAN : reconcileDeleteBackup(S, patched)
  \/ reconcileGone("Backup")

RestoreReconcile ==
  \/ \E S, T \in Reached(fetchRestoreDestinationClusters) : \E patched \in BOOLEAN : reconcileRestore(S, T, patched)
  \/ \E patched, fault \in BOOLEAN : reconcileRestoreStops(patched, fault)
  \/ \E patched \in BOOLEAN : reconcileRestoreFetchError(patched)
  \/ \E S \in Reached(fetchRestoreDestinationClusters) \cup {{}} : \E patched \in BOOLEAN : reconcileDeleteRestore(S, patched)
  \/ reconcileGone("Restore")
-----------------------------------------------------------------------------
(* Velero in the clusters (external).  It refuses to restore from a backup      *)
(* that is not complete.                                                       *)

VeleroBacksUp(c) ==
  /\ veleroBackup[c] = "InProgress"
  /\ \/ veleroBackup' = [veleroBackup EXCEPT ![c] = "Completed"] /\ UNCHANGED mishaps
     \/ /\ mishaps > 0
        /\ mishaps' = mishaps - 1
        /\ veleroBackup' = [veleroBackup EXCEPT ![c] = "Failed"]
  /\ UNCHANGED <<objectVars, queued, specVars, fleetVars, schedule, runs, veleroRestore, restoredRun, details, restoreDetails>>

VeleroRunsSchedule(c) ==
  /\ c \in schedule
  /\ runs[c] < MaxRuns
  /\ runs' = [runs EXCEPT ![c] = @ + 1]
  /\ UNCHANGED <<objectVars, queued, specVars, fleetVars, veleroBackup, schedule, veleroRestore, restoredRun, details, restoreDetails, mishaps>>

VeleroRestores(c) ==
  /\ veleroRestore[c] = "InProgress"
  /\ veleroRestore' =
       [veleroRestore EXCEPT ![c] = IF scheduled \/ veleroBackup[c] = "Completed" THEN "Completed" ELSE "Failed"]
  /\ UNCHANGED <<objectVars, queued, specVars, fleetVars, veleroBackup, schedule, runs, restoredRun, details, restoreDetails, mishaps>>
-----------------------------------------------------------------------------
(* Users and the fleet (external). *)

CreateRestore ==
  /\ ~exists["Restore"] /\ ~deletionTimestamp["Restore"]
  /\ exists' = [exists EXCEPT !["Restore"] = TRUE]
  /\ queued' = [queued EXCEPT !["Restore"] = TRUE]
  /\ UNCHANGED <<deletionTimestamp, finalizer, specVars, fleetVars, veleroVars, details, restoreDetails, mishaps>>

DeleteObject(k) ==
  /\ exists[k]
  /\ ~deletionTimestamp[k]
  /\ deletionTimestamp' = [deletionTimestamp EXCEPT ![k] = TRUE]
  /\ exists' = [exists EXCEPT ![k] = finalizer[k]]
  /\ queued' = [queued EXCEPT ![k] = TRUE]
  /\ UNCHANGED <<finalizer, specVars, fleetVars, veleroVars, details, restoreDetails, mishaps>>

FleetChanges ==
  /\ mishaps > 0
  /\ mishaps' = mishaps - 1
  /\ \/ fleet' = FALSE /\ UNCHANGED ready
     \/ \E c \in ready : ready' = ready \ {c} /\ UNCHANGED fleet
  /\ UNCHANGED <<objectVars, queued, specVars, veleroVars, details, restoreDetails>>

ClusterBecomesReady(c) ==
  /\ c \notin ready
  /\ ready' = ready \cup {c}
  /\ UNCHANGED <<objectVars, queued, specVars, fleet, veleroVars, details, restoreDetails, mishaps>>

Environment ==
  \/ CreateRestore
  \/ \E k \in Kind : DeleteObject(k)
  \/ FleetChanges
  \/ \E c \in Cluster : VeleroBacksUp(c) \/ VeleroRunsSchedule(c) \/ VeleroRestores(c) \/ ClusterBecomesReady(c)
-----------------------------------------------------------------------------
\* The Backup has just been applied.
Init ==
  /\ exists = [k \in Kind |-> k = "Backup"]
  /\ deletionTimestamp = [k \in Kind |-> FALSE]
  /\ finalizer = [k \in Kind |-> FALSE]
  /\ queued = [k \in Kind |-> k = "Backup"]
  /\ scheduled \in BOOLEAN
  /\ destination \in Destination
  /\ restoreDestination \in RestoreDestination
  /\ fleet = TRUE
  /\ ready \in {{}, Cluster}
  /\ veleroBackup = [c \in Cluster |-> "None"]
  /\ schedule = {}
  /\ runs = [c \in Cluster |-> 0]
  /\ veleroRestore = [c \in Cluster |-> "None"]
  /\ restoredRun = [c \in Cluster |-> 0]
  /\ details = {}
  /\ restoreDetails = [c \in Cluster |-> "None"]
  /\ mishaps = MaxMishaps

Next == BackupReconcile \/ RestoreReconcile \/ Environment

Spec == Init /\ [][Next]_vars

\* The work queues and their timers call Reconcile while it is due; Velero
\* carries out what is asked of it; clusters become ready.
Fairness ==
  /\ WF_vars(BackupReconcile)
  /\ WF_vars(RestoreReconcile)
  /\ WF_vars(\E c \in Cluster : VeleroBacksUp(c) \/ VeleroRunsSchedule(c) \/ VeleroRestores(c))
  /\ WF_vars(\E c \in Cluster : ClusterBecomesReady(c))

FairSpec == Spec /\ Fairness
-----------------------------------------------------------------------------
(* Properties. *)

\* Type correctness: a detail names a cluster and a backup that has been made.
\* Checked as a part of BackupRestsWhenComplete.
TypeOK ==
  /\ \A f \in {exists, deletionTimestamp, finalizer, queued} : f \in [Kind -> BOOLEAN]
  /\ {scheduled, fleet} \subseteq BOOLEAN
  /\ \A S \in {destination, restoreDestination, ready, schedule} : S \subseteq Cluster
  /\ \A f \in {veleroBackup, veleroRestore, restoreDetails} : f \in [Cluster -> Status]
  /\ \A f \in {runs, restoredRun} : f \in [Cluster -> 0..MaxRuns]
  /\ details \subseteq Cluster \X (0..MaxRuns) \X Status
  /\ mishaps \in Nat

\* A Backup without a list of clusters is one of those that are ready, call by call:
\* a cluster that is not ready any more is followed only if an entry of the
\* status names it.
Overlooked(c) == destination = {} /\ \A d \in details : d[1] # c

RestoreOverlooked(c) == destination = {} /\ restoreDestination = {} /\ restoreDetails[c] = "None"

\* The Backup controller stops calling itself only when the Velero backups it
\* has created are complete, wherever earlier calls have stopped and whichever
\* clusters were not ready meanwhile, apart from the ones it overlooks.
BackupRestsWhenComplete ==
  /\ TypeOK
  /\ exists["Backup"] /\ ~deletionTimestamp["Backup"] /\ ~queued["Backup"] =>
       \A c \in Cluster : veleroBackup[c] \in {"None", "Completed"} \/ Overlooked(c)

\* A Restore that rests has finished in all clusters it does not overlook, if it
\* is that of a one-time Backup that is still there.
RestoreRestsWhenComplete ==
  exists["Restore"] /\ ~deletionTimestamp["Restore"] /\ ~queued["Restore"]
    /\ ~scheduled /\ exists["Backup"] =>
    \A c \in Cluster : veleroRestore[c] \in {"None", "Completed"} \/ RestoreOverlooked(c)

\* A Backup or a Restore that is deleted goes away, also if its fleet or its
\* Backup is gone before it.
DeletionCompletes ==
  \A k \in Kind : (exists[k] /\ deletionTimestamp[k]) ~> ~exists[k]

\* A one-time Backup of a fleet that stays reports a status that is final for
\* every cluster that has a Velero backup and is not overlooked.
BackupIsReported ==
  (<>[](exists["Backup"] /\ ~deletionTimestamp["Backup"] /\ fleet)) =>
    <>[](\A c \in Cluster : ~scheduled /\ veleroBackup[c] # "None" /\ ~Overlooked(c) => <<c, 1, veleroBackup[c]>> \in details)
=============================================================================

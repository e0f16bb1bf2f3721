---------------------------- MODULE Backup_proofs ----------------------------
(***************************************************************************)
(* Proofs about Backup, for any clusters and destinations, any number of    *)
(* scheduled runs and any number of mishaps.                                *)
(***************************************************************************)
EXTENDS Backup, TLAPS

-----------------------------------------------------------------------------
(* Types. *)

\* The flags of the objects, which the ends of the calls change.
FlagTypes ==
  /\ exists \in [Kind -> BOOLEAN] /\ finalizer \in [Kind -> BOOLEAN]
  /\ queued \in [Kind -> BOOLEAN] /\ deletionTimestamp \in [Kind -> BOOLEAN]
  /\ mishaps \in Nat

\* What Finalize leaves of flags: those of the other object are not touched.
LEMMA FinalizeFlags ==
  ASSUME FlagTypes, NEW k \in Kind, NEW f \in BOOLEAN, Finalize(k, f)
  PROVE  /\ exists' \in [Kind -> BOOLEAN] /\ finalizer' \in [Kind -> BOOLEAN]
         /\ deletionTimestamp' = deletionTimestamp
         /\ \A j \in Kind \ {k} : exists'[j] = exists[j]
<1>1. exists' \in [Kind -> BOOLEAN] /\ \A j \in Kind \ {k} : exists'[j] = exists[j]
  BY DEF Finalize, FlagTypes
<1>2. finalizer' \in [Kind -> BOOLEAN] /\ deletionTimestamp' = deletionTimestamp
  BY DEF Finalize, FlagTypes
<1> QED BY <1>1, <1>2

\* What EndReconcile leaves of flags.
LEMMA EndFlags ==
  ASSUME FlagTypes, NEW k \in Kind, NEW cut \in BOOLEAN, NEW patched \in BOOLEAN, NEW again \in BOOLEAN,
         NEW changed \in BOOLEAN, EndReconcile(k, cut, patched, again, changed)
  PROVE  /\ queued' \in [Kind -> BOOLEAN] /\ mishaps' \in Nat
         /\ \A j \in Kind \ {k} : queued'[j] = queued[j]
         /\ ~queued'[k] => ~cut /\ patched /\ ~again /\ ~changed
<1> DEFINE q == cut \/ ~patched \/ again \/ (patched /\ changed)
<1>1. q \in BOOLEAN
  OBVIOUS
<1>2. queued' = [queued EXCEPT ![k] = q]
  BY DEF EndReconcile
<1>3. mishaps' \in Nat
  BY DEF EndReconcile, FlagTypes
<1>4. queued'[k] = q
  BY <1>2 DEF FlagTypes
<1>5. ~q => ~cut /\ patched /\ ~again /\ ~changed
  OBVIOUS
<1>6. queued' \in [Kind -> BOOLEAN] /\ \A j \in Kind \ {k} : queued'[j] = queued[j]
  <2> HIDE DEF q
  <2> QED BY <1>1, <1>2 DEF FlagTypes
<1> QED BY <1>3, <1>4, <1>5, <1>6

\* The other half of TypeOK.
DataTypes ==
  /\ {scheduled, fleet} \subseteq BOOLEAN
  /\ \A S \in {destination, restoreDestination, ready, schedule} : S \subseteq Cluster
  /\ \A f \in {veleroBackup, veleroRestore, restoreDetails} : f \in [Cluster -> Status]
  /\ \A f \in {runs, restoredRun} : f \in [Cluster -> 0..MaxRuns]
  /\ details \subseteq Cluster \X (0..MaxRuns) \X Status

\* TypeOK in two parts.
LEMMA Types == TypeOK <=> FlagTypes /\ DataTypes
BY DEF TypeOK, FlagTypes, DataTypes

\* And after a step.
LEMMA TypesNext == FlagTypes' /\ DataTypes' => TypeOK'
BY DEF TypeOK, FlagTypes, DataTypes

\* The clusters of a call are clusters.
LEMMA FetchTypes ==
  ASSUME DataTypes
  PROVE  fetchDestinationClusters(destination) \subseteq Cluster /\ fetchRestoreDestinationClusters \subseteq Cluster
BY DEF DataTypes, fetchDestinationClusters, fetchRestoreDestinationClusters
-----------------------------------------------------------------------------
(* The invariant. *)

\* BackupRestsWhenComplete is not inductive.  While the Backup is there, a
\* scheduled one makes no Velero backup itself, one with a list makes them on the
\* list only, and an entry Completed of the status is true.
BackupInv ==
  /\ scheduled => \A c \in Cluster : veleroBackup[c] = "None"
  /\ destination # {} => \A c \in Cluster \ destination : veleroBackup[c] = "None"
  /\ ~scheduled /\ ~deletionTimestamp["Backup"] =>
       \A d \in details : d[3] = "Completed" => veleroBackup[d[1]] = "Completed"
  /\ exists["Backup"] /\ ~deletionTimestamp["Backup"] /\ ~queued["Backup"] =>
       \A c \in Cluster : veleroBackup[c] \in {"None", "Completed"} \/ Overlooked(c)

\* The list that limits the clusters of the Restore, if there is one.
limit == IF restoreDestination = {} THEN destination ELSE restoreDestination

\* The same for the Restore.
RestoreInv ==
  /\ limit # {} => \A c \in Cluster \ limit : veleroRestore[c] = "None"
  /\ ~deletionTimestamp["Restore"] =>
       \A c \in Cluster : restoreDetails[c] = "Completed" => veleroRestore[c] = "Completed"
  /\ RestoreRestsWhenComplete

IInv == TypeOK /\ BackupInv /\ RestoreInv

\* Steps that leave the data of the Backup alone, and do not put it to rest.
LEMMA BackupFrame ==
  ASSUME BackupInv, UNCHANGED <<scheduled, destination, veleroBackup, details>>,
         deletionTimestamp["Backup"] => deletionTimestamp'["Backup"],
         exists'["Backup"] /\ ~deletionTimestamp'["Backup"] /\ ~queued'["Backup"] => exists["Backup"] /\ ~queued["Backup"]
  PROVE  BackupInv'
BY DEF BackupInv, Overlooked

\* Steps that leave the data of the Restore alone, and do not put it to rest.
LEMMA RestoreFrame ==
  ASSUME RestoreInv, UNCHANGED <<scheduled, destination, restoreDestination, veleroRestore, restoreDetails>>,
         deletionTimestamp["Restore"] => deletionTimestamp'["Restore"],
         exists'["Backup"] => exists["Backup"],
         exists'["Restore"] /\ ~deletionTimestamp'["Restore"] /\ ~queued'["Restore"] => exists["Restore"] /\ ~queued["Restore"]
  PROVE  RestoreInv'
BY DEF RestoreInv, RestoreRestsWhenComplete, RestoreOverlooked, limit

\* A step of the Backup controller leaves the Restore alone.
LEMMA RestoreUntouched ==
  ASSUME RestoreInv, UNCHANGED <<scheduled, destination, restoreDestination, veleroRestore, restoreDetails>>,
         exists["Backup"],
         deletionTimestamp' = deletionTimestamp,
         \A j \in Kind \ {"Backup"} : exists'[j] = exists[j] /\ queued'[j] = queued[j]
  PROVE  RestoreInv'
<1>1. "Restore" \in Kind \ {"Backup"}
  BY DEF Kind
<1> QED BY <1>1, RestoreFrame

\* A step of the Restore controller leaves the Backup alone.
LEMMA BackupUntouched ==
  ASSUME BackupInv, UNCHANGED <<scheduled, destination, veleroBackup, details>>,
         deletionTimestamp' = deletionTimestamp,
         \A j \in Kind \ {"Restore"} : exists'[j] = exists[j] /\ queued'[j] = queued[j]
  PROVE  BackupInv' /\ exists'["Backup"] = exists["Backup"]
<1>1. "Backup" \in Kind \ {"Restore"}
  BY DEF Kind
<1> QED BY <1>1, BackupFrame

-----------------------------------------------------------------------------
(* The Backup controller. *)

\* A call for a Backup that is not being deleted.  It puts the Backup to rest when all
\* clusters were reached and all entries, old and new, are complete; a cluster
\* on the list was reached, and one that has an entry is complete by the entry.
LEMMA BackupStep ==
  ASSUME IInv, NEW S, NEW T, NEW patched \in BOOLEAN, reconcileBackup(S, T, patched)
  PROVE  IInv'
<1> DEFINE clusters == fetchDestinationClusters(destination)
           vb == [c \in Cluster |->
                    IF c \in S /\ ~scheduled /\ veleroBackup[c] = "None" THEN "InProgress" ELSE veleroBackup[c]]
           ds == recordBackups(T, vb)
           cut == T # clusters
           again == scheduled \/ ~allBackupsCompleted(ds)
           changed == ds # details \/ ~finalizer["Backup"]
           f == finalizer["Backup"] \/ patched
<1>T. FlagTypes /\ DataTypes /\ BackupInv /\ RestoreInv
  BY Types DEF IInv
<1>K. "Backup" \in Kind
  BY DEF Kind
<1>1. /\ exists["Backup"] /\ ~deletionTimestamp["Backup"]
      /\ S \subseteq clusters /\ T \subseteq clusters /\ (T # {} => S = clusters)
      /\ veleroBackup' = vb
      /\ schedule' = IF scheduled THEN schedule \cup S ELSE schedule
      /\ details' = IF patched THEN ds ELSE details
      /\ Finalize("Backup", f)
      /\ EndReconcile("Backup", cut, patched, again, changed)
      /\ UNCHANGED <<specVars, fleetVars, runs, veleroRestore, restoredRun, restoreDetails>>
  BY DEF reconcileBackup, Normal
<1>2. clusters \subseteq Cluster /\ (destination # {} => clusters = destination)
  BY <1>T, FetchTypes DEF fetchDestinationClusters
<1>3. vb \in [Cluster -> Status]
  BY <1>T DEF DataTypes, Status
<1>4. \A c \in Cluster : /\ veleroBackup[c] = "Completed" => vb[c] = "Completed"
                         /\ vb[c] # veleroBackup[c] => c \in S /\ ~scheduled
                         /\ c \in S /\ ~scheduled => vb[c] # "None"
  OBVIOUS
<1> HIDE DEF vb
<1>5. ds \subseteq Cluster \X (0..MaxRuns) \X Status
  <2>1. \A c \in Cluster : latest(c) \in 0..MaxRuns /\ latestStatus(c, vb) \in Status
    BY <1>T, <1>3, BoundAssumption DEF latest, latestStatus, DataTypes, Status
  <2> QED BY <1>T, <1>1, <1>2, <2>1 DEF recordBackups, DataTypes
<1>6. ~scheduled => \A d \in ds : d[3] = "Completed" => vb[d[1]] = "Completed"
  <2> SUFFICES ASSUME ~scheduled, NEW d \in ds, d[3] = "Completed" PROVE vb[d[1]] = "Completed"
    OBVIOUS
  <2>1. CASE d \in details
    <3>1. d[1] \in Cluster
      BY <1>T, <2>1 DEF DataTypes
    <3>2. veleroBackup[d[1]] = "Completed"
      BY <1>T, <1>1, <2>1 DEF BackupInv
    <3> QED BY <1>4, <3>1, <3>2
  <2>2. CASE d \notin details
    <3>1. PICK c \in T : d = <<c, latest(c), latestStatus(c, vb)>>
      BY <2>2 DEF recordBackups
    <3> QED BY <3>1 DEF latestStatus
  <2> QED BY <2>1, <2>2
<1>7. ~scheduled => \A c \in T : <<c, 1, vb[c]>> \in ds
  BY DEF recordBackups, latest, latestStatus
<1>8. cut \in BOOLEAN /\ again \in BOOLEAN /\ changed \in BOOLEAN /\ f \in BOOLEAN
  <2>1. scheduled \in BOOLEAN /\ finalizer["Backup"] \in BOOLEAN
    BY <1>T, <1>K DEF DataTypes, FlagTypes
  <2> QED BY <2>1 DEF allBackupsCompleted
<1>9. ~again /\ ~cut /\ ~changed => ~scheduled /\ T = clusters /\ ds = details /\ \A d \in ds : d[3] = "Completed"
  BY DEF allBackupsCompleted
<1> HIDE DEF ds, cut, again, changed, f
<1>10. /\ exists' \in [Kind -> BOOLEAN] /\ finalizer' \in [Kind -> BOOLEAN]
       /\ deletionTimestamp' = deletionTimestamp
       /\ \A j \in Kind \ {"Backup"} : exists'[j] = exists[j]
  BY <1>T, <1>K, <1>1, <1>8, FinalizeFlags
<1>11. /\ queued' \in [Kind -> BOOLEAN] /\ mishaps' \in Nat
       /\ \A j \in Kind \ {"Backup"} : queued'[j] = queued[j]
       /\ ~queued'["Backup"] => ~cut /\ patched /\ ~again /\ ~changed
  BY <1>T, <1>K, <1>1, <1>8, EndFlags
<1>12. FlagTypes'
  BY <1>T, <1>10, <1>11 DEF FlagTypes
<1>13. DataTypes'
  BY <1>T, <1>1, <1>2, <1>3, <1>5 DEF DataTypes, specVars, fleetVars
<1>14. RestoreInv'
  BY <1>T, <1>1, <1>10, <1>11, RestoreUntouched DEF specVars
<1>15. scheduled => \A c \in Cluster : vb[c] = "None"
  BY <1>T, <1>4 DEF BackupInv
<1>16. destination # {} => \A c \in Cluster \ destination : vb[c] = "None"
  BY <1>T, <1>1, <1>2, <1>4 DEF BackupInv
<1>17. ~scheduled => \A d \in details' : d[3] = "Completed" => vb[d[1]] = "Completed"
  <2>1. CASE patched
    BY <1>1, <1>6, <2>1
  <2>2. CASE ~patched
    <3> SUFFICES ASSUME ~scheduled, NEW d \in details, d[3] = "Completed" PROVE vb[d[1]] = "Completed"
      BY <1>1, <2>2
    <3>1. d[1] \in Cluster
      BY <1>T DEF DataTypes
    <3>2. veleroBackup[d[1]] = "Completed"
      BY <1>T, <1>1 DEF BackupInv
    <3> QED BY <1>4, <3>1, <3>2
  <2> QED BY <2>1, <2>2
<1>18. ASSUME ~queued'["Backup"], NEW c \in Cluster, vb[c] \notin {"None", "Completed"}
       PROVE  destination = {} /\ \A d \in details' : d[1] # c
  <2>1. ~scheduled /\ T = clusters /\ details' = ds /\ ds = details /\ \A d \in ds : d[3] = "Completed"
    BY <1>1, <1>9, <1>11, <1>18
  <2>2. c \notin T
    BY <1>7, <1>18, <2>1
  <2>3. destination = {}
    BY <1>2, <1>16, <1>18, <2>1, <2>2
  <2>4. \A d \in ds : d[1] # c
    BY <1>6, <1>18, <2>1
  <2> QED BY <2>1, <2>3, <2>4
<1>19. BackupInv'
  <2>1. UNCHANGED <<scheduled, destination>>
    BY <1>1 DEF specVars
  <2> QED BY <1>1, <1>10, <1>15, <1>16, <1>17, <1>18, <2>1 DEF BackupInv, Overlooked
<1>20. TypeOK'
  BY <1>12, <1>13, TypesNext
<1> QED BY <1>14, <1>19, <1>20 DEF IInv

\* The deletion of a Backup.
LEMMA BackupDeleteStep ==
  ASSUME IInv, NEW S, NEW patched \in BOOLEAN, reconcileDeleteBackup(S, patched)
  PROVE  IInv'
<1> DEFINE clusters == fetchDestinationClusters(destination)
           fetched == ~fetchFails(destination)
           cut == fetched /\ S # clusters
           again == ~fetched
           changed == FALSE
           f == keepsFinalizer(fetched, S = clusters) \/ ~patched
           vb == [c \in Cluster |-> IF c \in S /\ ~scheduled THEN "None" ELSE veleroBackup[c]]
<1>T. FlagTypes /\ DataTypes /\ BackupInv /\ RestoreInv
  BY Types DEF IInv
<1>K. "Backup" \in Kind
  BY DEF Kind
<1>1. /\ exists["Backup"] /\ deletionTimestamp["Backup"]
      /\ schedule' = schedule \ S /\ veleroBackup' = vb
      /\ Finalize("Backup", f)
      /\ EndReconcile("Backup", cut, patched, again, changed)
      /\ UNCHANGED <<specVars, fleetVars, runs, veleroRestore, restoredRun, details, restoreDetails>>
  BY DEF reconcileDeleteBackup, Deleting
<1>2. cut \in BOOLEAN /\ again \in BOOLEAN /\ changed \in BOOLEAN /\ f \in BOOLEAN
  BY DEF fetchFails, keepsFinalizer
<1>3. vb \in [Cluster -> Status] /\ \A c \in Cluster : vb[c] \in {"None", veleroBackup[c]}
  BY <1>T DEF DataTypes, Status
<1> HIDE DEF vb, cut, again, changed, f
<1>4. /\ exists' \in [Kind -> BOOLEAN] /\ finalizer' \in [Kind -> BOOLEAN]
      /\ deletionTimestamp' = deletionTimestamp
      /\ \A j \in Kind \ {"Backup"} : exists'[j] = exists[j]
  BY <1>T, <1>K, <1>1, <1>2, FinalizeFlags
<1>5. /\ queued' \in [Kind -> BOOLEAN] /\ mishaps' \in Nat
      /\ \A j \in Kind \ {"Backup"} : queued'[j] = queued[j]
  BY <1>T, <1>K, <1>1, <1>2, EndFlags
<1>6. TypeOK'
  <2>1. FlagTypes'
    BY <1>T, <1>4, <1>5 DEF FlagTypes
  <2>2. DataTypes'
    BY <1>T, <1>1, <1>3 DEF DataTypes, specVars, fleetVars
  <2> QED BY <2>1, <2>2, TypesNext
<1>7. RestoreInv'
  BY <1>T, <1>1, <1>4, <1>5, RestoreUntouched DEF specVars
<1>8. BackupInv'
  <2>1. UNCHANGED <<scheduled, destination>>
    BY <1>1 DEF specVars
  <2> QED BY <1>T, <1>1, <1>3, <1>4, <2>1 DEF BackupInv
<1> QED BY <1>6, <1>7, <1>8 DEF IInv

\* A call that cannot fetch its clusters asks to be called again.
LEMMA FetchErrorStep ==
  ASSUME IInv, NEW k \in Kind, NEW patched \in BOOLEAN, exists[k], ~deletionTimestamp[k], FetchError(k, patched)
  PROVE  IInv'
<1> DEFINE f == finalizer[k] \/ patched
           cut == FALSE
           again == TRUE
           changed == FALSE
<1>T. FlagTypes /\ DataTypes /\ BackupInv /\ RestoreInv
  BY Types DEF IInv
<1>1. /\ Finalize(k, f)
      /\ EndReconcile(k, cut, patched, again, changed)
      /\ UNCHANGED <<specVars, fleetVars, veleroVars, details, restoreDetails>>
  BY DEF FetchError
<1>2. cut \in BOOLEAN /\ again \in BOOLEAN /\ changed \in BOOLEAN /\ f \in BOOLEAN /\ again
  BY <1>T DEF FlagTypes
<1> HIDE DEF cut, again, changed, f
<1>3. /\ exists' \in [Kind -> BOOLEAN] /\ finalizer' \in [Kind -> BOOLEAN]
      /\ deletionTimestamp' = deletionTimestamp
      /\ \A j \in Kind \ {k} : exists'[j] = exists[j]
  BY <1>T, <1>1, <1>2, FinalizeFlags
<1>4. /\ queued' \in [Kind -> BOOLEAN] /\ mishaps' \in Nat
      /\ \A j \in Kind \ {k} : queued'[j] = queued[j]
      /\ queued'[k]
  BY <1>T, <1>1, <1>2, EndFlags
<1>5. TypeOK'
  <2>1. FlagTypes'
    BY <1>T, <1>3, <1>4 DEF FlagTypes
  <2>2. DataTypes'
    BY <1>T, <1>1 DEF DataTypes, specVars, fleetVars, veleroVars
  <2> QED BY <2>1, <2>2, TypesNext
<1>6. \A j \in Kind : (exists'[j] => exists[j]) /\ (~queued'[j] => ~queued[j])
  BY <1>3, <1>4
<1>7. "Backup" \in Kind /\ "Restore" \in Kind
  BY DEF Kind
<1>8. BackupInv'
  BY <1>T, <1>1, <1>3, <1>6, <1>7, BackupFrame DEF specVars, veleroVars
<1>9. RestoreInv'
  BY <1>T, <1>1, <1>3, <1>6, <1>7, RestoreFrame DEF specVars, veleroVars
<1> QED BY <1>5, <1>8, <1>9 DEF IInv
-----------------------------------------------------------------------------
(* The Restore controller. *)

\* A call for a Restore that is not being deleted.  An error may clear the
\* entries, but it has the call repeated.
LEMMA RestoreStep ==
  ASSUME IInv, NEW S, NEW T, NEW patched \in BOOLEAN, reconcileRestore(S, T, patched)
  PROVE  IInv'
<1> DEFINE clusters == fetchRestoreDestinationClusters
           vr == [c \in Cluster |->
                    IF c \in S /\ veleroRestore[c] = "None" THEN "InProgress" ELSE veleroRestore[c]]
           rd == [c \in Cluster |-> IF c \in T THEN vr[c] ELSE restoreDetails[c]]
           rr == [c \in Cluster |->
                    IF veleroRestore[c] = "None" /\ c \in S THEN (IF scheduled THEN runs[c] ELSE 1) ELSE restoredRun[c]]
           none == [c \in Cluster |-> "None"]
           cut == T # clusters
           again == ~allRestoreCompleted(rd)
           changed == rd # restoreDetails \/ ~finalizer["Restore"]
           f == finalizer["Restore"] \/ patched
<1>T. FlagTypes /\ DataTypes /\ BackupInv /\ RestoreInv
  BY Types DEF IInv
<1>K. "Restore" \in Kind
  BY DEF Kind
<1>1. /\ exists["Restore"] /\ ~deletionTimestamp["Restore"]
      /\ S \subseteq clusters /\ T \subseteq clusters /\ (T # {} => S = clusters)
      /\ veleroRestore' = vr /\ restoredRun' = rr
      /\ restoreDetails' = IF patched THEN (IF S = clusters /\ T # clusters THEN none ELSE rd) ELSE restoreDetails
      /\ Finalize("Restore", f)
      /\ EndReconcile("Restore", cut, patched, again, changed)
      /\ UNCHANGED <<specVars, fleetVars, veleroBackup, schedule, runs, details>>
  BY DEF reconcileRestore, Normal
<1>2. clusters \subseteq Cluster /\ (limit # {} => clusters = limit)
  BY <1>T, FetchTypes DEF fetchRestoreDestinationClusters, fetchDestinationClusters, limit
<1>3. vr \in [Cluster -> Status] /\ none \in [Cluster -> Status]
  BY <1>T DEF DataTypes, Status
<1>4. rr \in [Cluster -> 0..MaxRuns]
  BY <1>T, BoundAssumption DEF DataTypes
<1>5. \A c \in Cluster : /\ veleroRestore[c] = "Completed" => vr[c] = "Completed"
                         /\ vr[c] # veleroRestore[c] => c \in S
  OBVIOUS
<1> HIDE DEF vr
<1>6. rd \in [Cluster -> Status]
  BY <1>T, <1>3 DEF DataTypes
<1>7. \A c \in Cluster : rd[c] = "Completed" => vr[c] = "Completed"
  BY <1>T, <1>1, <1>5 DEF RestoreInv
<1>8. cut \in BOOLEAN /\ again \in BOOLEAN /\ changed \in BOOLEAN /\ f \in BOOLEAN
  <2>1. finalizer["Restore"] \in BOOLEAN
    BY <1>T, <1>K DEF FlagTypes
  <2> QED BY <2>1 DEF allRestoreCompleted
<1>9. ~again /\ ~cut /\ ~changed =>
        T = clusters /\ rd = restoreDetails /\ \A c \in Cluster : rd[c] \in {"None", "Completed"}
  BY DEF allRestoreCompleted
<1>10. \A c \in Cluster : c \in T => rd[c] = vr[c]
  OBVIOUS
<1>11. \A c \in Cluster : none[c] = "None"
  OBVIOUS
<1> HIDE DEF rd, rr, none, cut, again, changed, f
<1>12. /\ exists' \in [Kind -> BOOLEAN] /\ finalizer' \in [Kind -> BOOLEAN]
       /\ deletionTimestamp' = deletionTimestamp
       /\ \A j \in Kind \ {"Restore"} : exists'[j] = exists[j]
  BY <1>T, <1>K, <1>1, <1>8, FinalizeFlags
<1>13. /\ queued' \in [Kind -> BOOLEAN] /\ mishaps' \in Nat
       /\ \A j \in Kind \ {"Restore"} : queued'[j] = queued[j]
       /\ ~queued'["Restore"] => ~cut /\ patched /\ ~again /\ ~changed
  BY <1>T, <1>K, <1>1, <1>8, EndFlags
<1>14. TypeOK'
  <2>1. FlagTypes'
    BY <1>T, <1>12, <1>13 DEF FlagTypes
  <2>2. restoreDetails' \in [Cluster -> Status]
    BY <1>T, <1>1, <1>3, <1>6 DEF DataTypes
  <2>3. DataTypes'
    BY <1>T, <1>1, <1>3, <1>4, <2>2 DEF DataTypes, specVars, fleetVars
  <2> QED BY <2>1, <2>3, TypesNext
<1>15. BackupInv'
  BY <1>T, <1>1, <1>12, <1>13, BackupUntouched DEF specVars
<1>16. limit # {} => \A c \in Cluster \ limit : vr[c] = "None"
  BY <1>T, <1>1, <1>2, <1>5 DEF RestoreInv
<1>17. \A c \in Cluster : restoreDetails'[c] = "Completed" => vr[c] = "Completed"
  BY <1>T, <1>1, <1>5, <1>7, <1>11 DEF RestoreInv
<1>18. ASSUME ~queued'["Restore"], NEW c \in Cluster, vr[c] \notin {"None", "Completed"}
       PROVE  limit = {} /\ restoreDetails'[c] = "None"
  <2>1. T = clusters /\ restoreDetails' = rd /\ \A d \in Cluster : rd[d] \in {"None", "Completed"}
    BY <1>1, <1>9, <1>13, <1>18
  <2>2. c \notin T
    BY <1>10, <1>18, <2>1
  <2>3. limit = {}
    BY <1>2, <1>16, <1>18, <2>1, <2>2
  <2>4. rd[c] = "None"
    BY <1>7, <1>18, <2>1
  <2> QED BY <2>1, <2>3, <2>4
<1>19. RestoreInv'
  <2>1. UNCHANGED <<destination, restoreDestination, scheduled>> /\ limit' = limit
    BY <1>1 DEF specVars, limit
  <2>2. limit = {} => destination = {} /\ restoreDestination = {}
    BY DEF limit
  <2>3. RestoreRestsWhenComplete'
    BY <1>1, <1>18, <2>1, <2>2 DEF RestoreRestsWhenComplete, RestoreOverlooked
  <2> QED BY <1>1, <1>12, <1>16, <1>17, <2>1, <2>3 DEF RestoreInv
<1> QED BY <1>14, <1>15, <1>19 DEF IInv

\* The Restore is given up only without a completed run, or without its Backup.
LEMMA RestoreStopsStep ==
  ASSUME IInv, NEW patched \in BOOLEAN, NEW fault \in BOOLEAN, reconcileRestoreStops(patched, fault)
  PROVE  IInv'
<1> DEFINE f == finalizer["Restore"] \/ patched
           q == ~patched \/ ~finalizer["Restore"]
<1>T. FlagTypes /\ DataTypes /\ BackupInv /\ RestoreInv
  BY Types DEF IInv
<1>K. "Restore" \in Kind /\ "Backup" \in Kind \ {"Restore"}
  BY DEF Kind
<1>1. /\ exists["Restore"] /\ ~deletionTimestamp["Restore"]
      /\ scheduled \/ ~exists["Backup"]
      /\ Finalize("Restore", f)
      /\ queued' = [queued EXCEPT !["Restore"] = q]
      /\ UNCHANGED <<specVars, fleetVars, veleroVars, details, restoreDetails>>
  BY DEF reconcileRestoreStops, Normal, noCompletedBackup
<1>2. mishaps' \in Nat
  BY <1>T DEF reconcileRestoreStops, FlagTypes
<1>3. f \in BOOLEAN /\ q \in BOOLEAN
  BY <1>T, <1>K DEF FlagTypes
<1> HIDE DEF f, q
<1>4. /\ exists' \in [Kind -> BOOLEAN] /\ finalizer' \in [Kind -> BOOLEAN]
      /\ deletionTimestamp' = deletionTimestamp
      /\ \A j \in Kind \ {"Restore"} : exists'[j] = exists[j]
  BY <1>T, <1>K, <1>1, <1>3, FinalizeFlags
<1>5. queued' \in [Kind -> BOOLEAN] /\ \A j \in Kind \ {"Restore"} : queued'[j] = queued[j]
  BY <1>T, <1>1, <1>3 DEF FlagTypes
<1>6. TypeOK'
  <2>1. FlagTypes'
    BY <1>T, <1>2, <1>4, <1>5 DEF FlagTypes
  <2>2. DataTypes'
    BY <1>T, <1>1 DEF DataTypes, specVars, fleetVars, veleroVars
  <2> QED BY <2>1, <2>2, TypesNext
<1>7. BackupInv' /\ exists'["Backup"] = exists["Backup"]
  BY <1>T, <1>1, <1>4, <1>5, BackupUntouched DEF specVars, veleroVars
<1>8. RestoreInv'
  <2>1. UNCHANGED <<destination, restoreDestination, scheduled, veleroRestore, restoreDetails>> /\ limit' = limit
    BY <1>1 DEF specVars, veleroVars, limit
  <2>2. scheduled' \/ ~exists'["Backup"]
    BY <1>1, <1>7, <2>1
  <2>3. RestoreRestsWhenComplete'
    BY <2>2 DEF RestoreRestsWhenComplete
  <2> QED BY <1>T, <1>4, <2>1, <2>3 DEF RestoreInv
<1> QED BY <1>6, <1>7, <1>8 DEF IInv

\* The deletion of a Restore.
LEMMA RestoreDeleteStep ==
  ASSUME IInv, NEW S, NEW patched \in BOOLEAN, reconcileDeleteRestore(S, patched)
  PROVE  IInv'
<1> DEFINE clusters == fetchRestoreDestinationClusters
           fetched == ~fetchRestoreFails
           cut == fetched /\ S # clusters
           again == ~fetched
           changed == FALSE
           f == keepsFinalizer(fetched, S = clusters) \/ ~patched
           vr == [c \in Cluster |-> IF c \in S THEN "None" ELSE veleroRestore[c]]
           rr == [c \in Cluster |-> IF c \in S THEN 0 ELSE restoredRun[c]]
<1>T. FlagTypes /\ DataTypes /\ BackupInv /\ RestoreInv
  BY Types DEF IInv
<1>K. "Restore" \in Kind
  BY DEF Kind
<1>1. /\ exists["Restore"] /\ deletionTimestamp["Restore"]
      /\ veleroRestore' = vr /\ restoredRun' = rr
      /\ Finalize("Restore", f)
      /\ EndReconcile("Restore", cut, patched, again, changed)
      /\ UNCHANGED <<specVars, fleetVars, veleroBackup, schedule, runs, details, restoreDetails>>
  BY DEF reconcileDeleteRestore, Deleting
<1>2. cut \in BOOLEAN /\ again \in BOOLEAN /\ changed \in BOOLEAN /\ f \in BOOLEAN
  BY DEF fetchRestoreFails, fetchFails, keepsFinalizer
<1>3. /\ vr \in [Cluster -> Status] /\ rr \in [Cluster -> 0..MaxRuns]
      /\ \A c \in Cluster : vr[c] \in {"None", veleroRestore[c]}
  BY <1>T, BoundAssumption DEF DataTypes, Status
<1> HIDE DEF vr, rr, cut, again, changed, f
<1>4. /\ exists' \in [Kind -> BOOLEAN] /\ finalizer' \in [Kind -> BOOLEAN]
      /\ deletionTimestamp' = deletionTimestamp
      /\ \A j \in Kind \ {"Restore"} : exists'[j] = exists[j]
  BY <1>T, <1>K, <1>1, <1>2, FinalizeFlags
<1>5. /\ queued' \in [Kind -> BOOLEAN] /\ mishaps' \in Nat
      /\ \A j \in Kind \ {"Restore"} : queued'[j] = queued[j]
  BY <1>T, <1>K, <1>1, <1>2, EndFlags
<1>6. TypeOK'
  <2>1. FlagTypes'
    BY <1>T, <1>4, <1>5 DEF FlagTypes
  <2>2. DataTypes'
    BY <1>T, <1>1, <1>3 DEF DataTypes, specVars, fleetVars
  <2> QED BY <2>1, <2>2, TypesNext
<1>7. BackupInv'
  BY <1>T, <1>1, <1>4, <1>5, BackupUntouched DEF specVars
<1>8. RestoreInv'
  <2>1. limit' = limit
    BY <1>1 DEF specVars, limit
  <2> QED BY <1>T, <1>1, <1>3, <1>4, <2>1 DEF RestoreInv, RestoreRestsWhenComplete
<1> QED BY <1>6, <1>7, <1>8 DEF IInv
-----------------------------------------------------------------------------
(* The rest of the steps. *)

\* Steps that leave the data of both objects alone, and put neither to rest.
LEMMA QuietStep ==
  ASSUME IInv, FlagTypes', DataTypes',
         UNCHANGED <<scheduled, destination, restoreDestination, veleroBackup, veleroRestore, details, restoreDetails>>,
         \A k \in Kind : deletionTimestamp[k] => deletionTimestamp'[k],
         exists'["Backup"] => exists["Backup"],
         \A k \in Kind : exists'[k] /\ ~deletionTimestamp'[k] /\ ~queued'[k] => exists[k] /\ ~queued[k]
  PROVE  IInv'
<1>1. "Backup" \in Kind /\ "Restore" \in Kind
  BY DEF Kind
<1>2. BackupInv'
  BY <1>1, BackupFrame DEF IInv
<1>3. RestoreInv'
  BY <1>1, RestoreFrame DEF IInv
<1> QED BY <1>2, <1>3, TypesNext DEF IInv

\* A call for an object that is gone.
LEMMA GoneStep ==
  ASSUME IInv, NEW k \in Kind, reconcileGone(k)
  PROVE  IInv'
<1>T. FlagTypes /\ DataTypes
  BY Types DEF IInv
<1>1. FlagTypes'
  BY <1>T DEF reconcileGone, objectVars, FlagTypes
<1>2. DataTypes'
  BY <1>T DEF reconcileGone, specVars, fleetVars, veleroVars, DataTypes
<1>3. \A j \in Kind : exists'[j] /\ ~deletionTimestamp'[j] /\ ~queued'[j] => exists[j] /\ ~queued[j]
  BY <1>T DEF reconcileGone, objectVars, FlagTypes
<1>4. /\ UNCHANGED <<scheduled, destination, restoreDestination, veleroBackup, veleroRestore, details, restoreDetails>>
      /\ UNCHANGED <<exists, deletionTimestamp>>
  BY DEF reconcileGone, objectVars, specVars, veleroVars
<1> QED BY <1>1, <1>2, <1>3, <1>4, QuietStep

\* Users.
LEMMA UserStep ==
  ASSUME IInv, CreateRestore \/ \E k \in Kind : DeleteObject(k)
  PROVE  IInv'
<1>T. FlagTypes /\ DataTypes
  BY Types DEF IInv
<1>K. "Restore" \in Kind /\ "Backup" \in Kind /\ "Backup" # "Restore"
  BY DEF Kind
<1>1. CASE CreateRestore
  <2>1. FlagTypes'
    BY <1>T, <1>1 DEF CreateRestore, FlagTypes
  <2>2. DataTypes'
    BY <1>T, <1>1 DEF CreateRestore, specVars, fleetVars, veleroVars, DataTypes
  <2>3. /\ exists'["Backup"] => exists["Backup"]
        /\ \A j \in Kind : exists'[j] /\ ~deletionTimestamp'[j] /\ ~queued'[j] => exists[j] /\ ~queued[j]
    BY <1>T, <1>K, <1>1 DEF CreateRestore, FlagTypes
  <2>4. /\ UNCHANGED <<scheduled, destination, restoreDestination, veleroBackup, veleroRestore, details, restoreDetails>>
        /\ UNCHANGED deletionTimestamp
    BY <1>1 DEF CreateRestore, specVars, veleroVars
  <2> QED BY <2>1, <2>2, <2>3, <2>4, QuietStep
<1>2. ASSUME NEW k \in Kind, DeleteObject(k) PROVE IInv'
  <2>1. FlagTypes'
    BY <1>T, <1>2 DEF DeleteObject, FlagTypes
  <2>2. DataTypes'
    BY <1>T, <1>2 DEF DeleteObject, specVars, fleetVars, veleroVars, DataTypes
  <2>3. /\ exists'["Backup"] => exists["Backup"]
        /\ \A j \in Kind : exists'[j] /\ ~deletionTimestamp'[j] /\ ~queued'[j] => exists[j] /\ ~queued[j]
        /\ \A j \in Kind : deletionTimestamp[j] => deletionTimestamp'[j]
    BY <1>T, <1>K, <1>2 DEF DeleteObject, FlagTypes
  <2>4. UNCHANGED <<scheduled, destination, restoreDestination, veleroBackup, veleroRestore, details, restoreDetails>>
    BY <1>2 DEF DeleteObject, specVars, veleroVars
  <2> QED BY <2>1, <2>2, <2>3, <2>4, QuietStep
<1> QED BY <1>1, <1>2

\* The fleet, and the schedules of Velero.
LEMMA FleetStep ==
  ASSUME IInv, FleetChanges \/ \E c \in Cluster : ClusterBecomesReady(c) \/ VeleroRunsSchedule(c)
  PROVE  IInv'
<1>T. FlagTypes /\ DataTypes
  BY Types DEF IInv
<1>1. /\ UNCHANGED <<scheduled, destination, restoreDestination, veleroBackup, veleroRestore, restoredRun, details, restoreDetails>>
      /\ UNCHANGED <<objectVars, queued, schedule>>
  BY DEF FleetChanges, ClusterBecomesReady, VeleroRunsSchedule, specVars, veleroVars
<1>2. mishaps' \in Nat
  BY <1>T DEF FleetChanges, ClusterBecomesReady, VeleroRunsSchedule, FlagTypes
<1>3. fleet' \in BOOLEAN /\ ready' \subseteq Cluster
  BY <1>T DEF FleetChanges, ClusterBecomesReady, VeleroRunsSchedule, DataTypes, fleetVars
<1>4. runs' \in [Cluster -> 0..MaxRuns]
  BY <1>T, BoundAssumption DEF FleetChanges, ClusterBecomesReady, VeleroRunsSchedule, DataTypes, veleroVars
<1>5. FlagTypes'
  BY <1>T, <1>1, <1>2 DEF FlagTypes, objectVars
<1>6. DataTypes'
  BY <1>T, <1>1, <1>3, <1>4 DEF DataTypes
<1> QED BY <1>1, <1>5, <1>6, QuietStep DEF objectVars

\* Velero ends a backup: one that has ended does not change.
LEMMA VeleroBackupStep ==
  ASSUME IInv, NEW b \in Cluster, VeleroBacksUp(b)
  PROVE  IInv'
<1>T. FlagTypes /\ DataTypes /\ BackupInv /\ RestoreInv
  BY Types DEF IInv
<1>1. /\ veleroBackup[b] = "InProgress" /\ mishaps' \in Nat
      /\ UNCHANGED <<objectVars, queued, specVars, fleetVars, schedule, runs, veleroRestore, restoredRun, details, restoreDetails>>
  BY <1>T DEF VeleroBacksUp, FlagTypes
<1>2. /\ veleroBackup' \in [Cluster -> Status]
      /\ \A c \in Cluster \ {b} : veleroBackup'[c] = veleroBackup[c]
  BY <1>T DEF VeleroBacksUp, DataTypes, Status
<1>3. FlagTypes'
  BY <1>T, <1>1 DEF FlagTypes, objectVars
<1>4. DataTypes'
  BY <1>T, <1>1, <1>2 DEF DataTypes, specVars, fleetVars
<1>5. RestoreInv'
  BY <1>T, <1>1, RestoreFrame DEF specVars, objectVars
<1>6. BackupInv'
  <2>1. /\ UNCHANGED <<scheduled, destination, details, exists, deletionTimestamp, queued>>
        /\ \A d \in details : d[1] \in Cluster
    BY <1>T, <1>1 DEF specVars, objectVars, DataTypes
  <2>2. ~scheduled /\ (destination # {} => b \in destination)
    BY <1>T, <1>1 DEF BackupInv
  <2>3. ~deletionTimestamp["Backup"] => \A d \in details : d[3] = "Completed" => d[1] # b
    BY <1>T, <1>1, <2>2 DEF BackupInv
  <2>4. /\ destination' # {} => \A c \in Cluster \ destination' : veleroBackup'[c] = "None"
        /\ ~deletionTimestamp'["Backup"] => \A d \in details' : d[3] = "Completed" => veleroBackup'[d[1]] = "Completed"
    BY <1>T, <1>2, <2>1, <2>2, <2>3 DEF BackupInv
  <2>5. exists'["Backup"] /\ ~deletionTimestamp'["Backup"] /\ ~queued'["Backup"] =>
          \A c \in Cluster : veleroBackup'[c] \in {"None", "Completed"} \/ Overlooked(c)'
    BY <1>T, <1>1, <1>2, <2>1 DEF BackupInv, Overlooked
  <2> QED BY <2>1, <2>2, <2>4, <2>5 DEF BackupInv
<1> QED BY <1>3, <1>4, <1>5, <1>6, TypesNext DEF IInv

\* Velero ends a restore.
LEMMA VeleroRestoreStep ==
  ASSUME IInv, NEW b \in Cluster, VeleroRestores(b)
  PROVE  IInv'
<1>T. FlagTypes /\ DataTypes /\ BackupInv /\ RestoreInv
  BY Types DEF IInv
<1>1. /\ veleroRestore[b] = "InProgress"
      /\ UNCHANGED <<objectVars, queued, specVars, fleetVars, veleroBackup, schedule, runs, restoredRun, details, restoreDetails, mishaps>>
  BY DEF VeleroRestores
<1>2. /\ veleroRestore' \in [Cluster -> Status]
      /\ \A c \in Cluster \ {b} : veleroRestore'[c] = veleroRestore[c]
  BY <1>T DEF VeleroRestores, DataTypes, Status
<1>3. FlagTypes'
  BY <1>T, <1>1 DEF FlagTypes, objectVars
<1>4. DataTypes'
  BY <1>T, <1>1, <1>2 DEF DataTypes, specVars, fleetVars
<1>5. BackupInv'
  BY <1>T, <1>1, BackupFrame DEF specVars, objectVars
<1>6. RestoreInv'
  <2>1. /\ UNCHANGED <<scheduled, destination, restoreDestination, restoreDetails, exists, deletionTimestamp, queued>>
        /\ limit' = limit
    BY <1>1 DEF specVars, objectVars, limit
  <2>2. limit # {} => b \in limit
    BY <1>T, <1>1 DEF RestoreInv
  <2>3. /\ limit' # {} => \A c \in Cluster \ limit' : veleroRestore'[c] = "None"
        /\ ~deletionTimestamp'["Restore"] =>
             \A c \in Cluster : restoreDetails'[c] = "Completed" => veleroRestore'[c] = "Completed"
    BY <1>T, <1>1, <1>2, <2>1, <2>2 DEF RestoreInv
  <2>4. RestoreRestsWhenComplete'
    BY <1>T, <1>1, <1>2, <2>1 DEF RestoreInv, RestoreRestsWhenComplete, RestoreOverlooked
  <2> QED BY <2>3, <2>4 DEF RestoreInv
<1> QED BY <1>3, <1>4, <1>5, <1>6, TypesNext DEF IInv
-----------------------------------------------------------------------------
(* The theorems. *)

\* Nothing is created yet.
LEMMA Initial == Init => IInv
<1> SUFFICES ASSUME Init PROVE IInv
  OBVIOUS
<1>1. FlagTypes
  BY BoundAssumption DEF Init, FlagTypes
<1>2. DataTypes
  BY DestinationAssumption, BoundAssumption DEF Init, DataTypes, Status
<1>3. BackupInv
  BY DEF Init, BackupInv, Kind
<1>4. RestoreInv
  BY DEF Init, RestoreInv, RestoreRestsWhenComplete, Kind
<1> QED BY <1>1, <1>2, <1>3, <1>4, Types DEF IInv

\* Every step keeps the invariant.
LEMMA Step == IInv /\ [Next]_vars => IInv'
<1> SUFFICES ASSUME IInv, [Next]_vars PROVE IInv'
  OBVIOUS
<1>K. "Backup" \in Kind /\ "Restore" \in Kind
  BY DEF Kind
<1>1. CASE BackupReconcile
  <2>1. ASSUME NEW patched \in BOOLEAN, reconcileBackupFetchError(patched) PROVE IInv'
    BY <1>K, <2>1, FetchErrorStep DEF reconcileBackupFetchError, Normal
  <2> QED BY <1>1, <1>K, <2>1, BackupStep, BackupDeleteStep, GoneStep DEF BackupReconcile
<1>2. CASE RestoreReconcile
  <2>1. ASSUME NEW patched \in BOOLEAN, reconcileRestoreFetchError(patched) PROVE IInv'
    BY <1>K, <2>1, FetchErrorStep DEF reconcileRestoreFetchError, Normal
  <2> QED BY <1>2, <1>K, <2>1, RestoreStep, RestoreStopsStep, RestoreDeleteStep, GoneStep DEF RestoreReconcile
<1>3. CASE Environment
  BY <1>3, UserStep, FleetStep, VeleroBackupStep, VeleroRestoreStep DEF Environment
<1>4. CASE UNCHANGED vars
  <2>1. /\ UNCHANGED <<exists, deletionTimestamp, finalizer, queued, scheduled, destination, restoreDestination, fleet, ready>>
        /\ UNCHANGED <<veleroBackup, schedule, runs, veleroRestore, restoredRun, details, restoreDetails, mishaps>>
    BY <1>4 DEF vars, objectVars, specVars, fleetVars, veleroVars
  <2>2. FlagTypes' /\ DataTypes'
    BY <2>1, Types DEF IInv, FlagTypes, DataTypes
  <2> QED BY <2>1, <2>2, QuietStep
<1> QED BY <1>1, <1>2, <1>3, <1>4 DEF Next

\* The Backup controller rests only when the Velero backups it follows are complete.
THEOREM BackupRests == Spec => []BackupRestsWhenComplete
<1>1. IInv => BackupRestsWhenComplete
  BY DEF IInv, BackupInv, BackupRestsWhenComplete
<1> QED BY <1>1, Initial, Step, PTL DEF Spec

\* The Restore controller rests only when the Velero restores it follows are complete.
THEOREM RestoreRests == Spec => []RestoreRestsWhenComplete
<1>1. IInv => RestoreRestsWhenComplete
  BY DEF IInv, RestoreInv
<1> QED BY <1>1, Initial, Step, PTL DEF Spec
=============================================================================

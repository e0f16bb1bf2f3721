-------------------------------- MODULE Fleet --------------------------------
(***************************************************************************)
(* The Fleet controller of the fleet manager, with the AttachedCluster      *)
(* controller it depends on: the control plane (Karmada) of one fleet is    *)
(* installed by a pod, the clusters of the spec are labelled and joined to  *)
(* it, clusters taken out of the spec leave, and all is given back when the *)
(* fleet is deleted.                                                        *)
(*                                                                          *)
(* One step of a controller is one whole call of Reconcile, which may stop  *)
(* after any API write.  The order in which a call goes through the clusters *)
(* is the order of a list; here the clusters handled before a stop are any  *)
(* subset.  The plugins of a fleet have a module of their own.              *)
(***************************************************************************)
EXTENDS FiniteSets, Integers

CONSTANTS
  Cluster,       \* the AttachedClusters a fleet may list
  DeleteAnytime, \* may the fleet be deleted before its finalizer is there or while its init pod runs?
  MaxEdits,      \* bound on the edits of fleet.Spec.Clusters
  MaxMishaps     \* bound on the calls of Reconcile that are cut short, the pods
                 \* that fail and the clusters that are lost or unreachable

ASSUME ClusterAssumption == IsFiniteSet(Cluster)
ASSUME FlagAssumption == DeleteAnytime \in BOOLEAN
ASSUME BoundAssumption == MaxEdits \in Nat /\ MaxMishaps \in Nat

VARIABLES
  exists,            \* the fleet is there
  deletionTimestamp, \* it is being deleted
  finalizer,         \* it carries FleetFinalizer
  phase,             \* fleet.Status.Phase as stored
  readyClusters,     \* fleet.Status.ReadyClusters as stored
  controlplane,      \* it carries ControlplaneAnnotation
  specClusters,      \* fleet.Spec.Clusters
  object,            \* has the object of a cluster been created or deleted?
  labeled,           \* the clusters with FleetLabel
  ready,             \* the clusters with Status.Ready
  reachable,         \* the clusters whose API server answers (external)
  attachedQueue,     \* the clusters whose own reconcile is due
  sa,                \* the service account of the pods exists
  subjects,          \* how often it is listed in ClusterRoleBinding fleet-worker
  initPod,           \* the pod that runs karmadactl init
  deletePod,         \* the pod that runs karmadactl deinit
  karmada,           \* something of Karmada is installed (external)
  members,           \* the clusters joined to it (external)
  queued,            \* is a reconcile of the fleet due?
  edits,             \* what is left of MaxEdits
  mishaps            \* and of MaxMishaps

fleetVars == <<exists, deletionTimestamp, finalizer, phase, readyClusters, controlplane>>

clusterVars == <<object, labeled, ready, reachable>>

podVars == <<sa, subjects, initPod, deletePod>>

bounds == <<edits, mishaps>>

vars == <<fleetVars, specClusters, clusterVars, attachedQueue, podVars, karmada, members, queued, bounds>>

FleetPhase == {"", "Running", "Failed", "Ready", "Terminating", "TerminateFailed", "TerminateSucceeded"}

PodPhase == {"None", "Running", "Succeeded", "Failed"}

There == {c \in Cluster : object[c] = "There"}

\* What the deferred patchHelper.Patch wrote: the metadata and the status.
Patch == [meta : BOOLEAN, status : BOOLEAN]
-----------------------------------------------------------------------------
(* The steps of Reconcile. *)

\* Mutant: only errors have Reconcile called again.
Mutant_EndReconcile(cut, error, w, p, n) ==
  LET faulty == cut \/ ~w.meta \/ ~w.status IN
  /\ phase' = IF w.status THEN p ELSE phase
  /\ readyClusters' = IF w.status THEN n ELSE readyClusters
  /\ faulty => mishaps > 0
  /\ mishaps' = IF faulty THEN mishaps - 1 ELSE mishaps
  /\ queued' = error

\* The end of a call: a cut is charged to the bound; the next reconcile is due
\* after an error or when a watched object (the fleet, a pod or a cluster with
\* the fleet's label) has changed.
EndReconcile(cut, error, w, p, n) ==
  LET faulty == cut \/ ~w.meta \/ ~w.status IN
  /\ phase' = IF w.status THEN p ELSE phase
  /\ readyClusters' = IF w.status THEN n ELSE readyClusters
  /\ faulty => mishaps > 0
  /\ mishaps' = IF faulty THEN mishaps - 1 ELSE mishaps
  /\ queued' = \/ faulty
               \/ error
               \/ <<fleetVars, labeled, initPod, deletePod>>' # <<fleetVars, labeled, initPod, deletePod>>

\* The phase Reconcile starts with in memory.
startPhase == IF finalizer THEN phase ELSE "Running"

Normal == queued /\ exists /\ ~deletionTimestamp

AddFinalizer(w) == finalizer' = (finalizer \/ w.meta)

\* The init pod is not there.  Writes: service account, role binding, pod.
reconcileControlPlane(w, done) ==
  /\ Normal
  /\ controlplane
  /\ initPod = "None"
  /\ AddFinalizer(w)
  /\ sa' = (sa \/ done >= 1)
  /\ subjects' = IF done >= 2 THEN subjects + 1 ELSE subjects
  /\ initPod' = IF done = 3 THEN "Running" ELSE initPod
  /\ UNCHANGED <<controlplane, exists, deletionTimestamp, deletePod, labeled>>
  /\ EndReconcile(done < 3, FALSE, w, IF done < 3 THEN "Failed" ELSE "Running", readyClusters)
  /\ UNCHANGED <<specClusters, object, ready, reachable, attachedQueue, karmada, members, edits>>

\* The init pod has not succeeded, and the fleet was not ready before.
reconcileWait(w) ==
  /\ Normal
  /\ controlplane
  /\ initPod \in {"Running", "Failed"}
  /\ startPhase # "Ready"
  /\ AddFinalizer(w)
  /\ UNCHANGED <<controlplane, exists, deletionTimestamp, labeled, podVars>>
  /\ EndReconcile(FALSE, FALSE, w, startPhase, readyClusters)
  /\ UNCHANGED <<specClusters, object, ready, reachable, attachedQueue, karmada, members, edits>>

\* What one call of reconcileClusters has to do.
toLabel == (specClusters \cap There) \ labeled

toJoin == IF controlplane THEN (specClusters \cap There \cap ready) \ members ELSE {}

\* Mutant: a cluster that is still ready is not unjoined.
Mutant_leavers == {c \in labeled \ specClusters : c \notin ready}

leavers == labeled \ specClusters

\* Mutant: a cluster is joined before it is labelled.
Mutant_InOrder(L, J, U, V) ==
  /\ L # {} => J = toJoin
  /\ U # {} => L = toLabel /\ J = toJoin
  /\ V \subseteq U /\ Cardinality(U \ V) <= 1

\* The order of the writes: all labels, then all joins, then cluster by cluster
\* the unjoin and the removal of the label.
InOrder(L, J, U, V) ==
  /\ J # {} => L = toLabel
  /\ U \cup V # {} => L = toLabel /\ J = toJoin
  /\ IF controlplane THEN V \subseteq U /\ Cardinality(U \ V) <= 1 ELSE U = {}

\* joinCluster asks every ready cluster for its identity, also one that has
\* joined before.
joinBlocked == controlplane /\ ~(specClusters \cap There \cap ready \subseteq reachable)

\* karmadactl unjoin wants the cluster to answer and to be a member.
unjoinBlocked == controlplane /\ ~(leavers \subseteq reachable \cap members)

\* BuildFleetClusters fails if a listed cluster does not exist.
BuildFails == ~(specClusters \subseteq There)

\* The control plane is there, or none is asked for.  Writes: the labels L, the
\* joins J, the unjoins U and the labels V that are removed.
reconcileClusters(w, L, J, U, V) ==
  LET joined == L = toLabel /\ J = toJoin /\ ~joinBlocked
      cut == \/ L # toLabel
             \/ ~joinBlocked /\ J # toJoin
             \/ joined /\ ~unjoinBlocked /\ V # leavers
      complete == joined /\ V = leavers
  IN
  /\ Normal
  /\ controlplane => initPod = "Succeeded" \/ (initPod # "None" /\ startPhase = "Ready")
  /\ controlplane => V \subseteq reachable
  /\ InOrder(L, J, U, V)
  /\ U \cup V # {} => ~joinBlocked
  /\ AddFinalizer(w)
  /\ labeled' = (labeled \cup L) \ V
  /\ members' = (members \cup J) \ U
  /\ attachedQueue' = attachedQueue \cup L \cup V
  /\ UNCHANGED <<controlplane, exists, deletionTimestamp, podVars>>
  /\ EndReconcile(cut, ~complete \/ BuildFails, w, "Ready",
                  IF L = toLabel THEN Cardinality(specClusters \cap There \cap ready) ELSE readyClusters)
  /\ UNCHANGED <<specClusters, object, ready, reachable, karmada, edits>>

\* The clusters of the spec that still have the label.
toUnlabel == specClusters \cap There \cap labeled

\* Mutant: the finalizer is removed as soon as the delete pod has been created.
Mutant_Terminated(unlabeled, done) == unlabeled /\ (controlplane => deletePod # "None")

\* deleteControlPlane ended in TerminateSucceeded.
Terminated(unlabeled, done) ==
  unlabeled /\ (controlplane => deletePod = "Succeeded" /\ done)

\* Writes: the labels V that are removed, then the delete pod, or the role
\* binding once the pod has succeeded, and the finalizer with the patch.  Of the
\* subjects in the fleet's namespace only the first is removed.
reconcileDelete(w, V, done) ==
  LET unlabeled == V = toUnlabel
      create == controlplane /\ unlabeled /\ deletePod = "None"
      unbind == controlplane /\ unlabeled /\ deletePod = "Succeeded"
      refused == create /\ ~sa
      removed == Terminated(unlabeled, done) /\ w.meta
  IN
  /\ queued
  /\ exists
  /\ deletionTimestamp
  /\ done => (create /\ ~refused) \/ unbind
  /\ labeled' = labeled \ V
  /\ attachedQueue' = attachedQueue \cup V
  /\ finalizer' = ~removed
  /\ exists' = ~removed
  /\ sa' = (sa /\ ~removed)
  /\ subjects' = IF unbind /\ done /\ subjects > 0 THEN subjects - 1 ELSE subjects
  /\ initPod' = IF removed THEN "None" ELSE initPod
  /\ deletePod' = IF removed THEN "None" ELSE IF create /\ done THEN "Running" ELSE deletePod
  /\ UNCHANGED <<controlplane, deletionTimestamp>>
  /\ EndReconcile(~unlabeled \/ (~done /\ ((create /\ ~refused) \/ unbind)), refused, w,
                  IF Terminated(unlabeled, done) THEN "TerminateSucceeded"
                  ELSE IF controlplane /\ unlabeled /\ deletePod = "Failed" THEN "TerminateFailed"
                  ELSE "Terminating",
                  readyClusters)
  /\ UNCHANGED <<specClusters, object, ready, reachable, karmada, members, edits>>

\* The fleet is not found.
reconcileGone ==
  /\ queued
  /\ ~exists
  /\ queued' = FALSE
  /\ UNCHANGED <<fleetVars, specClusters, clusterVars, attachedQueue, podVars, karmada, members, bounds>>

Reconcile ==
  \/ \E w \in Patch : \E done \in 0..3 : reconcileControlPlane(w, done)
  \/ \E w \in Patch : reconcileWait(w)
  \/ \E L \in SUBSET toLabel, J \in SUBSET (toJoin \cap reachable),
        U \in SUBSET (leavers \cap members), V \in SUBSET leavers :
       \E w \in Patch : reconcileClusters(w, L, J, U, V)
  \/ \E w \in Patch : \E V \in SUBSET toUnlabel : \E done \in BOOLEAN : reconcileDelete(w, V, done)
  \/ reconcileGone

\* Mutant: the AttachedClusters are not watched.
Mutant_objectToFleetFunc(c) == FALSE

\* An event of a cluster wakes the fleet its label names.
objectToFleetFunc(c) == c \in labeled

\* A call of the AttachedCluster controller: Ready says whether the cluster
\* answered.  An error, or a patch that fails, is tried again.
reconcileAttached(c, patched) ==
  /\ c \in attachedQueue
  /\ ~patched => mishaps > 0
  /\ mishaps' = IF patched THEN mishaps ELSE mishaps - 1
  /\ ready' = IF c \in There /\ patched
              THEN (IF c \in reachable THEN ready \cup {c} ELSE ready \ {c}) ELSE ready
  /\ attachedQueue' = IF c \notin There \/ (c \in reachable /\ patched) THEN attachedQueue \ {c} ELSE attachedQueue
  /\ queued' = (queued \/ (ready' # ready /\ objectToFleetFunc(c)))
  /\ UNCHANGED <<fleetVars, specClusters, object, labeled, reachable, podVars, karmada, members, edits>>
-----------------------------------------------------------------------------
(* The pods (external: karmadactl).  They work with the rights of the role     *)
(* binding.                                                                   *)

InitProgresses ==
  /\ initPod = "Running"
  /\ subjects > 0
  /\ karmada' = TRUE
  /\ UNCHANGED <<fleetVars, specClusters, clusterVars, attachedQueue, podVars, members, queued, bounds>>

InitSucceeds ==
  /\ initPod = "Running"
  /\ subjects > 0
  /\ karmada' = TRUE
  /\ initPod' = "Succeeded"
  /\ queued' = TRUE
  /\ UNCHANGED <<fleetVars, specClusters, clusterVars, attachedQueue, sa, subjects, deletePod, members, bounds>>

InitFails ==
  /\ initPod = "Running"
  /\ mishaps > 0
  /\ mishaps' = mishaps - 1
  /\ initPod' = "Failed"
  /\ queued' = TRUE
  /\ UNCHANGED <<fleetVars, specClusters, clusterVars, attachedQueue, sa, subjects, deletePod, karmada, members, edits>>

DeinitSucceeds ==
  /\ deletePod = "Running"
  /\ subjects > 0
  /\ karmada' = FALSE
  /\ members' = {}
  /\ deletePod' = "Succeeded"
  /\ queued' = TRUE
  /\ UNCHANGED <<fleetVars, specClusters, clusterVars, attachedQueue, sa, subjects, initPod, bounds>>

DeinitFails ==
  /\ deletePod = "Running"
  /\ mishaps > 0 \/ subjects = 0
  /\ mishaps' = IF subjects = 0 THEN mishaps ELSE mishaps - 1
  /\ deletePod' = "Failed"
  /\ queued' = TRUE
  /\ UNCHANGED <<fleetVars, specClusters, clusterVars, attachedQueue, sa, subjects, initPod, karmada, members, edits>>
-----------------------------------------------------------------------------
(* Users, operators and the clusters (external). *)

EditClusters(c) ==
  /\ exists
  /\ edits > 0
  /\ edits' = edits - 1
  /\ specClusters' = IF c \in specClusters THEN specClusters \ {c} ELSE specClusters \cup {c}
  /\ queued' = TRUE
  /\ UNCHANGED <<fleetVars, clusterVars, attachedQueue, podVars, karmada, members, mishaps>>

CreateCluster(c) ==
  /\ object[c] = "NotYet"
  /\ object' = [object EXCEPT ![c] = "There"]
  /\ attachedQueue' = attachedQueue \cup {c}
  /\ UNCHANGED <<fleetVars, specClusters, labeled, ready, reachable, podVars, karmada, members, queued, bounds>>

DeleteCluster(c) ==
  /\ object[c] = "There"
  /\ mishaps > 0
  /\ mishaps' = mishaps - 1
  /\ object' = [object EXCEPT ![c] = "Gone"]
  /\ labeled' = labeled \ {c}
  /\ ready' = ready \ {c}
  /\ attachedQueue' = attachedQueue \cup {c}
  /\ queued' = (queued \/ objectToFleetFunc(c))
  /\ UNCHANGED <<fleetVars, specClusters, reachable, podVars, karmada, members, edits>>

ClusterDown(c) ==
  /\ c \in reachable
  /\ mishaps > 0
  /\ mishaps' = mishaps - 1
  /\ reachable' = reachable \ {c}
  /\ UNCHANGED <<fleetVars, specClusters, object, labeled, ready, attachedQueue, podVars, karmada, members, queued, edits>>

ClusterUp(c) ==
  /\ c \notin reachable
  /\ reachable' = reachable \cup {c}
  /\ UNCHANGED <<fleetVars, specClusters, object, labeled, ready, attachedQueue, podVars, karmada, members, queued, bounds>>

\* A fleet without its finalizer is gone at once.
DeleteFleet ==
  /\ exists
  /\ ~deletionTimestamp
  /\ DeleteAnytime \/ (finalizer /\ initPod # "Running")
  /\ deletionTimestamp' = TRUE
  /\ exists' = finalizer
  /\ sa' = (sa /\ finalizer)
  /\ initPod' = IF finalizer THEN initPod ELSE "None"
  /\ queued' = TRUE
  /\ UNCHANGED <<controlplane, finalizer, phase, readyClusters, specClusters, clusterVars, attachedQueue, subjects, deletePod, karmada, members, bounds>>

\* The operator deletes a failed pod to have it run again.
DeleteFailedPod ==
  /\ "Failed" \in {initPod, deletePod}
  /\ initPod' = IF initPod = "Failed" THEN "None" ELSE initPod
  /\ deletePod' = IF deletePod = "Failed" THEN "None" ELSE deletePod
  /\ queued' = TRUE
  /\ UNCHANGED <<fleetVars, specClusters, clusterVars, attachedQueue, sa, subjects, karmada, members, bounds>>

Environment ==
  \/ InitProgresses \/ InitSucceeds \/ InitFails \/ DeinitSucceeds \/ DeinitFails
  \/ DeleteFleet \/ DeleteFailedPod
  \/ \E c \in Cluster :
       EditClusters(c) \/ CreateCluster(c) \/ DeleteCluster(c) \/ ClusterDown(c) \/ ClusterUp(c)
-----------------------------------------------------------------------------
\* The fleet has just been applied; some of the clusters exist.
Init ==
  /\ exists = TRUE
  /\ deletionTimestamp = FALSE
  /\ finalizer = FALSE
  /\ phase = ""
  /\ readyClusters = 0
  /\ controlplane \in BOOLEAN
  /\ specClusters \in SUBSET Cluster
  /\ object \in [Cluster -> {"NotYet", "There"}]
  /\ labeled = {}
  /\ ready = {}
  /\ reachable = Cluster
  /\ attachedQueue = {c \in Cluster : object[c] = "There"}
  /\ sa = FALSE
  /\ subjects = 0
  /\ initPod = "None"
  /\ deletePod = "None"
  /\ karmada = FALSE
  /\ members = {}
  /\ queued = TRUE
  /\ edits = MaxEdits
  /\ mishaps = MaxMishaps

Next ==
  \/ Reconcile
  \/ \E c \in Cluster : \E patched \in BOOLEAN : reconcileAttached(c, patched)
  \/ Environment

Spec == Init /\ [][Next]_vars

\* The work queues call Reconcile while it is due; a call is not cut short
\* forever (the bound).  Pods end, clusters come back, and the operator has a
\* failed pod run again.
Fairness ==
  /\ WF_vars(Reconcile)
  /\ WF_vars(\E c \in Cluster : \E patched \in BOOLEAN : reconcileAttached(c, patched))
  /\ WF_vars(\E c \in Cluster : ClusterUp(c))
  /\ WF_vars(InitSucceeds \/ InitFails)
  /\ WF_vars(DeinitSucceeds \/ DeinitFails)
  /\ WF_vars(DeleteFailedPod)

FairSpec == Spec /\ Fairness
-----------------------------------------------------------------------------
(* Properties. *)

\* Type correctness: Reconcile stores only phases and counts the API declares,
\* wherever a call stops.
\* Checked as a part of MemberIsLabelled.
TypeOK ==
  /\ {exists, deletionTimestamp, finalizer, controlplane, sa, karmada, queued} \subseteq BOOLEAN
  /\ phase \in FleetPhase
  /\ readyClusters \in 0..Cardinality(Cluster)
  /\ \A S \in {specClusters, labeled, ready, reachable, attachedQueue, members} : S \subseteq Cluster
  /\ object \in [Cluster -> {"NotYet", "There", "Gone"}]
  /\ initPod \in PodPhase /\ deletePod \in PodPhase
  /\ {subjects, edits, mishaps} \subseteq Nat

\* A cluster that is joined carries the fleet's label until it is unjoined or
\* the fleet is deleted, wherever a call stops: the label is the only record
\* from which reconcileClusters finds the members that have left the spec.
MemberIsLabelled ==
  /\ TypeOK
  /\ exists /\ ~deletionTimestamp => members \cap There \subseteq labeled

\* When no reconcile is due, nothing is left to do: the label is on exactly the
\* clusters of the spec, every ready one is a member, and the status counts
\* them.  A cluster that is created late, becomes ready late, or is lost, has
\* to wake the fleet for that.
NothingForgotten ==
  exists /\ ~deletionTimestamp /\ ~queued =>
    \/ phase # "Ready" /\ initPod \in {"Running", "Failed"}
    \/ /\ phase = "Ready"
       /\ labeled = specClusters
       /\ controlplane => ready \cap specClusters \subseteq members
       /\ readyClusters = Cardinality(ready \cap specClusters)

\* "Remove finalizer when all related resources are deleted" (reconcileDelete):
\* when the fleet is gone, so are its control plane and the members, and the
\* clusters of its spec have lost the label.
AllReleased ==
  ~exists => ~karmada /\ members = {} /\ labeled \cap specClusters = {}

\* The pods never run without the rights they need, unless a call that was cut
\* short before the role binding was followed by the deletion of the fleet.
Bound == controlplane => subjects > 0 /\ sa

\* A fleet that is deleted goes away, whatever pods fail and whatever calls are
\* cut short, provided that the role binding of the pods had been written.
DeletionCompletes == (exists /\ deletionTimestamp /\ Bound) ~> ~exists

\* In the end exactly the clusters of the spec are members, whichever were
\* lost for a while and whatever calls were cut short.  Two things stand in the
\* way: a cluster of the spec that does not exist, and a labelled cluster that
\* is no member (any more) and taken out of the spec, which fails to unjoin at
\* every try.
MembersFollowSpec ==
  <>[](exists /\ ~deletionTimestamp /\ specClusters \subseteq There /\ leavers \subseteq members)
    => <>[](controlplane => members \cap There = specClusters)
=============================================================================

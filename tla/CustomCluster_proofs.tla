------------------------ MODULE CustomCluster_proofs ------------------------
(***************************************************************************)
(* Theorems about CustomCluster, for every set of nodes, every set of       *)
(* versions and all bounds.                                                 *)
(***************************************************************************)
EXTENDS CustomCluster, TLAPS

-----------------------------------------------------------------------------
(* Facts about the helpers. *)

LEMMA OutcomeType ==
  ASSUME NEW w \in Outcome
  PROVE  w.done \in 0..9 /\ w.meta \in BOOLEAN /\ w.status \in BOOLEAN
  BY DEF Outcome

LEMMA PodFields ==
  ASSUME NEW p \in Pod
  PROVE  /\ p.status \in {"None", "Running", "Succeeded", "Failed", "Terminating"}
         /\ p.nodes \in {Absent} \cup SUBSET Node
         /\ p.version \in {Absent} \cup Version
  BY DEF Pod

\* A worker, created, found or deleted, is a pod, and the others stay.
LEMMA WorkerCreated ==
  ASSUME NEW ps \in [Action -> Pod], NEW a \in Action, NEW kubeVersion,
         NEW inventory \in {Absent} \cup SUBSET Node, NEW v \in {Absent} \cup Version
  PROVE  LET qs == ensureWorkerPodCreated(ps, a, inventory, v, kubeVersion) IN
         /\ qs \in [Action -> Pod]
         /\ \A b \in Action \ {a} : qs[b] = ps[b]
         /\ ps[a] # NoPod => qs[a] = ps[a]
         /\ ps[a] = NoPod =>
              qs[a].status = "Running" /\ qs[a].nodes = inventory /\ qs[a].version = v
<1> DEFINE image == getKubesprayImage(kubeVersion)
           new == [status |-> "Running", nodes |-> inventory, version |-> v, image |-> image]
<1>1. image \in {"", "v2.20.0", "v2.22.1"}
  BY DEF getKubesprayImage
<1> HIDE DEF image
<1>2. new \in Pod
  BY <1>1 DEF Pod
<1>3. ensureWorkerPodCreated(ps, a, inventory, v, kubeVersion) =
        IF ps[a] = NoPod THEN [ps EXCEPT ![a] = new] ELSE ps
  BY DEF ensureWorkerPodCreated, image
<1>4. new.status = "Running" /\ new.nodes = inventory /\ new.version = v
  OBVIOUS
<1> HIDE DEF new
<1> QED
  BY <1>2, <1>3, <1>4

LEMMA NoPodStatus == NoPod.status = "None"
  BY DEF NoPod

\* A deleted pod is gone unless it was running.
LEMMA DeletedPod ==
  ASSUME NEW p \in Pod
  PROVE  /\ Deleted(p) \in Pod
         /\ Deleted(p).status \in {"None", "Terminating"}
         /\ p.status \notin {"Running", "Terminating"} => Deleted(p) = NoPod
  BY DEF Deleted, Pod, NoPod

LEMMA WorkerDeleted ==
  ASSUME NEW ps \in [Action -> Pod], NEW a \in Action
  PROVE  /\ ensureWorkerPodDeleted(ps, a) \in [Action -> Pod]
         /\ \A b \in Action \ {a} : ensureWorkerPodDeleted(ps, a)[b] = ps[b]
         /\ ps[a].status \notin {"Running", "Terminating"} => ensureWorkerPodDeleted(ps, a)[a] = NoPod
<1>1. ps[a] \in Pod
  OBVIOUS
<1> QED
  BY <1>1, DeletedPod DEF ensureWorkerPodDeleted

LEMMA WorkersDeleted ==
  ASSUME NEW ps \in [Action -> Pod], NEW done \in 0..9
  PROVE  /\ deleteWorkerPods(ps, done) \in [Action -> Pod]
         /\ \A b \in Action : deleteWorkerPods(ps, done)[b] \in {ps[b], Deleted(ps[b])}
         /\ \A b \in {"upgrade", "terminate"} : deleteWorkerPods(ps, done)[b] = ps[b]
         /\ done >= 3 => \A b \in {"init", "scale-up", "scale-down"} :
                           deleteWorkerPods(ps, done)[b].status \in {"None", "Terminating"}
<1>1. \A b \in Action : Deleted(ps[b]) \in Pod /\ Deleted(ps[b]).status \in {"None", "Terminating"}
  BY DeletedPod
<1> QED
  BY <1>1 DEF deleteWorkerPods, Action

\* The end of a reconcile keeps the types of what it assigns.
LEMMA EndReconcileType ==
  ASSUME TypeOK, NEW n, NEW w \in Outcome, NEW p \in Phase, EndReconcile(w, n, p)
  PROVE  phase' \in Phase /\ queued' \in BOOLEAN /\ faults' \in Nat
  BY DEF TypeOK, EndReconcile
-----------------------------------------------------------------------------
(* Type correctness. *)

LEMMA ProvisionType ==
  ASSUME TypeOK, NEW w \in Outcome, reconcileProvision(w)
  PROVE  TypeOK'
<1> DEFINE status == pods["init"].status
           n == IF status = "Succeeded" THEN 8 ELSE 7
<1>1. w.done \in 0..9
  BY OutcomeType
<1>2. provisionPhase(w.done, status) \in Phase
  BY <1>1 DEF provisionPhase, TypeOK, Phase
<1>3. phase' \in Phase /\ queued' \in BOOLEAN /\ faults' \in Nat
  <2>1. EndReconcile(w, n, provisionPhase(w.done, status))
    BY DEF reconcileProvision
  <2> QED
    BY <1>2, <2>1, EndReconcileType
<1>4. hosts' \in {Absent} \cup SUBSET Node /\ config' \in {Absent} \cup Version
  BY DEF TypeOK, reconcileProvision
<1>5. pods' \in [Action -> Pod]
  <2>1. pods \in [Action -> Pod] /\ "init" \in Action
    BY DEF TypeOK, Action
  <2>2. ensureWorkerPodCreated(pods, "init", hosts', config', version) \in [Action -> Pod]
    BY <1>4, <2>1, WorkerCreated
  <2> QED
    BY <2>1, <2>2 DEF reconcileProvision
<1>6. finalizers' \subseteq Obj \ {"cluster"}
  BY DEF TypeOK, reconcileProvision, ensureFinalizerAndOwnerRef, Obj
<1>7. ownerRef' \in BOOLEAN /\ secrets' \in Nat
  <2>1. /\ ownerRef' = IF w.done >= 4 THEN TRUE ELSE ownerRef
        /\ secrets' = IF w.done = 8 THEN secrets + 1 ELSE secrets
    BY DEF reconcileProvision
  <2>2. ownerRef \in BOOLEAN /\ secrets \in Nat
    BY DEF TypeOK
  <2>3. ownerRef' \in BOOLEAN
    BY <2>1, <2>2
  <2>4. secrets' \in Nat
    BY <2>1, <2>2
  <2> QED
    BY <2>3, <2>4
<1> QED
  BY <1>3, <1>4, <1>5, <1>6, <1>7 DEF reconcileProvision, TypeOK, specVars, vms

LEMMA ScaleUpType ==
  ASSUME TypeOK, NEW w \in Outcome, reconcileScaleUp(w)
  PROVE  TypeOK'
<1> DEFINE status == pods["scale-up"].status
           n == IF status = "Succeeded" THEN 5 ELSE 2
<1>1. w.done \in 0..9
  BY OutcomeType
<1>2. scaleUpPhase(w.done, status) \in Phase
  BY <1>1 DEF scaleUpPhase, TypeOK, Phase
<1>3. phase' \in Phase /\ queued' \in BOOLEAN /\ faults' \in Nat
  <2>1. EndReconcile(w, n, scaleUpPhase(w.done, status))
    BY DEF reconcileScaleUp
  <2> QED
    BY <1>2, <2>1, EndReconcileType
<1>4. pods \in [Action -> Pod] /\ "scale-up" \in Action
  BY DEF TypeOK, Action
<1> DEFINE temp == IF scaleUpHosts = Absent THEN hosts \cup findScaleUpWorkerNodes(hosts, nodes) ELSE scaleUpHosts
<1>5. /\ temp \in {Absent} \cup SUBSET Node
      /\ hosts' \in {Absent} \cup SUBSET Node
      /\ scaleUpHosts' \in {Absent} \cup SUBSET Node
  BY DEF TypeOK, reconcileScaleUp, Provisioned, findScaleUpWorkerNodes, updateClusterNodes
<1>6. pods' \in [Action -> Pod]
  <2>1. /\ ensureWorkerPodCreated(pods, "scale-up", temp, config, version) \in [Action -> Pod]
        /\ ensureWorkerPodDeleted(pods, "scale-up") \in [Action -> Pod]
    BY <1>4, <1>5, WorkerCreated, WorkerDeleted DEF TypeOK
  <2> QED
    BY <1>1, <1>4, <2>1 DEF reconcileScaleUp
<1> QED
  BY <1>3, <1>5, <1>6 DEF reconcileScaleUp, TypeOK, specVars, vms

LEMMA ScaleDownType ==
  ASSUME TypeOK, NEW w \in Outcome, reconcileScaleDown(w)
  PROVE  TypeOK'
<1> DEFINE status == pods["scale-down"].status
           n == IF status = "Succeeded" THEN 4 ELSE 1
<1>1. w.done \in 0..9
  BY OutcomeType
<1>2. scaleDownPhase(w.done, status) \in Phase
  BY <1>1 DEF scaleDownPhase, TypeOK, Phase
<1>3. phase' \in Phase /\ queued' \in BOOLEAN /\ faults' \in Nat
  <2>1. EndReconcile(w, n, scaleDownPhase(w.done, status))
    BY DEF reconcileScaleDown
  <2> QED
    BY <1>2, <2>1, EndReconcileType
<1>4. pods \in [Action -> Pod] /\ "scale-down" \in Action
  BY DEF TypeOK, Action
<1> DEFINE down == findScaleDownWorkerNodes(hosts, nodes)
<1>5. down \in SUBSET Node /\ hosts' \in {Absent} \cup SUBSET Node
  BY <1>1 DEF TypeOK, reconcileScaleDown, Provisioned, findScaleDownWorkerNodes
<1>6. pods' \in [Action -> Pod]
  <2>1. /\ ensureWorkerPodCreated(pods, "scale-down", down, config, version) \in [Action -> Pod]
        /\ ensureWorkerPodDeleted(pods, "scale-down") \in [Action -> Pod]
    BY <1>4, <1>5, WorkerCreated, WorkerDeleted DEF TypeOK
  <2> QED
    BY <1>1, <1>4, <2>1 DEF reconcileScaleDown
<1> QED
  BY <1>3, <1>5, <1>6 DEF reconcileScaleDown, TypeOK, specVars, vms

LEMMA UpgradeType ==
  ASSUME TypeOK, NEW w \in Outcome, reconcileUpgrade(w)
  PROVE  TypeOK'
<1> DEFINE status == pods["upgrade"].status
           n == IF status = "Succeeded" THEN 3 ELSE 1
<1>1. w.done \in 0..9
  BY OutcomeType
<1>2. upgradePhase(w.done, status) \in Phase
  BY <1>1 DEF upgradePhase, TypeOK, Phase
<1>3. phase' \in Phase /\ queued' \in BOOLEAN /\ faults' \in Nat
  <2>1. EndReconcile(w, n, upgradePhase(w.done, status))
    BY DEF reconcileUpgrade
  <2> QED
    BY <1>2, <2>1, EndReconcileType
<1>4. pods \in [Action -> Pod] /\ "upgrade" \in Action
  BY DEF TypeOK, Action
<1>5. config' \in {Absent} \cup Version
  BY DEF TypeOK, reconcileUpgrade
<1>6. pods' \in [Action -> Pod]
  <2>1. /\ ensureWorkerPodCreated(pods, "upgrade", hosts, version, version) \in [Action -> Pod]
        /\ ensureWorkerPodDeleted(pods, "upgrade") \in [Action -> Pod]
    BY <1>4, WorkerCreated, WorkerDeleted DEF TypeOK
  <2> QED
    BY <1>1, <1>4, <2>1 DEF reconcileUpgrade
<1> QED
  BY <1>3, <1>5, <1>6 DEF reconcileUpgrade, TypeOK, specVars, vms

LEMMA DeleteType ==
  ASSUME TypeOK, NEW w \in Outcome, reconcileDelete(w)
  PROVE  TypeOK'
<1> DEFINE status == pods["terminate"].status
           n == IF status = "Succeeded" THEN 9 ELSE 4
<1>1. w.done \in 0..9
  BY OutcomeType
<1>2. deletePhase(w.done, status) \in Phase
  BY <1>1 DEF deletePhase, TypeOK, Phase
<1>3. phase' \in Phase /\ queued' \in BOOLEAN /\ faults' \in Nat
  <2>1. EndReconcile(w, n, deletePhase(w.done, status))
    BY DEF reconcileDelete
  <2> QED
    BY <1>2, <2>1, EndReconcileType
<1>4. pods \in [Action -> Pod] /\ "terminate" \in Action
  BY DEF TypeOK, Action
<1>5. /\ hosts' \in {Absent} \cup SUBSET Node
      /\ config' \in {Absent} \cup Version
      /\ finalizers' \subseteq Obj \ {"cluster"}
      /\ exists' \subseteq Obj
  BY DEF TypeOK, reconcileDelete
<1>6. pods' \in [Action -> Pod]
  <2> DEFINE left == deleteWorkerPods(pods, w.done)
  <2>1. left \in [Action -> Pod]
    BY <1>1, <1>4, WorkersDeleted
  <2>2. ensureWorkerPodCreated(left, "terminate", hosts, config, version) \in [Action -> Pod]
    BY <1>4, <2>1, WorkerCreated DEF TypeOK
  <2> QED
    BY <2>1, <2>2 DEF reconcileDelete
<1> QED
  BY <1>3, <1>5, <1>6 DEF reconcileDelete, TypeOK, specVars, vms

LEMMA WorkerType ==
  ASSUME TypeOK, NEW a \in Action,
         WorkerProgresses(a) \/ WorkerSucceeds(a) \/ WorkerFails(a) \/ WorkerStopped(a)
  PROVE  TypeOK'
<1> DEFINE p == pods[a]
<1>1. pods \in [Action -> Pod] /\ p \in Pod
  BY DEF TypeOK
<1>2. Started(a) \/ Stopping(a) => p.nodes \in SUBSET Node /\ p.version \in Version
  BY <1>1, PodFields DEF Started, Stopping
<1>3. WorkerProgresses(a) \/ WorkerSucceeds(a) => p.nodes \in SUBSET Node /\ p.version \in Version
  BY <1>2 DEF WorkerProgresses, WorkerSucceeds
<1>4. WorkerProgresses(a) \/ WorkerSucceeds(a) =>
        /\ EffectOnVersion(a, p.version) \in {Absent} \cup Version
        /\ \A S \in SUBSET p.nodes : EffectOnNodes(a, S) \in SUBSET Node
  BY <1>3 DEF TypeOK, EffectOnNodes, EffectOnVersion, Action
<1>5. CASE WorkerProgresses(a)
  <2>1. vmNodes' \subseteq Node /\ vmVersion' \in {Absent} \cup Version
    BY <1>4, <1>5 DEF WorkerProgresses, TypeOK
  <2> QED
    BY <1>5, <2>1 DEF WorkerProgresses, TypeOK, objVars, specVars, recordVars, bounds
<1>6. ASSUME NEW st \in {"Succeeded", "Failed"}, pods' = [pods EXCEPT ![a].status = st]
      PROVE  pods' \in [Action -> Pod]
  <2>1. [p EXCEPT !.status = st] \in Pod
    BY <1>1 DEF Pod
  <2> QED
    BY <1>1, <1>6, <2>1
<1>7. CASE WorkerSucceeds(a)
  <2>1. vmNodes' \subseteq Node /\ vmVersion' \in {Absent} \cup Version
    BY <1>4, <1>7 DEF WorkerSucceeds
  <2>2. pods' \in [Action -> Pod]
    BY <1>6, <1>7 DEF WorkerSucceeds
  <2> QED
    BY <1>7, <2>1, <2>2 DEF WorkerSucceeds, TypeOK, objVars, specVars, recordVars, bounds
<1>8. CASE WorkerFails(a)
  <2>1. failures' \in Nat
    BY <1>8 DEF WorkerFails, TypeOK
  <2>2. pods' \in [Action -> Pod]
    BY <1>6, <1>8 DEF WorkerFails
  <2> QED
    BY <1>8, <2>1, <2>2 DEF WorkerFails, TypeOK, objVars, specVars, recordVars, vms
<1>9. CASE WorkerStopped(a)
  <2>1. pods' \in [Action -> Pod]
    BY <1>1, <1>9 DEF WorkerStopped, Pod, NoPod
  <2> QED
    BY <1>9, <2>1 DEF WorkerStopped, TypeOK, objVars, specVars, recordVars, vms, bounds
<1> QED
  BY <1>5, <1>7, <1>8, <1>9

LEMMA UserType ==
  ASSUME TypeOK, User
  PROVE  TypeOK'
<1> USE DEF TypeOK, objVars, specVars, recordVars, vms, bounds
<1>1. CASE EditNodes
  <2>1. queued' \in BOOLEAN
    BY <1>1 DEF EditNodes
  <2> QED
    BY <1>1, <2>1 DEF EditNodes
<1>2. CASE EditVersion
  BY <1>2 DEF EditVersion
<1>3. CASE DeleteCluster
  BY <1>3 DEF DeleteCluster, Obj
<1>4. CASE DeleteMachine
  <2>1. queued' \in BOOLEAN
    BY <1>4 DEF DeleteMachine
  <2> QED
    BY <1>4, <2>1 DEF DeleteMachine, Obj
<1>5. ASSUME NEW a \in Action, DeleteFailedWorker(a)
      PROVE  TypeOK'
  <2>1. pods' \in [Action -> Pod]
    BY <1>5, WorkerDeleted DEF DeleteFailedWorker
  <2> QED
    BY <1>5, <2>1 DEF DeleteFailedWorker
<1> QED
  BY <1>1, <1>2, <1>3, <1>4, <1>5 DEF User

LEMMA ClusterAPIType ==
  ASSUME TypeOK, ClusterAPI
  PROVE  TypeOK'
<1> USE DEF TypeOK, objVars, specVars, recordVars, vms, bounds
<1>1. CASE DeleteControlPlane
  BY <1>1 DEF DeleteControlPlane, Obj
<1>2. CASE ControlPlaneGone
  BY <1>2 DEF ControlPlaneGone
<1>3. CASE DeleteInfrastructure
  BY <1>3 DEF DeleteInfrastructure, Obj
<1>4. CASE ClusterGone
  <2>1. pods' \in [Action -> Pod]
    BY <1>4, DeletedPod DEF ClusterGone
  <2> QED
    BY <1>4, <2>1 DEF ClusterGone
<1> QED
  BY <1>1, <1>2, <1>3, <1>4 DEF ClusterAPI

\* The variables keep to the API types, in every behaviour: every handler of
\* the controller, cut short anywhere, stores only phases, node sets, versions
\* and workers the types allow; "Pending" is never stored.
THEOREM TypeCorrect == Spec => []TypeOK
<1>1. Init => TypeOK
  <2> SUFFICES ASSUME Init PROVE TypeOK
    OBVIOUS
  <2>1. edits \in Nat /\ faults \in Nat /\ failures \in Nat /\ secrets \in Nat
    BY BoundAssumption DEF Init
  <2>2. pods \in [Action -> Pod] /\ phase \in Phase
    BY DEF Init, Pod, NoPod, Phase
  <2>3. ownerRef \in BOOLEAN /\ queued \in BOOLEAN
    BY DEF Init
  <2>4. exists \subseteq Obj /\ deletionTimestamp \subseteq Obj /\ finalizers \subseteq Obj \ {"cluster"}
    BY DEF Init
  <2>5. /\ nodes \in (SUBSET Node) \ {{}} /\ version \in Version /\ vmNodes \subseteq Node
        /\ {hosts, scaleUpHosts, config, vmVersion} = {Absent}
    BY DEF Init
  <2> QED
    BY <2>1, <2>2, <2>3, <2>4, <2>5 DEF TypeOK
<1>2. TypeOK /\ [Next]_vars => TypeOK'
  <2> SUFFICES ASSUME TypeOK, [Next]_vars PROVE TypeOK'
    OBVIOUS
  <2>1. CASE Reconcile
    <3>1. CASE reconcileNothing
      BY <3>1 DEF reconcileNothing, TypeOK, objVars, specVars, recordVars, vms, bounds
    <3>2. CASE reconcileMissing
      BY <3>2 DEF reconcileMissing, TypeOK, objVars, specVars, recordVars, vms, bounds
    <3> QED
      BY <2>1, <3>1, <3>2, ProvisionType, ScaleUpType, ScaleDownType, UpgradeType, DeleteType
      DEF Reconcile, Outcomes
  <2>2. CASE Worker
    BY <2>2, WorkerType DEF Worker
  <2>3. CASE UNCHANGED vars
    BY <2>3 DEF vars, TypeOK
  <2> QED
    BY <2>1, <2>2, <2>3, UserType, ClusterAPIType DEF Next
<1> QED
  BY <1>1, <1>2, PTL DEF Spec
-----------------------------------------------------------------------------
(* Nothing is let go before the machines are reset. *)

\* Why GoneOnlyAfterReset holds: the kcp's finalizer keeps it in existence, only
\* a succeeded terminate worker takes that finalizer from a provisioned cluster,
\* and Cluster API turns to customCluster only when the kcp is gone.
ResetInv ==
  /\ "kcp" \in finalizers => "kcp" \in exists
  /\ secrets > 0 /\ "kcp" \notin finalizers =>
       pods["terminate"].status = "Succeeded" \/ "cluster" \notin exists
  /\ "customCluster" \in deletionTimestamp \/ "customCluster" \notin exists => "kcp" \notin exists
  /\ pods["terminate"] # NoPod => "cluster" \in deletionTimestamp
  /\ ResetUndisturbed

\* What the three handlers of a provisioned cluster have in common.
LEMMA MaintainReset ==
  ASSUME TypeOK, ResetInv, NEW w \in Outcome,
         reconcileScaleUp(w) \/ reconcileScaleDown(w) \/ reconcileUpgrade(w)
  PROVE  ResetInv'
<1>1. w.done \in 0..9
  BY OutcomeType
<1>2. /\ exists = Obj /\ "cluster" \notin deletionTimestamp
      /\ UNCHANGED <<exists, deletionTimestamp, finalizers, secrets>>
  BY DEF reconcileScaleUp, reconcileScaleDown, reconcileUpgrade, Provisioned, Normal
<1>3. pods["terminate"] = NoPod
  BY <1>2 DEF ResetInv
<1>4. pods'["terminate"] = pods["terminate"]
  <2>1. CASE reconcileScaleUp(w)
    BY <1>1, <2>1 DEF reconcileScaleUp, TypeOK, Action, ensureWorkerPodCreated, ensureWorkerPodDeleted
  <2>2. CASE reconcileScaleDown(w)
    BY <1>1, <2>2 DEF reconcileScaleDown, TypeOK, Action, ensureWorkerPodCreated, ensureWorkerPodDeleted
  <2>3. CASE reconcileUpgrade(w)
    BY <1>1, <2>3 DEF reconcileUpgrade, TypeOK, Action, ensureWorkerPodCreated, ensureWorkerPodDeleted
  <2> QED
    BY <2>1, <2>2, <2>3
<1> QED
  BY <1>2, <1>3, <1>4 DEF ResetInv, ResetUndisturbed

LEMMA ProvisionReset ==
  ASSUME TypeOK, ResetInv, NEW w \in Outcome, reconcileProvision(w)
  PROVE  ResetInv'
<1>1. w.done \in 0..9
  BY OutcomeType
<1>2. /\ exists = Obj /\ "cluster" \notin deletionTimestamp
      /\ UNCHANGED <<exists, deletionTimestamp>>
  BY DEF reconcileProvision, Normal
<1>3. finalizers \subseteq finalizers' /\ (w.done = 8 => "kcp" \in finalizers')
  <2>1. finalizers' = ensureFinalizerAndOwnerRef(finalizers, w.done - 3, w.meta)
    BY DEF reconcileProvision
  <2> QED
    BY <1>1, <2>1 DEF ensureFinalizerAndOwnerRef
<1>4. w.done = 8 \/ secrets' = secrets
  BY <1>1 DEF reconcileProvision
<1>5. pods["terminate"] = NoPod
  BY <1>2 DEF ResetInv
<1>6. pods'["terminate"] = pods["terminate"]
  BY <1>1 DEF reconcileProvision, TypeOK, Action, ensureWorkerPodCreated
<1> QED
  BY <1>2, <1>3, <1>4, <1>5, <1>6 DEF ResetInv, ResetUndisturbed, Obj

LEMMA DeleteReset ==
  ASSUME TypeOK, ResetInv, NEW w \in Outcome, reconcileDelete(w)
  PROVE  ResetInv'
<1> DEFINE left == deleteWorkerPods(pods, w.done)
<1>1. w.done \in 0..9
  BY OutcomeType
<1>2. /\ exists = Obj /\ "cluster" \in deletionTimestamp
      /\ UNCHANGED <<deletionTimestamp, secrets>>
  BY DEF reconcileDelete
<1>3. "customCluster" \notin deletionTimestamp
  BY <1>2 DEF ResetInv, Obj
<1>4. exists \ {"customMachine"} \subseteq exists'
  BY <1>3 DEF reconcileDelete
<1>5. finalizers' # finalizers => w.done >= 7
  <2>1. finalizers' = finalizers \ deleteResource(w.done - 6, w.meta)
    BY DEF reconcileDelete
  <2>2. w.done < 7 => deleteResource(w.done - 6, w.meta) = {}
    BY <1>1 DEF deleteResource
  <2>3. w.done < 7 => finalizers' = finalizers
    BY <2>1, <2>2
  <2> QED
    BY <1>1, <2>3
<1>6. w.done >= 7 => pods["terminate"].status = "Succeeded"
  <2>1. w.done <= IF pods["terminate"].status = "Succeeded" THEN 9 ELSE 4
    BY DEF reconcileDelete
  <2> QED
    BY <1>1, <2>1
<1>7. /\ left \in [Action -> Pod]
      /\ left["terminate"] = pods["terminate"]
      /\ \A a \in {"init", "scale-up", "scale-down"} :
           left[a] = pods[a] \/ left[a].status \in {"None", "Terminating"}
      /\ w.done >= 3 => \A a \in {"init", "scale-up", "scale-down"} :
                          left[a].status \in {"None", "Terminating"}
  <2>1. pods \in [Action -> Pod]
    BY DEF TypeOK
  <2>2. \A a \in Action : left[a] = pods[a] \/ left[a].status \in {"None", "Terminating"}
    BY <1>1, <2>1, WorkersDeleted, DeletedPod
  <2> QED
    BY <1>1, <2>1, <2>2, WorkersDeleted DEF Action
<1>8. /\ \A a \in {"init", "scale-up", "scale-down"} : pods'[a] = left[a]
      /\ pods["terminate"] # NoPod => pods'["terminate"] = pods["terminate"]
      /\ w.done < 4 => pods'["terminate"] = pods["terminate"]
  <2>1. pods' = IF w.done >= 4 THEN ensureWorkerPodCreated(left, "terminate", hosts, config, version) ELSE left
    BY DEF reconcileDelete
  <2> HIDE DEF left
  <2>2. CASE w.done >= 4
    <3>1. pods' = [left EXCEPT !["terminate"] = pods'["terminate"]] /\ (left["terminate"] # NoPod => pods' = left)
      BY <1>7, <2>1, <2>2 DEF ensureWorkerPodCreated, Action
    <3> QED
      BY <1>1, <1>7, <2>2, <3>1 DEF Action
  <2>3. CASE w.done < 4
    BY <1>1, <1>7, <2>1, <2>3
  <2> QED
    BY <1>1, <2>2, <2>3
<1>9. pods["terminate"].status = "Succeeded" => pods["terminate"] # NoPod
  BY NoPodStatus
<1>10. ResetUndisturbed'
  <2> HIDE DEF left
  <2>1. CASE w.done >= 4
    BY <1>1, <1>7, <1>8, <2>1 DEF ResetUndisturbed
  <2>2. CASE w.done < 4
    BY <1>1, <1>7, <1>8, <2>2 DEF ResetInv, ResetUndisturbed
  <2> QED
    BY <1>1, <2>1, <2>2
<1>11. finalizers' \subseteq finalizers
  BY DEF reconcileDelete
<1>12. secrets > 0 /\ "kcp" \notin finalizers' => pods'["terminate"].status = "Succeeded"
  <2>1. CASE finalizers' = finalizers
    BY <1>2, <1>8, <1>9, <2>1 DEF ResetInv, Obj
  <2>2. CASE finalizers' # finalizers
    BY <1>5, <1>6, <1>8, <1>9, <2>2
  <2> QED
    BY <2>1, <2>2
<1> QED
  BY <1>2, <1>3, <1>4, <1>10, <1>11, <1>12 DEF ResetInv, Obj

LEMMA EnvironmentReset ==
  ASSUME TypeOK, ResetInv, Worker \/ User \/ ClusterAPI
  PROVE  ResetInv'
<1>1. pods \in [Action -> Pod]
  BY DEF TypeOK
<1>2. ASSUME NEW a \in Action, UNCHANGED <<exists, deletionTimestamp, finalizers, secrets>>,
             \A b \in Action \ {a} : pods'[b] = pods[b],
             pods[a].status # "Succeeded", pods[a] # NoPod,
             pods[a].status = "Running" \/ pods'[a] = NoPod
      PROVE  ResetInv'
  <2>1. pods["terminate"].status = "Succeeded" => pods'["terminate"] = pods["terminate"]
    BY <1>2 DEF Action
  <2>2. pods'["terminate"] # NoPod => pods["terminate"] # NoPod
    BY <1>2 DEF Action
  <2>3. ResetUndisturbed'
    <3> SUFFICES ASSUME pods'["terminate"] # NoPod, NEW b \in {"init", "scale-up", "scale-down"}
                 PROVE  pods'[b].status \in {"None", "Terminating"}
      BY DEF ResetUndisturbed
    <3>1. pods[b].status \in {"None", "Terminating"} /\ b \in Action
      BY <2>2 DEF ResetInv, ResetUndisturbed, Action
    <3>2. CASE b = a
      BY <1>2, <3>1, <3>2, NoPodStatus
    <3>3. CASE b # a
      BY <1>2, <3>1, <3>3
    <3> QED
      BY <3>2, <3>3
  <2> QED
    BY <1>2, <2>1, <2>2, <2>3 DEF ResetInv
<1>3. CASE Worker
  <2>1. PICK a \in Action : WorkerProgresses(a) \/ WorkerSucceeds(a) \/ WorkerFails(a) \/ WorkerStopped(a)
    BY <1>3 DEF Worker
  <2>2. CASE WorkerProgresses(a)
    BY <2>2 DEF WorkerProgresses, objVars, ResetInv, ResetUndisturbed
  <2>3. CASE WorkerSucceeds(a) \/ WorkerFails(a)
    <3>1. /\ pods[a].status = "Running" /\ pods[a] # NoPod
          /\ \A b \in Action \ {a} : pods'[b] = pods[b]
          /\ UNCHANGED <<exists, deletionTimestamp, finalizers, secrets>>
      BY <1>1, <2>3, NoPodStatus DEF WorkerSucceeds, WorkerFails, Started, objVars
    <3> QED
      BY <1>2, <3>1
  <2>4. CASE WorkerStopped(a)
    <3>1. /\ pods[a].status = "Terminating" /\ pods[a] # NoPod /\ pods'[a] = NoPod
          /\ \A b \in Action \ {a} : pods'[b] = pods[b]
          /\ UNCHANGED <<exists, deletionTimestamp, finalizers, secrets>>
      BY <1>1, <2>4, NoPodStatus DEF WorkerStopped, objVars
    <3> QED
      BY <1>2, <3>1
  <2> QED
    BY <2>1, <2>2, <2>3, <2>4
<1>4. CASE User
  <2>1. CASE EditNodes
    BY <2>1 DEF EditNodes, objVars, ResetInv, ResetUndisturbed
  <2>2. CASE EditVersion
    BY <2>2 DEF EditVersion, objVars, ResetInv, ResetUndisturbed
  <2>3. CASE DeleteCluster
    BY <2>3 DEF DeleteCluster, ResetInv, ResetUndisturbed
  <2>4. CASE DeleteMachine
    BY <2>4 DEF DeleteMachine, ResetInv, ResetUndisturbed
  <2>5. ASSUME NEW a \in Action, DeleteFailedWorker(a)
        PROVE  ResetInv'
    <3>1. /\ pods'[a] = NoPod /\ pods[a] # NoPod
          /\ \A b \in Action \ {a} : pods'[b] = pods[b]
          /\ pods[a].status = "Failed"
          /\ UNCHANGED <<exists, deletionTimestamp, finalizers, secrets>>
      BY <1>1, <2>5, WorkerDeleted, NoPodStatus DEF DeleteFailedWorker, objVars
    <3> QED
      BY <1>2, <2>5, <3>1
  <2> QED
    BY <1>4, <2>1, <2>2, <2>3, <2>4, <2>5 DEF User
<1>5. CASE ClusterAPI
  <2>1. CASE DeleteControlPlane
    BY <2>1 DEF DeleteControlPlane, ResetInv, ResetUndisturbed
  <2>2. CASE ControlPlaneGone
    BY <2>2 DEF ControlPlaneGone, ResetInv, ResetUndisturbed
  <2>3. CASE DeleteInfrastructure
    BY <2>3 DEF DeleteInfrastructure, ResetInv, ResetUndisturbed
  <2>4. CASE ClusterGone
    <3>1. /\ \A a \in Action : pods'[a].status \in {"None", "Terminating"}
          /\ "cluster" \in deletionTimestamp' /\ "cluster" \notin exists' /\ "kcp" \notin exists
          /\ finalizers' = finalizers /\ exists' \subseteq exists
      BY <1>1, <2>4, DeletedPod DEF ClusterGone
    <3> QED
      BY <3>1 DEF ResetInv, ResetUndisturbed, Action
  <2> QED
    BY <1>5, <2>1, <2>2, <2>3, <2>4 DEF ClusterAPI
<1> QED
  BY <1>3, <1>4, <1>5

LEMMA ResetInvariant == Spec => []ResetInv
<1>1. Init => ResetInv
  <2> SUFFICES ASSUME Init PROVE ResetInv
    OBVIOUS
  <2>1. pods["terminate"] = NoPod
    BY DEF Init, Action
  <2>2. /\ finalizers = {} /\ deletionTimestamp = {} /\ secrets = 0
        /\ "customCluster" \in exists
    BY DEF Init, Obj
  <2> QED
    BY <2>1, <2>2 DEF ResetInv, ResetUndisturbed
<1>2. TypeOK /\ ResetInv /\ [Next]_vars => ResetInv'
  <2> SUFFICES ASSUME TypeOK, ResetInv, [Next]_vars PROVE ResetInv'
    OBVIOUS
  <2>1. CASE Reconcile
    <3>1. CASE reconcileNothing
      BY <3>1 DEF reconcileNothing, objVars, ResetInv, ResetUndisturbed
    <3>2. CASE reconcileMissing
      BY <3>2 DEF reconcileMissing, objVars, ResetInv, ResetUndisturbed
    <3> QED
      BY <2>1, <3>1, <3>2, ProvisionReset, MaintainReset, DeleteReset DEF Reconcile, Outcomes
  <2>2. CASE UNCHANGED vars
    BY <2>2 DEF vars, ResetInv, ResetUndisturbed
  <2> QED
    BY <2>1, <2>2, EnvironmentReset DEF Next
<1> QED
  BY <1>1, <1>2, TypeCorrect, PTL DEF Spec

\* Whatever writes fail, whenever the process dies, and whatever users do, a
\* provisioned cluster's control plane and customCluster stay until the
\* terminate worker has succeeded.
THEOREM ReleaseSafe == Spec => []GoneOnlyAfterReset
<1>1. ResetInv => GoneOnlyAfterReset
  BY DEF ResetInv, GoneOnlyAfterReset
<1> QED
  BY <1>1, ResetInvariant, PTL

\* From the creation of the terminate worker on, the init and scaling workers
\* have been told to stop, and none is started again.
THEOREM ResetIsUndisturbed == Spec => []ResetUndisturbed
<1>1. ResetInv => ResetUndisturbed
  BY DEF ResetInv
<1> QED
  BY <1>1, ResetInvariant, PTL
-----------------------------------------------------------------------------
(* No wake-up is lost. *)

\* What NothingForgotten rests on: a pod without a status is no pod, so that
\* creating one is a change that is watched; workers are only stopped, and the
\* phase is only Deleting, when the Cluster is being deleted; and customMachine
\* names its owner before the phase says that the cluster is provisioned.
WakeBase ==
  /\ \A a \in Action :
       /\ pods[a].status = "None" => pods[a] = NoPod
       /\ pods[a].status = "Terminating" => "cluster" \in deletionTimestamp
  /\ phase = "Deleting" => "cluster" \in deletionTimestamp
  /\ hasProvisionClusterInfo(phase) => ownerRef

WakeInv == TypeOK /\ WakeBase /\ NothingForgotten

\* A reconcile after which none is due made all its writes and changed nothing.
LEMMA QuietEnd ==
  ASSUME NEW w \in Outcome, NEW n \in 0..9, NEW p, w.done <= n, EndReconcile(w, n, p), ~queued'
  PROVE  /\ w.done = n /\ w.meta /\ w.status
         /\ phase' = p
         /\ UNCHANGED <<exists, phase, pods>>
<1>1. w.done \in 0..9
  BY OutcomeType
<1>2. /\ ~(w.done < n) /\ w.meta /\ w.status
      /\ <<exists, finalizers, phase, pods>>' = <<exists, finalizers, phase, pods>>
  BY DEF EndReconcile
<1>3. phase' = p
  BY <1>2 DEF EndReconcile
<1> QED
  BY <1>1, <1>2, <1>3

\* A handler that waits for its worker has a worker to wait for.
LEMMA WorkerAwaited ==
  ASSUME TypeOK, WakeBase, "cluster" \notin deletionTimestamp, NEW a \in Action, pods[a].status # "Succeeded",
         NEW inventory \in {Absent} \cup SUBSET Node, NEW v \in {Absent} \cup Version, NEW kubeVersion,
         pods = ensureWorkerPodCreated(pods, a, inventory, v, kubeVersion)
  PROVE  pods[a].status \in {"Running", "Failed"}
<1>1. pods \in [Action -> Pod] /\ pods[a] \in Pod
  BY DEF TypeOK
<1>2. pods[a] # NoPod
  BY <1>1, WorkerCreated, NoPodStatus
<1>3. pods[a].status \in {"None", "Running", "Succeeded", "Failed", "Terminating"}
  BY <1>1, PodFields
<1> QED
  BY <1>2, <1>3 DEF WakeBase

LEMMA ProvisionWakes ==
  ASSUME WakeInv, NEW w \in Outcome, reconcileProvision(w)
  PROVE  NothingForgotten'
<1> DEFINE status == pods["init"].status
           n == IF status = "Succeeded" THEN 8 ELSE 7
           stored == provisionPhase(w.done, status)
<1> SUFFICES ASSUME ~queued' PROVE \E a \in Action : pods'[a].status \in {"Running", "Failed"}
  BY DEF NothingForgotten
<1>1. w.done = n /\ phase' = stored /\ phase' = phase /\ pods' = pods
  <2>1. w.done <= n /\ EndReconcile(w, n, stored)
    BY DEF reconcileProvision
  <2>2. n \in 0..9
    OBVIOUS
  <2> HIDE DEF stored, n
  <2> QED
    BY <2>1, <2>2, QuietEnd
<1>2. status # "Succeeded"
  <2> SUFFICES ASSUME status = "Succeeded" PROVE FALSE
    OBVIOUS
  <2>1. phase = "Provisioned"
    BY <1>1 DEF provisionPhase
  <2> QED
    BY <2>1 DEF reconcileProvision
<1>3. pods = ensureWorkerPodCreated(pods, "init", hosts', config', version)
  <2>1. pods' = IF w.done >= 3 THEN ensureWorkerPodCreated(pods, "init", hosts', config', version) ELSE pods
    BY DEF reconcileProvision
  <2> QED
    BY <1>1, <1>2, <2>1
<1>4. /\ hosts' \in {Absent} \cup SUBSET Node /\ config' \in {Absent} \cup Version
      /\ "cluster" \notin deletionTimestamp
  BY DEF WakeInv, TypeOK, reconcileProvision, Normal
<1>5. "init" \in Action
  BY DEF Action
<1> QED
  BY <1>1, <1>2, <1>3, <1>4, <1>5, WorkerAwaited DEF WakeInv

LEMMA ScaleUpWakes ==
  ASSUME WakeInv, NEW w \in Outcome, reconcileScaleUp(w)
  PROVE  NothingForgotten'
<1> DEFINE status == pods["scale-up"].status
           n == IF status = "Succeeded" THEN 5 ELSE 2
           temp == IF scaleUpHosts = Absent THEN hosts \cup findScaleUpWorkerNodes(hosts, nodes) ELSE scaleUpHosts
<1> SUFFICES ASSUME ~queued' PROVE \E a \in Action : pods'[a].status \in {"Running", "Failed"}
  BY DEF NothingForgotten
<1>1. w.done = n /\ UNCHANGED pods
  <2>1. n \in 0..9 /\ w.done <= n /\ EndReconcile(w, n, scaleUpPhase(w.done, status))
    BY DEF reconcileScaleUp
  <2> HIDE DEF n, status
  <2> QED
    BY <2>1, QuietEnd
<1>2. TypeOK /\ pods \in [Action -> Pod] /\ "scale-up" \in Action /\ "cluster" \notin deletionTimestamp
  BY DEF WakeInv, TypeOK, Action, reconcileScaleUp, Provisioned, Normal
<1>3. status # "Succeeded"
  <2> SUFFICES ASSUME status = "Succeeded" PROVE FALSE
    OBVIOUS
  <2>1. pods = ensureWorkerPodDeleted(pods, "scale-up")
    BY <1>1 DEF reconcileScaleUp
  <2> QED
    BY <1>2, <2>1, WorkerDeleted, NoPodStatus
<1>4. pods = ensureWorkerPodCreated(pods, "scale-up", temp, config, version)
  BY <1>1, <1>3 DEF reconcileScaleUp
<1>5. temp \in {Absent} \cup SUBSET Node /\ config \in {Absent} \cup Version
  BY <1>2 DEF TypeOK, reconcileScaleUp, Provisioned, findScaleUpWorkerNodes
<1> HIDE DEF temp
<1> QED
  BY <1>1, <1>2, <1>3, <1>4, <1>5, WorkerAwaited DEF WakeInv

LEMMA ScaleDownWakes ==
  ASSUME WakeInv, NEW w \in Outcome, reconcileScaleDown(w)
  PROVE  NothingForgotten'
<1> DEFINE status == pods["scale-down"].status
           n == IF status = "Succeeded" THEN 4 ELSE 1
           down == findScaleDownWorkerNodes(hosts, nodes)
<1> SUFFICES ASSUME ~queued' PROVE \E a \in Action : pods'[a].status \in {"Running", "Failed"}
  BY DEF NothingForgotten
<1>1. w.done = n /\ UNCHANGED pods
  <2>1. n \in 0..9 /\ w.done <= n /\ EndReconcile(w, n, scaleDownPhase(w.done, status))
    BY DEF reconcileScaleDown
  <2> QED
    BY <2>1, QuietEnd
<1>2. TypeOK /\ pods \in [Action -> Pod] /\ "scale-down" \in Action /\ "cluster" \notin deletionTimestamp
  BY DEF WakeInv, TypeOK, Action, reconcileScaleDown, Provisioned, Normal
<1>3. status # "Succeeded"
  <2> SUFFICES ASSUME status = "Succeeded" PROVE FALSE
    OBVIOUS
  <2>1. pods = ensureWorkerPodDeleted(pods, "scale-down")
    BY <1>1 DEF reconcileScaleDown
  <2> QED
    BY <1>2, <2>1, WorkerDeleted, NoPodStatus
<1>4. pods = ensureWorkerPodCreated(pods, "scale-down", down, config, version)
  BY <1>1, <1>3 DEF reconcileScaleDown
<1>5. down \in {Absent} \cup SUBSET Node /\ config \in {Absent} \cup Version
  BY <1>2 DEF TypeOK, reconcileScaleDown, Provisioned, findScaleDownWorkerNodes
<1> HIDE DEF down
<1> QED
  BY <1>1, <1>2, <1>3, <1>4, <1>5, WorkerAwaited DEF WakeInv

LEMMA UpgradeWakes ==
  ASSUME WakeInv, NEW w \in Outcome, reconcileUpgrade(w)
  PROVE  NothingForgotten'
<1> DEFINE status == pods["upgrade"].status
           n == IF status = "Succeeded" THEN 3 ELSE 1
<1> SUFFICES ASSUME ~queued' PROVE \E a \in Action : pods'[a].status \in {"Running", "Failed"}
  BY DEF NothingForgotten
<1>1. w.done = n /\ UNCHANGED pods
  <2>1. n \in 0..9 /\ w.done <= n /\ EndReconcile(w, n, upgradePhase(w.done, status))
    BY DEF reconcileUpgrade
  <2> QED
    BY <2>1, QuietEnd
<1>2. TypeOK /\ pods \in [Action -> Pod] /\ "upgrade" \in Action /\ "cluster" \notin deletionTimestamp
  BY DEF WakeInv, TypeOK, Action, reconcileUpgrade, Provisioned, Normal
<1>3. status # "Succeeded"
  <2> SUFFICES ASSUME status = "Succeeded" PROVE FALSE
    OBVIOUS
  <2>1. pods = ensureWorkerPodDeleted(pods, "upgrade")
    BY <1>1 DEF reconcileUpgrade
  <2> QED
    BY <1>2, <2>1, WorkerDeleted, NoPodStatus
<1>4. pods = ensureWorkerPodCreated(pods, "upgrade", hosts, version, version)
  BY <1>1, <1>3 DEF reconcileUpgrade
<1>5. hosts \in {Absent} \cup SUBSET Node /\ version \in {Absent} \cup Version
  BY <1>2 DEF TypeOK
<1> QED
  BY <1>1, <1>2, <1>3, <1>4, <1>5, WorkerAwaited DEF WakeInv

\* What WakeBase says of the workers.
PodsBase ==
  \A a \in Action :
    /\ pods[a].status = "None" => pods[a] = NoPod
    /\ pods[a].status = "Terminating" => "cluster" \in deletionTimestamp

\* Creating a worker, and deleting one that has ended, keep it.
LEMMA PodsBaseKept ==
  ASSUME TypeOK, PodsBase, NEW a \in Action, UNCHANGED deletionTimestamp,
         \A b \in Action \ {a} : pods'[b] = pods[b],
         pods'[a] \in {pods[a], NoPod} \/ pods'[a].status \in {"Running", "Succeeded", "Failed"}
  PROVE  PodsBase'
<1> SUFFICES ASSUME NEW b \in Action
             PROVE  /\ pods'[b].status = "None" => pods'[b] = NoPod
                    /\ pods'[b].status = "Terminating" => "cluster" \in deletionTimestamp
  BY DEF PodsBase
<1>1. CASE b = a
  BY <1>1, NoPodStatus DEF PodsBase
<1>2. CASE b # a
  BY <1>2 DEF PodsBase
<1> QED
  BY <1>1, <1>2

\* A worker that is created runs; one that is found stays as it is.
LEMMA WorkerLeft ==
  ASSUME NEW ps \in [Action -> Pod], NEW a \in Action, NEW kubeVersion,
         NEW inventory \in {Absent} \cup SUBSET Node, NEW v \in {Absent} \cup Version
  PROVE  /\ \A b \in Action \ {a} : ensureWorkerPodCreated(ps, a, inventory, v, kubeVersion)[b] = ps[b]
         /\ \/ ensureWorkerPodCreated(ps, a, inventory, v, kubeVersion)[a] = ps[a]
            \/ ensureWorkerPodCreated(ps, a, inventory, v, kubeVersion)[a].status = "Running"
<1> DEFINE qs == ensureWorkerPodCreated(ps, a, inventory, v, kubeVersion)
<1>1. /\ \A b \in Action \ {a} : qs[b] = ps[b]
      /\ ps[a] # NoPod => qs[a] = ps[a]
      /\ ps[a] = NoPod => qs[a].status = "Running"
  BY DEF ensureWorkerPodCreated
<1> HIDE DEF qs
<1>2. qs[a] = ps[a] \/ qs[a].status = "Running"
  BY <1>1
<1> QED
  BY <1>1, <1>2 DEF qs

LEMMA ProvisionBase ==
  ASSUME TypeOK, WakeBase, NEW w \in Outcome, reconcileProvision(w)
  PROVE  WakeBase'
<1> DEFINE status == pods["init"].status
<1>1. w.done \in 0..9
  BY OutcomeType
<1>2. phase' = phase \/ phase' = provisionPhase(w.done, status)
  BY DEF reconcileProvision, EndReconcile
<1>3. phase \in {"", "ProvisionFailed", "Provisioning"}
  BY DEF reconcileProvision
<1>4. phase' # "Deleting" /\ (hasProvisionClusterInfo(phase') => w.done = 8)
  BY <1>1, <1>2, <1>3 DEF provisionPhase, hasProvisionClusterInfo
<1>5. w.done = 8 => ownerRef'
  <2>1. ownerRef' = IF w.done >= 4 THEN TRUE ELSE ownerRef
    BY DEF reconcileProvision
  <2>2. w.done = 8 => w.done >= 4
    OBVIOUS
  <2> QED
    BY <2>1, <2>2
<1>6. PodsBase'
  <2>1. /\ hosts' \in {Absent} \cup SUBSET Node /\ config' \in {Absent} \cup Version
        /\ pods \in [Action -> Pod] /\ "init" \in Action
    BY DEF TypeOK, reconcileProvision, Action
  <2>2. pods' = IF w.done >= 3 THEN ensureWorkerPodCreated(pods, "init", hosts', config', version) ELSE pods
    BY DEF reconcileProvision
  <2>3. /\ \A b \in Action \ {"init"} : pods'[b] = pods[b]
        /\ pods'["init"] = pods["init"] \/ pods'["init"].status = "Running"
    BY <2>1, <2>2, WorkerLeft
  <2>4. UNCHANGED deletionTimestamp /\ PodsBase
    BY DEF reconcileProvision, WakeBase, PodsBase
  <2> QED
    BY <2>1, <2>3, <2>4, PodsBaseKept
<1> QED
  BY <1>4, <1>5, <1>6 DEF WakeBase, PodsBase

\* What the three handlers of a provisioned cluster do to their worker.
LEMMA MaintainPods ==
  ASSUME TypeOK, WakeBase, NEW a \in Action,
         NEW inventory \in {Absent} \cup SUBSET Node, NEW v \in {Absent} \cup Version, NEW kubeVersion,
         UNCHANGED deletionTimestamp,
         \/ pods' = pods
         \/ pods' = ensureWorkerPodCreated(pods, a, inventory, v, kubeVersion)
         \/ pods' = ensureWorkerPodDeleted(pods, a) /\ pods[a].status = "Succeeded"
  PROVE  PodsBase'
<1>1. pods \in [Action -> Pod] /\ PodsBase
  BY DEF TypeOK, WakeBase, PodsBase
<1>2. /\ \A b \in Action \ {a} : pods'[b] = pods[b]
      /\ pods'[a] \in {pods[a], NoPod} \/ pods'[a].status = "Running"
  <2>1. CASE pods' = pods
    BY <2>1
  <2>2. CASE pods' = ensureWorkerPodCreated(pods, a, inventory, v, kubeVersion)
    BY <1>1, <2>2, WorkerLeft
  <2>3. CASE pods' = ensureWorkerPodDeleted(pods, a) /\ pods[a].status = "Succeeded"
    BY <1>1, <2>3, WorkerDeleted
  <2> QED
    BY <2>1, <2>2, <2>3
<1> QED
  BY <1>1, <1>2, PodsBaseKept

LEMMA MaintainBase ==
  ASSUME TypeOK, WakeBase, NEW w \in Outcome,
         reconcileScaleUp(w) \/ reconcileScaleDown(w) \/ reconcileUpgrade(w)
  PROVE  WakeBase'
<1>1. w.done \in 0..9
  BY OutcomeType
<1>2. /\ hasProvisionClusterInfo(phase) /\ hosts # Absent
      /\ UNCHANGED <<deletionTimestamp, ownerRef>>
  BY DEF reconcileScaleUp, reconcileScaleDown, reconcileUpgrade, Provisioned
<1>3. ownerRef'
  BY <1>2 DEF WakeBase
<1>4. phase' # "Deleting"
  <2>1. \/ phase' = phase
        \/ phase' = scaleUpPhase(w.done, pods["scale-up"].status)
        \/ phase' = scaleDownPhase(w.done, pods["scale-down"].status)
        \/ phase' = upgradePhase(w.done, pods["upgrade"].status)
    BY DEF reconcileScaleUp, reconcileScaleDown, reconcileUpgrade, EndReconcile
  <2> QED
    BY <1>1, <1>2, <2>1 DEF scaleUpPhase, scaleDownPhase, upgradePhase, hasProvisionClusterInfo
<1>5. CASE reconcileScaleUp(w)
  <2> DEFINE temp == IF scaleUpHosts = Absent THEN hosts \cup findScaleUpWorkerNodes(hosts, nodes) ELSE scaleUpHosts
  <2>1. temp \in {Absent} \cup SUBSET Node /\ config \in {Absent} \cup Version /\ "scale-up" \in Action
    BY <1>2 DEF TypeOK, findScaleUpWorkerNodes, Action
  <2>2. \/ pods' = pods
        \/ pods' = ensureWorkerPodCreated(pods, "scale-up", temp, config, version)
        \/ pods' = ensureWorkerPodDeleted(pods, "scale-up") /\ pods["scale-up"].status = "Succeeded"
    BY <1>1, <1>5 DEF reconcileScaleUp
  <2> HIDE DEF temp
  <2>3. PodsBase'
    BY <1>2, <2>1, <2>2, MaintainPods
  <2> QED
    BY <1>3, <1>4, <2>3 DEF WakeBase, PodsBase
<1>6. CASE reconcileScaleDown(w)
  <2> DEFINE down == findScaleDownWorkerNodes(hosts, nodes)
  <2>1. down \in {Absent} \cup SUBSET Node /\ config \in {Absent} \cup Version /\ "scale-down" \in Action
    BY <1>2 DEF TypeOK, findScaleDownWorkerNodes, Action
  <2>2. \/ pods' = pods
        \/ pods' = ensureWorkerPodCreated(pods, "scale-down", down, config, version)
        \/ pods' = ensureWorkerPodDeleted(pods, "scale-down") /\ pods["scale-down"].status = "Succeeded"
    BY <1>1, <1>6 DEF reconcileScaleDown
  <2> HIDE DEF down
  <2>3. PodsBase'
    BY <1>2, <2>1, <2>2, MaintainPods
  <2> QED
    BY <1>3, <1>4, <2>3 DEF WakeBase, PodsBase
<1>7. CASE reconcileUpgrade(w)
  <2>1. hosts \in {Absent} \cup SUBSET Node /\ version \in {Absent} \cup Version /\ "upgrade" \in Action
    BY DEF TypeOK, Action
  <2>2. \/ pods' = pods
        \/ pods' = ensureWorkerPodCreated(pods, "upgrade", hosts, version, version)
        \/ pods' = ensureWorkerPodDeleted(pods, "upgrade") /\ pods["upgrade"].status = "Succeeded"
    BY <1>1, <1>7 DEF reconcileUpgrade
  <2>3. PodsBase'
    BY <1>2, <2>1, <2>2, MaintainPods
  <2> QED
    BY <1>3, <1>4, <2>3 DEF WakeBase, PodsBase
<1> QED
  BY <1>5, <1>6, <1>7

LEMMA DeleteBase ==
  ASSUME TypeOK, WakeBase, NEW w \in Outcome, reconcileDelete(w)
  PROVE  WakeBase'
<1> DEFINE left == deleteWorkerPods(pods, w.done)
<1>1. w.done \in 0..9 /\ pods \in [Action -> Pod] /\ "terminate" \in Action
  BY OutcomeType DEF TypeOK, Action
<1>2. "cluster" \in deletionTimestamp' /\ UNCHANGED ownerRef
  BY DEF reconcileDelete
<1>3. phase' = phase \/ phase' \in {"Deleting", "Unknown"}
  <2>1. phase' = phase \/ phase' = deletePhase(w.done, pods["terminate"].status)
    BY DEF reconcileDelete, EndReconcile
  <2> QED
    BY <1>1, <2>1 DEF deletePhase
<1>4. \A a \in Action : left[a].status = "None" => left[a] = NoPod
  <2> SUFFICES ASSUME NEW a \in Action, left[a].status = "None" PROVE left[a] = NoPod
    OBVIOUS
  <2>1. left[a] \in {pods[a], Deleted(pods[a])}
    BY <1>1, WorkersDeleted
  <2>2. Deleted(pods[a]).status = "Terminating" \/ Deleted(pods[a]) = NoPod
    BY <1>1 DEF Deleted, Pod
  <2> HIDE DEF left
  <2> QED
    BY <2>1, <2>2 DEF WakeBase
<1>5. left \in [Action -> Pod]
  BY <1>1, WorkersDeleted
<1>6. \A a \in Action : pods'[a].status = "None" => pods'[a] = NoPod
  <2>1. pods' = IF w.done >= 4 THEN ensureWorkerPodCreated(left, "terminate", hosts, config, version) ELSE left
    BY DEF reconcileDelete
  <2>2. hosts \in {Absent} \cup SUBSET Node /\ config \in {Absent} \cup Version
    BY DEF TypeOK
  <2> HIDE DEF left
  <2>3. /\ \A b \in Action \ {"terminate"} : pods'[b] = left[b]
        /\ pods'["terminate"] = left["terminate"] \/ pods'["terminate"].status = "Running"
    BY <1>1, <1>5, <2>1, <2>2, WorkerLeft
  <2> QED
    BY <1>4, <2>3
<1> QED
  BY <1>2, <1>3, <1>6 DEF WakeBase, hasProvisionClusterInfo

LEMMA EnvironmentBase ==
  ASSUME TypeOK, WakeBase, Worker \/ User \/ ClusterAPI
  PROVE  WakeBase'
<1>1. pods \in [Action -> Pod] /\ PodsBase
  BY DEF TypeOK, WakeBase, PodsBase
<1>2. UNCHANGED <<phase, ownerRef>> /\ deletionTimestamp \subseteq deletionTimestamp'
  BY DEF Worker, WorkerProgresses, WorkerSucceeds, WorkerFails, WorkerStopped,
         User, EditNodes, EditVersion, DeleteCluster, DeleteMachine, DeleteFailedWorker,
         ClusterAPI, DeleteControlPlane, ControlPlaneGone, DeleteInfrastructure, ClusterGone, objVars
<1>3. ASSUME pods' = pods PROVE PodsBase'
  BY <1>1, <1>2, <1>3 DEF PodsBase
<1>4. ASSUME NEW a \in Action, WorkerSucceeds(a) \/ WorkerFails(a)
      PROVE  PodsBase'
  <2>1. PICK st \in {"Succeeded", "Failed"} : pods' = [pods EXCEPT ![a].status = st]
    BY <1>4 DEF WorkerSucceeds, WorkerFails
  <2>2. pods[a] \in Pod
    BY <1>1
  <2>3. pods'[a].status = st /\ \A b \in Action \ {a} : pods'[b] = pods[b]
    BY <1>1, <2>1, <2>2 DEF Pod
  <2>4. UNCHANGED deletionTimestamp
    BY <1>4 DEF WorkerSucceeds, WorkerFails, objVars
  <2> QED
    BY <1>1, <2>3, <2>4, PodsBaseKept
<1>5. ASSUME NEW a \in Action, WorkerStopped(a) \/ DeleteFailedWorker(a)
      PROVE  PodsBase'
  <2>1. pods'[a] = NoPod /\ \A b \in Action \ {a} : pods'[b] = pods[b]
    BY <1>1, <1>5, WorkerDeleted DEF WorkerStopped, DeleteFailedWorker
  <2>2. UNCHANGED deletionTimestamp
    BY <1>5 DEF WorkerStopped, DeleteFailedWorker, objVars
  <2> QED
    BY <1>1, <2>1, <2>2, PodsBaseKept
<1>6. ASSUME ClusterGone PROVE PodsBase'
  <2> SUFFICES ASSUME NEW a \in Action
               PROVE  /\ pods'[a].status = "None" => pods'[a] = NoPod
                      /\ "cluster" \in deletionTimestamp'
    BY DEF PodsBase
  <2>1. pods'[a] = Deleted(pods[a]) /\ pods[a] \in Pod /\ "cluster" \in deletionTimestamp'
    BY <1>1, <1>6 DEF ClusterGone
  <2>2. Deleted(pods[a]).status = "Terminating" \/ Deleted(pods[a]) = NoPod
    BY <2>1 DEF Deleted, Pod
  <2> QED
    BY <2>1, <2>2
<1>7. PodsBase'
  <2>1. CASE Worker
    <3>1. \A a : WorkerProgresses(a) => pods' = pods
      BY DEF WorkerProgresses
    <3> QED
      BY <1>3, <1>4, <1>5, <2>1, <3>1 DEF Worker
  <2>2. CASE User
    <3>1. EditNodes \/ EditVersion \/ DeleteCluster \/ DeleteMachine => pods' = pods
      BY DEF EditNodes, EditVersion, DeleteCluster, DeleteMachine
    <3> QED
      BY <1>3, <1>5, <2>2, <3>1 DEF User
  <2>3. CASE ClusterAPI
    <3>1. DeleteControlPlane \/ ControlPlaneGone \/ DeleteInfrastructure => pods' = pods
      BY DEF DeleteControlPlane, ControlPlaneGone, DeleteInfrastructure
    <3> QED
      BY <1>3, <1>6, <2>3, <3>1 DEF ClusterAPI
  <2> QED
    BY <2>1, <2>2, <2>3
<1> QED
  BY <1>2, <1>7 DEF WakeBase, PodsBase

\* The watches: every step of the others that could leave work over queues a
\* reconcile, and so does an edit of customMachine once it names its owner.
LEMMA EnvironmentWakes ==
  ASSUME WakeInv, Worker \/ User \/ ClusterAPI
  PROVE  NothingForgotten'
<1> USE DEF objVars, specVars, recordVars
<1>1. ASSUME NEW a \in Action, WorkerProgresses(a)
      PROVE  NothingForgotten'
  BY <1>1 DEF WorkerProgresses, WakeInv, NothingForgotten
<1>2. ASSUME NEW a \in Action,
             WorkerSucceeds(a) \/ WorkerFails(a) \/ WorkerStopped(a) \/ DeleteFailedWorker(a)
      PROVE  queued'
  BY <1>2 DEF WorkerSucceeds, WorkerFails, WorkerStopped, DeleteFailedWorker
<1>3. CASE EditNodes
  <2> SUFFICES ASSUME ~queued' PROVE NothingForgotten'
    BY DEF NothingForgotten
  <2>1. ~queued /\ ~ownerRef /\ UNCHANGED <<exists, deletionTimestamp, phase, pods>>
    BY <1>3 DEF EditNodes
  <2>2. ~hasProvisionClusterInfo(phase)
    BY <2>1 DEF WakeInv, WakeBase
  <2> QED
    BY <2>1, <2>2 DEF WakeInv, NothingForgotten
<1>4. CASE DeleteMachine
  BY <1>4 DEF DeleteMachine, NothingForgotten
<1>5. EditVersion \/ DeleteCluster \/ ClusterAPI => queued'
  BY DEF EditVersion, DeleteCluster, ClusterAPI, DeleteControlPlane, ControlPlaneGone, DeleteInfrastructure, ClusterGone
<1>6. queued' => NothingForgotten'
  BY DEF NothingForgotten
<1> QED
  BY <1>1, <1>2, <1>3, <1>4, <1>5, <1>6 DEF Worker, User

\* However calls are cut short and however users, workers and Cluster API
\* interleave, a cluster that no reconcile is due for has a worker at work or
\* failed, or its specs carried out, or is in phase Unknown.
THEOREM NothingIsForgotten == Spec => []NothingForgotten
<1>1. Init => WakeBase /\ NothingForgotten
  <2> SUFFICES ASSUME Init PROVE WakeBase /\ NothingForgotten
    OBVIOUS
  <2>1. queued /\ phase = "" /\ \A a \in Action : pods[a] = NoPod
    BY DEF Init
  <2> QED
    BY <2>1, NoPodStatus DEF WakeBase, NothingForgotten, hasProvisionClusterInfo
<1>2. TypeOK /\ WakeBase /\ NothingForgotten /\ [Next]_vars => WakeBase' /\ NothingForgotten'
  <2> SUFFICES ASSUME TypeOK, WakeBase, NothingForgotten, [Next]_vars
               PROVE  WakeBase' /\ NothingForgotten'
    OBVIOUS
  <2>1. WakeInv
    BY DEF WakeInv
  <2>2. CASE Reconcile
    <3>1. CASE reconcileNothing
      <4>1. UNCHANGED <<exists, deletionTimestamp, ownerRef, phase, nodes, version, hosts, config, pods>>
        BY <3>1 DEF reconcileNothing, objVars, specVars, recordVars
      <4>2. \/ phase \in {"Deleting", "Unknown"}
            \/ /\ hasProvisionClusterInfo(phase) /\ hosts = nodes
               /\ config = version \/ ~isKubeadmUpgradeSupported(config, version)
        BY <3>1 DEF reconcileNothing, Provisioned
      <4> QED
        BY <4>1, <4>2 DEF WakeBase, NothingForgotten
    <3>2. CASE reconcileMissing
      BY <3>2 DEF reconcileMissing, objVars, WakeBase, NothingForgotten
    <3>3. ASSUME NEW w \in Outcome, reconcileDelete(w)
          PROVE  WakeBase' /\ NothingForgotten'
      <4>1. NothingForgotten'
        BY <3>3 DEF reconcileDelete, NothingForgotten
      <4> QED
        BY <3>3, <4>1, DeleteBase
    <3> QED
      BY <2>1, <2>2, <3>1, <3>2, <3>3, ProvisionBase, ProvisionWakes, MaintainBase,
         ScaleUpWakes, ScaleDownWakes, UpgradeWakes
      DEF Reconcile, Outcomes
  <2>3. CASE UNCHANGED vars
    BY <2>3 DEF vars, WakeBase, NothingForgotten
  <2> QED
    BY <2>1, <2>2, <2>3, EnvironmentBase, EnvironmentWakes DEF Next
<1> QED
  BY <1>1, <1>2, TypeCorrect, PTL DEF Spec
-----------------------------------------------------------------------------
(***************************************************************************)
(* What the CustomCluster controller achieves when users wait for one edit  *)
(* to be carried out before they make the next, and no call of Reconcile is *)
(* cut short: the ConfigMaps agree with the machines.  Workers may fail,    *)
(* and the Cluster may be deleted at any time.                              *)
(***************************************************************************)

Live == "cluster" \notin deletionTimestamp

\* Nothing has been done yet.
Blank ==
  /\ hosts = Absent
  /\ config = Absent
  /\ scaleUpHosts = Absent
  /\ \A a \in Action : pods[a] = NoPod

\* The init worker installs what the specs ask for.
Installing ==
  /\ hosts = nodes
  /\ config = version
  /\ scaleUpHosts = Absent
  /\ \A a \in {"scale-up", "scale-down", "upgrade"} : pods[a] = NoPod
  /\ pods["init"] # NoPod => pods["init"].nodes = hosts /\ pods["init"].version = config
  /\ pods["init"].status = "Succeeded" => vmNodes = hosts /\ vmVersion = config

\* Nodes are to be added: the machines are between the recorded and the
\* desired nodes, and the worker adds exactly what is missing.
Growing ==
  /\ hosts \subseteq vmNodes
  /\ vmNodes \subseteq hosts \cup nodes
  /\ scaleUpHosts \in {Absent, hosts \cup nodes}
  /\ pods["scale-up"] # NoPod => pods["scale-up"].nodes = hosts \cup nodes
  /\ pods["scale-up"].status = "Succeeded" => vmNodes = hosts \cup nodes
  /\ pods["scale-down"] = NoPod
  /\ pods["upgrade"] = NoPod

\* Nodes are to be removed, or the recorded nodes are the desired ones.
Shrinking ==
  /\ nodes \subseteq vmNodes
  /\ vmNodes \subseteq hosts
  /\ scaleUpHosts = Absent
  /\ pods["scale-up"] = NoPod
  /\ pods["scale-down"] # NoPod => hosts # nodes /\ pods["scale-down"].nodes = hosts \ nodes
  /\ pods["scale-down"].status = "Succeeded" => vmNodes = nodes
  /\ hosts # nodes => pods["upgrade"] = NoPod

\* An upgrade is due.
Due == config # version /\ isKubeadmUpgradeSupported(config, version)

Upgraded ==
  /\ pods["upgrade"] # NoPod => Due /\ pods["upgrade"].version = version
  /\ pods["upgrade"].status = "Succeeded" => vmVersion = version
  /\ vmVersion \in {config, version}
  /\ ~Due => vmVersion = config
  /\ hosts = nodes \/ ~Due

\* The cluster is there and is kept in step with the specs.
Maintained ==
  /\ pods["init"].status = "Succeeded"
  /\ secrets > 0
  /\ hosts \in SUBSET Node
  /\ config \in Version
  /\ ~(nodes \subseteq hosts) => Growing
  /\ nodes \subseteq hosts => Shrinking
  /\ Upgraded

QuietInv ==
  /\ faults = 0
  /\ Live => "cluster" \in exists /\ phase # "Deleting"
  /\ Live /\ phase = "" => Blank
  /\ Live /\ phase \in {"Provisioning", "ProvisionFailed"} => Installing
  /\ Live /\ (hasProvisionClusterInfo(phase) \/ phase = "Unknown") => Maintained
-----------------------------------------------------------------------------
(* The steps of the controller. *)

\* With no fault left a call makes all its writes and patches the phase.
LEMMA WholeCall ==
  ASSUME TypeOK, faults = 0, NEW w \in Outcome, NEW n \in Nat, NEW p,
         w.done <= n, EndReconcile(w, n, p)
  PROVE  w.done = n /\ phase' = p /\ faults' = 0
<1>1. w.done \in 0..9
  BY OutcomeType
<1>2. ~(w.done < n) /\ w.meta /\ w.status
  BY DEF EndReconcile
<1>3. w.done = n
  BY <1>1, <1>2
<1>4. phase' = p /\ faults' = faults
  BY <1>2 DEF EndReconcile
<1> QED
  BY <1>3, <1>4

\* In qs worker a is there, as it was in ps or as it was asked for.
There(qs, ps, a, inventory, v) ==
  /\ \A b \in Action \ {a} : qs[b] = ps[b]
  /\ ps[a] # NoPod => qs[a] = ps[a]
  /\ ps[a] = NoPod =>
       qs[a].status = "Running" /\ qs[a].nodes = inventory /\ qs[a].version = v

LEMMA WorkerThere ==
  ASSUME NEW ps \in [Action -> Pod], NEW a \in Action, NEW inventory, NEW v, NEW kubeVersion
  PROVE  There(ensureWorkerPodCreated(ps, a, inventory, v, kubeVersion), ps, a, inventory, v)
  BY DEF ensureWorkerPodCreated, There

LEMMA ProvisionQuiet ==
  ASSUME TypeOK, QuietInv, NEW w \in Outcome, reconcileProvision(w)
  PROVE  QuietInv'
<1> DEFINE status == pods["init"].status
           n == IF status = "Succeeded" THEN 8 ELSE 7
<1>1. Live /\ Live' /\ exists' = exists /\ "cluster" \in exists
  BY DEF reconcileProvision, Normal, Live, Obj
<1>2. /\ w.done = n
      /\ phase' = provisionPhase(n, status)
      /\ faults' = 0
  <2>1. EndReconcile(w, n, provisionPhase(w.done, status)) /\ w.done <= n /\ faults = 0 /\ n \in Nat
    BY DEF reconcileProvision, QuietInv
  <2> HIDE DEF n, status
  <2>2. w.done = n /\ phase' = provisionPhase(w.done, status) /\ faults' = 0
    BY <2>1, WholeCall
  <2> QED
    BY <2>2
<1>3. phase' = CASE status = "Succeeded" -> "Provisioned"
                 [] status = "Failed" -> "ProvisionFailed"
                 [] OTHER -> "Provisioning"
  BY <1>2 DEF provisionPhase
<1>4. \/ Blank
      \/ Installing
  BY <1>1 DEF reconcileProvision, QuietInv
<1>5. /\ hosts' = nodes /\ config' = version
      /\ UNCHANGED <<nodes, version, scaleUpHosts, vmNodes, vmVersion>>
      /\ scaleUpHosts = Absent
  <2>1. /\ hosts' = IF w.done >= 1 /\ hosts = Absent THEN nodes ELSE hosts
        /\ config' = IF w.done >= 2 /\ config = Absent THEN version ELSE config
        /\ UNCHANGED <<nodes, version, scaleUpHosts, vmNodes, vmVersion>>
    BY DEF reconcileProvision, specVars, vms
  <2>2. w.done >= 1 /\ w.done >= 2
    <3>1. w.done = n /\ n \in 7..8
      BY <1>2
    <3> HIDE DEF n, status
    <3> QED
      BY <3>1
  <2> QED
    BY <1>4, <2>1, <2>2 DEF Blank, Installing
<1>6. pods' = ensureWorkerPodCreated(pods, "init", nodes, version, version)
  <2>1. pods' = IF w.done >= 3 THEN ensureWorkerPodCreated(pods, "init", hosts', config', version) ELSE pods
    BY DEF reconcileProvision
  <2>2. w.done >= 3
    BY <1>2
  <2> QED
    BY <1>5, <2>1, <2>2
<1>7. /\ \A a \in {"scale-up", "scale-down", "upgrade"} : pods[a] = NoPod
      /\ pods["init"] # NoPod => pods["init"].nodes = nodes /\ pods["init"].version = version
      /\ status = "Succeeded" => vmNodes = nodes /\ vmVersion = version
  BY <1>4, NoPodStatus DEF Blank, Installing, Action
<1>8. /\ \A a \in {"scale-up", "scale-down", "upgrade"} : pods'[a] = NoPod
      /\ pods'["init"].nodes = nodes /\ pods'["init"].version = version
      /\ status = "Succeeded" => pods'["init"].status = "Succeeded"
      /\ pods'["init"].status = "Succeeded" => status = "Succeeded"
  <2>1. /\ pods \in [Action -> Pod] /\ nodes \in SUBSET Node /\ version \in Version
        /\ "init" \in Action /\ {"scale-up", "scale-down", "upgrade"} \subseteq Action \ {"init"}
    BY DEF TypeOK, Action
  <2>2. /\ \A b \in Action \ {"init"} : pods'[b] = pods[b]
        /\ pods["init"] # NoPod => pods'["init"] = pods["init"]
        /\ pods["init"] = NoPod => pods'["init"].status = "Running" /\ pods'["init"].nodes = nodes /\ pods'["init"].version = version
    <3>1. There(pods', pods, "init", nodes, version)
      BY <1>6, <2>1, WorkerThere
    <3> QED
      BY <3>1 DEF There
  <2>3. CASE pods["init"] = NoPod
    BY <1>7, <2>1, <2>2, <2>3, NoPodStatus
  <2>4. CASE pods["init"] # NoPod
    BY <1>7, <2>1, <2>2, <2>4
  <2> QED
    BY <2>3, <2>4
<1>9. CASE status = "Succeeded"
  <2>1. secrets' > 0
    <3>1. secrets' = IF w.done = 8 THEN secrets + 1 ELSE secrets
      BY DEF reconcileProvision
    <3>2. secrets \in Nat
      BY DEF TypeOK
    <3> QED
      BY <1>2, <1>9, <3>1, <3>2
  <2>2. Maintained'
    <3>1. hosts' \in SUBSET Node /\ config' \in Version
      BY <1>5 DEF TypeOK
    <3>2. Shrinking' /\ Upgraded'
      BY <1>5, <1>7, <1>8, <1>9, NoPodStatus DEF Shrinking, Upgraded, Due
    <3> QED
      BY <1>5, <1>8, <1>9, <2>1, <3>1, <3>2 DEF Maintained
  <2> QED
    BY <1>1, <1>2, <1>3, <1>9, <2>2 DEF QuietInv, Live, hasProvisionClusterInfo
<1>10. CASE status # "Succeeded"
  <2>1. Installing'
    BY <1>5, <1>8, <1>10 DEF Installing
  <2>2. phase' \in {"Provisioning", "ProvisionFailed"}
    BY <1>3, <1>10
  <2> QED
    BY <1>1, <1>2, <2>1, <2>2 DEF QuietInv, Live, hasProvisionClusterInfo
<1> QED
  BY <1>9, <1>10

LEMMA ScaleUpQuiet ==
  ASSUME TypeOK, QuietInv, NEW w \in Outcome, reconcileScaleUp(w)
  PROVE  QuietInv'
<1> DEFINE status == pods["scale-up"].status
           n == IF status = "Succeeded" THEN 5 ELSE 2
           up == findScaleUpWorkerNodes(hosts, nodes)
           temp == IF scaleUpHosts = Absent THEN hosts \cup up ELSE scaleUpHosts
<1>1. /\ Live /\ Live' /\ exists' = exists /\ "cluster" \in exists
      /\ hasProvisionClusterInfo(phase)
      /\ UNCHANGED <<nodes, version, config, vmNodes, vmVersion, secrets>>
  BY DEF reconcileScaleUp, Provisioned, Normal, Live, Obj, specVars, vms
<1>2. w.done = n /\ phase' = scaleUpPhase(n, status) /\ faults' = 0
  <2>1. EndReconcile(w, n, scaleUpPhase(w.done, status)) /\ w.done <= n /\ faults = 0 /\ n \in Nat
    BY DEF reconcileScaleUp, QuietInv
  <2> HIDE DEF n, status
  <2>2. w.done = n /\ phase' = scaleUpPhase(w.done, status) /\ faults' = 0
    BY <2>1, WholeCall
  <2> QED
    BY <2>2
<1>3. phase' \in {"ScalingUp", "Provisioned"}
  BY <1>2 DEF scaleUpPhase
<1>4. Maintained /\ up # {}
  BY <1>1 DEF QuietInv, reconcileScaleUp
<1>5. ~(nodes \subseteq hosts) /\ hosts \cup up = hosts \cup nodes
  BY <1>4 DEF findScaleUpWorkerNodes
<1>6. Growing /\ Upgraded /\ pods["init"].status = "Succeeded" /\ secrets > 0
      /\ hosts \in SUBSET Node /\ config \in Version /\ nodes \in SUBSET Node
  BY <1>4, <1>5 DEF Maintained, TypeOK
<1>7. temp = hosts \cup nodes
  BY <1>5, <1>6 DEF Growing
<1>8. /\ pods \in [Action -> Pod] /\ "scale-up" \in Action
      /\ {"init", "scale-down", "upgrade"} \subseteq Action \ {"scale-up"}
  BY DEF TypeOK, Action
<1>9. ~Due
  BY <1>5, <1>6 DEF Upgraded
<1>10. CASE status = "Succeeded"
  <2>1. /\ scaleUpHosts' = IF w.done = 0 THEN scaleUpHosts ELSE IF w.done >= 4 THEN Absent ELSE temp
        /\ hosts' = IF w.done >= 3 THEN updateClusterNodes(hosts, up) ELSE hosts
        /\ pods' = CASE w.done < 2 -> pods
                     [] w.done \in 2..4 -> ensureWorkerPodCreated(pods, "scale-up", temp, config, version)
                     [] w.done = 5 -> ensureWorkerPodDeleted(pods, "scale-up")
    BY DEF reconcileScaleUp
  <2>2. /\ scaleUpHosts' = Absent
        /\ hosts' = hosts \cup nodes
        /\ pods' = ensureWorkerPodDeleted(pods, "scale-up")
    BY <1>2, <1>5, <1>10, <2>1 DEF updateClusterNodes
  <2>3. pods'["scale-up"] = NoPod /\ \A b \in Action \ {"scale-up"} : pods'[b] = pods[b]
    BY <1>8, <1>10, <2>2, WorkerDeleted
  <2>4. pods'["scale-down"] = NoPod /\ pods'["upgrade"] = NoPod /\ pods'["init"] = pods["init"]
    BY <1>6, <1>8, <2>3 DEF Growing
  <2>5. vmNodes = hosts \cup nodes
    BY <1>6, <1>10 DEF Growing
  <2>6. Shrinking'
    BY <1>1, <2>2, <2>3, <2>4, <2>5, NoPodStatus DEF Shrinking
  <2>7. Upgraded'
    BY <1>1, <1>6, <1>9, <2>4, NoPodStatus DEF Upgraded, Due
  <2>8. nodes' \subseteq hosts' /\ hosts' \in SUBSET Node
    BY <1>1, <1>6, <2>2
  <2>9. Maintained'
    BY <1>1, <1>6, <2>4, <2>6, <2>7, <2>8 DEF Maintained
  <2> QED
    BY <1>1, <1>2, <1>3, <2>9 DEF QuietInv, Live
<1>11. CASE status # "Succeeded"
  <2>1. /\ scaleUpHosts' = IF w.done = 0 THEN scaleUpHosts ELSE IF w.done >= 4 THEN Absent ELSE temp
        /\ hosts' = IF w.done >= 3 THEN updateClusterNodes(hosts, up) ELSE hosts
        /\ pods' = CASE w.done < 2 -> pods
                     [] w.done \in 2..4 -> ensureWorkerPodCreated(pods, "scale-up", temp, config, version)
                     [] w.done = 5 -> ensureWorkerPodDeleted(pods, "scale-up")
    BY DEF reconcileScaleUp
  <2>2. /\ scaleUpHosts' = hosts \cup nodes
        /\ hosts' = hosts
        /\ pods' = ensureWorkerPodCreated(pods, "scale-up", hosts \cup nodes, config, version)
    BY <1>2, <1>7, <1>11, <2>1
  <2>3. hosts \cup nodes \in {Absent} \cup SUBSET Node /\ config \in {Absent} \cup Version
    BY <1>6
  <2>4. /\ \A b \in Action \ {"scale-up"} : pods'[b] = pods[b]
        /\ pods["scale-up"] # NoPod => pods'["scale-up"] = pods["scale-up"]
        /\ pods["scale-up"] = NoPod =>
             pods'["scale-up"].status = "Running" /\ pods'["scale-up"].nodes = hosts \cup nodes /\ pods'["scale-up"].version = config
    <3>1. PICK S \in {Absent} \cup SUBSET Node : S = hosts \cup nodes
      BY <2>3
    <3>2. pods' = ensureWorkerPodCreated(pods, "scale-up", S, config, version)
      BY <2>2, <3>1
    <3>3. /\ \A b \in Action \ {"scale-up"} : pods'[b] = pods[b]
          /\ pods["scale-up"] # NoPod => pods'["scale-up"] = pods["scale-up"]
          /\ pods["scale-up"] = NoPod =>
               pods'["scale-up"].status = "Running" /\ pods'["scale-up"].nodes = S /\ pods'["scale-up"].version = config
      <4>1. There(pods', pods, "scale-up", S, config)
        BY <1>8, <3>2, WorkerThere
      <4> QED
        BY <4>1 DEF There
    <3> QED
      BY <3>1, <3>3
  <2>5. pods'["scale-up"].nodes = hosts \cup nodes /\ pods'["scale-up"].status # "Succeeded"
    <3>1. CASE pods["scale-up"] = NoPod
      BY <2>4, <3>1
    <3>2. CASE pods["scale-up"] # NoPod
      BY <1>6, <1>11, <2>4, <3>2 DEF Growing
    <3> QED
      BY <3>1, <3>2
  <2>6. pods'["scale-down"] = NoPod /\ pods'["upgrade"] = NoPod /\ pods'["init"] = pods["init"]
    BY <1>6, <1>8, <2>4 DEF Growing
  <2>7. Growing'
    BY <1>1, <1>6, <2>2, <2>5, <2>6 DEF Growing
  <2>8. Upgraded'
    BY <1>1, <1>6, <1>9, <2>6, NoPodStatus DEF Upgraded, Due
  <2>9. ~(nodes' \subseteq hosts') /\ hosts' \in SUBSET Node
    BY <1>1, <1>5, <1>6, <2>2
  <2>10. Maintained'
    BY <1>1, <1>6, <2>6, <2>7, <2>8, <2>9 DEF Maintained
  <2> QED
    BY <1>1, <1>2, <1>3, <2>10 DEF QuietInv, Live
<1> QED
  BY <1>10, <1>11

LEMMA ScaleDownQuiet ==
  ASSUME TypeOK, QuietInv, NEW w \in Outcome, reconcileScaleDown(w)
  PROVE  QuietInv'
<1> DEFINE status == pods["scale-down"].status
           n == IF status = "Succeeded" THEN 4 ELSE 1
           down == findScaleDownWorkerNodes(hosts, nodes)
<1>1. /\ Live /\ Live' /\ exists' = exists /\ "cluster" \in exists
      /\ hasProvisionClusterInfo(phase)
      /\ UNCHANGED <<nodes, version, config, scaleUpHosts, vmNodes, vmVersion, secrets>>
  BY DEF reconcileScaleDown, Provisioned, Normal, Live, Obj, specVars, vms
<1>2. w.done = n /\ phase' = scaleDownPhase(n, status) /\ faults' = 0
  <2>1. EndReconcile(w, n, scaleDownPhase(w.done, status)) /\ w.done <= n /\ faults = 0 /\ n \in Nat
    BY DEF reconcileScaleDown, QuietInv
  <2> HIDE DEF n, status
  <2>2. w.done = n /\ phase' = scaleDownPhase(w.done, status) /\ faults' = 0
    BY <2>1, WholeCall
  <2> QED
    BY <2>2
<1>3. phase' \in {"ScalingDown", "Provisioned"}
  BY <1>2 DEF scaleDownPhase
<1>4. Maintained /\ down # {} /\ findScaleUpWorkerNodes(hosts, nodes) = {}
  BY <1>1 DEF QuietInv, reconcileScaleDown
<1>5. nodes \subseteq hosts /\ hosts # nodes /\ down = hosts \ nodes
  BY <1>4 DEF findScaleUpWorkerNodes, findScaleDownWorkerNodes
<1>6. Shrinking /\ Upgraded /\ pods["init"].status = "Succeeded" /\ secrets > 0
      /\ hosts \in SUBSET Node /\ config \in Version /\ nodes \in SUBSET Node
  BY <1>4, <1>5 DEF Maintained, TypeOK
<1>7. pods["scale-up"] = NoPod /\ pods["upgrade"] = NoPod
  BY <1>5, <1>6 DEF Shrinking
<1>8. /\ pods \in [Action -> Pod] /\ "scale-down" \in Action
      /\ {"init", "scale-up", "upgrade"} \subseteq Action \ {"scale-down"}
  BY DEF TypeOK, Action
<1>9. ~Due /\ ~Due'
  BY <1>1, <1>5, <1>6 DEF Upgraded, Due
<1>10. /\ hosts' = CASE w.done < 2 -> hosts
                     [] w.done = 2 -> Absent
                     [] w.done > 2 -> nodes
       /\ pods' = CASE w.done = 0 -> pods
                    [] w.done \in 1..3 -> ensureWorkerPodCreated(pods, "scale-down", down, config, version)
                    [] w.done = 4 -> ensureWorkerPodDeleted(pods, "scale-down")
  BY DEF reconcileScaleDown
<1>11. CASE status = "Succeeded"
  <2>1. hosts' = nodes /\ pods' = ensureWorkerPodDeleted(pods, "scale-down")
    BY <1>2, <1>10, <1>11
  <2>2. pods'["scale-down"] = NoPod /\ \A b \in Action \ {"scale-down"} : pods'[b] = pods[b]
    BY <1>8, <1>11, <2>1, WorkerDeleted
  <2>3. pods'["scale-up"] = NoPod /\ pods'["upgrade"] = NoPod /\ pods'["init"] = pods["init"]
    BY <1>7, <1>8, <2>2
  <2>4. vmNodes = nodes
    BY <1>6, <1>11 DEF Shrinking
  <2>5. Shrinking'
    BY <1>1, <1>6, <2>1, <2>2, <2>3, <2>4, NoPodStatus DEF Shrinking
  <2>6. Upgraded'
    BY <1>1, <1>6, <1>9, <2>3, NoPodStatus DEF Upgraded
  <2>7. nodes' \subseteq hosts' /\ hosts' \in SUBSET Node
    BY <1>1, <1>6, <2>1
  <2>8. Maintained'
    BY <1>1, <1>6, <2>3, <2>5, <2>6, <2>7 DEF Maintained
  <2> QED
    BY <1>1, <1>2, <1>3, <2>8 DEF QuietInv, Live
<1>12. CASE status # "Succeeded"
  <2>1. hosts' = hosts /\ pods' = ensureWorkerPodCreated(pods, "scale-down", hosts \ nodes, config, version)
    BY <1>2, <1>5, <1>10, <1>12
  <2>2. hosts \ nodes \in {Absent} \cup SUBSET Node /\ config \in {Absent} \cup Version
    BY <1>6
  <2>3. /\ \A b \in Action \ {"scale-down"} : pods'[b] = pods[b]
        /\ pods["scale-down"] # NoPod => pods'["scale-down"] = pods["scale-down"]
        /\ pods["scale-down"] = NoPod =>
             pods'["scale-down"].status = "Running" /\ pods'["scale-down"].nodes = hosts \ nodes /\ pods'["scale-down"].version = config
    <3>1. PICK S \in {Absent} \cup SUBSET Node : S = hosts \ nodes
      BY <2>2
    <3>2. pods' = ensureWorkerPodCreated(pods, "scale-down", S, config, version)
      BY <2>1, <3>1
    <3>3. /\ \A b \in Action \ {"scale-down"} : pods'[b] = pods[b]
          /\ pods["scale-down"] # NoPod => pods'["scale-down"] = pods["scale-down"]
          /\ pods["scale-down"] = NoPod =>
               pods'["scale-down"].status = "Running" /\ pods'["scale-down"].nodes = S /\ pods'["scale-down"].version = config
      <4>1. There(pods', pods, "scale-down", S, config)
        BY <1>8, <3>2, WorkerThere
      <4> QED
        BY <4>1 DEF There
    <3> QED
      BY <3>1, <3>3
  <2>4. pods'["scale-down"].nodes = hosts \ nodes /\ pods'["scale-down"].status # "Succeeded"
    <3>1. CASE pods["scale-down"] = NoPod
      BY <2>3, <3>1
    <3>2. CASE pods["scale-down"] # NoPod
      BY <1>6, <1>12, <2>3, <3>2 DEF Shrinking
    <3> QED
      BY <3>1, <3>2
  <2>5. pods'["scale-up"] = NoPod /\ pods'["upgrade"] = NoPod /\ pods'["init"] = pods["init"]
    BY <1>7, <1>8, <2>3
  <2>6. Shrinking'
    BY <1>1, <1>5, <1>6, <2>1, <2>4, <2>5 DEF Shrinking
  <2>7. Upgraded'
    BY <1>1, <1>6, <1>9, <2>5, NoPodStatus DEF Upgraded
  <2>8. nodes' \subseteq hosts' /\ hosts' \in SUBSET Node
    BY <1>1, <1>5, <1>6, <2>1
  <2>9. Maintained'
    BY <1>1, <1>6, <2>5, <2>6, <2>7, <2>8 DEF Maintained
  <2> QED
    BY <1>1, <1>2, <1>3, <2>9 DEF QuietInv, Live
<1> QED
  BY <1>11, <1>12

LEMMA UpgradeQuiet ==
  ASSUME TypeOK, QuietInv, NEW w \in Outcome, reconcileUpgrade(w)
  PROVE  QuietInv'
<1> DEFINE status == pods["upgrade"].status
           n == IF status = "Succeeded" THEN 3 ELSE 1
<1>1. /\ Live /\ Live' /\ exists' = exists /\ "cluster" \in exists
      /\ hasProvisionClusterInfo(phase)
      /\ UNCHANGED <<nodes, version, hosts, scaleUpHosts, vmNodes, vmVersion, secrets>>
  BY DEF reconcileUpgrade, Provisioned, Normal, Live, Obj, specVars, vms
<1>2. w.done = n /\ phase' = upgradePhase(n, status) /\ faults' = 0
  <2>1. EndReconcile(w, n, upgradePhase(w.done, status)) /\ w.done <= n /\ faults = 0 /\ n \in Nat
    BY DEF reconcileUpgrade, QuietInv
  <2> HIDE DEF n, status
  <2>2. w.done = n /\ phase' = upgradePhase(w.done, status) /\ faults' = 0
    BY <2>1, WholeCall
  <2> QED
    BY <2>2
<1>3. phase' \in {"Upgrading", "Provisioned", "Unknown"}
  BY <1>2 DEF upgradePhase
<1>4. Maintained /\ hosts = nodes /\ Due
  BY <1>1 DEF QuietInv, reconcileUpgrade, Due
<1>5. Shrinking /\ Upgraded /\ pods["init"].status = "Succeeded" /\ secrets > 0
      /\ hosts \in SUBSET Node /\ config \in Version /\ version \in Version
  BY <1>4 DEF Maintained, TypeOK
<1>6. pods["scale-up"] = NoPod /\ pods["scale-down"] = NoPod /\ vmNodes = nodes
  BY <1>4, <1>5 DEF Shrinking
<1>7. /\ pods \in [Action -> Pod] /\ "upgrade" \in Action
      /\ {"init", "scale-up", "scale-down"} \subseteq Action \ {"upgrade"}
  BY DEF TypeOK, Action
<1>8. /\ config' = IF w.done >= 2 THEN version ELSE config
      /\ pods' = CASE w.done = 0 -> pods
                   [] w.done \in 1..2 -> ensureWorkerPodCreated(pods, "upgrade", hosts, version, version)
                   [] w.done = 3 -> ensureWorkerPodDeleted(pods, "upgrade")
  BY DEF reconcileUpgrade
<1>9. /\ \A b \in Action \ {"upgrade"} : pods'[b] = pods[b]
      /\ config' \in Version
      /\ Upgraded'
  <2>1. CASE status = "Succeeded"
    <3>1. config' = version /\ pods' = ensureWorkerPodDeleted(pods, "upgrade")
      BY <1>2, <1>8, <2>1
    <3>2. pods'["upgrade"] = NoPod /\ \A b \in Action \ {"upgrade"} : pods'[b] = pods[b]
      BY <1>7, <2>1, <3>1, WorkerDeleted
    <3>3. vmVersion = version
      BY <1>5, <2>1 DEF Upgraded
    <3>4. ~Due'
      BY <1>1, <3>1 DEF Due
    <3> QED
      BY <1>1, <1>4, <1>5, <3>1, <3>2, <3>3, <3>4, NoPodStatus DEF Upgraded
  <2>2. CASE status # "Succeeded"
    <3>1. config' = config /\ pods' = ensureWorkerPodCreated(pods, "upgrade", hosts, version, version)
      BY <1>2, <1>8, <2>2
    <3>2. /\ \A b \in Action \ {"upgrade"} : pods'[b] = pods[b]
          /\ pods["upgrade"] # NoPod => pods'["upgrade"] = pods["upgrade"]
          /\ pods["upgrade"] = NoPod =>
               pods'["upgrade"].status = "Running" /\ pods'["upgrade"].nodes = hosts /\ pods'["upgrade"].version = version
      <4>1. There(pods', pods, "upgrade", hosts, version)
        BY <1>7, <3>1, WorkerThere
      <4> QED
        BY <4>1 DEF There
    <3>3. pods'["upgrade"].version = version /\ pods'["upgrade"].status # "Succeeded"
      <4>1. CASE pods["upgrade"] = NoPod
        BY <3>2, <4>1
      <4>2. CASE pods["upgrade"] # NoPod
        BY <1>5, <2>2, <3>2, <4>2 DEF Upgraded
      <4> QED
        BY <4>1, <4>2
    <3>4. Due'
      BY <1>1, <1>4, <3>1 DEF Due
    <3> QED
      BY <1>1, <1>4, <1>5, <3>1, <3>2, <3>3, <3>4 DEF Upgraded
  <2> QED
    BY <2>1, <2>2
<1>10. pods'["scale-up"] = NoPod /\ pods'["scale-down"] = NoPod /\ pods'["init"] = pods["init"]
  BY <1>6, <1>7, <1>9
<1>11. Shrinking'
  BY <1>1, <1>4, <1>5, <1>6, <1>10, NoPodStatus DEF Shrinking
<1>12. Maintained'
  BY <1>1, <1>4, <1>5, <1>9, <1>10, <1>11 DEF Maintained
<1> QED
  BY <1>1, <1>2, <1>3, <1>12 DEF QuietInv, Live

\* The invariant speaks of a Cluster that is not being deleted.
LEMMA DeletingQuiet ==
  ASSUME ~Live', faults' = 0
  PROVE  QuietInv'
  BY DEF QuietInv

LEMMA DeleteQuiet ==
  ASSUME TypeOK, QuietInv, NEW w \in Outcome, reconcileDelete(w)
  PROVE  QuietInv'
<1> DEFINE n == IF pods["terminate"].status = "Succeeded" THEN 9 ELSE 4
<1>1. /\ EndReconcile(w, n, deletePhase(w.done, pods["terminate"].status))
      /\ w.done <= n /\ faults = 0 /\ n \in Nat
  BY DEF reconcileDelete, QuietInv
<1>2. faults' = 0
  <2> HIDE DEF n
  <2> QED
    BY <1>1, WholeCall
<1>3. ~Live'
  BY DEF reconcileDelete, Live
<1> QED
  BY <1>2, <1>3, DeletingQuiet

\* A step that changes nothing the invariant speaks of.
LEMMA IdleQuiet ==
  ASSUME QuietInv, UNCHANGED <<exists, deletionTimestamp, phase, nodes, version, hosts, config,
                               scaleUpHosts, pods, secrets, vmNodes, vmVersion, faults>>
  PROVE  QuietInv'
<1>1. /\ Live' = Live /\ Blank' = Blank /\ Installing' = Installing
      /\ Maintained' = Maintained
  BY DEF Live, Blank, Installing, Maintained, Growing, Shrinking, Upgraded, Due
<1> QED
  BY <1>1 DEF QuietInv
-----------------------------------------------------------------------------
(* The steps of the workers. *)

\* What a step of worker a does: it has worked on some of its nodes, and when
\* it has succeeded on all of them.
LEMMA WorkerStep ==
  ASSUME TypeOK, NEW a \in Action,
         WorkerProgresses(a) \/ WorkerSucceeds(a) \/ WorkerFails(a)
  PROVE  /\ pods[a].status \in {"Running", "Terminating"}
         /\ \A b \in Action \ {a} : pods'[b] = pods[b]
         /\ pods'[a].nodes = pods[a].nodes /\ pods'[a].version = pods[a].version
         /\ vmNodes' = vmNodes \/ \E S \in SUBSET pods[a].nodes : vmNodes' = EffectOnNodes(a, S)
         /\ vmVersion' \in {vmVersion, EffectOnVersion(a, pods[a].version)}
         /\ pods'[a].status = "Succeeded" =>
              /\ vmNodes' = EffectOnNodes(a, pods[a].nodes)
              /\ vmVersion' = EffectOnVersion(a, pods[a].version)
         /\ UNCHANGED <<exists, deletionTimestamp, phase, nodes, version, hosts, config,
                        scaleUpHosts, secrets, faults>>
<1>1. pods \in [Action -> Pod] /\ pods[a] \in Pod
  BY DEF TypeOK
<1>2. pods[a].status \in {"Running", "Terminating"} /\ pods[a].nodes \in SUBSET Node
  BY <1>1, PodFields DEF WorkerProgresses, WorkerSucceeds, WorkerFails, Started, Stopping
<1>3. CASE WorkerProgresses(a)
  BY <1>2, <1>3 DEF WorkerProgresses, objVars, specVars, recordVars, bounds
<1>4. CASE WorkerSucceeds(a)
  <2>1. pods' = [pods EXCEPT ![a].status = "Succeeded"]
    BY <1>4 DEF WorkerSucceeds
  <2>2. /\ \A b \in Action \ {a} : pods'[b] = pods[b]
        /\ pods'[a].nodes = pods[a].nodes /\ pods'[a].version = pods[a].version
    BY <1>1, <2>1 DEF Pod
  <2>3. pods[a].nodes \in SUBSET pods[a].nodes
    BY <1>2
  <2> QED
    BY <1>2, <1>4, <2>2, <2>3 DEF WorkerSucceeds, objVars, specVars, recordVars, bounds
<1>5. CASE WorkerFails(a)
  <2>1. pods' = [pods EXCEPT ![a].status = "Failed"]
    BY <1>5 DEF WorkerFails
  <2>2. /\ \A b \in Action \ {a} : pods'[b] = pods[b]
        /\ pods'[a].nodes = pods[a].nodes /\ pods'[a].version = pods[a].version
        /\ pods'[a].status = "Failed"
    BY <1>1, <2>1 DEF Pod
  <2> QED
    BY <1>2, <1>5, <2>2 DEF WorkerFails, objVars, specVars, recordVars, vms
<1> QED
  BY <1>3, <1>4, <1>5

LEMMA WorkerQuiet ==
  ASSUME TypeOK, ResetInv, QuietInv, NEW a \in Action,
         WorkerProgresses(a) \/ WorkerSucceeds(a) \/ WorkerFails(a)
  PROVE  QuietInv'
<1> DEFINE Kept == UNCHANGED <<exists, deletionTimestamp, phase, nodes, version, hosts, config,
                               scaleUpHosts, secrets, faults>>
<1>1. /\ pods[a].status \in {"Running", "Terminating"}
      /\ pods[a] # NoPod
      /\ \A b \in Action \ {a} : pods'[b] = pods[b]
      /\ pods'[a].nodes = pods[a].nodes /\ pods'[a].version = pods[a].version
  BY WorkerStep, NoPodStatus
<1>2. vmNodes' = vmNodes \/ \E S \in SUBSET pods[a].nodes : vmNodes' = EffectOnNodes(a, S)
  BY WorkerStep
<1>3. vmVersion' \in {vmVersion, EffectOnVersion(a, pods[a].version)}
  BY WorkerStep
<1>4. pods'[a].status = "Succeeded" =>
        /\ vmNodes' = EffectOnNodes(a, pods[a].nodes)
        /\ vmVersion' = EffectOnVersion(a, pods[a].version)
  BY WorkerStep
<1>5. Kept
  BY WorkerStep
<1>6. Live' = Live
  BY <1>5 DEF Live
<1>7. CASE ~Live
  BY <1>5, <1>6, <1>7, DeletingQuiet DEF QuietInv
<1>8. CASE Live
  <2>1. a # "terminate" /\ {"init", "scale-up", "scale-down", "upgrade"} \subseteq Action
    BY <1>1, <1>8 DEF ResetInv, Live, Action
  <2>2. CASE phase = ""
    BY <1>1, <1>8, <2>2 DEF QuietInv, Blank
  <2>3. CASE phase \in {"Provisioning", "ProvisionFailed"}
    <3>1. Installing
      BY <1>8, <2>3 DEF QuietInv
    <3>2. a = "init"
      BY <1>1, <2>1, <3>1 DEF Installing, Action
    <3>3. /\ \A b \in {"scale-up", "scale-down", "upgrade"} : pods'[b] = NoPod
          /\ pods'["init"].nodes = hosts /\ pods'["init"].version = config
      BY <1>1, <2>1, <3>1, <3>2 DEF Installing
    <3>4. pods'["init"].status = "Succeeded" => vmNodes' = hosts /\ vmVersion' = config
      BY <1>1, <1>4, <3>1, <3>2 DEF Installing, EffectOnNodes, EffectOnVersion
    <3>5. Installing'
      BY <1>5, <3>1, <3>3, <3>4 DEF Installing
    <3>6. ~(hasProvisionClusterInfo(phase) \/ phase = "Unknown")
      BY <2>3 DEF hasProvisionClusterInfo
    <3> QED
      BY <1>5, <1>6, <1>8, <2>3, <3>5, <3>6 DEF QuietInv
  <2>4. CASE hasProvisionClusterInfo(phase) \/ phase = "Unknown"
    <3>1. Maintained
      BY <1>8, <2>4 DEF QuietInv
    <3>2. phase \notin {"", "Provisioning", "ProvisionFailed"}
      BY <2>4 DEF hasProvisionClusterInfo
    <3>3. a \in {"scale-up", "scale-down", "upgrade"} /\ pods'["init"] = pods["init"]
      BY <1>1, <2>1, <3>1 DEF Maintained, Action
    <3>4. CASE a = "scale-up"
      <4>1. Growing /\ ~(nodes \subseteq hosts) /\ Upgraded
        BY <1>1, <3>1, <3>4 DEF Maintained, Shrinking
      <4>2. /\ EffectOnVersion(a, pods[a].version) = vmVersion
            /\ \A S : EffectOnNodes(a, S) = vmNodes \cup S
            /\ pods[a].nodes = hosts \cup nodes
        BY <1>1, <3>4, <4>1 DEF EffectOnVersion, EffectOnNodes, Growing
      <4>3. vmVersion' = vmVersion /\ vmNodes \subseteq vmNodes' /\ vmNodes' \subseteq hosts \cup nodes
        BY <1>2, <1>3, <4>1, <4>2 DEF Growing
      <4>4. pods'[a].status = "Succeeded" => vmNodes' = hosts \cup nodes
        BY <1>4, <4>1, <4>2 DEF Growing
      <4>5. pods'["scale-down"] = NoPod /\ pods'["upgrade"] = NoPod /\ pods["upgrade"] = NoPod
        BY <1>1, <2>1, <3>4, <4>1 DEF Growing
      <4>6. Growing'
        BY <1>1, <1>5, <3>4, <4>1, <4>2, <4>3, <4>4, <4>5 DEF Growing
      <4>7. Upgraded'
        BY <1>5, <4>1, <4>3, <4>5, NoPodStatus DEF Upgraded, Due
      <4>8. Maintained'
        BY <1>5, <3>1, <3>3, <4>1, <4>6, <4>7 DEF Maintained
      <4> QED
        BY <1>5, <1>6, <1>8, <3>2, <4>8 DEF QuietInv
    <3>5. CASE a = "scale-down"
      <4>1. Shrinking /\ nodes \subseteq hosts /\ Upgraded
        BY <1>1, <3>1, <3>5 DEF Maintained, Growing
      <4>2. /\ EffectOnVersion(a, pods[a].version) = vmVersion
            /\ \A S : EffectOnNodes(a, S) = vmNodes \ S
            /\ pods[a].nodes = hosts \ nodes /\ hosts # nodes
        BY <1>1, <3>5, <4>1 DEF EffectOnVersion, EffectOnNodes, Shrinking
      <4>3. vmVersion' = vmVersion /\ vmNodes' \subseteq vmNodes /\ nodes \subseteq vmNodes'
        BY <1>2, <1>3, <4>1, <4>2 DEF Shrinking
      <4>4. pods'[a].status = "Succeeded" => vmNodes' = nodes
        BY <1>4, <4>1, <4>2 DEF Shrinking
      <4>5. pods'["scale-up"] = NoPod /\ pods'["upgrade"] = NoPod /\ pods["upgrade"] = NoPod
        BY <1>1, <2>1, <3>5, <4>1, <4>2 DEF Shrinking
      <4>6. Shrinking'
        BY <1>1, <1>5, <3>5, <4>1, <4>2, <4>3, <4>4, <4>5 DEF Shrinking
      <4>7. Upgraded'
        BY <1>5, <4>1, <4>3, <4>5, NoPodStatus DEF Upgraded, Due
      <4>8. Maintained'
        BY <1>5, <3>1, <3>3, <4>1, <4>6, <4>7 DEF Maintained
      <4> QED
        BY <1>5, <1>6, <1>8, <3>2, <4>8 DEF QuietInv
    <3>6. CASE a = "upgrade"
      <4>1. Upgraded /\ Due /\ hosts = nodes /\ Shrinking /\ pods[a].version = version
        BY <1>1, <3>1, <3>6 DEF Maintained, Upgraded
      <4>2. EffectOnVersion(a, pods[a].version) = version /\ \A S : EffectOnNodes(a, S) = vmNodes
        BY <3>6, <4>1 DEF EffectOnVersion, EffectOnNodes
      <4>3. vmNodes' = vmNodes
        BY <1>2, <4>2
      <4>4. pods'["scale-up"] = NoPod /\ pods'["scale-down"] = NoPod
        BY <1>1, <2>1, <3>6, <4>1 DEF Shrinking
      <4>5. Shrinking'
        BY <1>5, <4>1, <4>3, <4>4, NoPodStatus DEF Shrinking
      <4>6. vmVersion' \in {config, version} /\ (pods'[a].status = "Succeeded" => vmVersion' = version)
        BY <1>3, <1>4, <4>1, <4>2 DEF Upgraded
      <4>7. Upgraded'
        BY <1>1, <1>5, <3>6, <4>1, <4>6 DEF Upgraded, Due
      <4>8. Maintained'
        BY <1>5, <3>1, <3>3, <4>1, <4>5, <4>7 DEF Maintained
      <4> QED
        BY <1>5, <1>6, <1>8, <3>2, <4>8 DEF QuietInv
    <3> QED
      BY <3>3, <3>4, <3>5, <3>6
  <2> QED
    BY <1>8, <2>2, <2>3, <2>4 DEF TypeOK, Phase, QuietInv, hasProvisionClusterInfo
<1> QED
  BY <1>7, <1>8

-----------------------------------------------------------------------------
(* The steps of users and of Cluster API. *)

\* A worker that failed, or was deleted while it ran, is removed.
LEMMA PodRemoved ==
  ASSUME TypeOK, QuietInv, NEW a \in Action,
         pods[a].status \in {"Failed", "Terminating"},
         pods'[a] = NoPod,
         \A b \in Action \ {a} : pods'[b] = pods[b],
         UNCHANGED <<exists, deletionTimestamp, phase, nodes, version, hosts, config, scaleUpHosts,
                     secrets, vmNodes, vmVersion, faults>>
  PROVE  QuietInv'
<1>1. /\ pods[a] # NoPod
      /\ \A b \in Action : pods'[b] = pods[b] \/ pods'[b] = NoPod
      /\ \A b \in Action : pods[b].status = "Succeeded" => pods'[b] = pods[b]
      /\ {"init", "scale-up", "scale-down", "upgrade", "terminate"} \subseteq Action
  BY NoPodStatus DEF Action
<1>2. /\ \A b \in Action : pods'[b] # NoPod => pods'[b] = pods[b]
      /\ \A b \in Action : pods[b] = NoPod => pods'[b] = NoPod
      /\ \A b \in Action : pods'[b].status = "Succeeded" => pods[b].status = "Succeeded"
  <2>1. NoPod.status # "Succeeded"
    BY NoPodStatus
  <2> QED
    BY <1>1, <2>1
<1>3. /\ Live' = Live /\ (Blank => Blank') /\ (Installing => Installing')
      /\ (Growing => Growing') /\ (Shrinking => Shrinking') /\ (Upgraded => Upgraded')
  <2>1. Live' = Live
    BY DEF Live
  <2>2. Blank => Blank'
    BY <1>2 DEF Blank
  <2>3. Installing => Installing'
    BY <1>1, <1>2 DEF Installing
  <2>4. Growing => Growing'
    BY <1>1, <1>2 DEF Growing
  <2>5. Shrinking => Shrinking'
    BY <1>1, <1>2 DEF Shrinking
  <2>6. Upgraded => Upgraded'
    BY <1>1, <1>2 DEF Upgraded, Due
  <2> QED
    BY <2>1, <2>2, <2>3, <2>4, <2>5, <2>6
<1>4. Maintained => Maintained'
  BY <1>1, <1>3 DEF Maintained
<1> QED
  BY <1>3, <1>4 DEF QuietInv

\* Users who wait edit only what is at rest.
LEMMA UserQuiet ==
  ASSUME TypeOK, QuietInv, "edit" \notin Hasty, User
  PROVE  QuietInv'
<1>1. AtRest /\ Live =>
        /\ Maintained /\ Shrinking /\ Upgraded /\ ~Due
        /\ hosts = nodes /\ vmNodes = nodes /\ vmVersion = config
        /\ \A a \in {"scale-up", "scale-down", "upgrade"} : pods[a] = NoPod
        /\ scaleUpHosts = Absent
        /\ phase = "Provisioned"
  <2> SUFFICES ASSUME AtRest, Live
               PROVE  /\ Maintained /\ Shrinking /\ Upgraded /\ ~Due
                      /\ hosts = nodes /\ vmNodes = nodes /\ vmVersion = config
                      /\ \A a \in {"scale-up", "scale-down", "upgrade"} : pods[a] = NoPod
                      /\ scaleUpHosts = Absent
                      /\ phase = "Provisioned"
    OBVIOUS
  <2>1. Maintained /\ hosts = nodes /\ ~Due /\ phase = "Provisioned"
    BY DEF QuietInv, AtRest, hasProvisionClusterInfo, Due
  <2>2. Shrinking /\ Upgraded
    BY <2>1 DEF Maintained
  <2> QED
    BY <2>1, <2>2 DEF Shrinking, Upgraded
<1>2. CASE EditNodes
  <2>1. /\ AtRest /\ nodes' \in SUBSET Node
        /\ UNCHANGED <<exists, deletionTimestamp, phase, version, hosts, config, scaleUpHosts, pods,
                       secrets, vmNodes, vmVersion, faults>>
    BY <1>2 DEF EditNodes, MayDisturb, objVars, recordVars, vms
  <2>2. CASE Live
    <3>1. Upgraded'
      BY <1>1, <2>1, <2>2, NoPodStatus DEF Upgraded, Due
    <3>2. Growing' \/ nodes' \subseteq hosts'
      BY <1>1, <2>1, <2>2, NoPodStatus DEF Growing
    <3>3. nodes' \subseteq hosts' => Shrinking'
      BY <1>1, <2>1, <2>2, NoPodStatus DEF Shrinking
    <3>4. Maintained'
      BY <1>1, <2>1, <2>2, <3>1, <3>2, <3>3 DEF Maintained
    <3> QED
      BY <1>1, <2>1, <2>2, <3>4 DEF QuietInv, Live
  <2>3. CASE ~Live
    BY <2>1, <2>3 DEF QuietInv, Live
  <2> QED
    BY <2>2, <2>3
<1>3. CASE EditVersion
  <2>1. /\ AtRest
        /\ UNCHANGED <<exists, deletionTimestamp, phase, nodes, hosts, config, scaleUpHosts, pods,
                       secrets, vmNodes, vmVersion, faults>>
    BY <1>3 DEF EditVersion, MayDisturb, objVars, recordVars, vms
  <2>2. CASE Live
    <3>1. Upgraded'
      BY <1>1, <2>1, <2>2, NoPodStatus DEF Upgraded
    <3>2. Shrinking' /\ nodes' \subseteq hosts'
      BY <1>1, <2>1, <2>2 DEF Shrinking
    <3>3. Maintained'
      BY <1>1, <2>1, <2>2, <3>1, <3>2 DEF Maintained
    <3> QED
      BY <1>1, <2>1, <2>2, <3>3 DEF QuietInv, Live
  <2>3. CASE ~Live
    BY <2>1, <2>3 DEF QuietInv, Live
  <2> QED
    BY <2>2, <2>3
<1>4. CASE DeleteCluster \/ DeleteMachine
  <2>1. ~Live' /\ faults' = faults
    BY <1>4 DEF DeleteCluster, DeleteMachine, Live, bounds
  <2> QED
    BY <2>1, DeletingQuiet DEF QuietInv
<1>6. ASSUME NEW a \in Action, DeleteFailedWorker(a)
      PROVE  QuietInv'
  <2>1. /\ pods[a].status = "Failed"
        /\ pods' = ensureWorkerPodDeleted(pods, a) /\ pods \in [Action -> Pod]
        /\ UNCHANGED <<exists, deletionTimestamp, phase, nodes, version, hosts, config, scaleUpHosts,
                       secrets, vmNodes, vmVersion, faults>>
    BY <1>6 DEF DeleteFailedWorker, objVars, specVars, recordVars, vms, bounds, TypeOK
  <2>2. pods'[a] = NoPod /\ \A b \in Action \ {a} : pods'[b] = pods[b]
    BY <1>6, <2>1, WorkerDeleted
  <2> QED
    BY <1>6, <2>1, <2>2, PodRemoved
<1> QED
  BY <1>2, <1>3, <1>4, <1>6 DEF User

LEMMA ClusterAPIQuiet ==
  ASSUME QuietInv, ClusterAPI
  PROVE  QuietInv'
<1>1. CASE DeleteControlPlane \/ DeleteInfrastructure \/ ClusterGone
  <2>1. ~Live' /\ faults' = faults
    BY <1>1 DEF DeleteControlPlane, DeleteInfrastructure, ClusterGone, Live, bounds
  <2> QED
    BY <2>1, DeletingQuiet DEF QuietInv
<1>2. CASE ControlPlaneGone
  <2>1. /\ "cluster" \in exists' <=> "cluster" \in exists
        /\ UNCHANGED <<deletionTimestamp, phase, nodes, version, hosts, config, scaleUpHosts, pods,
                       secrets, vmNodes, vmVersion, faults>>
    BY <1>2 DEF ControlPlaneGone, specVars, recordVars, vms, bounds
  <2>2. Live' = Live /\ Blank' = Blank /\ Installing' = Installing /\ Maintained' = Maintained
    BY <2>1 DEF Live, Blank, Installing, Maintained, Growing, Shrinking, Upgraded, Due
  <2> QED
    BY <2>1, <2>2 DEF QuietInv
<1> QED
  BY <1>1, <1>2 DEF ClusterAPI
-----------------------------------------------------------------------------
(* The theorem. *)

\* Users wait for what an edit asked for, and no call of Reconcile is cut short.
Quiet == "edit" \notin Hasty /\ MaxFaults = 0

LEMMA QuietInvariant ==
  ASSUME Quiet
  PROVE  Spec => []QuietInv
<1>1. Init => QuietInv
  <2> SUFFICES ASSUME Init PROVE QuietInv
    OBVIOUS
  <2>1. /\ Live /\ "cluster" \in exists /\ phase = "" /\ faults = 0
    BY DEF Init, Quiet, Live, Obj
  <2>2. Blank
    BY DEF Init, Blank
  <2> QED
    BY <2>1, <2>2 DEF QuietInv, hasProvisionClusterInfo
<1>2. TypeOK /\ ResetInv /\ QuietInv /\ [Next]_vars => QuietInv'
  <2> SUFFICES ASSUME TypeOK, ResetInv, QuietInv, [Next]_vars PROVE QuietInv'
    OBVIOUS
  <2>1. CASE Reconcile
    <3>1. CASE reconcileNothing \/ reconcileMissing
      BY <3>1, IdleQuiet DEF reconcileNothing, reconcileMissing, objVars, specVars, recordVars, vms, bounds
    <3> QED
      BY <2>1, <3>1, ProvisionQuiet, ScaleUpQuiet, ScaleDownQuiet, UpgradeQuiet, DeleteQuiet DEF Reconcile, Outcomes
  <2>2. CASE Worker
    <3>1. ASSUME NEW a \in Action, WorkerStopped(a)
          PROVE  QuietInv'
      <4>1. /\ pods[a].status = "Terminating"
            /\ pods' = [pods EXCEPT ![a] = NoPod] /\ pods \in [Action -> Pod]
            /\ UNCHANGED <<exists, deletionTimestamp, phase, nodes, version, hosts, config, scaleUpHosts,
                           secrets, vmNodes, vmVersion, faults>>
        BY <3>1 DEF WorkerStopped, objVars, specVars, recordVars, vms, bounds, TypeOK
      <4> QED
        BY <3>1, <4>1, PodRemoved
    <3> QED
      BY <2>2, <3>1, WorkerQuiet DEF Worker
  <2>3. CASE User
    BY <2>3, UserQuiet DEF Quiet
  <2>4. CASE ClusterAPI
    BY <2>4, ClusterAPIQuiet
  <2>5. CASE UNCHANGED vars
    BY <2>5, IdleQuiet DEF vars
  <2> QED
    BY <2>1, <2>2, <2>3, <2>4, <2>5 DEF Next
<1> QED
  BY <1>1, <1>2, TypeCorrect, ResetInvariant, PTL DEF Spec

\* With any number of machines, versions, edits and failing workers: if users
\* wait and no call is cut short, then whenever all is at rest cluster-hosts
\* and cluster-config say what is installed.
THEOREM RecordsAreRight ==
  ASSUME Quiet
  PROVE  Spec => []RecordMatchesMachines
<1>1. QuietInv => RecordMatchesMachines
  <2> SUFFICES ASSUME QuietInv, AtRest, "cluster" \notin deletionTimestamp
               PROVE  vmNodes = hosts /\ vmVersion = config
    BY DEF RecordMatchesMachines
  <2>1. Maintained /\ hosts = nodes /\ ~Due
    BY DEF QuietInv, AtRest, hasProvisionClusterInfo, Due, Live
  <2>2. Shrinking /\ Upgraded
    BY <2>1 DEF Maintained
  <2> QED
    BY <2>1, <2>2 DEF Shrinking, Upgraded
<1> QED
  BY <1>1, QuietInvariant, PTL

-----------------------------------------------------------------------------
(***************************************************************************)
(* Scaling takes turns, wherever calls are cut short and whenever the       *)
(* Cluster is deleted, as long as the nodes are not edited while a scaling  *)
(* worker runs.                                                             *)
(***************************************************************************)

Scaling == {"scale-up", "scale-down"}

\* customMachine.Spec.Nodes is left alone while a scaling worker runs.
EditsWait == (\E a \in Scaling : pods[a].status = "Running") => nodes' = nodes

\* A scale-up worker runs while nodes are missing in cluster-hosts, a scale-down
\* worker while none is: what starts the one keeps the other from being started.
TurnInv ==
  /\ pods["scale-up"].status = "Running" => hosts # Absent /\ ~(nodes \subseteq hosts)
  /\ pods["scale-down"].status = "Running" => hosts # Absent /\ nodes \subseteq hosts

\* A step that starts no scaling worker, and changes neither the record nor the
\* spec under one.
LEMMA TurnKept ==
  ASSUME TurnInv,
         \A a \in Scaling : pods'[a].status = "Running" =>
           pods[a].status = "Running" /\ hosts' = hosts /\ nodes' = nodes
  PROVE  TurnInv'
  BY DEF TurnInv, Scaling

LEMMA ReconcileTurn ==
  ASSUME TypeOK, TurnInv, NEW w \in Outcome,
         \/ reconcileProvision(w) \/ reconcileScaleUp(w) \/ reconcileScaleDown(w)
         \/ reconcileUpgrade(w) \/ reconcileDelete(w)
  PROVE  TurnInv'
<1>1. w.done \in 0..9 /\ pods \in [Action -> Pod] /\ Scaling \subseteq Action
  BY OutcomeType DEF TypeOK, Scaling, Action
<1>2. CASE reconcileProvision(w)
  <2>1. \A a \in Scaling : pods'[a] = pods[a]
    BY <1>1, <1>2 DEF reconcileProvision, ensureWorkerPodCreated, Scaling, Action
  <2>2. nodes' = nodes /\ (hosts # Absent => hosts' = hosts)
    BY <1>2 DEF reconcileProvision, specVars
  <2> QED
    BY <2>1, <2>2, TurnKept DEF TurnInv, Scaling
<1>3. CASE reconcileScaleUp(w)
  <2>1. nodes' = nodes /\ hosts # Absent /\ ~(nodes \subseteq hosts)
    BY <1>3 DEF reconcileScaleUp, Provisioned, findScaleUpWorkerNodes, specVars
  <2>2. pods["scale-down"].status # "Running" /\ pods'["scale-down"] = pods["scale-down"]
    BY <1>1, <1>3, <2>1 DEF TurnInv, reconcileScaleUp, ensureWorkerPodCreated, ensureWorkerPodDeleted, Action
  <2>3. CASE pods["scale-up"].status = "Succeeded"
    <3>1. pods'["scale-up"].status # "Running"
      BY <1>1, <1>3, <2>3, NoPodStatus
      DEF reconcileScaleUp, ensureWorkerPodCreated, ensureWorkerPodDeleted, Deleted, Action
    <3> QED
      BY <2>2, <3>1 DEF TurnInv
  <2>4. CASE pods["scale-up"].status # "Succeeded"
    <3>1. w.done <= 2
      BY <1>3, <2>4 DEF reconcileScaleUp
    <3>2. hosts' = hosts
      BY <1>1, <1>3, <3>1 DEF reconcileScaleUp
    <3> QED
      BY <2>1, <2>2, <3>2 DEF TurnInv
  <2> QED
    BY <2>3, <2>4
<1>4. CASE reconcileScaleDown(w)
  <2>1. nodes' = nodes /\ hosts # Absent /\ nodes \subseteq hosts
    BY <1>4 DEF reconcileScaleDown, Provisioned, findScaleUpWorkerNodes, specVars
  <2>2. pods["scale-up"].status # "Running" /\ pods'["scale-up"] = pods["scale-up"]
    BY <1>1, <1>4, <2>1 DEF TurnInv, reconcileScaleDown, ensureWorkerPodCreated, ensureWorkerPodDeleted, Action
  <2>3. CASE pods["scale-down"].status = "Succeeded"
    <3>1. pods'["scale-down"].status # "Running"
      BY <1>1, <1>4, <2>3, NoPodStatus
      DEF reconcileScaleDown, ensureWorkerPodCreated, ensureWorkerPodDeleted, Deleted, Action
    <3> QED
      BY <2>2, <3>1 DEF TurnInv
  <2>4. CASE pods["scale-down"].status # "Succeeded"
    <3>1. w.done <= 1
      BY <1>4, <2>4 DEF reconcileScaleDown
    <3>2. hosts' = hosts
      BY <1>1, <1>4, <3>1 DEF reconcileScaleDown
    <3> QED
      BY <2>1, <2>2, <3>2 DEF TurnInv
  <2> QED
    BY <2>3, <2>4
<1>5. CASE reconcileUpgrade(w)
  <2>1. \A a \in Scaling : pods'[a] = pods[a]
    BY <1>1, <1>5 DEF reconcileUpgrade, ensureWorkerPodCreated, ensureWorkerPodDeleted, Scaling, Action
  <2>2. nodes' = nodes /\ hosts' = hosts
    BY <1>5 DEF reconcileUpgrade, specVars
  <2> QED
    BY <2>1, <2>2, TurnKept
<1>6. CASE reconcileDelete(w)
  <2> DEFINE left == deleteWorkerPods(pods, w.done)
  <2>1. /\ nodes' = nodes
        /\ hosts' = IF w.done >= 5 THEN Absent ELSE hosts
        /\ pods' = IF w.done >= 4 THEN ensureWorkerPodCreated(left, "terminate", hosts, config, version) ELSE left
    BY <1>6 DEF reconcileDelete, specVars
  <2>2. /\ left \in [Action -> Pod]
        /\ \A a \in Scaling : left[a] = pods[a] \/ left[a].status \in {"None", "Terminating"}
        /\ w.done >= 3 => \A a \in Scaling : left[a].status \in {"None", "Terminating"}
    <3>1. \A a \in Action : Deleted(pods[a]).status \in {"None", "Terminating"}
      BY <1>1, DeletedPod
    <3> QED
      BY <1>1, <3>1, WorkersDeleted DEF deleteWorkerPods, Scaling, Action
  <2>3. \A a \in Scaling : pods'[a] = left[a]
    <3> HIDE DEF left
    <3> QED
      BY <1>1, <2>1, <2>2 DEF ensureWorkerPodCreated, Scaling, Action
  <2>4. \A a \in Scaling : pods'[a].status = "Running" => pods[a].status = "Running" /\ hosts' = hosts
    <3> HIDE DEF left
    <3> QED
      BY <1>1, <2>1, <2>2, <2>3
  <2> QED
    BY <2>1, <2>4, TurnKept
<1> QED
  BY <1>2, <1>3, <1>4, <1>5, <1>6

LEMMA EnvironmentTurn ==
  ASSUME TypeOK, TurnInv, [EditsWait]_vars, Worker \/ User \/ ClusterAPI
  PROVE  TurnInv'
<1>1. pods \in [Action -> Pod] /\ Scaling \subseteq Action
  BY DEF TypeOK, Scaling, Action
<1>2. ASSUME UNCHANGED <<pods, hosts, nodes>>
      PROVE  TurnInv'
  BY <1>2 DEF TurnInv
<1>3. CASE Worker
  <2>1. PICK a \in Action : WorkerProgresses(a) \/ WorkerSucceeds(a) \/ WorkerFails(a) \/ WorkerStopped(a)
    BY <1>3 DEF Worker
  <2>2. hosts' = hosts /\ nodes' = nodes
    BY <2>1 DEF WorkerProgresses, WorkerSucceeds, WorkerFails, WorkerStopped, recordVars, specVars
  <2>3. \A b \in Scaling : pods'[b].status = "Running" => pods[b].status = "Running"
    <3>1. CASE WorkerProgresses(a)
      BY <3>1 DEF WorkerProgresses
    <3>2. CASE WorkerSucceeds(a) \/ WorkerFails(a)
      BY <1>1, <3>2 DEF WorkerSucceeds, WorkerFails, Pod
    <3>3. CASE WorkerStopped(a)
      BY <1>1, <3>3, NoPodStatus DEF WorkerStopped
    <3> QED
      BY <2>1, <3>1, <3>2, <3>3
  <2> QED
    BY <2>2, <2>3, TurnKept
<1>4. CASE User
  <2>1. CASE EditNodes
    <3>1. hosts' = hosts /\ pods' = pods
      BY <2>1 DEF EditNodes, recordVars
    <3>2. EditsWait
      BY <2>1, <3>1 DEF EditsWait, vars
    <3> QED
      BY <3>1, <3>2, TurnKept DEF EditsWait
  <2>2. CASE EditVersion \/ DeleteCluster \/ DeleteMachine
    BY <1>2, <2>2 DEF EditVersion, DeleteCluster, DeleteMachine, recordVars, specVars
  <2>3. ASSUME NEW a \in Action, DeleteFailedWorker(a)
        PROVE  TurnInv'
    <3>1. hosts' = hosts /\ nodes' = nodes /\ pods' = ensureWorkerPodDeleted(pods, a)
      BY <2>3 DEF DeleteFailedWorker, recordVars, specVars
    <3>2. \A b \in Scaling : pods'[b].status = "Running" => pods[b].status = "Running"
      BY <1>1, <3>1, DeletedPod DEF ensureWorkerPodDeleted
    <3> QED
      BY <3>1, <3>2, TurnKept
  <2> QED
    BY <1>4, <2>1, <2>2, <2>3 DEF User
<1>5. CASE ClusterAPI
  <2>1. CASE DeleteControlPlane \/ ControlPlaneGone \/ DeleteInfrastructure
    BY <1>2, <2>1 DEF DeleteControlPlane, ControlPlaneGone, DeleteInfrastructure, recordVars, specVars
  <2>2. CASE ClusterGone
    <3>1. \A a \in Scaling : pods'[a].status # "Running"
      BY <1>1, <2>2, DeletedPod DEF ClusterGone
    <3> QED
      BY <3>1, TurnKept
  <2> QED
    BY <1>5, <2>1, <2>2 DEF ClusterAPI
<1> QED
  BY <1>3, <1>4, <1>5

\* For any machines, versions and bounds, with calls of Reconcile cut short,
\* workers that fail and deletions at any moment: the scale-up and the scale-down
\* worker never run together unless the nodes were edited under one of them.
THEOREM ScalingTakesTurns == Spec /\ [][EditsWait]_vars => []ScaleInTurn
<1>1. Init => TurnInv
  BY NoPodStatus DEF Init, TurnInv, Action
<1>2. TypeOK /\ TurnInv /\ [Next]_vars /\ [EditsWait]_vars => TurnInv'
  <2> SUFFICES ASSUME TypeOK, TurnInv, [Next]_vars, [EditsWait]_vars PROVE TurnInv'
    OBVIOUS
  <2>1. CASE Reconcile
    <3>1. CASE reconcileNothing \/ reconcileMissing
      BY <3>1 DEF reconcileNothing, reconcileMissing, recordVars, specVars, TurnInv
    <3> QED
      BY <2>1, <3>1, ReconcileTurn DEF Reconcile, Outcomes
  <2>2. CASE UNCHANGED vars
    BY <2>2 DEF vars, TurnInv
  <2> QED
    BY <2>1, <2>2, EnvironmentTurn DEF Next
<1>3. TurnInv => ScaleInTurn
  BY DEF TurnInv, ScaleInTurn
<1> QED
  BY <1>1, <1>2, <1>3, TypeCorrect, PTL DEF Spec
-----------------------------------------------------------------------------
(***************************************************************************)
(* A deletion that finds the machines recorded leaves nothing behind,       *)
(* wherever its calls are cut short, whichever workers fail and whatever is *)
(* edited meanwhile.                                                        *)
(***************************************************************************)

\* The terminate worker is the only one at work, and it undoes all there is.
Resetting ==
  /\ "cluster" \in deletionTimestamp
  /\ secrets > 0
  /\ \A a \in Action \ {"terminate"} : pods[a].status \notin {"Running", "Terminating"}
  /\ "cluster" \notin exists \/ pods["terminate"].status = "Succeeded" =>
       vmNodes = {} /\ vmVersion = Absent
  /\ "cluster" \in exists /\ pods["terminate"].status # "Succeeded" =>
       /\ hosts \in SUBSET Node
       /\ vmNodes \subseteq hosts
       /\ pods["terminate"] # NoPod => pods["terminate"].nodes = hosts

\* cluster-hosts stays until the terminate worker has succeeded, so that one
\* that is created again, after it failed, has the same inventory.
LEMMA DeleteResets ==
  ASSUME TypeOK, Resetting, NEW w \in Outcome, reconcileDelete(w)
  PROVE  Resetting'
<1> DEFINE status == pods["terminate"].status
           left == deleteWorkerPods(pods, w.done)
<1>1. /\ "cluster" \in exists /\ "cluster" \in exists'
      /\ UNCHANGED <<deletionTimestamp, vmNodes, vmVersion, secrets>>
  BY DEF reconcileDelete, Obj, vms
<1>2. w.done \in 0..9 /\ (status # "Succeeded" => w.done <= 4)
  BY OutcomeType DEF reconcileDelete
<1>3. /\ left \in [Action -> Pod] /\ left["terminate"] = pods["terminate"]
      /\ \A b \in Action \ {"terminate"} : left[b] \in {pods[b], NoPod}
      /\ "terminate" \in Action
  <2>1. pods \in [Action -> Pod]
    BY DEF TypeOK
  <2>2. \A b \in Action \ {"terminate"} : Deleted(pods[b]) = NoPod
    BY <2>1, DeletedPod DEF Resetting
  <2> QED
    BY <1>2, <2>1, <2>2, WorkersDeleted DEF Action
<1>4. /\ hosts' = IF w.done >= 5 THEN Absent ELSE hosts
      /\ pods' = IF w.done >= 4 THEN ensureWorkerPodCreated(left, "terminate", hosts, config, version) ELSE left
  BY DEF reconcileDelete
<1>5. /\ \A b \in Action \ {"terminate"} : pods'[b] = left[b]
      /\ left["terminate"] # NoPod => pods'["terminate"] = left["terminate"]
      /\ left["terminate"] = NoPod =>
           \/ pods'["terminate"] = NoPod
           \/ pods'["terminate"].status = "Running" /\ pods'["terminate"].nodes = hosts
  <2> HIDE DEF left, status
  <2>1. CASE w.done >= 4
    <3>1. There(pods', left, "terminate", hosts, config)
      BY <1>3, <1>4, <2>1, WorkerThere
    <3> QED
      BY <3>1 DEF There
  <2>2. CASE ~(w.done >= 4)
    BY <1>4, <2>2
  <2> QED
    BY <2>1, <2>2
<1> HIDE DEF left
<1>6. \A a \in Action \ {"terminate"} : pods'[a].status \notin {"Running", "Terminating"}
  BY <1>3, <1>5, NoPodStatus DEF Resetting
<1>7. CASE status = "Succeeded"
  <2>1. pods'["terminate"].status = "Succeeded"
    BY <1>3, <1>5, <1>7, NoPodStatus
  <2> QED
    BY <1>1, <1>6, <1>7, <2>1 DEF Resetting
<1>8. CASE status # "Succeeded"
  <2>1. hosts' = hosts
    BY <1>2, <1>4, <1>8
  <2>2. hosts \in SUBSET Node /\ vmNodes \subseteq hosts
    BY <1>1, <1>8 DEF Resetting
  <2>3. /\ pods'["terminate"] # NoPod => pods'["terminate"].nodes = hosts
        /\ pods'["terminate"].status # "Succeeded"
    <3>1. CASE pods["terminate"] = NoPod
      BY <1>3, <1>5, <3>1, NoPodStatus
    <3>2. CASE pods["terminate"] # NoPod
      BY <1>1, <1>3, <1>5, <1>8, <3>2 DEF Resetting
    <3> QED
      BY <3>1, <3>2
  <2> QED
    BY <1>1, <1>6, <2>1, <2>2, <2>3 DEF Resetting
<1> QED
  BY <1>7, <1>8

LEMMA WorkerResets ==
  ASSUME TypeOK, Resetting, NEW a \in Action,
         WorkerProgresses(a) \/ WorkerSucceeds(a) \/ WorkerFails(a)
  PROVE  Resetting'
<1>1. /\ pods[a].status \in {"Running", "Terminating"} /\ pods[a] # NoPod
      /\ \A b \in Action \ {a} : pods'[b] = pods[b]
      /\ pods'[a].nodes = pods[a].nodes
      /\ UNCHANGED <<exists, deletionTimestamp, hosts, secrets>>
  BY WorkerStep, NoPodStatus
<1>2. a = "terminate" /\ pods["terminate"].status # "Succeeded"
  BY <1>1 DEF Resetting
<1>3. \A b \in Action \ {"terminate"} : pods'[b].status \notin {"Running", "Terminating"}
  BY <1>1, <1>2 DEF Resetting
<1>4. EffectOnVersion(a, pods[a].version) = Absent /\ \A S : EffectOnNodes(a, S) = vmNodes \ S
  BY <1>2 DEF EffectOnVersion, EffectOnNodes
<1>5. vmNodes' \subseteq vmNodes
  <2>1. vmNodes' = vmNodes \/ \E S \in SUBSET pods[a].nodes : vmNodes' = EffectOnNodes(a, S)
    BY WorkerStep
  <2>2. CASE \E S \in SUBSET pods[a].nodes : vmNodes' = EffectOnNodes(a, S)
    <3>1. PICK S : vmNodes' = EffectOnNodes(a, S)
      BY <2>2
    <3>2. vmNodes' = vmNodes \ S
      BY <1>4, <3>1
    <3> QED
      BY <3>2
  <2> QED
    BY <2>1, <2>2
<1>6. vmVersion' \in {vmVersion, Absent}
  BY <1>4, WorkerStep
<1>7. CASE "cluster" \notin exists
  BY <1>1, <1>3, <1>5, <1>6, <1>7 DEF Resetting
<1>8. CASE "cluster" \in exists
  <2>1. hosts \in SUBSET Node /\ vmNodes \subseteq hosts /\ pods[a].nodes = hosts
    BY <1>1, <1>2, <1>8 DEF Resetting
  <2>2. pods'[a].status = "Succeeded" => vmNodes' = vmNodes \ hosts /\ vmVersion' = Absent
    BY <1>4, <2>1, WorkerStep
  <2> QED
    BY <1>1, <1>2, <1>3, <1>5, <1>8, <2>1, <2>2 DEF Resetting
<1> QED
  BY <1>7, <1>8

\* A worker that failed, or was deleted while it ran, is removed.
LEMMA RemovalResets ==
  ASSUME Resetting, NEW a \in Action,
         pods[a].status \in {"Failed", "Terminating"},
         pods'[a] = NoPod,
         \A b \in Action \ {a} : pods'[b] = pods[b],
         UNCHANGED <<exists, deletionTimestamp, hosts, secrets, vmNodes, vmVersion>>
  PROVE  Resetting'
  BY NoPodStatus DEF Resetting, Action

LEMMA UserResets ==
  ASSUME TypeOK, Resetting, User
  PROVE  Resetting'
<1>1. CASE EditNodes \/ EditVersion
  BY <1>1 DEF EditNodes, EditVersion, objVars, recordVars, vms, Resetting
<1>2. CASE DeleteCluster
  BY <1>2 DEF DeleteCluster, Resetting
<1>3. CASE DeleteMachine
  <2>1. /\ "cluster" \in deletionTimestamp' /\ ("cluster" \in exists' <=> "cluster" \in exists)
        /\ UNCHANGED <<hosts, pods, secrets, vmNodes, vmVersion>>
    BY <1>3 DEF DeleteMachine, recordVars, vms
  <2> QED
    BY <2>1 DEF Resetting
<1>4. ASSUME NEW a \in Action, DeleteFailedWorker(a)
      PROVE  Resetting'
  <2>1. /\ pods[a].status = "Failed"
        /\ pods' = ensureWorkerPodDeleted(pods, a) /\ pods \in [Action -> Pod]
        /\ UNCHANGED <<exists, deletionTimestamp, hosts, secrets, vmNodes, vmVersion>>
    BY <1>4 DEF DeleteFailedWorker, objVars, recordVars, vms, TypeOK
  <2>2. pods'[a] = NoPod /\ \A b \in Action \ {a} : pods'[b] = pods[b]
    BY <1>4, <2>1, WorkerDeleted
  <2> QED
    BY <1>4, <2>1, <2>2, RemovalResets
<1> QED
  BY <1>1, <1>2, <1>3, <1>4 DEF User

LEMMA ClusterAPIResets ==
  ASSUME TypeOK, ResetInv, Resetting, ClusterAPI
  PROVE  Resetting'
<1>1. CASE DeleteControlPlane \/ ControlPlaneGone \/ DeleteInfrastructure
  <2>1. /\ "cluster" \in deletionTimestamp' /\ ("cluster" \in exists' <=> "cluster" \in exists)
        /\ UNCHANGED <<hosts, pods, secrets, vmNodes, vmVersion>>
    BY <1>1 DEF DeleteControlPlane, ControlPlaneGone, DeleteInfrastructure, recordVars, vms, Resetting
  <2> QED
    BY <2>1 DEF Resetting
<1>2. CASE ClusterGone
  <2>1. /\ "cluster" \in exists /\ "cluster" \notin exists' /\ "kcp" \notin exists
        /\ \A a \in Action : pods'[a] = Deleted(pods[a])
        /\ UNCHANGED <<deletionTimestamp, secrets, vmNodes, vmVersion>>
    BY <1>2 DEF ClusterGone, vms
  <2>2. pods["terminate"].status = "Succeeded"
    BY <2>1 DEF ResetInv, Resetting
  <2>3. vmNodes = {} /\ vmVersion = Absent
    BY <2>2 DEF Resetting
  <2>4. \A a \in Action \ {"terminate"} : pods'[a] = NoPod
    BY <2>1, DeletedPod DEF Resetting, TypeOK
  <2> QED
    BY <2>1, <2>3, <2>4, NoPodStatus DEF Resetting
<1> QED
  BY <1>1, <1>2 DEF ClusterAPI

\* For any machines, versions and bounds, whoever edits what and wherever calls
\* are cut short: a Cluster that is deleted when cluster-hosts holds all its
\* machines, and no worker is on them, leaves nothing installed when it is gone.
THEOREM NothingLeftBehind == Spec => CleanedUp
<1> DEFINE Clean == "cluster" \notin exists => vmNodes = {} /\ vmVersion = Absent
<1>1. TypeOK /\ Recorded => Resetting
  BY NoPodStatus DEF Recorded, Resetting, TypeOK
<1>2. TypeOK /\ ResetInv /\ Resetting /\ [Next]_vars => Resetting'
  <2> SUFFICES ASSUME TypeOK, ResetInv, Resetting, [Next]_vars PROVE Resetting'
    OBVIOUS
  <2>1. CASE Reconcile
    <3>1. CASE reconcileNothing \/ reconcileMissing
      BY <3>1 DEF reconcileNothing, reconcileMissing, objVars, recordVars, vms, Resetting
    <3>2. ~Normal
      BY DEF Normal, Resetting
    <3>3. PICK w \in Outcome : reconcileDelete(w) \/ reconcileNothing \/ reconcileMissing
      <4>1. 0 \in 0..9 /\ [done |-> 0, meta |-> TRUE, status |-> TRUE] \in Outcome
        BY DEF Outcome
      <4> QED
        BY <2>1, <3>2, <4>1
        DEF Reconcile, Outcomes, reconcileProvision, reconcileScaleUp, reconcileScaleDown, reconcileUpgrade, Provisioned
    <3> QED
      BY <3>1, <3>3, DeleteResets
  <2>2. CASE Worker
    <3>1. ASSUME NEW a \in Action, WorkerStopped(a)
          PROVE  Resetting'
      <4>1. /\ pods[a].status = "Terminating" /\ pods'[a] = NoPod
            /\ \A b \in Action \ {a} : pods'[b] = pods[b]
            /\ UNCHANGED <<exists, deletionTimestamp, hosts, secrets, vmNodes, vmVersion>>
        BY <3>1 DEF WorkerStopped, objVars, recordVars, vms, TypeOK
      <4> QED
        BY <3>1, <4>1, RemovalResets
    <3> QED
      BY <2>2, <3>1, WorkerResets DEF Worker
  <2>3. CASE UNCHANGED vars
    BY <2>3 DEF vars, Resetting
  <2> QED
    BY <2>1, <2>2, <2>3, UserResets, ClusterAPIResets DEF Next
<1>3. Resetting => Clean
  BY DEF Resetting
<1>4. Spec => [](Recorded => []Clean)
  <2> HIDE DEF Clean
  <2> QED
    BY <1>1, <1>2, <1>3, TypeCorrect, ResetInvariant, PTL DEF Spec
<1> QED
  BY <1>4, PTL DEF CleanedUp
=============================================================================

---------------------------- MODULE CustomCluster ----------------------------
(***************************************************************************)
(* The CustomCluster controller of the cluster operator: the life of one    *)
(* on-premise Kubernetes cluster, from provisioning through scaling and     *)
(* upgrading to deletion.                                                   *)
(*                                                                          *)
(* One step of the controller is one whole call of Reconcile: the work      *)
(* queue never runs two reconciles of the same object at once.  Inside a    *)
(* call the API writes happen in the order of the code and the call may     *)
(* stop after any of them, because a write is refused (the call returns the *)
(* error and the deferred patch still runs) or because the process dies     *)
(* (the patch does not run either).  An Outcome says how far a call got.    *)
(*                                                                          *)
(* Left out: status conditions, which the controller only writes; the       *)
(* master nodes, which it never scales; finalizers and owner references of  *)
(* ConfigMaps, whose Delete the controller itself issues.                   *)
(***************************************************************************)
EXTENDS KubeVersion

CONSTANTS
  Node,          \* worker machines that may appear in customMachine.Spec.Nodes
  Version,       \* values of kcp.Spec.Version
  Absent,        \* an object that does not exist
  Hasty,         \* what users do while a worker is at work: "edit", "delete"
  MaxEdits,      \* bound on the edits of the two specs
  MaxFaults,     \* bound on the calls of Reconcile that are cut short
  MaxFailures    \* bound on the workers that fail

ASSUME NodeAssumption == Node # {} /\ \A S \in SUBSET Node : Absent # S
ASSUME VersionAssumption == Version \subseteq SemVer /\ Version # {} /\ Absent \notin Version
ASSUME HastyAssumption == Hasty \subseteq {"edit", "delete"}
ASSUME BoundAssumption == {MaxEdits, MaxFaults, MaxFailures} \subseteq Nat

VARIABLES
  exists,            \* the objects Reconcile reads that exist
  deletionTimestamp, \* those of them that are being deleted
  finalizers,        \* those of them that carry CustomClusterFinalizer
  ownerRef,          \* does customMachine name customCluster as its owner?
  phase,             \* customCluster.Status.Phase as stored
  nodes,             \* customMachine.Spec.Nodes
  version,           \* kcp.Spec.Version
  hosts,             \* the worker nodes recorded in ConfigMap cluster-hosts
  config,            \* the version recorded in ConfigMap cluster-config
  scaleUpHosts,      \* the worker nodes in the temporary scale-up ConfigMap
  pods,              \* the manage worker of each action
  secrets,           \* how many kubeconfig secrets have been created
  queued,            \* is a reconcile of customCluster due?
  vmNodes,           \* the machines that really are worker nodes (external)
  vmVersion,         \* the version that really is installed (external)
  edits,             \* what is left of MaxEdits,
  faults,            \* of MaxFaults
  failures           \* and of MaxFailures

vars == <<exists, deletionTimestamp, finalizers, ownerRef, phase, nodes, version,
          hosts, config, scaleUpHosts, pods, secrets, queued, vmNodes, vmVersion, edits, faults, failures>>

objVars == <<exists, deletionTimestamp, finalizers, ownerRef>>

specVars == <<nodes, version>>

recordVars == <<hosts, config, scaleUpHosts>>

vms == <<vmNodes, vmVersion>>

bounds == <<edits, faults, failures>>

Obj == {"cluster", "customCluster", "customMachine", "kcp"}

Phase == {"", "Provisioning", "Provisioned", "ProvisionFailed", "ScalingUp",
          "ScalingDown", "Upgrading", "Deleting", "Unknown"}

\* CustomClusterManageAction.
Action == {"init", "scale-up", "scale-down", "upgrade", "terminate"}

\* A worker pod with the inventory, the version and the kubespray release it was
\* started with.  A pod that was deleted while it ran is Terminating until the
\* kubelet has stopped it.
Pod == [status : {"None", "Running", "Succeeded", "Failed", "Terminating"},
        nodes : {Absent} \cup SUBSET Node,
        version : {Absent} \cup Version,
        image : {"", "v2.20.0", "v2.22.1"}]

NoPod == [status |-> "None", nodes |-> {}, version |-> Absent, image |-> ""]

\* How far a call of Reconcile got: the API writes that succeeded, and the
\* metadata and status halves of the deferred patchHelper.Patch.
Outcome == [done : 0..9, meta : BOOLEAN, status : BOOLEAN]
-----------------------------------------------------------------------------
(* Helpers of the controller. *)

\* Mutant: a cluster being scaled down is not taken for a provisioned one.
Mutant_hasProvisionClusterInfo(p) == p \in {"Provisioned", "ScalingUp", "Upgrading"}

\* The phases in which the two ConfigMaps describe a provisioned cluster.
hasProvisionClusterInfo(p) == p \in {"Provisioned", "ScalingUp", "ScalingDown", "Upgrading"}

\* Mutant: nodes count as added once their worker has been started.
Mutant_findScaleUpWorkerNodes(provisioned, desired) ==
  IF pods["scale-up"].status = "None" THEN desired \ provisioned ELSE {}

findScaleUpWorkerNodes(provisioned, desired) == desired \ provisioned

findScaleDownWorkerNodes(provisioned, desired) == provisioned \ desired

\* A worker that is already there, in whatever state, is taken as it is.
ensureWorkerPodCreated(ps, a, inventory, v, kubeVersion) ==
  IF ps[a] = NoPod
  THEN [ps EXCEPT ![a] = [status |-> "Running", nodes |-> inventory, version |-> v,
                          image |-> getKubesprayImage(kubeVersion)]]
  ELSE ps

\* Delete of a pod: the API server removes one that has ended, and leaves one
\* that runs to the kubelet.
Deleted(p) ==
  IF p.status \in {"Running", "Terminating"} THEN [p EXCEPT !.status = "Terminating"] ELSE NoPod

ensureWorkerPodDeleted(ps, a) == [ps EXCEPT ![a] = Deleted(ps[a])]

\* Mutant: the scale-up worker is left running, as the upgrade worker is.
Mutant_deleteWorkerPods(ps, done) ==
  [a \in Action |->
     IF \/ a = "init" /\ done >= 1
        \/ a = "scale-down" /\ done >= 3
     THEN Deleted(ps[a]) ELSE ps[a]]

\* The workers a deletion removes, in the order it removes them.
deleteWorkerPods(ps, done) ==
  [a \in Action |->
     IF \/ a = "init" /\ done >= 1
        \/ a = "scale-up" /\ done >= 2
        \/ a = "scale-down" /\ done >= 3
     THEN Deleted(ps[a]) ELSE ps[a]]

\* Mutant: the Update of the kcp is missing.
Mutant_ensureFinalizerAndOwnerRef(fs, n, meta) ==
  fs \cup (IF n >= 1 THEN {"customMachine"} ELSE {})
     \cup (IF n >= 0 /\ meta THEN {"customCluster"} ELSE {})

\* The finalizers after ensureFinalizerAndOwnerRef got as far as its n-th
\* Update; customCluster's own waits for the deferred patch.
ensureFinalizerAndOwnerRef(fs, n, meta) ==
  fs \cup (IF n >= 1 THEN {"customMachine"} ELSE {})
     \cup (IF n >= 4 THEN {"kcp"} ELSE {})
     \cup (IF n >= 0 /\ meta THEN {"customCluster"} ELSE {})

\* Mutant: the finalizers go when the terminate worker has been created.
Mutant_deleteResourceEarly(n, meta) ==
  IF n >= -2 THEN {"customMachine", "kcp", "customCluster"} ELSE {}

\* Mutant: the finalizer of customCluster itself is forgotten.
Mutant_deleteResourceForgets(n, meta) ==
  (IF n >= 1 THEN {"customMachine"} ELSE {}) \cup (IF n >= 2 THEN {"kcp"} ELSE {})

\* The finalizers deleteResource removed with its n-th Update; customCluster's
\* is gone from the copy in memory before its Update and so is patched too.
deleteResource(n, meta) ==
  (IF n >= 1 THEN {"customMachine"} ELSE {})
     \cup (IF n >= 2 THEN {"kcp"} ELSE {})
     \cup (IF n >= 3 \/ (n = 2 /\ meta) THEN {"customCluster"} ELSE {})

\* Mutant: cluster-hosts is set to the desired state, which forgets the nodes
\* still to be removed.
Mutant_updateClusterNodes(h, up) == nodes

\* What cluster-hosts holds once the scale-up worker has succeeded.
updateClusterNodes(h, up) == h \cup up

\* Mutant: the phase set at the start of Reconcile reaches the patch.
Mutant_provisionPhase(done, status) ==
  CASE done < 7 -> IF phase = "" THEN "Pending" ELSE phase
    [] done >= 7 /\ status = "Succeeded" -> IF done = 8 THEN "Provisioned" ELSE "Provisioning"
    [] done >= 7 /\ status = "Failed" -> "ProvisionFailed"
    [] OTHER -> "Provisioning"

\* The phases the handlers leave behind, by how far they got and by the
\* status of their worker.
provisionPhase(done, status) ==
  CASE done < 7 -> phase
    [] done >= 7 /\ status = "Succeeded" -> IF done = 8 THEN "Provisioned" ELSE "Provisioning"
    [] done >= 7 /\ status = "Failed" -> "ProvisionFailed"
    [] OTHER -> "Provisioning"

scaleUpPhase(done, status) ==
  CASE done < 2 -> phase
    [] done >= 2 /\ status = "Succeeded" -> IF done >= 3 THEN "Provisioned" ELSE "ScalingUp"
    [] done >= 2 /\ status = "Failed" -> "Provisioned"
    [] OTHER -> "ScalingUp"

scaleDownPhase(done, status) ==
  CASE done < 1 -> phase
    [] done >= 1 /\ status = "Succeeded" -> IF done >= 3 THEN "Provisioned" ELSE "ScalingDown"
    [] done >= 1 /\ status = "Failed" -> "Provisioned"
    [] OTHER -> "ScalingDown"

upgradePhase(done, status) ==
  CASE done < 1 -> phase
    [] done >= 1 /\ status = "Succeeded" -> IF done >= 2 THEN "Provisioned" ELSE "Upgrading"
    [] done >= 1 /\ status = "Failed" -> "Unknown"
    [] OTHER -> "Upgrading"

\* The last Update of deleteResource reads the stored status back into memory,
\* so that the patch after it has no phase to write.
deletePhase(done, status) ==
  CASE done = 9 -> phase
    [] done < 9 /\ status = "Failed" /\ done >= 4 -> "Unknown"
    [] OTHER -> "Deleting"
-----------------------------------------------------------------------------
(* The steps of Reconcile. *)

\* Mutant: the error of a cut call is not returned.
Mutant_EndReconcile(w, n, p) ==
  LET cut == w.done < n \/ ~w.meta \/ ~w.status IN
  /\ phase' = IF w.status THEN p ELSE phase
  /\ cut => faults > 0
  /\ faults' = IF cut THEN faults - 1 ELSE faults
  /\ queued' = (<<exists, finalizers, phase, pods>>' # <<exists, finalizers, phase, pods>>)

\* The common end of a call that had n writes to make and ended with w: the
\* status patch, the fault charged to the bound, and the next reconcile, due
\* after an error or when a watched object has changed.
EndReconcile(w, n, p) ==
  LET cut == w.done < n \/ ~w.meta \/ ~w.status IN
  /\ phase' = IF w.status THEN p ELSE phase
  /\ cut => faults > 0
  /\ faults' = IF cut THEN faults - 1 ELSE faults
  /\ queued' = (cut \/ <<exists, finalizers, phase, pods>>' # <<exists, finalizers, phase, pods>>)

\* Reconcile found customCluster, the Cluster, customMachine and the kcp, and
\* the Cluster is not being deleted.
Normal == queued /\ exists = Obj /\ "cluster" \notin deletionTimestamp

\* Writes: cluster-hosts, cluster-config, init worker, the four Updates of
\* ensureFinalizerAndOwnerRef, and the kubeconfig secret.
reconcileProvision(w) ==
  LET status == pods["init"].status
      n == IF status = "Succeeded" THEN 8 ELSE 7
  IN
  /\ Normal
  /\ phase \in {"", "ProvisionFailed", "Provisioning"}
  /\ w.done <= n
  /\ hosts' = IF w.done >= 1 /\ hosts = Absent THEN nodes ELSE hosts
  /\ config' = IF w.done >= 2 /\ config = Absent THEN version ELSE config
  /\ pods' = IF w.done >= 3 THEN ensureWorkerPodCreated(pods, "init", hosts', config', version) ELSE pods
  /\ finalizers' = ensureFinalizerAndOwnerRef(finalizers, w.done - 3, w.meta)
  /\ ownerRef' = IF w.done >= 4 THEN TRUE ELSE ownerRef
  /\ secrets' = IF w.done = 8 THEN secrets + 1 ELSE secrets
  /\ exists' = exists
  /\ EndReconcile(w, n, provisionPhase(w.done, status))
  /\ UNCHANGED <<deletionTimestamp, specVars, scaleUpHosts, vms, edits, failures>>

\* getProvisionedClusterInfo has found both ConfigMaps; without them Reconcile
\* returns the error, is requeued and changes nothing.
Provisioned == Normal /\ hasProvisionClusterInfo(phase) /\ hosts # Absent /\ config # Absent

\* Writes: temporary ConfigMap, worker; and once the worker has succeeded
\* cluster-hosts, the temporary ConfigMap's deletion, the worker's deletion.
reconcileScaleUp(w) ==
  LET up == findScaleUpWorkerNodes(hosts, nodes)
      status == pods["scale-up"].status
      n == IF status = "Succeeded" THEN 5 ELSE 2
      temp == IF scaleUpHosts = Absent THEN hosts \cup up ELSE scaleUpHosts
  IN
  /\ Provisioned
  /\ up # {}
  /\ w.done <= n
  /\ scaleUpHosts' = IF w.done = 0 THEN scaleUpHosts ELSE IF w.done >= 4 THEN Absent ELSE temp
  /\ hosts' = IF w.done >= 3 THEN updateClusterNodes(hosts, up) ELSE hosts
  /\ pods' = CASE w.done < 2 -> pods
               [] w.done \in 2..4 -> ensureWorkerPodCreated(pods, "scale-up", temp, config, version)
               [] w.done = 5 -> ensureWorkerPodDeleted(pods, "scale-up")
  /\ UNCHANGED <<exists, finalizers>>
  /\ EndReconcile(w, n, scaleUpPhase(w.done, status))
  /\ UNCHANGED <<deletionTimestamp, ownerRef, specVars, config, secrets, vms, edits, failures>>

\* Writes: worker; and once it has succeeded cluster-hosts deleted, created
\* again from customMachine, the worker's deletion.
reconcileScaleDown(w) ==
  LET down == findScaleDownWorkerNodes(hosts, nodes)
      status == pods["scale-down"].status
      n == IF status = "Succeeded" THEN 4 ELSE 1
  IN
  /\ Provisioned
  /\ findScaleUpWorkerNodes(hosts, nodes) = {}
  /\ down # {}
  /\ w.done <= n
  /\ hosts' = CASE w.done < 2 -> hosts
                [] w.done = 2 -> Absent
                [] w.done > 2 -> nodes
  /\ pods' = CASE w.done = 0 -> pods
               [] w.done \in 1..3 -> ensureWorkerPodCreated(pods, "scale-down", down, config, version)
               [] w.done = 4 -> ensureWorkerPodDeleted(pods, "scale-down")
  /\ UNCHANGED <<exists, finalizers>>
  /\ EndReconcile(w, n, scaleDownPhase(w.done, status))
  /\ UNCHANGED <<deletionTimestamp, ownerRef, specVars, config, scaleUpHosts, secrets, vms, edits, failures>>

\* Writes: worker; and once it has succeeded cluster-config, the worker's
\* deletion.
reconcileUpgrade(w) ==
  LET status == pods["upgrade"].status
      n == IF status = "Succeeded" THEN 3 ELSE 1
  IN
  /\ Provisioned
  /\ hosts = nodes
  /\ config # version
  /\ isKubeadmUpgradeSupported(config, version)
  /\ w.done <= n
  /\ config' = IF w.done >= 2 THEN version ELSE config
  /\ pods' = CASE w.done = 0 -> pods
               [] w.done \in 1..2 -> ensureWorkerPodCreated(pods, "upgrade", hosts, version, version)
               [] w.done = 3 -> ensureWorkerPodDeleted(pods, "upgrade")
  /\ UNCHANGED <<exists, finalizers>>
  /\ EndReconcile(w, n, upgradePhase(w.done, status))
  /\ UNCHANGED <<deletionTimestamp, ownerRef, specVars, hosts, scaleUpHosts, secrets, vms, edits, failures>>

\* Nothing to do: the records agree with the specs, the version asked for is
\* out of kubeadm's reach, or the phase says nothing about the cluster, so
\* that the provisioned version is the empty string.
reconcileNothing ==
  /\ Normal
  /\ \/ /\ Provisioned
        /\ hosts = nodes
        /\ config = version \/ ~isKubeadmUpgradeSupported(config, version)
     \/ phase \in {"Deleting", "Unknown"}
  /\ queued' = FALSE
  /\ UNCHANGED <<objVars, phase, specVars, recordVars, pods, secrets, vms, bounds>>

\* Writes: three workers deleted, terminate worker; and once it has succeeded
\* the two ConfigMaps and the three finalizers.
reconcileDelete(w) ==
  LET status == pods["terminate"].status
      n == IF status = "Succeeded" THEN 9 ELSE 4
  IN
  /\ queued
  /\ exists = Obj
  /\ "cluster" \in deletionTimestamp
  /\ w.done <= n
  /\ pods' = LET left == deleteWorkerPods(pods, w.done) IN
             IF w.done >= 4 THEN ensureWorkerPodCreated(left, "terminate", hosts, config, version) ELSE left
  /\ hosts' = IF w.done >= 5 THEN Absent ELSE hosts
  /\ config' = IF w.done >= 6 THEN Absent ELSE config
  /\ finalizers' = finalizers \ deleteResource(w.done - 6, w.meta)
  /\ exists' = exists \ ((finalizers \ finalizers') \cap deletionTimestamp \cap {"customMachine", "customCluster"})
  /\ EndReconcile(w, n, deletePhase(w.done, status))
  /\ UNCHANGED <<deletionTimestamp, ownerRef, specVars, scaleUpHosts, secrets, vms, edits, failures>>

\* One of the four objects is not found: Reconcile returns without an error
\* and without a requeue.
reconcileMissing ==
  /\ queued
  /\ exists # Obj
  /\ queued' = FALSE
  /\ UNCHANGED <<objVars, phase, specVars, recordVars, pods, secrets, vms, bounds>>

\* Without a fault left, the deferred patch is made in full.
Outcomes == {w \in Outcome : faults = 0 => w.meta /\ w.status}

Reconcile ==
  \/ \E w \in Outcomes : reconcileProvision(w)
  \/ \E w \in Outcomes : reconcileScaleUp(w)
  \/ \E w \in Outcomes : reconcileScaleDown(w)
  \/ \E w \in Outcomes : reconcileUpgrade(w)
  \/ reconcileNothing
  \/ \E w \in Outcomes : reconcileDelete(w)
  \/ reconcileMissing
-----------------------------------------------------------------------------
(* The manage workers (external: kubespray playbooks run in pods). *)

\* What worker a makes of the machines when it has worked on the nodes in S.
EffectOnNodes(a, S) ==
  CASE a = "init" -> S
    [] a = "scale-up" -> vmNodes \cup S
    [] a \in {"scale-down", "terminate"} -> vmNodes \ S
    [] a = "upgrade" -> vmNodes

EffectOnVersion(a, v) ==
  CASE a \in {"init", "upgrade"} -> v
    [] a \in {"scale-up", "scale-down"} -> vmVersion
    [] a = "terminate" -> Absent

\* The worker's pod has started: both ConfigMaps it mounts were there.
Started(a) == pods[a].status = "Running" /\ pods[a].nodes # Absent /\ pods[a].version # Absent

Stopping(a) == pods[a].status = "Terminating" /\ pods[a].nodes # Absent /\ pods[a].version # Absent

\* A worker has done part of its work; it may be deleted or fail from here.  One
\* that is being stopped still works.
WorkerProgresses(a) ==
  /\ Started(a) \/ Stopping(a)
  /\ \E S \in SUBSET pods[a].nodes : vmNodes' = EffectOnNodes(a, S)
  /\ vmVersion' \in {vmVersion, EffectOnVersion(a, pods[a].version)}
  /\ UNCHANGED <<objVars, phase, specVars, recordVars, pods, secrets, queued, bounds>>

\* A reset takes longer than the grace period of the pods deleted before it.
WorkerSucceeds(a) ==
  /\ Started(a)
  /\ a = "terminate" => \A b \in Action : pods[b].status # "Terminating"
  /\ vmNodes' = EffectOnNodes(a, pods[a].nodes)
  /\ vmVersion' = EffectOnVersion(a, pods[a].version)
  /\ pods' = [pods EXCEPT ![a].status = "Succeeded"]
  /\ queued' = TRUE
  /\ UNCHANGED <<objVars, phase, specVars, recordVars, secrets, bounds>>

WorkerFails(a) ==
  /\ Started(a)
  /\ failures > 0
  /\ pods' = [pods EXCEPT ![a].status = "Failed"]
  /\ queued' = TRUE
  /\ failures' = failures - 1
  /\ UNCHANGED <<objVars, phase, specVars, recordVars, secrets, vms, edits, faults>>

\* The kubelet has stopped a deleted worker.
WorkerStopped(a) ==
  /\ pods[a].status = "Terminating"
  /\ pods' = [pods EXCEPT ![a] = NoPod]
  /\ queued' = TRUE
  /\ UNCHANGED <<objVars, phase, specVars, recordVars, secrets, vms, bounds>>
-----------------------------------------------------------------------------
(* Users and Cluster API (external). *)

\* Everything asked for so far has been carried out.
AtRest ==
  /\ phase = "Provisioned"
  /\ \A a \in Action : pods[a].status \in {"None", "Succeeded"}
  /\ hosts = nodes
  /\ config = version \/ ~isKubeadmUpgradeSupported(config, version)

MayDisturb(request) == request \in Hasty \/ AtRest

\* The webhook keeps at least one node.  customMachine is watched through its
\* owner reference.
EditNodes ==
  /\ MayDisturb("edit")
  /\ "customMachine" \in exists
  /\ edits > 0
  /\ \E S \in (SUBSET Node) \ {{}, nodes} : nodes' = S
  /\ queued' = (queued \/ ownerRef)
  /\ edits' = edits - 1
  /\ UNCHANGED <<objVars, phase, version, recordVars, pods, secrets, vms, faults, failures>>

EditVersion ==
  /\ MayDisturb("edit")
  /\ "kcp" \in exists
  /\ edits > 0
  /\ \E v \in Version \ {version} : version' = v
  /\ queued' = TRUE
  /\ edits' = edits - 1
  /\ UNCHANGED <<objVars, phase, nodes, recordVars, pods, secrets, vms, faults, failures>>

\* An operator who sees a worker fail deletes its pod to have it run again.
DeleteFailedWorker(a) ==
  /\ pods[a].status = "Failed"
  /\ pods' = ensureWorkerPodDeleted(pods, a)
  /\ queued' = TRUE
  /\ UNCHANGED <<objVars, phase, specVars, recordVars, secrets, vms, bounds>>

\* The Cluster has a finalizer of Cluster API's own.
DeleteCluster ==
  /\ MayDisturb("delete")
  /\ "cluster" \in exists \ deletionTimestamp
  /\ deletionTimestamp' = deletionTimestamp \cup {"cluster"}
  /\ queued' = TRUE
  /\ UNCHANGED <<exists, finalizers, ownerRef, phase, specVars, recordVars, pods, secrets, vms, bounds>>

\* A user deletes customMachine together with the Cluster.
DeleteMachine ==
  /\ "cluster" \in deletionTimestamp
  /\ "customMachine" \in exists \ deletionTimestamp
  /\ deletionTimestamp' = deletionTimestamp \cup {"customMachine"}
  /\ exists' = IF "customMachine" \in finalizers THEN exists ELSE exists \ {"customMachine"}
  /\ queued' = (queued \/ ownerRef)
  /\ UNCHANGED <<finalizers, ownerRef, phase, specVars, recordVars, pods, secrets, vms, bounds>>

\* Cluster API deletes the control plane of a Cluster being deleted ...
DeleteControlPlane ==
  /\ "cluster" \in exists \cap deletionTimestamp
  /\ "kcp" \in exists \ deletionTimestamp
  /\ deletionTimestamp' = deletionTimestamp \cup {"kcp"}
  /\ queued' = TRUE
  /\ UNCHANGED <<exists, finalizers, ownerRef, phase, specVars, recordVars, pods, secrets, vms, bounds>>

\* ... whose own controller lets it go once nobody else holds it ...
ControlPlaneGone ==
  /\ "kcp" \in (exists \cap deletionTimestamp) \ finalizers
  /\ exists' = exists \ {"kcp"}
  /\ queued' = TRUE
  /\ UNCHANGED <<deletionTimestamp, finalizers, ownerRef, phase, specVars, recordVars, pods, secrets, vms, bounds>>

\* ... then it deletes the infrastructure object, customCluster ...
DeleteInfrastructure ==
  /\ "cluster" \in exists \cap deletionTimestamp
  /\ "kcp" \notin exists
  /\ "customCluster" \in exists \ deletionTimestamp
  /\ deletionTimestamp' = deletionTimestamp \cup {"customCluster"}
  /\ exists' = IF "customCluster" \in finalizers THEN exists ELSE exists \ {"customCluster"}
  /\ queued' = TRUE
  /\ UNCHANGED <<finalizers, ownerRef, phase, specVars, recordVars, pods, secrets, vms, bounds>>

\* ... and the Cluster itself; the pods customCluster owned are deleted.
ClusterGone ==
  /\ "cluster" \in exists \cap deletionTimestamp
  /\ exists \cap {"kcp", "customCluster"} = {}
  /\ exists' = exists \ {"cluster"}
  /\ pods' = [a \in Action |-> Deleted(pods[a])]
  /\ queued' = TRUE
  /\ UNCHANGED <<deletionTimestamp, finalizers, ownerRef, phase, specVars, recordVars, secrets, vms, bounds>>

ClusterAPI == DeleteControlPlane \/ ControlPlaneGone \/ DeleteInfrastructure \/ ClusterGone

User == EditNodes \/ EditVersion \/ DeleteCluster \/ DeleteMachine \/ \E a \in Action : DeleteFailedWorker(a)

Worker ==
  \E a \in Action : WorkerProgresses(a) \/ WorkerSucceeds(a) \/ WorkerFails(a) \/ WorkerStopped(a)
-----------------------------------------------------------------------------
\* The four objects have just been applied; nothing is installed.
Init ==
  /\ exists = Obj
  /\ deletionTimestamp = {}
  /\ finalizers = {}
  /\ ownerRef = FALSE
  /\ phase = ""
  /\ nodes \in (SUBSET Node) \ {{}}
  /\ version \in Version
  /\ hosts = Absent
  /\ config = Absent
  /\ scaleUpHosts = Absent
  /\ pods = [a \in Action |-> NoPod]
  /\ secrets = 0
  /\ queued = TRUE
  /\ vmNodes = {}
  /\ vmVersion = Absent
  /\ edits = MaxEdits
  /\ faults = MaxFaults
  /\ failures = MaxFailures

Next == Reconcile \/ Worker \/ User \/ ClusterAPI

Spec == Init /\ [][Next]_vars

\* The controller's queue is served, Cluster API carries a deletion through, a
\* started worker ends, a deleted one stops, and the operator does what the comments on failed
\* workers ask for: delete the failed pod.
Fairness ==
  /\ WF_vars(Reconcile)
  /\ WF_vars(ClusterAPI)
  /\ \A a \in Action :
       WF_vars(WorkerSucceeds(a)) /\ WF_vars(WorkerStopped(a)) /\ WF_vars(DeleteFailedWorker(a))

FairSpec == Spec /\ Fairness
-----------------------------------------------------------------------------
(* Properties. *)

\* Every variable keeps to the values the API types allow; in particular the
\* phase "Pending", which Reconcile sets before it takes the copy to patch
\* against, is never stored.
TypeOK ==
  /\ exists \subseteq Obj
  /\ deletionTimestamp \subseteq Obj
  /\ finalizers \subseteq Obj \ {"cluster"}
  /\ ownerRef \in BOOLEAN
  /\ phase \in Phase
  /\ nodes \in (SUBSET Node) \ {{}}
  /\ version \in Version
  /\ hosts \in {Absent} \cup SUBSET Node
  /\ config \in {Absent} \cup Version
  /\ scaleUpHosts \in {Absent} \cup SUBSET Node
  /\ pods \in [Action -> Pod]
  /\ secrets \in Nat
  /\ queued \in BOOLEAN
  /\ vmNodes \subseteq Node
  /\ vmVersion \in {Absent} \cup Version
  /\ edits \in Nat
  /\ faults \in Nat
  /\ failures \in Nat

\* Once the cluster was provisioned (its kubeconfig was fetched), Cluster API
\* cannot make the control plane or customCluster vanish before the terminate
\* worker has succeeded: the finalizers ensureFinalizerAndOwnerRef sets hold
\* them, whichever writes fail and whatever users do meanwhile.
GoneOnlyAfterReset ==
  secrets > 0 /\ ~({"kcp", "customCluster"} \subseteq exists) =>
    \/ pods["terminate"].status = "Succeeded"
    \/ "cluster" \notin exists

\* No wake-up is lost: when no reconcile is due and every object is there, a
\* worker is at work or has failed, or the specs have been carried out, or the
\* phase is Unknown.  The watches (pods, customMachine through its owner
\* reference, kcp, Cluster) and the requeue after errors have to cover every
\* way in which work can be left over.
NothingForgotten ==
  ~queued /\ exists = Obj /\ "cluster" \notin deletionTimestamp =>
    \/ \E a \in Action : pods[a].status \in {"Running", "Failed"}
    \/ phase = "Unknown"
    \/ /\ hasProvisionClusterInfo(phase)
       /\ hosts = nodes
       /\ config = version \/ ~isKubeadmUpgradeSupported(config, version)

\* "Update cluster nodes to ensure that the current cluster-host represents the
\* cluster after the scaling" (reconcileScaleUp, and likewise reconcileScaleDown
\* and reconcileUpgrade): when everything has been carried out, cluster-hosts
\* and cluster-config say what is installed on the machines.
RecordMatchesMachines ==
  AtRest /\ "cluster" \notin deletionTimestamp =>
    vmNodes = hosts /\ vmVersion = config

\* "Kurator will automatically create the pod for adding nodes first, wait for
\* it to complete, and then automatically create the pod for deleting nodes":
\* the two scaling workers never run together.
ScaleInTurn == ~(pods["scale-up"].status = "Running" /\ pods["scale-down"].status = "Running")

\* deleteWorkerPods: from the moment the terminate worker is created, the init
\* and the two scaling workers have been told to stop, and none is ever started
\* again to install what is being reset.
ResetUndisturbed ==
  pods["terminate"] # NoPod =>
    \A a \in {"init", "scale-up", "scale-down"} : pods[a].status \in {"None", "Terminating"}

\* A Cluster that is being deleted, whose machines are all in cluster-hosts, the
\* inventory of the terminate worker, and on whose machines nobody works.
Recorded ==
  /\ "cluster" \in exists \cap deletionTimestamp
  /\ secrets > 0
  /\ hosts # Absent /\ vmNodes \subseteq hosts
  /\ pods["terminate"] = NoPod
  /\ \A a \in Action : pods[a].status \notin {"Running", "Terminating"}

\* "After the terminate worker finishes, the cluster on on-premise servers will
\* be cleaned up": a deletion that found the machines recorded leaves nothing on
\* them when the Cluster is gone, wherever its calls are cut short, whichever
\* workers fail and whatever is edited meanwhile.  One that comes while nodes
\* are being added does not find them recorded.
CleanedUp == [](Recorded => []("cluster" \notin exists => vmNodes = {} /\ vmVersion = Absent))

\* "... and the related resource will also be deleted": a Cluster being deleted
\* goes, and with it customCluster.
DeletionCompletes == "cluster" \in deletionTimestamp ~> "cluster" \notin exists

\* "Declare the desired final worker node state on the target customMachine, and
\* Kurator completes the node scaling without any external intervention."  This
\* needs users who wait for one change before they ask for the next.
ScalingCompletes ==
  ~(hosts = nodes /\ vmNodes = nodes) ~>
    (hosts = nodes /\ vmNodes = nodes) \/ "cluster" \in deletionTimestamp

\* "When upgrade worker pod runs failed, the status of customCluster will change
\* into "provisioned". Deleting this error one will trigger the creation of a new
\* upgrade worker pod" (customcluster_upgrade.go:74): an upgrade kubeadm supports
\* is carried out in the end when failed workers are deleted.  It is not, because
\* upgradePhase leaves the phase Unknown, to which no handler applies.
UpgradeCompletes ==
  config # Absent /\ isKubeadmUpgradeSupported(config, version) ~>
    \/ config = version
    \/ ~isKubeadmUpgradeSupported(config, version)
    \/ "cluster" \in deletionTimestamp
=============================================================================

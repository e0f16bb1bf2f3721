# Kurator in TLA+

TLA+ modules, model-checking configurations and machine-checked proofs for
[Kurator](../src): a set of Kubernetes controllers that install on-premise
clusters, gather clusters into fleets and distribute plugins, backups and
applications over them.

Everything here is written from the Go source. `PROJECT.json` maps every
definition to the lines it models.

## 1. The system and its parts

Kurator's programs are two controller managers (`cluster-operator`,
`fleet-manager`) and a command-line tool. A controller watches objects in the
Kubernetes API server; for every change of one of them its work queue calls
`Reconcile` for the object concerned. The queue never runs two calls for the same
object at once. A call reads objects, makes API writes one after the other, and
most calls end with a deferred patch of the object's metadata and status. Any
write can be refused, and the process can die between two writes; an error makes
the queue call again, a return without error and without a requeue does not.
What can go wrong is therefore seldom in one call and nearly always in a
sequence of them.

| part | source (`src/pkg/`) | state | operations | what makes it hard | what it should promise |
|---|---|---|---|---|---|
| CustomCluster controller | `cluster-operator/customcluster_*.go` | phase, finalizers, owner reference; ConfigMaps `cluster-hosts`, `cluster-config`, temporary scale-up hosts; one worker pod per action; kubeconfig secret | provision, scale up, scale down, upgrade, delete | hour-long workers, edits while they run, several writes per call, three other actors (users, Cluster API, kubelet) | records agree with machines; nothing is released before it is reset; changes and deletions complete |
| version policy | `customcluster_upgrade.go`, `customcluster_helper.go` | none | `isKubeadmUpgradeSupported`, `isSupportedVersion`, `getKubesprayImage` | versions at the edges of the two kubespray releases | a worker's kubespray supports the cluster's version |
| inventory text | `customcluster_helper.go`, `customcluster_scale.go`, two templates | the text of `cluster-hosts` | render, parse, append nodes | the text is the only record of the cluster | parsing returns what was rendered |
| Cluster (AWS) controller | `cluster-operator/cluster_controller.go`, `infra/aws` | Cluster API objects, credentials secret, IAM roles, bucket | reconcile, delete | external resources created before they are recorded | nothing is left in AWS after deletion |
| AttachedCluster, CustomMachine controllers | `attachedcluster_controller.go`, `custommachine_controller.go` | `Accepted`, `Ready` flags | validate | — | the flag reflects the last validation |
| admission webhooks | `webhooks` | none | validation | — | what the controllers assume of a spec |
| Fleet: control plane | `fleet-manager/controlplane.go` | init and delete pods, service account and its role binding, kubeconfig secret, fleet phase | install, delete Karmada | pods that fail, deletion during the installation, a binding extended on every retry | control plane ready before clusters join; gone before the fleet is |
| Fleet: clusters | `fleet-manager/clusters.go`, `fleet_cluster.go` | fleet label of clusters, members of the control plane, credentials | join, unjoin, label | label and membership change in separate writes, and the label also carries the wake-ups | members are exactly the ready clusters of the spec |
| Fleet: plugins | `fleet-manager/fleet_plugin*.go`, `plugin/` | Helm releases and repositories per cluster | eight concurrent reconcilers, garbage collection | a failed reconciler must not make the collector delete what it keeps | what is enabled is kept, what is disabled goes |
| Backup, Restore, Migrate | `fleet-manager/backup` | Velero objects per cluster, status details, finalizers | sync, delete, two-stage migration | status gathered from several clusters, clusters that leave the fleet | status reflects Velero's; nothing is left after deletion; restore starts after backup |
| Application, rollout | `fleet-manager/application` | Flux sources, Kustomizations, Helm releases; canaries in members | sync policies, sync rollout, delete | resources of a policy removed from the spec | synced resources are those of the spec |
| Pipeline | `fleet-manager/pipeline` | Tekton task, pipeline, trigger and RBAC objects | create in order, delete | partial creation | a ready pipeline has all its resources |
| CLI and installers | `plugin`, `client`, `istiocert`, `util` | downloaded tools, objects in Karmada and its members | install, join, uninstall, each a sequence of steps | commands cut off and entered again, members that are ready late | order between clusters is kept; trying again gets through |
| generated code | `client-go`, `zz_generated.*`, CRDs | — | — | — | — |

The parts meet in three places. Cluster API and the CustomCluster controller share
the four objects of a cluster and delete them in an order neither controls. The
Fleet gathers clusters the cluster-operator has made ready or users have attached.
Backup, Restore, Migrate and Application read the Fleet to find the clusters to
work on, through the credentials secret of each cluster.

## 2. Modules

| module | what it is |
|---|---|
| `KubeVersion` | the version policy as pure operators |
| `CustomCluster` | the CustomCluster controller, its workers, users and Cluster API |
| `Inventory` | the text of the inventory and of the configuration, the CustomMachine controller and its webhook |
| `Cluster` | the Cluster (AWS) controller with its provider, and Cluster API |
| `Fleet` | the Fleet controller composed with the AttachedCluster controller, its pods and Karmada |
| `PluginCharts` | which Helm releases a plugin asks for in which clusters |
| `FleetPlugins` | the concurrent plugin reconcilers of a fleet, Flux and the users |
| `PluginSet` | the abstract specification `FleetPlugins` implements |
| `Backup` | the Backup and the Restore controller, composed through Velero and the Backup object |
| `Migrate` | the Migrate controller and Velero in the source and the targets |
| `Application` | the Application controller with rollouts, Flux and the fleet |
| `Pipeline` | the Pipeline controller and Tekton's runs |
| `Installers` | the commands of the command-line tool |
| `MC...` | the values of constants for model checking |
| `CustomCluster_proofs`, `Fleet_proofs`, `FleetPlugins_proofs`, `Backup_proofs`, `Pipeline_proofs`, `Cluster_proofs`, `Inventory_proofs`, `Installers_proofs` | theorems (section 4); those about `Migrate` are in `Inventory_proofs`, those about `Application` in `FleetPlugins_proofs` |

All modules of controllers are written alike. One step of a controller is one
whole call of `Reconcile`, from the reads to the deferred patch; an outcome says
where it was cut short, by an error or by the end of the process. `queued` says
that the work queue or a timer will call it: a call that returns nil without a requeue
leaves it false, and only a watch the code sets up (or a resync) makes it true again.
A write that ends the last finalizer of an object being deleted makes it
disappear in that step. `MaxMishaps` bounds all that goes wrong from outside, `MaxEdits` the
edits. `Inventory` and `FleetPlugins`, whose theorems stand in one module with those of another component,
have names of their own where the others say `Init`, `Next`, `Spec`, `TypeOK`, `MaxMishaps` and the like
(`InventoryInit`, `PluginSpec`, `MaxFaults`, and `Member` for the clusters). A definition `Mutant_x` stands before the definition `x` it changes the way a
plausible bug would; every property of every run is violated under one of them.

### `CustomCluster` and the code

State. The four API objects `Reconcile` reads (`Cluster`, `CustomCluster`,
`CustomMachine`, `KubeadmControlPlane`, the *kcp*) are three sets: those that
exist, those being deleted, those that hold the controller's finalizer. `nodes` and
`version` are the two specs users edit, `hosts`, `config` and `scaleUpHosts` the
contents of the ConfigMaps, `pods` the worker of each action with the inventory,
version and kubespray release it was started with. `vmNodes` and `vmVersion` are what
is really installed on the machines, which no code ever reads. `queued` says that
the work queue holds the object.

One step of the controller is one call of `Reconcile`. Each handler
(`reconcileProvision`, `reconcileScaleUp`, `reconcileScaleDown`, `reconcileUpgrade`,
`reconcileDelete`) takes an `Outcome`: how many of its API writes, in the order of
the code, succeeded, and which halves of the deferred patch did. A handler with `n`
writes whose outcome has `done < n` returned an error or was killed there; if
neither half of the patch is applied it was killed. `EndReconcile` is the part all
handlers share. Every outcome other than the complete one counts against
`MaxFaults`.

Details the model keeps because properties depend on them:

* `Reconcile` sets the phase `Pending` *before* it makes the copy to patch
  against, so the phase `Pending` is in memory only and never stored;
* the finalizer of `CustomCluster` is set in memory and stored by the deferred
  patch; its removal is stored by an `Update`, which also reads the old status back;
* `ensureWorkerPodCreated` takes any existing worker, whatever its state and
  whatever it was started with;
* deleting a running pod is asynchronous: it is `Terminating`, and still works, until
  the kubelet has stopped it; the terminate worker is created in the same call;
* after a failed upgrade the phase is `Unknown`, for which no version is read.

The workers are external: a worker works on any part of its inventory
(`WorkerProgresses`) before it succeeds or fails. A terminate worker is assumed to
take longer than the grace period of the pods deleted before it (`WorkerSucceeds`).
Cluster API is external too and is modelled from what the code relies on: it deletes
the control plane, then the infrastructure object, then the Cluster, waiting for
finalizers each time.

Left out: conditions and events, which are only written; master nodes, which are
never scaled; the informer cache. The text of the ConfigMaps is in `Inventory`.

### `Inventory` and the code

`hosts`, `scaleUp` and `config` are the three ConfigMaps, as sequences of lines; a line is
the tuple of fields it is taken apart into. `CreateClusterHosts` renders the template,
`getScaleUpConfigMapData` and `updateClusterNodes` extend the section `[all]` and the
section of workers, `recreateClusterHosts` writes the inventory anew after a scale-down, and
`getWorkerNodeInfoFromClusterHosts` cuts the text at its headers and reads the workers
back. `validate` is the webhook's decision whether a CustomMachine is stored. A machine without
a host name passes it; the line it makes has too few fields and
`getNodeInfoFromNodeStr` reads out of range: the model's `panicked`. Pods, phases and partial
calls are those of `CustomCluster`; here a scaling is carried out in one step, and so is an upgrade,
which takes place only where `isKubeadmUpgradeSupported` (in `KubeVersion`) allows it.

### `Cluster` and the code

`made` is the set of objects in Kubernetes and AWS that exist; `files` the certificate
each file of the bucket belongs to, `bootKey` the one the control plane was booted with.
`Reconcile` goes through the secret's owner reference, the precheck, the finalizer, the
provider (credentials and identity, bootstrap stack, pod identity, Cluster API objects,
kubeconfig), the network plugin and the additional resources, and stops wherever a
call fails. Deletion removes the Cluster API objects, waits for them, and then calls `Clean`.
`misled` says that a lookup whose error the code drops (`aws_pod_identity.go:61`, and that of the
bucket) has failed. Cluster API is external and progresses on its own.

### `Fleet` and the code

The fleet's object and its label on clusters; the init and the deinit pod, their service account
and its binding; the members Karmada has. A call of `Reconcile` handles the control
plane, labels and joins the ready clusters, unjoins the labelled clusters that left the
spec (`leavers`), and deletion unjoins all and starts the deinit pod. The order of a Go list
of clusters is abstracted to any subset handled before the stop. `reconcileAttached` is
the whole call of the AttachedCluster controller for one cluster. Clusters are created late, get
unreachable, come back and are deleted; the label they carry is what wakes the fleet.

### `FleetPlugins`, `PluginCharts`, `PluginSet` and the code

A call reads options and clusters (`seen`), starts a goroutine for each plugin, waits for
all results (`Collect`) and, if there is no error and no requeue among them, deletes the
redundant releases one by one (`prune`). A goroutine applies its stages one after the other
and waits between them until Flux reports the releases ready; those of metric and backup also
copy secrets to the clusters, with the code's detours: the first copy of the object store secret
ends in an error, and the owner of Velero's secret is updated with a stale
resource version. A release is a chart and a cluster: `PluginCharts` has what each
`Render` function asks for, and leaves out the charts' values. `PluginSet` is what a reader of
`reconcilePlugins` may rely on, without goroutines: apply only what was wanted when the call
began, and prune only when all of it is there.

### `Backup`, `Migrate` and the code

`Backup` has one Backup, immediate or on a schedule, one Restore that names it, and
Velero's objects in each cluster with their status. The calls fetch the fleet's
clusters that are ready, create Velero objects where they are missing (never update),
collect statuses into `details`, and requeue until all are complete; deletion and its ways out
when the fleet or the Backup is gone are included. `Migrate` has the two stages in one call, as in the
code, where the result of the first is dropped and only its error counts; `synced` is
Velero's copy of the backup in a target. The target's fleet has `members` of its own; without a list of
targets, a call takes those of them that are ready (`targetClusters`), which may be none.

### `Application` and the code

`resources` are the Kustomizations and Helm releases, `made` the objects of a rollout in a
cluster (namespace label, ingress, test loader, metric templates, canary), `rules` the rules of the
ingress, `services` what Flux has deployed. A call goes through the policies and the clusters in order and
stops anywhere (`stopsAt`). The controller polls, so it is always due.

### `Pipeline` and the code

The Tekton objects of a Pipeline in the order they are applied; a task that cannot be
rendered, as is a custom task without an image, stops the call. `run` is a run Tekton has started, with the chain as it was
rendered then, and `pods` those of its tasks. Several Pipelines of one name share their
ClusterRoleBinding.

### `Installers` and the code

Each command is a sequence of steps (`Execute`): fetch a tool, run it, apply an object, place it on
members by a policy, wait for something. The `world` is the set of facts the commands
establish or wait for; `Provide` is everything that becomes ready in its own time.
A command ends at the first failing step and is entered again by the user. Dry runs skip what
the code skips. The tools a command runs are external: to join what has been joined is an error for
`karmadactl` and may be one for `keadm` (`joinedBefore`); the others are taken to do again what they have done.
The join of an edge node is modelled with the address of the cloud
core given.

## 3. Runs

All pass but `customcluster_upgrade`, whose property is the claim of a comment that the code does not
keep. Deadlock is checked for the installers only: a controller whose object is gone, or has
all it asked for, rests.

| run | instance | checks |
|---|---|---|
| `customcluster_safety` | 2 nodes, 2 versions, users at any time, 1 edit, 1 fault, 1 failed worker | `TypeOK`, `GoneOnlyAfterReset`, `NothingForgotten`, `ResetUndisturbed`, `CleanedUp` |
| `customcluster_quiet` | 2 nodes, 3 versions, edits wait, deletions at any time, 2 edits, 1 failed worker, fair | `RecordMatchesMachines`, `ScaleInTurn`, `ScalingCompletes`, `DeletionCompletes` |
| `customcluster_upgrade` | 2 nodes, 2 versions, users at any time, 1 edit, 1 failed worker, fair | `UpgradeCompletes`, violated |
| `fleet` | 2 clusters, with and without control plane, 1 edit, 1 mishap, fair | `MemberIsLabelled`, `NothingForgotten`, `AllReleased`, `DeletionCompletes`, `MembersFollowSpec` |
| `fleet_plugins` | 3 clusters, at first the broker or the two others ready, 4 choices of plugins, 1 edit, 1 mishap, fair | `KeepsPromise` (refinement), `ReleasesFollowSpec` |
| `backup` | 2 clusters, both kinds of Backup, 1 scheduled run, 1 mishap, fair | `BackupRestsWhenComplete`, `RestoreRestsWhenComplete`, `DeletionCompletes`, `BackupIsReported` |
| `migrate` | 3 clusters, targets listed (with and without the source) or not, 2 fleets, 2 mishaps, fair | `CompletedIsRestored`, `RestoredAfterBackup`, `MigrationCompletes` |
| `application` | 2 policies, 2 clusters, 1 edit, 2 mishaps, fair | `CanaryAfterService`, `RolloutsDeleted`, `Deployed`, `TestLoaderFollowsSpec` |
| `pipeline` | 1 Pipeline, 4 specs, 2 edits, 3 mishaps, fair | `TasksRunInOrder`, `SpecApplied` |
| `cluster` | pod identity on, 1 edit, 2 mishaps, fair | `CertsKept`, `CAPIHasItsInfra`, `CleanedUp`, `BecomesReady`, `DeletionCompletes` |
| `installers` | 3 members, all 12 commands, 3 mishaps, fair | `OneRoot`, `RemotesAfterPrimary`, `RetriesSucceed` |
| `inventory` | 3 versions, machines without name or address, an unnamed master, machines of one name, and moved; 3 edits, fair | `WellFormed`, `FollowsSpec` |

The type invariant (`TypeOK`, `InventoryTypeOK`) of a module is a conjunct of a safety invariant of its run.
Every property of the runs that is not liveness is also proved (section 4).

**Bounds.** Two nodes are enough for one to be kept and one to be added or removed, or for an edit that adds
one and removes the other. The versions 1.23, 1.24 and 1.26 hold a supported
upgrade, an unsupported one and both kubespray releases. Two clusters are enough for one to be
handled and the other to be missing, late or unreachable; `migrate` needs a third for a
target that is not the source, `installers` for a second remote, and `fleet_plugins` for two
clusters without the broker. One mishap anywhere in a call, with an edit around it, reaches
every partial state of every handler; where states allow, two make a retry fail as well. The
proofs remove the bounds for what they cover. Every run has also been repeated once with one more
edit or mishap (those of `CustomCluster` excepted, where the proofs do it for safety), on a smaller set
of specs where it took too long; this is how the premises `Overlooked` and the users who wait for
`ScalingCompletes` were found.

**Users.** In `CustomCluster` the constant `Hasty` says what users do at any time, edit or delete; the rest
waits until everything asked for has been carried out. In `customcluster_quiet` edits wait (see below). In `fleet`
the fleet is not deleted before its finalizer is stored or while its init pod runs.

**Fairness** is only used where a liveness property is checked. All runs have weak fairness of the
controllers' calls while they are due, because the work queue serves what it holds and retries after
errors (calls are cut short only finitely often, by the bounds). Beyond that:

* `CustomCluster`: Cluster API carries a deletion through, a worker ends, the kubelet stops a
  deleted pod, the operator deletes the pod of a failed worker as the comments ask;
* `Fleet`: pods end, clusters that are down come back, the operator deletes a failed pod;
* `FleetPlugins`: goroutines run, Flux gets a release ready, and (strong fairness) the random order of
  a Go map puts each cluster first again and again;
* `Backup`, `Migrate`: Velero carries out what is asked, clusters become ready;
* `Application`: Flux deploys, and a fleet that was removed is put back;
* `Cluster`: the informers resync, Cluster API goes on;
* `Installers`: clusters provide what is waited for, and the user tries again;
* `Inventory`: the user supplies the SSH key.

There is no fairness for edits, deletions, failures or progress inside a worker.

### Where properties stop

Some properties carry a premise because the code does not do more. Each was found by
dropping the premise:

* A node added to `customMachine` while a scale-up worker runs is recorded by `updateClusterNodes`
  (`customcluster_scale.go:65`) and never installed, against the comment in line 64; an edit during a
  scale-down starts the scale-up worker beside it (line 48), against
  `on-premise-cluster-lifecycle.md:352`; and an edit that is taken back during the scaling leaves the
  phase `ScalingUp` or `ScalingDown` and the machine as the worker left it, because no handler
  is called when `hosts` and spec agree. Hence users wait in `customcluster_quiet`.
* `deleteWorkerPods` (`customcluster_controller.go:419`) leaves the upgrade worker running, against the
  comment in line 418, so `ResetUndisturbed` is about the other three. The terminate worker's inventory
  lacks nodes a deleted scale-up worker was adding (line 389), so `CleanedUp` is about deletions that find
  all machines in `cluster-hosts` and no worker on them (`Recorded`).
* A call cut short in `deleteResource` (line 466) leaves `CustomCluster` with its finalizer, and one cut
  short between the deletion and the creation of `cluster-hosts` (`customcluster_helper.go:226`) leaves
  no inventory; both for ever. `customcluster_quiet` and `customcluster_upgrade` have no such call.
* A failed upgrade leaves the phase `Unknown` (`customcluster_upgrade.go:77`), in which deleting the pod
  starts no new one. The comment in line 74 says that the phase becomes `provisioned` and that "Deleting this error one
  will trigger the creation of a new upgrade worker pod", and the log line 76 names that phase too. `UpgradeCompletes`
  states the comment's claim without a premise, and `customcluster_upgrade` shows the behaviour that breaks it: the
  worker fails, the user deletes it, and every later call does nothing. This is the finding in `PROJECT.json`.
* A scaling worker gets the kubespray release of the version asked for, not of the one
  installed (`customcluster_scale.go:48`, comment in `customcluster_helper.go:454`).
* `Fleet`: a labelled cluster that is no member fails to unjoin at every try, and one
  missing cluster of the spec keeps every call failing (`MembersFollowSpec`'s premise); a
  fleet deleted after a call that was cut off before the role binding cannot run its deinit pod
  (`Bound`).
* `FleetPlugins`: with the backup plugin on two clusters no call gets through, and Submariner needs
  two ready clusters with the broker among them (`Hopeless`); without the broker the goroutine panics
  (`panics`) and takes the manager down at every try.
* `Backup`: a Restore whose Backup is missing, or has no completed run yet, is given up
  without a requeue, and the Velero restore of a one-time Backup does not wait for it. Without a
  list of clusters, each call takes those that are ready (`shared.go:64`): if a call is cut after it has
  created a Velero backup and before its status is stored, and the cluster is not ready at the next
  call, the controller rests while that backup is in progress (`Overlooked`,
  `RestoreOverlooked`). It takes two mishaps: with `MaxMishaps` at 2 the properties without
  this premise are violated.
* `Migrate`: without a list of targets, a call that finds no member of the fleet ready restores nothing and
  sets the phase `Completed`, and one that finds some passes over the others; `CompletedIsRestored` is therefore
  about the clusters the spec lists or the status reports. A target that is the source restores from a backup that may still be in progress;
  a failed backup or restore is waited for indefinitely.
* `Application`: without its fleet an Application being deleted stays
  (`controller.go:146`); with a service named other than the workload the canary's status is
  never found (`Renamed`); the label for sidecar injection is never removed.
* `Pipeline`: `needChainCredentials` (`controller.go:328`) compares a name with a template's text and is
  never true.
* `Cluster`: after a failed lookup the certificates are made anew under a running control
  plane (`misled`); a bucket whose access could not be set at creation is never repaired; a Cluster API object
  without conditions counts as ready, so that the phase is `Ready` too early for a while;
  deletion needs valid credentials.
* `Installers`: a join that went through in a run that failed afterwards, or was interrupted, makes every later run
  fail (`RetriesSucceed` names the case); a truncated download is taken for the tool at every later try; with two remotes or more the
  endpoints of one remote count twice, so that a federation may lack one; dry runs make and delete
  things, against `generic/options.go:74`; an edge node cannot be joined without an explicit address.
* `Inventory`: a master without a name is missing in the groups, so that the webhook's odd number of masters need not
  be in the file; a file with such a line cannot be read back. A worker whose address is edited is not scaled, and edited masters slip in with the
  next scale-down.

## 4. Proofs

Liveness under fairness is out of the prover's reach and stays with TLC. The proofs hold for any sets of nodes, versions,
clusters and options and any number of edits, faults and failures. The assumptions are those on the constants in
the modules: there is a node, versions are triples of numbers, `Absent` is neither a node set nor a
version; the broker is a cluster, `NoCluster` is not, and there are finitely many clusters; `first` is
a source cluster; an Application has a policy (`helper.go:439` reads the first), and a task of a Pipeline
is predefined or custom (`needChainCredentials` takes it for granted); there is a member, the primary of
Istio, and the commands are those of the tool; a machine is three strings, empty ones included, and its name
is not itself a header of the inventory such as `[etcd]`, which no host name is.
A proof module that extends two components proves nothing about both: they have no variable in common.

The library's induction theorems cannot be applied to a formula. Where a proof needs induction over a
list, it goes through sets: the set of the numbers for which a fact holds contains 0 and with every number
the next (`HandedOn`), so it contains all (`UpTo`), or there would be a least number it lacks. That every non-empty
set of numbers has a least element, `LeastNumber`, is a hypothesis of the lemmas up to the last section of
the module, which proves it (`Least`) and discharges it in the theorem: in this way the library's facts
do not burden the proofs that have no use for them.

`CustomCluster_proofs`, with no further premise:

* `TypeCorrect`: `TypeOK`, one lemma per handler. `TypeOK` is inductive.
* `ReleaseSafe`: `GoneOnlyAfterReset`, and `ResetIsUndisturbed`: `ResetUndisturbed`. Neither is
  inductive. `ResetInv` adds that a kcp with the finalizer exists, that the kcp of a cluster with a
  kubeconfig secret loses it only after the terminate worker has succeeded, that `CustomCluster` is
  not touched by Cluster API before the kcp is gone, and that the terminate worker exists only for a
  Cluster being deleted; `ResetInvariant` proves it, and both theorems follow from it.
* `NothingIsForgotten`: `NothingForgotten`. `WakeInv` adds `WakeBase`: a pod without a status is no
  pod, so that creating one is a change that is watched; workers are only stopped, and the phase is only
  `Deleting`, when the Cluster is being deleted; `customMachine` names its owner before the phase says
  the cluster is provisioned, so that its edits are watched. A call after which none is due
  made all its writes and changed nothing (`QuietEnd`), so it was one of the few that have nothing to do.

* `NothingLeftBehind`: `CleanedUp`. From a state that is `Recorded` on, `Resetting` holds: only the terminate worker
  works, its inventory is `cluster-hosts` with all machines in it, and nothing is left once it has succeeded. This is kept by
  every step, given `ResetInv`: `cluster-hosts` goes only after that success, so a worker that is started again after a
  failure has the same inventory, and the Cluster goes only after it.

with edits of the nodes that wait for a running scaling worker (`EditsWait`, a premise about steps), whatever faults
and deletions there are:

* `ScalingTakesTurns`: `ScaleInTurn`. `TurnInv`: a scale-up worker runs while nodes are missing in
  `cluster-hosts`, a scale-down worker while none is.

and, with the premise `Quiet`, edits wait for everything asked for and `MaxFaults = 0`, with deletions at any time:

* `RecordsAreRight`: `RecordMatchesMachines`. The inductive invariant `QuietInv` says, for each group of phases
  of a Cluster that is not being deleted, what is in progress: nothing (`Blank`), an installation (`Installing`), or a
  cluster that is kept in step (`Maintained`, in which nodes are being added, `Growing`, or removed, `Shrinking`, and the
  version is being changed, `Upgraded`). Each part relates the machines, which
  a worker may have changed in part, to the two records and the specs.

`FleetPlugins_proofs`, with no further premise:

* `TypeCorrect`: `PluginTypeOK`; `Refinement`: `KeepsPromise`, that is, `FleetPlugins` implements
  `PluginSet` under `wanted <- Wanted(spec, ready)` and `call <-` what the running call has
  read. A step of the detailed specification is a step of the abstract one or a stutter
  (`NextPromise`) in states where a result "Done" means that the stages of its plugin have been
  applied and are still there, and where a call that prunes has only such results. This is
  `CallInv`, which with `PluginTypeOK` is inductive (`Invariance`). It holds because no two calls for one
  fleet overlap and only the call itself deletes releases. Prune maps to the abstract
  `Prune` because the stages of all enabled plugins make up `Wanted` (`WantedCovered`).

`Fleet_proofs`, with no premise but the one named:

* `MembersLabelled`: `MemberIsLabelled`. `MemberInv` adds that only clusters that are there are
  labelled, that a fleet without control plane has no members, and that no member is a cluster still
  to be created.
* `WakeUpsSuffice`: `NothingForgotten` of `Fleet`, which is inductive given the types: whatever changes
  what a call would do also wakes the fleet.
* `ReleasesAll`: `AllReleased`, if users wait with the deletion (`~DeleteAnytime`). `ReleaseInv` adds that
  no init pod runs during the deletion, that the deinit pod belongs to the deletion and has removed
  Karmada and its members if it has succeeded, and that there is nothing to remove without a control
  plane.

`Backup_proofs`, with no further premise:

* `BackupRests`: `BackupRestsWhenComplete`, and `RestoreRests`: `RestoreRestsWhenComplete`. The invariant
  adds, for each object (`BackupInv`, `RestoreInv`), that Velero objects are made only in the clusters of
  the list, if there is one, and that an entry `Completed` of the status is true. A call that puts its object to
  rest has reached all clusters, changed nothing and found every entry complete; a cluster it did not
  reach is not on the list, so there is none, and if it had an entry, that entry would be true.

`Inventory_proofs`, the section about `Migrate`, with no further premise:

* `CompletedTrue`: `CompletedIsRestored`. `MigrateInv` adds that a restore the status reports as complete is
  complete, unless the Migrate is being deleted. A call computes
  `Completed` only when it has reached every target it found, after which none of them is without a restore, and
  has read only complete ones (`MigrateStep`); a cluster reported by an earlier call and not found by this one is covered by
  the addition. A later call, with or without its patch, changes only
  restores that are not there, and Velero only those in progress; deletion takes restores away, but
  under the deletion timestamp.
* `RestoreWaits`: `RestoredAfterBackup`, an action property that follows from the types and
  the guard `isSynced` of both actions that create restores.

`FleetPlugins_proofs`, the sections about `Application`, with no further premise:

* `CanariesHaveServices`: `CanaryAfterService`, and `FinalizerAfterRollouts`: `RolloutsDeleted`.
  `RolloutInv` adds that a deployed service has its resource as long as the Application is there (Flux
  takes a service away only with its resource, and Reconcile takes none away), and that the ingress has
  rules only for the policies in its label, by which the deletion finds them. A call
  gets to the canary of a cluster only if it finds the service there (`stopsAt`), and the finalizer goes
  only in a call that has got to the last policy and cluster (`FinalizerRemoved`).

`Pipeline_proofs`, for task lists of any length:

* `TasksInOrder`: `TasksRunInOrder`. Each task of the rendered chain waits for one other (`TasksOfRun`),
  and an edit or a new apply leaves the chain of the run as it was. `RunInv` adds the `Shapes` of the
  functions: a run has a state for each task of its chain. That all the tasks before have succeeded,
  and not only the one waited for, follows step by step from the invariant itself, because a task that has
  succeeded was started, and one that has succeeded stays so.

`Cluster_proofs`, with and without pod identity:

* `InfraBeforeCAPI`: `CAPIHasItsInfra`; `OneCertificate`: `CertsKept`; `CleanedUpBeforeGone`: `CleanedUp`.
  A call of Reconcile makes a prefix of the sequence `Work`, a deletion takes away a prefix of
  `Clean`. The first half of the module shows what each prefix may hold (`WorkDone`, `CleanDone`): Cluster API's
  Cluster only with everything before it, the OpenID provider only with all four files, files only with
  their bucket; the bucket goes only after its files. `Infra` adds to the properties that files need the
  bucket, that a control plane which has booted is still there, that there is no pod identity without the
  setting, and `CertBound`, which bounds the certificates made by the calls that failed: this is what
  makes the types inductive. A call that leaves the OpenID provider out after uploading files was cut short;
  the next makes all files anew, and the first to reach the provider leaves one certificate.
  `CleanedUp` needs `Infra` as well: without it a setting could hide what `Clean` skips.

`Inventory_proofs`, for any machines and versions:

* `Inventories`: `WellFormed`. `Split` and `Without` are recursive functions; that such a function exists and
  which values it takes is `FoldExists`. From this follows what `Split` makes of lines without headers, of a
  header and of lines joined (`SplitOne`, `SplitFirst`, `SplitClear`), and so that a file of five
  sections is read back by its sections, whether it is cut at all headers or at two of them
  (`ThreeParts`, `FiveParts`, `SixParts`). The inductive invariant says that each of the files there is
  is one of five sections without a header in them (`IsInventory`), in which every group names machines with a
  complete line in `[all]`, masters and etcd members are the same and, if all lines are complete, odd in number (`Sound`); creating
  (`CreateGood`, which needs the webhook's `validate`) and scaling (`ScaleUpGood`, which needs the invariant
  of the file that is extended) give such files. The configuration is always one that `CreateClusterConfig`
  makes for some version, since replacing the version in it gives another (`ConfigUpdate`).

`Installers_proofs`, for any number of members and mishaps:

* `OneRootAlways`: `OneRoot`, and `RemotesWait`: `RemotesAfterPrimary`. What a command does is a list that its
  functions put together, in part from one piece for each member (`Flatten`). The first half of the module shows that
  every such list is `WellBuilt` (`Programs`): only Istio's has steps that place a remote control plane, each of them
  behind steps that wait for the primary, for its address and for the certificates of the cluster (`Guarded`,
  joined by `GuardedThen` and over the members by `GuardedEach`), and endpoints are collected by one poll or one
  listing. The second half is the invariant. `RootInv`: a root is made only together with the secret in
  Karmada, which no step takes away and which `createIstioCacerts` looks for. `MeshInv`: what the steps before the current
  one have waited for is still true; it holds because no step of Istio withdraws a fact. `PollInv` and the types
  bound the list of endpoints: a poll that goes on has found fewer than the remotes, and one round adds
  at most as many as there are clusters but the primary (`ListsAreShort`).

Only model-checked: all liveness.

## 5. Not modelled

* The admission webhooks other than that of CustomMachine: stateless checks of the fields of one
  object. The specs the modules enumerate pass them.
* Values of charts, manifests and templates other than the inventory; conditions, events, logging.
* The informer cache that lags behind the API server: calls read what is there. Pods with
  random names created twice by a stale read are therefore not seen.
* The command line's flags and wiring (`src/cmd`), API types, generated clients and manifests,
  which have no behaviour of their own.
* Several fleets, Backups or Applications at once: they share nothing but names, which are
  model values (that long names are cut at 63 characters, and may then collide, is not seen).

`PROJECT.json` lists every part with its status, and the hazards that matter most with the properties
that cover them or the reason why none does.

----------------------------- MODULE Inventory ------------------------------
(***************************************************************************)
(* The files a CustomCluster is built from: the inventory of its machines   *)
(* (ConfigMap cluster-hosts) and its configuration (cluster-config).        *)
(* CustomCluster takes them as a set of nodes and a version; here they are  *)
(* the text that is written, cut at its section headers, extended and read  *)
(* back, of machines that the webhook has let through.  Pods, phases and    *)
(* calls that are cut short are those of CustomCluster.                     *)
(*                                                                          *)
(* A text is a sequence of lines and a line a tuple of the fields it is     *)
(* read as.  A machine is a triple: host name, public and private IP.  A    *)
(* version is the triple of its numbers.                                    *)
(***************************************************************************)
EXTENDS FiniteSets, Integers, KubeVersion, Sequences

CONSTANTS
  Specs,     \* the CustomMachines a user may try to store: [master, nodes]
  Versions,  \* the versions of Kubernetes
  MaxEdits

Absent == <<>>

Headers == {<<"[all]">>, <<"[kube_control_plane]">>, <<"[etcd]">>, <<"[kube_node]">>, <<"[k8s-cluster:children]">>}

\* Any fields, empty ones included; a host name is not a header of the file.
ASSUME MachineAssumption ==
  \A in \in Specs : \A ms \in {in.master, in.nodes} :
    /\ ms \in Seq(STRING \X STRING \X STRING)
    /\ \A i \in DOMAIN ms : <<ms[i][1]>> \notin Headers
ASSUME EditAssumption == MaxEdits \in Nat

VARIABLES
  machine,   \* CustomMachine.spec, as stored
  version,   \* the version asked for
  key,       \* is the SSH key of the first master there?
  machineReady, \* CustomMachine.status.ready
  hosts,     \* ConfigMap cluster-hosts
  scaleUp,   \* ConfigMap cluster-hosts-scale-up
  config,    \* ConfigMap cluster-config
  panicked,  \* has the controller met text it cannot read?
  edits

inventoryVars == <<machine, version, key, machineReady, hosts, scaleUp, config, panicked, edits>>

-----------------------------------------------------------------------------
(* The webhook.                                                             *)

validateMachine(ms) == \A i \in DOMAIN ms : ms[i][2] # "" /\ ms[i][3] # ""

\* Host names are not looked at.
validate(in) ==
  /\ Len(in.master) # 0 /\ Len(in.master) % 2 = 1
  /\ Len(in.nodes) # 0
  /\ validateMachine(in.master) /\ validateMachine(in.nodes)

-----------------------------------------------------------------------------
(* Text.                                                                    *)

\* The machines whose names are not among these, in their order.
Without(names, ms) ==
  LET kept[i \in 0..Len(ms)] ==
        IF i = 0 THEN <<>>
        ELSE IF ms[i][1] \in names THEN kept[i - 1] ELSE Append(kept[i - 1], ms[i])
  IN  kept[Len(ms)]

NoName == ""

\* A line for each name; an empty line is passed over by every reader.
NodeNames(ms) ==
  LET named == Without({NoName}, ms)
  IN  [i \in DOMAIN named |-> <<named[i][1]>>]

\* "name ansible_host=public ip=private": without a name two fields are left.
nodeAndIP(m) == IF m[1] = NoName THEN <<m[2], m[3]>> ELSE m

NodeAndIP(ms) == [i \in DOMAIN ms |-> nodeAndIP(ms[i])]

CreateClusterHosts(in) ==
  <<<<"[all]">>>> \o NodeAndIP(in.master) \o NodeAndIP(in.nodes)
  \o <<<<"[kube_control_plane]">>>> \o NodeNames(in.master)
  \o <<<<"[etcd]">>>> \o NodeNames(in.master)
  \o <<<<"[kube_node]">>>> \o NodeNames(in.nodes)
  \o <<<<"[k8s-cluster:children]">>>> \o <<<<"kube_node">>, <<"kube_control_plane">>>>

\* regexp.Split: the parts between the lines that are one of the headers.
\* parts[i] are those of the last i lines: before a header there is one part
\* more, and any other line belongs to the first.
Split(text, headers) ==
  LET line(i) == text[Len(text) - i + 1]
      parts[i \in 0..Len(text)] ==
        IF i = 0 THEN <<<<>>>>
        ELSE IF line(i) \in headers THEN <<<<>>>> \o parts[i - 1]
        ELSE [parts[i - 1] EXCEPT ![1] = <<line(i)>> \o @]
  IN  parts[Len(text)]

\* Mutant: the new names are put before the control plane's.
Mutant_getScaleUpConfigMapData(data, nodes) ==
  LET parts == Split(data, {<<"[kube_control_plane]">>, <<"[k8s-cluster:children]">>}) IN
  parts[1] \o <<<<"[kube_control_plane]">>>> \o NodeNames(nodes) \o parts[2]
  \o <<<<"[k8s-cluster:children]">>>> \o parts[3]

\* The new nodes, behind the last of [all] and behind the last of [kube_node].
getScaleUpConfigMapData(data, nodes) ==
  LET parts == Split(data, {<<"[kube_control_plane]">>, <<"[k8s-cluster:children]">>}) IN
  parts[1] \o NodeAndIP(nodes) \o <<<<"[kube_control_plane]">>>>
  \o parts[2] \o NodeNames(nodes) \o <<<<"[k8s-cluster:children]">>>> \o parts[3]

Parts(data) ==
  Split(data, {<<"[all]">>, <<"[kube_control_plane]">>, <<"[kube_node]">>, <<"[k8s-cluster:children]">>})

\* A line of [all] must have its three fields, or the reader panics.
readable(data) == \A i \in DOMAIN Parts(data)[2] : Len(Parts(data)[2][i]) = 3

\* Of two lines with one name the later counts; a worker without a line has no name.
nodeInfo(lines, name) ==
  LET of == {i \in DOMAIN lines : lines[i][1] = name} IN
  IF of = {} THEN <<"", "", "">> ELSE lines[CHOOSE i \in of : \A j \in of : j <= i]

getWorkerNodeInfoFromClusterHosts(data) ==
  [k \in DOMAIN Parts(data)[4] |-> nodeInfo(Parts(data)[2], Parts(data)[4][k][1])]

Names(ms) == {ms[i][1] : i \in DOMAIN ms}

\* Nodes are told apart by their names only.
findAdditionalWorkerNodes(first, second) == Without(Names(first), second)

CreateClusterConfig(v) == <<<<"kube_version: ", v>>, <<"kube_pods_subnet: ", "10.233.64.0/18">>>>

\* The text semver refuses.
NoVersion == <<>>

\* The first line with the prefix.
getKubeVersionFromCM(text) ==
  LET of == {i \in DOMAIN text : text[i][1] = "kube_version: "} IN
  IF of = {} THEN NoVersion ELSE text[CHOOSE i \in of : \A j \in of : i <= j][2]

\* Mutant: another setting is replaced.
Mutant_getUpdatedKubeVersionConfigData(text, v) ==
  [i \in DOMAIN text |->
     IF text[i] # <<"kube_version: ", getKubeVersionFromCM(text)>> THEN <<"kube_version: ", v>> ELSE text[i]]

\* Every line with the old version gets the new one.
getUpdatedKubeVersionConfigData(text, v) ==
  [i \in DOMAIN text |->
     IF text[i] = <<"kube_version: ", getKubeVersionFromCM(text)>> THEN <<"kube_version: ", v>> ELSE text[i]]

-----------------------------------------------------------------------------
(* The controllers.                                                         *)

\* The webhook admits a CustomMachine, new or changed.
StoreMachine(in) ==
  /\ edits < MaxEdits
  /\ validate(in)
  /\ machine # in
  /\ machine' = in
  /\ edits' = edits + 1
  /\ UNCHANGED <<version, key, machineReady, hosts, scaleUp, config, panicked>>

StoreVersion(v) ==
  /\ edits < MaxEdits
  /\ v # version
  /\ version' = v
  /\ edits' = edits + 1
  /\ UNCHANGED <<machine, key, machineReady, hosts, scaleUp, config, panicked>>

StoreKey ==
  /\ ~key
  /\ key' = TRUE
  /\ UNCHANGED <<machine, version, machineReady, hosts, scaleUp, config, panicked, edits>>

\* CustomMachineController: looks again after a while until the key is there.
reconcileCustomMachine ==
  /\ ~machineReady
  /\ key
  /\ machineReady' = TRUE
  /\ UNCHANGED <<machine, version, key, hosts, scaleUp, config, panicked, edits>>

\* The files of a new cluster; one that is there is kept.
ensureClusterHostsCreated ==
  /\ hosts = Absent
  /\ hosts' = CreateClusterHosts(machine)
  /\ config' = IF config = Absent THEN CreateClusterConfig(version) ELSE config
  /\ UNCHANGED <<machine, version, key, machineReady, scaleUp, panicked, edits>>

Provisioned == hosts # Absent /\ ~panicked

provisioned == getWorkerNodeInfoFromClusterHosts(hosts)

\* What a call reads of the inventory before it does anything, if it can.
getProvisionedClusterInfo == IF Provisioned /\ readable(hosts) THEN {provisioned} ELSE {}

findScaleUpWorkerNodes(info) == findAdditionalWorkerNodes(info, machine.nodes)

findScaleDownWorkerNodes(info) == findAdditionalWorkerNodes(machine.nodes, info)

ReadPanics ==
  /\ Provisioned
  /\ ~readable(hosts)
  /\ panicked' = TRUE
  /\ UNCHANGED <<machine, version, key, machineReady, hosts, scaleUp, config, edits>>

ensureScaleUpHostsCreated(info) ==
  /\ findScaleUpWorkerNodes(info) # <<>>
  /\ scaleUp = Absent
  /\ scaleUp' = getScaleUpConfigMapData(hosts, findScaleUpWorkerNodes(info))
  /\ UNCHANGED <<machine, version, key, machineReady, hosts, config, panicked, edits>>

\* The pod has worked off the file it was given; the nodes that are missing now
\* are added to the inventory.
updateClusterNodes(info) ==
  /\ findScaleUpWorkerNodes(info) # <<>>
  /\ scaleUp # Absent
  /\ hosts' = getScaleUpConfigMapData(hosts, findScaleUpWorkerNodes(info))
  /\ scaleUp' = Absent
  /\ UNCHANGED <<machine, version, key, machineReady, config, panicked, edits>>

\* The inventory is written anew from the CustomMachine.
recreateClusterHosts(info) ==
  /\ findScaleUpWorkerNodes(info) = <<>>
  /\ findScaleDownWorkerNodes(info) # <<>>
  /\ hosts' = CreateClusterHosts(machine)
  /\ UNCHANGED <<machine, version, key, machineReady, scaleUp, config, panicked, edits>>

\* A version that kubeadm cannot get to is passed over.
updateKubeVersion(info) ==
  /\ findScaleUpWorkerNodes(info) = <<>> /\ findScaleDownWorkerNodes(info) = <<>>
  /\ getKubeVersionFromCM(config) # version
  /\ isKubeadmUpgradeSupported(getKubeVersionFromCM(config), version)
  /\ config' = getUpdatedKubeVersionConfigData(config, version)
  /\ UNCHANGED <<machine, version, key, machineReady, hosts, scaleUp, panicked, edits>>

InventoryInit ==
  /\ machine \in {in \in Specs : validate(in)}
  /\ version \in Versions
  /\ key = FALSE /\ machineReady = FALSE
  /\ hosts = Absent /\ scaleUp = Absent /\ config = Absent
  /\ panicked = FALSE
  /\ edits = 0

ReconcileInventory ==
  \/ reconcileCustomMachine \/ ensureClusterHostsCreated \/ ReadPanics
  \/ \E info \in getProvisionedClusterInfo :
       \/ ensureScaleUpHostsCreated(info) \/ updateClusterNodes(info)
       \/ recreateClusterHosts(info) \/ updateKubeVersion(info)

InventoryNext ==
  \/ ReconcileInventory \/ StoreKey
  \/ \E in \in Specs : StoreMachine(in)
  \/ \E v \in Versions : StoreVersion(v)

InventorySpec == InventoryInit /\ [][InventoryNext]_inventoryVars

\* The work queues hand out what is due, and the user supplies the key.
InventoryFairSpec == InventorySpec /\ WF_inventoryVars(ReconcileInventory) /\ WF_inventoryVars(StoreKey)

-----------------------------------------------------------------------------
(* Properties.                                                              *)

\* Type correctness: an inventory always has its five sections, and the
\* configuration always has a version (CreateClusterHosts, getKubeVersionFromCM).
\* Checked as a part of WellFormed.
InventoryTypeOK ==
  /\ machine \in Specs /\ version \in Versions
  /\ key \in BOOLEAN /\ machineReady \in BOOLEAN /\ panicked \in BOOLEAN
  /\ edits \in 0..MaxEdits
  /\ hosts # Absent => Len(Parts(hosts)) = 5
  /\ config # Absent => getKubeVersionFromCM(config) \in Versions

\* The names of the lines with three fields.
Listed(lines) == {lines[i][1] : i \in {j \in DOMAIN lines : Len(lines[j]) = 3}}

\* Every inventory Kubespray is given, however often it was extended and
\* rewritten, has for every host of a group a line in [all] with the three
\* fields, and the masters are the etcd members.  The webhook's odd number of
\* them is in the file if the controller can read it: a master without a name
\* is missing in the groups.
WellFormed ==
  /\ InventoryTypeOK
  /\ \A t \in {hosts, scaleUp} \ {Absent} :
       LET p == Split(t, Headers) IN
       /\ Names(p[3]) \cup Names(p[4]) \cup Names(p[5]) \subseteq Listed(p[2])
       /\ p[3] = p[4]
       /\ readable(t) => Len(p[4]) % 2 = 1

\* In the end the machines are ready, the inventory names the workers the
\* CustomMachine does, and the configuration the version asked for if kubeadm
\* gets there in one upgrade, unless a machine without a name was let through:
\* what was written is read back, or the scaling would go on for ever.
FollowsSpec ==
  \/ <>panicked
  \/ <>[](/\ machineReady /\ hosts # Absent
          /\ Names(provisioned) = Names(machine.nodes)
          /\ isKubeadmUpgradeSupported(getKubeVersionFromCM(config), version)
               => getKubeVersionFromCM(config) = version)
=============================================================================

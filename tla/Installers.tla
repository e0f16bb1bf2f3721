----------------------------- MODULE Installers -----------------------------
(***************************************************************************)
(* `kurator install ...' and `kurator join ...': each command is a program  *)
(* that runs a tool, applies objects to Karmada, to a member or to the      *)
(* host cluster, waits, and returns an error at the first step that fails.  *)
(* A command that has failed, or was interrupted, is run again by its user  *)
(* from the start, on whatever the run before has left.                     *)
(*                                                                          *)
(* The world is a set of facts <<object, where, what>>: an object is        *)
(* "applied" to the API server of Karmada, the host or a member; a policy   *)
(* has "placed" it on a member; and, in its own time, it is "ready",        *)
(* "present" or "addressed" there.                                          *)
(***************************************************************************)
EXTENDS FiniteSets, Functions, Integers, Sequences

CONSTANTS
  Members,      \* the clusters registered in Karmada, in the order it lists them
  Preinstalled, \* the tools that are in /usr/local/bin
  Goals,        \* the commands the user may want to see through
  MaxMishaps    \* failed steps, time-outs and dry runs in a behaviour

VARIABLES
  goal,      \* the command
  status,    \* "idle", "running", "failed" (with an error) or "ok"
  dry,       \* is it run with --dry-run?
  pc,        \* the step it has come to
  world,     \* the facts
  file,      \* each tool's binary: "absent", "broken" or "installed"
  binary,    \* the one this run has chosen: "missing", "broken" or "good"
  endpoints, \* the load balancers this run has found
  root,      \* which of the generated roots the secret cacerts holds (0: none)
  rootIn,    \* and the copy of it in each member
  done,      \* has a run without --dry-run succeeded?
  mishaps

vars == <<goal, status, dry, pc, world, file, binary, endpoints, root, rootIn,
          done, mishaps>>

Clusters == Range(Members)

ASSUME MembersAssumption == Members \in Seq(Clusters) /\ Members # <<>>
ASSUME BoundAssumption == MaxMishaps \in Nat

Primary == Head(Members)

Remotes == Tail(Members)

Tool == {"kubectl-karmada", "argocd", "subctl", "helm", "keadm", "istioctl", "keadm on the edge"}

-----------------------------------------------------------------------------
(* Steps.  A step without `dry' is skipped by a dry run.                    *)

Step(d, f) == <<[do |-> d, facts |-> f, dry |-> TRUE]>>

UnlessDryRun(s) == [i \in DOMAIN s |-> [s[i] EXCEPT !.dry = FALSE]]

Flatten(ss) ==
  LET upTo[i \in 0..Len(ss)] == IF i = 0 THEN <<>> ELSE upTo[i - 1] \o ss[i]
  IN  upTo[Len(ss)]

ForEach(s, Body(_)) == Flatten([i \in DOMAIN s |-> Body(s[i])])

\* Objects are built, and created or replaced: applying them twice is no error.
UpdateResource(objects, at) == Step("apply", {<<o, at, "applied">> : o \in objects})

\* One policy for one object.
ApplyPropagationPolicy(object, clusters) ==
  Step("apply", {<<object, c, "placed">> : c \in clusters})

\* The two policies of a set of resources: one for those without a namespace,
\* one for the others; namespaces travel by themselves.
AppendResourceSelector(resources, scope) == (resources \ {"namespace"}) \cap scope

ClusterScoped == {"crd", "rbac"}

Namespaced == {"workload", "prometheus"}

ClusterPropagationPolicy(resources) ==
  Step("apply", {<<o, c, "placed">> :
                   o \in AppendResourceSelector(resources, ClusterScoped), c \in Clusters})

PropagationPolicy(resources) ==
  Step("apply", {<<o, c, "placed">> :
                   o \in AppendResourceSelector(resources, Namespaced), c \in Clusters})

\* Polls that end when what they wait for is there, or with a time-out.
WaitPodReady(object, places) == Step("wait", {<<object, c, "ready">> : c \in places})

WaitCRDReady(object, at) == Step("wait", {<<object, at, "ready">>})

WaitAPIEnableInClusters(object) == Step("wait", {<<object, c, "ready">> : c \in Clusters})

WaitServiceReady(object, at) == Step("wait", {<<object, at, "addressed">>})

waitSecertReady(c) == Step("wait", {<<"cacerts", c, "present">>})

\* Questions asked once: it is an error if the answer is no.
IsClustersReady(clusters) == Step("ask", {<<"cluster", c, "ready">> : c \in clusters})

memberClusterConfig(c) == Step("ask", {<<"cluster", c, "joined">>})

EnsureNamespaceExist(at) == Step("apply", {<<"namespace", at, "applied">>})

\* A tool is looked for under HomeDir and downloaded if it is not there.  Some
\* commands go on with the one in /usr/local/bin if that fails.
Install(tool, orLocal) ==
  <<[do |-> IF orLocal THEN "tool or local" ELSE "tool", facts |-> {tool}, dry |-> TRUE]>>

Run(facts) == Step("run", facts)

-----------------------------------------------------------------------------
(* Programs.                                                                *)

InstallKarmadactl == Install("kubectl-karmada", TRUE)

karmadaInit == Run({<<"karmada", "host", "applied">>})

karmada == InstallKarmadactl \o karmadaInit \o WaitPodReady("karmada", {"host"})

preJoin == InstallKarmadactl

runJoin == Run({<<"cluster", Primary, "joined">>})

join == preJoin \o runJoin

volcanoManifest == {"namespace", "crd", "workload"}

volcanoPolicies == ClusterPropagationPolicy(volcanoManifest) \o PropagationPolicy(volcanoManifest)

volcano == UnlessDryRun(UpdateResource(volcanoManifest, "karmada") \o volcanoPolicies)

installCli == Install("argocd", FALSE)

\* The namespace goes first, and with it what an earlier run has left there.
installArgoCD ==
  Step("delete", {}) \o EnsureNamespaceExist("host")
  \o UnlessDryRun(UpdateResource({"argocd"}, "host") \o UpdateResource({"argocd-server"}, "host")
                  \o WaitPodReady("argocd", {"host"}))

\* The initial password is asked for once; then login and `cluster add'.
addCluster ==
  WaitServiceReady("argocd-server", "host") \o Step("ask", {<<"argocd", "host", "ready">>})
  \o Run({}) \o Run({<<"karmada", "host", "added">>})

argocd == installCli \o installArgoCD \o addCluster

\* subctl is unpacked under another name than it is looked for.
installSubctl == Install("subctl", FALSE)

generateKubeConfiguration == ForEach(Members, memberClusterConfig)

installBroker == Run({<<"broker", Primary, "applied">>})

connectBroker == ForEach(Members, LAMBDA c : Run({<<"gateway", c, "applied">>}))

atLeastTwo == IF Len(Members) < 2 THEN Step("ask", {<<"cluster", "second", "joined">>}) ELSE <<>>

submarinerRunInstall == generateKubeConfiguration \o atLeastTwo \o installBroker \o connectBroker

submariner == installSubctl \o submarinerRunInstall

installHelm == Install("helm", FALSE)

addRepo == Run({})

applyCRDs(c) == Run({<<"crd", c, "applied">>})

waitCRDReady(c) == WaitCRDReady("crd", c)

applyTemplates(c) == Run({<<"vizier", c, "applied">>})

vizierIn(c) ==
  memberClusterConfig(c) \o UnlessDryRun(EnsureNamespaceExist(c))
  \o applyCRDs(c) \o waitCRDReady(c) \o applyTemplates(c)

vizier == installHelm \o addRepo \o ForEach(Members, vizierIn)

installKeadm == Install("keadm", TRUE)

generateKubeResources == Run({})

kubeedgeRunInstall ==
  generateKubeResources
  \o UnlessDryRun(UpdateResource({"rbac", "workload"}, "karmada")
                  \o ClusterPropagationPolicy({"rbac", "workload"})
                  \o PropagationPolicy({"rbac", "workload"}))

\* The service has no namespace of its own; the policy names one in kubeedge's.
exposeCloudcore ==
  UpdateResource({"cloudcore-elb of default"}, "karmada")
  \o ApplyPropagationPolicy("cloudcore-elb", Clusters)

checkReady == WaitPodReady("workload", Clusters)

kubeedge ==
  installKeadm \o UnlessDryRun(EnsureNamespaceExist("karmada"))
  \o kubeedgeRunInstall \o exposeCloudcore \o checkReady

keadmForTheEdge == Install("keadm", TRUE)

getEdgeToken == memberClusterConfig(Primary)

\* The edge node gets keadm from here unless a file of that name is there.
scpKeadm == Step("scp", {"keadm on the edge"})

runKeadmJoin == Run({<<"edge node", Primary, "joined">>})

edge ==
  IsClustersReady({Primary}) \o memberClusterConfig(Primary)
  \o keadmForTheEdge \o getEdgeToken \o scpKeadm \o runKeadmJoin

setup == {"namespace", "crd"}

resources == {"rbac", "workload", "prometheus"}

generatePolicy == ClusterPropagationPolicy(setup \cup resources)

exposePrometheus ==
  Step("ask", {<<"workload", "karmada", "applied">>})
  \o UpdateResource({"elb"}, "karmada") \o ApplyPropagationPolicy("elb", Clusters)

genAdditionalScrapeConfigs == UpdateResource({"scrape configs"}, "karmada")

createAdditionalScrapeConfigs ==
  Step("poll", {}) \o genAdditionalScrapeConfigs
  \o UpdateResource({"override"}, "karmada") \o ApplyPropagationPolicy("scrape configs", {Primary})

prometheus(useFederation) ==
  UpdateResource(setup, "karmada") \o WaitCRDReady("crd", "karmada")
  \o UpdateResource(resources, "karmada")
  \o exposePrometheus \o (IF useFederation THEN createAdditionalScrapeConfigs ELSE <<>>)
  \o generatePolicy \o WaitAPIEnableInClusters("crd")
  \o PropagationPolicy(setup \cup resources)

objectStoreSecret(at) == UpdateResource({"objstore"}, at)

clusterOverridePolicy(c) == Step("apply", {<<"override", c, "applied">>})

overrideExternalLabels == ForEach(Members, clusterOverridePolicy)

generatePropagationPolicies ==
  ClusterPropagationPolicy(setup \cup resources) \o WaitAPIEnableInClusters("crd")
  \o PropagationPolicy(setup \cup resources)

exposeThanosSidecar ==
  Step("ask", {<<"workload", "karmada", "applied">>})
  \o UpdateResource({"elb"}, "karmada") \o ApplyPropagationPolicy("elb", Clusters)

runInstallPrometheus ==
  UpdateResource(setup, "karmada") \o WaitCRDReady("crd", "karmada")
  \o EnsureNamespaceExist("karmada")
  \o objectStoreSecret("karmada") \o ApplyPropagationPolicy("objstore", Clusters)
  \o UpdateResource(resources, "karmada") \o generatePropagationPolicies
  \o overrideExternalLabels \o exposeThanosSidecar

thanosSidecarRemoteEndpoints == UpdateResource({"endpoints"}, "host")

runInstallThanos ==
  EnsureNamespaceExist("host") \o objectStoreSecret("host")
  \o UnlessDryRun(UpdateResource({"thanos"}, "host") \o UpdateResource({"thanos-query"}, "host")
                  \o WaitPodReady("thanos", {"host"}) \o UpdateResource({"sidecar-remote"}, "host")
                  \o Step("list", {}) \o thanosSidecarRemoteEndpoints)

thanos == runInstallPrometheus \o runInstallThanos

installIstioctl == Install("istioctl", FALSE)

ensureNamespaces == EnsureNamespaceExist("karmada")

overrideNamespaceIfNeeded ==
  ForEach(Members, LAMBDA c : Step("apply", {<<"override", c, "applied">>}))

\* The custom resources for the mesh go to the primary alone.
applyPolicyForIstioCustomResource == ApplyPropagationPolicy("istio resources", {Primary})

installCrds == Run({<<"istio crd", "karmada", "applied">>}) \o applyPolicyForIstioCustomResource

\* The secret with the root is generated when there is none, and only then.
createIstioCacerts == Step("cacerts", {}) \o ApplyPropagationPolicy("cacerts", Clusters)

createIstioOperatorDeployment ==
  Run({<<"rbac", "karmada", "applied">>, <<"workload", "karmada", "applied">>})

createIstioOperator ==
  createIstioOperatorDeployment
  \o ClusterPropagationPolicy({"rbac", "workload"}) \o PropagationPolicy({"rbac", "workload"})

iop(c) == IF c = Primary THEN "iop" ELSE "remote iop"

createPrimaryIstioOperator ==
  UpdateResource({iop(Primary)}, "karmada") \o ApplyPropagationPolicy(iop(Primary), {Primary})

createRemoteIstioOperator(c) ==
  UpdateResource({iop(c)}, "karmada") \o ApplyPropagationPolicy(iop(c), {c})

waitIngressgatewayReady(clusters) == Step("wait", {<<iop(c), c, "ready">> : c \in clusters})

exposeServices ==
  Step("wait", {<<iop(Primary), Primary, "ready">>})
  \o UpdateResource({"istio resources"}, "karmada")

installControlPlane ==
  waitSecertReady(Primary) \o createPrimaryIstioOperator
  \o waitIngressgatewayReady({Primary}) \o exposeServices

\* Mutant: an address that is not there is no error.
Mutant_remotePilotAddress == <<>>

\* Asked once, not waited for.
remotePilotAddress == Step("ask", {<<iop(Primary), Primary, "addressed">>})

generateRemoteSecret(c) == memberClusterConfig(c)

createIstioRemoteSecret(c) ==
  generateRemoteSecret(c) \o UpdateResource({"remote secret"}, "karmada")
  \o ApplyPropagationPolicy("remote secret", {Primary})

installRemotes ==
  ForEach(Remotes, LAMBDA c : waitSecertReady(c) \o createIstioRemoteSecret(c)
                              \o createRemoteIstioOperator(c))
  \o waitIngressgatewayReady(Range(Remotes))

runInstall ==
  ensureNamespaces \o overrideNamespaceIfNeeded \o installCrds
  \o createIstioCacerts \o createIstioOperator \o installControlPlane
  \o remotePilotAddress \o installRemotes

istio == installIstioctl \o IsClustersReady(Clusters) \o runInstall

Goal == {"karmada", "join", "volcano", "argocd", "submariner", "vizier", "kubeedge", "edge",
         "prometheus", "federation", "thanos", "istio"}

Execute == [
  karmada |-> karmada, join |-> join, volcano |-> volcano, argocd |-> argocd,
  submariner |-> submariner, vizier |-> vizier, kubeedge |-> kubeedge, edge |-> edge,
  prometheus |-> prometheus(FALSE), federation |-> prometheus(TRUE),
  thanos |-> thanos, istio |-> istio]

ASSUME GoalsAssumption == Goals \subseteq Goal

\* What comes about by itself once its cause is there.
Awaited == [g \in Goal |->
  {f \in UNION {s.facts : s \in {t \in Range(Execute[g]) : t.do \in {"wait", "ask"}}} :
     f[3] \in {"ready", "present", "addressed"}}
  \cup (IF g \in {"federation", "thanos"} THEN {<<"elb", c, "addressed">> : c \in Clusters} ELSE {})]

-----------------------------------------------------------------------------
Init ==
  /\ goal \in Goals
  /\ status = "idle"
  /\ dry = FALSE
  /\ pc = 1
  /\ world = IF goal \in {"karmada", "join"} THEN {} ELSE {<<"cluster", c, "joined">> : c \in Clusters}
  /\ file = [t \in Tool |-> "absent"]
  /\ binary = "missing"
  /\ endpoints = <<>>
  /\ root = 0
  /\ rootIn = [c \in Clusters |-> 0]
  /\ done = FALSE
  /\ mishaps = 0

step == Execute[goal][pc]

\* The user enters the command, for the first time or again.
Start(dryRun) ==
  /\ status # "running"
  /\ dryRun => mishaps < MaxMishaps
  /\ mishaps' = IF dryRun THEN mishaps + 1 ELSE mishaps
  /\ status' = "running"
  /\ dry' = dryRun
  /\ pc' = 1
  /\ binary' = "missing"
  /\ endpoints' = <<>>
  /\ UNCHANGED <<goal, world, file, root, rootIn, done>>

\* Execute goes on to the next step, or returns nil after the last.
Proceed ==
  IF pc < Len(Execute[goal])
    THEN pc' = pc + 1 /\ UNCHANGED <<status, done>>
    ELSE status' = "ok" /\ done' = (done \/ ~dry) /\ UNCHANGED pc

\* Execute returns an error.
Return == status' = "failed" /\ UNCHANGED <<pc, done>>

SkipInDryRun ==
  /\ status = "running"
  /\ dry /\ ~step.dry
  /\ Proceed
  /\ UNCHANGED <<goal, dry, world, file, binary, endpoints, root, rootIn, mishaps>>

At(d) == status = "running" /\ (dry => step.dry) /\ step.do = d

Apply ==
  /\ At("apply")
  /\ world' = world \cup step.facts
  /\ Proceed
  /\ UNCHANGED <<goal, dry, file, binary, endpoints, root, rootIn, mishaps>>

\* The namespace is deleted, and the deletion waited for.
WaitNamespaceDelete ==
  /\ At("delete")
  /\ world' = {f \in world : f[2] # "host"}
  /\ Proceed
  /\ UNCHANGED <<goal, dry, file, binary, endpoints, root, rootIn, mishaps>>

Wait ==
  /\ At("wait")
  /\ step.facts \subseteq world
  /\ Proceed
  /\ UNCHANGED <<goal, dry, world, file, binary, endpoints, root, rootIn, mishaps>>

Ask ==
  /\ At("ask")
  /\ IF step.facts \subseteq world THEN Proceed ELSE Return
  /\ UNCHANGED <<goal, dry, world, file, binary, endpoints, root, rootIn, mishaps>>

TheTool == CHOOSE t \in step.facts : TRUE

\* The file Stat looks for.
found(t) == t # "subctl" /\ file[t] # "absent"

\* What is found is taken as it is; what is not is downloaded and tried.
DownloadResource ==
  /\ At("tool") \/ At("tool or local")
  /\ file' = IF found(TheTool) THEN file ELSE [file EXCEPT ![TheTool] = "installed"]
  /\ binary' = IF file'[TheTool] = "installed" THEN "good" ELSE "broken"
  /\ Proceed
  /\ UNCHANGED <<goal, dry, world, endpoints, root, rootIn, mishaps>>

\* The download fails, is cut off half-way, or the process is killed before
\* the file is made executable; some commands carry on with the local tool.
DownloadFails(left) ==
  /\ At("tool") \/ At("tool or local")
  /\ ~found(TheTool)
  /\ mishaps < MaxMishaps
  /\ mishaps' = mishaps + 1
  /\ file' = [file EXCEPT ![TheTool] = left]
  /\ IF step.do = "tool" THEN Return /\ UNCHANGED binary
       ELSE Proceed /\ binary' = IF TheTool \in Preinstalled THEN "good" ELSE "missing"
  /\ UNCHANGED <<goal, dry, world, endpoints, root, rootIn>>

\* `keadm join' is run on the edge node, every other tool here.
executable == IF goal = "edge" THEN file["keadm on the edge"] = "installed" ELSE binary = "good"

\* What the tool is to join has been joined before.
joinedBefore == step.facts # {} /\ \A f \in step.facts : f \in world /\ f[3] = "joined"

\* To join what is joined is an error for karmadactl (joinCluster of the fleet
\* manager asks before, runJoin does not) and may be one for keadm; the other tools
\* are taken to do again what they have done.
RunTool ==
  /\ At("run")
  /\ \/ /\ executable
        /\ goal = "join" => ~joinedBefore
        /\ world' = world \cup step.facts
        /\ Proceed
     \/ /\ ~executable \/ joinedBefore
        /\ Return
        /\ UNCHANGED world
  /\ UNCHANGED <<goal, dry, file, binary, endpoints, root, rootIn, mishaps>>

\* A file on the edge node is left as it is; else ours is copied, whatever it is.
Scp ==
  /\ At("scp")
  /\ IF file["keadm on the edge"] # "absent" THEN Proceed /\ UNCHANGED file
     ELSE IF binary = "missing" THEN Return /\ UNCHANGED file
     ELSE /\ Proceed
          /\ file' = [file EXCEPT !["keadm on the edge"] = IF binary = "good" THEN "installed" ELSE "broken"]
  /\ UNCHANGED <<goal, dry, world, binary, endpoints, root, rootIn, mishaps>>

ScpFails ==
  /\ At("scp")
  /\ file["keadm on the edge"] = "absent"
  /\ mishaps < MaxMishaps
  /\ mishaps' = mishaps + 1
  /\ \E left \in {"absent", "broken"} : file' = [file EXCEPT !["keadm on the edge"] = left]
  /\ Return
  /\ UNCHANGED <<goal, dry, world, binary, endpoints, root, rootIn>>

\* A new key and certificate.
gen == root + 1

\* Mutant: the certificates are generated in every run.
Mutant_Cacerts ==
  /\ At("cacerts")
  /\ world' = world \cup {<<"cacerts", "karmada", "applied">>}
  /\ root' = gen
  /\ Proceed
  /\ UNCHANGED <<goal, dry, file, binary, endpoints, rootIn, mishaps>>

\* Mutant: creating a secret that is there is an error.
Mutant_CacertsExist ==
  /\ At("cacerts")
  /\ IF <<"cacerts", "karmada", "applied">> \in world THEN Return /\ UNCHANGED <<world, root>>
     ELSE /\ world' = world \cup {<<"cacerts", "karmada", "applied">>}
          /\ root' = gen
          /\ Proceed
  /\ UNCHANGED <<goal, dry, file, binary, endpoints, rootIn, mishaps>>

Cacerts ==
  /\ At("cacerts")
  /\ IF <<"cacerts", "karmada", "applied">> \in world THEN UNCHANGED <<world, root>>
     ELSE /\ world' = world \cup {<<"cacerts", "karmada", "applied">>}
          /\ root' = gen
  /\ Proceed
  /\ UNCHANGED <<goal, dry, file, binary, endpoints, rootIn, mishaps>>

\* The clusters one by one.
AsList(cs) == CHOOSE s \in Injection(1..Cardinality(cs), cs) : TRUE

Addressed == {c \in Clusters : <<"elb", c, "addressed">> \in world}

\* Each poll adds the addresses there are to those of the polls before.
getFederalEndpoints ==
  /\ At("poll")
  /\ LET there == AsList(Addressed \ {Primary}) IN
     /\ endpoints' = endpoints \o there
     /\ IF Len(endpoints') >= Len(Remotes) THEN Proceed ELSE there # <<>> /\ UNCHANGED <<pc, status, done>>
  /\ UNCHANGED <<goal, dry, world, file, binary, root, rootIn, mishaps>>

\* Thanos takes the addresses there are.
thanosSidecarElbIPs ==
  /\ At("list")
  /\ endpoints' = AsList(Addressed)
  /\ Proceed
  /\ UNCHANGED <<goal, dry, world, file, binary, root, rootIn, mishaps>>

\* A step fails, times out or is interrupted after any part of its work.  To fail
\* at "cacerts", "delete" or "list" is to fail before it or at the step behind.
StepFails ==
  /\ \E d \in {"apply", "run", "wait", "ask", "poll"} : At(d)
  /\ mishaps < MaxMishaps
  /\ mishaps' = mishaps + 1
  /\ \E part \in SUBSET step.facts :
       world' = IF step.do \in {"apply", "run"} THEN world \cup part ELSE world
  /\ Return
  /\ UNCHANGED <<goal, dry, file, binary, endpoints, root, rootIn>>

\* What a dry run has left out never gets ready.
DryRunTimesOut ==
  /\ At("wait") \/ At("poll")
  /\ dry
  /\ Return
  /\ UNCHANGED <<goal, dry, world, file, binary, endpoints, root, rootIn, mishaps>>

\* Karmada carries what is placed to the members; there, as in Karmada and
\* the host, pods start, definitions are served and addresses are assigned.
caused(f) ==
  \/ <<f[1], f[2], "applied">> \in world
  \/ {<<f[1], "karmada", "applied">>, <<f[1], f[2], "placed">>} \subseteq world
  \/ <<"cluster", f[2], "joined">> \in world /\ f[1] = "cluster"

Provide(f) ==
  /\ f \notin world
  /\ caused(f)
  /\ world' = world \cup {f}
  /\ rootIn' = IF f[1] = "cacerts" THEN [rootIn EXCEPT ![f[2]] = root] ELSE rootIn
  /\ UNCHANGED <<goal, status, dry, pc, file, binary, endpoints, root, done, mishaps>>

Work ==
  \/ SkipInDryRun \/ Apply \/ WaitNamespaceDelete \/ Wait \/ Ask
  \/ DownloadResource \/ RunTool \/ Scp \/ Cacerts
  \/ getFederalEndpoints \/ thanosSidecarElbIPs

Next ==
  \/ \E d \in BOOLEAN : Start(d)
  \/ Work
  \/ \E left \in {"absent", "broken"} : DownloadFails(left)
  \/ ScpFails \/ StepFails \/ DryRunTimesOut
  \/ \E f \in Awaited[goal] : Provide(f)

Spec == Init /\ [][Next]_vars

\* The process runs, clusters get ready in the end, and the user tries again.
FairSpec ==
  /\ Spec
  /\ WF_vars(Work)
  /\ WF_vars(DryRunTimesOut)
  /\ WF_vars(\E f \in Awaited[goal] : Provide(f))
  /\ WF_vars(~done /\ Start(FALSE))

-----------------------------------------------------------------------------
(* Properties.                                                              *)

\* Type correctness: polling lists fewer endpoints than two full rounds, and one
\* root is ever generated (getFederalEndpoints, Cacerts).
\* Checked as a part of OneRoot.
TypeOK ==
  /\ goal \in Goals
  /\ status \in {"idle", "running", "failed", "ok"}
  /\ dry \in BOOLEAN /\ done \in BOOLEAN
  /\ binary \in {"missing", "broken", "good"}
  /\ pc \in 1..Len(Execute[goal])
  /\ file \in [Tool -> {"absent", "broken", "installed"}]
  /\ Range(endpoints) \subseteq Clusters /\ Len(endpoints) < 2 * Len(Members)
  /\ root \in 0..1
  /\ rootIn \in [Clusters -> 0..1]
  /\ mishaps \in 0..MaxMishaps

\* The members never hold cacerts of different roots, however often the
\* installation of Istio is cut off and begun again (createIstioCacerts).
OneRoot ==
  /\ TypeOK
  /\ \A c, d \in Clusters : rootIn[c] # 0 /\ rootIn[d] # 0 => rootIn[c] = rootIn[d]

\* A remote cluster's IstioOperator is placed only when the cluster has the root
\* and the primary's gateway is ready and has the address the remote is
\* given (installControlPlane, remotePilotAddress, installRemotes).
RemotesAfterPrimary ==
  \A c \in Range(Remotes) :
    <<"remote iop", c, "placed">> \in world =>
      /\ {<<"iop", Primary, "ready">>, <<"iop", Primary, "addressed">>} \subseteq world
      /\ rootIn[c] # 0

\* A command that is tried again and again succeeds, unless a file that cannot be
\* executed was left where the tool is looked for, or what it had to join was
\* joined by a run that failed or was interrupted: then the work is done, and
\* every further run may report an error (runJoin, runKeadmJoin).
RetriesSucceed ==
  <>(\/ done
     \/ \E t \in Tool \ {"subctl"} : file[t] = "broken"
     \/ goal = "join" /\ <<"cluster", Primary, "joined">> \in world
     \/ goal = "edge" /\ <<"edge node", Primary, "joined">> \in world)
=============================================================================

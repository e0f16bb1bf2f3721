------------------------------- MODULE Cluster ------------------------------
(***************************************************************************)
(* The Cluster controller of the cluster operator, with its AWS provider.   *)
(* For a Cluster it makes, in this order, a secret and an identity for the  *)
(* AWS provider of Cluster API, a CloudFormation stack, a pod identity (a   *)
(* bucket with the keys that sign service account tokens, and an OpenID     *)
(* connect provider), and the objects of Cluster API, which then boots the  *)
(* cluster.  It adds the network plugin once the API server answers, and    *)
(* additional resources once all nodes are ready.                           *)
(*                                                                          *)
(* One step of the controller is one whole call of Reconcile.  It has one   *)
(* worker, and watches Clusters and the secrets they own.                   *)
(***************************************************************************)
EXTENDS FiniteSetsExt, Sequences

CONSTANTS
  PodIdentity, \* spec.podIdentity.enabled
  MaxEdits,    \* bound on the edits of the additional resources and the secret
  MaxMishaps   \* bound on the calls that fail

ASSUME SettingAssumption == PodIdentity \in BOOLEAN
ASSUME BoundAssumption == MaxEdits \in Nat /\ MaxMishaps \in Nat

ClusterPhase == {"", "Provisioning", "Ready", "Deleting", "Failed"}

\* What is either there or not: on the host cluster and in AWS.  "access": the
\* bucket allows public access; "owned": the Cluster owns what the resource
\* sets refer to.
Item == {"secret", "identity", "stack", "bucket", "access", "oidc", "awsCluster",
         "cniConfigMap", "cniResourceSet", "owned"}

VARIABLES
  exists, deletionTimestamp, finalizer, \* the Cluster
  phase, kubeconfigRef, \* its status
  additional,    \* its additional resources: 0 for none, else a version of the list
  credential,    \* the secret of the user: "Missing", "Invalid", "Valid"
  secretOwned,   \* that secret has the Cluster as owner
  queued,        \* Reconcile is due
  made,          \* the items that are there
  files,         \* the certificate each file of the bucket is from, or 0
  resourceSet,   \* the additional resources that are applied
  capi,          \* what Cluster API has got to
  nodes,         \* the machine sets: "None", "Starting", "Ready"
  bootKey,       \* the certificate the control plane was booted with, or 0
  misled,        \* a bucket or an OpenID provider that is there was not found
  edits, mishaps \* what is left of the bounds

objectVars == <<exists, deletionTimestamp, finalizer>>

statusVars == <<phase, kubeconfigRef>>

userVars == <<additional, credential>>

infraVars == <<made, files, resourceSet>>

capiVars == <<nodes, bootKey>>

vars == <<objectVars, statusVars, userVars, secretOwned, queued, infraVars, capi, capiVars, misled, edits, mishaps>>
-----------------------------------------------------------------------------
(* The AWS provider *)

\* The files of the bucket in the order of their upload.  The first two are
\* public, the last three come from the certificate.
S3Files == <<"openid-configuration", "keys.json", "sa-signer.key", "sa-signer-pkcs8.pub">>

File == Range(S3Files)

Public == {"openid-configuration", "keys.json"}

\* NewCert makes a new certificate.
NewCert == 1 + Max({files[f] : f \in File})

\* PutObject makes the bucket if it is not there.
PutObjects == (IF "bucket" \in made THEN <<>> ELSE <<"bucket", "access">>) \o S3Files

\* Mutant: the certificate is made again each time.
Mutant_ReconcilePodIdentity(exist) == PutObjects \o (IF exist THEN <<>> ELSE <<"oidc">>)

\* exist: the OpenID provider was found; an error of the lookup is not looked at.
ReconcilePodIdentity(exist) == IF exist THEN <<>> ELSE PutObjects \o <<"oidc">>

\* Each of these makes what is not there, and updates what is.
reconcileAWSClusterSecret == <<"secret">>

reconcileAWSIdentity == <<"identity">>

reconcileAWSCreds == reconcileAWSClusterSecret \o reconcileAWSIdentity

reconcileAWSBootstrapStack == <<"stack">>

reconcileAWSCluster == <<"awsCluster">>

reconcileAWSClusterAPIResources == reconcileAWSCluster \o <<"capi">>

reconcileCNI == <<"cniConfigMap", "cniResourceSet">>

reconcileAdditionalResources == <<"additional">>

\* The Cluster becomes an owner of what the resource sets refer to.
ensureOwnerReference == <<"owned">>

\* What Reconcile of the provider makes, in order.
ReconcileProvider(exist) ==
  reconcileAWSCreds \o reconcileAWSBootstrapStack
  \o (IF PodIdentity THEN ReconcilePodIdentity(exist) ELSE <<>>)
  \o reconcileAWSClusterAPIResources

\* A public file needs a bucket with public access, and an OpenID provider that
\* is there is not made again.
Fails(i) ==
  \/ i \in Public /\ "bucket" \in made /\ "access" \notin made
  \/ i = "oidc" /\ "oidc" \in made

\* Mutant: the kubeconfig is looked for as soon as the provider is called.
Mutant_kubeconfigDue(p) == FALSE

\* reconcileKubeconfig does nothing before the Cluster is ready.
kubeconfigDue(p) == p = "Ready"

\* The address is known before the secret with the kubeconfig is there.
kubeconfigFails(p) == kubeconfigDue(p) /\ capi = "Endpoint"

\* The Ready condition is false; there is none before Cluster API sets it.
readyIsFalse == capi \in {"Provisioning", "Endpoint"}

IsInitialized == ~readyIsFalse

IsReady == ~readyIsFalse /\ nodes # "Starting"

\* What a call makes: found tells that the Cluster of Cluster API is in the
\* cache when it is looked up.
Work(exist, found) ==
  LET init  == found /\ IsInitialized
      ready == init /\ IsReady
  IN ReconcileProvider(exist)
     \o <<"kubeconfig">>
     \o (IF init THEN reconcileCNI ELSE <<>>)
     \o (IF ready THEN reconcileAdditionalResources \o ensureOwnerReference ELSE <<>>)

\* The first k of w are made.
Make(w, k, p, patched) ==
  LET done == Range(SubSeq(w, 1, k)) IN
  /\ made' = made \cup (done \cap Item)
  /\ files' = [f \in File |-> IF f \in done THEN NewCert ELSE files[f]]
  /\ resourceSet' = IF "additional" \in done /\ additional # 0 THEN additional ELSE resourceSet
  /\ capi' = IF "capi" \in done /\ capi = "None" THEN "Applied" ELSE capi
  /\ kubeconfigRef' = (kubeconfigRef \/ (patched /\ "kubeconfig" \in done /\ kubeconfigDue(p) /\ capi = "Up"))
-----------------------------------------------------------------------------
(* Reconcile *)

\* The phase becomes p.  The call is repeated if it asks for it, and if its
\* patch changes the Cluster.
EndReconcile(p, requeue, mishap) ==
  /\ phase' = p
  /\ mishap => mishaps > 0
  /\ mishaps' = IF mishap THEN mishaps - 1 ELSE mishaps
  /\ queued' = (requeue \/ p # phase \/ finalizer' # finalizer)

\* Mutant: the finalizer is added again after the deletion.
Mutant_Finalize(f) ==
  /\ finalizer' = TRUE
  /\ UNCHANGED <<exists, deletionTimestamp>>

Finalize(f) ==
  /\ finalizer' = f
  /\ exists' = ~(deletionTimestamp /\ ~f)
  /\ UNCHANGED deletionTimestamp

\* The secret is owned by the Cluster until that is deleted.
reconcileSecretOwnerReference == secretOwned' = ~deletionTimestamp

reconcileGone ==
  /\ queued /\ ~exists
  /\ queued' = FALSE
  /\ UNCHANGED <<objectVars, statusVars, userVars, secretOwned, infraVars, capi, capiVars, misled, edits, mishaps>>

\* The secret is missing, or cannot be patched: "do not requeue".
reconcileNoSecret(mishap) ==
  /\ queued /\ exists
  /\ credential = "Missing" \/ mishap
  /\ UNCHANGED objectVars
  /\ EndReconcile("Failed", FALSE, mishap)
  /\ UNCHANGED <<kubeconfigRef, userVars, secretOwned, infraVars, capi, capiVars, misled, edits>>

\* The credentials are refused, or AWS does not answer: "do not requeue".
reconcilePrecheckFails(mishap) ==
  /\ queued /\ exists /\ credential # "Missing"
  /\ credential = "Invalid" \/ mishap
  /\ reconcileSecretOwnerReference
  /\ UNCHANGED objectVars
  /\ EndReconcile("Failed", FALSE, mishap)
  /\ UNCHANGED <<kubeconfigRef, userVars, infraVars, capi, capiVars, misled, edits>>

Checked == queued /\ exists /\ credential = "Valid"

\* The phase a call starts with: the finalizer is added before any work.
startPhase == IF finalizer THEN phase ELSE "Provisioning"

\* Where a call that is to make w stops if no call it makes fails by accident.
Stop(w) ==
  LET bad == {i \in 1..Len(w) : Fails(w[i]) \/ (w[i] = "kubeconfig" /\ kubeconfigFails(startPhase))}
  IN IF bad = {} THEN Len(w) ELSE Min(bad) - 1

\* A call that makes the first k of w and stops; the finalizer is written by the
\* patch at its end.
reconcile(w, stop, k, patched) ==
  LET ready == k = Len(w) /\ w[k] = "owned" IN
  /\ patched \/ k = Len(w)
  /\ reconcileSecretOwnerReference
  /\ Make(w, k, startPhase, patched)
  /\ Finalize(finalizer \/ patched)
  /\ EndReconcile(IF ~patched THEN phase ELSE IF k < Len(w) THEN "Failed" ELSE IF ready THEN "Ready" ELSE startPhase,
                  ~ready \/ ~patched, k < stop \/ ~patched)
  /\ UNCHANGED <<userVars, capiVars, edits>>

\* The OpenID provider is looked up; a Cluster of Cluster API that has just been
\* made may not be in the cache yet.
reconcileNormal(found, patched) ==
  /\ Checked /\ ~deletionTimestamp
  /\ found \/ capi = "None"
  /\ \E w \in {Work("oidc" \in made, found)} : \E stop \in {Stop(w)} :
       \E k \in IF mishaps > 0 THEN 0..stop ELSE {stop} : reconcile(w, stop, k, patched)
  /\ UNCHANGED misled

\* The lookup of the OpenID provider fails, and counts as one that found none.
reconcileLookupFails ==
  /\ Checked /\ ~deletionTimestamp
  /\ mishaps > 0 /\ "oidc" \in made
  /\ \E w \in {Work(FALSE, TRUE)} : \E k \in 0..Stop(w) : reconcile(w, k + 1, k, TRUE)
  /\ misled' = TRUE

\* The first call for a Cluster that is deleted only sets the phase.
reconcileDeleting(patched) ==
  /\ Checked /\ deletionTimestamp /\ phase # "Deleting"
  /\ reconcileSecretOwnerReference
  /\ UNCHANGED objectVars
  /\ EndReconcile(IF patched THEN "Deleting" ELSE phase, ~patched, ~patched)
  /\ UNCHANGED <<kubeconfigRef, userVars, infraVars, capi, capiVars, misled, edits>>

\* Mutant: the deletion does not wait for Cluster API.
Mutant_capiGone == TRUE

capiGone == capi = "None"

\* The Cluster of Cluster API is deleted first.
reconcileDeleteCAPI(failed) ==
  /\ Checked /\ deletionTimestamp /\ phase = "Deleting" /\ ~capiGone
  /\ reconcileSecretOwnerReference
  /\ capi' = IF failed THEN capi ELSE "Deleting"
  /\ UNCHANGED objectVars
  /\ EndReconcile(IF failed THEN "Failed" ELSE phase, TRUE, failed)
  /\ UNCHANGED <<kubeconfigRef, userVars, infraVars, capiVars, misled, edits>>

\* A bucket that is not found, for whatever reason, is not deleted.
DeleteBucket(found) == IF found THEN <<"files", "bucket">> ELSE <<>>

deleteOpenIDConnectProvider == <<"oidc">>

deleteAWSBootstrapStack == <<"stack">>

\* What Clean of the provider deletes, in order, and then the resource sets.
Clean(found) ==
  (IF PodIdentity THEN DeleteBucket(found) \o deleteOpenIDConnectProvider ELSE <<>>)
  \o deleteAWSBootstrapStack \o <<"identity", "cniResourceSet", "additional">>

\* Mutant: an error of the deletion is only logged.
Mutant_keepsFinalizer(failed) == FALSE

keepsFinalizer(failed) == failed

reconcileDelete(k, found, patched) ==
  LET w      == Clean(found)
      gone   == Range(SubSeq(w, 1, k))
      failed == k < Len(w)
  IN
  /\ Checked /\ deletionTimestamp /\ phase = "Deleting" /\ capiGone
  /\ k <= Len(w)
  /\ patched \/ ~failed
  /\ found = ("bucket" \in made) \/ (~found /\ mishaps > 0)
  /\ reconcileSecretOwnerReference
  /\ made' = made \ (gone \cup (IF "bucket" \in gone THEN {"access"} ELSE {}))
  /\ files' = IF "files" \in gone THEN [f \in File |-> 0] ELSE files
  /\ resourceSet' = IF "additional" \in gone THEN 0 ELSE resourceSet
  /\ Finalize(keepsFinalizer(failed) \/ ~patched)
  /\ EndReconcile(IF failed THEN "Failed" ELSE phase, failed \/ ~patched,
                  failed \/ ~patched \/ found # ("bucket" \in made))
  /\ misled' = (misled \/ found # ("bucket" \in made))
  /\ UNCHANGED <<kubeconfigRef, userVars, capi, capiVars, edits>>

Reconcile ==
  \/ reconcileGone
  \/ \E mishap \in BOOLEAN : reconcileNoSecret(mishap) \/ reconcilePrecheckFails(mishap) \/ reconcileDeleteCAPI(mishap)
  \/ \E patched \in BOOLEAN : reconcileDeleting(patched)
  \/ \E found, patched \in BOOLEAN : reconcileNormal(found, patched)
  \/ reconcileLookupFails
  \/ Checked /\ \E found, patched \in BOOLEAN : \E k \in 0..Len(Clean(found)) : reconcileDelete(k, found, patched)
-----------------------------------------------------------------------------
(* Cluster API, the garbage collector and users (external). *)

\* Cluster API sets conditions, the address, the kubeconfig, and boots the
\* control plane with the keys of the bucket.
CAPIProvisions ==
  \/ /\ capi = "Applied"
     /\ capi' = "Provisioning"
     /\ nodes' = "Starting"
     /\ UNCHANGED bootKey
  \/ /\ capi = "Provisioning"
     /\ capi' = "Endpoint"
     /\ bootKey' = files["sa-signer.key"]
     /\ UNCHANGED nodes
  \/ /\ capi = "Endpoint"
     /\ capi' = "Up"
     /\ UNCHANGED capiVars

CAPIStep ==
  /\ CAPIProvisions
  /\ UNCHANGED <<objectVars, statusVars, userVars, secretOwned, queued, infraVars, misled, edits, mishaps>>

\* Nodes are not ready before they have a network.
NodesReady ==
  /\ capi = "Up" /\ nodes = "Starting" /\ "cniResourceSet" \in made
  /\ nodes' = "Ready"
  /\ UNCHANGED <<objectVars, statusVars, userVars, secretOwned, queued, infraVars, capi, bootKey, misled, edits, mishaps>>

\* Cluster API owns the AWSCluster of its Cluster.
CAPIDeletes ==
  /\ capi = "Deleting"
  /\ capi' = "None"
  /\ made' = made \ {"awsCluster"}
  /\ nodes' = "None" /\ bootKey' = 0
  /\ UNCHANGED <<objectVars, statusVars, userVars, secretOwned, queued, files, resourceSet, misled, edits, mishaps>>

\* The AWS provider of Cluster API makes the identity the owner of the secret.
GarbageCollect ==
  LET orphans == (IF "identity" \notin made THEN {"secret"} ELSE {})
                 \cup (IF "owned" \in made THEN {"cniConfigMap", "owned"} ELSE {}) IN
  /\ ~exists
  /\ made \cap orphans # {}
  /\ made' = made \ orphans
  /\ UNCHANGED <<objectVars, statusVars, userVars, secretOwned, queued, files, resourceSet, capi, capiVars, misled, edits, mishaps>>

DeleteCluster ==
  /\ exists /\ ~deletionTimestamp
  /\ deletionTimestamp' = TRUE
  /\ exists' = finalizer
  /\ queued' = TRUE
  /\ UNCHANGED <<finalizer, statusVars, userVars, secretOwned, infraVars, capi, capiVars, misled, edits, mishaps>>

EditAdditional ==
  /\ exists /\ edits > 0
  /\ edits' = edits - 1
  /\ additional' \in (0..2) \ {additional}
  /\ queued' = TRUE
  /\ UNCHANGED <<objectVars, statusVars, credential, secretOwned, infraVars, capi, capiVars, misled, mishaps>>

\* The secret is written or deleted: SecretToClusterFunc wakes its owner.
SecretToClusterFunc == queued' = (queued \/ secretOwned)

EditSecret(c) ==
  /\ exists
  /\ c = "Valid" \/ edits > 0
  /\ c # credential
  /\ credential' = c
  /\ edits' = IF c = "Valid" THEN edits ELSE edits - 1
  /\ secretOwned' = (secretOwned /\ credential # "Missing" /\ c # "Missing")
  /\ SecretToClusterFunc
  /\ UNCHANGED <<objectVars, statusVars, additional, infraVars, capi, capiVars, misled, mishaps>>

\* Every object is reconciled again now and then.
Resync ==
  /\ exists /\ ~queued
  /\ queued' = TRUE
  /\ UNCHANGED <<objectVars, statusVars, userVars, secretOwned, infraVars, capi, capiVars, misled, edits, mishaps>>

Environment ==
  \/ CAPIStep \/ NodesReady \/ CAPIDeletes \/ GarbageCollect
  \/ DeleteCluster \/ EditAdditional \/ Resync
  \/ \E c \in {"Missing", "Invalid", "Valid"} : EditSecret(c)
-----------------------------------------------------------------------------
\* The Cluster has just been applied.
Init ==
  /\ exists = TRUE
  /\ deletionTimestamp = FALSE
  /\ finalizer = FALSE
  /\ phase = ""
  /\ kubeconfigRef = FALSE
  /\ additional \in {0, 1}
  /\ credential \in {"Missing", "Valid"}
  /\ secretOwned = FALSE
  /\ queued = TRUE
  /\ made = {}
  /\ files = [f \in File |-> 0]
  /\ resourceSet = 0
  /\ capi = "None"
  /\ nodes = "None"
  /\ bootKey = 0
  /\ misled = FALSE
  /\ edits = MaxEdits
  /\ mishaps = MaxMishaps

Next == Reconcile \/ Environment

Spec == Init /\ [][Next]_vars

\* The work queue hands out what is queued, the informers resync, and Cluster
\* API gets on with its work.
Fairness ==
  /\ WF_vars(Reconcile)
  /\ WF_vars(Resync)
  /\ WF_vars(CAPIStep)
  /\ WF_vars(NodesReady)
  /\ WF_vars(CAPIDeletes)

FairSpec == Spec /\ Fairness
-----------------------------------------------------------------------------
(* Properties. *)

\* Type correctness: the phases are those the API declares, and every failed
\* call costs at most one more certificate (ReconcilePodIdentity).
\* Checked as a part of CAPIHasItsInfra.
TypeOK ==
  /\ {exists, deletionTimestamp, finalizer, kubeconfigRef, secretOwned, queued, misled} \subseteq BOOLEAN
  /\ phase \in ClusterPhase
  /\ {additional, resourceSet} \subseteq 0..2
  /\ credential \in {"Missing", "Invalid", "Valid"}
  /\ made \subseteq Item
  /\ files \in [File -> 0..(MaxMishaps + 1)]
  /\ capi \in {"None", "Applied", "Provisioning", "Endpoint", "Up", "Deleting"}
  /\ nodes \in {"None", "Starting", "Ready"}
  /\ bootKey \in 0..(MaxMishaps + 1)
  /\ edits \in Nat /\ mishaps \in Nat

\* "do not recreate certs if openid connect provider exists": once there is an
\* OpenID provider, the files of the bucket are of one certificate, however many
\* uploads were cut short before, and it is the one the control plane was
\* booted with.
OneCert ==
  ~deletionTimestamp /\ "oidc" \in made =>
    /\ \A f, g \in File : files[f] = files[g]
    /\ bootKey # 0 => bootKey = files["sa-signer.key"]

\* It is so as long as every lookup is answered.
CertsKept == misled \/ OneCert

\* Keys and instance profiles are there as long as Cluster API may need them to
\* boot or to delete machines.
CAPIHasItsInfra ==
  /\ TypeOK
  /\ capi # "None" => /\ {"secret", "identity", "stack", "awsCluster"} \subseteq made
                      /\ PodIdentity => {"bucket", "oidc"} \subseteq made

\* "Clean removes all resources created by the provider": when the finalizer is
\* removed nothing is left in AWS, if every lookup was answered, and Cluster API
\* has nothing left.
CleanedUp ==
  [][exists /\ finalizer /\ ~exists' =>
       /\ made' \cap ({"oidc", "stack", "identity", "cniResourceSet"} \cup (IF misled' THEN {} ELSE {"bucket"})) = {}
       /\ resourceSet' = 0
       /\ capi' = "None"]_vars

\* A Cluster with valid credentials gets ready, has its kubeconfig and the
\* network plugin, and keeps to the additional resources asked for, whatever
\* failed before; unless the bucket was made and its access could not be set.
BecomesReady ==
  <>[](exists /\ ~deletionTimestamp /\ credential = "Valid") =>
    \/ <>[]("bucket" \in made /\ "access" \notin made)
    \/ <>[](/\ phase = "Ready" /\ kubeconfigRef /\ nodes = "Ready" /\ "owned" \in made
            /\ additional # 0 => resourceSet = additional)

\* A Cluster that is deleted goes away, if its secret is there and valid.
DeletionCompletes ==
  (deletionTimestamp /\ exists) ~> (~exists \/ credential # "Valid")
=============================================================================

----------------------------- MODULE KubeVersion -----------------------------
(***************************************************************************)
(* Kubernetes versions as the cluster operator compares them.  A version    *)
(* is the triple <<major, minor, patch>> that semver.NewVersion yields for  *)
(* "vX.Y.Z"; a string semver refuses (the empty string the controller uses  *)
(* when it knows no version) is any value that is not such a triple.        *)
(***************************************************************************)
EXTENDS Integers

SemVer == Nat \X Nat \X Nat

\* semver's order: major, then minor, then patch.
Compare(a, b) ==
  IF a[1] # b[1] THEN a[1] - b[1]
  ELSE IF a[2] # b[2] THEN a[2] - b[2]
  ELSE a[3] - b[3]

\* kubeadm moves a cluster by at most one minor version, in either direction.
isKubeadmUpgradeSupported(origin, target) ==
  /\ origin \in SemVer
  /\ target \in SemVer
  /\ origin[1] = target[1]
  /\ origin[2] - target[2] <= 1
  /\ target[2] - origin[2] <= 1

isSupportedVersion(desired, min, max) ==
  /\ {desired, min, max} \subseteq SemVer
  /\ Compare(desired, min) >= 0
  /\ Compare(desired, max) <= 0

\* The two kubespray releases the workers run, by the cluster's version.
getKubesprayImage(target) ==
  IF target \notin SemVer THEN ""
  ELSE IF Compare(target, <<1, 24, 0>>) >= 0 THEN "v2.22.1" ELSE "v2.20.0"
=============================================================================

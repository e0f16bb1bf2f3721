--------------------------- MODULE Cluster_proofs ---------------------------
(***************************************************************************)
(* Theorems about Cluster, with and without a pod identity, and for all     *)
(* bounds.                                                                  *)
(***************************************************************************)
EXTENDS Cluster, NaturalsInduction, SequenceTheorems, WellFoundedInduction, TLAPS

-----------------------------------------------------------------------------
(* Facts about the helpers. *)

LEMMA Minimum ==
  ASSUME NEW S \in SUBSET Nat, S # {}
  PROVE  \E i \in S : \A j \in S : i <= j
<1> DEFINE less == {ij \in Nat \X Nat : ij[1] < ij[2]}
<1>1. IsWellFoundedOn(less, Nat)
  BY NatLessThanWellFounded DEF OpToRel
<1>2. \A i, j \in Nat : <<j, i>> \notin less => i <= j
  OBVIOUS
<1> HIDE DEF less
<1>3. PICK i \in S : \A j \in S : ~(<<j, i>> \in less)
  BY <1>1, WFMin
<1> QED
  BY <1>2, <1>3

\* What a call makes or deletes.
Thing == {"secret", "identity", "stack", "bucket", "access", "openid-configuration", "keys.json", "sa-signer.key",
          "sa-signer-pkcs8.pub", "oidc", "awsCluster", "capi", "kubeconfig", "cniConfigMap", "cniResourceSet",
          "additional", "owned", "files"}

\* The first k of w.
First(w, k) == {w[i] : i \in 1..k}

LEMMA FirstOf ==
  ASSUME NEW w \in Seq(Thing), NEW k \in 0..Len(w)
  PROVE  Range(SubSeq(w, 1, k)) = First(w, k)
<1>1. /\ DOMAIN SubSeq(w, 1, k) = 1..k
      /\ \A i \in 1..k : SubSeq(w, 1, k)[i] = w[i]
  OBVIOUS
<1> DEFINE v == SubSeq(w, 1, k)
<1> HIDE DEF v
<1>2. Range(v) = First(w, k)
  BY <1>1 DEF Range, First, v
<1> QED
  BY <1>2 DEF v

LEMMA Joined ==
  ASSUME NEW S, NEW a \in Seq(S), NEW b \in Seq(S), Len(a) = 1
  PROVE  a \o b \in Seq(S) /\ Len(a \o b) \in Nat \ {0} /\ (a \o b)[1] = a[1]
<1>1. a \o b \in Seq(S) /\ Len(a \o b) = Len(a) + Len(b)
  BY ConcatProperties
<1>2. Len(b) \in Nat
  BY LenProperties
<1>3. (a \o b)[1] = a[1]
  <2>1. \A i \in 1..(Len(a) + Len(b)) : (a \o b)[i] = IF i <= Len(a) THEN a[i] ELSE b[i - Len(a)]
    BY ConcatProperties
  <2> DEFINE ab == a \o b
  <2> HIDE DEF ab
  <2>2. \A i \in 1..(1 + Len(b)) : ab[i] = IF i <= 1 THEN a[i] ELSE b[i - 1]
    BY <2>1 DEF ab
  <2>3. ab[1] = a[1]
    BY <1>2, <2>2
  <2> QED
    BY <2>3 DEF ab
<1> QED
  BY <1>1, <1>2, <1>3

LEMMA Both ==
  ASSUME NEW a \in Seq(Thing), NEW b \in Seq(Thing)
  PROVE  /\ a \o b \in Seq(Thing)
         /\ Len(a \o b) = Len(a) + Len(b)
         /\ \A i \in 1..Len(a) : (a \o b)[i] = a[i]
         /\ \A i \in 1..Len(b) : (a \o b)[Len(a) + i] = b[i]
  OBVIOUS

LEMMA FirstOfBoth ==
  ASSUME NEW a \in Seq(Thing), NEW b \in Seq(Thing), NEW k \in 0..(Len(a) + Len(b))
  PROVE  /\ k <= Len(a) => First(a \o b, k) = First(a, k)
         /\ k > Len(a) => First(a \o b, k) = First(a, Len(a)) \cup First(b, k - Len(a))
<1>1. \A i \in 1..Len(a) : (a \o b)[i] = a[i]
  OBVIOUS
<1>2. \A i \in 1..Len(b) : (a \o b)[Len(a) + i] = b[i]
  OBVIOUS
<1> DEFINE c == a \o b
<1> HIDE DEF c
<1>3. CASE k <= Len(a)
  BY <1>1, <1>3 DEF First, c
<1>4. CASE k > Len(a)
  <2>1. First(c, k) \subseteq First(a, Len(a)) \cup First(b, k - Len(a))
    <3> SUFFICES ASSUME NEW i \in 1..k PROVE c[i] \in First(a, Len(a)) \cup First(b, k - Len(a))
      BY DEF First
    <3>1. CASE i <= Len(a)
      BY <1>1, <3>1 DEF First, c
    <3>2. CASE i > Len(a)
      <4>1. i - Len(a) \in 1..(k - Len(a)) /\ i - Len(a) \in 1..Len(b) /\ Len(a) + (i - Len(a)) = i
        BY <3>2
      <4> QED
        BY <1>2, <4>1 DEF First, c
    <3> QED
      BY <3>1, <3>2
  <2>2. First(a, Len(a)) \subseteq First(c, k)
    BY <1>1, <1>4 DEF First, c
  <2>3. First(b, k - Len(a)) \subseteq First(c, k)
    <3> SUFFICES ASSUME NEW i \in 1..(k - Len(a)) PROVE b[i] \in First(c, k)
      BY DEF First
    <3>1. i \in 1..Len(b) /\ Len(a) + i \in 1..k
      BY <1>4
    <3> QED
      BY <1>2, <3>1 DEF First, c
  <2> QED
    BY <1>4, <2>1, <2>2, <2>3 DEF c
<1> QED
  BY <1>3, <1>4 DEF c

\* The files of the bucket.
LEMMA Files == File = {"openid-configuration", "keys.json", "sa-signer.key", "sa-signer-pkcs8.pub"}
  BY DEF File, S3Files, Range

LEMMA Literals ==
  /\ <<>> \in Seq(Thing) /\ Len(<<>>) = 0
  /\ <<"bucket", "access">> \in Seq(Thing)
  /\ Len(<<"bucket", "access">>) = 2 /\ First(<<"bucket", "access">>, 2) = {"bucket", "access"}
  /\ \A k \in 0..2 : First(<<"bucket", "access">>, k) \subseteq {"bucket", "access"}
  /\ <<"oidc">> \in Seq(Thing) /\ Len(<<"oidc">>) = 1 /\ First(<<"oidc">>, 1) = {"oidc"}
  BY DEF Thing, First

LEMMA Uploads ==
  /\ S3Files \in Seq(Thing) /\ Len(S3Files) = 4 /\ First(S3Files, 4) = File
  /\ \A k \in 0..4 : First(S3Files, k) \subseteq File
  /\ \A k \in 1..4 : "openid-configuration" \in First(S3Files, k)
<1>1. S3Files \in Seq(Thing) /\ Len(S3Files) = 4
  BY DEF S3Files, Thing
<1>2. First(S3Files, 4) = File
  BY Files DEF S3Files, First
<1>3. \A k \in 0..4 : First(S3Files, k) \subseteq File
  BY Files DEF S3Files, First
<1>4. \A k \in 1..4 : "openid-configuration" \in First(S3Files, k)
  BY DEF S3Files, First
<1> QED
  BY <1>1, <1>2, <1>3, <1>4

\* What is made for the pod identity: all files are uploaded to a bucket that
\* is there, before the OpenID provider is made.
PodWork == PutObjects \o <<"oidc">>

LEMMA PodWorkOrder ==
  /\ PodWork \in Seq(Thing)
  /\ \A k \in 0..Len(PodWork) :
       /\ First(PodWork, k) \subseteq File \cup {"bucket", "access", "oidc"}
       /\ "oidc" \in First(PodWork, k) <=> k = Len(PodWork)
       /\ k = Len(PodWork) => File \subseteq First(PodWork, k)
       /\ First(PodWork, k) \cap File # {} =>
            "bucket" \in made \cup First(PodWork, k) /\ "openid-configuration" \in First(PodWork, k)
<1> DEFINE x == IF "bucket" \in made THEN <<>> ELSE <<"bucket", "access">>
           c == <<"oidc">>
           q == x \o S3Files
<1>1. PodWork = q \o c
  BY DEF PodWork, PutObjects
<1>2. /\ x \in Seq(Thing) /\ Len(x) \in Nat
      /\ \A k \in 0..Len(x) : First(x, k) \subseteq {"bucket", "access"}
      /\ "bucket" \in made \cup First(x, Len(x))
  <2>1. CASE "bucket" \in made
    BY <2>1, Literals DEF First
  <2>2. CASE "bucket" \notin made
    BY <2>2, Literals
  <2> QED
    BY <2>1, <2>2
<1>3. c \in Seq(Thing) /\ Len(c) = 1 /\ First(c, 1) = {"oidc"}
  BY Literals
<1>4. "bucket" \notin File /\ "access" \notin File /\ "oidc" \notin File
  BY Files
<1> HIDE DEF x, c
<1>5. q \in Seq(Thing) /\ Len(q) = Len(x) + Len(S3Files)
  BY <1>2, Uploads, Both
<1>6. \A k \in 0..(Len(x) + Len(S3Files)) :
        /\ k <= Len(x) => First(q, k) = First(x, k)
        /\ k > Len(x) => First(q, k) = First(x, Len(x)) \cup First(S3Files, k - Len(x))
  BY <1>2, Uploads, FirstOfBoth
<1> HIDE DEF q
<1>7. ASSUME NEW k \in 0..Len(q)
      PROVE  /\ First(q, k) \subseteq File \cup {"bucket", "access"}
             /\ k = Len(q) => File \subseteq First(q, k)
             /\ First(q, k) \cap File # {} =>
                  "bucket" \in made \cup First(q, k) /\ "openid-configuration" \in First(q, k)
  <2>1. CASE k <= Len(x)
    <3>1. Len(S3Files) = 4
      BY Uploads
    <3>2. k \in 0..Len(x) /\ k \in 0..(Len(x) + Len(S3Files)) /\ k # Len(q)
      BY <1>2, <1>5, <2>1, <3>1
    <3>3. First(q, k) = First(x, k) /\ First(x, k) \subseteq {"bucket", "access"}
      BY <1>2, <1>6, <2>1, <3>2
    <3> QED
      BY <1>4, <3>2, <3>3
  <2>2. CASE k > Len(x)
    <3>1. k - Len(x) \in 1..4 /\ Len(x) \in 0..Len(x)
      BY <1>2, <1>5, <2>2, Uploads
    <3>2. k = Len(q) => k - Len(x) = 4
      BY <1>2, <1>5, Uploads
    <3> DEFINE a == First(x, Len(x))
               b == First(S3Files, k - Len(x))
    <3>3. a \subseteq {"bucket", "access"} /\ "bucket" \in made \cup a
      BY <1>2, <3>1
    <3>4. b \subseteq File /\ "openid-configuration" \in b /\ (k = Len(q) => b = File)
      BY <3>1, <3>2, Uploads
    <3>5. First(q, k) = a \cup b
      BY <1>5, <1>6, <2>2
    <3> HIDE DEF a, b
    <3> QED
      BY <3>3, <3>4, <3>5
  <2> QED
    BY <1>2, <2>1, <2>2
<1>8. q \in Seq(Thing) /\ c \in Seq(Thing)
  BY <1>3, <1>5
<1>9. PodWork \in Seq(Thing) /\ Len(PodWork) = Len(q) + Len(c)
  BY <1>1, <1>8, Both
<1>10. \A k \in 0..(Len(q) + Len(c)) :
        /\ k <= Len(q) => First(PodWork, k) = First(q, k)
        /\ k > Len(q) => First(PodWork, k) = First(q, Len(q)) \cup First(c, k - Len(q))
  BY <1>1, <1>8, FirstOfBoth
<1>11. Len(q) \in Nat
  BY <1>5
<1> SUFFICES ASSUME NEW k \in 0..Len(PodWork)
             PROVE  /\ First(PodWork, k) \subseteq File \cup {"bucket", "access", "oidc"}
                    /\ "oidc" \in First(PodWork, k) <=> k = Len(PodWork)
                    /\ k = Len(PodWork) => File \subseteq First(PodWork, k)
                    /\ First(PodWork, k) \cap File # {} =>
                         "bucket" \in made \cup First(PodWork, k) /\ "openid-configuration" \in First(PodWork, k)
  BY <1>9
<1>12. CASE k <= Len(q)
  BY <1>3, <1>4, <1>7, <1>9, <1>10, <1>11, <1>12
<1>13. CASE k > Len(q)
  <2>1. k - Len(q) = 1 /\ k = Len(PodWork)
    BY <1>3, <1>9, <1>11, <1>13
  <2>2. First(PodWork, k) = First(q, Len(q)) \cup {"oidc"}
    BY <1>3, <1>9, <1>10, <1>13, <2>1
  <2>3. Len(q) \in 0..Len(q)
    BY <1>11
  <2> QED
    BY <1>4, <1>7, <2>1, <2>2, <2>3, Files
<1> QED
  BY <1>11, <1>12, <1>13

\* The first things a call makes.
Credentials == reconcileAWSCreds \o reconcileAWSBootstrapStack

LEMMA CredentialsMade ==
  /\ Credentials \in Seq(Thing)
  /\ \A k \in 0..Len(Credentials) : First(Credentials, k) \subseteq {"secret", "identity", "stack"}
  /\ {"secret", "identity", "stack"} \subseteq First(Credentials, Len(Credentials))
<1> DEFINE a == <<"secret">>
           b == <<"identity">>
           c == <<"stack">>
           q == a \o b
<1>1. Credentials = q \o c
  BY DEF Credentials, reconcileAWSCreds, reconcileAWSClusterSecret, reconcileAWSIdentity, reconcileAWSBootstrapStack
<1>2. /\ a \in Seq(Thing) /\ Len(a) = 1 /\ a[1] = "secret"
      /\ b \in Seq(Thing) /\ Len(b) = 1 /\ b[1] = "identity"
      /\ c \in Seq(Thing) /\ Len(c) = 1 /\ c[1] = "stack"
  BY DEF Thing
<1> HIDE DEF a, b, c
<1>3. /\ q \in Seq(Thing) /\ Len(q) = Len(a) + Len(b)
      /\ \A i \in 1..Len(a) : q[i] = a[i]
      /\ \A i \in 1..Len(b) : q[Len(a) + i] = b[i]
  BY <1>2, Both
<1> HIDE DEF q
<1>4. /\ Credentials \in Seq(Thing) /\ Len(Credentials) = Len(q) + Len(c)
      /\ \A i \in 1..Len(q) : Credentials[i] = q[i]
      /\ \A i \in 1..Len(c) : Credentials[Len(q) + i] = c[i]
  <2>1. q \in Seq(Thing) /\ c \in Seq(Thing)
    BY <1>2, <1>3
  <2> QED
    BY <1>1, <2>1, Both
<1>5. Len(q) = 2 /\ q[1] = "secret" /\ q[2] = "identity"
  <2>1. 1 \in 1..Len(a) /\ 1 \in 1..Len(b)
    BY <1>2
  <2>2. q[1] = a[1] /\ q[1 + 1] = b[1]
    BY <1>2, <1>3, <2>1
  <2> QED
    BY <1>2, <1>3, <2>2
<1>6. /\ Len(Credentials) = 3
      /\ Credentials[1] = "secret" /\ Credentials[2] = "identity" /\ Credentials[3] = "stack"
  <2>1. 1 \in 1..Len(q) /\ 2 \in 1..Len(q) /\ 1 \in 1..Len(c)
    BY <1>2, <1>5
  <2>2. Credentials[1] = q[1] /\ Credentials[2] = q[2] /\ Credentials[2 + 1] = c[1]
    BY <1>4, <1>5, <2>1
  <2> QED
    BY <1>2, <1>4, <1>5, <2>2
<1>7. \A i \in 1..3 : Credentials[i] \in {"secret", "identity", "stack"}
  BY <1>6
<1>8. \A k \in 0..3 : First(Credentials, k) \subseteq {"secret", "identity", "stack"}
  BY <1>7 DEF First
<1>9. {"secret", "identity", "stack"} \subseteq First(Credentials, 3)
  BY <1>6 DEF First
<1> QED
  BY <1>4, <1>6, <1>8, <1>9

\* And the last ones.
Late(found) ==
  reconcileAWSClusterAPIResources
  \o <<"kubeconfig">>
  \o (IF found /\ IsInitialized THEN reconcileCNI ELSE <<>>)
  \o (IF found /\ IsInitialized /\ IsReady THEN reconcileAdditionalResources \o ensureOwnerReference ELSE <<>>)

LateThing == {"awsCluster", "capi", "kubeconfig", "cniConfigMap", "cniResourceSet", "additional", "owned"}

LEMMA LateOrder ==
  ASSUME NEW found \in BOOLEAN
  PROVE  /\ Late(found) \in Seq(Thing)
         /\ \A i \in 1..Len(Late(found)) : Late(found)[i] \in LateThing
         /\ \A k \in 1..Len(Late(found)) : "awsCluster" \in First(Late(found), k)
<1> DEFINE r == reconcileAWSClusterAPIResources
           u == <<"kubeconfig">>
           v == IF found /\ IsInitialized THEN reconcileCNI ELSE <<>>
           z == IF found /\ IsInitialized /\ IsReady THEN reconcileAdditionalResources \o ensureOwnerReference ELSE <<>>
<1>1. r \in Seq(LateThing) /\ Len(r) \in Nat \ {0} /\ r[1] = "awsCluster"
  <2> DEFINE a == <<"awsCluster">>
             b == <<"capi">>
  <2>1. r = a \o b
    BY DEF reconcileAWSClusterAPIResources, reconcileAWSCluster
  <2>2. a \in Seq(LateThing) /\ Len(a) = 1 /\ a[1] = "awsCluster" /\ b \in Seq(LateThing)
    BY DEF LateThing
  <2> HIDE DEF a, b, r
  <2>3. a \o b \in Seq(LateThing) /\ Len(a \o b) \in Nat \ {0} /\ (a \o b)[1] = a[1]
    BY <2>2, Joined
  <2> QED
    BY <2>1, <2>2, <2>3
<1>2. u \in Seq(LateThing)
  BY DEF LateThing
<1>3. v \in Seq(LateThing)
  <2>1. reconcileCNI \in Seq(LateThing) /\ <<>> \in Seq(LateThing)
    BY DEF LateThing, reconcileCNI
  <2> QED
    BY <2>1
<1>4. z \in Seq(LateThing)
  <2> DEFINE a == <<"additional">>
             b == <<"owned">>
  <2>1. reconcileAdditionalResources \o ensureOwnerReference = a \o b
    BY DEF reconcileAdditionalResources, ensureOwnerReference
  <2>2. a \in Seq(LateThing) /\ b \in Seq(LateThing)
    BY DEF LateThing
  <2> HIDE DEF a, b
  <2>3. a \o b \in Seq(LateThing) /\ <<>> \in Seq(LateThing)
    BY <2>2
  <2> QED
    BY <2>1, <2>3
<1>5. Late(found) = ((r \o u) \o v) \o z
  BY DEF Late
<1> HIDE DEF r, u, v, z
<1>6. r \o u \in Seq(LateThing) /\ Len(r \o u) \in Nat \ {0} /\ (r \o u)[1] = "awsCluster"
  BY <1>1, <1>2
<1> DEFINE ru == r \o u
<1>7. ru \in Seq(LateThing) /\ Len(ru) \in Nat \ {0} /\ ru[1] = "awsCluster"
  BY <1>6
<1> HIDE DEF ru
<1> DEFINE ruv == ru \o v
<1>8. ruv \in Seq(LateThing) /\ Len(ruv) \in Nat \ {0} /\ ruv[1] = "awsCluster"
  BY <1>3, <1>7
<1> HIDE DEF ruv
<1> DEFINE l == ruv \o z
<1>9. l \in Seq(LateThing) /\ Len(l) \in Nat \ {0} /\ l[1] = "awsCluster"
  BY <1>4, <1>8
<1>10. Late(found) = l
  BY <1>5 DEF ru, ruv
<1> HIDE DEF l
<1>11. l \in Seq(Thing)
  <2>1. LateThing \subseteq Thing
    BY DEF LateThing, Thing
  <2> QED
    BY <1>9, <2>1, SeqMonotonic
<1>12. \A i \in 1..Len(l) : l[i] \in LateThing
  BY <1>9
<1>13. \A k \in 1..Len(l) : "awsCluster" \in First(l, k)
  BY <1>9 DEF First
<1> QED
  BY <1>10, <1>11, <1>12, <1>13

Early(exist) == Credentials \o (IF PodIdentity /\ ~exist THEN PodWork ELSE <<>>)

EarlyThing == {"secret", "identity", "stack"} \cup File \cup {"bucket", "access", "oidc"}

LEMMA EarlyOrder ==
  ASSUME NEW exist \in BOOLEAN
  PROVE  /\ Early(exist) \in Seq(Thing)
         /\ \A k \in 0..Len(Early(exist)) :
              /\ First(Early(exist), k) \subseteq EarlyThing
              /\ k = Len(Early(exist)) => {"secret", "identity", "stack"} \subseteq First(Early(exist), k)
              /\ First(Early(exist), k) \cap (File \cup {"bucket", "oidc"}) # {} => PodIdentity /\ ~exist
              /\ PodIdentity /\ ~exist => ("oidc" \in First(Early(exist), k) <=> k = Len(Early(exist)))
              /\ "oidc" \in First(Early(exist), k) => File \subseteq First(Early(exist), k)
              /\ First(Early(exist), k) \cap File # {} =>
                   "bucket" \in made \cup First(Early(exist), k) /\ "openid-configuration" \in First(Early(exist), k)
<1> DEFINE a == Credentials
           b == IF PodIdentity /\ ~exist THEN PodWork ELSE <<>>
           w == Early(exist)
<1>1. /\ b \in Seq(Thing) /\ Len(b) \in Nat
      /\ PodIdentity /\ ~exist => b = PodWork
      /\ ~(PodIdentity /\ ~exist) => Len(b) = 0
  BY PodWorkOrder, Literals
<1>2. a \in Seq(Thing) /\ Len(a) \in Nat
  BY CredentialsMade
<1>3. {"secret", "identity", "stack"} \cap (File \cup {"bucket", "oidc"}) = {}
  BY Files
<1>4. w = a \o b
  BY DEF Early
<1> HIDE DEF a, b, w
<1>5. w \in Seq(Thing) /\ Len(w) = Len(a) + Len(b)
  BY <1>1, <1>2, <1>4, Both
<1>6. \A k \in 0..(Len(a) + Len(b)) :
        /\ k <= Len(a) => First(w, k) = First(a, k)
        /\ k > Len(a) => First(w, k) = First(a, Len(a)) \cup First(b, k - Len(a))
  BY <1>1, <1>2, <1>4, FirstOfBoth
<1>7. ASSUME NEW k \in 0..Len(w)
      PROVE  /\ First(w, k) \subseteq EarlyThing
             /\ k = Len(w) => {"secret", "identity", "stack"} \subseteq First(w, k)
             /\ First(w, k) \cap (File \cup {"bucket", "oidc"}) # {} => PodIdentity /\ ~exist
             /\ PodIdentity /\ ~exist => ("oidc" \in First(w, k) <=> k = Len(w))
             /\ "oidc" \in First(w, k) => File \subseteq First(w, k)
             /\ First(w, k) \cap File # {} =>
                  "bucket" \in made \cup First(w, k) /\ "openid-configuration" \in First(w, k)
  <2>1. CASE k <= Len(a)
    <3>1. First(w, k) \subseteq {"secret", "identity", "stack"}
      BY <1>1, <1>2, <1>5, <1>6, <2>1, CredentialsMade DEF a
    <3>2. k = Len(w) => k = Len(a) /\ Len(b) = 0
      BY <1>1, <1>2, <1>5, <2>1
    <3>3. k = Len(w) => {"secret", "identity", "stack"} \subseteq First(w, k)
      BY <1>5, <1>6, <2>1, <3>2, CredentialsMade DEF a
    <3>4. PodIdentity /\ ~exist => k # Len(w)
      <4>1. PodIdentity /\ ~exist => Len(b) # 0
        <5> SUFFICES ASSUME PodIdentity, ~exist, Len(b) = 0 PROVE FALSE
          OBVIOUS
        <5>1. Len(PodWork) = 0
          BY <1>1
        <5>2. "oidc" \in First(PodWork, 0)
          BY <5>1, PodWorkOrder
        <5> QED
          BY <5>2 DEF First
      <4> QED
        BY <3>2, <4>1
    <3> QED
      BY <1>3, <3>1, <3>3, <3>4 DEF EarlyThing
  <2>2. CASE k > Len(a)
    <3> DEFINE A == First(a, Len(a))
               B == First(b, k - Len(a))
    <3>1. First(w, k) = A \cup B
      BY <1>5, <1>6, <2>2
    <3>2. A = {"secret", "identity", "stack"}
      BY <1>2, CredentialsMade DEF a
    <3>3. PodIdentity /\ ~exist /\ b = PodWork
      BY <1>1, <1>2, <1>5, <2>2
    <3>4. k - Len(a) \in 0..Len(PodWork) /\ (k - Len(a) = Len(PodWork) <=> k = Len(w))
      BY <1>1, <1>2, <1>5, <2>2, <3>3
    <3>5. /\ B \subseteq File \cup {"bucket", "access", "oidc"}
          /\ "oidc" \in B <=> k = Len(w)
          /\ k = Len(w) => File \subseteq B
          /\ B \cap File # {} => "bucket" \in made \cup B /\ "openid-configuration" \in B
      BY <3>3, <3>4, PodWorkOrder
    <3> HIDE DEF A, B
    <3> QED
      BY <1>3, <3>1, <3>2, <3>3, <3>5 DEF EarlyThing
  <2> QED
    BY <1>2, <2>1, <2>2
<1> QED
  BY <1>5, <1>7 DEF w

LEMMA Regroup ==
  ASSUME NEW a \in Seq(Thing), NEW b \in Seq(Thing), NEW c \in Seq(Thing)
  PROVE  (a \o b) \o c = a \o (b \o c)
  BY ConcatAssociative

LEMMA WorkParts ==
  ASSUME NEW exist \in BOOLEAN, NEW found \in BOOLEAN
  PROVE  Work(exist, found) = Early(exist) \o Late(found)
<1> DEFINE e == Early(exist)
           r == reconcileAWSClusterAPIResources
           u == <<"kubeconfig">>
           v == IF found /\ IsInitialized THEN reconcileCNI ELSE <<>>
           z == IF found /\ IsInitialized /\ IsReady THEN reconcileAdditionalResources \o ensureOwnerReference ELSE <<>>
<1>1. ReconcileProvider(exist) = e \o r
  BY SettingAssumption DEF ReconcileProvider, ReconcilePodIdentity, Early, Credentials, PodWork
<1>2. Work(exist, found) = ((ReconcileProvider(exist) \o u) \o v) \o z
  BY DEF Work
<1>3. Late(found) = ((r \o u) \o v) \o z
  BY DEF Late
<1>4. e \in Seq(Thing) /\ r \in Seq(Thing) /\ u \in Seq(Thing) /\ v \in Seq(Thing) /\ z \in Seq(Thing)
  <2>1. r \in Seq(Thing)
    <3> DEFINE a == <<"awsCluster">>
               b == <<"capi">>
    <3>1. r = a \o b
      BY DEF reconcileAWSClusterAPIResources, reconcileAWSCluster
    <3>2. a \in Seq(Thing) /\ b \in Seq(Thing)
      BY DEF Thing
    <3> HIDE DEF a, b, r
    <3> QED
      BY <3>1, <3>2
  <2>2. u \in Seq(Thing)
    BY DEF Thing
  <2>3. reconcileCNI \in Seq(Thing) /\ <<>> \in Seq(Thing)
    BY DEF Thing, reconcileCNI
  <2>4. reconcileAdditionalResources \o ensureOwnerReference \in Seq(Thing)
    <3> DEFINE a == <<"additional">>
               b == <<"owned">>
    <3>1. reconcileAdditionalResources \o ensureOwnerReference = a \o b
      BY DEF reconcileAdditionalResources, ensureOwnerReference
    <3>2. a \in Seq(Thing) /\ b \in Seq(Thing)
      BY DEF Thing
    <3> HIDE DEF a, b
    <3>3. a \o b \in Seq(Thing)
      BY <3>2
    <3> QED
      BY <3>1, <3>3
  <2> QED
    BY <2>1, <2>2, <2>3, <2>4, EarlyOrder
<1> HIDE DEF e, r, u, v, z
<1>5. r \o u \in Seq(Thing)
  <2>1. r \in Seq(Thing) /\ u \in Seq(Thing)
    BY <1>4
  <2> QED
    BY <2>1, Both
<1>6. (e \o r) \o u = e \o (r \o u)
  <2>1. e \in Seq(Thing) /\ r \in Seq(Thing) /\ u \in Seq(Thing)
    BY <1>4
  <2> QED
    BY <2>1, Regroup
<1> DEFINE ru == r \o u
<1>7. ru \in Seq(Thing)
  BY <1>5
<1> HIDE DEF ru
<1>8. ru \o v \in Seq(Thing)
  BY <1>4, <1>7, Both
<1>9. (e \o ru) \o v = e \o (ru \o v)
  <2>1. e \in Seq(Thing) /\ v \in Seq(Thing)
    BY <1>4
  <2> QED
    BY <1>7, <2>1, Regroup
<1> DEFINE ruv == ru \o v
<1>10. ruv \in Seq(Thing)
  BY <1>8
<1> HIDE DEF ruv
<1>11. (e \o ruv) \o z = e \o (ruv \o z)
  <2>1. e \in Seq(Thing) /\ z \in Seq(Thing)
    BY <1>4
  <2> QED
    BY <1>10, <2>1, Regroup
<1> QED
  BY <1>1, <1>2, <1>3, <1>6, <1>9, <1>11 DEF e, ru, ruv

\* A call stops before the first thing that cannot be made.
Stops(x) == Fails(x) \/ (x = "kubeconfig" /\ kubeconfigFails(startPhase))

LEMMA StopsBefore ==
  ASSUME NEW w \in Seq(Thing)
  PROVE  /\ Stop(w) \in 0..Len(w)
         /\ \A i \in 1..Stop(w) : ~Stops(w[i])
         /\ \A n \in 0..Len(w) : (\A i \in 1..n : ~Stops(w[i])) => n <= Stop(w)
<1> DEFINE bad == {i \in 1..Len(w) : Stops(w[i])}
<1>1. Stop(w) = IF bad = {} THEN Len(w) ELSE Min(bad) - 1
  BY DEF Stop, Stops
<1>2. Len(w) \in Nat
  OBVIOUS
<1>3. CASE bad = {}
  BY <1>1, <1>2, <1>3
<1>4. CASE bad # {}
  <2> DEFINE m == Min(bad)
  <2>1. m \in bad /\ \A j \in bad : m <= j
    <3>1. bad \in SUBSET Nat
      OBVIOUS
    <3> HIDE DEF bad
    <3>2. \E i \in bad : \A j \in bad : i <= j
      BY <1>4, <3>1, Minimum
    <3> QED
      BY <3>2 DEF Min
  <2>2. Stop(w) = m - 1
    BY <1>1, <1>4
  <2> HIDE DEF m
  <2> QED
    BY <1>2, <2>1, <2>2
<1> QED
  BY <1>3, <1>4

LEMMA WorkStops ==
  ASSUME NEW exist \in BOOLEAN, NEW found \in BOOLEAN
  PROVE  Stop(Work(exist, found)) \in Nat
<1> DEFINE w == Work(exist, found)
           e == Early(exist)
           l == Late(found)
<1>1. w = e \o l
  BY WorkParts
<1>2. e \in Seq(Thing) /\ l \in Seq(Thing)
  BY EarlyOrder, LateOrder
<1> HIDE DEF w, e, l
<1>3. w \in Seq(Thing)
  BY <1>1, <1>2, Both
<1>4. Stop(w) \in 0..Len(w)
  BY <1>3, StopsBefore
<1> QED
  BY <1>3, <1>4 DEF w

\* What a call has made when it ends, after its first k things.
LEMMA WorkDone ==
  ASSUME NEW exist \in BOOLEAN, NEW found \in BOOLEAN, NEW k \in 0..Stop(Work(exist, found)),
         NEW done, done = Range(SubSeq(Work(exist, found), 1, k))
  PROVE  /\ k \in Nat /\ Stop(Work(exist, found)) \in Nat
         /\ "capi" \in done => /\ {"secret", "identity", "stack", "awsCluster"} \subseteq done
                               /\ PodIdentity /\ ~exist => "oidc" \in done
         /\ done \cap (File \cup {"bucket", "oidc"}) # {} => PodIdentity /\ ~exist
         /\ "oidc" \in done => File \subseteq done /\ "oidc" \notin made
         /\ done \cap File # {} => "bucket" \in made \cup done
         /\ done \cap File # {} /\ "oidc" \notin made \cup done => k < Stop(Work(exist, found))
<1> DEFINE w == Work(exist, found)
           e == Early(exist)
           l == Late(found)
           n == Len(e)
<1>1. w = e \o l
  BY WorkParts
<1>2. e \in Seq(Thing) /\ l \in Seq(Thing) /\ n \in Nat /\ Len(l) \in Nat
  BY EarlyOrder, LateOrder
<1>3. w \in Seq(Thing) /\ Len(w) = n + Len(l) /\ \A i \in 1..n : w[i] = e[i]
  <2> HIDE DEF w, e, l
  <2> QED
    BY <1>1, <1>2, Both
<1>4. /\ Stop(w) \in 0..Len(w)
      /\ \A i \in 1..Stop(w) : ~Stops(w[i])
      /\ \A m \in 0..Len(w) : (\A i \in 1..m : ~Stops(w[i])) => m <= Stop(w)
  <2> HIDE DEF w
  <2> QED
    BY <1>3, StopsBefore
<1>5. k \in 0..Len(w) /\ k <= Stop(w)
  <2> HIDE DEF w
  <2>1. k \in 0..Stop(w)
    BY DEF w
  <2> QED
    BY <1>2, <1>3, <1>4, <2>1
<1>6. done = First(w, k)
  <2> HIDE DEF w
  <2>1. done = Range(SubSeq(w, 1, k))
    BY DEF w
  <2> QED
    BY <1>3, <1>5, <2>1, FirstOf
<1> DEFINE m == IF k <= n THEN k ELSE n
           E == First(e, m)
           L == IF k <= n THEN {} ELSE First(l, k - n)
<1>7. done = E \cup L
  <2> HIDE DEF w, e, l, n
  <2>1. /\ k <= n => First(w, k) = First(e, k)
        /\ k > n => First(w, k) = First(e, n) \cup First(l, k - n)
    BY <1>1, <1>2, <1>3, <1>5, FirstOfBoth DEF n
  <2> QED
    BY <1>2, <1>5, <1>6, <2>1
<1>8. m \in 0..n /\ (L # {} => m = n) /\ (m = n => k >= n)
  BY <1>2, <1>5
<1>9. L \subseteq LateThing /\ (L # {} => "awsCluster" \in L)
  <2> HIDE DEF e, n, w
  <2>1. CASE k <= n
    BY <2>1
  <2>2. CASE k > n
    <3>1. k - n \in 1..Len(l)
      BY <1>2, <1>3, <1>5, <2>2
    <3>2. \A i \in 1..(k - n) : i \in 1..Len(l)
      BY <1>2, <3>1
    <3>3. First(l, k - n) \subseteq LateThing
      BY <3>2, LateOrder DEF First
    <3> QED
      BY <1>2, <2>2, <3>1, <3>3, LateOrder
  <2> QED
    BY <1>2, <1>5, <2>1, <2>2
<1>10. /\ E \subseteq EarlyThing
       /\ m = n => {"secret", "identity", "stack"} \subseteq E
       /\ E \cap (File \cup {"bucket", "oidc"}) # {} => PodIdentity /\ ~exist
       /\ PodIdentity /\ ~exist => ("oidc" \in E <=> m = n)
       /\ "oidc" \in E => File \subseteq E
       /\ E \cap File # {} => "bucket" \in made \cup E /\ "openid-configuration" \in E
  <2> HIDE DEF m
  <2> QED
    BY <1>8, EarlyOrder
<1>11. LateThing \cap EarlyThing = {} /\ "capi" \notin EarlyThing /\ "kubeconfig" \notin EarlyThing
  BY Files DEF LateThing, EarlyThing
<1>12. File \cup {"bucket", "oidc"} \subseteq EarlyThing
  BY DEF EarlyThing
<1> HIDE DEF E, L
<1>13. \A x \in done : ~Stops(x)
  <2> HIDE DEF w
  <2>1. \A i \in 1..k : i \in 1..Stop(w)
    BY <1>4, <1>5
  <2> QED
    BY <1>4, <1>6, <2>1 DEF First
<1>14. "oidc" \in done => "oidc" \notin made
  BY <1>13 DEF Stops, Fails
<1>15. ASSUME done \cap File # {}, "oidc" \notin made \cup done PROVE k < Stop(w)
  <2>1. E \cap File # {} /\ "openid-configuration" \in done
    BY <1>7, <1>9, <1>10, <1>11, <1>12, <1>15
  <2>2. ~("bucket" \in made /\ "access" \notin made)
    BY <1>13, <2>1 DEF Stops, Fails, Public
  <2>3. \A x \in EarlyThing : ~Stops(x)
    BY <1>11, <1>15, <2>2 DEF Stops, Fails
  <2>4. \A i \in 1..n : w[i] \in EarlyThing
    <3>1. n \in 0..n
      BY <1>2
    <3>2. First(e, n) \subseteq EarlyThing
      BY <3>1, EarlyOrder
    <3> HIDE DEF e, n, w
    <3> QED
      BY <1>3, <3>2 DEF First
  <2>5. n <= Stop(w)
    <3> HIDE DEF e, l, n, w
    <3>1. n \in 0..Len(w) /\ \A i \in 1..n : ~Stops(w[i])
      BY <1>2, <1>3, <2>3, <2>4
    <3> QED
      BY <1>4, <3>1
  <2>6. m # n
    BY <1>7, <1>10, <1>15, <2>1
  <2> HIDE DEF e, n, w
  <2> QED
    BY <1>2, <1>4, <1>5, <2>5, <2>6 DEF m
<1>16. k \in Nat /\ Stop(w) \in Nat
  <2> HIDE DEF e, l, n, w
  <2> QED
    BY <1>2, <1>3, <1>4, <1>5
<1> HIDE DEF w, e, l, n, m
<1>17. "capi" \in done => /\ {"secret", "identity", "stack", "awsCluster"} \subseteq done
                          /\ PodIdentity /\ ~exist => "oidc" \in done
  <2> SUFFICES ASSUME "capi" \in done
               PROVE  /\ {"secret", "identity", "stack", "awsCluster"} \subseteq done
                      /\ PodIdentity /\ ~exist => "oidc" \in done
    OBVIOUS
  <2>1. "capi" \in L
    BY <1>7, <1>10, <1>11
  <2> QED
    BY <1>7, <1>8, <1>9, <1>10, <2>1
<1>18. E \cap (File \cup {"bucket", "oidc"}) = done \cap (File \cup {"bucket", "oidc"})
  BY <1>7, <1>9, <1>11, <1>12
<1>19. done \cap (File \cup {"bucket", "oidc"}) # {} => PodIdentity /\ ~exist
  BY <1>10, <1>18
<1>20. "oidc" \in done => File \subseteq done /\ "oidc" \notin made
  BY <1>7, <1>10, <1>14, <1>18
<1>21. done \cap File # {} => "bucket" \in made \cup done
  BY <1>7, <1>10, <1>18
<1>22. done \cap File # {} /\ "oidc" \notin made \cup done => k < Stop(w)
  BY <1>15
<1>23. k \in Nat /\ Stop(Work(exist, found)) \in Nat
  BY <1>16 DEF w
<1>24. done \cap File # {} /\ "oidc" \notin made \cup done => k < Stop(Work(exist, found))
  BY <1>22 DEF w
<1> QED
  BY <1>17, <1>19, <1>20, <1>21, <1>23, <1>24
LEMMA NewCertIs ==
  ASSUME files \in [File -> Nat]
  PROVE  \E f \in File : NewCert = files[f] + 1 /\ \A g \in File : files[g] <= files[f]
<1> DEFINE S == {files[f] : f \in File}
<1>1. \E f \in File : \A g \in File : files[g] <= files[f]
  BY Files
<1>2. \E x \in S : \A y \in S : x >= y
  BY <1>1
<1>3. Max(S) \in S /\ \A y \in S : Max(S) >= y
  BY <1>2 DEF Max
<1> DEFINE m == Max(S)
<1>4. NewCert = 1 + m
  BY DEF NewCert
<1> HIDE DEF m
<1>5. m \in S /\ \A y \in S : m >= y
  BY <1>3 DEF m
<1>6. PICK f \in File : m = files[f]
  BY <1>5
<1> QED
  BY <1>4, <1>5, <1>6
-----------------------------------------------------------------------------
(* The invariant. *)

Types ==
  /\ {exists, deletionTimestamp, finalizer, kubeconfigRef, secretOwned, queued, misled} \subseteq BOOLEAN
  /\ phase \in ClusterPhase
  /\ additional \in 0..2 /\ resourceSet \in 0..2
  /\ credential \in {"Missing", "Invalid", "Valid"}
  /\ made \subseteq Item
  /\ files \in [File -> Nat]
  /\ capi \in {"None", "Applied", "Provisioning", "Endpoint", "Up", "Deleting"}
  /\ nodes \in {"None", "Starting", "Ready"}
  /\ bootKey \in Nat
  /\ edits \in Nat /\ mishaps \in Nat

\* How many certificates may have been made: one for the OpenID provider that is
\* there, and one for each call that failed.
CertBound == MaxMishaps - mishaps + (IF "oidc" \in made THEN 1 ELSE 0)

\* What is there depends on what was made before it.
Infra ==
  /\ mishaps <= MaxMishaps
  /\ \A f \in File : files[f] <= CertBound
  /\ \A f \in File : files[f] # 0 => "bucket" \in made
  /\ bootKey <= MaxMishaps + 1
  /\ bootKey # 0 => capi # "None"
  /\ ~PodIdentity => made \cap {"bucket", "oidc"} = {}
  /\ ~deletionTimestamp /\ "oidc" \in made => "bucket" \in made
  /\ capi # "None" => /\ {"secret", "identity", "stack", "awsCluster"} \subseteq made
                      /\ PodIdentity => {"bucket", "oidc"} \subseteq made
  /\ CertsKept

InfraInv == Types /\ Infra

LEMMA InfraImplies == InfraInv => CAPIHasItsInfra /\ CertsKept
<1> SUFFICES ASSUME InfraInv PROVE CAPIHasItsInfra /\ CertsKept
  OBVIOUS
<1>1. files \in [File -> 0..(MaxMishaps + 1)]
  <2>1. ASSUME NEW f \in File PROVE files[f] \in 0..(MaxMishaps + 1)
    BY BoundAssumption DEF InfraInv, Types, Infra, CertBound
  <2> QED
    BY <2>1 DEF InfraInv, Types
<1>2. bootKey \in 0..(MaxMishaps + 1)
  BY BoundAssumption DEF InfraInv, Types, Infra
<1>3. TypeOK
  BY <1>1, <1>2 DEF InfraInv, Types, TypeOK
<1> QED
  BY <1>3 DEF InfraInv, Infra, CAPIHasItsInfra

LEMMA InfraInitial == Init => InfraInv
<1> SUFFICES ASSUME Init PROVE InfraInv
  OBVIOUS
<1>1. /\ phase \in ClusterPhase /\ additional \in {0, 1} /\ credential \in {"Missing", "Valid"} /\ made = {}
      /\ files = [f \in File |-> 0] /\ resourceSet = 0 /\ capi = "None" /\ nodes = "None" /\ bootKey = 0
      /\ edits = MaxEdits /\ mishaps = MaxMishaps
  BY Zenon DEF Init, ClusterPhase
<1>2. {exists, deletionTimestamp, finalizer, kubeconfigRef, secretOwned, queued, misled} \subseteq BOOLEAN
  BY Zenon DEF Init
<1>3. Types
  BY <1>1, <1>2, BoundAssumption DEF Types
<1>4. CertsKept
  BY <1>1 DEF CertsKept, OneCert
<1>5. Infra
  BY <1>1, <1>4, BoundAssumption DEF Infra, CertBound
<1> QED
  BY <1>3, <1>5 DEF InfraInv

\* A step that leaves the infrastructure as it is; Cluster API may boot.
LEMMA QuietStep ==
  ASSUME InfraInv, Types', UNCHANGED <<made, files>>,
         capi' = "None" <=> capi = "None",
         bootKey' = bootKey \/ (bootKey' = files["sa-signer.key"] /\ capi # "None"),
         misled => misled', deletionTimestamp => deletionTimestamp', mishaps' <= mishaps
  PROVE  Infra'
<1>1. "sa-signer.key" \in File
  BY Files
<1>2. mishaps' <= MaxMishaps /\ \A f \in File : files'[f] <= CertBound'
  BY BoundAssumption DEF InfraInv, Types, Infra, CertBound
<1>3. bootKey' <= MaxMishaps + 1
  BY <1>1, BoundAssumption DEF InfraInv, Types, Infra, CertBound
<1>4. CertsKept'
  BY <1>1 DEF InfraInv, Types, Infra, CertsKept, OneCert
<1> QED
  BY <1>2, <1>3, <1>4 DEF InfraInv, Types, Infra
-----------------------------------------------------------------------------
(* Types. *)

LEMMA Phases == {"Provisioning", "Ready", "Deleting", "Failed"} \subseteq ClusterPhase
  BY Zenon DEF ClusterPhase

\* The end of a call.
LEMMA CallEnds ==
  ASSUME Types, NEW p \in ClusterPhase, NEW requeue \in BOOLEAN, NEW mishap \in BOOLEAN, finalizer' \in BOOLEAN,
         EndReconcile(p, requeue, mishap)
  PROVE  /\ phase' \in ClusterPhase /\ queued' \in BOOLEAN
         /\ mishaps' \in Nat /\ mishaps' <= mishaps
         /\ mishap => mishaps' = mishaps - 1
<1>1. phase' \in ClusterPhase
  BY DEF EndReconcile
<1>2. queued' \in BOOLEAN
  BY Zenon DEF EndReconcile
<1>3. mishaps' \in Nat /\ mishaps' <= mishaps /\ (mishap => mishaps' = mishaps - 1)
  BY DEF Types, EndReconcile
<1> QED
  BY <1>1, <1>2, <1>3

LEMMA Finalized ==
  ASSUME Types, NEW f \in BOOLEAN, Finalize(f)
  PROVE  finalizer' \in BOOLEAN /\ exists' \in BOOLEAN /\ deletionTimestamp' = deletionTimestamp
  BY Zenon DEF Types, Finalize

\* A call that changes the secret and the status only, and perhaps what Cluster
\* API does.
LEMMA StatusStep ==
  ASSUME InfraInv, NEW p \in ClusterPhase, NEW requeue \in BOOLEAN, NEW mishap \in BOOLEAN,
         EndReconcile(p, requeue, mishap), UNCHANGED objectVars, secretOwned' \in BOOLEAN,
         capi' = capi \/ (capi' = "Deleting" /\ capi # "None"),
         UNCHANGED <<kubeconfigRef, userVars, infraVars, capiVars, misled, edits>>
  PROVE  InfraInv'
<1>1. Types
  BY DEF InfraInv
<1>2. UNCHANGED <<exists, deletionTimestamp, finalizer, additional, credential, made, files, resourceSet, nodes, bootKey>>
  BY DEF objectVars, userVars, infraVars, capiVars
<1>3. finalizer' \in BOOLEAN
  BY <1>1, <1>2 DEF Types
<1>4. phase' \in ClusterPhase /\ queued' \in BOOLEAN /\ mishaps' \in Nat /\ mishaps' <= mishaps
  BY <1>1, <1>3, CallEnds
<1>5. Types'
  BY <1>1, <1>2, <1>4 DEF Types
<1>6. Infra'
  BY <1>2, <1>4, <1>5, QuietStep
<1> QED
  BY <1>5, <1>6 DEF InfraInv

\* Calls that do no work.
LEMMA IdleCalls ==
  ASSUME InfraInv, NEW mishap \in BOOLEAN,
         \/ reconcileNoSecret(mishap) \/ reconcilePrecheckFails(mishap)
         \/ reconcileDeleteCAPI(mishap) \/ reconcileDeleting(mishap)
  PROVE  InfraInv'
<1>1. Types /\ phase \in ClusterPhase /\ secretOwned \in BOOLEAN /\ (~deletionTimestamp) \in BOOLEAN
  BY DEF InfraInv, Types
<1> DEFINE p1 == "Failed"
           p2 == IF mishap THEN "Failed" ELSE phase
           p3 == IF mishap THEN "Deleting" ELSE phase
           no == FALSE
           yes == TRUE
           not == ~mishap
<1>2. /\ p1 \in ClusterPhase /\ p2 \in ClusterPhase /\ p3 \in ClusterPhase
      /\ no \in BOOLEAN /\ yes \in BOOLEAN /\ not \in BOOLEAN
  BY <1>1, Phases
<1>3. CASE reconcileNoSecret(mishap)
  <2>1. EndReconcile(p1, no, mishap) /\ UNCHANGED <<objectVars, kubeconfigRef, userVars, secretOwned, infraVars, capi, capiVars, misled, edits>>
    BY <1>3 DEF reconcileNoSecret
  <2> HIDE DEF p1, no
  <2> QED
    BY <1>1, <1>2, <2>1, StatusStep
<1>4. CASE reconcilePrecheckFails(mishap)
  <2>1. /\ EndReconcile(p1, no, mishap) /\ secretOwned' = ~deletionTimestamp
        /\ UNCHANGED <<objectVars, kubeconfigRef, userVars, infraVars, capi, capiVars, misled, edits>>
    BY <1>4 DEF reconcilePrecheckFails, reconcileSecretOwnerReference
  <2> HIDE DEF p1, no
  <2> QED
    BY <1>1, <1>2, <2>1, StatusStep
<1>5. CASE reconcileDeleteCAPI(mishap)
  <2>1. /\ EndReconcile(p2, yes, mishap) /\ secretOwned' = ~deletionTimestamp
        /\ UNCHANGED <<objectVars, kubeconfigRef, userVars, infraVars, capiVars, misled, edits>>
        /\ capi' = capi \/ (capi' = "Deleting" /\ capi # "None")
    BY <1>5 DEF reconcileDeleteCAPI, reconcileSecretOwnerReference, capiGone
  <2> HIDE DEF p2, yes
  <2> QED
    BY <1>1, <1>2, <2>1, StatusStep
<1>6. CASE reconcileDeleting(mishap)
  <2>1. /\ EndReconcile(p3, not, not) /\ secretOwned' = ~deletionTimestamp
        /\ UNCHANGED <<objectVars, kubeconfigRef, userVars, infraVars, capi, capiVars, misled, edits>>
    BY <1>6 DEF reconcileDeleting, reconcileSecretOwnerReference
  <2> HIDE DEF p3, not
  <2> QED
    BY <1>1, <1>2, <2>1, StatusStep
<1> QED
  BY <1>3, <1>4, <1>5, <1>6

\* The rest of the system.
LEMMA EnvironmentSteps ==
  ASSUME InfraInv, Environment \/ reconcileGone
  PROVE  InfraInv'
<1>1. Types /\ Infra
  BY DEF InfraInv
<1> USE DEF objectVars, statusVars, userVars, infraVars, capiVars
<1>2. CASE reconcileGone \/ Resync
  <2>1. /\ queued' \in BOOLEAN
        /\ UNCHANGED <<exists, deletionTimestamp, finalizer, phase, kubeconfigRef, additional, credential, secretOwned,
                       made, files, resourceSet, capi, nodes, bootKey, misled, edits, mishaps>>
    BY <1>2 DEF reconcileGone, Resync
  <2>2. Types'
    BY <1>1, <2>1 DEF Types
  <2>3. mishaps' <= mishaps
    BY <1>1, <2>1 DEF Types
  <2> QED
    BY <2>1, <2>2, <2>3, QuietStep DEF InfraInv
<1>3. CASE DeleteCluster
  <2>1. /\ queued' \in BOOLEAN /\ deletionTimestamp' /\ deletionTimestamp' \in BOOLEAN
        /\ exists' = finalizer
        /\ UNCHANGED <<finalizer, phase, kubeconfigRef, additional, credential, secretOwned,
                       made, files, resourceSet, capi, nodes, bootKey, misled, edits, mishaps>>
    BY <1>3, Zenon DEF DeleteCluster
  <2>2. Types'
    BY <1>1, <2>1 DEF Types
  <2>3. mishaps' <= mishaps
    BY <1>1, <2>1 DEF Types
  <2> QED
    BY <2>1, <2>2, <2>3, QuietStep DEF InfraInv
<1>4. CASE EditAdditional
  <2>1. /\ queued' \in BOOLEAN
        /\ UNCHANGED <<exists, deletionTimestamp, finalizer, phase, kubeconfigRef, credential, secretOwned,
                       made, files, resourceSet, capi, nodes, bootKey, misled, mishaps>>
    BY <1>4 DEF EditAdditional
  <2>2. additional' \in 0..2 /\ edits' \in Nat
    BY <1>1, <1>4 DEF EditAdditional, Types
  <2>3. Types'
    BY <1>1, <2>1, <2>2 DEF Types
  <2>4. mishaps' <= mishaps
    BY <1>1, <2>1 DEF Types
  <2> QED
    BY <2>1, <2>3, <2>4, QuietStep DEF InfraInv
<1>5. ASSUME NEW c \in {"Missing", "Invalid", "Valid"}, EditSecret(c) PROVE InfraInv'
  <2>1. /\ queued' \in BOOLEAN /\ secretOwned' \in BOOLEAN
        /\ UNCHANGED <<exists, deletionTimestamp, finalizer, phase, kubeconfigRef, additional,
                       made, files, resourceSet, capi, nodes, bootKey, misled, mishaps>>
    BY <1>5, Zenon DEF EditSecret, SecretToClusterFunc
  <2>2. credential' \in {"Missing", "Invalid", "Valid"} /\ edits' \in Nat
    BY <1>1, <1>5 DEF EditSecret, Types
  <2>3. Types'
    BY <1>1, <2>1, <2>2 DEF Types
  <2>4. mishaps' <= mishaps
    BY <1>1, <2>1 DEF Types
  <2> QED
    BY <2>1, <2>3, <2>4, QuietStep DEF InfraInv
<1>6. CASE CAPIStep \/ NodesReady
  <2>1. UNCHANGED <<exists, deletionTimestamp, finalizer, phase, kubeconfigRef, additional, credential, secretOwned, queued,
                    made, files, resourceSet, misled, edits, mishaps>>
    BY <1>6 DEF CAPIStep, NodesReady
  <2>2. /\ capi # "None" /\ capi' \in {"Provisioning", "Endpoint", "Up"}
        /\ nodes' \in {"None", "Starting", "Ready"}
        /\ bootKey' = bootKey \/ bootKey' = files["sa-signer.key"]
    BY <1>1, <1>6 DEF CAPIStep, CAPIProvisions, NodesReady, Types
  <2>3. files["sa-signer.key"] \in Nat
    BY <1>1, Files DEF Types
  <2>4. Types'
    BY <1>1, <2>1, <2>2, <2>3 DEF Types
  <2>5. mishaps' <= mishaps
    BY <1>1, <2>1 DEF Types
  <2> QED
    BY <2>1, <2>2, <2>4, <2>5, QuietStep DEF InfraInv
<1>7. CASE CAPIDeletes
  <2>1. /\ capi' = "None" /\ made' = made \ {"awsCluster"} /\ nodes' = "None" /\ bootKey' = 0
        /\ UNCHANGED <<exists, deletionTimestamp, finalizer, phase, kubeconfigRef, additional, credential, secretOwned, queued,
                       files, resourceSet, misled, edits, mishaps>>
    BY <1>7 DEF CAPIDeletes
  <2>2. Types'
    BY <1>1, <2>1 DEF Types
  <2>3. CertBound' = CertBound
    BY <2>1 DEF CertBound
  <2>4. CertsKept'
    BY <1>1, <2>1 DEF Infra, CertsKept, OneCert
  <2>5. Infra'
    BY <1>1, <2>1, <2>3, <2>4, BoundAssumption DEF Infra
  <2> QED
    BY <2>2, <2>5 DEF InfraInv
<1>8. CASE GarbageCollect
  <2>1. /\ made' \subseteq made /\ \A x \in {"identity", "stack", "awsCluster", "bucket", "oidc"} : x \in made => x \in made'
        /\ "identity" \in made /\ "secret" \in made => "secret" \in made'
        /\ UNCHANGED <<exists, deletionTimestamp, finalizer, phase, kubeconfigRef, additional, credential, secretOwned, queued,
                       files, resourceSet, capi, nodes, bootKey, misled, edits, mishaps>>
    BY <1>8 DEF GarbageCollect
  <2>2. Types'
    BY <1>1, <2>1 DEF Types
  <2>3. CertBound' = CertBound
    BY <2>1 DEF CertBound
  <2>4. CertsKept'
    BY <1>1, <2>1 DEF Infra, CertsKept, OneCert
  <2>5. Infra'
    BY <1>1, <2>1, <2>3, <2>4 DEF Infra
  <2> QED
    BY <2>2, <2>5 DEF InfraInv
<1> QED
  BY <1>2, <1>3, <1>4, <1>5, <1>6, <1>7, <1>8 DEF Environment-----------------------------------------------------------------------------
(* A call that does work. *)

\* The variables that a call sets at its end.
LEMMA MakeTypes ==
  ASSUME Types, NEW w, NEW stop, NEW k, NEW patched \in BOOLEAN, reconcile(w, stop, k, patched)
  PROVE  /\ {exists, finalizer, secretOwned, queued, kubeconfigRef}' \subseteq BOOLEAN
         /\ deletionTimestamp' = deletionTimestamp
         /\ phase' \in ClusterPhase /\ resourceSet' \in 0..2 /\ mishaps' \in Nat /\ mishaps' <= mishaps
         /\ k < stop => mishaps' = mishaps - 1
<1> DEFINE ready == k = Len(w) /\ w[k] = "owned"
           p == IF ~patched THEN phase ELSE IF k < Len(w) THEN "Failed" ELSE IF ready THEN "Ready" ELSE startPhase
           requeue == ~ready \/ ~patched
           mishap == k < stop \/ ~patched
           f == finalizer \/ patched
<1>1. /\ Finalize(f) /\ EndReconcile(p, requeue, mishap) /\ secretOwned' = ~deletionTimestamp
      /\ Make(w, k, startPhase, patched)
  BY DEF reconcile, reconcileSecretOwnerReference
<1>2. f \in BOOLEAN /\ requeue \in BOOLEAN /\ mishap \in BOOLEAN
  BY DEF Types
<1>3. p \in ClusterPhase
  BY Phases DEF Types, startPhase
<1>4. secretOwned' \in BOOLEAN
  BY <1>1 DEF Types
<1>5. k < stop => mishap
  OBVIOUS
<1>6. kubeconfigRef' \in BOOLEAN
  BY <1>1, Zenon DEF Make
<1>7. resourceSet' \in 0..2
  BY <1>1 DEF Make, Types
<1> HIDE DEF f, p, requeue, mishap
<1>8. finalizer' \in BOOLEAN /\ exists' \in BOOLEAN /\ deletionTimestamp' = deletionTimestamp
  BY <1>1, <1>2, Finalized
<1>9. /\ phase' \in ClusterPhase /\ queued' \in BOOLEAN
      /\ mishaps' \in Nat /\ mishaps' <= mishaps
      /\ mishap => mishaps' = mishaps - 1
  BY <1>1, <1>2, <1>3, <1>8, CallEnds
<1> QED
  BY <1>4, <1>5, <1>6, <1>7, <1>8, <1>9

\* The OpenID provider was looked up, or could not be.
Answered(exist, w, stop) == exist = ("oidc" \in made) /\ stop = Stop(w) /\ misled' = misled

Unanswered(exist, k, stop) == ~exist /\ stop = k + 1 /\ misled' = TRUE

LEMMA BoundGrows ==
  ASSUME NEW M \in Nat, NEW m \in Nat, NEW n \in Nat, n <= m, NEW a \in 0..1, NEW b \in 0..1, a <= b
  PROVE  /\ M - m + a \in Int /\ M - n + b \in Int
         /\ M - m + a <= M - n + b
         /\ a < b \/ n = m - 1 => M - m + a + 1 <= M - n + b
  OBVIOUS

LEMMA BoundKept ==
  ASSUME NEW M \in Nat, NEW m \in Nat, NEW n \in Nat, n <= m, m <= M, NEW a \in 0..1, NEW b \in 0..1
  PROVE  /\ M - m + a \in Int /\ M - n + b \in Int /\ 0 <= M - n + b
         /\ a = b \/ n = m - 1 => M - m + a <= M - n + b
  OBVIOUS

LEMMA MakeStep ==
  ASSUME InfraInv, ~deletionTimestamp,
         NEW exist \in BOOLEAN, NEW found \in BOOLEAN, NEW patched \in BOOLEAN, NEW stop,
         NEW k \in 0..Stop(Work(exist, found)), reconcile(Work(exist, found), stop, k, patched),
         Answered(exist, Work(exist, found), stop) \/ Unanswered(exist, k, stop)
  PROVE  InfraInv'
<1> DEFINE w == Work(exist, found)
           done == Range(SubSeq(w, 1, k))
<1>1. Types /\ Infra
  BY DEF InfraInv
<1>2. /\ k \in Nat /\ Stop(w) \in Nat
      /\ "capi" \in done => /\ {"secret", "identity", "stack", "awsCluster"} \subseteq done
                            /\ PodIdentity /\ ~exist => "oidc" \in done
      /\ done \cap (File \cup {"bucket", "oidc"}) # {} => PodIdentity /\ ~exist
      /\ "oidc" \in done => File \subseteq done /\ "oidc" \notin made
      /\ done \cap File # {} => "bucket" \in made \cup done
      /\ done \cap File # {} /\ "oidc" \notin made \cup done => k < Stop(w)
  BY WorkDone
<1>3. reconcile(w, stop, k, patched)
  OBVIOUS
<1>4. \/ exist = ("oidc" \in made) /\ stop = Stop(w) /\ misled' = misled
      \/ ~exist /\ stop = k + 1 /\ misled' = TRUE
  BY DEF Answered, Unanswered
<1> HIDE DEF w
<1>5. /\ made' = made \cup (done \cap Item)
      /\ files' = [f \in File |-> IF f \in done THEN NewCert ELSE files[f]]
      /\ capi' = IF "capi" \in done /\ capi = "None" THEN "Applied" ELSE capi
      /\ UNCHANGED <<additional, credential, nodes, bootKey, edits>>
  BY <1>3 DEF reconcile, Make, userVars, capiVars
<1>6. /\ {exists, finalizer, secretOwned, queued, kubeconfigRef}' \subseteq BOOLEAN
      /\ deletionTimestamp' = deletionTimestamp
      /\ phase' \in ClusterPhase /\ resourceSet' \in 0..2 /\ mishaps' \in Nat /\ mishaps' <= mishaps
      /\ k < stop => mishaps' = mishaps - 1
  BY <1>1, <1>3, MakeTypes
<1> HIDE DEF done
<1>7. misled' \in BOOLEAN
  BY <1>1, <1>4 DEF Types
<1>8. PICK c \in File : NewCert = files[c] + 1 /\ \A g \in File : files[g] <= files[c]
  BY <1>1, NewCertIs DEF Types
<1>9. Types'
  <2>1. files' \in [File -> Nat]
    BY <1>1, <1>5, <1>8 DEF Types
  <2>2. made' \subseteq Item
    BY <1>1, <1>5 DEF Types
  <2> QED
    BY <1>1, <1>5, <1>6, <1>7, <2>1, <2>2 DEF Types
<1>10. mishaps' <= MaxMishaps
  BY <1>1, <1>6, BoundAssumption DEF Types, Infra
<1>11. {"secret", "identity", "stack", "awsCluster", "bucket", "oidc"} \subseteq Item
  BY DEF Item
<1>12. \A f \in File : files'[f] <= CertBound'
  <2> DEFINE a == IF "oidc" \in made THEN 1 ELSE 0
             b == IF "oidc" \in made' THEN 1 ELSE 0
  <2>1. /\ CertBound = MaxMishaps - mishaps + a /\ CertBound' = MaxMishaps - mishaps' + b
        /\ a \in 0..1 /\ b \in 0..1 /\ a <= b /\ ("oidc" \in done => a = 0 /\ b = 1)
    BY <1>2, <1>5, <1>11 DEF CertBound
  <2>2. mishaps \in Nat /\ mishaps' \in Nat /\ mishaps' <= mishaps /\ MaxMishaps \in Nat
    BY <1>1, <1>6, BoundAssumption DEF Types
  <2> HIDE DEF a, b
  <2>3. /\ CertBound \in Int /\ CertBound' \in Int /\ CertBound <= CertBound'
        /\ a < b \/ mishaps' = mishaps - 1 => CertBound + 1 <= CertBound'
    BY <2>1, <2>2, BoundGrows
  <2>4. \A f \in File : files[f] \in Nat /\ files[f] <= CertBound
    BY <1>1 DEF Types, Infra
  <2>5. CASE done \cap File = {}
    <3>1. \A f \in File : files'[f] = files[f]
      BY <1>5, <2>5
    <3> QED
      BY <2>3, <2>4, <3>1
  <2>6. CASE done \cap File # {}
    <3>1. CertBound + 1 <= CertBound'
      <4>1. CASE "oidc" \in done
        BY <2>1, <2>3, <4>1
      <4>2. CASE "oidc" \notin done
        <5>1. k < stop
          BY <1>2, <1>4, <2>6, <4>2
        <5>2. mishaps' = mishaps - 1
          BY <1>6, <5>1
        <5> QED
          BY <2>3, <5>2
      <4> QED
        BY <4>1, <4>2
    <3>2. NewCert \in Nat /\ NewCert <= CertBound + 1
      BY <1>8, <2>3, <2>4
    <3> QED
      BY <1>5, <2>3, <2>4, <3>1, <3>2
  <2> QED
    BY <2>5, <2>6
<1>13. \A f \in File : files'[f] # 0 => "bucket" \in made'
  BY <1>1, <1>2, <1>5, <1>11 DEF Infra
<1>14. ~PodIdentity => made' \cap {"bucket", "oidc"} = {}
  BY <1>1, <1>2, <1>5 DEF Infra
<1>15. "oidc" \in made' => "bucket" \in made'
  <2>1. "sa-signer.key" \in File
    BY Files
  <2> QED
    BY <1>1, <1>2, <1>5, <1>11, <2>1 DEF Infra
<1>16. capi' # "None" => /\ {"secret", "identity", "stack", "awsCluster"} \subseteq made'
                         /\ PodIdentity => {"bucket", "oidc"} \subseteq made'
  <2>1. CASE capi # "None"
    BY <1>1, <1>5, <2>1 DEF Infra
  <2>2. CASE capi = "None" /\ "capi" \in done
    <3>1. {"secret", "identity", "stack", "awsCluster"} \subseteq made'
      BY <1>2, <1>5, <1>11, <2>2
    <3>2. PodIdentity => "oidc" \in made'
      <4>1. CASE exist
        BY <1>4, <1>5, <4>1
      <4>2. CASE ~exist
        BY <1>2, <1>5, <1>11, <2>2, <4>2
      <4> QED
        BY <4>1, <4>2
    <3> QED
      BY <1>15, <3>1, <3>2
  <2> QED
    BY <1>5, <2>1, <2>2
<1>17. CertsKept'
  <2> SUFFICES ASSUME ~misled', "oidc" \in made' PROVE OneCert'
    BY <1>6 DEF CertsKept, OneCert
  <2>1. exist = ("oidc" \in made) /\ ~misled
    BY <1>4
  <2>2. CASE done \cap File = {}
    <3>1. "oidc" \in made
      BY <1>2, <1>5, <2>2, Files
    <3>2. \A f \in File : files'[f] = files[f]
      BY <1>5, <2>2
    <3>3. bootKey' = bootKey /\ "sa-signer.key" \in File
      BY <1>5, Files
    <3> QED
      BY <1>1, <2>1, <3>1, <3>2, <3>3 DEF Infra, CertsKept, OneCert
  <2>3. CASE done \cap File # {}
    <3>1. "oidc" \notin made /\ PodIdentity
      BY <1>2, <2>1, <2>3
    <3>2. "oidc" \in done
      BY <1>5, <3>1
    <3>3. \A f \in File : files'[f] = NewCert
      BY <1>2, <1>5, <3>2
    <3>4. bootKey' = 0
      BY <1>1, <1>5, <3>1 DEF Infra
    <3> QED
      BY <3>3, <3>4 DEF OneCert
  <2> QED
    BY <2>2, <2>3
<1>18. bootKey' <= MaxMishaps + 1 /\ (bootKey' # 0 => capi' # "None")
  BY <1>1, <1>5 DEF Infra
<1> QED
  BY <1>9, <1>10, <1>12, <1>13, <1>14, <1>15, <1>16, <1>17, <1>18 DEF InfraInv, Infra-----------------------------------------------------------------------------
(* The deletion. *)

\* The pod identity is deleted first: the files before their bucket, and the
\* bucket, if it was found, before the OpenID provider.
IdentityDeleted(found) == IF PodIdentity THEN DeleteBucket(found) \o deleteOpenIDConnectProvider ELSE <<>>

LEMMA IdentityOrder ==
  ASSUME NEW found \in BOOLEAN
  PROVE  /\ IdentityDeleted(found) \in Seq(Thing)
         /\ \A k \in 0..Len(IdentityDeleted(found)) :
              /\ First(IdentityDeleted(found), k) \subseteq {"files", "bucket", "oidc"}
              /\ "bucket" \in First(IdentityDeleted(found), k) => "files" \in First(IdentityDeleted(found), k)
              /\ "oidc" \in First(IdentityDeleted(found), k) /\ found => "files" \in First(IdentityDeleted(found), k)
         /\ PodIdentity => "oidc" \in First(IdentityDeleted(found), Len(IdentityDeleted(found)))
         /\ PodIdentity /\ found => "bucket" \in First(IdentityDeleted(found), Len(IdentityDeleted(found)))
<1> DEFINE a == DeleteBucket(found)
           b == deleteOpenIDConnectProvider
           w == IdentityDeleted(found)
<1>1. /\ a \in Seq(Thing) /\ Len(a) \in Nat
      /\ \A k \in 0..Len(a) : /\ First(a, k) \subseteq {"files", "bucket"}
                              /\ "bucket" \in First(a, k) => "files" \in First(a, k)
      /\ found => {"files", "bucket"} \subseteq First(a, Len(a))
  <2>1. CASE found
    <3>1. a = <<"files", "bucket">>
      BY <2>1 DEF DeleteBucket
    <3>2. a \in Seq(Thing) /\ Len(a) = 2 /\ a[1] = "files" /\ a[2] = "bucket"
      BY <3>1 DEF Thing
    <3> HIDE DEF a
    <3> QED
      BY <3>2 DEF First
  <2>2. CASE ~found
    <3>1. a = <<>>
      BY <2>2 DEF DeleteBucket
    <3> QED
      BY <2>2, <3>1, Literals DEF First
  <2> QED
    BY <2>1, <2>2
<1>2. b \in Seq(Thing) /\ Len(b) = 1 /\ First(b, 1) = {"oidc"}
  BY Literals DEF deleteOpenIDConnectProvider
<1>3. CASE ~PodIdentity
  <2>1. w = <<>>
    BY <1>3 DEF IdentityDeleted
  <2> QED
    BY <1>3, <2>1, Literals DEF First
<1>4. CASE PodIdentity
  <2>1. w = a \o b
    BY <1>4 DEF IdentityDeleted
  <2> HIDE DEF a, b, w
  <2>2. w \in Seq(Thing) /\ Len(w) = Len(a) + Len(b)
    BY <1>1, <1>2, <2>1, Both
  <2>3. \A k \in 0..(Len(a) + Len(b)) :
          /\ k <= Len(a) => First(w, k) = First(a, k)
          /\ k > Len(a) => First(w, k) = First(a, Len(a)) \cup First(b, k - Len(a))
    <3>1. a \in Seq(Thing) /\ b \in Seq(Thing)
      BY <1>1, <1>2
    <3> QED
      BY <2>1, <3>1, FirstOfBoth
  <2>4. Len(w) = Len(a) + 1 /\ Len(w) \in 0..(Len(a) + Len(b)) /\ Len(w) > Len(a) /\ Len(w) - Len(a) = 1
    BY <1>1, <1>2, <2>2
  <2>5. First(w, Len(w)) = First(a, Len(a)) \cup {"oidc"}
    BY <1>2, <2>3, <2>4
  <2>6. Len(a) \in 0..Len(a)
    BY <1>1
  <2>7. ASSUME NEW k \in 0..Len(w)
        PROVE  /\ First(w, k) \subseteq {"files", "bucket", "oidc"}
               /\ "bucket" \in First(w, k) => "files" \in First(w, k)
               /\ "oidc" \in First(w, k) /\ found => "files" \in First(w, k)
    <3>1. CASE k <= Len(a)
      <4>1. First(w, k) = First(a, k) /\ k \in 0..Len(a)
        BY <1>1, <1>2, <2>2, <2>3, <3>1
      <4> QED
        BY <1>1, <4>1
    <3>2. CASE k > Len(a)
      <4>1. k = Len(w)
        BY <1>1, <2>4, <3>2
      <4> QED
        BY <1>1, <2>5, <2>6, <4>1
    <3> QED
      BY <1>1, <2>4, <3>1, <3>2
  <2> QED
    BY <1>1, <1>4, <2>2, <2>5, <2>7 DEF w
<1> QED
  BY <1>3, <1>4, SettingAssumption

LEMMA CleanOrder ==
  ASSUME NEW found \in BOOLEAN
  PROVE  /\ Clean(found) \in Seq(Thing)
         /\ \A k \in 0..Len(Clean(found)) :
              /\ "bucket" \in First(Clean(found), k) => "files" \in First(Clean(found), k)
              /\ "oidc" \in First(Clean(found), k) /\ found => "files" \in First(Clean(found), k)
         /\ {"stack", "identity", "cniResourceSet", "additional"} \subseteq First(Clean(found), Len(Clean(found)))
         /\ PodIdentity => "oidc" \in First(Clean(found), Len(Clean(found)))
         /\ PodIdentity /\ found => "bucket" \in First(Clean(found), Len(Clean(found)))
<1> DEFINE a == IdentityDeleted(found)
           b == deleteAWSBootstrapStack
           c == <<"identity", "cniResourceSet", "additional">>
           w == Clean(found)
           q == a \o b
<1>1. w = q \o c
  BY DEF Clean, IdentityDeleted
<1>2. a \in Seq(Thing) /\ Len(a) \in Nat
  BY IdentityOrder
<1>3. b \in Seq(Thing) /\ Len(b) = 1 /\ First(b, 1) = {"stack"}
  BY DEF deleteAWSBootstrapStack, Thing, First
<1>4. /\ c \in Seq(Thing) /\ Len(c) = 3 /\ {"identity", "cniResourceSet", "additional"} \subseteq First(c, 3)
      /\ \A k \in 0..3 : First(c, k) \subseteq {"identity", "cniResourceSet", "additional"}
  <2>1. c \in Seq(Thing) /\ Len(c) = 3 /\ c[1] = "identity" /\ c[2] = "cniResourceSet" /\ c[3] = "additional"
    BY DEF Thing
  <2> HIDE DEF c
  <2>2. \A i \in 1..3 : c[i] \in {"identity", "cniResourceSet", "additional"}
    BY <2>1
  <2> QED
    BY <2>1, <2>2 DEF First
<1>5. \A k \in 0..1 : First(b, k) \subseteq {"stack"}
  BY DEF deleteAWSBootstrapStack, First
<1>6. /\ \A k \in 0..Len(a) : /\ First(a, k) \subseteq {"files", "bucket", "oidc"}
                              /\ "bucket" \in First(a, k) => "files" \in First(a, k)
                              /\ "oidc" \in First(a, k) /\ found => "files" \in First(a, k)
      /\ PodIdentity => "oidc" \in First(a, Len(a))
      /\ PodIdentity /\ found => "bucket" \in First(a, Len(a))
  BY IdentityOrder
<1> HIDE DEF a, b, c, w
<1>7. q \in Seq(Thing) /\ Len(q) = Len(a) + Len(b)
  BY <1>2, <1>3, Both
<1>8. \A k \in 0..(Len(a) + Len(b)) :
        /\ k <= Len(a) => First(q, k) = First(a, k)
        /\ k > Len(a) => First(q, k) = First(a, Len(a)) \cup First(b, k - Len(a))
  BY <1>2, <1>3, FirstOfBoth
<1> HIDE DEF q
<1>9. w \in Seq(Thing) /\ Len(w) = Len(q) + Len(c)
  BY <1>1, <1>4, <1>7, Both
<1>10. \A k \in 0..(Len(q) + Len(c)) :
         /\ k <= Len(q) => First(w, k) = First(q, k)
         /\ k > Len(q) => First(w, k) = First(q, Len(q)) \cup First(c, k - Len(q))
  <2>1. q \in Seq(Thing) /\ c \in Seq(Thing)
    BY <1>4, <1>7
  <2> QED
    BY <1>1, <2>1, FirstOfBoth
<1>11. ASSUME NEW k \in 0..Len(w)
       PROVE  \E i \in 0..Len(a) : \E S : /\ First(w, k) = First(a, i) \cup S
                                          /\ S \subseteq {"stack", "identity", "cniResourceSet", "additional"}
                                          /\ k = Len(w) => i = Len(a) /\ S = {"stack", "identity", "cniResourceSet", "additional"}
  <2>1. Len(q) = Len(a) + 1 /\ Len(w) = Len(a) + 4
    BY <1>2, <1>3, <1>4, <1>7, <1>9
  <2>2. CASE k <= Len(a)
    <3>1. First(w, k) = First(a, k) \cup {} /\ k \in 0..Len(a) /\ k # Len(w)
      BY <1>2, <1>3, <1>4, <1>8, <1>10, <2>1, <2>2
    <3> QED
      BY <3>1
  <2>3. CASE k = Len(a) + 1
    <3>1. First(w, k) = First(a, Len(a)) \cup {"stack"} /\ Len(a) \in 0..Len(a) /\ k # Len(w)
      BY <1>2, <1>3, <1>4, <1>8, <1>10, <2>1, <2>3
    <3> QED
      BY <3>1
  <2>4. CASE k > Len(a) + 1
    <3> DEFINE S == {"stack"} \cup First(c, k - Len(q))
    <3>1. First(q, Len(q)) = First(a, Len(a)) \cup {"stack"}
      BY <1>2, <1>3, <1>8, <2>1
    <3>2. First(w, k) = First(a, Len(a)) \cup S
      BY <1>2, <1>4, <1>10, <2>1, <2>4, <3>1
    <3>3. k - Len(q) \in 0..3 /\ (k = Len(w) => k - Len(q) = 3) /\ Len(a) \in 0..Len(a)
      BY <1>2, <2>1, <2>4
    <3>4. /\ S \subseteq {"stack", "identity", "cniResourceSet", "additional"}
          /\ k = Len(w) => S = {"stack", "identity", "cniResourceSet", "additional"}
      BY <1>4, <3>3
    <3> HIDE DEF S
    <3> QED
      BY <3>2, <3>3, <3>4
  <2>5. k <= Len(a) \/ k = Len(a) + 1 \/ k > Len(a) + 1
    BY <1>2, <2>1
  <2> QED
    BY <2>2, <2>3, <2>4, <2>5
<1>12. \A k \in 0..Len(w) : /\ "bucket" \in First(w, k) => "files" \in First(w, k)
                            /\ "oidc" \in First(w, k) /\ found => "files" \in First(w, k)
  <2> SUFFICES ASSUME NEW k \in 0..Len(w)
               PROVE  /\ "bucket" \in First(w, k) => "files" \in First(w, k)
                      /\ "oidc" \in First(w, k) /\ found => "files" \in First(w, k)
    OBVIOUS
  <2>1. PICK i \in 0..Len(a) : \E S : First(w, k) = First(a, i) \cup S /\ S \subseteq {"stack", "identity", "cniResourceSet", "additional"}
    BY <1>11
  <2> QED
    BY <1>6, <2>1
<1>13. First(w, Len(w)) = First(a, Len(a)) \cup {"stack", "identity", "cniResourceSet", "additional"}
  <2>1. Len(w) \in 0..Len(w)
    BY <1>2, <1>3, <1>4, <1>7, <1>9
  <2> QED
    BY <1>11, <2>1
<1> QED
  BY <1>6, <1>9, <1>12, <1>13 DEF w
\* What is left after the first k of these deletions.
LEMMA CleanDone ==
  ASSUME NEW found \in BOOLEAN, NEW k \in 0..Len(Clean(found))
  PROVE  /\ k \in Nat /\ Len(Clean(found)) \in Nat
         /\ "bucket" \in Range(SubSeq(Clean(found), 1, k)) => "files" \in Range(SubSeq(Clean(found), 1, k))
         /\ "oidc" \in Range(SubSeq(Clean(found), 1, k)) /\ found => "files" \in Range(SubSeq(Clean(found), 1, k))
         /\ ~(k < Len(Clean(found))) =>
              /\ {"stack", "identity", "cniResourceSet", "additional"} \subseteq Range(SubSeq(Clean(found), 1, k))
              /\ PodIdentity => "oidc" \in Range(SubSeq(Clean(found), 1, k))
              /\ PodIdentity /\ found => "bucket" \in Range(SubSeq(Clean(found), 1, k))
<1> DEFINE w == Clean(found)
<1>1. /\ w \in Seq(Thing)
      /\ \A i \in 0..Len(w) : /\ "bucket" \in First(w, i) => "files" \in First(w, i)
                              /\ "oidc" \in First(w, i) /\ found => "files" \in First(w, i)
      /\ {"stack", "identity", "cniResourceSet", "additional"} \subseteq First(w, Len(w))
      /\ PodIdentity => "oidc" \in First(w, Len(w))
      /\ PodIdentity /\ found => "bucket" \in First(w, Len(w))
  BY CleanOrder
<1>2. k \in 0..Len(w)
  OBVIOUS
<1> HIDE DEF w
<1>3. Range(SubSeq(w, 1, k)) = First(w, k)
  BY <1>1, <1>2, FirstOf
<1>4. k \in Nat /\ Len(w) \in Nat /\ (~(k < Len(w)) => k = Len(w))
  BY <1>1, <1>2
<1>5. /\ "bucket" \in First(w, k) => "files" \in First(w, k)
      /\ "oidc" \in First(w, k) /\ found => "files" \in First(w, k)
      /\ ~(k < Len(w)) => /\ {"stack", "identity", "cniResourceSet", "additional"} \subseteq First(w, k)
                          /\ PodIdentity => "oidc" \in First(w, k)
                          /\ PodIdentity /\ found => "bucket" \in First(w, k)
  BY <1>1, <1>2, <1>4
<1> QED
  BY <1>3, <1>4, <1>5 DEF w

LEMMA DeleteStep ==
  ASSUME InfraInv, NEW found \in BOOLEAN, NEW patched \in BOOLEAN, NEW k \in 0..Len(Clean(found)),
         reconcileDelete(k, found, patched)
  PROVE  /\ InfraInv'
         /\ exists /\ finalizer /\ ~exists' =>
              /\ made' \cap {"oidc", "stack", "identity", "cniResourceSet"} = {}
              /\ ~misled' => "bucket" \notin made'
              /\ resourceSet' = 0
              /\ capi' = "None"
<1> DEFINE gone == Range(SubSeq(Clean(found), 1, k))
           failed == k < Len(Clean(found))
           wrong == found # ("bucket" \in made)
           f == keepsFinalizer(failed) \/ ~patched
           p == IF failed THEN "Failed" ELSE phase
           bad == failed \/ ~patched
           mishap == failed \/ ~patched \/ wrong
<1>1. Types /\ Infra
  BY DEF InfraInv
<1>2. /\ "bucket" \in gone => "files" \in gone
      /\ "oidc" \in gone /\ found => "files" \in gone
      /\ ~failed => /\ {"stack", "identity", "cniResourceSet", "additional"} \subseteq gone
                    /\ PodIdentity => "oidc" \in gone
                    /\ PodIdentity /\ found => "bucket" \in gone
  BY CleanDone
<1>3. /\ deletionTimestamp /\ capi = "None"
      /\ secretOwned' = ~deletionTimestamp
      /\ made' = made \ (gone \cup (IF "bucket" \in gone THEN {"access"} ELSE {}))
      /\ files' = IF "files" \in gone THEN [x \in File |-> 0] ELSE files
      /\ resourceSet' = IF "additional" \in gone THEN 0 ELSE resourceSet
      /\ Finalize(f) /\ EndReconcile(p, bad, mishap)
      /\ misled' = (misled \/ wrong)
      /\ UNCHANGED <<kubeconfigRef, additional, credential, capi, nodes, bootKey, edits>>
  BY DEF reconcileDelete, reconcileSecretOwnerReference, capiGone, userVars, capiVars
<1>4. /\ f \in BOOLEAN /\ bad \in BOOLEAN /\ mishap \in BOOLEAN /\ wrong \in BOOLEAN /\ p \in ClusterPhase
  BY <1>1, Phases DEF keepsFinalizer, Types
<1>5. ~f => ~failed
  BY DEF keepsFinalizer
<1>6. (wrong => mishap) /\ (~wrong => found = ("bucket" \in made))
  OBVIOUS
<1> HIDE DEF gone, failed, wrong, f, p, bad, mishap
<1>7. finalizer' \in BOOLEAN /\ exists' \in BOOLEAN /\ deletionTimestamp' = deletionTimestamp
  BY <1>1, <1>3, <1>4, Finalized
<1>8. /\ phase' \in ClusterPhase /\ queued' \in BOOLEAN
      /\ mishaps' \in Nat /\ mishaps' <= mishaps
      /\ mishap => mishaps' = mishaps - 1
  BY <1>1, <1>3, <1>4, <1>7, CallEnds
<1>9. Types'
  <2>1. {secretOwned, misled}' \subseteq BOOLEAN
    BY <1>1, <1>3, <1>4 DEF Types
  <2>2. files' \in [File -> Nat] /\ made' \subseteq Item /\ resourceSet' \in 0..2
    BY <1>1, <1>3 DEF Types
  <2> QED
    BY <1>1, <1>3, <1>7, <1>8, <2>1, <2>2 DEF Types
<1>10. \A x \in File : files'[x] <= CertBound'
  <2> DEFINE a == IF "oidc" \in made THEN 1 ELSE 0
             b == IF "oidc" \in made' THEN 1 ELSE 0
  <2>1. /\ CertBound = MaxMishaps - mishaps + a /\ CertBound' = MaxMishaps - mishaps' + b
        /\ a \in 0..1 /\ b \in 0..1 /\ ("oidc" \notin gone => a = b)
    BY <1>3 DEF CertBound
  <2>2. mishaps \in Nat /\ mishaps' \in Nat /\ mishaps' <= mishaps /\ mishaps <= MaxMishaps /\ MaxMishaps \in Nat
    BY <1>1, <1>8, BoundAssumption DEF Types, Infra
  <2>3. \A x \in File : files[x] \in Nat /\ files[x] <= CertBound
    BY <1>1 DEF Types, Infra
  <2> HIDE DEF a, b
  <2>4. CertBound \in Int /\ CertBound' \in Int /\ 0 <= CertBound' /\ (a = b \/ mishaps' = mishaps - 1 => CertBound <= CertBound')
    BY <2>1, <2>2, BoundKept
  <2>5. CASE "files" \in gone
    BY <1>3, <2>4, <2>5
  <2>6. CASE "files" \notin gone /\ "oidc" \notin gone
    BY <1>3, <2>1, <2>3, <2>4, <2>6
  <2>7. CASE "files" \notin gone /\ "oidc" \in gone
    <3>1. ~found
      BY <1>2, <1>3, <2>7
    <3>2. CASE wrong
      <4>1. mishaps' = mishaps - 1
        BY <1>6, <1>8, <3>2
      <4> QED
        BY <1>3, <2>3, <2>4, <2>7, <4>1
    <3>3. CASE ~wrong
      <4>1. \A x \in File : files[x] = 0
        BY <1>1, <1>6, <3>1, <3>3 DEF Infra
      <4> QED
        BY <1>3, <2>4, <2>7, <4>1
    <3> QED
      BY <3>2, <3>3
  <2> QED
    BY <2>5, <2>6, <2>7
<1>11. mishaps' <= MaxMishaps
  BY <1>1, <1>8, BoundAssumption DEF Types, Infra
<1>12. \A x \in File : files'[x] # 0 => "bucket" \in made'
  BY <1>1, <1>2, <1>3 DEF Infra
<1>13. CertsKept'
  BY <1>3, <1>7 DEF CertsKept, OneCert
<1>14. Infra'
  BY <1>1, <1>3, <1>7, <1>10, <1>11, <1>12, <1>13 DEF Infra
<1>15. ASSUME ~exists'
       PROVE  /\ made' \cap {"oidc", "stack", "identity", "cniResourceSet"} = {}
              /\ ~misled' => "bucket" \notin made'
              /\ resourceSet' = 0
              /\ capi' = "None"
  <2>1. ~failed
    BY <1>3, <1>4, <1>5, <1>15 DEF Finalize
  <2>2. "oidc" \notin made'
    BY <1>1, <1>2, <1>3, <2>1 DEF Infra
  <2>3. ~misled' => "bucket" \notin made'
    BY <1>1, <1>2, <1>3, <1>4, <1>6, <2>1 DEF Infra
  <2> QED
    BY <1>2, <1>3, <2>1, <2>2, <2>3
<1> QED
  BY <1>9, <1>14, <1>15 DEF InfraInv
-----------------------------------------------------------------------------
(* The steps. *)

\* A call for a Cluster that is not deleted, whatever the lookup of the OpenID
\* provider answered.
LEMMA NormalSteps ==
  ASSUME InfraInv, (\E found, patched \in BOOLEAN : reconcileNormal(found, patched)) \/ reconcileLookupFails
  PROVE  InfraInv' /\ exists'
<1>1. \A exist, found \in BOOLEAN : Stop(Work(exist, found)) \in Nat
  BY WorkStops
<1>2. \A w, stop, k : \A patched : ~deletionTimestamp /\ reconcile(w, stop, k, patched) => exists'
  BY DEF reconcile, Finalize
<1>3. CASE \E found, patched \in BOOLEAN : reconcileNormal(found, patched)
  <2>1. PICK found \in BOOLEAN, patched \in BOOLEAN : reconcileNormal(found, patched)
    BY <1>3
  <2> DEFINE exist == "oidc" \in made
             w == Work(exist, found)
  <2>2. /\ ~deletionTimestamp /\ misled' = misled
        /\ \E k \in IF mishaps > 0 THEN 0..Stop(w) ELSE {Stop(w)} : reconcile(w, Stop(w), k, patched)
    BY <2>1 DEF reconcileNormal
  <2>3. exist \in BOOLEAN /\ Answered(exist, w, Stop(w))
    BY <2>2 DEF Answered
  <2> HIDE DEF exist
  <2>4. Stop(w) \in Nat
    BY <1>1, <2>3
  <2>5. PICK k \in 0..Stop(w) : reconcile(w, Stop(w), k, patched)
    BY <2>2, <2>4
  <2>6. InfraInv'
    BY <2>2, <2>3, <2>5, MakeStep
  <2> QED
    BY <1>2, <2>2, <2>5, <2>6
<1>4. CASE reconcileLookupFails
  <2> DEFINE exist == FALSE
             found == TRUE
             patched == TRUE
             w == Work(exist, found)
  <2>1. ~deletionTimestamp /\ misled' = TRUE /\ \E k \in 0..Stop(w) : reconcile(w, k + 1, k, patched)
    BY <1>4 DEF reconcileLookupFails
  <2>2. exist \in BOOLEAN /\ found \in BOOLEAN /\ patched \in BOOLEAN /\ ~exist
    OBVIOUS
  <2> HIDE DEF exist, found, patched
  <2>3. PICK k \in 0..Stop(w) : reconcile(w, k + 1, k, patched)
    BY <2>1
  <2>4. Unanswered(exist, k, k + 1)
    BY <2>1, <2>2 DEF Unanswered
  <2>5. InfraInv'
    BY <2>1, <2>2, <2>3, <2>4, MakeStep
  <2> QED
    BY <1>2, <2>1, <2>3, <2>5
<1> QED
  BY <1>3, <1>4

\* Only a call that deletes lets a Cluster with the finalizer go.
LEMMA OthersKeep ==
  ASSUME exists, finalizer,
         \/ reconcileGone \/ Environment
         \/ \E mishap \in BOOLEAN : \/ reconcileNoSecret(mishap) \/ reconcilePrecheckFails(mishap)
                                    \/ reconcileDeleteCAPI(mishap) \/ reconcileDeleting(mishap)
  PROVE  exists'
<1>1. CASE reconcileGone
  BY <1>1 DEF reconcileGone
<1>2. CASE \E mishap \in BOOLEAN : \/ reconcileNoSecret(mishap) \/ reconcilePrecheckFails(mishap)
                                   \/ reconcileDeleteCAPI(mishap) \/ reconcileDeleting(mishap)
  BY <1>2, Zenon DEF reconcileNoSecret, reconcilePrecheckFails, reconcileDeleteCAPI, reconcileDeleting, objectVars
<1>3. CASE Environment
  BY <1>3 DEF Environment, CAPIStep, NodesReady, CAPIDeletes, GarbageCollect, DeleteCluster, EditAdditional, Resync,
              EditSecret, objectVars
<1> QED
  BY <1>1, <1>2, <1>3

\* What a step that lets the Cluster go leaves behind.
LetGo ==
  exists /\ finalizer /\ ~exists' =>
    /\ made' \cap {"oidc", "stack", "identity", "cniResourceSet"} = {}
    /\ ~misled' => "bucket" \notin made'
    /\ resourceSet' = 0
    /\ capi' = "None"

LEMMA InfraSteps == InfraInv /\ [Next]_vars => InfraInv' /\ [LetGo]_vars
<1> SUFFICES ASSUME InfraInv, [Next]_vars PROVE InfraInv' /\ [LetGo]_vars
  OBVIOUS
<1>1. CASE UNCHANGED vars
  <2>1. UNCHANGED <<exists, deletionTimestamp, finalizer, phase, kubeconfigRef, additional, credential, secretOwned,
                    queued, made, files, resourceSet, capi, nodes, bootKey, misled, edits, mishaps>>
    BY <1>1 DEF vars, objectVars, statusVars, userVars, infraVars, capiVars
  <2>2. Types /\ Infra
    BY DEF InfraInv
  <2>3. Types'
    BY <2>1, <2>2 DEF Types
  <2>4. mishaps' <= mishaps
    BY <2>1, <2>2 DEF Types
  <2>5. Infra'
    BY <2>1, <2>3, <2>4, QuietStep
  <2> QED
    BY <1>1, <2>3, <2>5 DEF InfraInv
<1>2. CASE Environment \/ reconcileGone
  BY <1>2, EnvironmentSteps, OthersKeep DEF LetGo
<1>3. CASE \E mishap \in BOOLEAN : \/ reconcileNoSecret(mishap) \/ reconcilePrecheckFails(mishap)
                                   \/ reconcileDeleteCAPI(mishap) \/ reconcileDeleting(mishap)
  <2>1. InfraInv'
    BY <1>3, IdleCalls
  <2>2. LetGo
    BY <1>3, OthersKeep DEF LetGo
  <2> QED
    BY <2>1, <2>2
<1>4. CASE (\E found, patched \in BOOLEAN : reconcileNormal(found, patched)) \/ reconcileLookupFails
  BY <1>4, NormalSteps DEF LetGo
<1>5. CASE \E found, patched \in BOOLEAN : \E k \in 0..Len(Clean(found)) : reconcileDelete(k, found, patched)
  BY <1>5, DeleteStep DEF LetGo
<1> QED
  BY <1>1, <1>2, <1>3, <1>4, <1>5 DEF Next, Reconcile

LEMMA InfraInvariant == Spec => []InfraInv
  BY InfraInitial, InfraSteps, PTL DEF Spec

\* While the Cluster of Cluster API is there, so is everything it runs on: the
\* secret, the identity, the stack and the AWSCluster, and with pod identity the
\* bucket and the OpenID provider; wherever the calls before had stopped.
THEOREM InfraBeforeCAPI == Spec => []CAPIHasItsInfra
  BY InfraInvariant, InfraImplies, PTL

\* As long as no lookup failed and the Cluster is not deleted, once there is an
\* OpenID provider the files of the bucket and the key the control plane booted
\* with come from one certificate, however many uploads were cut short before.
THEOREM OneCertificate == Spec => []CertsKept
  BY InfraInvariant, InfraImplies, PTL

\* The Cluster is let go only when Cluster API is done and nothing the provider
\* made is left in AWS, wherever earlier deletions had stopped; a bucket may be
\* left after a lookup that failed.
THEOREM CleanedUpBeforeGone == Spec => CleanedUp
<1>1. [LetGo]_vars => [exists /\ finalizer /\ ~exists' =>
       /\ made' \cap ({"oidc", "stack", "identity", "cniResourceSet"} \cup (IF misled' THEN {} ELSE {"bucket"})) = {}
       /\ resourceSet' = 0
       /\ capi' = "None"]_vars
  BY DEF LetGo
<1> QED
  BY <1>1, InfraInvariant, InfraSteps, PTL DEF Spec, CleanedUp
=============================================================================

-------------------------- MODULE Installers_proofs --------------------------
(* Proofs about Installers, for every list of members, every set of goals and    *)
(* every number of mishaps: one root certificate (OneRootAlways) and no remote   *)
(* control plane before its primary (RemotesWait).                               *)
(*                                                                               *)
(* What an installer does is a list of steps that its functions put together, so *)
(* half of the argument is about that list: every Execute is well built          *)
(* (Programs), which for Istio says that the step that starts a remote comes     *)
(* behind the steps that wait for what it needs. The other half is the inductive *)
(* invariant: what was waited for is still true (MeshInv), and a root is made    *)
(* only while Karmada has none (RootInv).                                        *)
EXTENDS Installers, TLAPS

-----------------------------------------------------------------------------
(* Sequences. *)

\* A sequence is a function on the numbers up to its length.
LEMMA LengthIs ==
  ASSUME NEW S, NEW s \in Seq(S)
  PROVE  Len(s) \in Nat /\ s \in [1..Len(s) -> S] /\ DOMAIN s = 1..Len(s)
OBVIOUS

\* Two sequences joined.
LEMMA ConcatIs ==
  ASSUME NEW S, NEW s \in Seq(S), NEW t \in Seq(S)
  PROVE  /\ s \o t \in Seq(S) /\ Len(s \o t) = Len(s) + Len(t)
         /\ \A i \in 1..Len(s) + Len(t) : (s \o t)[i] = IF i <= Len(s) THEN s[i] ELSE t[i - Len(s)]
OBVIOUS

\* The first element and the rest.
LEMMA HeadTailIs ==
  ASSUME NEW S, NEW s \in Seq(S), s # <<>>
  PROVE  Head(s) \in S /\ Tail(s) \in Seq(S) /\ Len(Tail(s)) = Len(s) - 1
OBVIOUS

-----------------------------------------------------------------------------
(* 1. The steps of an installer: what a step may do, and that what the plugins'
   functions append to an installation are steps of that kind. *)

\* What the installers speak of: the objects, the places and what is true of
\* an object at a place, as Installers writes its facts.
Object == {"karmada", "cluster", "namespace", "crd", "workload", "argocd", "argocd-server", "broker", "gateway",
           "vizier", "rbac", "cloudcore-elb of default", "cloudcore-elb", "edge node", "prometheus", "elb",
           "scrape configs", "override", "objstore", "endpoints", "thanos", "thanos-query", "sidecar-remote",
           "istio crd", "istio resources", "cacerts", "iop", "remote iop", "remote secret"}

Place == Clusters \cup {"host", "karmada", "second"}

Word == {"applied", "placed", "joined", "added", "ready", "present", "addressed"}

Fact == Object \X Place \X Word

\* What a step may do without a thought: it makes no root, and starts no remote.
Harmless ==
  {f \in Fact : /\ f[3] \in {"applied", "placed", "joined", "added"}
                /\ f[1] = "cacerts" => f[3] = "placed"
                /\ f[1] = "remote iop" => f[3] # "placed"}

\* The steps, by what they do.
Acts == [do : {"apply", "run"}, facts : SUBSET Harmless, dry : BOOLEAN]
Questions == [do : {"wait", "ask"}, facts : SUBSET Fact, dry : BOOLEAN]
ToolSteps == [do : {"tool", "tool or local", "scp"}, facts : {{t} : t \in Tool}, dry : BOOLEAN]
Others == [do : {"delete", "cacerts"}, facts : {{}}, dry : BOOLEAN]

\* What every plugin is made of.
Plain == Acts \cup Questions \cup ToolSteps \cup Others

\* Neither left out by a dry run nor one that deletes.
Steady == {s \in Plain : s.dry = TRUE /\ s.do # "delete"}

\* A sequence of such steps, and at least one.
Program(S) == {s \in Seq(S) : s # <<>>}

\* One step is a program.
LEMMA OneStep ==
  ASSUME NEW S, NEW r \in S
  PROVE  <<r>> \in Program(S)
<1>1. <<r>> \in Seq(S) /\ Len(<<r>>) = 1
  OBVIOUS
<1> QED
  BY <1>1 DEF Program

\* A sequence of steady steps is one of plain ones.
LEMMA SteadyPlain ==
  ASSUME NEW s
  PROVE  /\ s \in Seq(Steady) => s \in Seq(Plain)
         /\ s \in Program(Steady) => s \in Program(Plain) /\ s \in Seq(Steady)
<1>1. Steady \subseteq Plain
  BY DEF Steady
<1>2. ASSUME s \in Seq(Steady) PROVE s \in Seq(Plain)
  <2> DEFINE n == Len(s)
  <2>1. n \in Nat /\ \A i \in 1..n : s[i] \in Plain
    BY <1>1, <1>2, LengthIs
  <2>2. s = [i \in 1..n |-> s[i]]
    BY <1>2
  <2> HIDE DEF n
  <2> QED
    BY <2>1, <2>2
<1> QED
  BY <1>2 DEF Program

\* Applying or running what is harmless is a steady step.
LEMMA ActIs ==
  ASSUME NEW d \in {"apply", "run"}, NEW f \in SUBSET Harmless
  PROVE  Step(d, f) \in Program(Steady)
<1> DEFINE r == [do |-> d, facts |-> f, dry |-> TRUE]
<1>1. r \in Acts /\ r.dry = TRUE /\ r.do # "delete"
  BY DEF Acts
<1>2. r \in Steady
  BY <1>1 DEF Steady, Plain
<1>3. Step(d, f) = <<r>>
  BY DEF Step
<1> HIDE DEF r
<1> QED
  BY <1>2, <1>3, OneStep

\* So is waiting or asking for anything,
LEMMA QuestionIs ==
  ASSUME NEW d \in {"wait", "ask"}, NEW f \in SUBSET Fact
  PROVE  Step(d, f) \in Program(Steady)
<1> DEFINE r == [do |-> d, facts |-> f, dry |-> TRUE]
<1>1. r \in Questions /\ r.dry = TRUE /\ r.do # "delete"
  BY DEF Questions
<1>2. r \in Steady
  BY <1>1 DEF Steady, Plain
<1>3. Step(d, f) = <<r>>
  BY DEF Step
<1> HIDE DEF r
<1> QED
  BY <1>2, <1>3, OneStep

\* looking for a tool, downloading it if it is missing,
LEMMA InstallIs ==
  ASSUME NEW t \in Tool, NEW orLocal \in BOOLEAN
  PROVE  Install(t, orLocal) \in Program(Steady)
<1> DEFINE d == IF orLocal THEN "tool or local" ELSE "tool"
           r == [do |-> d, facts |-> {t}, dry |-> TRUE]
<1>0. d \in {"tool", "tool or local", "scp"} /\ d # "delete"
  OBVIOUS
<1> HIDE DEF d
<1>1. r \in ToolSteps /\ r.dry = TRUE /\ r.do # "delete"
  BY <1>0 DEF ToolSteps
<1>2. r \in Steady
  BY <1>1 DEF Steady, Plain
<1>3. Install(t, orLocal) = <<r>>
  BY DEF Install, d
<1> HIDE DEF r
<1> QED
  BY <1>2, <1>3, OneStep

\* copying keadm to an edge node,
LEMMA ScpIs == scpKeadm \in Program(Steady)
<1> DEFINE r == [do |-> "scp", facts |-> {"keadm on the edge"}, dry |-> TRUE]
<1>1. r \in ToolSteps /\ r.dry = TRUE /\ r.do # "delete"
  BY DEF ToolSteps, Tool
<1>2. r \in Steady
  BY <1>1 DEF Steady, Plain
<1>3. scpKeadm = <<r>>
  BY DEF scpKeadm, Step
<1> HIDE DEF r
<1> QED
  BY <1>2, <1>3, OneStep

\* and making the certificates.
LEMMA CacertsIs == Step("cacerts", {}) \in Program(Steady)
<1> DEFINE r == [do |-> "cacerts", facts |-> {}, dry |-> TRUE]
<1>1. r \in Others /\ r.dry = TRUE /\ r.do # "delete"
  BY DEF Others
<1>2. r \in Steady
  BY <1>1 DEF Steady, Plain
<1>3. Step("cacerts", {}) = <<r>>
  BY DEF Step
<1> HIDE DEF r
<1>4. <<r>> \in Program(Steady)
  BY <1>2, OneStep
<1> QED
  BY <1>3, <1>4

\* Waiting until the namespace of a failed installation is gone is a plain step.
LEMMA DeleteIs == Step("delete", {}) \in Program(Plain)
<1> DEFINE r == [do |-> "delete", facts |-> {}, dry |-> TRUE]
<1>1. r \in Plain
  BY DEF Others, Plain
<1>3. Step("delete", {}) = <<r>>
  BY DEF Step
<1> HIDE DEF r
<1>4. <<r>> \in Program(Plain)
  BY <1>1, OneStep
<1> QED
  BY <1>3, <1>4

\* Leaving a step of the kind to dry runs gives another of the kind.
MayBeLeftOut(S) == \A x \in S : [x EXCEPT !.dry = FALSE] \in S

\* What is not done in a dry run is a program as before.
LEMMA UnlessDryRunIs ==
  ASSUME NEW S, MayBeLeftOut(S), NEW s \in Program(S)
  PROVE  UnlessDryRun(s) \in Program(S)
<1> DEFINE n == Len(s)
           r(i) == [s[i] EXCEPT !.dry = FALSE]
<1>1. n \in Nat /\ n # 0 /\ DOMAIN s = 1..n /\ \A i \in 1..n : s[i] \in S
  BY LengthIs DEF Program
<1>2. UnlessDryRun(s) = [i \in 1..n |-> r(i)]
  BY <1>1 DEF UnlessDryRun
<1>3. \A i \in 1..n : r(i) \in S
  BY <1>1 DEF MayBeLeftOut
<1> HIDE DEF n, r
<1>4. UnlessDryRun(s) \in Seq(S) /\ Len(UnlessDryRun(s)) = n
  BY <1>1, <1>2, <1>3
<1> QED
  BY <1>1, <1>4 DEF Program

\* A plain step may be left out.
LEMMA PlainLeftOut == MayBeLeftOut(Plain)
<1> SUFFICES ASSUME NEW x \in Plain PROVE [x EXCEPT !.dry = FALSE] \in Plain
  BY DEF MayBeLeftOut
<1>1. CASE x \in Acts
  <2>1. [x EXCEPT !.dry = FALSE] \in Acts
    BY <1>1 DEF Acts
  <2> QED
    BY <2>1 DEF Plain
<1>2. CASE x \in Questions
  <2>1. [x EXCEPT !.dry = FALSE] \in Questions
    BY <1>2 DEF Questions
  <2> QED
    BY <2>1 DEF Plain
<1>3. CASE x \in ToolSteps
  <2>1. [x EXCEPT !.dry = FALSE] \in ToolSteps
    BY <1>3 DEF ToolSteps
  <2> QED
    BY <2>1 DEF Plain
<1>4. CASE x \in Others
  <2>1. [x EXCEPT !.dry = FALSE] \in Others
    BY <1>4 DEF Others
  <2> QED
    BY <2>1 DEF Plain
<1> QED
  BY <1>1, <1>2, <1>3, <1>4 DEF Plain

\* Applying resources is steady, as long as they are not the certificates.
LEMMA UpdateIs ==
  ASSUME NEW objects \in SUBSET (Object \ {"cacerts"}), NEW at \in Place
  PROVE  UpdateResource(objects, at) \in Program(Steady)
<1>1. ASSUME NEW o \in objects PROVE <<o, at, "applied">> \in Harmless
  <2>1. <<o, at, "applied">> \in Fact
    BY DEF Fact, Word
  <2> QED
    BY <2>1 DEF Harmless
<1>2. {<<o, at, "applied">> : o \in objects} \in SUBSET Harmless
  BY <1>1
<1> QED
  BY <1>2, ActIs DEF UpdateResource

\* Placing an object with a policy is steady, unless it is a remote control plane.
LEMMA PolicyIs ==
  ASSUME NEW object \in Object \ {"remote iop"}, NEW cs \in SUBSET Clusters
  PROVE  ApplyPropagationPolicy(object, cs) \in Program(Steady)
<1>1. ASSUME NEW c \in cs PROVE <<object, c, "placed">> \in Harmless
  <2>1. <<object, c, "placed">> \in Fact
    BY DEF Fact, Word, Place
  <2> QED
    BY <2>1 DEF Harmless
<1>2. {<<object, c, "placed">> : c \in cs} \in SUBSET Harmless
  BY <1>1
<1> QED
  BY <1>2, ActIs DEF ApplyPropagationPolicy

\* What the two policies of a manifest place is harmless.
LEMMA PlacedIs ==
  ASSUME NEW os \in SUBSET {"crd", "rbac", "workload", "prometheus"}
  PROVE  {<<o, c, "placed">> : o \in os, c \in Clusters} \in SUBSET Harmless
<1>1. ASSUME NEW o \in os, NEW c \in Clusters PROVE <<o, c, "placed">> \in Harmless
  <2>1. <<o, c, "placed">> \in Fact
    BY DEF Fact, Word, Place, Object
  <2> QED
    BY <2>1 DEF Harmless
<1> QED
  BY <1>1

\* The two policies made from the resources of a manifest are steady.
LEMMA PoliciesAre ==
  ASSUME NEW rs
  PROVE  ClusterPropagationPolicy(rs) \in Program(Steady) /\ PropagationPolicy(rs) \in Program(Steady)
<1> DEFINE A == AppendResourceSelector(rs, ClusterScoped)
           B == AppendResourceSelector(rs, Namespaced)
           P(os) == {<<o, c, "placed">> : o \in os, c \in Clusters}
<1>1. A \in SUBSET {"crd", "rbac", "workload", "prometheus"} /\ B \in SUBSET {"crd", "rbac", "workload", "prometheus"}
  BY DEF AppendResourceSelector, ClusterScoped, Namespaced
<1> HIDE DEF A, B
<1>2. P(A) \in SUBSET Harmless /\ P(B) \in SUBSET Harmless
  BY <1>1, PlacedIs
<1>3. ClusterPropagationPolicy(rs) = Step("apply", P(A)) /\ PropagationPolicy(rs) = Step("apply", P(B))
  BY DEF ClusterPropagationPolicy, PropagationPolicy, A, B
<1> HIDE DEF P
<1> QED
  BY <1>2, <1>3, ActIs

\* Waiting or asking for an object in several places is steady,
LEMMA AwaitIs ==
  ASSUME NEW d \in {"wait", "ask"}, NEW object \in Object, NEW places \in SUBSET Place, NEW word \in Word
  PROVE  Step(d, {<<object, c, word>> : c \in places}) \in Program(Steady)
<1>1. \A c \in places : <<object, c, word>> \in Fact
  BY DEF Fact
<1>2. {<<object, c, word>> : c \in places} \in SUBSET Fact
  BY <1>1
<1> QED
  BY <1>2, QuestionIs

\* so is waiting for the pods of an object,
LEMMA WaitPodIs ==
  ASSUME NEW object \in Object, NEW places \in SUBSET Place
  PROVE  WaitPodReady(object, places) \in Program(Steady)
<1>1. "wait" \in {"wait", "ask"} /\ "ready" \in Word
  BY DEF Word
<1>2. Step("wait", {<<object, c, "ready">> : c \in places}) \in Program(Steady)
  BY <1>1, AwaitIs
<1> QED
  BY <1>2 DEF WaitPodReady

\* asking whether clusters are ready,
LEMMA ClustersReadyIs ==
  ASSUME NEW places \in SUBSET Place
  PROVE  IsClustersReady(places) \in Program(Steady)
<1>1. "ask" \in {"wait", "ask"} /\ "ready" \in Word /\ "cluster" \in Object
  BY DEF Word, Object
<1>2. Step("ask", {<<"cluster", c, "ready">> : c \in places}) \in Program(Steady)
  BY <1>1, AwaitIs
<1> QED
  BY <1>2 DEF IsClustersReady

\* and both in one place.
LEMMA AwaitOneIs ==
  ASSUME NEW d \in {"wait", "ask"}, NEW object \in Object, NEW at \in Place, NEW word \in Word
  PROVE  Step(d, {<<object, at, word>>}) \in Program(Steady)
<1>1. {<<object, at, word>>} \in SUBSET Fact
  BY DEF Fact
<1> QED
  BY <1>1, QuestionIs

\* Running a command that leaves one object behind is steady,
LEMMA RunOneIs ==
  ASSUME NEW object \in Object \ {"cacerts", "remote iop"}, NEW at \in Place,
         NEW word \in {"applied", "joined", "added"}
  PROVE  Run({<<object, at, word>>}) \in Program(Steady)
<1>1. <<object, at, word>> \in Fact
  BY DEF Fact, Word
<1>2. <<object, at, word>> \in Harmless
  BY <1>1 DEF Harmless
<1>3. {<<object, at, word>>} \in SUBSET Harmless
  BY <1>2
<1> QED
  BY <1>3, ActIs DEF Run

\* one that leaves nothing too.
LEMMA RunNothingIs == Run({}) \in Program(Steady)
BY ActIs DEF Run

-----------------------------------------------------------------------------
(* 2. Going through a list piece by piece: a set of numbers that holds 0 and hands
   on reaches every number, so what Flatten computes can be named. *)

\* Every set of numbers that is not empty has a least one: the principle all
\* induction rests on here. It is proved where it is needed last (Least).
LeastNumber == \A S \in SUBSET Nat : S # {} => \E i \in S : \A j \in S : i <= j

\* What holds at 0 and is handed on holds up to n.
HandedOn(n, S) == 0 \in S /\ \A i \in 1..n : i - 1 \in S => i \in S

\* Induction, over the members of a set.
LEMMA UpTo ==
  ASSUME LeastNumber, NEW n \in Nat, NEW S, HandedOn(n, S)
  PROVE  n \in S
<1> DEFINE bad == (0..n) \ S
<1> SUFFICES ASSUME bad # {} PROVE FALSE
  OBVIOUS
<1>1. bad \in SUBSET Nat
  OBVIOUS
<1>2. PICK m \in bad : \A j \in bad : m <= j
  <2> HIDE DEF bad
  <2> QED BY <1>1 DEF LeastNumber
<1>3. m \in 1..n
  BY DEF HandedOn
<1>4. m - 1 \in 0..n /\ m - 1 \notin bad
  <2> SUFFICES m - 1 \in 0..n /\ ~(m <= m - 1)
    BY <1>2
  <2> QED BY <1>3
<1> QED
  BY <1>3, <1>4 DEF HandedOn

\* A function that is computed step by step from b, the i-th step by st[i].
Steps(n, b, st, G) == G[0] = b /\ \A i \in 1..n : G[i] = st[i][G[i - 1]]

\* Such a function exists.
LEMMA FoldExists ==
  ASSUME LeastNumber, NEW n \in Nat, NEW X, NEW b \in X, NEW st \in [1..n -> [X -> X]]
  PROVE  \E G \in [0..n -> X] : Steps(n, b, st, G)
<1> DEFINE S == {k \in 0..n : \E G \in [0..k -> X] : Steps(k, b, st, G)}
<1>1. 0 \in S
  <2>1. [i \in 0..0 |-> b] \in [0..0 -> X] /\ Steps(0, b, st, [i \in 0..0 |-> b])
    BY DEF Steps
  <2> QED BY <2>1
<1>2. ASSUME NEW m \in 1..n, m - 1 \in S PROVE m \in S
  <2>1. PICK G \in [0..(m - 1) -> X] : Steps(m - 1, b, st, G)
    BY <1>2
  <2> DEFINE x == st[m][G[m - 1]]
             K == [i \in 0..m |-> IF i = m THEN x ELSE G[i]]
  <2>2. x \in X
    OBVIOUS
  <2> HIDE DEF x, S
  <2>3. K \in [0..m -> X]
    BY <2>2
  <2>4. K[0] = b
    BY <2>1 DEF Steps
  <2>5. ASSUME NEW i \in 1..m PROVE K[i] = st[i][K[i - 1]]
    <3>1. K[i - 1] = G[i - 1]
      OBVIOUS
    <3>2. CASE i = m
      BY <3>1, <3>2 DEF x
    <3>3. CASE i # m
      <4>1. i \in 1..(m - 1)
        BY <3>3
      <4>2. K[i] = G[i]
        BY <3>3
      <4> HIDE DEF K
      <4> QED
        BY <2>1, <3>1, <4>1, <4>2 DEF Steps
    <3> QED BY <3>2, <3>3
  <2>6. Steps(m, b, st, K)
    BY <2>4, <2>5 DEF Steps
  <2> HIDE DEF K
  <2>7. \E H \in [0..m -> X] : Steps(m, b, st, H)
    BY <2>3, <2>6
  <2> QED
    BY <2>7 DEF S
<1> HIDE DEF S
<1>3. n \in S
  <2>1. HandedOn(n, S)
    BY <1>1, <1>2 DEF HandedOn
  <2> QED
    BY <2>1, UpTo
<1> QED
  BY <1>3 DEF S

\* Joined sequences are sequences.
LEMMA ThreeAre ==
  ASSUME NEW S, NEW a \in Seq(S), NEW b \in Seq(S), NEW c \in Seq(S)
  PROVE  a \o b \in Seq(S) /\ a \o b \o c \in Seq(S)
OBVIOUS

\* A sequence of sequences is joined piece by piece.
Joined(n, ss, T, G) ==
  /\ G \in [0..n -> Seq(T)]
  /\ G[0] = <<>>
  /\ \A i \in 1..n : G[i] = G[i - 1] \o ss[i]

\* Such a joining exists,
LEMMA JoinedExists ==
  ASSUME LeastNumber, NEW n \in Nat, NEW T, NEW ss \in [1..n -> Seq(T)]
  PROVE  \E G : Joined(n, ss, T, G)
<1> DEFINE st == [i \in 1..n |-> [x \in Seq(T) |-> x \o ss[i]]]
<1>1. st \in [1..n -> [Seq(T) -> Seq(T)]]
  <2>1. \A i \in 1..n : \A x \in Seq(T) : x \o ss[i] \in Seq(T)
    BY ThreeAre
  <2> QED
    BY <2>1
<1>2. <<>> \in Seq(T)
  OBVIOUS
<1> HIDE DEF st
<1>3. PICK G \in [0..n -> Seq(T)] : Steps(n, <<>>, st, G)
  BY <1>1, <1>2, FoldExists
<1>4. \A i \in 1..n : G[i] = G[i - 1] \o ss[i]
  <2> SUFFICES ASSUME NEW i \in 1..n PROVE G[i] = G[i - 1] \o ss[i]
    OBVIOUS
  <2>1. i - 1 \in 0..n
    OBVIOUS
  <2>2. G[i - 1] \in Seq(T) /\ G[i] = st[i][G[i - 1]]
    BY <1>3, <2>1 DEF Steps
  <2> QED
    BY <2>2 DEF st
<1> QED
  BY <1>3, <1>4 DEF Steps, Joined

\* and its last value is what Flatten computes.
LEMMA FlattenIs ==
  ASSUME LeastNumber, NEW n \in Nat, NEW T, NEW ss \in [1..n -> Seq(T)]
  PROVE  \E G : Joined(n, ss, T, G) /\ Flatten(ss) = G[n]
<1>1. PICK G : Joined(n, ss, T, G)
  BY JoinedExists
<1>2. Len(ss) = n
  OBVIOUS
<1> DEFINE body(f, i) == IF i = 0 THEN <<>> ELSE f[i - 1] \o ss[i]
           upTo == CHOOSE f : f = [i \in 0..n |-> body(f, i)]
<1>3. Flatten(ss) = upTo[n]
  BY <1>2 DEF Flatten
<1>4. \A i \in 0..n : G[i] = body(G, i)
  <2> SUFFICES ASSUME NEW i \in 0..n PROVE G[i] = body(G, i)
    OBVIOUS
  <2>1. CASE i = 0
    BY <1>1, <2>1 DEF Joined
  <2>2. CASE i # 0
    <3>1. i \in 1..n
      BY <2>2
    <3>2. G[i] = G[i - 1] \o ss[i]
      BY <1>1, <3>1 DEF Joined
    <3> QED
      BY <2>2, <3>2
  <2> QED
    BY <2>1, <2>2
<1>5. G = [i \in 0..n |-> G[i]]
  BY <1>1 DEF Joined
<1> HIDE DEF body
<1>6. G = [i \in 0..n |-> body(G, i)]
  BY <1>4, <1>5
<1>7. upTo = [i \in 0..n |-> body(upTo, i)]
  BY <1>6
<1> HIDE DEF upTo
<1>8. \A i \in 0..n : upTo[i] = body(upTo, i)
  BY <1>7
<1> DEFINE S == {i \in 0..n : upTo[i] = G[i]}
<1>9. 0 \in S
  BY <1>4, <1>8 DEF body
<1>10. ASSUME NEW i \in 1..n, i - 1 \in S PROVE i \in S
  <2>1. upTo[i - 1] = G[i - 1]
    BY <1>10
  <2>2. upTo[i] = body(upTo, i) /\ G[i] = body(G, i)
    BY <1>4, <1>8
  <2> QED
    BY <2>1, <2>2 DEF body
<1> HIDE DEF S
<1>11. n \in S
  <2>1. HandedOn(n, S)
    BY <1>9, <1>10 DEF HandedOn
  <2> QED
    BY <2>1, UpTo
<1> QED
  BY <1>1, <1>3, <1>11 DEF S

\* Sequences over a set are flattened to a sequence over it.
LEMMA FlattenType ==
  ASSUME LeastNumber, NEW n \in Nat, NEW T, NEW ss \in [1..n -> Seq(T)]
  PROVE  Flatten(ss) \in Seq(T)
<1>1. PICK G : Joined(n, ss, T, G) /\ Flatten(ss) = G[n]
  BY FlattenIs
<1> QED
  BY <1>1 DEF Joined

-----------------------------------------------------------------------------
(* 3. The plugins that only apply, run, wait and ask: each Execute is a program. *)

\* A program and what follows it is a program.
LEMMA Join ==
  ASSUME NEW S, NEW a \in Program(S), NEW b \in Seq(S)
  PROVE  a \o b \in Program(S)
<1>1. a \in Seq(S) /\ Len(a) # 0
  BY DEF Program
<1>2. a \o b \in Seq(S) /\ Len(a \o b) = Len(a) + Len(b)
  BY <1>1, ConcatIs
<1>3. Len(a) \in Nat /\ Len(b) \in Nat
  BY <1>1, LengthIs
<1>4. Len(a \o b) # 0
  BY <1>1, <1>2, <1>3
<1> QED
  BY <1>2, <1>4 DEF Program

\* A program is a sequence.
LEMMA IsSequence ==
  ASSUME NEW S, NEW a \in Program(S)
  PROVE  a \in Seq(S)
BY DEF Program

\* A program with two parts behind it,
LEMMA Join3 ==
  ASSUME NEW S, NEW a \in Program(S), NEW b \in Seq(S), NEW c \in Seq(S)
  PROVE  a \o b \o c \in Program(S)
<1> DEFINE ab == a \o b
<1>1. ab \in Program(S)
  BY Join
<1> HIDE DEF ab
<1>2. ab \o c \in Program(S)
  BY <1>1, Join
<1> QED
  BY <1>2 DEF ab

\* The places the plugins name.
LEMMA Places == Clusters \subseteq Place /\ Primary \in Clusters /\ {"host", "karmada", "second"} \subseteq Place
<1>1. Primary \in Clusters
  BY MembersAssumption, HeadTailIs DEF Primary
<1> QED
  BY <1>1 DEF Place

\* The members are clusters.
LEMMA MembersAre ==
  /\ Len(Members) \in Nat /\ DOMAIN Members = 1..Len(Members)
  /\ \A i \in 1..Len(Members) : Members[i] \in Clusters
BY MembersAssumption, LengthIs

\* with three,
LEMMA Join4 ==
  ASSUME NEW S, NEW a \in Program(S), NEW b \in Seq(S), NEW c \in Seq(S), NEW d \in Seq(S)
  PROVE  a \o b \o c \o d \in Program(S)
<1> DEFINE abc == a \o b \o c
<1>1. abc \in Program(S)
  BY Join3
<1> HIDE DEF abc
<1>2. abc \o d \in Program(S)
  BY <1>1, Join
<1> QED
  BY <1>2 DEF abc

\* and with four is a program.
LEMMA Join5 ==
  ASSUME NEW S, NEW a \in Program(S), NEW b \in Seq(S), NEW c \in Seq(S), NEW d \in Seq(S), NEW e \in Seq(S)
  PROVE  a \o b \o c \o d \o e \in Program(S)
<1> DEFINE abc == a \o b \o c
<1>1. abc \in Program(S)
  BY Join3
<1> HIDE DEF abc
<1>2. abc \o d \o e \in Program(S)
  BY <1>1, Join3
<1> QED
  BY <1>2 DEF abc

\* A steady program is a plain one.
LEMMA SteadySeq ==
  ASSUME NEW s \in Program(Steady)
  PROVE  s \in Program(Plain) /\ s \in Seq(Plain) /\ s \in Seq(Steady)
BY SteadyPlain, IsSequence

\* A steady program that a dry run leaves out is a plain one.
LEMMA NotInDryRun ==
  ASSUME NEW s \in Program(Steady)
  PROVE  UnlessDryRun(s) \in Program(Plain) /\ UnlessDryRun(s) \in Seq(Plain)
<1>1. s \in Program(Plain)
  BY SteadySeq
<1>2. UnlessDryRun(s) \in Program(Plain)
  BY <1>1, PlainLeftOut, UnlessDryRunIs
<1> QED
  BY <1>2, IsSequence

\* pkg/plugin/karmada.
LEMMA KarmadaIs == karmada \in Program(Plain)
<1>1. InstallKarmadactl \in Program(Steady)
  BY InstallIs DEF InstallKarmadactl, Tool
<1>2. karmadaInit \in Program(Steady)
  BY RunOneIs, Places DEF karmadaInit, Object
<1>3. WaitPodReady("karmada", {"host"}) \in Program(Steady)
  BY WaitPodIs, Places DEF Object
<1>4. karmada \in Program(Steady)
  BY <1>1, <1>2, <1>3, Join3, IsSequence DEF karmada
<1> QED
  BY <1>4, SteadySeq

\* pkg/join.
LEMMA JoinIs == join \in Program(Plain)
<1>1. preJoin \in Program(Steady)
  BY InstallIs DEF preJoin, InstallKarmadactl, Tool
<1>2. runJoin \in Program(Steady)
  BY RunOneIs, Places DEF runJoin, Object
<1>3. join \in Program(Steady)
  BY <1>1, <1>2, Join, IsSequence DEF join
<1> QED
  BY <1>3, SteadySeq

\* pkg/plugin/volcano.
LEMMA VolcanoIs == volcano \in Program(Plain)
<1>1. UpdateResource(volcanoManifest, "karmada") \in Program(Steady)
  BY UpdateIs, Places DEF volcanoManifest, Object
<1>2. volcanoPolicies \in Program(Steady)
  BY PoliciesAre, Join, IsSequence DEF volcanoPolicies
<1>3. UpdateResource(volcanoManifest, "karmada") \o volcanoPolicies \in Program(Steady)
  BY <1>1, <1>2, Join, IsSequence
<1> QED
  BY <1>3, NotInDryRun DEF volcano

\* pkg/plugin/argocd.
LEMMA ArgocdIs == argocd \in Program(Plain)
<1>1. installCli \in Program(Plain)
  BY InstallIs, SteadySeq DEF installCli, Tool
<1>2. EnsureNamespaceExist("host") \in Program(Steady)
  <2>1. EnsureNamespaceExist("host") = UpdateResource({"namespace"}, "host")
    BY DEF EnsureNamespaceExist, UpdateResource
  <2> QED
    BY <2>1, UpdateIs, Places DEF Object
<1> DEFINE body == UpdateResource({"argocd"}, "host") \o UpdateResource({"argocd-server"}, "host")
                   \o WaitPodReady("argocd", {"host"})
<1>3. body \in Program(Steady)
  <2>1. UpdateResource({"argocd"}, "host") \in Program(Steady) /\ UpdateResource({"argocd-server"}, "host") \in Program(Steady)
    BY UpdateIs, Places DEF Object
  <2>2. WaitPodReady("argocd", {"host"}) \in Program(Steady)
    BY WaitPodIs, Places DEF Object
  <2> QED
    BY <2>1, <2>2, Join3, IsSequence
<1> HIDE DEF body
<1>4. UnlessDryRun(body) \in Program(Plain)
  BY <1>3, NotInDryRun
<1>5. installArgoCD \in Program(Plain)
  <2>1. installArgoCD = Step("delete", {}) \o EnsureNamespaceExist("host") \o UnlessDryRun(body)
    BY DEF installArgoCD, body
  <2>2. EnsureNamespaceExist("host") \in Seq(Plain) /\ UnlessDryRun(body) \in Seq(Plain)
    BY <1>2, <1>4, SteadySeq, IsSequence
  <2> QED
    BY <2>1, <2>2, DeleteIs, Join3
<1>6. addCluster \in Program(Steady)
  <2>1. WaitServiceReady("argocd-server", "host") \in Program(Steady)
    BY AwaitOneIs, Places DEF WaitServiceReady, Object, Word
  <2>2. Step("ask", {<<"argocd", "host", "ready">>}) \in Program(Steady)
    BY AwaitOneIs, Places DEF Object, Word
  <2>3. Run({<<"karmada", "host", "added">>}) \in Program(Steady)
    BY RunOneIs, Places DEF Object
  <2> QED
    BY <2>1, <2>2, <2>3, RunNothingIs, Join4, IsSequence DEF addCluster
<1> QED
  BY <1>1, <1>5, <1>6, SteadySeq, Join3, IsSequence DEF argocd

\* One piece for each member.
LEMMA EachIs ==
  ASSUME LeastNumber, NEW S, NEW ss, ss = [i \in 1..Len(Members) |-> ss[i]], \A i \in 1..Len(Members) : ss[i] \in Seq(S)
  PROVE  Flatten(ss) \in Seq(S)
<1> DEFINE n == Len(Members)
<1>1. n \in Nat
  BY MembersAre
<1>2. ss \in [1..n -> Seq(S)]
  OBVIOUS
<1> HIDE DEF n
<1> QED
  BY <1>1, <1>2, FlattenType

\* Fetching the kubeconfig of a member is steady.
LEMMA MemberClusterConfigIs ==
  ASSUME NEW c \in Clusters
  PROVE  memberClusterConfig(c) \in Program(Steady)
BY AwaitOneIs, Places DEF memberClusterConfig, Object, Word

\* pkg/plugin/submariner.
LEMMA SubmarinerIs ==
  ASSUME LeastNumber
  PROVE  submariner \in Program(Plain)
<1>1. installSubctl \in Program(Steady)
  BY InstallIs DEF installSubctl, Tool
<1>2. generateKubeConfiguration \in Seq(Steady)
  <2> DEFINE ss == [i \in 1..Len(Members) |-> memberClusterConfig(Members[i])]
  <2>1. generateKubeConfiguration = Flatten(ss)
    BY MembersAre DEF generateKubeConfiguration, ForEach
  <2>2. \A i \in 1..Len(Members) : ss[i] \in Seq(Steady)
    BY MembersAre, MemberClusterConfigIs, IsSequence
  <2>3. ss = [i \in 1..Len(Members) |-> ss[i]]
    OBVIOUS
  <2> HIDE DEF ss
  <2> QED
    BY <2>1, <2>2, <2>3, EachIs
<1>3. atLeastTwo \in Seq(Steady)
  <2>1. Step("ask", {<<"cluster", "second", "joined">>}) \in Seq(Steady)
    BY AwaitOneIs, Places, IsSequence DEF Object, Word
  <2>2. <<>> \in Seq(Steady)
    OBVIOUS
  <2> QED
    BY <2>1, <2>2 DEF atLeastTwo
<1>4. installBroker \in Seq(Steady)
  BY RunOneIs, Places, IsSequence DEF installBroker, Object
<1>5. connectBroker \in Seq(Steady)
  <2> DEFINE ss == [i \in 1..Len(Members) |-> Run({<<"gateway", Members[i], "applied">>})]
  <2>1. connectBroker = Flatten(ss)
    BY MembersAre DEF connectBroker, ForEach
  <2>2. \A i \in 1..Len(Members) : ss[i] \in Seq(Steady)
    BY MembersAre, RunOneIs, Places, IsSequence DEF Object
  <2>3. ss = [i \in 1..Len(Members) |-> ss[i]]
    OBVIOUS
  <2> HIDE DEF ss
  <2> QED
    BY <2>1, <2>2, <2>3, EachIs
<1>6. submarinerRunInstall \in Seq(Steady)
  BY <1>2, <1>3, <1>4, <1>5, ThreeAre DEF submarinerRunInstall
<1>7. submariner \in Program(Steady)
  BY <1>1, <1>6, Join DEF submariner
<1> QED
  BY <1>7, SteadySeq

-----------------------------------------------------------------------------
(*    Those that go through the members or place manifests with policies. *)

\* Ensuring that a namespace exists is steady.
LEMMA NamespaceIs ==
  ASSUME NEW at \in Place
  PROVE  EnsureNamespaceExist(at) \in Program(Steady)
<1>1. EnsureNamespaceExist(at) = UpdateResource({"namespace"}, at)
  BY DEF EnsureNamespaceExist, UpdateResource
<1> QED
  BY <1>1, UpdateIs DEF Object

\* pkg/plugin/pixie/vizier.
LEMMA VizierIs ==
  ASSUME LeastNumber
  PROVE  vizier \in Program(Plain)
<1>1. installHelm \in Program(Plain)
  BY InstallIs, SteadySeq DEF installHelm, Tool
<1>2. addRepo \in Seq(Plain)
  BY RunNothingIs, SteadySeq DEF addRepo
<1>3. ASSUME NEW c \in Clusters PROVE vizierIn(c) \in Seq(Plain)
  <2>1. memberClusterConfig(c) \in Program(Plain)
    BY MemberClusterConfigIs, SteadySeq
  <2>2. UnlessDryRun(EnsureNamespaceExist(c)) \in Seq(Plain)
    BY NamespaceIs, NotInDryRun, Places
  <2>3. applyCRDs(c) \in Seq(Plain)
    BY RunOneIs, SteadySeq, Places DEF applyCRDs, Object
  <2>4. waitCRDReady(c) \in Seq(Plain)
    BY AwaitOneIs, SteadySeq, Places DEF waitCRDReady, WaitCRDReady, Object, Word
  <2>5. applyTemplates(c) \in Seq(Plain)
    BY RunOneIs, SteadySeq, Places DEF applyTemplates, Object
  <2> QED
    BY <2>1, <2>2, <2>3, <2>4, <2>5, Join5, IsSequence DEF vizierIn
<1> DEFINE ss == [i \in 1..Len(Members) |-> vizierIn(Members[i])]
<1>4. ForEach(Members, vizierIn) = Flatten(ss)
  BY MembersAre DEF ForEach
<1>5. \A i \in 1..Len(Members) : ss[i] \in Seq(Plain)
  BY <1>3, MembersAre
<1>6. ss = [i \in 1..Len(Members) |-> ss[i]]
  OBVIOUS
<1> HIDE DEF ss
<1>7. Flatten(ss) \in Seq(Plain)
  BY <1>5, <1>6, EachIs
<1>8. vizier = installHelm \o addRepo \o Flatten(ss)
  BY <1>4 DEF vizier
<1> QED
  BY <1>1, <1>2, <1>7, <1>8, Join3

\* pkg/plugin/kubeedge.
LEMMA KubeedgeIs == kubeedge \in Program(Plain)
<1>1. installKeadm \in Program(Plain)
  BY InstallIs, SteadySeq DEF installKeadm, Tool
<1>2. UnlessDryRun(EnsureNamespaceExist("karmada")) \in Seq(Plain)
  BY NamespaceIs, NotInDryRun, Places
<1> DEFINE body == UpdateResource({"rbac", "workload"}, "karmada")
                   \o ClusterPropagationPolicy({"rbac", "workload"})
                   \o PropagationPolicy({"rbac", "workload"})
<1>3. body \in Program(Steady)
  <2>1. UpdateResource({"rbac", "workload"}, "karmada") \in Program(Steady)
    BY UpdateIs, Places DEF Object
  <2> QED
    BY <2>1, PoliciesAre, Join3, IsSequence
<1>4. kubeedgeRunInstall = generateKubeResources \o UnlessDryRun(body)
  BY DEF kubeedgeRunInstall
<1> HIDE DEF body
<1>5. kubeedgeRunInstall \in Seq(Plain)
  <2>1. generateKubeResources \in Program(Plain)
    BY RunNothingIs, SteadySeq DEF generateKubeResources
  <2> QED
    BY <1>3, <1>4, <2>1, NotInDryRun, Join, IsSequence
<1>6. exposeCloudcore \in Seq(Plain)
  <2>1. UpdateResource({"cloudcore-elb of default"}, "karmada") \in Program(Plain)
    BY UpdateIs, SteadySeq, Places DEF Object
  <2>2. ApplyPropagationPolicy("cloudcore-elb", Clusters) \in Seq(Plain)
    BY PolicyIs, SteadySeq DEF Object
  <2> QED
    BY <2>1, <2>2, Join, IsSequence DEF exposeCloudcore
<1>7. checkReady \in Seq(Plain)
  BY WaitPodIs, SteadySeq, Places DEF checkReady, Object
<1> QED
  BY <1>1, <1>2, <1>5, <1>6, <1>7, Join5 DEF kubeedge

\* pkg/join/edge.
LEMMA EdgeIs == edge \in Program(Plain)
<1>1. IsClustersReady({Primary}) \in Program(Steady)
  BY ClustersReadyIs, Places
<1>2. memberClusterConfig(Primary) \in Seq(Steady) /\ getEdgeToken \in Seq(Steady)
  BY MemberClusterConfigIs, Places, IsSequence DEF getEdgeToken
<1>3. keadmForTheEdge \in Seq(Steady)
  BY InstallIs, IsSequence DEF keadmForTheEdge, Tool
<1>4. runKeadmJoin \in Seq(Steady)
  BY RunOneIs, Places, IsSequence DEF runKeadmJoin, Object
<1>5. IsClustersReady({Primary}) \o memberClusterConfig(Primary) \o keadmForTheEdge \o getEdgeToken \in Program(Steady)
  BY <1>1, <1>2, <1>3, Join4
<1>6. edge \in Program(Steady)
  <2> DEFINE first == IsClustersReady({Primary}) \o memberClusterConfig(Primary) \o keadmForTheEdge \o getEdgeToken
  <2>1. edge = first \o scpKeadm \o runKeadmJoin
    BY DEF edge
  <2>2. first \in Program(Steady)
    BY <1>5
  <2> HIDE DEF first
  <2> QED
    BY <1>4, <2>1, <2>2, ScpIs, Join3, IsSequence
<1> QED
  BY <1>6, SteadySeq

\* What Prometheus and Thanos begin with is steady.
LEMMA SetUpIs ==
  /\ UpdateResource(setup, "karmada") \in Program(Steady)
  /\ WaitCRDReady("crd", "karmada") \in Program(Steady)
  /\ UpdateResource(resources, "karmada") \in Program(Steady)
  /\ WaitAPIEnableInClusters("crd") \in Program(Steady)
<1>1. UpdateResource(setup, "karmada") \in Program(Steady)
  BY UpdateIs, Places DEF setup, Object
<1>2. WaitCRDReady("crd", "karmada") \in Program(Steady)
  BY AwaitOneIs, Places DEF WaitCRDReady, Object, Word
<1>3. UpdateResource(resources, "karmada") \in Program(Steady)
  BY UpdateIs, Places DEF resources, Object
<1>4. WaitAPIEnableInClusters("crd") \in Program(Steady)
  BY AwaitIs, Places DEF WaitAPIEnableInClusters, Object, Word
<1> QED
  BY <1>1, <1>2, <1>3, <1>4

\* Exposing a service of the members is steady.
LEMMA ExposeIs == exposePrometheus \in Program(Steady) /\ exposeThanosSidecar \in Program(Steady)
<1>1. Step("ask", {<<"workload", "karmada", "applied">>}) \in Program(Steady)
  BY AwaitOneIs, Places DEF Object, Word
<1>2. UpdateResource({"elb"}, "karmada") \in Program(Steady)
  BY UpdateIs, Places DEF Object
<1>3. ApplyPropagationPolicy("elb", Clusters) \in Program(Steady)
  BY PolicyIs DEF Object
<1> QED
  BY <1>1, <1>2, <1>3, Join3, IsSequence DEF exposePrometheus, exposeThanosSidecar

\* The steps that collect endpoints: polling for them, and listing them once.
Polling == [do : {"poll"}, facts : {{}}, dry : BOOLEAN]
Listing == [do : {"list"}, facts : {{}}, dry : BOOLEAN]

\* No step polls but one.
PollsOnce(p) ==
  /\ p \in Seq(Plain \cup Polling) /\ Len(p) # 0
  /\ \A i, j \in 1..Len(p) : p[i].do = "poll" /\ p[j].do = "poll" => i = j

\* A plain step does neither.
LEMMA NoPoll ==
  ASSUME NEW r \in Plain
  PROVE  r.do # "poll" /\ r.do # "list"
BY DEF Plain, Acts, Questions, ToolSteps, Others

\* Plain steps around a poll leave one poll.
LEMMA PollsAround ==
  ASSUME NEW a, PollsOnce(a), NEW b \in Seq(Plain)
  PROVE  PollsOnce(a \o b) /\ PollsOnce(b \o a)
<1> DEFINE T == Plain \cup Polling
           m == Len(a)
           n == Len(b)
<1>1. a \in Seq(T) /\ m \in Nat /\ m # 0
  BY LengthIs DEF PollsOnce
<1>2. n \in Nat /\ \A i \in 1..n : b[i] \in Plain /\ b[i].do # "poll"
  BY NoPoll, LengthIs
<1>3. b \in Seq(T)
  <2>1. b = [i \in 1..n |-> b[i]] /\ \A i \in 1..n : b[i] \in T
    BY <1>2
  <2> HIDE DEF T, n
  <2> QED
    BY <1>2, <2>1
<1> HIDE DEF T
<1>4. \A i, j \in 1..m : a[i].do = "poll" /\ a[j].do = "poll" => i = j
  BY DEF PollsOnce
<1>5. /\ a \o b \in Seq(T) /\ Len(a \o b) = m + n
      /\ \A i \in 1..(m + n) : (a \o b)[i] = IF i <= m THEN a[i] ELSE b[i - m]
  BY <1>1, <1>3, ConcatIs
<1>6. /\ b \o a \in Seq(T) /\ Len(b \o a) = n + m
      /\ \A i \in 1..(n + m) : (b \o a)[i] = IF i <= n THEN b[i] ELSE a[i - n]
  BY <1>1, <1>3, ConcatIs
<1> HIDE DEF m, n
<1>7. ASSUME NEW i \in 1..(m + n), (a \o b)[i].do = "poll" PROVE i \in 1..m /\ a[i].do = "poll"
  <2>1. CASE i <= m
    BY <1>1, <1>2, <1>5, <1>7, <2>1
  <2>2. CASE ~(i <= m)
    <3>1. i - m \in 1..n
      BY <1>1, <1>2, <2>2
    <3> QED
      BY <1>2, <1>5, <1>7, <2>2, <3>1
  <2> QED
    BY <2>1, <2>2
<1>8. ASSUME NEW i \in 1..(n + m), (b \o a)[i].do = "poll" PROVE i - n \in 1..m /\ a[i - n].do = "poll"
  <2>1. CASE i <= n
    <3>1. i \in 1..n
      BY <1>1, <1>2, <2>1
    <3> QED
      BY <1>2, <1>6, <1>8, <2>1, <3>1
  <2>2. CASE ~(i <= n)
    BY <1>1, <1>2, <1>6, <1>8, <2>2
  <2> QED
    BY <2>1, <2>2
<1>9. PollsOnce(a \o b)
  <2>1. m + n # 0
    BY <1>1, <1>2
  <2> QED
    BY <1>4, <1>5, <1>7, <2>1 DEF PollsOnce, T
<1>10. PollsOnce(b \o a)
  <2>1. ASSUME NEW i \in 1..(n + m), NEW j \in 1..(n + m), (b \o a)[i].do = "poll", (b \o a)[j].do = "poll"
        PROVE  i = j
    <3>1. i - n = j - n
      BY <1>4, <1>8, <2>1
    <3> QED
      BY <1>1, <1>2, <3>1
  <2>2. n + m # 0
    BY <1>1, <1>2
  <2> QED
    BY <1>6, <2>1, <2>2 DEF PollsOnce, T
<1> QED
  BY <1>9, <1>10

-----------------------------------------------------------------------------
(* 4. Prometheus and Thanos: one poll of the federated endpoints, and no list next
   to it. *)

\* The parts of the Prometheus plugin are steady,
LEMMA PrometheusBegins ==
  /\ UpdateResource(setup, "karmada") \o WaitCRDReady("crd", "karmada")
     \o UpdateResource(resources, "karmada") \o exposePrometheus \in Program(Steady)
  /\ generatePolicy \in Seq(Steady)
  /\ WaitAPIEnableInClusters("crd") \in Seq(Steady)
  /\ PropagationPolicy(setup \cup resources) \in Seq(Steady)
<1>1. generatePolicy \in Seq(Steady) /\ PropagationPolicy(setup \cup resources) \in Seq(Steady)
  BY PoliciesAre, IsSequence DEF generatePolicy
<1> QED
  BY <1>1, SetUpIs, ExposeIs, Join4, IsSequence

\* without federation it is a plain program,
LEMMA PrometheusIs == prometheus(FALSE) \in Program(Plain)
<1> DEFINE first == UpdateResource(setup, "karmada") \o WaitCRDReady("crd", "karmada")
                    \o UpdateResource(resources, "karmada") \o exposePrometheus
           none == <<>>
           d == generatePolicy
           e == WaitAPIEnableInClusters("crd")
           f == PropagationPolicy(setup \cup resources)
<1>1. first \in Program(Steady)
  BY PrometheusBegins
<1>2. prometheus(FALSE) = first \o none \o d \o e \o f
  BY DEF prometheus
<1>3. none \in Seq(Steady) /\ d \in Seq(Steady) /\ e \in Seq(Steady) /\ f \in Seq(Steady)
  BY PrometheusBegins
<1> HIDE DEF first, none, d, e, f
<1>4. prometheus(FALSE) \in Program(Steady)
  BY <1>1, <1>2, <1>3, Join5
<1> QED
  BY <1>4, SteadySeq

\* and with federation it polls once.
LEMMA FederationIs == PollsOnce(prometheus(TRUE))
<1> DEFINE first == UpdateResource(setup, "karmada") \o WaitCRDReady("crd", "karmada")
                    \o UpdateResource(resources, "karmada") \o exposePrometheus
           poll == Step("poll", {})
           a == genAdditionalScrapeConfigs
           b == UpdateResource({"override"}, "karmada")
           c == ApplyPropagationPolicy("scrape configs", {Primary})
           d == generatePolicy
           e == WaitAPIEnableInClusters("crd")
           f == PropagationPolicy(setup \cup resources)
           polls == poll \o a \o b \o c
<1>1. first \in Seq(Plain) /\ d \in Seq(Plain) /\ e \in Seq(Plain) /\ f \in Seq(Plain)
  BY PrometheusBegins, SteadyPlain, SteadySeq
<1>2. a \in Seq(Plain) /\ b \in Seq(Plain)
  BY UpdateIs, Places, SteadySeq DEF genAdditionalScrapeConfigs, Object
<1>3. c \in Seq(Plain)
  <2>1. {Primary} \in SUBSET Clusters /\ "scrape configs" \in Object \ {"remote iop"}
    BY Places DEF Object
  <2> QED
    BY <2>1, PolicyIs, SteadySeq
<1>4. PollsOnce(poll)
  <2> DEFINE r == [do |-> "poll", facts |-> {}, dry |-> TRUE]
  <2>1. poll = <<r>>
    BY DEF Step
  <2>2. r \in Plain \cup Polling
    BY DEF Polling
  <2> HIDE DEF r, poll
  <2>3. <<r>> \in Seq(Plain \cup Polling) /\ Len(<<r>>) = 1
    BY <2>2
  <2> QED
    BY <2>1, <2>3 DEF PollsOnce
<1>5. createAdditionalScrapeConfigs = polls
  BY DEF createAdditionalScrapeConfigs
<1>6. prometheus(TRUE) = first \o polls \o d \o e \o f
  BY <1>5 DEF prometheus
<1> HIDE DEF first, poll, a, b, c, d, e, f
<1>7. PollsOnce(polls)
  <2> DEFINE p1 == poll \o a
             p2 == p1 \o b
  <2>1. PollsOnce(p1)
    BY <1>2, <1>4, PollsAround
  <2> HIDE DEF p1
  <2>2. PollsOnce(p2)
    BY <1>2, <2>1, PollsAround
  <2> HIDE DEF p2
  <2>3. PollsOnce(p2 \o c)
    BY <1>3, <2>2, PollsAround
  <2> QED
    BY <2>3 DEF p1, p2
<1> HIDE DEF polls
<1> DEFINE q1 == first \o polls
           q2 == q1 \o d
           q3 == q2 \o e
<1>8. PollsOnce(q1)
  BY <1>1, <1>7, PollsAround
<1> HIDE DEF q1
<1>9. PollsOnce(q2)
  BY <1>1, <1>8, PollsAround
<1> HIDE DEF q2
<1>10. PollsOnce(q3)
  BY <1>1, <1>9, PollsAround
<1> HIDE DEF q3
<1>11. PollsOnce(q3 \o f)
  BY <1>1, <1>10, PollsAround
<1> QED
  BY <1>6, <1>11 DEF q1, q2, q3

\* The steps Thanos is made of: it lists, and does not poll.
Listed == Plain \cup Listing

\* Plain steps are among them,
LEMMA PlainListed ==
  ASSUME NEW s \in Seq(Plain)
  PROVE  s \in Seq(Listed)
<1> DEFINE n == Len(s)
<1>1. n \in Nat /\ \A i \in 1..n : s[i] \in Listed
  BY LengthIs DEF Listed
<1>2. s = [i \in 1..n |-> s[i]]
  OBVIOUS
<1> HIDE DEF n
<1> QED
  BY <1>1, <1>2

\* they may be left out in a dry run,
LEMMA ListedLeftOut == MayBeLeftOut(Listed)
<1> SUFFICES ASSUME NEW x \in Listed PROVE [x EXCEPT !.dry = FALSE] \in Listed
  BY DEF MayBeLeftOut
<1>1. CASE x \in Plain
  BY <1>1, PlainLeftOut DEF MayBeLeftOut, Listed
<1>2. CASE x \in Listing
  <2>1. [x EXCEPT !.dry = FALSE] \in Listing
    BY <1>2 DEF Listing
  <2> QED
    BY <2>1 DEF Listed
<1> QED
  BY <1>1, <1>2 DEF Listed

\* and a steady program is one of them.
LEMMA SteadyListed ==
  ASSUME NEW s \in Program(Steady)
  PROVE  s \in Program(Listed) /\ s \in Seq(Listed)
<1>1. s \in Seq(Plain) /\ s # <<>>
  BY SteadySeq DEF Program
<1> QED
  BY <1>1, PlainListed DEF Program

\* pkg/plugin/thanos.
LEMMA ThanosIs ==
  ASSUME LeastNumber
  PROVE  thanos \in Program(Listed)
<1>1. runInstallPrometheus \in Program(Listed)
  <2> DEFINE a == UpdateResource(setup, "karmada") \o WaitCRDReady("crd", "karmada") \o EnsureNamespaceExist("karmada")
             b == objectStoreSecret("karmada")
             c == ApplyPropagationPolicy("objstore", Clusters)
             d == UpdateResource(resources, "karmada")
             e == generatePropagationPolicies
             ab == a \o b \o c \o d \o e
  <2>1. a \in Program(Steady)
    BY SetUpIs, NamespaceIs, Places, Join3, IsSequence
  <2>2. b \in Seq(Steady)
    BY UpdateIs, Places, IsSequence DEF objectStoreSecret, Object
  <2>3. c \in Seq(Steady)
    BY PolicyIs, IsSequence DEF Object
  <2>4. d \in Seq(Steady)
    BY SetUpIs, IsSequence
  <2>5. e \in Seq(Steady)
    BY SetUpIs, PoliciesAre, Join3, IsSequence DEF generatePropagationPolicies
  <2>6. overrideExternalLabels \in Seq(Steady)
    <3> DEFINE ss == [i \in 1..Len(Members) |-> clusterOverridePolicy(Members[i])]
    <3>1. overrideExternalLabels = Flatten(ss)
      BY MembersAre DEF overrideExternalLabels, ForEach
    <3>2. \A i \in 1..Len(Members) : ss[i] \in Seq(Steady)
      <4> SUFFICES ASSUME NEW i \in 1..Len(Members) PROVE ss[i] \in Seq(Steady)
        OBVIOUS
      <4> DEFINE m == Members[i]
      <4>1. m \in Place
        BY MembersAre, Places
      <4>2. ss[i] = clusterOverridePolicy(m)
        OBVIOUS
      <4> HIDE DEF ss, m
      <4>3. clusterOverridePolicy(m) = UpdateResource({"override"}, m)
        BY DEF clusterOverridePolicy, UpdateResource
      <4> QED
        BY <4>1, <4>2, <4>3, UpdateIs, IsSequence DEF Object
    <3>3. ss = [i \in 1..Len(Members) |-> ss[i]]
      OBVIOUS
    <3> HIDE DEF ss
    <3> QED
      BY <3>1, <3>2, <3>3, EachIs
  <2>7. runInstallPrometheus = ab \o overrideExternalLabels \o exposeThanosSidecar
    BY DEF runInstallPrometheus
  <2> HIDE DEF a, b, c, d, e
  <2>8. ab \in Program(Steady)
    BY <2>1, <2>2, <2>3, <2>4, <2>5, Join5
  <2> HIDE DEF ab
  <2>9. runInstallPrometheus \in Program(Steady)
    BY <2>6, <2>7, <2>8, ExposeIs, Join3, IsSequence
  <2> QED
    BY <2>9, SteadyListed
<1>2. runInstallThanos \in Seq(Listed)
  <2> DEFINE list == Step("list", {})
             a == UpdateResource({"thanos"}, "host")
             b == UpdateResource({"thanos-query"}, "host")
             c == WaitPodReady("thanos", {"host"})
             d == UpdateResource({"sidecar-remote"}, "host")
             body == a \o b \o c \o d \o list
             all == body \o thanosSidecarRemoteEndpoints
  <2>1. a \in Program(Listed) /\ b \in Seq(Listed) /\ d \in Seq(Listed)
    BY UpdateIs, Places, SteadyListed DEF Object
  <2>2. c \in Seq(Listed)
    BY WaitPodIs, Places, SteadyListed DEF Object
  <2>3. list \in Seq(Listed)
    <3> DEFINE r == [do |-> "list", facts |-> {}, dry |-> TRUE]
    <3>1. list = <<r>>
      BY DEF Step
    <3>2. r \in Listed
      BY DEF Listing, Listed
    <3> HIDE DEF r, list
    <3>3. <<r>> \in Program(Listed)
      BY <3>2, OneStep
    <3> QED
      BY <3>1, <3>3, IsSequence
  <2>4. thanosSidecarRemoteEndpoints \in Seq(Listed)
    BY UpdateIs, Places, SteadyListed DEF thanosSidecarRemoteEndpoints, Object
  <2>5. runInstallThanos = EnsureNamespaceExist("host") \o objectStoreSecret("host") \o UnlessDryRun(all)
    BY DEF runInstallThanos
  <2> HIDE DEF list, a, b, c, d
  <2>6. body \in Program(Listed)
    BY <2>1, <2>2, <2>3, Join5
  <2> HIDE DEF body
  <2>7. all \in Program(Listed)
    BY <2>4, <2>6, Join
  <2> HIDE DEF all
  <2>8. UnlessDryRun(all) \in Seq(Listed)
    BY <2>7, ListedLeftOut, UnlessDryRunIs, IsSequence
  <2>9. EnsureNamespaceExist("host") \in Program(Listed)
    BY NamespaceIs, Places, SteadyListed
  <2>10. objectStoreSecret("host") \in Seq(Listed)
    BY UpdateIs, Places, SteadyListed DEF objectStoreSecret, Object
  <2> QED
    BY <2>5, <2>8, <2>9, <2>10, Join3, IsSequence
<1> QED
  BY <1>1, <1>2, Join DEF thanos

-----------------------------------------------------------------------------
(* 5. Istio: a remote control plane is placed only behind the waits for what it
   needs. *)

\* The step that starts a remote control plane: the policy for its IstioOperator.
Placing == {[do |-> "apply", facts |-> {<<"remote iop", c, "placed">>}, dry |-> TRUE] : c \in Clusters}

\* What the Istio plugin is made of.
Mesh == Steady \cup Placing

\* What has to be true of the primary, and of a cluster, before its remote
\* control plane is started.
PrimaryUp == {<<"iop", Primary, "ready">>, <<"iop", Primary, "addressed">>}

Required(c) == PrimaryUp \cup {<<"cacerts", c, "present">>}

\* A step that lets the installer go on only if its facts are true.
Asks(r) == r.do \in {"wait", "ask"}

\* A step that starts the remote control plane of c.
StartsRemote(r, c) == r.do \in {"apply", "run"} /\ <<"remote iop", c, "placed">> \in r.facts

\* What the steps before the k-th have waited or asked for.
Told(p, k, f) == \E i \in 1..(k - 1) : Asks(p[i]) /\ f \in p[i].facts

\* No remote is started before what it requires was waited for, unless that is
\* known (have) when the steps begin.
Guarded(p, have) ==
  /\ p \in Seq(Mesh)
  /\ \A k \in 1..Len(p) : \A c \in Clusters :
       StartsRemote(p[k], c) => \A f \in Required(c) : f \in have \/ Told(p, k, f)

\* The steps wait or ask for f.
Tells(p, f) == \E i \in 1..Len(p) : Asks(p[i]) /\ f \in p[i].facts

\* Steady steps start no remote.
LEMMA SteadyMesh ==
  ASSUME NEW s \in Seq(Steady), NEW have
  PROVE  s \in Seq(Mesh) /\ Guarded(s, have)
<1> DEFINE n == Len(s)
<1>1. n \in Nat /\ \A i \in 1..n : s[i] \in Steady
  BY LengthIs
<1>2. \A i \in 1..n : s[i] \in Mesh
  BY <1>1 DEF Mesh
<1>3. s = [i \in 1..n |-> s[i]]
  OBVIOUS
<1>4. s \in Seq(Mesh)
  <2> HIDE DEF n
  <2> QED
    BY <1>1, <1>2, <1>3
<1>5. ASSUME NEW r \in Steady, NEW c, StartsRemote(r, c) PROVE FALSE
  <2>1. r \in Acts
    BY <1>5 DEF Steady, Plain, StartsRemote, Acts, Questions, ToolSteps, Others
  <2>2. r.facts \subseteq Harmless
    BY <2>1 DEF Acts
  <2> QED
    BY <1>5, <2>2 DEF StartsRemote, Harmless
<1> QED
  BY <1>1, <1>4, <1>5 DEF Guarded

\* Joined steps tell what either part tells.
LEMMA TellsEither ==
  ASSUME NEW a \in Seq(Mesh), NEW b \in Seq(Mesh), NEW f
  PROVE  /\ Tells(a, f) => Tells(a \o b, f)
         /\ Tells(b, f) => Tells(a \o b, f)
<1> DEFINE m == Len(a)
           n == Len(b)
           p == a \o b
<1>1. /\ m \in Nat /\ n \in Nat /\ Len(p) = m + n
      /\ \A i \in 1..(m + n) : p[i] = IF i <= m THEN a[i] ELSE b[i - m]
  BY LengthIs, ConcatIs
<1> HIDE DEF p
<1>2. ASSUME Tells(a, f) PROVE Tells(p, f)
  <2>1. PICK i \in 1..m : Asks(a[i]) /\ f \in a[i].facts
    BY <1>2 DEF Tells
  <2> HIDE DEF m, n
  <2>2. i \in 1..(m + n) /\ p[i] = a[i]
    BY <1>1, <2>1
  <2> QED
    BY <1>1, <2>1, <2>2 DEF Tells
<1>3. ASSUME Tells(b, f) PROVE Tells(p, f)
  <2>1. PICK i \in 1..n : Asks(b[i]) /\ f \in b[i].facts
    BY <1>3 DEF Tells
  <2> HIDE DEF m, n
  <2>2. m + i \in 1..(m + n) /\ ~(m + i <= m) /\ (m + i) - m = i
    BY <1>1
  <2>3. p[m + i] = b[i]
    BY <1>1, <2>2
  <2> QED
    BY <1>1, <2>1, <2>2, <2>3 DEF Tells
<1> QED
  BY <1>2, <1>3 DEF p

\* What the first steps tell is known to the ones that follow.
LEMMA GuardedThen ==
  ASSUME NEW a, NEW b, NEW have, NEW more, Guarded(a, have), Guarded(b, more),
         \A f \in more : f \in have \/ Tells(a, f)
  PROVE  Guarded(a \o b, have)
<1> DEFINE m == Len(a)
           n == Len(b)
           p == a \o b
<1>0. a \in Seq(Mesh) /\ b \in Seq(Mesh)
  BY DEF Guarded
<1>1. /\ m \in Nat /\ n \in Nat /\ Len(p) = m + n /\ p \in Seq(Mesh)
      /\ \A i \in 1..(m + n) : p[i] = IF i <= m THEN a[i] ELSE b[i - m]
  BY <1>0, LengthIs, ConcatIs
<1> HIDE DEF p
<1> SUFFICES ASSUME NEW k \in 1..(m + n), NEW c \in Clusters, StartsRemote(p[k], c), NEW f \in Required(c), f \notin have
             PROVE  Told(p, k, f)
  BY <1>1 DEF Guarded, p
<1>2. CASE k <= m
  <2>1. k \in 1..m /\ p[k] = a[k]
    BY <1>1, <1>2
  <2>2. Told(a, k, f)
    BY <2>1 DEF Guarded
  <2>3. PICK i \in 1..(k - 1) : Asks(a[i]) /\ f \in a[i].facts
    BY <2>2 DEF Told
  <2> HIDE DEF m, n
  <2>4. p[i] = a[i]
    BY <1>1, <1>2, <2>3
  <2> QED
    BY <2>3, <2>4 DEF Told
<1>3. CASE ~(k <= m)
  <2>1. k - m \in 1..n /\ p[k] = b[k - m]
    BY <1>1, <1>3
  <2>2. f \in more \/ Told(b, k - m, f)
    BY <2>1 DEF Guarded
  <2>3. CASE f \in more
    <3>1. PICK i \in 1..m : Asks(a[i]) /\ f \in a[i].facts
      BY <2>3 DEF Tells
    <3> HIDE DEF m, n
    <3>2. i \in 1..(k - 1) /\ p[i] = a[i]
      BY <1>1, <1>3, <3>1
    <3> QED
      BY <3>1, <3>2 DEF Told
  <2>4. CASE Told(b, k - m, f)
    <3>1. PICK i \in 1..((k - m) - 1) : Asks(b[i]) /\ f \in b[i].facts
      BY <2>4 DEF Told
    <3> HIDE DEF m, n
    <3>2. m + i \in 1..(k - 1) /\ m + i \in 1..(m + n) /\ ~(m + i <= m) /\ (m + i) - m = i
      BY <1>1, <1>3
    <3>3. p[m + i] = b[i]
      BY <1>1, <3>2
    <3> QED
      BY <3>1, <3>2, <3>3 DEF Told
  <2> QED
    BY <2>2, <2>3, <2>4
<1> QED
  BY <1>2, <1>3

\* Waiting or asking tells.
LEMMA StepTells ==
  ASSUME NEW d \in {"wait", "ask"}, NEW F, NEW f \in F
  PROVE  Tells(Step(d, F), f)
<1> DEFINE r == [do |-> d, facts |-> F, dry |-> TRUE]
<1>1. Step(d, F) = <<r>>
  BY DEF Step
<1>2. Asks(r) /\ f \in r.facts
  BY DEF Asks
<1> HIDE DEF r
<1>3. Len(<<r>>) = 1 /\ <<r>>[1] = r
  OBVIOUS
<1> QED
  BY <1>1, <1>2, <1>3 DEF Tells

\* One remote: it waits for its certificates before its operator is placed.
LEMMA RemoteGuarded ==
  ASSUME NEW c \in Clusters
  PROVE  Guarded(waitSecertReady(c) \o createIstioRemoteSecret(c) \o createRemoteIstioOperator(c), PrimaryUp)
<1> DEFINE w == waitSecertReady(c)
           s == createIstioRemoteSecret(c)
           ws == w \o s
           u == UpdateResource({iop(c)}, "karmada")
           q == ApplyPropagationPolicy(iop(c), {c})
           there == <<"cacerts", c, "present">>
<1>1. w \in Seq(Steady)
  BY AwaitOneIs, Places, IsSequence DEF waitSecertReady, Object, Word
<1>2. Tells(w, there)
  BY StepTells DEF waitSecertReady
<1>3. s \in Seq(Steady)
  <2>1. generateRemoteSecret(c) \in Program(Steady)
    BY MemberClusterConfigIs DEF generateRemoteSecret
  <2>2. UpdateResource({"remote secret"}, "karmada") \in Program(Steady)
    BY UpdateIs, Places DEF Object
  <2>3. ApplyPropagationPolicy("remote secret", {Primary}) \in Program(Steady)
    BY PolicyIs, Places DEF Object
  <2> QED
    BY <2>1, <2>2, <2>3, Join3, IsSequence DEF createIstioRemoteSecret
<1>4. u \in Seq(Steady)
  BY UpdateIs, Places, IsSequence DEF iop, Object
<1>5. Guarded(q, Required(c))
  <2>1. CASE iop(c) = "iop"
    <3>1. "iop" \in Object \ {"remote iop"} /\ {c} \in SUBSET Clusters
      BY DEF Object
    <3>2. ApplyPropagationPolicy("iop", {c}) \in Seq(Steady)
      BY <3>1, PolicyIs, IsSequence
    <3> QED
      BY <2>1, <3>2, SteadyMesh
  <2>2. CASE iop(c) = "remote iop"
    <3> DEFINE r == [do |-> "apply", facts |-> {<<"remote iop", c, "placed">>}, dry |-> TRUE]
    <3>1. {<<"remote iop", x, "placed">> : x \in {c}} = {<<"remote iop", c, "placed">>}
      OBVIOUS
    <3>2. q = <<r>>
      BY <2>2, <3>1 DEF ApplyPropagationPolicy, Step
    <3>3. r \in Mesh
      BY DEF Mesh, Placing
    <3>4. \A x \in Clusters : StartsRemote(r, x) => x = c
      BY DEF StartsRemote
    <3> HIDE DEF r
    <3>5. <<r>> \in Seq(Mesh) /\ Len(<<r>>) = 1 /\ <<r>>[1] = r
      BY <3>3
    <3> HIDE DEF q
    <3>6. q \in Seq(Mesh) /\ Len(q) = 1 /\ q[1] = r
      BY <3>2, <3>5
    <3>7. \A k \in 1..Len(q) : \A x \in Clusters : StartsRemote(q[k], x) => x = c
      BY <3>4, <3>6
    <3> QED
      BY <3>6, <3>7 DEF Guarded
  <2> QED
    BY <2>1, <2>2 DEF iop
<1>6. createRemoteIstioOperator(c) = u \o q
  BY DEF createRemoteIstioOperator
<1> HIDE DEF w, s, u, q, there
<1>7. Guarded(u \o q, Required(c))
  <2>1. Guarded(u, Required(c))
    BY <1>4, SteadyMesh
  <2> QED
    BY <1>5, <2>1, GuardedThen
<1>8. Guarded(ws, PrimaryUp) /\ Tells(ws, there)
  <2>1. ws \in Seq(Steady)
    BY <1>1, <1>3, ThreeAre
  <2>2. w \in Seq(Mesh) /\ s \in Seq(Mesh)
    BY <1>1, <1>3, SteadyMesh
  <2>3. Tells(ws, there)
    BY <1>2, <2>2, TellsEither
  <2> HIDE DEF ws
  <2> QED
    BY <2>1, <2>3, SteadyMesh
<1>9. \A f \in Required(c) : f \in PrimaryUp \/ Tells(ws, f)
  BY <1>8 DEF Required, there
<1> HIDE DEF ws
<1>10. Guarded(ws \o (u \o q), PrimaryUp)
  BY <1>7, <1>8, <1>9, GuardedThen
<1> QED
  BY <1>6, <1>10 DEF ws, w, s

\* The remotes are the members but the first.
LEMMA RemotesAre ==
  /\ Remotes \in Seq(Clusters) /\ Len(Remotes) \in Nat /\ DOMAIN Remotes = 1..Len(Remotes)
  /\ Len(Remotes) = Len(Members) - 1
  /\ \A i \in 1..Len(Remotes) : Remotes[i] \in Clusters
<1>1. Remotes \in Seq(Clusters) /\ Len(Remotes) = Len(Members) - 1
  BY MembersAssumption, HeadTailIs DEF Remotes
<1> QED
  BY <1>1, LengthIs

\* Guarded pieces are guarded one behind the other.
LEMMA GuardedEach ==
  ASSUME LeastNumber, NEW n \in Nat, NEW ss \in [1..n -> Seq(Mesh)], NEW have, \A i \in 1..n : Guarded(ss[i], have)
  PROVE  Guarded(Flatten(ss), have)
<1>1. PICK G : Joined(n, ss, Mesh, G) /\ Flatten(ss) = G[n]
  BY FlattenIs
<1> DEFINE S == {i \in 0..n : Guarded(G[i], have)}
<1>2. 0 \in S
  <2>1. G[0] = <<>> /\ 0 \in 0..n
    BY <1>1 DEF Joined
  <2>2. <<>> \in Seq(Mesh) /\ Len(<<>>) = 0
    OBVIOUS
  <2>3. Guarded(<<>>, have)
    BY <2>2 DEF Guarded
  <2> QED
    BY <2>1, <2>3
<1>3. ASSUME NEW i \in 1..n, i - 1 \in S PROVE i \in S
  <2>1. G[i] = G[i - 1] \o ss[i] /\ Guarded(G[i - 1], have) /\ Guarded(ss[i], have)
    BY <1>1, <1>3 DEF Joined
  <2> DEFINE a == G[i - 1]
             b == ss[i]
  <2>2. Guarded(a, have) /\ Guarded(b, have)
    BY <2>1
  <2> HIDE DEF a, b
  <2>3. Guarded(a \o b, have)
    BY <2>2, GuardedThen
  <2>4. G[i] = a \o b
    BY <2>1 DEF a, b
  <2>5. Guarded(G[i], have) /\ i \in 0..n
    BY <2>3, <2>4
  <2> QED
    BY <2>5
<1> HIDE DEF S
<1>4. HandedOn(n, S)
  BY <1>2, <1>3 DEF HandedOn
<1>5. n \in S
  BY <1>4, UpTo
<1> QED
  BY <1>1, <1>5 DEF S

\* installRemotes is guarded once the primary is up.
LEMMA InstallRemotesGuarded ==
  ASSUME LeastNumber
  PROVE  Guarded(installRemotes, PrimaryUp)
<1> DEFINE n == Len(Remotes)
           ss == [i \in 1..n |-> waitSecertReady(Remotes[i]) \o createIstioRemoteSecret(Remotes[i])
                                 \o createRemoteIstioOperator(Remotes[i])]
           w == waitIngressgatewayReady(Range(Remotes))
<1>1. installRemotes = Flatten(ss) \o w
  BY RemotesAre DEF installRemotes, ForEach
<1>2. \A i \in 1..n : Guarded(ss[i], PrimaryUp)
  BY RemotesAre, RemoteGuarded
<1>3. ss = [i \in 1..n |-> ss[i]] /\ n \in Nat
  BY RemotesAre
<1>4. w \in Seq(Steady)
  <2>1. \A c \in Range(Remotes) : <<iop(c), c, "ready">> \in Fact
    BY RemotesAre, Places DEF Range, iop, Fact, Object, Word
  <2>2. {<<iop(c), c, "ready">> : c \in Range(Remotes)} \in SUBSET Fact
    BY <2>1
  <2> QED
    BY <2>2, QuestionIs, IsSequence DEF waitIngressgatewayReady
<1> HIDE DEF n, ss, w
<1>5. ss \in [1..n -> Seq(Mesh)]
  BY <1>2, <1>3 DEF Guarded
<1> DEFINE all == Flatten(ss)
<1>6. Guarded(all, PrimaryUp)
  BY <1>2, <1>3, <1>5, GuardedEach
<1>7. Guarded(w, PrimaryUp)
  BY <1>4, SteadyMesh
<1> HIDE DEF all
<1>8. Guarded(all \o w, PrimaryUp)
  BY <1>6, <1>7, GuardedThen
<1> QED
  BY <1>1, <1>8 DEF all

\* installControlPlane waits for the operator of the primary,
LEMMA ControlPlaneIs ==
  installControlPlane \in Seq(Steady) /\ Tells(installControlPlane, <<"iop", Primary, "ready">>)
<1> DEFINE a == waitSecertReady(Primary)
           b == createPrimaryIstioOperator
           c == waitIngressgatewayReady({Primary})
           w == Step("wait", {<<iop(Primary), Primary, "ready">>})
           u == UpdateResource({"istio resources"}, "karmada")
           abc == a \o b \o c
           up == <<"iop", Primary, "ready">>
<1>0. iop(Primary) = "iop"
  BY DEF iop
<1>1. a \in Program(Steady)
  BY AwaitOneIs, Places DEF waitSecertReady, Object, Word
<1>2. b \in Seq(Steady)
  <2>1. UpdateResource({"iop"}, "karmada") \in Program(Steady)
    BY UpdateIs, Places DEF Object
  <2>2. ApplyPropagationPolicy("iop", {Primary}) \in Program(Steady)
    BY PolicyIs, Places DEF Object
  <2> QED
    BY <1>0, <2>1, <2>2, Join, IsSequence DEF createPrimaryIstioOperator
<1>3. c \in Seq(Steady)
  <2>1. {<<iop(x), x, "ready">> : x \in {Primary}} = {<<"iop", Primary, "ready">>}
    BY <1>0
  <2>2. c = Step("wait", {<<"iop", Primary, "ready">>})
    BY <2>1 DEF waitIngressgatewayReady
  <2> HIDE DEF c
  <2> QED
    BY <2>2, AwaitOneIs, Places, IsSequence DEF Object, Word
<1>4. w \in Program(Steady)
  BY <1>0, AwaitOneIs, Places DEF Object, Word
<1>5. Tells(w, up)
  BY <1>0, StepTells
<1>6. u \in Seq(Steady)
  BY UpdateIs, Places, IsSequence DEF Object
<1>7. exposeServices = w \o u /\ installControlPlane = abc \o exposeServices
  BY DEF exposeServices, installControlPlane
<1> HIDE DEF a, b, c, w, u, up
<1>8. abc \in Program(Steady)
  BY <1>1, <1>2, <1>3, Join3
<1> HIDE DEF abc
<1>9. exposeServices \in Seq(Steady) /\ Tells(exposeServices, up)
  <2>1. w \in Seq(Mesh) /\ u \in Seq(Mesh)
    BY <1>4, <1>6, SteadyMesh, IsSequence
  <2> QED
    BY <1>4, <1>5, <1>6, <1>7, <2>1, Join, TellsEither, IsSequence
<1>10. abc \o exposeServices \in Seq(Steady) /\ Tells(abc \o exposeServices, up)
  <2>1. abc \in Seq(Mesh) /\ exposeServices \in Seq(Mesh)
    BY <1>8, <1>9, SteadyMesh, IsSequence
  <2> QED
    BY <1>8, <1>9, <2>1, Join, TellsEither, IsSequence
<1> QED
  BY <1>7, <1>10 DEF up

\* and before installRemotes begins the primary is ready and has an address.
LEMMA BeforeRemotes ==
  ASSUME LeastNumber
  PROVE  \E pre : /\ pre \in Seq(Steady) /\ runInstall = pre \o installRemotes
                  /\ \A f \in PrimaryUp : Tells(pre, f)
<1> DEFINE a == ensureNamespaces
           b == overrideNamespaceIfNeeded
           c == installCrds
           d == createIstioCacerts
           e == createIstioOperator
           f == installControlPlane
           g == remotePilotAddress
           ae == a \o b \o c \o d \o e
           af == ae \o f
           pre == af \o g
<1>1. a \in Program(Steady)
  BY NamespaceIs, Places DEF ensureNamespaces
<1>2. b \in Seq(Steady)
  <2> DEFINE ss == [i \in 1..Len(Members) |-> Step("apply", {<<"override", Members[i], "applied">>})]
  <2>1. b = Flatten(ss)
    BY MembersAre DEF overrideNamespaceIfNeeded, ForEach
  <2>2. \A i \in 1..Len(Members) : ss[i] \in Seq(Steady)
    <3> SUFFICES ASSUME NEW i \in 1..Len(Members) PROVE ss[i] \in Seq(Steady)
      OBVIOUS
    <3> DEFINE m == Members[i]
    <3>1. m \in Place
      BY MembersAre, Places
    <3>2. ss[i] = Step("apply", {<<"override", m, "applied">>})
      OBVIOUS
    <3> HIDE DEF ss, m
    <3>3. Step("apply", {<<"override", m, "applied">>}) = UpdateResource({"override"}, m)
      BY DEF UpdateResource
    <3> QED
      BY <3>1, <3>2, <3>3, UpdateIs, IsSequence DEF Object
  <2>3. ss = [i \in 1..Len(Members) |-> ss[i]]
    OBVIOUS
  <2> HIDE DEF ss
  <2> QED
    BY <2>1, <2>2, <2>3, EachIs
<1>3. c \in Seq(Steady)
  <2>1. Run({<<"istio crd", "karmada", "applied">>}) \in Program(Steady)
    BY RunOneIs, Places DEF Object
  <2>2. applyPolicyForIstioCustomResource \in Program(Steady)
    BY PolicyIs, Places DEF applyPolicyForIstioCustomResource, Object
  <2> QED
    BY <2>1, <2>2, Join, IsSequence DEF installCrds
<1>4. d \in Seq(Steady)
  <2>1. ApplyPropagationPolicy("cacerts", Clusters) \in Program(Steady)
    BY PolicyIs DEF Object
  <2> QED
    BY <2>1, CacertsIs, Join, IsSequence DEF createIstioCacerts
<1>5. e \in Seq(Steady)
  <2>1. createIstioOperatorDeployment \in Program(Steady)
    <3>1. <<"rbac", "karmada", "applied">> \in Harmless /\ <<"workload", "karmada", "applied">> \in Harmless
      BY Places DEF Harmless, Fact, Object, Word
    <3>2. {<<"rbac", "karmada", "applied">>, <<"workload", "karmada", "applied">>} \in SUBSET Harmless
      BY <3>1
    <3> QED
      BY <3>2, ActIs DEF createIstioOperatorDeployment, Run
  <2> QED
    BY <2>1, PoliciesAre, Join3, IsSequence DEF createIstioOperator
<1>6. f \in Seq(Steady) /\ Tells(f, <<"iop", Primary, "ready">>)
  BY ControlPlaneIs
<1>7. g \in Seq(Steady) /\ Tells(g, <<"iop", Primary, "addressed">>)
  <2>0. iop(Primary) = "iop"
    BY DEF iop
  <2>1. g = Step("ask", {<<"iop", Primary, "addressed">>})
    BY <2>0 DEF remotePilotAddress
  <2>2. Step("ask", {<<"iop", Primary, "addressed">>}) \in Program(Steady)
    BY AwaitOneIs, Places DEF Object, Word
  <2>3. Tells(Step("ask", {<<"iop", Primary, "addressed">>}), <<"iop", Primary, "addressed">>)
    BY StepTells
  <2> QED
    BY <2>1, <2>2, <2>3, IsSequence
<1>8. runInstall = pre \o installRemotes
  BY DEF runInstall
<1> HIDE DEF a, b, c, d, e, f, g
<1>9. ae \in Program(Steady)
  BY <1>1, <1>2, <1>3, <1>4, <1>5, Join5
<1> HIDE DEF ae
<1>10. af \in Program(Steady) /\ Tells(af, <<"iop", Primary, "ready">>)
  <2>1. ae \in Seq(Mesh) /\ f \in Seq(Mesh)
    BY <1>6, <1>9, SteadyMesh, IsSequence
  <2> QED
    BY <1>6, <1>9, <2>1, Join, TellsEither
<1> HIDE DEF af
<1>11. pre \in Seq(Steady) /\ Tells(pre, <<"iop", Primary, "ready">>) /\ Tells(pre, <<"iop", Primary, "addressed">>)
  <2>1. af \in Seq(Mesh) /\ g \in Seq(Mesh)
    BY <1>7, <1>10, SteadyMesh, IsSequence
  <2> QED
    BY <1>7, <1>10, <2>1, Join, TellsEither, IsSequence
<1> HIDE DEF pre
<1> QED
  BY <1>8, <1>11 DEF PrimaryUp

\* pkg/plugin/istio: no remote is started unasked.
LEMMA IstioIs ==
  ASSUME LeastNumber
  PROVE  Guarded(istio, {}) /\ istio # <<>>
<1> DEFINE a == installIstioctl
           b == IsClustersReady(Clusters)
           ab == a \o b
<1>1. a \in Program(Steady)
  BY InstallIs DEF installIstioctl, Tool
<1>2. b \in Seq(Steady)
  BY ClustersReadyIs, Places, IsSequence
<1>3. istio = ab \o runInstall
  BY DEF istio
<1> HIDE DEF a, b
<1>4. ab \in Program(Steady)
  BY <1>1, <1>2, Join
<1> HIDE DEF ab
<1>5. PICK pre : /\ pre \in Seq(Steady) /\ runInstall = pre \o installRemotes
                 /\ \A f \in PrimaryUp : Tells(pre, f)
  BY BeforeRemotes
<1>6. Guarded(runInstall, {})
  <2>1. Guarded(pre, {})
    BY <1>5, SteadyMesh
  <2> QED
    BY <1>5, <2>1, InstallRemotesGuarded, GuardedThen
<1>7. Guarded(ab, {})
  BY <1>4, IsSequence, SteadyMesh
<1>8. Guarded(ab \o runInstall, {})
  BY <1>6, <1>7, GuardedThen
<1>9. ab \o runInstall # <<>>
  <2>1. ab \in Seq(Mesh) /\ runInstall \in Seq(Mesh) /\ ab # <<>>
    BY <1>4, <1>6, <1>7 DEF Guarded, Program
  <2>2. ab \in Program(Mesh)
    BY <2>1 DEF Program
  <2>3. ab \o runInstall \in Program(Mesh)
    BY <2>1, <2>2, Join
  <2> QED
    BY <2>3 DEF Program
<1> QED
  BY <1>3, <1>8, <1>9

-----------------------------------------------------------------------------
(* 6. Every Execute is well built. *)

\* The steps of every plugin but the one that starts a remote.
Common == Plain \cup Polling \cup Listing

\* A program polls at most once, and does not list when it polls.
OnePoll(p) ==
  \A i, j \in 1..Len(p) : p[i].do = "poll" => p[j].do # "list" /\ (p[j].do = "poll" => i = j)

\* What every Execute is: some steps, only Istio starts a remote, and behind its
\* guards, and endpoints are collected once.
WellBuilt(g, p) ==
  /\ p \in Seq(Common \cup Placing) /\ Len(p) # 0
  /\ g = "istio" => Guarded(p, {})
  /\ g # "istio" => p \in Seq(Common)
  /\ OnePoll(p)

\* A program of common steps that polls at most once is well built,
LEMMA CommonBuilt ==
  ASSUME NEW g, g # "istio", NEW S, S \subseteq Common, NEW p \in Program(S), OnePoll(p)
  PROVE  WellBuilt(g, p)
<1> DEFINE n == Len(p)
<1>1. n \in Nat /\ n # 0 /\ \A i \in 1..n : p[i] \in Common
  BY LengthIs DEF Program
<1>2. p = [i \in 1..n |-> p[i]]
  BY DEF Program
<1>3. p \in Seq(Common) /\ p \in Seq(Common \cup Placing)
  <2> HIDE DEF n
  <2> QED
    BY <1>1, <1>2
<1> QED
  BY <1>1, <1>3 DEF WellBuilt

\* a plain one always.
LEMMA PlainBuilt ==
  ASSUME NEW g, g # "istio", NEW p \in Program(Plain)
  PROVE  WellBuilt(g, p)
<1>1. Plain \subseteq Common
  BY DEF Common
<1>2. OnePoll(p)
  <2>1. \A i \in 1..Len(p) : p[i] \in Plain
    BY DEF Program
  <2>2. \A i \in 1..Len(p) : p[i].do # "poll"
    BY <2>1, NoPoll
  <2> QED
    BY <2>2 DEF OnePoll
<1> QED
  BY <1>1, <1>2, CommonBuilt

\* What a step that starts a remote looks like.
LEMMA PlacingIs ==
  ASSUME NEW r \in Placing
  PROVE  r.do = "apply" /\ r.dry = TRUE /\ \E c \in Clusters : r.facts = {<<"remote iop", c, "placed">>}
<1>1. PICK c \in Clusters : r = [do |-> "apply", facts |-> {<<"remote iop", c, "placed">>}, dry |-> TRUE]
  BY DEF Placing
<1> DEFINE F == {<<"remote iop", c, "placed">>}
<1>2. r = [do |-> "apply", facts |-> F, dry |-> TRUE]
  BY <1>1
<1> HIDE DEF F
<1>3. r.do = "apply" /\ r.dry = TRUE /\ r.facts = F
  BY <1>2
<1> QED
  BY <1>3 DEF F

\* The Istio plugin is well built.
LEMMA IstioBuilt ==
  ASSUME LeastNumber
  PROVE  WellBuilt("istio", istio)
<1> DEFINE n == Len(istio)
<1>1. istio \in Seq(Mesh) /\ istio # <<>>
  BY IstioIs DEF Guarded
<1>2. n \in Nat /\ n # 0 /\ \A i \in 1..n : istio[i] \in Mesh
  BY <1>1, LengthIs
<1>3. istio = [i \in 1..n |-> istio[i]]
  BY <1>1
<1>4. ASSUME NEW r \in Mesh PROVE r \in Common \cup Placing /\ r.do # "poll"
  <2>1. CASE r \in Placing
    <3>1. r.do = "apply"
      BY <2>1, PlacingIs
    <3> QED
      BY <2>1, <3>1
  <2>2. CASE r \in Steady
    BY <2>2, NoPoll DEF Steady, Common
  <2> QED
    BY <2>1, <2>2 DEF Mesh
<1>5. \A i \in 1..n : istio[i] \in Common \cup Placing /\ istio[i].do # "poll"
  BY <1>2, <1>4
<1>6. istio \in Seq(Common \cup Placing)
  <2> HIDE DEF n
  <2> QED
    BY <1>2, <1>3, <1>5
<1>7. OnePoll(istio)
  BY <1>5 DEF OnePoll
<1> QED
  BY <1>2, <1>6, <1>7, IstioIs DEF WellBuilt

\* Every Execute is well built.
LEMMA Programs ==
  ASSUME LeastNumber, NEW g \in Goal
  PROVE  WellBuilt(g, Execute[g])
<1>1. CASE g = "karmada"
  <2>1. Execute["karmada"] = karmada
    BY DEF Execute
  <2> QED
    BY <1>1, <2>1, KarmadaIs, PlainBuilt
<1>2. CASE g = "join"
  <2>1. Execute["join"] = join
    BY DEF Execute
  <2> QED
    BY <1>2, <2>1, JoinIs, PlainBuilt
<1>3. CASE g = "volcano"
  <2>1. Execute["volcano"] = volcano
    BY DEF Execute
  <2> QED
    BY <1>3, <2>1, VolcanoIs, PlainBuilt
<1>4. CASE g = "argocd"
  <2>1. Execute["argocd"] = argocd
    BY DEF Execute
  <2> QED
    BY <1>4, <2>1, ArgocdIs, PlainBuilt
<1>5. CASE g = "submariner"
  <2>1. Execute["submariner"] = submariner
    BY DEF Execute
  <2> QED
    BY <1>5, <2>1, SubmarinerIs, PlainBuilt
<1>6. CASE g = "vizier"
  <2>1. Execute["vizier"] = vizier
    BY DEF Execute
  <2> QED
    BY <1>6, <2>1, VizierIs, PlainBuilt
<1>7. CASE g = "kubeedge"
  <2>1. Execute["kubeedge"] = kubeedge
    BY DEF Execute
  <2> QED
    BY <1>7, <2>1, KubeedgeIs, PlainBuilt
<1>8. CASE g = "edge"
  <2>1. Execute["edge"] = edge
    BY DEF Execute
  <2> QED
    BY <1>8, <2>1, EdgeIs, PlainBuilt
<1>9. CASE g = "prometheus"
  <2>1. Execute["prometheus"] = prometheus(FALSE)
    BY DEF Execute
  <2> QED
    BY <1>9, <2>1, PrometheusIs, PlainBuilt
<1>10. CASE g = "federation"
  <2> DEFINE p == prometheus(TRUE)
             S == Plain \cup Polling
  <2>1. Execute["federation"] = p
    BY DEF Execute
  <2>2. PollsOnce(p)
    BY FederationIs
  <2> HIDE DEF p
  <2>3. p \in Seq(S) /\ Len(p) # 0
    BY <2>2 DEF PollsOnce
  <2>4. S \subseteq Common /\ \A r \in S : r.do # "list"
    BY NoPoll DEF Common, Polling
  <2> HIDE DEF S
  <2>5. p \in Program(S)
    BY <2>3 DEF Program
  <2>6. \A i \in 1..Len(p) : p[i].do # "list"
    BY <2>3, <2>4
  <2>7. OnePoll(p)
    BY <2>2, <2>6 DEF OnePoll, PollsOnce
  <2> QED
    BY <1>10, <2>1, <2>4, <2>5, <2>7, CommonBuilt
<1>11. CASE g = "thanos"
  <2>1. Execute["thanos"] = thanos
    BY DEF Execute
  <2>2. Listed \subseteq Common /\ \A r \in Listed : r.do # "poll"
    BY NoPoll DEF Common, Listed, Listing
  <2>3. \A i \in 1..Len(thanos) : thanos[i] \in Listed
    BY ThanosIs DEF Program
  <2>4. OnePoll(thanos)
    BY <2>2, <2>3 DEF OnePoll
  <2> QED
    BY <1>11, <2>1, <2>2, <2>4, ThanosIs, CommonBuilt
<1>12. CASE g = "istio"
  <2>1. Execute["istio"] = istio
    BY DEF Execute
  <2> QED
    BY <1>12, <2>1, IstioBuilt
<1> QED
  BY <1>1, <1>2, <1>3, <1>4, <1>5, <1>6, <1>7, <1>8, <1>9, <1>10, <1>11, <1>12 DEF Goal

-----------------------------------------------------------------------------
(* 7. The inductive invariant. *)

\* What the variables hold. A list of endpoints is short enough for one more
\* round over the members.
TypeInv ==
  /\ goal \in Goals
  /\ status \in {"idle", "running", "failed", "ok"}
  /\ dry \in BOOLEAN /\ done \in BOOLEAN
  /\ binary \in {"missing", "broken", "good"}
  /\ pc \in 1..Len(Execute[goal])
  /\ file \in [Tool -> {"absent", "broken", "installed"}]
  /\ endpoints \in Seq(Clusters) /\ Len(endpoints) < 2 * Len(Members)
  /\ root \in 0..1
  /\ rootIn \in [Clusters -> 0..1]
  /\ mishaps \in 0..MaxMishaps
  /\ world \subseteq Fact

\* A poll that is still to come finds no endpoint, or fewer than the remotes: it is
\* ended by the first round that collects enough.
PollInv ==
  status = "running" /\ (\E j \in pc..Len(Execute[goal]) : Execute[goal][j].do = "poll") =>
    Len(endpoints) = 0 \/ Len(endpoints) < Len(Remotes)

\* There is a root only when the certificates were applied in Karmada, a cluster has
\* a root only if there is one, and the certificates are present only where it is.
RootInv ==
  /\ root = 1 => <<"cacerts", "karmada", "applied">> \in world
  /\ \A c \in Clusters : rootIn[c] # 0 => root = 1
  /\ \A x \in Place : <<"cacerts", x, "applied">> \in world => root = 1
  /\ \A c \in Clusters : <<"cacerts", c, "present">> \in world => rootIn[c] # 0

\* A remote that was started found what it requires; and whatever the installer has
\* waited or asked for is still true.
MeshInv ==
  /\ \A c \in Clusters : <<"remote iop", c, "placed">> \in world => goal = "istio" /\ Required(c) \subseteq world
  /\ goal = "istio" /\ status = "running" =>
       \A i \in 1..(pc - 1) : Asks(Execute[goal][i]) => Execute[goal][i].facts \subseteq world

\* The inductive invariant.
IInv == TypeInv /\ PollInv /\ RootInv /\ MeshInv

\* The installer is at a step of a well built program.
LEMMA CurrentStep ==
  ASSUME LeastNumber, TypeInv
  PROVE  /\ goal \in Goal /\ WellBuilt(goal, Execute[goal])
         /\ Len(Execute[goal]) \in Nat
         /\ step = Execute[goal][pc] /\ step \in Common \cup Placing
         /\ goal # "istio" => step \in Common
<1>1. goal \in Goal
  BY GoalsAssumption DEF TypeInv
<1>2. WellBuilt(goal, Execute[goal])
  BY <1>1, Programs
<1> DEFINE p == Execute[goal]
<1>3. p \in Seq(Common \cup Placing) /\ (goal # "istio" => p \in Seq(Common)) /\ Len(p) \in Nat /\ pc \in 1..Len(p)
  BY <1>2, LengthIs DEF WellBuilt, TypeInv
<1>4. step = p[pc]
  BY DEF step
<1> HIDE DEF p
<1>5. p[pc] \in Common \cup Placing /\ (goal # "istio" => p[pc] \in Common)
  BY <1>3
<1> QED
  BY <1>1, <1>2, <1>3, <1>4, <1>5 DEF p

\* The facts of a step, by what it does.
LEMMA StepFacts ==
  ASSUME LeastNumber, TypeInv
  PROVE  /\ step.do \in {"tool", "tool or local"} => TheTool \in Tool
         /\ step.do \in {"apply", "run"} => step.facts \subseteq Fact
         /\ step.do \in {"apply", "run"} /\ step \in Common => step.facts \subseteq Harmless
         /\ step.dry \in BOOLEAN
<1>0. step \in Common \cup Placing
  BY CurrentStep
<1> DEFINE s == step
<1>1. s \in Acts \/ s \in Questions \/ s \in ToolSteps \/ s \in Others \/ s \in Polling \/ s \in Listing \/ s \in Placing
  BY <1>0 DEF Common, Plain
<1>2. TheTool = CHOOSE t \in s.facts : TRUE
  BY DEF TheTool
<1> HIDE DEF s
<1>3. ASSUME s.do \in {"tool", "tool or local"} PROVE TheTool \in Tool
  <2>1. s \in ToolSteps
    BY <1>1, <1>3, PlacingIs DEF Acts, Questions, ToolSteps, Others, Polling, Listing
  <2>2. PICK t \in Tool : s.facts = {t}
    BY <2>1 DEF ToolSteps
  <2> QED
    BY <1>2, <2>2
<1>4. Harmless \subseteq Fact
  BY DEF Harmless
<1>5. ASSUME s.do \in {"apply", "run"} PROVE s \in Acts \/ s \in Placing
  BY <1>1, <1>5 DEF Acts, Questions, ToolSteps, Others, Polling, Listing
<1>6. s \in Acts => s.facts \subseteq Harmless
  BY DEF Acts
<1>7. ASSUME s \in Placing PROVE s.facts \subseteq Fact /\ s \notin Common
  <2>1. PICK c \in Clusters : s.facts = {<<"remote iop", c, "placed">>}
    BY <1>7, PlacingIs
  <2>2. <<"remote iop", c, "placed">> \in Fact /\ <<"remote iop", c, "placed">> \notin Harmless
    BY Places DEF Fact, Object, Word, Harmless
  <2>3. s.do = "apply" /\ s.facts = {<<"remote iop", c, "placed">>}
    BY <1>7, <2>1, PlacingIs
  <2>4. s \notin Acts
    BY <2>2, <2>3 DEF Acts
  <2>5. s \notin Common
    BY <2>3, <2>4 DEF Common, Plain, Questions, ToolSteps, Others, Polling, Listing
  <2> QED
    BY <2>2, <2>3, <2>5
<1>8. s.dry \in BOOLEAN
  BY <1>1, PlacingIs DEF Acts, Questions, ToolSteps, Others, Polling, Listing
<1> QED
  BY <1>3, <1>4, <1>5, <1>6, <1>7, <1>8 DEF s

\* What the members bring about is that something is ready, present or addressed.
LEMMA AwaitedAre ==
  ASSUME LeastNumber, NEW g \in Goal, NEW f \in Awaited[g]
  PROVE  f \in Fact /\ f[3] \in {"ready", "present", "addressed"}
<1> DEFINE p == Execute[g]
           F == UNION {s.facts : s \in {t \in Range(p) : t.do \in {"wait", "ask"}}}
<1>1. Awaited[g] = {x \in F : x[3] \in {"ready", "present", "addressed"}}
                   \cup (IF g \in {"federation", "thanos"} THEN {<<"elb", c, "addressed">> : c \in Clusters} ELSE {})
  BY DEF Awaited
<1>2. p \in Seq(Common \cup Placing)
  BY Programs DEF WellBuilt
<1> HIDE DEF p
<1>3. F \subseteq Fact
  <2>1. ASSUME NEW r \in Common \cup Placing, r.do \in {"wait", "ask"} PROVE r.facts \subseteq Fact
    <3>1. r \in Questions
      BY <2>1, PlacingIs DEF Common, Plain, Acts, Questions, ToolSteps, Others, Polling, Listing
    <3> QED
      BY <3>1 DEF Questions
  <2>2. \A r \in Range(p) : r \in Common \cup Placing
    BY <1>2 DEF Range
  <2> QED
    BY <2>1, <2>2
<1> HIDE DEF F
<1>4. CASE f \in F /\ f[3] \in {"ready", "present", "addressed"}
  BY <1>3, <1>4
<1>5. ASSUME NEW c \in Clusters, f = <<"elb", c, "addressed">>
      PROVE  f \in Fact /\ f[3] \in {"ready", "present", "addressed"}
  <2>1. "elb" \in Object /\ c \in Place /\ "addressed" \in Word
    BY Places DEF Object, Word
  <2>2. <<"elb", c, "addressed">> \in Fact
    BY <2>1 DEF Fact
  <2>3. <<"elb", c, "addressed">>[3] = "addressed"
    OBVIOUS
  <2> QED
    BY <1>5, <2>2, <2>3
<1> QED
  BY <1>1, <1>4, <1>5

-----------------------------------------------------------------------------
(* 8. What a step of the process may change. *)

\* The kinds of step.
Control ==
  \/ pc' = 1 /\ status' = "running" /\ endpoints' = <<>> /\ UNCHANGED done
  \/ status = "running" /\ Proceed
  \/ status = "running" /\ Return
  \/ UNCHANGED <<pc, status, done>>

\* What a step does to the objects: nothing, some of the facts of an apply or a
\* run, the deletion of a namespace, the certificates, or something that becomes true.
Carries ==
  \/ UNCHANGED <<world, root, rootIn>>
  \/ /\ status = "running" /\ step.do \in {"apply", "run"}
     /\ \E part \in SUBSET step.facts : world' = world \cup part
     /\ UNCHANGED <<root, rootIn>>
  \/ /\ status = "running" /\ step.do = "delete"
     /\ world' = {f \in world : f[2] # "host"} /\ UNCHANGED <<root, rootIn>>
  \/ /\ status = "running" /\ step.do = "cacerts"
     /\ <<"cacerts", "karmada", "applied">> \notin world
     /\ world' = world \cup {<<"cacerts", "karmada", "applied">>} /\ root' = root + 1 /\ UNCHANGED rootIn
  \/ \E f \in Awaited[goal] : Provide(f)

\* Every step is one of each.
LEMMA Frame ==
  ASSUME Next
  PROVE  goal' = goal /\ Control /\ Carries
<1>1. ASSUME NEW d \in BOOLEAN, Start(d) PROVE goal' = goal /\ Control /\ Carries
  BY <1>1 DEF Start, Control, Carries
<1>2. CASE SkipInDryRun
  BY <1>2 DEF SkipInDryRun, Control, Carries
<1>3. CASE Apply
  BY <1>3 DEF Apply, At, Control, Carries
<1>4. CASE WaitNamespaceDelete
  BY <1>4 DEF WaitNamespaceDelete, At, Control, Carries
<1>5. CASE Wait
  BY <1>5 DEF Wait, At, Control, Carries
<1>6. CASE Ask
  BY <1>6 DEF Ask, At, Control, Carries
<1>7. CASE DownloadResource
  BY <1>7 DEF DownloadResource, At, Control, Carries
<1>8. CASE RunTool
  BY <1>8 DEF RunTool, At, Control, Carries
<1>9. CASE Scp
  BY <1>9 DEF Scp, At, Control, Carries
<1>10. CASE Cacerts
  BY <1>10 DEF Cacerts, At, gen, Control, Carries
<1>11. CASE getFederalEndpoints
  BY <1>11 DEF getFederalEndpoints, At, Control, Carries
<1>12. CASE thanosSidecarElbIPs
  BY <1>12 DEF thanosSidecarElbIPs, At, Control, Carries
<1>13. ASSUME NEW left \in {"absent", "broken"}, DownloadFails(left) PROVE goal' = goal /\ Control /\ Carries
  BY <1>13 DEF DownloadFails, At, Control, Carries
<1>14. CASE ScpFails
  BY <1>14 DEF ScpFails, At, Control, Carries
<1>15. CASE StepFails
  BY <1>15 DEF StepFails, At, Control, Carries
<1>16. CASE DryRunTimesOut
  BY <1>16 DEF DryRunTimesOut, At, Control, Carries
<1>17. ASSUME NEW f \in Awaited[goal], Provide(f) PROVE goal' = goal /\ Control /\ Carries
  <2>1. Carries
    BY <1>17 DEF Carries
  <2> QED
    BY <1>17, <2>1 DEF Provide, Control
<1> QED
  BY <1>1, <1>2, <1>3, <1>4, <1>5, <1>6, <1>7, <1>8, <1>9, <1>10, <1>11, <1>12, <1>13, <1>14, <1>15, <1>16, <1>17
     DEF Next, Work

\* The installer stays at a step of its program.
LEMMA ControlNext ==
  ASSUME LeastNumber, TypeInv, Next
  PROVE  /\ goal' \in Goals /\ Execute[goal]' = Execute[goal]
         /\ status' \in {"idle", "running", "failed", "ok"} /\ done' \in BOOLEAN
         /\ pc' \in 1..Len(Execute[goal]')
<1>1. goal' = goal /\ Control
  BY Frame
<1>2. goal' \in Goals /\ Execute[goal]' = Execute[goal]
  BY <1>1 DEF TypeInv
<1>3. Len(Execute[goal]) \in Nat /\ Len(Execute[goal]) # 0
  BY CurrentStep DEF WellBuilt
<1>4. CASE pc' = 1 /\ status' = "running" /\ endpoints' = <<>> /\ UNCHANGED done
  <2>1. pc' \in 1..Len(Execute[goal])
    BY <1>3, <1>4
  <2> QED
    BY <1>2, <1>4, <2>1 DEF TypeInv
<1>5. CASE status = "running" /\ Proceed
  <2> DEFINE n == Len(Execute[goal])
  <2>1. \/ pc < n /\ pc' = pc + 1 /\ UNCHANGED <<status, done>>
        \/ ~(pc < n) /\ status' = "ok" /\ done' = (done \/ ~dry) /\ UNCHANGED pc
    BY <1>5 DEF Proceed
  <2>2. n \in Nat /\ pc \in 1..n
    BY <1>3 DEF TypeInv
  <2> HIDE DEF n
  <2>3. pc' \in 1..n /\ status' \in {"idle", "running", "failed", "ok"}
    BY <1>5, <2>1, <2>2
  <2>4. done' \in BOOLEAN
    BY <2>1 DEF TypeInv
  <2> QED
    BY <1>2, <2>3, <2>4 DEF n
<1>6. CASE status = "running" /\ Return
  BY <1>2, <1>6 DEF Return, TypeInv
<1>7. CASE UNCHANGED <<pc, status, done>>
  BY <1>2, <1>7 DEF TypeInv
<1> QED
  BY <1>1, <1>4, <1>5, <1>6, <1>7 DEF Control

\* No step makes a second root, or takes one from a cluster.
LEMMA RootNext ==
  ASSUME LeastNumber, TypeInv, RootInv, Next
  PROVE  RootInv' /\ world' \subseteq Fact /\ root' \in 0..1 /\ rootIn' \in [Clusters -> 0..1]
<1>0. goal \in Goal
  BY CurrentStep
<1>1. CASE UNCHANGED <<world, root, rootIn>>
  BY <1>1 DEF RootInv, TypeInv
<1>2. CASE /\ step.do \in {"apply", "run"}
           /\ \E part \in SUBSET step.facts : world' = world \cup part
           /\ UNCHANGED <<root, rootIn>>
  <2>1. PICK part \in SUBSET step.facts : world' = world \cup part
    BY <1>2
  <2>2. part \subseteq Fact
    BY <1>2, <2>1, StepFacts
  <2>3. ASSUME NEW f \in part PROVE f[3] # "present" /\ ~(f[1] = "cacerts" /\ f[3] = "applied")
    <3>1. step \in Common \/ step \in Placing
      BY CurrentStep
    <3>2. CASE step \in Common
      <4>1. f \in Harmless
        BY <1>2, <2>1, <2>3, <3>2, StepFacts
      <4> QED
        BY <4>1 DEF Harmless
    <3>3. CASE step \in Placing
      <4>1. PICK c \in Clusters : step.facts = {<<"remote iop", c, "placed">>}
        BY <3>3, PlacingIs
      <4>2. f = <<"remote iop", c, "placed">>
        BY <2>1, <2>3, <4>1
      <4> QED
        BY <4>2
    <3> QED
      BY <3>1, <3>2, <3>3
  <2>4. \A x : <<"cacerts", x, "applied">> \notin part /\ <<"cacerts", x, "present">> \notin part
    BY <2>3
  <2> QED
    BY <1>2, <2>1, <2>2, <2>4 DEF RootInv, TypeInv
<1>3. CASE world' = {f \in world : f[2] # "host"} /\ UNCHANGED <<root, rootIn>>
  <2>1. world' \subseteq world
    BY <1>3
  <2>2. <<"cacerts", "karmada", "applied">> \in world => <<"cacerts", "karmada", "applied">> \in world'
    BY <1>3
  <2> QED
    BY <1>3, <2>1, <2>2 DEF RootInv, TypeInv
<1>4. CASE /\ <<"cacerts", "karmada", "applied">> \notin world
           /\ world' = world \cup {<<"cacerts", "karmada", "applied">>} /\ root' = root + 1 /\ UNCHANGED rootIn
  <2>1. root = 0 /\ root' = 1
    BY <1>4 DEF RootInv, TypeInv
  <2>2. <<"cacerts", "karmada", "applied">> \in Fact
    BY Places DEF Fact, Object, Word
  <2>3. \A c : <<"cacerts", c, "present">> \in world' => <<"cacerts", c, "present">> \in world
    BY <1>4
  <2>4. world' \subseteq Fact /\ <<"cacerts", "karmada", "applied">> \in world'
    BY <1>4, <2>2 DEF TypeInv
  <2> QED
    BY <1>4, <2>1, <2>3, <2>4 DEF RootInv, TypeInv
<1>5. ASSUME NEW f \in Awaited[goal], Provide(f)
      PROVE  RootInv' /\ world' \subseteq Fact /\ root' \in 0..1 /\ rootIn' \in [Clusters -> 0..1]
  <2>1. f \in Fact /\ f[3] \in {"ready", "present", "addressed"}
    BY <1>0, <1>5, AwaitedAre
  <2>2. /\ caused(f) /\ world' = world \cup {f} /\ root' = root
        /\ rootIn' = IF f[1] = "cacerts" THEN [rootIn EXCEPT ![f[2]] = root] ELSE rootIn
    BY <1>5 DEF Provide
  <2>3. f = <<f[1], f[2], f[3]>> /\ f[2] \in Place /\ "karmada" \in Place
    BY <2>1 DEF Fact, Place
  <2>4. f[1] = "cacerts" => root = 1
    BY <2>2, <2>3 DEF caused, RootInv
  <2>5. rootIn' \in [Clusters -> 0..1]
    BY <2>2 DEF TypeInv
  <2>6. world' \subseteq Fact
    BY <2>1, <2>2 DEF TypeInv
  <2>7. \A x : <<"cacerts", x, "applied">> \in world' => <<"cacerts", x, "applied">> \in world
    BY <2>1, <2>2
  <2>8. \A c \in Clusters : rootIn'[c] # 0 => root = 1
    BY <2>2, <2>4 DEF RootInv, TypeInv
  <2>9. \A c \in Clusters : <<"cacerts", c, "present">> \in world' => rootIn'[c] # 0
    <3> SUFFICES ASSUME NEW c \in Clusters, <<"cacerts", c, "present">> \in world' PROVE rootIn'[c] # 0
      OBVIOUS
    <3>1. CASE <<"cacerts", c, "present">> \in world
      BY <2>2, <2>4, <3>1 DEF RootInv, TypeInv
    <3>2. CASE <<"cacerts", c, "present">> = f
      <4>1. f[1] = "cacerts" /\ f[2] = c
        BY <3>2
      <4> QED
        BY <2>2, <2>4, <4>1 DEF TypeInv
    <3> QED
      BY <2>2, <3>1, <3>2
  <2> QED
    BY <2>2, <2>5, <2>6, <2>7, <2>8, <2>9 DEF RootInv, TypeInv
<1> QED
  BY <1>1, <1>2, <1>3, <1>4, <1>5, Frame DEF Carries

\* What is known of the tools and of the mishaps.
ToolsInv ==
  /\ dry \in BOOLEAN
  /\ binary \in {"missing", "broken", "good"}
  /\ file \in [Tool -> {"absent", "broken", "installed"}]
  /\ mishaps \in 0..MaxMishaps

\* It stays so.
LEMMA ToolsNext ==
  ASSUME LeastNumber, TypeInv, Next
  PROVE  ToolsInv'
<1>0. ToolsInv /\ MaxMishaps \in Nat
  BY BoundAssumption DEF TypeInv, ToolsInv
<1>1. ASSUME NEW d \in BOOLEAN, Start(d) PROVE ToolsInv'
  BY <1>0, <1>1 DEF Start, ToolsInv
<1>2. ASSUME UNCHANGED <<dry, file, binary, mishaps>> PROVE ToolsInv'
  BY <1>0, <1>2 DEF ToolsInv
<1>3. CASE DownloadResource
  <2>1. step.do \in {"tool", "tool or local"}
    BY <1>3 DEF DownloadResource, At
  <2>2. TheTool \in Tool
    BY <2>1, StepFacts
  <2>3. file' \in [Tool -> {"absent", "broken", "installed"}] /\ binary' \in {"missing", "broken", "good"}
        /\ UNCHANGED <<dry, mishaps>>
    BY <1>0, <1>3, <2>2 DEF DownloadResource, ToolsInv
  <2> QED
    BY <1>0, <2>3 DEF ToolsInv
<1>4. ASSUME NEW left \in {"absent", "broken"}, DownloadFails(left) PROVE ToolsInv'
  <2>1. file' = [file EXCEPT ![TheTool] = left] /\ UNCHANGED dry
    BY <1>4 DEF DownloadFails
  <2>2. mishaps < MaxMishaps /\ mishaps' = mishaps + 1
    BY <1>4 DEF DownloadFails
  <2>3. binary' \in {"missing", "broken", "good"}
    BY <1>0, <1>4 DEF DownloadFails, ToolsInv
  <2>4. mishaps' \in 0..MaxMishaps
    BY <1>0, <2>2 DEF ToolsInv
  <2>5. file' \in [Tool -> {"absent", "broken", "installed"}]
    BY <1>0, <2>1 DEF ToolsInv
  <2> QED
    BY <1>0, <2>1, <2>3, <2>4, <2>5 DEF ToolsInv
<1>5. CASE Scp
  BY <1>0, <1>5 DEF Scp, ToolsInv
<1>6. CASE ScpFails
  <2>1. PICK left \in {"absent", "broken"} : file' = [file EXCEPT !["keadm on the edge"] = left]
    BY <1>6 DEF ScpFails
  <2>2. mishaps < MaxMishaps /\ mishaps' = mishaps + 1 /\ UNCHANGED <<dry, binary>>
    BY <1>6 DEF ScpFails
  <2>3. mishaps' \in 0..MaxMishaps
    BY <1>0, <2>2 DEF ToolsInv
  <2>4. file' \in [Tool -> {"absent", "broken", "installed"}]
    BY <1>0, <2>1 DEF ToolsInv
  <2> QED
    BY <1>0, <2>2, <2>3, <2>4 DEF ToolsInv
<1>7. CASE StepFails
  BY <1>0, <1>7 DEF StepFails, ToolsInv
<1>8. CASE SkipInDryRun \/ Apply \/ WaitNamespaceDelete \/ Wait \/ Ask \/ RunTool \/ Cacerts
  BY <1>2, <1>8 DEF SkipInDryRun, Apply, WaitNamespaceDelete, Wait, Ask, RunTool, Cacerts
<1>9. CASE getFederalEndpoints \/ thanosSidecarElbIPs \/ DryRunTimesOut
  BY <1>2, <1>9 DEF getFederalEndpoints, thanosSidecarElbIPs, DryRunTimesOut
<1>10. ASSUME NEW f \in Awaited[goal], Provide(f) PROVE ToolsInv'
  BY <1>2, <1>10 DEF Provide
<1> QED
  BY <1>1, <1>3, <1>4, <1>5, <1>6, <1>7, <1>8, <1>9, <1>10 DEF Next, Work

\* What is known of the list.
ListInv == endpoints \in Seq(Clusters) /\ Len(endpoints) < 2 * Len(Members)

\* Steps that leave the list alone.
LEMMA SameList ==
  ASSUME LeastNumber, TypeInv, PollInv, Next, UNCHANGED endpoints, status' = "running" => status = "running"
  PROVE  ListInv' /\ PollInv'
<1>1. ListInv'
  BY DEF TypeInv, ListInv
<1>2. Execute[goal]' = Execute[goal] /\ pc \in 1..Len(Execute[goal]) /\ Len(Execute[goal]) \in Nat
  BY ControlNext, CurrentStep DEF TypeInv
<1>3. CASE status' # "running"
  BY <1>1, <1>3 DEF PollInv
<1>4. CASE status' = "running"
  <2>1. status = "running" /\ Control
    BY <1>4, Frame
  <2>2. pc' = pc \/ pc' = pc + 1 \/ endpoints' = <<>>
    BY <1>4, <2>1 DEF Control, Proceed, Return
  <2>3. CASE endpoints' = <<>>
    BY <1>1, <2>3 DEF PollInv
  <2>4. CASE pc' = pc \/ pc' = pc + 1
    <3> DEFINE p == Execute[goal]
    <3>1. Execute[goal]' = p /\ pc \in 1..Len(p) /\ Len(p) \in Nat
      BY <1>2
    <3>2. (\E j \in pc'..Len(p) : p[j].do = "poll") => \E j \in pc..Len(p) : p[j].do = "poll"
      <4> HIDE DEF p
      <4> QED
        BY <2>4, <3>1
    <3>3. (\E j \in pc..Len(p) : p[j].do = "poll") => Len(endpoints) = 0 \/ Len(endpoints) < Len(Remotes)
      BY <2>1 DEF PollInv
    <3> HIDE DEF p
    <3>4. PollInv'
      BY <3>1, <3>2, <3>3 DEF PollInv
    <3> QED
      BY <1>1, <3>4
  <2> QED
    BY <2>2, <2>3, <2>4
<1> QED
  BY <1>3, <1>4

\* A list of some of the clusters is no longer than the members are many. It is
\* proved with the theorems (ListsAreShort).
ShortLists ==
  \A cs \in SUBSET Clusters :
    /\ AsList(cs) \in Seq(Clusters) /\ Len(AsList(cs)) \in Nat /\ Len(AsList(cs)) <= Len(Members)
    /\ Primary \notin cs => Len(AsList(cs)) <= Len(Members) - 1

\* A poll or a listing leaves the list as it must be.
LEMMA ListNext ==
  ASSUME LeastNumber, ShortLists, TypeInv, PollInv, Next
  PROVE  ListInv' /\ PollInv'
<1>0. Len(Members) \in Nat /\ Len(Members) # 0 /\ Len(Remotes) = Len(Members) - 1
  BY MembersAre, RemotesAre, MembersAssumption
<1>1. CASE endpoints' = <<>>
  <2>1. <<>> \in Seq(Clusters) /\ Len(<<>>) = 0
    OBVIOUS
  <2>2. 0 < 2 * Len(Members)
    BY <1>0
  <2> QED
    BY <1>1, <2>1, <2>2 DEF ListInv, PollInv
<1> DEFINE p == Execute[goal]
<1>2. /\ Execute[goal]' = p /\ pc \in 1..Len(p) /\ Len(p) \in Nat /\ step = p[pc]
      /\ OnePoll(p)
  BY ControlNext, CurrentStep DEF TypeInv, WellBuilt
<1>3. CASE getFederalEndpoints
  <2> DEFINE there == AsList(Addressed \ {Primary})
  <2>1. /\ status = "running" /\ step.do = "poll" /\ endpoints' = endpoints \o there
        /\ \/ Proceed
           \/ UNCHANGED <<pc, status, done>> /\ ~(Len(endpoints') >= Len(Remotes))
    BY <1>3 DEF getFederalEndpoints, At
  <2>2. there \in Seq(Clusters) /\ Len(there) \in Nat /\ Len(there) <= Len(Members) - 1
    <3>1. Addressed \ {Primary} \in SUBSET Clusters /\ Primary \notin Addressed \ {Primary}
      BY DEF Addressed
    <3> QED
      BY <3>1 DEF ShortLists
  <2>3. Len(endpoints) = 0 \/ Len(endpoints) < Len(Remotes)
    <3>1. pc \in pc..Len(p) /\ p[pc].do = "poll"
      BY <1>2, <2>1
    <3> QED
      BY <2>1, <3>1 DEF PollInv
  <2> HIDE DEF there, p
  <2>4. endpoints \in Seq(Clusters) /\ Len(endpoints) \in Nat
    BY LengthIs DEF TypeInv
  <2>5. endpoints \o there \in Seq(Clusters) /\ Len(endpoints \o there) = Len(endpoints) + Len(there)
    BY <2>2, <2>4, ConcatIs
  <2>6. endpoints' \in Seq(Clusters) /\ Len(endpoints') \in Nat /\ Len(endpoints') < 2 * Len(Members)
    BY <1>0, <2>1, <2>2, <2>3, <2>4, <2>5
  <2>7. ListInv'
    BY <2>6 DEF ListInv
  <2>8. CASE UNCHANGED <<pc, status, done>> /\ ~(Len(endpoints') >= Len(Remotes))
    <3>1. Len(endpoints') < Len(Remotes)
      BY <1>0, <2>6, <2>8
    <3>2. Len(Remotes)' = Len(Remotes)
      OBVIOUS
    <3> QED
      BY <2>7, <3>1 DEF PollInv
  <2>9. CASE Proceed
    <3>1. status' = "running" => pc' = pc + 1
      BY <2>1, <2>9 DEF Proceed, p
    <3>2. ASSUME status' = "running", NEW j \in pc'..Len(p), p[j].do = "poll" PROVE FALSE
      <4>1. j \in 1..Len(p) /\ j # pc
        BY <1>2, <3>1, <3>2
      <4>2. p[pc].do = "poll"
        BY <1>2, <2>1
      <4> QED
        BY <1>2, <3>2, <4>1, <4>2 DEF OnePoll
    <3> QED
      BY <1>2, <2>7, <3>2 DEF PollInv
  <2> QED
    BY <2>1, <2>8, <2>9
<1>4. CASE thanosSidecarElbIPs
  <2>1. step.do = "list" /\ endpoints' = AsList(Addressed)
    BY <1>4 DEF thanosSidecarElbIPs, At
  <2>2. endpoints' \in Seq(Clusters) /\ Len(endpoints') \in Nat /\ Len(endpoints') <= Len(Members)
    <3>1. Addressed \in SUBSET Clusters
      BY DEF Addressed
    <3> QED
      BY <2>1, <3>1 DEF ShortLists
  <2>3. ListInv'
    BY <1>0, <2>2 DEF ListInv
  <2> HIDE DEF p
  <2>4. \A j \in 1..Len(p) : p[j].do # "poll"
    BY <1>2, <2>1 DEF OnePoll
  <2>5. pc' \in 1..Len(p)
    BY <1>2, ControlNext
  <2>6. \A j \in pc'..Len(p) : p[j].do # "poll"
    BY <1>2, <2>4, <2>5
  <2> QED
    BY <1>2, <2>3, <2>6 DEF PollInv
<1> HIDE DEF p
<1>5. ASSUME NEW d \in BOOLEAN, Start(d) PROVE ListInv' /\ PollInv'
  BY <1>1, <1>5 DEF Start
<1>6. ASSUME UNCHANGED endpoints, status' = "running" => status = "running" PROVE ListInv' /\ PollInv'
  BY <1>6, SameList
<1>7. CASE SkipInDryRun \/ Apply \/ WaitNamespaceDelete \/ Wait \/ Ask
  BY <1>6, <1>7 DEF SkipInDryRun, Apply, WaitNamespaceDelete, Wait, Ask, At
<1>8. CASE DownloadResource \/ RunTool \/ Scp \/ Cacerts
  BY <1>6, <1>8 DEF DownloadResource, RunTool, Scp, Cacerts, At
<1>9. ASSUME NEW left \in {"absent", "broken"}, DownloadFails(left) PROVE ListInv' /\ PollInv'
  BY <1>6, <1>9 DEF DownloadFails, At
<1>10. CASE ScpFails \/ StepFails \/ DryRunTimesOut
  BY <1>6, <1>10 DEF ScpFails, StepFails, DryRunTimesOut, At
<1>11. ASSUME NEW f \in Awaited[goal], Provide(f) PROVE ListInv' /\ PollInv'
  BY <1>6, <1>11 DEF Provide
<1> QED
  BY <1>3, <1>4, <1>5, <1>7, <1>8, <1>9, <1>10, <1>11 DEF Next, Work

-----------------------------------------------------------------------------
(* 9. Istio, from step to step, and the start. *)

\* A step that asks is passed only when its facts are true.
LEMMA Answered ==
  ASSUME TypeInv, Next, status = "running", status' = "running", pc' # pc, Asks(step), step.dry = TRUE
  PROVE  step.facts \subseteq world
<1>1. CASE Wait
  BY <1>1 DEF Wait
<1>2. CASE Ask
  BY <1>2 DEF Ask, Return
<1>3. ~SkipInDryRun
  BY DEF SkipInDryRun
<1>4. ASSUME NEW d \in BOOLEAN, Start(d) PROVE FALSE
  BY <1>4 DEF Start
<1>5. CASE Apply \/ WaitNamespaceDelete \/ DownloadResource \/ RunTool \/ Scp \/ Cacerts
  BY <1>5 DEF Apply, WaitNamespaceDelete, DownloadResource, RunTool, Scp, Cacerts, At, Asks
<1>6. CASE getFederalEndpoints \/ thanosSidecarElbIPs
  BY <1>6 DEF getFederalEndpoints, thanosSidecarElbIPs, At, Asks
<1>7. ASSUME NEW left \in {"absent", "broken"}, DownloadFails(left) PROVE FALSE
  BY <1>7 DEF DownloadFails, At, Asks
<1>8. CASE ScpFails \/ StepFails \/ DryRunTimesOut
  BY <1>8 DEF ScpFails, StepFails, DryRunTimesOut, Return
<1>9. ASSUME NEW f \in Awaited[goal], Provide(f) PROVE FALSE
  BY <1>9 DEF Provide
<1> QED
  BY <1>1, <1>2, <1>3, <1>4, <1>5, <1>6, <1>7, <1>8, <1>9 DEF Next, Work

\* No step starts a remote too early, or takes away what was waited for.
LEMMA MeshNext ==
  ASSUME LeastNumber, TypeInv, MeshInv, Next
  PROVE  MeshInv'
<1> DEFINE p == Execute[goal]
           placed(c) == <<"remote iop", c, "placed">>
<1>1. goal' = goal /\ Execute[goal]' = p /\ goal \in Goal /\ Carries /\ Control
  BY Frame, ControlNext, CurrentStep
<1>2. \A f \in Awaited[goal] : f[3] \in {"ready", "present", "addressed"}
  BY <1>1, AwaitedAre
<1>3. \A f \in Awaited[goal] : \A c : f # placed(c)
  <2> SUFFICES ASSUME NEW f \in Awaited[goal], NEW c, f = placed(c) PROVE FALSE
    OBVIOUS
  <2>1. f[3] = "placed"
    OBVIOUS
  <2> QED
    BY <1>2, <2>1
<1>4. \A c : <<"cacerts", "karmada", "applied">> # placed(c)
  OBVIOUS
<1>5. ASSUME NEW c, placed(c) \in world', placed(c) \notin world
      PROVE  status = "running" /\ step.do \in {"apply", "run"} /\ placed(c) \in step.facts
  <2>1. CASE UNCHANGED <<world, root, rootIn>>
    BY <1>5, <2>1
  <2>2. ASSUME NEW f \in Awaited[goal], Provide(f) PROVE FALSE
    <3>1. world' = world \cup {f}
      BY <2>2 DEF Provide
    <3>2. f # placed(c)
      BY <1>3
    <3> HIDE DEF placed
    <3> QED
      BY <1>5, <3>1, <3>2
  <2>3. CASE world' = {f \in world : f[2] # "host"}
    <3> HIDE DEF placed
    <3> QED
      BY <1>5, <2>3
  <2>4. CASE world' = world \cup {<<"cacerts", "karmada", "applied">>}
    <3>1. placed(c) # <<"cacerts", "karmada", "applied">>
      BY <1>4
    <3> HIDE DEF placed
    <3> QED
      BY <1>5, <2>4, <3>1
  <2>5. ASSUME status = "running", step.do \in {"apply", "run"}, NEW part \in SUBSET step.facts, world' = world \cup part
        PROVE  status = "running" /\ step.do \in {"apply", "run"} /\ placed(c) \in step.facts
    <3> HIDE DEF placed
    <3> QED
      BY <1>5, <2>5
  <2> HIDE DEF placed
  <2> QED
    BY <1>1, <2>1, <2>2, <2>3, <2>4, <2>5 DEF Carries
<1>6. CASE goal # "istio"
  <2>1. ASSUME NEW c \in Clusters, placed(c) \in world' PROVE FALSE
    <3>1. placed(c) \notin world
      BY <1>6, <2>1 DEF MeshInv
    <3>2. step.do \in {"apply", "run"} /\ placed(c) \in step.facts
      BY <1>5, <2>1, <3>1
    <3>3. step \in Common
      BY <1>6, CurrentStep
    <3>4. placed(c) \in Harmless
      BY <3>2, <3>3, StepFacts
    <3> QED
      BY <3>4 DEF Harmless
  <2> QED
    BY <1>1, <1>6, <2>1 DEF MeshInv
<1>7. CASE goal = "istio"
  <2>1. /\ p \in Seq(Mesh) /\ Guarded(p, {}) /\ pc \in 1..Len(p) /\ Len(p) \in Nat /\ step = p[pc]
        /\ step \in Mesh
    <3>1. Guarded(p, {}) /\ pc \in 1..Len(p) /\ Len(p) \in Nat /\ step = p[pc]
      BY <1>7, CurrentStep DEF WellBuilt, TypeInv
    <3>2. p \in Seq(Mesh)
      BY <3>1 DEF Guarded
    <3> HIDE DEF p
    <3> QED
      BY <3>1, <3>2
  <2>2. step.dry = TRUE /\ step.do # "delete"
    BY <2>1, PlacingIs DEF Mesh, Steady
  <2>3. world \subseteq world'
    <3>1. ASSUME NEW f \in Awaited[goal], Provide(f) PROVE world \subseteq world'
      BY <3>1 DEF Provide
    <3> QED
      BY <1>1, <2>2, <3>1 DEF Carries
  <2>4. ASSUME status = "running", NEW i \in 1..(pc - 1), Asks(p[i]) PROVE p[i].facts \subseteq world
    BY <1>7, <2>4 DEF MeshInv
  <2> HIDE DEF p
  <2>5. ASSUME NEW c \in Clusters, placed(c) \in world' PROVE Required(c) \subseteq world'
    <3>1. CASE placed(c) \in world
      BY <2>3, <3>1 DEF MeshInv
    <3>2. CASE placed(c) \notin world
      <4>1. status = "running" /\ step.do \in {"apply", "run"} /\ placed(c) \in step.facts
        BY <1>5, <2>5, <3>2
      <4>2. StartsRemote(p[pc], c)
        BY <2>1, <4>1 DEF StartsRemote
      <4>3. \A f \in Required(c) : Told(p, pc, f)
        BY <2>1, <4>2 DEF Guarded
      <4>4. \A f \in Required(c) : f \in world
        BY <2>4, <4>1, <4>3 DEF Told
      <4> QED
        BY <2>3, <4>4
    <3> QED
      BY <3>1, <3>2
  <2>6. ASSUME status' = "running", NEW i \in 1..(pc' - 1), Asks(p[i]) PROVE p[i].facts \subseteq world'
    <3>1. CASE pc' = 1
      BY <2>6, <3>1
    <3>2. CASE status = "running" /\ pc' = pc + 1
      <4>1. CASE i = pc
        <5>1. Asks(step) /\ p[i] = step /\ pc' # pc
          BY <2>1, <2>6, <3>2, <4>1
        <5> QED
          BY <2>2, <2>3, <2>6, <3>2, <5>1, Answered
      <4>2. CASE i # pc
        <5>1. i \in 1..(pc - 1)
          BY <2>1, <3>2, <4>2
        <5> QED
          BY <2>3, <2>4, <2>6, <3>2, <5>1
      <4> QED
        BY <4>1, <4>2
    <3>3. CASE status = "running" /\ pc' = pc
      <4>1. i \in 1..(pc - 1)
        BY <3>3
      <4> QED
        BY <2>3, <2>4, <2>6, <3>3, <4>1
    <3> QED
      BY <1>1, <2>6, <3>1, <3>2, <3>3 DEF Control, Proceed, Return
  <2>7. goal' = "istio" /\ Execute[goal'] = p
    BY <1>1, <1>7
  <2> QED
    BY <2>5, <2>6, <2>7 DEF MeshInv
<1> QED
  BY <1>6, <1>7

\* The invariant holds when the installer is called,
LEMMA InitIInv ==
  ASSUME LeastNumber
  PROVE  Init => IInv
<1> SUFFICES ASSUME Init PROVE IInv
  OBVIOUS
<1>0. goal \in Goals /\ goal \in Goal
  BY GoalsAssumption DEF Init
<1>1. WellBuilt(goal, Execute[goal])
  BY <1>0, Programs
<1>2. 1 \in 1..Len(Execute[goal])
  <2> DEFINE p == Execute[goal]
  <2>1. p \in Seq(Common \cup Placing) /\ Len(p) # 0
    BY <1>1 DEF WellBuilt
  <2> HIDE DEF p
  <2>2. 1 \in 1..Len(p)
    BY <2>1, LengthIs
  <2> QED
    BY <2>2 DEF p
<1>3. world \subseteq {<<"cluster", c, "joined">> : c \in Clusters}
  BY DEF Init
<1>4. world \subseteq Fact
  <2>1. \A c \in Clusters : <<"cluster", c, "joined">> \in Fact
    BY Places DEF Fact, Object, Word
  <2> QED
    BY <1>3, <2>1
<1>5. \A f \in world : f[1] = "cluster"
  BY <1>3
<1>6. TypeInv
  <2>1. endpoints \in Seq(Clusters) /\ Len(endpoints) = 0
    BY DEF Init
  <2>2. 0 < 2 * Len(Members)
    BY MembersAre, MembersAssumption
  <2>3. rootIn \in [Clusters -> 0..1] /\ file \in [Tool -> {"absent", "broken", "installed"}]
    BY DEF Init
  <2>4. mishaps \in 0..MaxMishaps
    BY BoundAssumption DEF Init
  <2>5. status = "idle" /\ dry = FALSE /\ done = FALSE /\ binary = "missing" /\ pc = 1 /\ root = 0
    BY DEF Init
  <2>6. root \in 0..1 /\ Len(endpoints) < 2 * Len(Members)
    BY <2>1, <2>2, <2>5
  <2> QED
    BY <1>0, <1>2, <1>4, <2>1, <2>3, <2>4, <2>5, <2>6 DEF TypeInv
<1>7. PollInv
  BY DEF Init, PollInv
<1>8. RootInv
  <2>1. \A x, w : <<"cacerts", x, w>> \notin world
    BY <1>5
  <2> QED
    BY <2>1 DEF Init, RootInv
<1>9. MeshInv
  <2>1. \A x, w : <<"remote iop", x, w>> \notin world
    BY <1>5
  <2> QED
    BY <2>1 DEF Init, MeshInv
<1> QED
  BY <1>6, <1>7, <1>8, <1>9 DEF IInv

\* every step keeps it,
LEMMA NextIInv ==
  ASSUME LeastNumber, ShortLists
  PROVE  IInv /\ [Next]_vars => IInv'
<1> SUFFICES ASSUME IInv, [Next]_vars PROVE IInv'
  OBVIOUS
<1>1. CASE Next
  <2>1. TypeInv /\ PollInv /\ RootInv /\ MeshInv
    BY DEF IInv
  <2>2. RootInv' /\ world' \subseteq Fact /\ root' \in 0..1 /\ rootIn' \in [Clusters -> 0..1]
    BY <1>1, <2>1, RootNext
  <2>3. ListInv' /\ PollInv'
    BY <1>1, <2>1, ListNext
  <2>4. ToolsInv'
    BY <1>1, <2>1, ToolsNext
  <2>5. MeshInv'
    BY <1>1, <2>1, MeshNext
  <2>6. /\ goal' \in Goals
        /\ status' \in {"idle", "running", "failed", "ok"} /\ done' \in BOOLEAN
        /\ pc' \in 1..Len(Execute[goal]')
    BY <1>1, <2>1, ControlNext
  <2>7. TypeInv'
    BY <2>2, <2>3, <2>4, <2>6 DEF TypeInv, ListInv, ToolsInv
  <2> QED
    BY <2>2, <2>3, <2>5, <2>7 DEF IInv
<1>2. CASE UNCHANGED vars
  <2>1. TypeInv'
    BY <1>2 DEF IInv, TypeInv, vars
  <2>2. PollInv'
    BY <1>2 DEF IInv, PollInv, vars
  <2>3. RootInv'
    BY <1>2 DEF IInv, RootInv, vars
  <2>4. MeshInv'
    BY <1>2 DEF IInv, MeshInv, vars
  <2> QED
    BY <2>1, <2>2, <2>3, <2>4 DEF IInv
<1> QED
  BY <1>1, <1>2

\* and it implies both properties.
LEMMA IInvImplies == IInv => OneRoot /\ RemotesAfterPrimary
<1> SUFFICES ASSUME IInv PROVE OneRoot /\ RemotesAfterPrimary
  OBVIOUS
<1>1. TypeInv /\ RootInv /\ MeshInv
  BY DEF IInv
<1>2. TypeOK
  <2>1. Range(endpoints) \subseteq Clusters
    BY <1>1 DEF TypeInv, Range
  <2> QED
    BY <1>1, <2>1 DEF TypeInv, TypeOK
<1>3. ASSUME NEW c \in Clusters, rootIn[c] # 0 PROVE rootIn[c] = 1
  BY <1>1, <1>3 DEF TypeInv
<1>4. OneRoot
  BY <1>2, <1>3 DEF OneRoot
<1>5. ASSUME NEW c \in Range(Remotes), <<"remote iop", c, "placed">> \in world
      PROVE  /\ {<<"iop", Primary, "ready">>, <<"iop", Primary, "addressed">>} \subseteq world
             /\ rootIn[c] # 0
  <2>1. c \in Clusters
    BY RemotesAre DEF Range
  <2>2. Required(c) \subseteq world
    BY <1>1, <1>5, <2>1 DEF MeshInv
  <2>3. rootIn[c] # 0
    BY <1>1, <2>1, <2>2 DEF RootInv, Required
  <2> QED
    BY <2>2, <2>3 DEF Required, PrimaryUp
<1> QED
  BY <1>4, <1>5 DEF RemotesAfterPrimary

\* Every cluster is a member.
LEMMA MembersCover == \A c \in Clusters : \E i \in 1..Len(Members) : Members[i] = c
BY MembersAre DEF Clusters, Range

\* Counting a set by taking its elements out one by one, which is what Cardinality does.
Count(S) ==
  LET CS[T \in SUBSET S] == IF T = {} THEN 0 ELSE 1 + CS[T \ {CHOOSE x : x \in T}]
  IN  CS[S]

\* Where there is a list without repetitions, AsList is one.
LEMMA AsListFrom ==
  ASSUME NEW cs, NEW f \in [1..Count(cs) -> cs], \A i, j \in 1..Count(cs) : f[i] = f[j] => i = j
  PROVE  AsList(cs) \in [1..Count(cs) -> cs]
<1>0. Cardinality(cs) = Count(cs)
  BY DEF Cardinality, Count
<1>1. f \in Injection(1..Cardinality(cs), cs)
  BY <1>0 DEF Injection, IsInjective
<1>2. AsList(cs) \in Injection(1..Cardinality(cs), cs)
  BY <1>1 DEF AsList
<1> QED
  BY <1>0, <1>2 DEF Injection

-----------------------------------------------------------------------------
(* 10. What the library is needed for: induction, and the number of clusters; *)
(* and the theorems.                                                          *)
LOCAL INSTANCE FiniteSetTheorems

\* The numbers are well-founded.
LEMMA Least == LeastNumber
<1> SUFFICES ASSUME NEW S \in SUBSET Nat, S # {} PROVE \E i \in S : \A j \in S : i <= j
  BY DEF LeastNumber
<1> DEFINE less == {ij \in Nat \X Nat : ij[1] < ij[2]}
<1>1. IsWellFoundedOn(less, Nat)
  BY NatLessThanWellFounded DEF OpToRel
<1>2. \A i, j \in Nat : <<j, i>> \notin less => i <= j
  OBVIOUS
<1> HIDE DEF less
<1>3. PICK i \in S : \A j \in S : ~(<<j, i>> \in less)
  BY <1>1, WFMin
<1> QED
  BY <1>2, <1>3

\* There are no more clusters than members.
LEMMA ClustersAre == IsFiniteSet(Clusters) /\ Cardinality(Clusters) \in Nat /\ Cardinality(Clusters) <= Len(Members)
<1> DEFINE n == Len(Members)
<1>1. n \in Nat /\ DOMAIN Members = 1..n
  BY MembersAre
<1>2. Members \in [1..n -> Clusters]
  BY MembersAssumption
<1>3. \A c \in Clusters : \E i \in 1..n : Members[i] = c
  BY MembersCover
<1> HIDE DEF n
<1>4. ExistsSurjection(1..n, Clusters)
  BY <1>2, <1>3 DEF ExistsSurjection, Surjection
<1>5. IsFiniteSet(Clusters)
  BY <1>1, <1>4, FS_NatSurjection
<1> QED
  BY <1>1, <1>4, <1>5, FS_SurjCardinalityBound, FS_CardinalityType DEF n

\* A list of some of the clusters is as long as they are many.
LEMMA ListsAreShort == ShortLists
<1> SUFFICES ASSUME NEW cs \in SUBSET Clusters
             PROVE  /\ AsList(cs) \in Seq(Clusters) /\ Len(AsList(cs)) \in Nat /\ Len(AsList(cs)) <= Len(Members)
                    /\ Primary \notin cs => Len(AsList(cs)) <= Len(Members) - 1
  BY DEF ShortLists
<1> DEFINE n == Cardinality(cs)
<1>1. IsFiniteSet(cs) /\ n <= Cardinality(Clusters)
  BY ClustersAre, FS_Subset
<1>2. n \in Nat /\ ExistsBijection(1..n, cs)
  BY <1>1, FS_CardinalityType
<1>3. PICK f : f \in Injection(1..n, cs)
  BY <1>2 DEF ExistsBijection, Bijection
<1>4. f \in [1..n -> cs] /\ \A i, j \in 1..n : f[i] = f[j] => i = j
  BY <1>3 DEF Injection, IsInjective
<1>5. AsList(cs) \in [1..n -> cs]
  <2>1. n = Count(cs)
    BY DEF Cardinality, Count
  <2> HIDE DEF n
  <2> QED
    BY <1>4, <2>1, AsListFrom
<1>6. AsList(cs) \in Seq(Clusters) /\ Len(AsList(cs)) = n
  <2> DEFINE s == AsList(cs)
  <2>1. s \in [1..n -> Clusters]
    BY <1>5
  <2> HIDE DEF s, n
  <2> QED
    BY <1>2, <2>1 DEF s
<1>7. ASSUME Primary \notin cs PROVE n <= Len(Members) - 1
  <2>1. cs \in SUBSET (Clusters \ {Primary})
    BY <1>7
  <2>2. IsFiniteSet(Clusters \ {Primary}) /\ Cardinality(Clusters \ {Primary}) = Cardinality(Clusters) - 1
    BY ClustersAre, Places, FS_RemoveElement
  <2>3. n <= Cardinality(Clusters \ {Primary})
    BY <2>1, <2>2, FS_Subset
  <2> HIDE DEF n
  <2> QED
    BY <1>2, <2>2, <2>3, ClustersAre, MembersAre
<1>8. n <= Len(Members)
  <2> HIDE DEF n
  <2> QED
    BY <1>1, <1>2, ClustersAre, MembersAre
<1> HIDE DEF n
<1> QED
  BY <1>2, <1>6, <1>7, <1>8

\* However often an installation of Istio is broken off and started again, in a dry
\* run or not, one root is made, and every cluster that has certificates has that
\* one (createIstioCacerts asks for the secret before it makes another).
THEOREM OneRootAlways == Spec => []OneRoot
<1>1. IInv /\ [Next]_vars => IInv'
  BY Least, ListsAreShort, NextIInv
<1>2. Init => IInv
  BY Least, InitIInv
<1> QED
  BY <1>1, <1>2, IInvImplies, PTL DEF Spec

\* A remote control plane is started only when the primary is ready and has an
\* address, and the cluster has its certificates (the waits of installControlPlane,
\* remotePilotAddress and waitSecertReady).
THEOREM RemotesWait == Spec => []RemotesAfterPrimary
<1>1. IInv /\ [Next]_vars => IInv'
  BY Least, ListsAreShort, NextIInv
<1>2. Init => IInv
  BY Least, InitIInv
<1> QED
  BY <1>1, <1>2, IInvImplies, PTL DEF Spec
=============================================================================

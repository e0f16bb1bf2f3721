---------------------------- MODULE Fleet_proofs ----------------------------
(***************************************************************************)
(* Proofs about Fleet, for any clusters and any number of edits and mishaps. *)
(***************************************************************************)
EXTENDS Fleet, FiniteSetTheorems, TLAPS

-----------------------------------------------------------------------------
(* Types. *)

\* A set of clusters has no more elements than there are clusters.
LEMMA CountType ==
  ASSUME NEW S, S \subseteq Cluster
  PROVE  Cardinality(S) \in 0..Cardinality(Cluster)
<1>1. IsFiniteSet(S) /\ Cardinality(S) <= Cardinality(Cluster)
  BY ClusterAssumption, FS_Subset
<1>2. Cardinality(S) \in Nat /\ Cardinality(Cluster) \in Nat
  BY <1>1, ClusterAssumption, FS_CardinalityType
<1> QED BY <1>1, <1>2

\* What EndReconcile leaves of types.
LEMMA EndTypes ==
  ASSUME TypeOK,
         NEW cut \in BOOLEAN, NEW error \in BOOLEAN, NEW w \in Patch, NEW p \in FleetPhase,
         NEW n \in 0..Cardinality(Cluster),
         EndReconcile(cut, error, w, p, n)
  PROVE  /\ queued' \in BOOLEAN
         /\ phase' \in FleetPhase
         /\ readyClusters' \in 0..Cardinality(Cluster)
         /\ mishaps' \in Nat
<1>1. queued' \in BOOLEAN
  BY DEF EndReconcile
<1>2. phase' \in FleetPhase
  BY DEF EndReconcile, TypeOK
<1>3. readyClusters' \in 0..Cardinality(Cluster)
  BY DEF EndReconcile, TypeOK
<1>4. mishaps' \in Nat
  BY DEF EndReconcile, TypeOK
<1> QED BY <1>1, <1>2, <1>3, <1>4

\* The phase a call starts with is one of the API's.
LEMMA StartType == TypeOK => startPhase \in FleetPhase
BY DEF TypeOK, startPhase, FleetPhase

\* reconcileControlPlane keeps the types, after each of its three writes.
LEMMA ControlPlaneTypes ==
  ASSUME TypeOK, NEW w \in Patch, NEW done \in 0..3, reconcileControlPlane(w, done)
  PROVE  TypeOK'
<1> DEFINE cut == done < 3
           error == FALSE
           p == IF done < 3 THEN "Failed" ELSE "Running"
           n == readyClusters
<1>1. cut \in BOOLEAN /\ error \in BOOLEAN /\ p \in FleetPhase /\ n \in 0..Cardinality(Cluster)
  <2>1. cut \in BOOLEAN /\ error \in BOOLEAN
    OBVIOUS
  <2>2. p \in FleetPhase
    BY DEF FleetPhase
  <2>3. n \in 0..Cardinality(Cluster)
    BY DEF TypeOK
  <2> QED BY <2>1, <2>2, <2>3
<1>2. EndReconcile(cut, error, w, p, n)
  BY DEF reconcileControlPlane
<1> HIDE DEF cut, error, p, n
<1>3. queued' \in BOOLEAN /\ phase' \in FleetPhase /\ readyClusters' \in 0..Cardinality(Cluster) /\ mishaps' \in Nat
  BY <1>1, <1>2, EndTypes
<1>4. finalizer' \in BOOLEAN /\ sa' \in BOOLEAN
  BY DEF TypeOK, reconcileControlPlane, AddFinalizer
<1>5. subjects' \in Nat /\ initPod' \in PodPhase
  BY DEF TypeOK, reconcileControlPlane, PodPhase
<1>6. /\ UNCHANGED <<controlplane, exists, deletionTimestamp, deletePod, labeled>>
      /\ UNCHANGED <<specClusters, object, ready, reachable, attachedQueue, karmada, members, edits>>
  BY DEF reconcileControlPlane
<1> QED BY <1>3, <1>4, <1>5, <1>6 DEF TypeOK

\* A call that waits for the init pod keeps the types.
LEMMA WaitTypes ==
  ASSUME TypeOK, NEW w \in Patch, reconcileWait(w)
  PROVE  TypeOK'
<1> DEFINE cut == FALSE
           error == FALSE
           p == startPhase
           n == readyClusters
<1>1. cut \in BOOLEAN /\ error \in BOOLEAN /\ p \in FleetPhase /\ n \in 0..Cardinality(Cluster)
  BY StartType DEF TypeOK
<1>2. EndReconcile(cut, error, w, p, n)
  BY DEF reconcileWait
<1> HIDE DEF cut, error, p, n
<1>3. queued' \in BOOLEAN /\ phase' \in FleetPhase /\ readyClusters' \in 0..Cardinality(Cluster) /\ mishaps' \in Nat
  BY <1>1, <1>2, EndTypes
<1>4. finalizer' \in BOOLEAN
  BY DEF TypeOK, reconcileWait, AddFinalizer
<1>5. /\ UNCHANGED <<controlplane, exists, deletionTimestamp, labeled, podVars>>
      /\ UNCHANGED <<specClusters, object, ready, reachable, attachedQueue, karmada, members, edits>>
  BY DEF reconcileWait
<1> QED BY <1>3, <1>4, <1>5 DEF TypeOK, podVars

\* reconcileClusters keeps the types; the count it stores is one of clusters.
LEMMA ClustersTypes ==
  ASSUME TypeOK, NEW w \in Patch,
         NEW L \in SUBSET toLabel, NEW J \in SUBSET (toJoin \cap reachable),
         NEW U \in SUBSET (leavers \cap members), NEW V \in SUBSET leavers,
         reconcileClusters(w, L, J, U, V)
  PROVE  TypeOK'
<1> DEFINE joined == L = toLabel /\ J = toJoin /\ ~joinBlocked
           cut == \/ L # toLabel
                  \/ ~joinBlocked /\ J # toJoin
                  \/ joined /\ ~unjoinBlocked /\ V # leavers
           complete == joined /\ V = leavers
           error == ~complete \/ BuildFails
           n == IF L = toLabel THEN Cardinality(specClusters \cap There \cap ready) ELSE readyClusters
           p == "Ready"
<1>1. cut \in BOOLEAN /\ error \in BOOLEAN /\ p \in FleetPhase
  BY DEF FleetPhase, BuildFails
<1>2. n \in 0..Cardinality(Cluster)
  <2>1. specClusters \cap There \cap ready \subseteq Cluster
    BY DEF There
  <2>2. Cardinality(specClusters \cap There \cap ready) \in 0..Cardinality(Cluster)
    BY <2>1, CountType
  <2> QED BY <2>2 DEF TypeOK
<1>3. EndReconcile(cut, error, w, p, n)
  BY DEF reconcileClusters
<1> HIDE DEF cut, error, p, n
<1>4. queued' \in BOOLEAN /\ phase' \in FleetPhase /\ readyClusters' \in 0..Cardinality(Cluster) /\ mishaps' \in Nat
  BY <1>1, <1>2, <1>3, EndTypes
<1>5. finalizer' \in BOOLEAN
  BY DEF TypeOK, reconcileClusters, AddFinalizer
<1>6. L \subseteq Cluster /\ J \subseteq Cluster /\ V \subseteq Cluster
  BY DEF toLabel, toJoin, leavers, There, TypeOK
<1>7. labeled' \subseteq Cluster /\ members' \subseteq Cluster /\ attachedQueue' \subseteq Cluster
  BY <1>6 DEF TypeOK, reconcileClusters
<1>8. /\ UNCHANGED <<controlplane, exists, deletionTimestamp, podVars>>
      /\ UNCHANGED <<specClusters, object, ready, reachable, karmada, edits>>
  BY DEF reconcileClusters
<1> QED BY <1>4, <1>5, <1>7, <1>8 DEF TypeOK, podVars

\* reconcileDelete keeps the types.
LEMMA DeleteTypes ==
  ASSUME TypeOK, NEW w \in Patch, NEW V \in SUBSET toUnlabel, NEW done \in BOOLEAN,
         reconcileDelete(w, V, done)
  PROVE  TypeOK'
<1> DEFINE unlabeled == V = toUnlabel
           create == controlplane /\ unlabeled /\ deletePod = "None"
           unbind == controlplane /\ unlabeled /\ deletePod = "Succeeded"
           refused == create /\ ~sa
           removed == Terminated(unlabeled, done) /\ w.meta
           cut == ~unlabeled \/ (~done /\ ((create /\ ~refused) \/ unbind))
           p == IF Terminated(unlabeled, done) THEN "TerminateSucceeded"
                ELSE IF controlplane /\ unlabeled /\ deletePod = "Failed" THEN "TerminateFailed"
                ELSE "Terminating"
           n == readyClusters
<1>1. cut \in BOOLEAN /\ refused \in BOOLEAN
  BY DEF TypeOK
<1>2. p \in FleetPhase /\ n \in 0..Cardinality(Cluster)
  BY DEF FleetPhase, TypeOK
<1>3. EndReconcile(cut, refused, w, p, n)
  BY DEF reconcileDelete
<1>4. finalizer' \in BOOLEAN /\ exists' \in BOOLEAN /\ sa' \in BOOLEAN
  BY DEF TypeOK, reconcileDelete
<1>5. subjects' \in Nat
  BY DEF TypeOK, reconcileDelete
<1>6. initPod' \in PodPhase /\ deletePod' \in PodPhase
  BY DEF TypeOK, reconcileDelete, PodPhase
<1> HIDE DEF cut, refused, p, n
<1>7. queued' \in BOOLEAN /\ phase' \in FleetPhase /\ readyClusters' \in 0..Cardinality(Cluster) /\ mishaps' \in Nat
  BY <1>1, <1>2, <1>3, EndTypes
<1>8. labeled' \subseteq Cluster /\ attachedQueue' \subseteq Cluster
  BY DEF TypeOK, reconcileDelete, toUnlabel
<1>9. UNCHANGED <<controlplane, deletionTimestamp, specClusters, object, ready, reachable, karmada, members, edits>>
  BY DEF reconcileDelete
<1> QED BY <1>4, <1>5, <1>6, <1>7, <1>8, <1>9 DEF TypeOK

\* The AttachedCluster controller keeps the types.
LEMMA AttachedTypes ==
  ASSUME TypeOK, NEW c \in Cluster, NEW patched \in BOOLEAN, reconcileAttached(c, patched)
  PROVE  TypeOK'
<1>1. mishaps' \in Nat
  BY DEF TypeOK, reconcileAttached
<1>2. queued' \in BOOLEAN
  BY DEF TypeOK, reconcileAttached
<1>3. ready' \subseteq Cluster /\ attachedQueue' \subseteq Cluster
  BY DEF TypeOK, reconcileAttached
<1>4. UNCHANGED <<fleetVars, specClusters, object, labeled, reachable, podVars, karmada, members, edits>>
  BY DEF reconcileAttached
<1> QED BY <1>1, <1>2, <1>3, <1>4 DEF TypeOK, fleetVars, podVars

\* The pods keep the types.
LEMMA PodTypes ==
  ASSUME TypeOK, InitProgresses \/ InitSucceeds \/ InitFails \/ DeinitSucceeds \/ DeinitFails \/ DeleteFailedPod
  PROVE  TypeOK'
<1> USE DEF fleetVars, clusterVars, podVars, bounds
<1>1. CASE InitProgresses
  BY <1>1 DEF TypeOK, InitProgresses
<1>2. CASE InitSucceeds
  BY <1>2 DEF TypeOK, InitSucceeds, PodPhase
<1>3. CASE InitFails
  BY <1>3 DEF TypeOK, InitFails, PodPhase
<1>4. CASE DeinitSucceeds
  BY <1>4 DEF TypeOK, DeinitSucceeds, PodPhase
<1>5. CASE DeinitFails
  BY <1>5 DEF TypeOK, DeinitFails, PodPhase
<1>6. CASE DeleteFailedPod
  BY <1>6 DEF TypeOK, DeleteFailedPod, PodPhase
<1> QED BY <1>1, <1>2, <1>3, <1>4, <1>5, <1>6

\* Users, operators and clusters keep the types.
LEMMA UserTypes ==
  ASSUME TypeOK,
         DeleteFleet \/ \E c \in Cluster :
           EditClusters(c) \/ CreateCluster(c) \/ DeleteCluster(c) \/ ClusterDown(c) \/ ClusterUp(c)
  PROVE  TypeOK'
<1> USE DEF fleetVars, clusterVars, podVars, bounds
<1>1. CASE DeleteFleet
  <2>1. exists' \in BOOLEAN /\ sa' \in BOOLEAN /\ deletionTimestamp' \in BOOLEAN /\ queued' \in BOOLEAN
    BY <1>1 DEF TypeOK, DeleteFleet
  <2>2. initPod' \in PodPhase
    BY <1>1 DEF TypeOK, DeleteFleet, PodPhase
  <2> QED BY <1>1, <2>1, <2>2 DEF TypeOK, DeleteFleet
<1>2. ASSUME NEW c \in Cluster, EditClusters(c) PROVE TypeOK'
  BY <1>2 DEF TypeOK, EditClusters
<1>3. ASSUME NEW c \in Cluster, CreateCluster(c) PROVE TypeOK'
  BY <1>3 DEF TypeOK, CreateCluster
<1>4. ASSUME NEW c \in Cluster, DeleteCluster(c) PROVE TypeOK'
  <2>1. queued' \in BOOLEAN
    BY <1>4 DEF TypeOK, DeleteCluster, objectToFleetFunc
  <2>2. mishaps' \in Nat
    BY <1>4 DEF TypeOK, DeleteCluster
  <2>3. object' \in [Cluster -> {"NotYet", "There", "Gone"}]
    BY <1>4 DEF TypeOK, DeleteCluster
  <2> QED BY <1>4, <2>1, <2>2, <2>3 DEF TypeOK, DeleteCluster
<1>5. ASSUME NEW c \in Cluster, ClusterDown(c) PROVE TypeOK'
  BY <1>5 DEF TypeOK, ClusterDown
<1>6. ASSUME NEW c \in Cluster, ClusterUp(c) PROVE TypeOK'
  BY <1>6 DEF TypeOK, ClusterUp
<1> QED BY <1>1, <1>2, <1>3, <1>4, <1>5, <1>6

\* Every step keeps the types.
LEMMA StepTypes ==
  ASSUME TypeOK, [Next]_vars
  PROVE  TypeOK'
<1>1. CASE reconcileGone
  BY <1>1 DEF TypeOK, reconcileGone, fleetVars, clusterVars, podVars, bounds
<1>2. CASE Environment
  BY <1>2, PodTypes, UserTypes DEF Environment
<1>3. CASE UNCHANGED vars
  BY <1>3 DEF TypeOK, vars, fleetVars, clusterVars, podVars, bounds
<1> QED BY <1>1, <1>2, <1>3, ControlPlaneTypes, WaitTypes, ClustersTypes, DeleteTypes, AttachedTypes DEF Next, Reconcile
-----------------------------------------------------------------------------
(* Members and labels. *)

\* MemberIsLabelled alone is not inductive: without a control plane labels are
\* removed and nothing is unjoined, so there must be no members then, and a cluster
\* that is created must not be a member already.
MemberInv ==
  /\ MemberIsLabelled
  /\ labeled \subseteq There
  /\ ~controlplane => members = {}
  /\ \A c \in members : object[c] # "NotYet"

memberVars == <<members, labeled, object, controlplane, exists, deletionTimestamp>>

\* The steps that MemberInv can tell from stuttering.
LEMMA MemberSteps ==
  ASSUME [Next]_vars
  PROVE  \/ \E L \in SUBSET toLabel, J \in SUBSET (toJoin \cap reachable),
               U \in SUBSET (leavers \cap members), V \in SUBSET leavers :
              \E w \in Patch : reconcileClusters(w, L, J, U, V)
         \/ \E w \in Patch : \E V \in SUBSET toUnlabel : \E done \in BOOLEAN : reconcileDelete(w, V, done)
         \/ DeinitSucceeds \/ DeleteFleet
         \/ \E c \in Cluster : CreateCluster(c) \/ DeleteCluster(c)
         \/ UNCHANGED memberVars
<1> USE DEF memberVars, fleetVars, clusterVars, podVars, bounds
<1>1. CASE Reconcile
  BY <1>1 DEF Reconcile, reconcileControlPlane, reconcileWait, reconcileGone
<1>2. ASSUME NEW c \in Cluster, NEW patched \in BOOLEAN, reconcileAttached(c, patched) PROVE UNCHANGED memberVars
  BY <1>2 DEF reconcileAttached
<1>3. CASE Environment
  BY <1>3 DEF Environment, InitProgresses, InitSucceeds, InitFails, DeinitFails, DeleteFailedPod, EditClusters,
              ClusterDown, ClusterUp
<1>4. CASE UNCHANGED vars
  BY <1>4 DEF vars
<1> QED BY <1>1, <1>2, <1>3, <1>4 DEF Next

\* A call that joins has labelled before, and one that removes a label has
\* unjoined before, however far it got.
LEMMA MemberClusters ==
  ASSUME MemberInv, TypeOK', NEW w \in Patch,
         NEW L \in SUBSET toLabel, NEW J \in SUBSET (toJoin \cap reachable),
         NEW U \in SUBSET (leavers \cap members), NEW V \in SUBSET leavers,
         reconcileClusters(w, L, J, U, V)
  PROVE  MemberInv'
<1>1. /\ labeled' = (labeled \cup L) \ V
      /\ members' = (members \cup J) \ U
      /\ UNCHANGED <<object, controlplane, exists, deletionTimestamp>>
      /\ InOrder(L, J, U, V)
      /\ exists /\ ~deletionTimestamp
  BY DEF reconcileClusters, Normal
<1>2. There' = There
  BY <1>1 DEF There
<1>3. L \subseteq There /\ J \subseteq specClusters \cap There
  BY DEF toLabel, toJoin
<1>4. labeled' \subseteq There'
  BY <1>1, <1>2, <1>3 DEF MemberInv
<1>5. ~controlplane => members' = {}
  BY <1>1 DEF MemberInv, toJoin
<1>6. \A c \in members' : object[c] # "NotYet"
  BY <1>1, <1>3 DEF MemberInv, There
<1>7. members' \cap There' \subseteq labeled'
  <2> SUFFICES ASSUME NEW c \in members', c \in There PROVE c \in labeled'
    BY <1>2
  <2>1. controlplane
    BY <1>5
  <2>2. V \subseteq U
    BY <1>1, <2>1 DEF InOrder
  <2>3. CASE c \in J
    <3>1. L = toLabel
      BY <1>1, <2>3 DEF InOrder
    <3>2. c \in labeled \cup L /\ c \notin V
      BY <1>3, <2>3, <3>1 DEF toLabel, leavers
    <3> QED BY <1>1, <3>2
  <2>4. CASE c \notin J
    BY <1>1, <2>2, <2>4 DEF MemberInv, MemberIsLabelled
  <2> QED BY <2>3, <2>4
<1> QED BY <1>1, <1>4, <1>5, <1>6, <1>7 DEF MemberInv, MemberIsLabelled

\* Every step keeps MemberInv.
LEMMA MemberStep == MemberInv /\ [Next]_vars => MemberInv'
<1> SUFFICES ASSUME MemberInv, [Next]_vars PROVE MemberInv'
  OBVIOUS
<1>T. TypeOK /\ TypeOK'
  BY StepTypes DEF MemberInv, MemberIsLabelled
<1> USE DEF fleetVars, clusterVars, podVars, bounds
<1>1. ASSUME NEW w \in Patch, NEW V \in SUBSET toUnlabel, NEW done \in BOOLEAN, reconcileDelete(w, V, done)
      PROVE  MemberInv'
  <2>1. /\ deletionTimestamp' /\ labeled' \subseteq labeled
        /\ UNCHANGED <<object, controlplane, members>>
    BY <1>1 DEF reconcileDelete
  <2> QED BY <1>T, <2>1 DEF MemberInv, MemberIsLabelled, There
<1>2. CASE DeinitSucceeds
  BY <1>T, <1>2 DEF MemberInv, MemberIsLabelled, There, DeinitSucceeds
<1>3. CASE DeleteFleet
  BY <1>T, <1>3 DEF MemberInv, MemberIsLabelled, There, DeleteFleet
<1>4. ASSUME NEW c \in Cluster, CreateCluster(c) PROVE MemberInv'
  <2>1. /\ object[c] = "NotYet" /\ object' = [object EXCEPT ![c] = "There"]
        /\ UNCHANGED <<members, labeled, controlplane, exists, deletionTimestamp>>
    BY <1>4 DEF CreateCluster
  <2>2. There' = There \cup {c}
    BY <1>T, <2>1 DEF There, TypeOK
  <2>3. c \notin members
    BY <2>1 DEF MemberInv
  <2>4. \A d \in members' : object'[d] # "NotYet"
    BY <1>T, <2>1 DEF MemberInv, TypeOK
  <2> QED BY <1>T, <2>1, <2>2, <2>3, <2>4 DEF MemberInv, MemberIsLabelled
<1>5. ASSUME NEW c \in Cluster, DeleteCluster(c) PROVE MemberInv'
  <2>1. /\ object' = [object EXCEPT ![c] = "Gone"] /\ labeled' = labeled \ {c}
        /\ UNCHANGED <<members, controlplane, exists, deletionTimestamp>>
    BY <1>5 DEF DeleteCluster
  <2>2. There' = There \ {c}
    BY <1>T, <2>1 DEF There, TypeOK
  <2>3. \A d \in members' : object'[d] # "NotYet"
    BY <1>T, <2>1 DEF MemberInv, TypeOK
  <2> QED BY <1>T, <2>1, <2>2, <2>3 DEF MemberInv, MemberIsLabelled
<1>6. CASE UNCHANGED memberVars
  BY <1>T, <1>6 DEF MemberInv, MemberIsLabelled, There, memberVars
<1> QED BY <1>T, <1>1, <1>2, <1>3, <1>4, <1>5, <1>6, MemberSteps, MemberClusters

\* The initial states.
LEMMA InitInv == Init => MemberInv
<1> SUFFICES ASSUME Init PROVE MemberInv
  OBVIOUS
<1>1. 0 \in 0..Cardinality(Cluster)
  BY ClusterAssumption, FS_CardinalityType
<1>2. object \in [Cluster -> {"NotYet", "There", "Gone"}]
  BY DEF Init
<1>3. {exists, deletionTimestamp, finalizer, controlplane, sa, karmada, queued} \subseteq BOOLEAN
  BY DEF Init
<1>4. \A S \in {specClusters, labeled, ready, reachable, attachedQueue, members} : S \subseteq Cluster
  BY DEF Init
<1>5. {subjects, edits, mishaps} \subseteq Nat
  <2>1. subjects \in Nat /\ edits \in Nat /\ mishaps \in Nat
    BY BoundAssumption DEF Init
  <2> QED BY <2>1
<1>6. TypeOK
  BY <1>1, <1>2, <1>3, <1>4, <1>5 DEF Init, TypeOK, FleetPhase, PodPhase
<1> QED BY <1>6 DEF Init, MemberInv, MemberIsLabelled

\* MemberIsLabelled, from MemberInv: the label that reconcileClusters goes by to
\* find clusters that have left the spec is on every member, wherever calls stop.
THEOREM MembersLabelled == Spec => []MemberIsLabelled
<1>1. Spec => []MemberInv
  BY InitInv, MemberStep, PTL DEF Spec
<1>2. MemberInv => MemberIsLabelled
  BY DEF MemberInv
<1> QED BY <1>1, <1>2, PTL
-----------------------------------------------------------------------------
(* Wake-ups. *)

\* A call that ends with nothing due has changed nothing: every label, join and
\* unjoin was done before, and the phase and the count were stored before.
LEMMA ForgetClusters ==
  ASSUME TypeOK, NEW w \in Patch,
         NEW L \in SUBSET toLabel, NEW J \in SUBSET (toJoin \cap reachable),
         NEW U \in SUBSET (leavers \cap members), NEW V \in SUBSET leavers,
         reconcileClusters(w, L, J, U, V)
  PROVE  NothingForgotten'
<1> SUFFICES ASSUME ~queued'
             PROVE  /\ phase' = "Ready" /\ labeled' = specClusters'
                    /\ controlplane' => ready' \cap specClusters' \subseteq members'
                    /\ readyClusters' = Cardinality(ready' \cap specClusters')
  BY DEF NothingForgotten
<1> DEFINE joined == L = toLabel /\ J = toJoin /\ ~joinBlocked
           complete == joined /\ V = leavers
           count == IF L = toLabel THEN Cardinality(specClusters \cap There \cap ready) ELSE readyClusters
<1>1. /\ w.meta /\ w.status
      /\ complete /\ ~BuildFails
      /\ phase' = "Ready" /\ readyClusters' = count
      /\ labeled' = labeled
  BY DEF reconcileClusters, EndReconcile, fleetVars
<1>2. /\ labeled' = (labeled \cup L) \ V
      /\ members' = (members \cup J) \ U
      /\ UNCHANGED <<specClusters, ready, controlplane>>
  BY DEF reconcileClusters
<1>3. V = {} /\ L = {}
  BY <1>1, <1>2 DEF leavers, toLabel
<1>4. labeled = specClusters /\ specClusters \subseteq There
  BY <1>1, <1>3 DEF leavers, toLabel, BuildFails
<1>5. U = {}
  BY <1>1, <1>3
<1>6. controlplane => ready \cap specClusters \subseteq members'
  BY <1>1, <1>2, <1>4, <1>5 DEF toJoin
<1>7. specClusters \cap There \cap ready = ready \cap specClusters
  BY <1>4
<1>8. count = Cardinality(ready \cap specClusters)
  BY <1>1, <1>7
<1> QED BY <1>1, <1>2, <1>4, <1>6, <1>8

\* The other calls of the fleet.
LEMMA ForgetOthers ==
  ASSUME TypeOK, NEW w \in Patch,
         \/ \E done \in 0..3 : reconcileControlPlane(w, done)
         \/ reconcileWait(w)
         \/ \E V \in SUBSET toUnlabel : \E done \in BOOLEAN : reconcileDelete(w, V, done)
  PROVE  NothingForgotten'
<1>1. ASSUME NEW done \in 0..3, reconcileControlPlane(w, done) PROVE queued'
  <2>1. CASE done < 3
    BY <1>1, <2>1 DEF reconcileControlPlane, EndReconcile
  <2>2. CASE ~(done < 3)
    <3>1. done = 3
      BY <2>2
    <3>2. initPod' # initPod
      BY <1>1, <3>1 DEF reconcileControlPlane
    <3> QED BY <1>1, <3>2 DEF reconcileControlPlane, EndReconcile
  <2> QED BY <2>1, <2>2
<1>2. ASSUME reconcileWait(w), ~queued' PROVE phase' # "Ready" /\ initPod' \in {"Running", "Failed"}
  <2>1. w.meta /\ w.status /\ finalizer' = finalizer
    BY <1>2 DEF reconcileWait, EndReconcile, fleetVars
  <2>2. finalizer
    <3>1. finalizer \in BOOLEAN
      BY DEF TypeOK
    <3>2. finalizer = (finalizer \/ w.meta)
      BY <1>2, <2>1 DEF reconcileWait, AddFinalizer
    <3> QED BY <2>1, <3>1, <3>2
  <2> QED BY <1>2, <2>1, <2>2 DEF reconcileWait, EndReconcile, startPhase, podVars
<1>3. ASSUME NEW V \in SUBSET toUnlabel, NEW done \in BOOLEAN, reconcileDelete(w, V, done) PROVE deletionTimestamp'
  BY <1>3 DEF reconcileDelete
<1> QED BY <1>1, <1>2, <1>3 DEF NothingForgotten

\* A cluster wakes the fleet when its readiness changes or it is lost, by the
\* label, which is on all clusters of the spec while nothing is due.
LEMMA ForgetEvents ==
  ASSUME TypeOK, NothingForgotten,
         \/ \E c \in Cluster : \E patched \in BOOLEAN : reconcileAttached(c, patched)
         \/ Environment
  PROVE  NothingForgotten'
<1> USE DEF fleetVars, clusterVars, podVars, bounds
<1>1. ASSUME NEW c \in Cluster, NEW patched \in BOOLEAN, reconcileAttached(c, patched) PROVE NothingForgotten'
  <2> SUFFICES ASSUME exists', ~deletionTimestamp', ~queued', phase' = "Ready" \/ initPod' \notin {"Running", "Failed"}
               PROVE  /\ phase' = "Ready" /\ labeled' = specClusters'
                      /\ controlplane' => ready' \cap specClusters' \subseteq members'
                      /\ readyClusters' = Cardinality(ready' \cap specClusters')
    BY DEF NothingForgotten
  <2>1. UNCHANGED <<fleetVars, specClusters, labeled, podVars, members>>
    BY <1>1 DEF reconcileAttached
  <2>2. ~queued /\ (ready' = ready \/ c \notin labeled)
    BY <1>1 DEF reconcileAttached, objectToFleetFunc
  <2>3. /\ phase = "Ready" /\ labeled = specClusters
        /\ controlplane => ready \cap specClusters \subseteq members
        /\ readyClusters = Cardinality(ready \cap specClusters)
    BY <2>1, <2>2 DEF NothingForgotten
  <2>4. ready' \cap specClusters = ready \cap specClusters
    BY <1>1, <2>2, <2>3 DEF reconcileAttached
  <2> QED BY <2>1, <2>3, <2>4
<1>2. ASSUME NEW c \in Cluster, DeleteCluster(c) PROVE NothingForgotten'
  <2> SUFFICES ASSUME exists', ~deletionTimestamp', ~queued', phase' = "Ready" \/ initPod' \notin {"Running", "Failed"}
               PROVE  /\ phase' = "Ready" /\ labeled' = specClusters'
                      /\ controlplane' => ready' \cap specClusters' \subseteq members'
                      /\ readyClusters' = Cardinality(ready' \cap specClusters')
    BY DEF NothingForgotten
  <2>1. UNCHANGED <<fleetVars, specClusters, podVars, members>>
    BY <1>2 DEF DeleteCluster
  <2>2. ~queued /\ c \notin labeled
    BY <1>2 DEF DeleteCluster, objectToFleetFunc
  <2>3. /\ phase = "Ready" /\ labeled = specClusters
        /\ controlplane => ready \cap specClusters \subseteq members
        /\ readyClusters = Cardinality(ready \cap specClusters)
    BY <2>1, <2>2 DEF NothingForgotten
  <2>4. ready' \cap specClusters = ready \cap specClusters /\ labeled' = labeled
    BY <1>2, <2>2, <2>3 DEF DeleteCluster
  <2> QED BY <2>1, <2>3, <2>4
<1>3. ASSUME InitSucceeds \/ InitFails \/ DeinitSucceeds \/ DeinitFails \/ DeleteFailedPod \/ DeleteFleet
             \/ \E c \in Cluster : EditClusters(c)
      PROVE  queued'
  BY <1>3 DEF InitSucceeds, InitFails, DeinitSucceeds, DeinitFails, DeleteFailedPod, DeleteFleet, EditClusters
<1>4. ASSUME InitProgresses \/ \E c \in Cluster : CreateCluster(c) \/ ClusterDown(c) \/ ClusterUp(c)
      PROVE  UNCHANGED <<fleetVars, specClusters, labeled, ready, podVars, members, queued>>
  BY <1>4 DEF InitProgresses, CreateCluster, ClusterDown, ClusterUp
<1>5. ASSUME UNCHANGED <<fleetVars, specClusters, labeled, ready, podVars, members, queued>> PROVE NothingForgotten'
  BY <1>5 DEF NothingForgotten
<1>6. ASSUME queued' PROVE NothingForgotten'
  BY <1>6 DEF NothingForgotten
<1> QED BY <1>1, <1>2, <1>3, <1>4, <1>5, <1>6 DEF Environment

\* NothingForgotten is inductive given the types: no change of a cluster, a pod
\* or the spec that leaves the fleet with something to do is without a wake-up.
THEOREM WakeUpsSuffice == Spec => []NothingForgotten
<1>1. Init => NothingForgotten
  BY DEF Init, NothingForgotten
<1>2. MemberInv /\ NothingForgotten /\ [Next]_vars => NothingForgotten'
  <2> SUFFICES ASSUME MemberInv, NothingForgotten, [Next]_vars PROVE NothingForgotten'
    OBVIOUS
  <2>T. TypeOK
    BY DEF MemberInv, MemberIsLabelled
  <2>1. CASE reconcileGone
    BY <2>1 DEF reconcileGone, NothingForgotten, fleetVars
  <2>2. CASE UNCHANGED vars
    BY <2>2 DEF NothingForgotten, vars, fleetVars, clusterVars, podVars
  <2> QED BY <2>T, <2>1, <2>2, ForgetClusters, ForgetOthers, ForgetEvents DEF Next, Reconcile
<1>3. Spec => []MemberInv
  BY InitInv, MemberStep, PTL DEF Spec
<1> QED BY <1>1, <1>2, <1>3, PTL DEF Spec
-----------------------------------------------------------------------------
(* Deletion, if the fleet is not deleted before its finalizer is there or while *)
(* its init pod runs.                                                        *)

\* AllReleased is not inductive.  Nothing may be installed once the fleet is being
\* deleted, so no init pod may run then; the delete pod must belong to the deletion,
\* and its success must mean that nothing of Karmada is left; and without a control
\* plane there is nothing to remove.
ReleaseInv ==
  /\ ~exists => deletionTimestamp
  /\ deletionTimestamp => initPod # "Running"
  /\ deletePod # "None" => deletionTimestamp
  /\ deletePod = "Succeeded" => ~karmada /\ members = {}
  /\ ~controlplane => initPod = "None" /\ ~karmada
  /\ AllReleased

\* The calls of the controller for a fleet that is not being deleted.
LEMMA ReleaseNormal ==
  ASSUME ReleaseInv, NEW w \in Patch,
         \/ \E done \in 0..3 : reconcileControlPlane(w, done)
         \/ reconcileWait(w)
         \/ \E L, J, U, V : reconcileClusters(w, L, J, U, V)
  PROVE  ReleaseInv'
<1>1. /\ exists /\ ~deletionTimestamp
      /\ UNCHANGED <<exists, deletionTimestamp, controlplane, deletePod, karmada>>
      /\ initPod' = initPod \/ controlplane
  <2>1. CASE \E done \in 0..3 : reconcileControlPlane(w, done)
    BY <2>1 DEF reconcileControlPlane, Normal
  <2>2. CASE reconcileWait(w)
    BY <2>2 DEF reconcileWait, Normal, podVars
  <2>3. CASE \E L, J, U, V : reconcileClusters(w, L, J, U, V)
    BY <2>3 DEF reconcileClusters, Normal, podVars
  <2> QED
    BY <2>1, <2>2, <2>3
<1>2. deletePod = "None"
  BY <1>1 DEF ReleaseInv
<1> QED BY <1>1, <1>2 DEF ReleaseInv, AllReleased

\* The finalizer goes with all labels, and with a control plane only after the
\* delete pod has succeeded.
LEMMA ReleaseDelete ==
  ASSUME ReleaseInv, MemberInv, NEW w \in Patch, NEW V \in SUBSET toUnlabel, NEW done \in BOOLEAN,
         reconcileDelete(w, V, done)
  PROVE  ReleaseInv'
<1>1. /\ exists /\ deletionTimestamp /\ labeled' = labeled \ V
      /\ UNCHANGED <<deletionTimestamp, controlplane, karmada, members, specClusters>>
      /\ initPod' \in {initPod, "None"} /\ deletePod' \in {deletePod, "None", "Running"}
  BY DEF reconcileDelete
<1>2. exists' \/ (V = toUnlabel /\ (controlplane => deletePod = "Succeeded"))
  BY DEF reconcileDelete, Terminated
<1>3. ASSUME ~exists' PROVE ~karmada /\ members = {} /\ labeled' \cap specClusters = {}
  <2>1. V = toUnlabel /\ (controlplane => deletePod = "Succeeded")
    BY <1>2, <1>3
  <2>2. ~karmada /\ members = {}
    BY <2>1 DEF ReleaseInv, MemberInv
  <2>3. labeled' \cap specClusters = {}
    BY <1>1, <2>1 DEF toUnlabel, MemberInv
  <2> QED BY <2>2, <2>3
<1> QED BY <1>1, <1>3 DEF ReleaseInv, AllReleased

\* Pods, users and clusters.
LEMMA ReleaseEvents ==
  ASSUME ~DeleteAnytime, ReleaseInv, MemberInv,
         \/ \E c \in Cluster : \E patched \in BOOLEAN : reconcileAttached(c, patched)
         \/ Environment
  PROVE  ReleaseInv'
<1> USE DEF fleetVars, clusterVars, podVars, bounds
<1>1. CASE InitProgresses
  BY <1>1 DEF InitProgresses, ReleaseInv, AllReleased
<1>2. CASE InitSucceeds
  BY <1>2 DEF InitSucceeds, ReleaseInv, AllReleased
<1>3. CASE InitFails
  BY <1>3 DEF InitFails, ReleaseInv, AllReleased
<1>4. CASE DeinitSucceeds
  BY <1>4 DEF DeinitSucceeds, ReleaseInv, AllReleased
<1>5. CASE DeinitFails
  BY <1>5 DEF DeinitFails, ReleaseInv, AllReleased
<1>6. CASE DeleteFleet
  <2>1. finalizer /\ initPod # "Running" /\ exists /\ deletionTimestamp' = TRUE /\ exists' = finalizer
    BY <1>6 DEF DeleteFleet
  <2>2. initPod' = initPod /\ exists' /\ UNCHANGED <<controlplane, deletePod, karmada, members>>
    BY <1>6, <2>1 DEF DeleteFleet
  <2> QED BY <2>1, <2>2 DEF ReleaseInv, AllReleased
<1>7. CASE DeleteFailedPod
  BY <1>7 DEF DeleteFailedPod, ReleaseInv, AllReleased
<1>8. ASSUME NEW c \in Cluster, EditClusters(c) PROVE ReleaseInv'
  BY <1>8 DEF EditClusters, ReleaseInv, AllReleased
<1>9. ASSUME NEW c \in Cluster,
             \/ \E patched \in BOOLEAN : reconcileAttached(c, patched)
             \/ CreateCluster(c) \/ DeleteCluster(c) \/ ClusterDown(c) \/ ClusterUp(c)
      PROVE  ReleaseInv'
  <2>1. /\ UNCHANGED <<fleetVars, specClusters, podVars, karmada, members>>
        /\ labeled' \subseteq labeled
    BY <1>9 DEF reconcileAttached, CreateCluster, DeleteCluster, ClusterDown, ClusterUp
  <2> QED BY <2>1 DEF ReleaseInv, AllReleased
<1> QED BY <1>1, <1>2, <1>3, <1>4, <1>5, <1>6, <1>7, <1>8, <1>9 DEF Environment

\* AllReleased, if the fleet is not deleted before its finalizer is there or while
\* its init pod runs: when the finalizer is removed nothing of the control
\* plane, no member and no label is left, whatever pods failed and calls stopped.
THEOREM ReleasesAll == ASSUME ~DeleteAnytime PROVE Spec => []AllReleased
<1>1. Init => ReleaseInv
  BY DEF Init, ReleaseInv, AllReleased
<1>2. MemberInv /\ ReleaseInv /\ [Next]_vars => ReleaseInv'
  <2> SUFFICES ASSUME MemberInv, ReleaseInv, [Next]_vars PROVE ReleaseInv'
    OBVIOUS
  <2>1. CASE reconcileGone
    BY <2>1 DEF reconcileGone, ReleaseInv, AllReleased, fleetVars, clusterVars, podVars
  <2>2. CASE UNCHANGED vars
    BY <2>2 DEF ReleaseInv, AllReleased, vars, fleetVars, clusterVars, podVars
  <2> QED BY <2>1, <2>2, ReleaseNormal, ReleaseDelete, ReleaseEvents DEF Next, Reconcile
<1>3. Spec => []MemberInv
  BY InitInv, MemberStep, PTL DEF Spec
<1>4. ReleaseInv => AllReleased
  BY DEF ReleaseInv
<1> QED BY <1>1, <1>2, <1>3, <1>4, PTL DEF Spec
=============================================================================

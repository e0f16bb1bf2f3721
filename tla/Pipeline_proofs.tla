-------------------------- MODULE Pipeline_proofs ---------------------------
(***************************************************************************)
(* Theorems about Pipeline, for any Pipelines with any specs, and all       *)
(* bounds.                                                                  *)
(***************************************************************************)
EXTENDS Pipeline, NaturalsInduction, SequenceTheorems, WellFoundedInduction, TLAPS

-----------------------------------------------------------------------------
(* Facts about the helpers. *)

LEMMA Minimum ==
  ASSUME NEW S \in SUBSET Nat, S # {}
  PROVE  \E i \in S : \A j \in S : i <= j
<1> DEFINE less == {ij \in Nat \X Nat : ij[1] < ij[2]}
<1>1. IsWellFoundedOn(less, Nat)
  BY NatLessThanWellFounded DEF OpToRel
<1>2. \A i, j \in Nat : <<j, i>> \notin less => i <= j
  OBVIOUS
<1> HIDE DEF less
<1>3. PICK i \in S : \A j \in S : ~(<<j, i>> \in less)
  BY <1>1, WFMin
<1> QED
  BY <1>2, <1>3

\* The objects that are applied without a failing call are named after a
\* template or after a custom task.
TaskName == TaskTemplate \cup {t.name : t \in {x \in UNION {Range(s) : s \in Specs} : x.custom # "nil"}}

LEMMA AppliedNames ==
  ASSUME NEW s \in Specs, NEW k \in Nat, k <= Applicable(s), NEW i \in 1..Len(s), i <= k - rbacObjects
  PROVE  taskObject(s[i]) \in TaskName
<1> DEFINE bad == {j \in 1..Len(s) : renderFails(s[j])}
<1>1. s \in Seq(Range(s)) /\ Len(s) \in Nat /\ s[i] \in Range(s)
  BY SpecAssumption
<1>2. ~renderFails(s[i])
  <2>1. CASE bad = {}
    BY <2>1
  <2>2. CASE bad # {}
    <3> DEFINE m == CHOOSE j \in bad : \A l \in bad : j <= l
    <3>1. \E j \in bad : \A l \in bad : j <= l
      <4>1. bad \in SUBSET Nat
        BY <1>1
      <4> HIDE DEF bad
      <4> QED
        BY <2>2, <4>1, Minimum
    <3>2. m \in bad /\ \A l \in bad : m <= l
      BY <3>1
    <3>3. k <= rbacObjects + m - 1
      BY <2>2 DEF Applicable
    <3> HIDE DEF m
    <3> QED
      BY <1>1, <3>2, <3>3 DEF rbacObjects
  <2> QED
    BY <2>1, <2>2
<1>3. CASE s[i].predefined # "nil"
  BY <1>2, <1>3 DEF renderFails, RenderTask, predefinedTaskTemplates, taskObject, TaskName, TaskTemplate
<1>4. CASE s[i].predefined = "nil"
  BY <1>1, <1>4, SpecAssumption DEF taskObject, TaskName
<1> QED
  BY <1>3, <1>4

LEMMA TasksApplied ==
  ASSUME NEW s \in Specs, NEW k \in Nat, k <= Applicable(s), NEW old, DOMAIN old \subseteq TaskName
  PROVE  DOMAIN applyTasks(s, k - rbacObjects, old) \subseteq TaskName
  BY AppliedNames DEF applyTasks

LEMMA Prepended ==
  ASSUME NEW S, NEW x \in S, NEW b \in Seq(S)
  PROVE  /\ DOMAIN (<<x>> \o b) = 1..(Len(b) + 1)
         /\ (<<x>> \o b)[1] = x
         /\ \A i \in 1..Len(b) : (<<x>> \o b)[i + 1] = b[i]
  OBVIOUS

LEMMA RenderedLen ==
  ASSUME NEW s \in Specs
  PROVE  Len(Rendered(s)) \in Nat
  OBVIOUS

\* A chain holds git-clone and every rendered task, after the one before it.
Chained(chain, r) ==
  /\ \E x \in Range(chain) : x.name = "git-clone"
  /\ \A i \in 1..Len(r) : \E x \in Range(chain) :
       /\ x.name = r[i].name
       /\ x.runAfter = {IF i = 1 THEN "git-clone" ELSE r[i - 1].name}

LEMMA ChainOfSpec ==
  ASSUME NEW s \in Specs
  PROVE  Chained(RenderPipeline(s).chain, Rendered(s))
<1> DEFINE r == Rendered(s)
           n == Len(r)
           after(i) == IF i = 1 THEN "git-clone" ELSE r[i - 1].name
           clone == [name |-> "git-clone", taskRef |-> "git-clone", runAfter |-> {}]
           rest == [i \in 1..n |-> [name |-> r[i].name, taskRef |-> r[i].name, runAfter |-> {after(i)}]]
           chain == <<clone>> \o rest
           S == {clone} \cup Range(rest)
<1>1. RenderPipeline(s).chain = chain
  BY DEF RenderPipeline, generateTasksInfo
<1>2. n \in Nat
  BY RenderedLen
<1> HIDE DEF n, r
<1>3. \A i \in 1..n : rest[i].name = r[i].name /\ rest[i].runAfter = {after(i)}
  OBVIOUS
<1>4. clone.name = "git-clone"
  OBVIOUS
<1>5. rest \in Seq(Range(rest)) /\ Len(rest) = n
  <2>1. rest = [i \in 1..n |-> rest[i]]
    OBVIOUS
  <2> HIDE DEF rest
  <2> QED
    BY <1>2, <2>1 DEF Range
<1> HIDE DEF clone, rest, after
<1>6. rest \in Seq(S) /\ clone \in S
  <2>1. Range(rest) \subseteq S /\ clone \in S
    OBVIOUS
  <2> HIDE DEF S
  <2> QED
    BY <1>5, <2>1, SeqMonotonic
<1> HIDE DEF S
<1>7. DOMAIN chain = 1..(n + 1) /\ chain[1] = clone /\ \A i \in 1..n : chain[i + 1] = rest[i]
  BY <1>5, <1>6, Prepended
<1> HIDE DEF chain
<1>8. chain[1] \in Range(chain) /\ \A i \in 1..n : chain[i + 1] \in Range(chain)
  BY <1>2, <1>7 DEF Range
<1> QED
  BY <1>1, <1>3, <1>4, <1>7, <1>8 DEF Chained, n, r, after
-----------------------------------------------------------------------------
(* The invariant. *)

\* The tasks of the run of p are started in the order of its spec.
InOrder(p) ==
  run[p].of # None => LET s == Rendered(run[p].of.spec) IN
    \A i \in 1..Len(s) : run[p].state[s[i].name] # "Waiting" =>
      /\ run[p].state["git-clone"] = "Succeeded"
      /\ \A j \in 1..(i - 1) : run[p].state[s[j].name] = "Succeeded"

\* What the functions are defined for: a run has a state for each task of the
\* chain it was started with.
Shapes ==
  /\ DOMAIN clusterBinding = Names
  /\ DOMAIN tasks = Pipelines /\ DOMAIN tekton = Pipelines /\ DOMAIN run = Pipelines /\ DOMAIN pods = Pipelines
  /\ \A p \in Pipelines :
       /\ DOMAIN run[p] = {"of", "state"}
       /\ DOMAIN run[p].state = {x.name : x \in Range(run[p].of.chain)}

RunInv == TypeOK /\ Shapes /\ \A p \in Pipelines : InOrder(p)
-----------------------------------------------------------------------------
(* The steps of a run. *)

\* A run is that of a spec.
LEMMA SpecOfRun ==
  ASSUME RunInv, NEW p \in Pipelines, run[p].of # None
  PROVE  /\ run[p].of.spec \in Specs
         /\ run[p].of = RenderPipeline(run[p].of.spec)
<1>1. PICK s \in Specs : run[p].of = RenderPipeline(s)
  BY DEF RunInv, TypeOK
<1>2. run[p].of.spec = s
  BY <1>1 DEF RenderPipeline
<1> QED
  BY <1>1, <1>2

\* The names that InOrder speaks of are those of tasks of the run.
LEMMA TasksOfRun ==
  ASSUME RunInv, NEW p \in Pipelines, run[p].of # None
  PROVE  LET r == Rendered(run[p].of.spec) IN
         /\ "git-clone" \in DOMAIN run[p].state
         /\ \A i \in 1..Len(r) :
              /\ r[i].name \in DOMAIN run[p].state
              /\ \E x \in Range(run[p].of.chain) :
                   x.name = r[i].name /\ x.runAfter = {IF i = 1 THEN "git-clone" ELSE r[i - 1].name}
<1> DEFINE r == Rendered(run[p].of.spec)
           chain == run[p].of.chain
<1>1. DOMAIN run[p].state = {x.name : x \in Range(chain)}
  BY DEF RunInv, Shapes
<1>2. Chained(chain, r)
  <2>1. /\ run[p].of.spec \in Specs
        /\ run[p].of = RenderPipeline(run[p].of.spec)
    BY SpecOfRun
  <2> QED
    BY <2>1, ChainOfSpec
<1> HIDE DEF r, chain
<1>3. "git-clone" \in DOMAIN run[p].state
  BY <1>1, <1>2 DEF Chained
<1>4. ASSUME NEW i \in 1..Len(r)
      PROVE  /\ r[i].name \in DOMAIN run[p].state
             /\ \E x \in Range(chain) :
                  x.name = r[i].name /\ x.runAfter = {IF i = 1 THEN "git-clone" ELSE r[i - 1].name}
  <2>1. PICK x \in Range(chain) :
          x.name = r[i].name /\ x.runAfter = {IF i = 1 THEN "git-clone" ELSE r[i - 1].name}
    BY <1>2 DEF Chained
  <2> QED
    BY <1>1, <2>1
<1> QED
  BY <1>3, <1>4 DEF r, chain

\* A step after which every task that had succeeded still has, and no task that
\* was waiting is started.
LEMMA NoneStarted ==
  ASSUME RunInv, NEW p \in Pipelines, run'[p].of = run[p].of,
         \A u \in DOMAIN run[p].state :
           /\ run[p].state[u] = "Succeeded" => run'[p].state[u] = "Succeeded"
           /\ run[p].state[u] = "Waiting" => run'[p].state[u] = "Waiting"
  PROVE  InOrder(p)'
<1> DEFINE r == Rendered(run[p].of.spec)
<1> SUFFICES ASSUME run[p].of # None, NEW i \in 1..Len(r), run'[p].state[r[i].name] # "Waiting"
             PROVE  /\ run'[p].state["git-clone"] = "Succeeded"
                    /\ \A j \in 1..(i - 1) : run'[p].state[r[j].name] = "Succeeded"
  BY DEF InOrder
<1>1. "git-clone" \in DOMAIN run[p].state /\ \A j \in 1..Len(r) : r[j].name \in DOMAIN run[p].state
  BY TasksOfRun
<1>2. InOrder(p)
  BY DEF RunInv
<1>3. /\ run[p].state["git-clone"] = "Succeeded"
      /\ \A j \in 1..(i - 1) : run[p].state[r[j].name] = "Succeeded"
  BY <1>1, <1>2 DEF InOrder
<1>4. Len(r) \in Nat
  BY SpecOfRun, RenderedLen
<1> HIDE DEF r
<1> QED
  BY <1>1, <1>3, <1>4

\* A task is started after the one before it, and so after all of them.
LEMMA OneStarted ==
  ASSUME RunInv, NEW p \in Pipelines, NEW t \in DOMAIN run[p].state, StartTask(p, t)
  PROVE  InOrder(p)'
<1> DEFINE r == Rendered(run[p].of.spec)
           st == run[p].state
<1>1. /\ run'[p].of = run[p].of
      /\ \A u \in DOMAIN st : u # t => run'[p].state[u] = st[u]
      /\ st[t] = "Waiting"
  BY DEF StartTask, RunInv, Shapes
<1> SUFFICES ASSUME run[p].of # None, NEW i \in 1..Len(r), run'[p].state[r[i].name] # "Waiting"
             PROVE  /\ run'[p].state["git-clone"] = "Succeeded"
                    /\ \A j \in 1..(i - 1) : run'[p].state[r[j].name] = "Succeeded"
  BY <1>1 DEF InOrder
<1>2. /\ "git-clone" \in DOMAIN st
      /\ \A j \in 1..Len(r) :
           /\ r[j].name \in DOMAIN st
           /\ \E x \in Range(run[p].of.chain) :
                x.name = r[j].name /\ x.runAfter = {IF j = 1 THEN "git-clone" ELSE r[j - 1].name}
  BY TasksOfRun
<1>3. \A k \in 1..Len(r) : st[r[k].name] # "Waiting" =>
        st["git-clone"] = "Succeeded" /\ \A j \in 1..(k - 1) : st[r[j].name] = "Succeeded"
  BY DEF RunInv, InOrder
<1>4. Len(r) \in Nat
  BY SpecOfRun, RenderedLen
<1>5. r[i].name = t => st[IF i = 1 THEN "git-clone" ELSE r[i - 1].name] = "Succeeded"
  <2> SUFFICES ASSUME r[i].name = t PROVE st[IF i = 1 THEN "git-clone" ELSE r[i - 1].name] = "Succeeded"
    OBVIOUS
  <2> DEFINE last == IF i = 1 THEN "git-clone" ELSE r[i - 1].name
  <2>1. PICK x \in Range(run[p].of.chain) : x.name = t /\ x.runAfter = {last}
    BY <1>2
  <2>2. \A u \in x.runAfter : st[u] = "Succeeded"
    BY <2>1 DEF StartTask
  <2> HIDE DEF last, r, st
  <2>3. st[last] = "Succeeded"
    BY <2>1, <2>2
  <2> QED
    BY <2>3 DEF last
<1> HIDE DEF r, st
<1>6. st["git-clone"] = "Succeeded" /\ \A j \in 1..(i - 1) : st[r[j].name] = "Succeeded"
  <2>1. CASE r[i].name # t
    BY <1>1, <1>2, <1>3, <2>1
  <2>2. CASE r[i].name = t /\ i = 1
    BY <1>5, <2>2
  <2>3. CASE r[i].name = t /\ i # 1
    <3>1. i - 1 \in 1..Len(r) /\ st[r[i - 1].name] = "Succeeded"
      BY <1>4, <1>5, <2>3
    <3>2. st["git-clone"] = "Succeeded" /\ \A j \in 1..(i - 1 - 1) : st[r[j].name] = "Succeeded"
      BY <1>3, <3>1
    <3> QED
      BY <1>4, <3>1, <3>2
  <2> QED
    BY <2>1, <2>2, <2>3
<1> QED
  BY <1>1, <1>2, <1>4, <1>6

\* A step that changes the run of p only.
LEMMA RunStep ==
  ASSUME RunInv, NEW p \in Pipelines, InOrder(p)', \A q \in Pipelines \ {p} : run'[q] = run[q]
  PROVE  \A q \in Pipelines : InOrder(q)'
<1> SUFFICES ASSUME NEW q \in Pipelines, q # p PROVE InOrder(q)'
  OBVIOUS
<1>1. InOrder(q) /\ run'[q] = run[q]
  BY DEF RunInv
<1> QED
  BY <1>1 DEF InOrder

LEMMA StartRunStep ==
  ASSUME RunInv, NEW p \in Pipelines, StartRun(p)
  PROVE  RunInv'
<1> DEFINE new == [of    |-> tekton[p],
                   state |-> [t \in {x.name : x \in Range(tekton[p].chain)} |-> "Waiting"]]
<1>1. /\ DOMAIN run = Pipelines /\ run' = [run EXCEPT ![p] = new]
      /\ UNCHANGED <<exists, deletionTimestamp, finalizer, spec, serviceName, queued, serviceAccount, roleBinding,
                     clusterBinding, tasks, tekton, trigger, pods, edits, mishaps>>
  BY DEF StartRun, RunInv, Shapes, objectVars, appliedVars
<1>2. /\ new.of = tekton[p] /\ DOMAIN new = {"of", "state"}
      /\ new.state = [t \in {x.name : x \in Range(tekton[p].chain)} |-> "Waiting"]
  OBVIOUS
<1> HIDE DEF new
<1>3. pods[p] = {}
  <2>1. pods[p] \subseteq DOMAIN run[p].state
    BY DEF RunInv, TypeOK
  <2>2. run[p].state = <<>>
    BY DEF StartRun, NoRun
  <2> QED
    BY <2>1, <2>2
<1>4. TypeOK'
  BY <1>1, <1>2, <1>3 DEF RunInv, TypeOK
<1>5. Shapes'
  BY <1>1, <1>2 DEF RunInv, Shapes
<1>6. InOrder(p)'
  <2> DEFINE r == Rendered(tekton[p].spec)
  <2>1. run'[p].of = tekton[p] /\ run'[p].state = new.state
    BY <1>1, <1>2
  <2> SUFFICES ASSUME tekton[p] # None, NEW i \in 1..Len(r) PROVE run'[p].state[r[i].name] = "Waiting"
    BY <2>1 DEF InOrder
  <2>2. PICK s \in Specs : tekton[p] = RenderPipeline(s)
    BY DEF RunInv, TypeOK
  <2>3. tekton[p].spec = s
    BY <2>2 DEF RenderPipeline
  <2>4. Chained(tekton[p].chain, r)
    BY <2>2, <2>3, ChainOfSpec
  <2> HIDE DEF r
  <2>5. \E x \in Range(tekton[p].chain) : x.name = r[i].name
    BY <2>4 DEF Chained
  <2> QED
    BY <1>2, <2>1, <2>5
<1> QED
  BY <1>1, <1>4, <1>5, <1>6, RunStep DEF RunInv

\* The steps of one task: t goes from one state to another, and perhaps its pod
\* is created.
LEMMA TaskStep ==
  ASSUME RunInv, NEW p \in Pipelines, NEW t \in DOMAIN run[p].state,
         StartTask(p, t) \/ EndTask(p, t, "Succeeded") \/ EndTask(p, t, "Failed")
  PROVE  RunInv'
<1>1. /\ DOMAIN run = Pipelines /\ DOMAIN run[p] = {"of", "state"} /\ DOMAIN pods = Pipelines
      /\ UNCHANGED <<exists, deletionTimestamp, finalizer, spec, serviceName, queued, serviceAccount, roleBinding,
                     clusterBinding, tasks, tekton, trigger, edits, mishaps>>
  BY DEF StartTask, EndTask, RunInv, Shapes, objectVars, appliedVars
<1>2. PICK st \in {"Running", "Succeeded", "Failed"} : run' = [run EXCEPT ![p].state[t] = st]
  BY DEF StartTask, EndTask
<1>3. /\ DOMAIN run' = Pipelines /\ DOMAIN run'[p] = {"of", "state"}
      /\ run'[p].of = run[p].of /\ DOMAIN run'[p].state = DOMAIN run[p].state
      /\ \A q \in Pipelines \ {p} : run'[q] = run[q]
      /\ \A u \in DOMAIN run[p].state : u # t => run'[p].state[u] = run[p].state[u]
      /\ run'[p].state[t] = st
  BY <1>1, <1>2
<1>4. pods' = pods \/ pods' = [pods EXCEPT ![p] = @ \cup {t}]
  BY DEF StartTask, EndTask
<1>5. DOMAIN pods' = Pipelines /\ \A q \in Pipelines : pods'[q] \subseteq DOMAIN run'[q].state
  BY <1>1, <1>3, <1>4 DEF RunInv, TypeOK
<1>6. \A q \in Pipelines : run'[q].of = run[q].of
  BY <1>3
<1>7. TypeOK'
  BY <1>1, <1>5, <1>6 DEF RunInv, TypeOK
<1>8. Shapes'
  BY <1>1, <1>3, <1>5 DEF RunInv, Shapes
<1>9. InOrder(p)'
  <2>1. CASE StartTask(p, t)
    BY <2>1, OneStarted
  <2>2. CASE EndTask(p, t, "Succeeded") \/ EndTask(p, t, "Failed")
    <3>1. run[p].state[t] = "Running"
      BY <2>2 DEF EndTask
    <3> QED
      BY <1>3, <3>1, NoneStarted
  <2> QED
    BY <2>1, <2>2
<1> QED
  BY <1>3, <1>7, <1>8, <1>9, RunStep DEF RunInv
-----------------------------------------------------------------------------
(* The steps of the controller, and of the Pipelines. *)

\* A step that leaves what was applied, and the runs, as they are.
LEMMA ObjectStep ==
  ASSUME RunInv, UNCHANGED <<appliedVars, runVars>>,
         {exists, deletionTimestamp, finalizer, serviceName, queued}' \subseteq [Pipelines -> BOOLEAN],
         spec' \in [Pipelines -> Specs], edits' \in Nat, mishaps' \in Nat
  PROVE  RunInv'
<1>1. TypeOK'
  BY DEF RunInv, TypeOK, appliedVars, runVars
<1>2. Shapes'
  BY DEF RunInv, Shapes, appliedVars, runVars
<1>3. \A p \in Pipelines : InOrder(p)'
  BY DEF RunInv, InOrder, runVars
<1> QED
  BY <1>1, <1>2, <1>3 DEF RunInv

\* What is left of the bounds, and the queue, after a call.
LEMMA CallEnds ==
  ASSUME TypeOK, NEW p \in Pipelines, NEW failed \in BOOLEAN, NEW mishap \in BOOLEAN, NEW changed \in BOOLEAN,
         EndReconcile(p, failed, mishap, changed)
  PROVE  mishaps' \in Nat /\ queued' \in [Pipelines -> BOOLEAN]
<1>1. mishaps' \in Nat
  BY DEF TypeOK, EndReconcile
<1>2. queued' \in [Pipelines -> BOOLEAN]
  BY DEF TypeOK, EndReconcile
<1> QED
  BY <1>1, <1>2

LEMMA Finalized ==
  ASSUME TypeOK, NEW p \in Pipelines, NEW f \in BOOLEAN, Finalize(p, f)
  PROVE  {exists, deletionTimestamp, finalizer}' \subseteq [Pipelines -> BOOLEAN]
<1>1. finalizer' \in [Pipelines -> BOOLEAN]
  BY DEF TypeOK, Finalize
<1>2. exists' \in [Pipelines -> BOOLEAN]
  BY DEF TypeOK, Finalize
<1>3. deletionTimestamp' \in [Pipelines -> BOOLEAN]
  BY DEF TypeOK, Finalize
<1> QED
  BY <1>1, <1>2, <1>3

LEMMA PipelineSteps ==
  ASSUME RunInv, NEW p \in Pipelines,
         \/ reconcileGone(p)
         \/ \E patched \in BOOLEAN : addFinalizer(p, patched)
         \/ DeletePipeline(p)
         \/ \E s \in Specs : EditSpec(p, s)
  PROVE  RunInv'
<1>1. TypeOK
  BY DEF RunInv
<1>2. CASE reconcileGone(p)
  BY <1>1, <1>2, ObjectStep DEF TypeOK, reconcileGone, objectVars
<1>3. ASSUME NEW patched \in BOOLEAN, addFinalizer(p, patched) PROVE RunInv'
  <2>1. {exists, deletionTimestamp, finalizer}' \subseteq [Pipelines -> BOOLEAN]
    BY <1>1, <1>3, Finalized DEF addFinalizer
  <2>2. mishaps' \in Nat /\ queued' \in [Pipelines -> BOOLEAN]
    <3> DEFINE failed == ~patched
               changed == TRUE
    <3>1. EndReconcile(p, failed, failed, changed) /\ failed \in BOOLEAN /\ changed \in BOOLEAN
      BY <1>3 DEF addFinalizer
    <3> HIDE DEF failed, changed
    <3> QED
      BY <1>1, <3>1, CallEnds
  <2> QED
    BY <1>1, <1>3, <2>1, <2>2, ObjectStep DEF TypeOK, addFinalizer
<1>4. CASE DeletePipeline(p)
  <2>1. {exists, deletionTimestamp, queued}' \subseteq [Pipelines -> BOOLEAN]
    BY <1>1, <1>4 DEF TypeOK, DeletePipeline
  <2> QED
    BY <1>1, <1>4, <2>1, ObjectStep DEF TypeOK, DeletePipeline
<1>5. ASSUME NEW s \in Specs, EditSpec(p, s) PROVE RunInv'
  <2>1. queued' \in [Pipelines -> BOOLEAN] /\ spec' \in [Pipelines -> Specs]
    BY <1>1, <1>5 DEF TypeOK, EditSpec
  <2>2. edits' \in Nat
    BY <1>1, <1>5 DEF TypeOK, EditSpec
  <2> QED
    BY <1>1, <1>5, <2>1, <2>2, ObjectStep DEF TypeOK, EditSpec, objectVars
<1> QED
  BY <1>2, <1>3, <1>4, <1>5

\* The first k objects of the spec are applied.
LEMMA ObjectsApplied ==
  ASSUME RunInv, NEW p \in Pipelines, NEW k \in 0..allObjects(spec[p]), k <= Applicable(spec[p]),
         Applied(p, spec[p], k), UNCHANGED <<spec, runVars>>,
         {exists, deletionTimestamp, finalizer, serviceName, queued}' \subseteq [Pipelines -> BOOLEAN],
         edits' \in Nat, mishaps' \in Nat
  PROVE  RunInv'
<1> DEFINE s == spec[p]
           n == k - pipelineObject(s)
<1>1. TypeOK /\ Shapes /\ s \in Specs
  BY DEF RunInv, TypeOK
<1>2. Len(s) \in Nat
  <2>1. s \in Seq(Range(s))
    BY <1>1, SpecAssumption
  <2> HIDE DEF s
  <2> QED
    BY <2>1, LenProperties
<1>3. k \in Nat /\ n \in Int /\ n <= 3
  <2>1. k \in 0..(3 + Len(s) + 1 + 3) /\ n = k - (3 + Len(s) + 1)
    BY DEF allObjects, pipelineObject, rbacObjects
  <2> HIDE DEF s, n
  <2> QED
    BY <1>2, <2>1
<1>4. serviceAccount' \in [Pipelines -> {"None", "Plain", "Chained"}]
  BY <1>1 DEF Applied, TypeOK, RenderRBAC
<1>5. roleBinding' \in [Pipelines -> BOOLEAN]
  <2>1. (k >= 2) \in BOOLEAN
    OBVIOUS
  <2> QED
    BY <1>1, <2>1 DEF Applied, TypeOK
<1>6. DOMAIN clusterBinding' = Names /\ \A m \in Names : clusterBinding'[m] \in Pipelines \/ clusterBinding'[m] = Unbound
  <2>1. NameOf[p] \in Names
    BY DEF Names
  <2> QED
    BY <1>1, <2>1 DEF Applied, TypeOK, Shapes
<1>7. trigger' \in [Pipelines -> 0..3]
  <2>1. trigger' = [trigger EXCEPT ![p] = IF @ >= n THEN @ ELSE n]
    BY DEF Applied
  <2>2. trigger \in [Pipelines -> 0..3]
    BY <1>1 DEF TypeOK
  <2> HIDE DEF n
  <2>3. (IF trigger[p] >= n THEN trigger[p] ELSE n) \in 0..3
    BY <1>3, <2>2
  <2> QED
    BY <2>1, <2>2, <2>3
<1>8. DOMAIN tasks' = Pipelines /\ \A q \in Pipelines : DOMAIN tasks'[q] \subseteq TaskName
  <2>1. DOMAIN tasks = Pipelines /\ \A q \in Pipelines : DOMAIN tasks[q] \subseteq TaskName
    BY <1>1 DEF TypeOK, Shapes, TaskName
  <2>2. DOMAIN applyTasks(s, k - rbacObjects, tasks[p]) \subseteq TaskName
    <3> DEFINE old == tasks[p]
    <3>1. DOMAIN old \subseteq TaskName /\ k <= Applicable(s)
      BY <2>1
    <3> HIDE DEF old, s
    <3>2. DOMAIN applyTasks(s, k - rbacObjects, old) \subseteq TaskName
      BY <1>1, <1>3, <3>1, TasksApplied
    <3> QED
      BY <3>2 DEF old
  <2>3. tasks' = [tasks EXCEPT ![p] = applyTasks(s, k - rbacObjects, tasks[p])]
    BY DEF Applied
  <2> QED
    BY <2>1, <2>2, <2>3
<1>9. DOMAIN tekton' = Pipelines /\ \A q \in Pipelines : tekton'[q] \in {None} \cup {RenderPipeline(x) : x \in Specs}
  BY <1>1 DEF Applied, TypeOK, Shapes
<1>10. TypeOK'
  BY <1>1, <1>4, <1>5, <1>6, <1>7, <1>8, <1>9 DEF TypeOK, TaskName, runVars
<1>11. Shapes'
  BY <1>1, <1>6, <1>8, <1>9 DEF Shapes, runVars
<1>12. \A q \in Pipelines : InOrder(q)'
  BY DEF RunInv, InOrder, runVars
<1> QED
  BY <1>10, <1>11, <1>12 DEF RunInv

LEMMA ReconcileStep ==
  ASSUME RunInv, NEW p \in Pipelines, NEW k \in 0..allObjects(spec[p]), NEW patched \in BOOLEAN,
         reconcile(p, k, patched)
  PROVE  RunInv'
<1> DEFINE done == k = allObjects(spec[p])
           failed == ~done \/ ~patched
           mishap == k < Applicable(spec[p]) \/ ~patched
           changed == serviceName'[p] # serviceName[p]
<1>1. TypeOK
  BY DEF RunInv
<1>2. mishaps' \in Nat /\ queued' \in [Pipelines -> BOOLEAN]
  <2>1. EndReconcile(p, failed, mishap, changed)
    BY DEF reconcile
  <2>2. failed \in BOOLEAN /\ mishap \in BOOLEAN /\ changed \in BOOLEAN
    OBVIOUS
  <2> HIDE DEF failed, mishap, changed
  <2> QED
    BY <1>1, <2>1, <2>2, CallEnds
<1>3. serviceName' \in [Pipelines -> BOOLEAN]
  <2>1. serviceName' = [serviceName EXCEPT ![p] = @ \/ (done /\ patched)] /\ done \in BOOLEAN
    BY DEF reconcile
  <2> HIDE DEF done
  <2> QED
    BY <1>1, <2>1 DEF TypeOK
<1>4. {exists, deletionTimestamp, finalizer}' \subseteq [Pipelines -> BOOLEAN] /\ edits' \in Nat
  BY <1>1 DEF reconcile, objectVars, TypeOK
<1>5. k <= Applicable(spec[p]) /\ Applied(p, spec[p], k) /\ UNCHANGED <<spec, runVars>>
  BY DEF reconcile
<1> QED
  BY <1>2, <1>3, <1>4, <1>5, ObjectsApplied

\* A task whose pod is deleted while it runs has failed; no task is started.
LEMMA DeleteStep ==
  ASSUME RunInv, NEW p \in Pipelines, NEW D \in SUBSET pods[p], NEW failed \in BOOLEAN, NEW patched \in BOOLEAN,
         reconcileDeletePipeline(p, D, failed, patched)
  PROVE  RunInv'
<1>1. TypeOK /\ Shapes
  BY DEF RunInv
<1>2. mishaps' \in Nat /\ queued' \in [Pipelines -> BOOLEAN]
  <2> DEFINE bad == failed \/ ~patched
             changed == TRUE
  <2>1. EndReconcile(p, bad, bad, changed) /\ bad \in BOOLEAN /\ changed \in BOOLEAN
    BY DEF reconcileDeletePipeline
  <2> HIDE DEF bad, changed
  <2> QED
    BY <1>1, <2>1, CallEnds
<1>3. {exists, deletionTimestamp, finalizer}' \subseteq [Pipelines -> BOOLEAN]
  <2> DEFINE f == keepsFinalizer(failed) \/ ~patched
  <2>1. Finalize(p, f) /\ f \in BOOLEAN
    BY DEF reconcileDeletePipeline, keepsFinalizer
  <2> HIDE DEF f
  <2> QED
    BY <1>1, <2>1, Finalized
<1>4. /\ UNCHANGED <<spec, serviceName, appliedVars, edits>>
      /\ pods' = [pods EXCEPT ![p] = @ \ D]
      /\ run' = [run EXCEPT ![p].state = [t \in DOMAIN @ |-> IF t \in D /\ @[t] = "Running" THEN "Failed" ELSE @[t]]]
  BY DEF reconcileDeletePipeline
<1>5. /\ DOMAIN run' = Pipelines /\ DOMAIN run'[p] = {"of", "state"}
      /\ run'[p].of = run[p].of /\ DOMAIN run'[p].state = DOMAIN run[p].state
      /\ \A q \in Pipelines \ {p} : run'[q] = run[q]
      /\ \A u \in DOMAIN run[p].state :
           run'[p].state[u] = IF u \in D /\ run[p].state[u] = "Running" THEN "Failed" ELSE run[p].state[u]
  BY <1>1, <1>4 DEF Shapes
<1>6. DOMAIN pods' = Pipelines /\ \A q \in Pipelines : pods'[q] \subseteq DOMAIN run'[q].state
  BY <1>1, <1>4, <1>5 DEF TypeOK, Shapes
<1>7. \A q \in Pipelines : run'[q].of = run[q].of
  BY <1>5
<1>8. TypeOK'
  BY <1>1, <1>2, <1>3, <1>4, <1>6, <1>7 DEF TypeOK, appliedVars
<1>9. Shapes'
  BY <1>1, <1>4, <1>5, <1>6 DEF Shapes, appliedVars
<1>10. InOrder(p)'
  BY <1>5, NoneStarted
<1> QED
  BY <1>5, <1>8, <1>9, <1>10, RunStep DEF RunInv

LEMMA GarbageStep ==
  ASSUME RunInv, NEW p \in Pipelines, GarbageCollect(p)
  PROVE  RunInv'
<1>1. TypeOK /\ Shapes
  BY DEF RunInv
<1>2. UNCHANGED <<exists, deletionTimestamp, finalizer, spec, serviceName, queued, clusterBinding, run, pods, edits, mishaps>>
  BY DEF GarbageCollect, objectVars, runVars
<1>3. /\ serviceAccount' \in [Pipelines -> {"None", "Plain", "Chained"}]
      /\ roleBinding' \in [Pipelines -> BOOLEAN]
      /\ trigger' \in [Pipelines -> 0..3]
  <2>1. serviceAccount' \in [Pipelines -> {"None", "Plain", "Chained"}]
    BY <1>1 DEF GarbageCollect, TypeOK
  <2>2. roleBinding' \in [Pipelines -> BOOLEAN]
    BY <1>1 DEF GarbageCollect, TypeOK
  <2>3. trigger' \in [Pipelines -> 0..3]
    BY <1>1 DEF GarbageCollect, TypeOK
  <2> QED
    BY <2>1, <2>2, <2>3
<1>4. DOMAIN tasks' = Pipelines /\ \A q \in Pipelines : DOMAIN tasks'[q] \subseteq TaskName
  BY <1>1 DEF GarbageCollect, TypeOK, Shapes, TaskName
<1>5. DOMAIN tekton' = Pipelines /\ \A q \in Pipelines : tekton'[q] \in {None} \cup {RenderPipeline(x) : x \in Specs}
  BY <1>1 DEF GarbageCollect, TypeOK, Shapes
<1>6. TypeOK'
  <2>1. /\ {exists', deletionTimestamp', finalizer', serviceName', queued', roleBinding'} \subseteq [Pipelines -> BOOLEAN]
        /\ spec' \in [Pipelines -> Specs] /\ edits' \in Nat /\ mishaps' \in Nat
    BY <1>1, <1>2, <1>3 DEF TypeOK
  <2>2. \A n \in Names : clusterBinding'[n] \in Pipelines \/ clusterBinding'[n] = Unbound
    BY <1>1, <1>2 DEF TypeOK
  <2>3. \A q \in Pipelines : /\ run'[q].of \in {None} \cup {RenderPipeline(x) : x \in Specs}
                              /\ pods'[q] \subseteq DOMAIN run'[q].state
    BY <1>1, <1>2 DEF TypeOK
  <2> QED
    BY <1>3, <1>4, <1>5, <2>1, <2>2, <2>3 DEF TypeOK, TaskName
<1>7. Shapes'
  BY <1>1, <1>2, <1>4, <1>5 DEF Shapes
<1>8. \A q \in Pipelines : InOrder(q)'
  BY <1>2 DEF RunInv, InOrder
<1> QED
  BY <1>6, <1>7, <1>8 DEF RunInv
-----------------------------------------------------------------------------
LEMMA RunInitial == Init => RunInv
<1> SUFFICES ASSUME Init PROVE RunInv
  OBVIOUS
<1>1. NoRun.of = None /\ NoRun.state = <<>> /\ DOMAIN NoRun = {"of", "state"} /\ None.chain = <<>>
  BY DEF NoRun, None
<1>2. TypeOK
  <2>1. /\ {exists, deletionTimestamp, finalizer, serviceName, queued, roleBinding} \subseteq [Pipelines -> BOOLEAN]
        /\ spec \in [Pipelines -> Specs] /\ edits \in Nat /\ mishaps \in Nat
    BY BoundAssumption DEF Init
  <2>2. /\ serviceAccount \in [Pipelines -> {"None", "Plain", "Chained"}]
        /\ trigger \in [Pipelines -> 0..3]
        /\ \A n \in Names : clusterBinding[n] \in Pipelines \/ clusterBinding[n] = Unbound
    BY DEF Init
  <2>3. \A p \in Pipelines : tasks[p] = <<>> /\ tekton[p] = None /\ run[p] = NoRun /\ pods[p] = {}
    BY DEF Init
  <2> QED
    BY <1>1, <2>1, <2>2, <2>3 DEF TypeOK
<1>3. Shapes
  BY <1>1 DEF Init, Shapes, Range
<1>4. \A p \in Pipelines : InOrder(p)
  BY <1>1 DEF Init, InOrder
<1> QED
  BY <1>2, <1>3, <1>4 DEF RunInv

LEMMA RunSteps == RunInv /\ [Next]_vars => RunInv'
<1> SUFFICES ASSUME RunInv, [Next]_vars PROVE RunInv'
  OBVIOUS
<1>1. CASE UNCHANGED vars
  <2>1. TypeOK'
    BY <1>1 DEF RunInv, TypeOK, vars, objectVars, appliedVars, runVars
  <2>2. Shapes'
    BY <1>1 DEF RunInv, Shapes, vars, appliedVars, runVars
  <2>3. \A p \in Pipelines : InOrder(p)'
    BY <1>1 DEF RunInv, InOrder, vars, runVars
  <2> QED
    BY <2>1, <2>2, <2>3 DEF RunInv
<1>2. ASSUME NEW p \in Pipelines, Reconcile(p) PROVE RunInv'
  <2>1. CASE reconcileGone(p) \/ \E patched \in BOOLEAN : addFinalizer(p, patched)
    BY <2>1, PipelineSteps
  <2>2. CASE \E k \in 0..allObjects(spec[p]), patched \in BOOLEAN : reconcile(p, k, patched)
    BY <2>2, ReconcileStep
  <2>3. CASE \E D \in SUBSET pods[p], failed, patched \in BOOLEAN : reconcileDeletePipeline(p, D, failed, patched)
    BY <2>3, DeleteStep
  <2>4. (\E patched \in BOOLEAN : reconcileDeletePipeline(p, pods[p], FALSE, patched)) =>
          \E D \in SUBSET pods[p], failed, patched \in BOOLEAN : reconcileDeletePipeline(p, D, failed, patched)
    OBVIOUS
  <2>5. (\E D \in SUBSET pods[p] : reconcileDeletePipeline(p, D, TRUE, TRUE)) =>
          \E D \in SUBSET pods[p], failed, patched \in BOOLEAN : reconcileDeletePipeline(p, D, failed, patched)
    OBVIOUS
  <2> QED
    BY <1>2, <2>1, <2>2, <2>3, <2>4, <2>5 DEF Reconcile
<1>3. ASSUME NEW p \in Pipelines, Environment(p) PROVE RunInv'
  <2>1. CASE StartRun(p)
    BY <2>1, StartRunStep
  <2>2. ASSUME NEW t \in DOMAIN run[p].state, StartTask(p, t) \/ \E r \in {"Succeeded", "Failed"} : EndTask(p, t, r)
        PROVE  RunInv'
    BY <2>2, TaskStep
  <2>3. CASE GarbageCollect(p)
    BY <2>3, GarbageStep
  <2>4. CASE DeletePipeline(p) \/ \E s \in Specs : EditSpec(p, s)
    BY <2>4, PipelineSteps
  <2> QED
    BY <1>3, <2>1, <2>2, <2>3, <2>4 DEF Environment
<1> QED
  BY <1>1, <1>2, <1>3 DEF Next

\* Whatever is edited, applied again or deleted while a run is on its way, a
\* task is started only when git-clone and all the tasks before it in the spec
\* of that run have succeeded, although each waits for one task only
\* (generateTasksInfo).
THEOREM TasksInOrder == Spec => []TasksRunInOrder
<1>1. RunInv => TasksRunInOrder
  BY DEF RunInv, InOrder, TasksRunInOrder
<1> QED
  BY <1>1, RunInitial, RunSteps, PTL DEF Spec
=============================================================================

------------------------------ MODULE Pipeline ------------------------------
(***************************************************************************)
(* The Pipeline controller of the fleet manager.  For every Pipeline it     *)
(* applies Tekton objects: a service account with its bindings, one Task    *)
(* for each task of the spec, a Tekton pipeline that chains them, and a     *)
(* trigger with an event listener.  A webhook then starts runs of the       *)
(* Tekton pipeline, whose tasks run in pods.                                *)
(*                                                                          *)
(* One step of the controller is one whole call of Reconcile for one        *)
(* Pipeline.  It applies its objects one by one and stops where one fails.  *)
(* It watches Pipelines, not the objects it makes, and does not poll.       *)
(***************************************************************************)
EXTENDS FiniteSetsExt, Sequences

CONSTANTS
  Pipelines,  \* the Pipelines, each in a namespace of its own
  NameOf,     \* the name of each Pipeline
  Unbound,    \* a value that is no Pipeline
  Specs,      \* the task lists users write
  MaxEdits,   \* bound on the edits of the specs
  MaxMishaps  \* bound on the calls that are cut short

TaskTemplate == {"git-clone", "go-test", "go-lint", "build-and-push-image"}

\* The texts of the templates; none of them is a template's name.
GitCloneTaskContent == "git-clone task"

GoTestTaskContent == "go-test task"

GoLintTaskContent == "go-lint task"

BuildPushImageContent == "build-and-push-image task"

\* The text of a template, and the empty one for a name that is not in the map.
predefinedTaskTemplates(n) ==
  CASE n = "git-clone"            -> GitCloneTaskContent
    [] n = "go-test"              -> GoTestTaskContent
    [] n = "go-lint"              -> GoLintTaskContent
    [] n = "build-and-push-image" -> BuildPushImageContent
    [] OTHER                      -> ""

\* A task has a name, and a predefined task, which is the name of a template, or
\* a custom task, which is what it runs, empty without an image; "nil" stands for
\* nil.
ASSUME SpecAssumption ==
  \A s \in Specs :
    /\ s \in Seq(Range(s))
    /\ \A t \in Range(s) :
         /\ DOMAIN t = {"name", "predefined", "custom"}
         /\ t.predefined # "nil" \/ t.custom # "nil"

ASSUME PipelineAssumption == DOMAIN NameOf = Pipelines
ASSUME BoundAssumption == MaxEdits \in Nat /\ MaxMishaps \in Nat

VARIABLES
  exists, deletionTimestamp, finalizer, \* the Pipelines
  spec,            \* the tasks of each Pipeline
  serviceName,     \* status.eventListenerServiceName is set
  queued,          \* the Pipelines the controller is to reconcile
  serviceAccount,  \* "None", "Plain", or "Chained": with the secret chain-credentials
  roleBinding,     \* the role binding in the namespace is there
  clusterBinding,  \* the Pipeline whose account the cluster role binding of a name binds, or Unbound
  tasks,           \* the Tekton tasks of a Pipeline: what they run, by name
  tekton,          \* the Tekton pipeline: the spec it is for, and its chain of tasks
  trigger,         \* how many of the three trigger objects are there
  run,             \* the run of each Tekton pipeline
  pods,            \* the tasks of that run whose pod is there
  edits, mishaps   \* what is left of the bounds

objectVars == <<exists, deletionTimestamp, finalizer>>

appliedVars == <<serviceAccount, roleBinding, clusterBinding, tasks, tekton, trigger>>

runVars == <<run, pods>>

vars == <<objectVars, spec, serviceName, queued, appliedVars, runVars, edits, mishaps>>

None == [spec |-> <<>>, chain |-> <<>>]

NoRun == [of |-> None, state |-> <<>>]

Names == {NameOf[p] : p \in Pipelines}
-----------------------------------------------------------------------------
(* Rendering *)

\* It compares the name of a template with the text of one.
needChainCredentials(s) ==
  \E t \in Range(s) : t.custom = "nil" /\ t.predefined = BuildPushImageContent

RenderRBAC(s) == IF needChainCredentials(s) THEN "Chained" ELSE "Plain"

\* The name of the Tekton task, without the name of the Pipeline: a predefined
\* task is named after its template.
taskObject(t) == IF t.predefined # "nil" THEN t.predefined ELSE t.name

\* What it runs.
RenderTask(t) == IF t.predefined # "nil" THEN predefinedTaskTemplates(t.predefined) ELSE t.custom

\* There is no template of that name, or the custom task has no image.
renderFails(t) == RenderTask(t) = ""

Rendered(s) == SelectSeq(s, LAMBDA t : t.name # "git-clone")

\* Mutant: lastTask is not updated.
Mutant_generateTasksInfo(s) ==
  <<[name |-> "git-clone", taskRef |-> "git-clone", runAfter |-> {}]>> \o
  [i \in 1..Len(Rendered(s)) |->
     [name     |-> Rendered(s)[i].name,
      taskRef  |-> Rendered(s)[i].name,
      runAfter |-> {"git-clone"}]]

\* The chain of tasks: git-clone is fixed in the template, each other task runs
\* after the one before it, and refers to the Tekton task by its own name.
generateTasksInfo(s) ==
  <<[name |-> "git-clone", taskRef |-> "git-clone", runAfter |-> {}]>> \o
  [i \in 1..Len(Rendered(s)) |->
     [name     |-> Rendered(s)[i].name,
      taskRef  |-> Rendered(s)[i].name,
      runAfter |-> {IF i = 1 THEN "git-clone" ELSE Rendered(s)[i - 1].name}]]

chainFails(s) == \E t \in Range(Rendered(s)) : t.custom # "nil" /\ t.predefined # "nil"

RenderPipeline(s) == [spec |-> s, chain |-> generateTasksInfo(s)]
-----------------------------------------------------------------------------
(* Reconcile *)

Finalize(p, f) ==
  /\ finalizer' = [finalizer EXCEPT ![p] = f]
  /\ exists' = [exists EXCEPT ![p] = ~(deletionTimestamp[p] /\ ~f)]
  /\ UNCHANGED deletionTimestamp

\* Mutant: a call that failed is not retried.
Mutant_EndReconcile(p, failed, mishap, changed) ==
  /\ mishap => mishaps > 0
  /\ mishaps' = IF mishap THEN mishaps - 1 ELSE mishaps
  /\ queued' = [queued EXCEPT ![p] = changed]

\* A call that failed is retried; a patch that changes the Pipeline is an event.
\* A failure that the spec does not account for is a mishap.
EndReconcile(p, failed, mishap, changed) ==
  /\ mishap => mishaps > 0
  /\ mishaps' = IF mishap THEN mishaps - 1 ELSE mishaps
  /\ queued' = [queued EXCEPT ![p] = failed \/ changed]

reconcileGone(p) ==
  /\ queued[p] /\ ~exists[p]
  /\ queued' = [queued EXCEPT ![p] = FALSE]
  /\ UNCHANGED <<objectVars, spec, serviceName, appliedVars, runVars, edits, mishaps>>

\* The first call only adds the finalizer.
addFinalizer(p, patched) ==
  /\ queued[p] /\ exists[p] /\ ~finalizer[p]
  /\ Finalize(p, patched)
  /\ EndReconcile(p, ~patched, ~patched, TRUE)
  /\ UNCHANGED <<spec, serviceName, appliedVars, runVars, edits>>

\* The objects are applied in this order: service account, role binding, cluster
\* role binding, the tasks, the Tekton pipeline, and three for the trigger.
rbacObjects == 3

pipelineObject(s) == rbacObjects + Len(s) + 1

allObjects(s) == pipelineObject(s) + 3

\* How many objects are applied when no call fails.
Applicable(s) ==
  LET bad == {i \in 1..Len(s) : renderFails(s[i])} IN
  IF bad # {} THEN rbacObjects + (CHOOSE i \in bad : \A j \in bad : i <= j) - 1
  ELSE IF chainFails(s) THEN rbacObjects + Len(s)
  ELSE allObjects(s)

\* The Tekton tasks, by name, once the first k tasks of s are applied to those
\* that are there; a later one overwrites.
applyTasks(s, k, old) ==
  LET done == {i \in 1..Len(s) : i <= k}
      names == {taskObject(s[i]) : i \in done}
  IN
  [n \in names \cup DOMAIN old |->
     IF n \in names THEN RenderTask(s[Max({i \in done : taskObject(s[i]) = n})]) ELSE old[n]]

\* The first k objects are applied.
Applied(p, s, k) ==
  /\ serviceAccount' = [serviceAccount EXCEPT ![p] = IF k >= 1 THEN RenderRBAC(s) ELSE @]
  /\ roleBinding' = [roleBinding EXCEPT ![p] = @ \/ k >= 2]
  /\ clusterBinding' = [clusterBinding EXCEPT ![NameOf[p]] = IF k >= rbacObjects THEN p ELSE @]
  /\ tasks' = [tasks EXCEPT ![p] = applyTasks(s, k - rbacObjects, @)]
  /\ tekton' = [tekton EXCEPT ![p] = IF k >= pipelineObject(s) THEN RenderPipeline(s) ELSE @]
  /\ trigger' = [trigger EXCEPT ![p] = IF @ >= k - pipelineObject(s) THEN @ ELSE k - pipelineObject(s)]

\* A call that applies k objects; its last step is the patch of the status.
reconcile(p, k, patched) ==
  LET done == k = allObjects(spec[p]) IN
  /\ queued[p] /\ exists[p] /\ finalizer[p] /\ ~deletionTimestamp[p]
  /\ k <= Applicable(spec[p])
  /\ ~done => patched
  /\ Applied(p, spec[p], k)
  /\ serviceName' = [serviceName EXCEPT ![p] = @ \/ (done /\ patched)]
  /\ EndReconcile(p, ~done \/ ~patched, k < Applicable(spec[p]) \/ ~patched, serviceName'[p] # serviceName[p])
  /\ UNCHANGED <<objectVars, spec, runVars, edits>>

keepsFinalizer(failed) == failed

\* The pods D are deleted, all unless the list or one deletion fails.  A task
\* whose pod goes while it runs has failed.
reconcileDeletePipeline(p, D, failed, patched) ==
  /\ queued[p] /\ exists[p] /\ finalizer[p] /\ deletionTimestamp[p]
  /\ D = pods[p] \/ failed
  /\ pods' = [pods EXCEPT ![p] = @ \ D]
  /\ run' = [run EXCEPT ![p].state = [t \in DOMAIN @ |-> IF t \in D /\ @[t] = "Running" THEN "Failed" ELSE @[t]]]
  /\ Finalize(p, keepsFinalizer(failed) \/ ~patched)
  /\ EndReconcile(p, failed \/ ~patched, failed \/ ~patched, TRUE)
  /\ UNCHANGED <<spec, serviceName, appliedVars, edits>>

Reconcile(p) ==
  \/ reconcileGone(p)
  \/ \E patched \in BOOLEAN : addFinalizer(p, patched)
  \/ \E k \in 0..allObjects(spec[p]), patched \in BOOLEAN : reconcile(p, k, patched)
  \/ \E patched \in BOOLEAN : reconcileDeletePipeline(p, pods[p], FALSE, patched)
  \/ mishaps > 0 /\ \E D \in SUBSET pods[p] : reconcileDeletePipeline(p, D, TRUE, TRUE)
-----------------------------------------------------------------------------
(* Tekton, the garbage collector and users (external). *)

\* A webhook starts a run of the Tekton pipeline as it is now: the listener must
\* be there and be allowed to, and every task must be found.  One run of each
\* Pipeline is looked at.
StartRun(p) ==
  /\ run[p] = NoRun
  /\ trigger[p] = 3
  /\ serviceAccount[p] # "None" /\ roleBinding[p] /\ clusterBinding[NameOf[p]] = p
  /\ \A t \in Range(tekton[p].chain) : t.taskRef \in DOMAIN tasks[p]
  /\ run' = [run EXCEPT ![p] = [of    |-> tekton[p],
                                state |-> [t \in {x.name : x \in Range(tekton[p].chain)} |-> "Waiting"]]]
  /\ UNCHANGED <<objectVars, spec, serviceName, queued, appliedVars, pods, edits, mishaps>>

\* A task starts once the tasks it runs after have succeeded.
StartTask(p, t) ==
  /\ run[p].state[t] = "Waiting"
  /\ \A x \in Range(run[p].of.chain) : x.name = t =>
       \A u \in x.runAfter : run[p].state[u] = "Succeeded"
  /\ run' = [run EXCEPT ![p].state[t] = "Running"]
  /\ pods' = [pods EXCEPT ![p] = @ \cup {t}]
  /\ UNCHANGED <<objectVars, spec, serviceName, queued, appliedVars, edits, mishaps>>

EndTask(p, t, result) ==
  /\ run[p].state[t] = "Running"
  /\ run' = [run EXCEPT ![p].state[t] = result]
  /\ UNCHANGED <<objectVars, spec, serviceName, queued, appliedVars, pods, edits, mishaps>>

\* The objects are owned by the Pipeline.  A cluster role binding cannot be
\* owned by an object in a namespace, and stays.
GarbageCollect(p) ==
  /\ ~exists[p] /\ serviceAccount[p] # "None"
  /\ serviceAccount' = [serviceAccount EXCEPT ![p] = "None"]
  /\ roleBinding' = [roleBinding EXCEPT ![p] = FALSE]
  /\ tasks' = [tasks EXCEPT ![p] = <<>>]
  /\ tekton' = [tekton EXCEPT ![p] = None]
  /\ trigger' = [trigger EXCEPT ![p] = 0]
  /\ UNCHANGED <<objectVars, spec, serviceName, queued, clusterBinding, runVars, edits, mishaps>>

DeletePipeline(p) ==
  /\ exists[p] /\ ~deletionTimestamp[p]
  /\ deletionTimestamp' = [deletionTimestamp EXCEPT ![p] = TRUE]
  /\ exists' = [exists EXCEPT ![p] = finalizer[p]]
  /\ queued' = [queued EXCEPT ![p] = TRUE]
  /\ UNCHANGED <<finalizer, spec, serviceName, appliedVars, runVars, edits, mishaps>>

EditSpec(p, s) ==
  /\ exists[p] /\ edits > 0 /\ s # spec[p]
  /\ spec' = [spec EXCEPT ![p] = s]
  /\ queued' = [queued EXCEPT ![p] = TRUE]
  /\ edits' = edits - 1
  /\ UNCHANGED <<objectVars, serviceName, appliedVars, runVars, mishaps>>

Environment(p) ==
  \/ StartRun(p)
  \/ \E t \in DOMAIN run[p].state : StartTask(p, t) \/ \E r \in {"Succeeded", "Failed"} : EndTask(p, t, r)
  \/ GarbageCollect(p)
  \/ DeletePipeline(p)
  \/ \E s \in Specs : EditSpec(p, s)
-----------------------------------------------------------------------------
\* The Pipelines have just been applied.
Init ==
  /\ exists = [p \in Pipelines |-> TRUE]
  /\ deletionTimestamp = [p \in Pipelines |-> FALSE]
  /\ finalizer = [p \in Pipelines |-> FALSE]
  /\ spec \in [Pipelines -> Specs]
  /\ serviceName = [p \in Pipelines |-> FALSE]
  /\ queued = [p \in Pipelines |-> TRUE]
  /\ serviceAccount = [p \in Pipelines |-> "None"]
  /\ roleBinding = [p \in Pipelines |-> FALSE]
  /\ clusterBinding = [n \in Names |-> Unbound]
  /\ tasks = [p \in Pipelines |-> <<>>]
  /\ tekton = [p \in Pipelines |-> None]
  /\ trigger = [p \in Pipelines |-> 0]
  /\ run = [p \in Pipelines |-> NoRun]
  /\ pods = [p \in Pipelines |-> {}]
  /\ edits = MaxEdits
  /\ mishaps = MaxMishaps

Next == \E p \in Pipelines : Reconcile(p) \/ Environment(p)

Spec == Init /\ [][Next]_vars

\* The work queue hands out every Pipeline that is queued.
Fairness == \A p \in Pipelines : WF_vars(Reconcile(p))

FairSpec == Spec /\ Fairness
-----------------------------------------------------------------------------
(* Properties. *)

\* Type correctness: the Tekton tasks come from a template or from a custom
\* task, and chains from a spec (RenderTask, RenderPipeline).
\* Checked as a part of TasksRunInOrder.
TypeOK ==
  /\ {exists, deletionTimestamp, finalizer, serviceName, queued, roleBinding} \subseteq [Pipelines -> BOOLEAN]
  /\ spec \in [Pipelines -> Specs]
  /\ serviceAccount \in [Pipelines -> {"None", "Plain", "Chained"}]
  /\ \A n \in Names : clusterBinding[n] \in Pipelines \/ clusterBinding[n] = Unbound
  /\ trigger \in [Pipelines -> 0..3]
  /\ \A p \in Pipelines :
       /\ DOMAIN tasks[p] \subseteq TaskTemplate
            \cup {t.name : t \in {x \in UNION {Range(s) : s \in Specs} : x.custom # "nil"}}
       /\ tekton[p] \in {None} \cup {RenderPipeline(s) : s \in Specs}
       /\ run[p].of \in {None} \cup {RenderPipeline(s) : s \in Specs}
       /\ pods[p] \subseteq DOMAIN run[p].state
  /\ edits \in Nat /\ mishaps \in Nat

\* "All tasks are strictly executed in the order defined by the user, with each
\* task starting only after the previous one is completed": whatever is edited
\* or applied again while a run is on its way, a task is started only when
\* git-clone and the tasks before it in the spec of that run have succeeded.
TasksRunInOrder ==
  /\ TypeOK
  /\ \A p \in Pipelines : run[p].of # None => LET s == Rendered(run[p].of.spec) IN
       \A i \in 1..Len(s) : run[p].state[s[i].name] # "Waiting" =>
         /\ run[p].state["git-clone"] = "Succeeded"
         /\ \A j \in 1..(i - 1) : run[p].state[s[j].name] = "Succeeded"

\* A spec that can be rendered is applied in the end, and reported, whatever
\* cut earlier calls short, and whatever earlier specs could not be rendered:
\* the chain is the one of this spec, and each Tekton task is what the spec says.
SpecApplied ==
  \A p \in Pipelines : \A s \in {x \in Specs : Applicable(x) = allObjects(x)} :
    <>[](exists[p] /\ ~deletionTimestamp[p] /\ spec[p] = s) =>
      <>[](/\ serviceName[p] /\ trigger[p] = 3
           /\ tekton[p] = RenderPipeline(s)
           /\ \A t \in Range(s) : taskObject(t) \in DOMAIN tasks[p]
           /\ \A t \in Range(s) : t.name \in DOMAIN tasks[p] => tasks[p][t.name] = RenderTask(t))

=============================================================================

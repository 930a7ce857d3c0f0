------------------------------ MODULE Workflow ------------------------------
(***************************************************************************)
(* The linear workflow engine: instances of a template run on a document,  *)
(* one open task at a time, and finish after the template's last step.     *)
(* Documents are uploaded, moved between boxes, deleted and related to     *)
(* each other meanwhile, and administrators edit the steps.                *)
(*                                                                         *)
(* A request is one atomic step here.  What the code leaves to             *)
(* transaction.on_commit is a step of its own that any other request may   *)
(* precede.  It is lost when its process dies in between, or when it, or   *)
(* what the same transaction has registered before it, raises in a process *)
(* that lives on.                                                          *)
(*                                                                         *)
(* A definition introduced by "Error:" is a wrong version of the one after *)
(* it; PROJECT.json names the property that each of them breaks.           *)
(***************************************************************************)
EXTENDS Integers, FiniteSets

CONSTANTS
    Docs,         \* documents
    Boxes,        \* document spaces
    Templates,    \* active workflow templates
    Automatic,    \* those with trigger_type DOCUMENT_CREATED
    Spaces,       \* document_spaces of a template, {} for every box
    Steps,        \* ids of workflow steps
    NoStep,       \* a current_step of NULL
    Config,       \* what a step is: template, kind, and for relation steps
                  \* boxes, done (requires_completed_workflow) and min
    FirstOrder,   \* the steps that exist at first, with their sort_order
    SortOrders,   \* bound: values an administrator gives sort_order
    Bounds        \* sets of bounds, of which one holds from the start

Kinds == {"task", "metadata", "relation"}

ASSUME ConstantsAssumption ==
    /\ IsFiniteSet(Docs) /\ IsFiniteSet(Templates) /\ IsFiniteSet(Steps)
    /\ Boxes # {}
    /\ Automatic \subseteq Templates
    /\ Spaces \in [Templates -> SUBSET Boxes]
    /\ Steps \subseteq Nat /\ NoStep \notin Steps
    /\ Config \in [Steps -> [template : Templates, kind : Kinds,
                             boxes : SUBSET Boxes, done : BOOLEAN, min : Nat]]
    /\ SortOrders \subseteq Nat
    /\ DOMAIN FirstOrder \subseteq Steps
    /\ FirstOrder \in [DOMAIN FirstOrder -> Nat]
    /\ Bounds \subseteq [docs : Nat,        \* documents uploaded
                         changes : Nat,     \* moves and manual starts
                         edits : Nat,       \* changes of the steps
                         failures : Nat]    \* callbacks that are lost

VARIABLES
    doc,       \* the document rows
    related,   \* document relations, each a set of two documents
    order,     \* sort_order of the steps that exist
    instance,  \* instance rows, by <<template, document, number>>
    task,      \* status of the tasks, by <<instance, step, number>>
    pending,   \* on_commit starts still to run, by document and its box then
    missed,    \* those lost of which no later one has made good
    changes, edits, failures,  \* counters of what the bounds limit
    bound      \* the bounds that hold

vars == <<doc, related, order, instance, task, pending, missed, changes, edits, failures, bound>>

\* The rows: steps with their sort_order, and tasks with their status.
WorkflowStep == [DOMAIN order -> Nat]

WorkflowInstance ==
    [DOMAIN instance -> [status : {"running", "completed", "cancelled"},
                         current : DOMAIN order \cup {NoStep}]]

WorkflowTask == [DOMAIN task -> {"open", "completed", "cancelled"}]

Rows == [instance |-> instance, task |-> task]

NoDoc == [status |-> "none", box |-> CHOOSE b \in Boxes : TRUE,
          filled |-> FALSE, auto |-> FALSE]

Active(d) == doc[d].status = "active"

InstancesOf(d) == {i \in DOMAIN instance : i[2] = d}
OpenTasks(i) == {t \in DOMAIN task : t[1] = i /\ task[t] = "open"}

(***************************************************************************)
(* Steps and their order.                                                  *)
(***************************************************************************)

\* order_by("sort_order", "id").first()
FirstOf(S) ==
    IF S = {} THEN NoStep
    ELSE CHOOSE s \in S : \A u \in S : \/ order[s] < order[u]
                                       \/ order[s] = order[u] /\ s <= u

StepsOf(t) == {s \in DOMAIN order : Config[s].template = t}

Later(s) == {u \in StepsOf(Config[s].template) : order[u] > order[s]}

NextStep(s) == FirstOf(Later(s))

(***************************************************************************)
(* When a step is satisfied without anybody completing it.                 *)
(***************************************************************************)

WorkflowDone(d, inst) ==
    \E i \in DOMAIN inst : i[2] = d /\ inst[i].status = "completed"

RelatedFor(s, d, rel, inst) ==
    {e \in Docs \ {d} :
        /\ {d, e} \in rel
        /\ Active(e)
        /\ Config[s].boxes = {} \/ doc[e].box \in Config[s].boxes
        /\ Config[s].done => WorkflowDone(e, inst)}

RelationMet(s, d, rel, inst) ==
    Cardinality(RelatedFor(s, d, rel, inst)) >= Config[s].min

\* Error: filled metadata satisfies a step of any kind.
SatisfiedByMetadata(s, d, rel, inst) ==
    \/ doc[d].filled
    \/ Config[s].kind = "relation" /\ RelationMet(s, d, rel, inst)

\* the steps _advance_instance_to_step completes by itself
Satisfied(s, d, rel, inst) ==
    \/ Config[s].kind = "metadata" /\ doc[d].filled
    \/ Config[s].kind = "relation" /\ RelationMet(s, d, rel, inst)

\* the steps _next_step leads through from s on: of the later steps with the
\* same sort_order it only ever returns the first
Path(s) ==
    {s} \cup {u \in Later(s) : \A v \in Later(s) : order[v] = order[u] => u <= v}

\* where _advance_instance_to_step(step=s) stops and creates a task
Landing(s, d, rel, inst) ==
    IF s = NoStep THEN NoStep
    ELSE FirstOf({u \in Path(s) : ~ Satisfied(u, d, rel, inst)})

(***************************************************************************)
(* What a request writes: db is a pair of instance and task rows.          *)
(***************************************************************************)

NewRow == [status |-> "running", current |-> NoStep]

Advanced(row, s) ==
    IF s = NoStep THEN [status |-> "completed", current |-> NoStep]
    ELSE [row EXCEPT !.current = s]

\* _create_task_for_step
NewTask(i, s, tsk) ==
    <<i, s, 1 + Cardinality({t \in DOMAIN tsk : t[1] = i /\ t[2] = s})>>

\* _advance_instance_to_step for the instances that target gives a step, of
\* which those not in db yet are created; the tasks in done are completed.
Advance(db, target, done) ==
    LET new == {NewTask(i, target[i], db.task) :
                  i \in {j \in DOMAIN target : target[j] # NoStep}}
    IN  [instance |-> [i \in DOMAIN db.instance \cup DOMAIN target |->
                         IF i \notin DOMAIN target THEN db.instance[i]
                         ELSE Advanced(IF i \in DOMAIN db.instance
                                       THEN db.instance[i] ELSE NewRow, target[i])],
         task |-> [t \in DOMAIN db.task \cup new |->
                     IF t \in new THEN "open"
                     ELSE IF t \in done THEN "completed" ELSE db.task[t]]]

\* Error: every task is cancelled, completed ones too.
CancelAllTasks(d) ==
    LET stopped == {i \in InstancesOf(d) : instance[i].status = "running"}
    IN  [instance |-> [i \in DOMAIN instance |->
                         IF i \in stopped
                         THEN [status |-> "cancelled", current |-> NoStep]
                         ELSE instance[i]],
         task |-> [t \in DOMAIN task |->
                     IF t[1] \in stopped THEN "cancelled" ELSE task[t]]]

\* Error: the tasks of a cancelled instance stay open.
CancelInstancesOnly(d) ==
    [instance |-> [i \in DOMAIN instance |->
                     IF i \in InstancesOf(d) /\ instance[i].status = "running"
                     THEN [status |-> "cancelled", current |-> NoStep]
                     ELSE instance[i]],
     task |-> task]

\* CancelRunningWorkflowsForDocument
Cancelled(d) ==
    LET stopped == {i \in InstancesOf(d) : instance[i].status = "running"}
    IN  [instance |-> [i \in DOMAIN instance |->
                         IF i \in stopped
                         THEN [status |-> "cancelled", current |-> NoStep]
                         ELSE instance[i]],
         task |-> [t \in DOMAIN task |->
                     IF t[1] \in stopped /\ task[t] = "open"
                     THEN "cancelled" ELSE task[t]]]

\* RefreshRelationWorkflowTasksForDocument
Refreshed(d, rel, db) ==
    LET met == {t \in DOMAIN db.task :
                  /\ t[1][2] = d /\ db.task[t] = "open"
                  /\ Config[t[2]].kind = "relation"
                  /\ RelationMet(t[2], d, rel, db.instance)}
        step(i) == (CHOOSE t \in met : t[1] = i)[2]
    IN  Advance(db, [i \in {t[1] : t \in met} |->
                       Landing(NextStep(step(i)), d, rel, db.instance)], met)

Write(db) == instance' = db.instance /\ task' = db.task

(***************************************************************************)
(* Starting workflows.                                                     *)
(***************************************************************************)

Applies(t, b) == Spaces[t] = {} \/ b \in Spaces[t]

Started(ts, d) ==
    LET number(t) == 1 + Cardinality({i \in InstancesOf(d) : i[1] = t})
    IN  Advance(Rows, [i \in {<<t, d, number(t)>> : t \in ts} |->
                         Landing(FirstOf(StepsOf(i[1])), d, related, instance)], {})

\* StartWorkflowForDocument from the document page, which offers the
\* templates that are started manually
StartWorkflow(t, d) ==
    /\ Active(d)
    /\ t \in Templates \ Automatic
    /\ Applies(t, doc[d].box)
    /\ changes < bound.changes
    /\ changes' = changes + 1
    /\ Write(Started({t}, d))
    /\ UNCHANGED <<doc, related, order, pending, missed, edits, failures, bound>>

\* Error: a workflow cancelled by an earlier move counts as an instance.
MissingCountingCancelled(d, b) ==
    {t \in Automatic : Applies(t, b) /\ \A i \in InstancesOf(d) : i[1] # t}

\* Error: a workflow that ran to its end does not count as an instance.
MissingWhileRunning(d, b) ==
    {t \in Automatic : /\ Applies(t, b)
                       /\ \A i \in InstancesOf(d) :
                             i[1] = t => instance[i].status # "running"}

\* the templates StartMatchingWorkflowsForDocument starts for d in box b
MissingWorkflows(d, b) ==
    {t \in Automatic : /\ Applies(t, b)
                       /\ \A i \in InstancesOf(d) :
                             i[1] = t => instance[i].status = "cancelled"}

\* the on_commit callback, with the document as it was in memory
StartMatching(d, b) ==
    /\ pending[<<d, b>>] > 0
    /\ pending' = [pending EXCEPT ![<<d, b>>] = @ - 1]
    /\ missed' = missed \ {<<d, b>>}
    /\ Write(Started(MissingWorkflows(d, b), d))
    /\ UNCHANGED <<doc, related, order, changes, edits, failures, bound>>

\* The process dies between its commit and the callback; or the callback is
\* dropped, as that of an upload is when the one before it, which starts OCR or
\* a conversion, raises; or it raises itself.
StartDropped(d, b) ==
    /\ pending[<<d, b>>] > 0
    /\ failures < bound.failures
    /\ failures' = failures + 1
    /\ pending' = [pending EXCEPT ![<<d, b>>] = @ - 1]
    /\ missed' = missed \cup {<<d, b>>}
    /\ UNCHANGED <<doc, related, order, instance, task, changes, edits, bound>>

(***************************************************************************)
(* Requests about documents.                                               *)
(***************************************************************************)

\* CreateDocumentFromUpload; auto is the import source's start_workflows
Upload(d, b, auto) ==
    /\ doc[d].status = "none"
    /\ Cardinality({e \in Docs : doc[e].status # "none"}) < bound.docs
    /\ doc' = [doc EXCEPT ![d] = [status |-> "active", box |-> b,
                                  filled |-> FALSE, auto |-> auto]]
    /\ pending' = [pending EXCEPT ![<<d, b>>] = IF auto THEN @ + 1 ELSE @]
    /\ UNCHANGED <<related, order, instance, task, missed, changes, edits, failures, bound>>

\* Error: the running workflows of the old box go on.
MoveKeepingWorkflows(d, b) ==
    /\ Active(d) /\ doc[d].box # b
    /\ changes < bound.changes
    /\ changes' = changes + 1
    /\ doc' = [doc EXCEPT ![d].box = b, ![d].auto = TRUE]
    /\ pending' = [pending EXCEPT ![<<d, b>>] = @ + 1]
    /\ UNCHANGED <<related, order, instance, task, missed, edits, failures, bound>>

\* UpdateDocumentCoreMetadata with another box
Move(d, b) ==
    /\ Active(d) /\ doc[d].box # b
    /\ changes < bound.changes
    /\ changes' = changes + 1
    /\ doc' = [doc EXCEPT ![d].box = b, ![d].auto = TRUE]
    /\ Write(Cancelled(d))
    /\ pending' = [pending EXCEPT ![<<d, b>>] = @ + 1]
    /\ UNCHANGED <<related, order, missed, edits, failures, bound>>

DeleteDocument(d) ==
    /\ Active(d)
    /\ doc' = [doc EXCEPT ![d].status = "deleted"]
    /\ Write(Cancelled(d))
    /\ UNCHANGED <<related, order, pending, missed, changes, edits, failures, bound>>

\* UpdateDocumentMetadata, as far as complete-metadata steps ask for it, where no
\* field links documents automatically: the reconciliation of automatic
\* relations that ends the handler then finds nothing to add or remove.
SetMetadata(d) ==
    /\ Active(d)
    /\ doc' = [doc EXCEPT ![d].filled = ~ @]
    /\ UNCHANGED <<related, order, instance, task, pending, missed, changes, edits, failures, bound>>

\* Error: only the waiting tasks of the first document are looked at.
AddRelationOneSided(d, e) ==
    /\ d # e /\ Active(d) /\ Active(e)
    /\ related' = related \cup {{d, e}}
    /\ Write(Refreshed(d, related', Rows))
    /\ UNCHANGED <<doc, order, pending, missed, changes, edits, failures, bound>>

AddRelation(d, e) ==
    /\ d # e /\ Active(d) /\ Active(e)
    /\ related' = related \cup {{d, e}}
    /\ Write(Refreshed(e, related', Refreshed(d, related', Rows)))
    /\ UNCHANGED <<doc, order, pending, missed, changes, edits, failures, bound>>

RemoveRelation(pair) ==
    /\ pair \in related
    /\ related' = related \ {pair}
    /\ UNCHANGED <<doc, order, instance, task, pending, missed, changes, edits, failures, bound>>

(***************************************************************************)
(* Completing a task.                                                      *)
(***************************************************************************)

\* Error: what the step asks for is not looked at again.
CompleteUnchecked(t) ==
    /\ task[t] = "open"
    /\ LET i == t[1]  s == t[2]  d == t[1][2]
       IN  /\ Active(d)
           /\ Write(Advance(Rows, [j \in {i} |-> Landing(NextStep(s), d, related, instance)],
                            {t}))
    /\ UNCHANGED <<doc, related, order, pending, missed, changes, edits, failures, bound>>

CompleteTask(t) ==
    /\ task[t] = "open"
    /\ LET i == t[1]  s == t[2]  d == t[1][2]
       IN  /\ Active(d)
           /\ Config[s].kind # "task" => Satisfied(s, d, related, instance)
           /\ Write(Advance(Rows, [j \in {i} |-> Landing(NextStep(s), d, related, instance)],
                            {t}))
    /\ UNCHANGED <<doc, related, order, pending, missed, changes, edits, failures, bound>>

(***************************************************************************)
(* Editing the steps.                                                      *)
(***************************************************************************)

Edit ==
    /\ edits < bound.edits
    /\ edits' = edits + 1
    /\ UNCHANGED <<doc, related, instance, task, pending, missed, changes, failures, bound>>

\* CreateWorkflowStep
CreateStep(s, n) ==
    /\ Edit
    /\ s \notin DOMAIN order
    /\ order' = [u \in DOMAIN order \cup {s} |-> IF u = s THEN n ELSE order[u]]

\* UpdateWorkflowStep, the sort_order
SetSortOrder(s, n) ==
    /\ Edit
    /\ order' = [order EXCEPT ![s] = n]

\* ReorderWorkflowSteps: the submitted order, ten apart
ReorderSteps(t) ==
    /\ Edit
    /\ \E place \in [StepsOf(t) -> 1..Cardinality(StepsOf(t))] :
          /\ \A s, u \in StepsOf(t) : place[s] = place[u] => s = u
          /\ order' = [s \in DOMAIN order |-> IF s \in StepsOf(t) THEN 10 * place[s]
                                                                  ELSE order[s]]

\* Error: a step counts as used once one of its tasks was completed.
DeleteStepNotCompleted(s) ==
    /\ Edit
    /\ \A t \in DOMAIN task : t[2] = s => task[t] # "completed"
    /\ order' = [u \in DOMAIN order \ {s} |-> order[u]]

\* DeleteWorkflowStep
DeleteStep(s) ==
    /\ Edit
    /\ \A t \in DOMAIN task : t[2] # s
    /\ \A i \in DOMAIN instance : instance[i].current # s
    /\ order' = [u \in DOMAIN order \ {s} |-> order[u]]

(***************************************************************************)
(* The specification.                                                      *)
(***************************************************************************)

Init ==
    /\ doc = [d \in Docs |-> NoDoc]
    /\ related = {}
    /\ order = FirstOrder
    /\ instance = <<>> /\ task = <<>>
    /\ pending = [p \in Docs \X Boxes |-> 0]
    /\ missed = {}
    /\ changes = 0 /\ edits = 0 /\ failures = 0
    /\ bound \in Bounds

Callback == \E d \in Docs, b \in Boxes : StartMatching(d, b) \/ StartDropped(d, b)

DocumentRequest(d) ==
    \/ \E b \in Boxes : Move(d, b) \/ \E auto \in BOOLEAN : Upload(d, b, auto)
    \/ DeleteDocument(d)
    \/ SetMetadata(d)
    \/ \E e \in Docs : AddRelation(d, e)
    \/ \E t \in Templates : StartWorkflow(t, d)

EditSteps ==
    \/ \E s \in Steps, n \in SortOrders : CreateStep(s, n)
    \/ \E s \in DOMAIN order, n \in SortOrders : SetSortOrder(s, n)
    \/ \E s \in DOMAIN order : DeleteStep(s)
    \/ \E t \in Templates : ReorderSteps(t)

Next ==
    \/ Callback
    \/ \E d \in Docs : DocumentRequest(d)
    \/ \E pair \in related : RemoveRelation(pair)
    \/ \E t \in DOMAIN task : CompleteTask(t)
    \/ EditSteps

Spec == Init /\ [][Next]_vars

(***************************************************************************)
(* Properties.                                                             *)
(***************************************************************************)

InstanceIds == Templates \X Docs \X Nat

\* Every row is of its kind, and refers only to rows that exist: however the
\* steps are edited, those with tasks or with a waiting instance stay.
TypeOK ==
    /\ doc \in [Docs -> [status : {"none", "active", "deleted"}, box : Boxes,
                         filled : BOOLEAN, auto : BOOLEAN]]
    /\ related \subseteq SUBSET Docs
    /\ DOMAIN order \subseteq Steps /\ order \in WorkflowStep
    /\ DOMAIN instance \subseteq InstanceIds /\ instance \in WorkflowInstance
    /\ DOMAIN task \subseteq (DOMAIN instance) \X (DOMAIN order) \X Nat
    /\ task \in WorkflowTask
    /\ pending \in [Docs \X Boxes -> Nat]
    /\ missed \subseteq Docs \X Boxes
    /\ changes \in Nat /\ edits \in Nat /\ failures \in Nat
    /\ bound \in Bounds

\* A running instance waits for exactly one task, the one of its current step,
\* so it is neither stuck nor split; a finished one has no open task left on
\* anybody's list.
OneOpenTask ==
    \A i \in DOMAIN instance :
        IF instance[i].status = "running"
        THEN \E t \in OpenTasks(i) : OpenTasks(i) = {t} /\ t[2] = instance[i].current
        ELSE OpenTasks(i) = {} /\ instance[i].current = NoStep

\* While nobody edits the steps, a completed workflow has gone through each of
\* its ordinary steps: somebody completed a task of every one of them.
\* The help centre promises the necessary checks in the right order.
EveryStepDone ==
    \A i \in DOMAIN instance : edits = 0 /\ instance[i].status = "completed" =>
        \A s \in StepsOf(i[1]) : Config[s].kind = "task" =>
            \E t \in DOMAIN task : t[1] = i /\ t[2] = s /\ task[t] = "completed"

\* A workflow only moves forward in the order its steps have at the time,
\* also when an administrator reorders them while it runs.  RunsWalk contains it.
ForwardOnly ==
    [][\A i \in DOMAIN instance :
          LET old == instance[i].current  new == instance'[i].current
          IN  old # NoStep /\ new \notin {old, NoStep} => order[old] < order[new]]_vars

\* What is finished stays as it is: no request changes a finished instance, or
\* a task that was completed or cancelled.
HistoryIsFinal ==
    [][/\ \A i \in DOMAIN instance :
             instance[i].status # "running" => instance'[i] = instance[i]
       /\ \A t \in DOMAIN task : task[t] # "open" => task'[t] = task[t]]_vars

\* A document whose last arrival in its box was to start workflows has one of
\* every automatic template that names this very box, or none, once its callback
\* has run: a callback that is late, or was lost for another box or another
\* document, takes none away.  A callback that was itself lost is not repeated;
\* only a later arrival in the same box makes good for it.
AutoStarted ==
    \A d \in Docs :
        LET arrival == <<d, doc[d].box>>
        IN  Active(d) /\ doc[d].auto /\ pending[arrival] = 0 /\ arrival \notin missed =>
                \A t \in Automatic : Applies(t, doc[d].box) =>
                    \E i \in InstancesOf(d) : i[1] = t /\ instance[i].status # "cancelled"

\* The runs as the abstract specification sees them.
Walk == INSTANCE WorkflowRuns WITH
    run <- instance,
    met <- [i \in DOMAIN instance |-> {s \in DOMAIN order : Satisfied(s, i[2], related, instance)}]

\* With all its requests and callbacks, the engine does nothing but walk
\* each workflow through its steps: whatever completes a task, the workflow goes
\* on only when what its step asks for is there, and passes over no step that
\* still waits for something, of those that count where sort_orders are equal.
RunsWalk == Walk!Spec

\* However often a document leaves a box and comes back, an automatic template
\* has at most one instance for it that was not cancelled.
OneAutomaticRun ==
    \A i, j \in DOMAIN instance :
        /\ i[1] = j[1] /\ i[2] = j[2] /\ i[1] \in Automatic
        /\ instance[i].status # "cancelled" /\ instance[j].status # "cancelled"
        => i = j

\* A task that waits for related documents, of any box and in any state of
\* their own workflows, does not go on waiting once enough are related.
RelationTasksWait ==
    \A t \in DOMAIN task :
        /\ task[t] = "open" /\ Config[t[2]].kind = "relation"
        /\ Config[t[2]].boxes = {} /\ ~ Config[t[2]].done
        => ~ RelationMet(t[2], t[1][2], related, instance)

\* Running workflows that are on a deleted document, or not meant for its box.
Misplaced ==
    {i \in DOMAIN instance :
        instance[i].status = "running" /\ ~ (Active(i[2]) /\ Applies(i[1], doc[i[2]].box))}

\* Nothing leaves a workflow running on a document that is deleted, or in a box
\* its template is not meant for, but one callback: that of an earlier arrival,
\* which a move or the deletion of the document has overtaken.
RunningFits ==
    [][\A i \in Misplaced' \ Misplaced :
          \E b \in Boxes : StartMatching(i[2], b) /\ ~ (Active(i[2]) /\ doc[i[2]].box = b)]_vars

=============================================================================

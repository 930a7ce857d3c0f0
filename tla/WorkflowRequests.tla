-------------------------- MODULE WorkflowRequests --------------------------
(***************************************************************************)
(* One workflow instance and the web requests that overlap on it.          *)
(*                                                                         *)
(* A request reads the rows it works on without locking them and writes    *)
(* later, from its copy in memory: a completion has loaded its task while  *)
(* that was open, a cancellation (document moved or deleted) has listed    *)
(* the instance while it was running.  Under READ COMMITTED anything may   *)
(* commit in between.  Every step of the template is an ordinary one;      *)
(* Workflow models the other kinds, one request at a time.                 *)
(***************************************************************************)
EXTENDS Integers, Sequences

CONSTANTS
    Requests,  \* requests the web workers serve at the same time
    Last       \* the number of steps; their ids follow their sort_order

ASSUME ConstantsAssumption == Last \in Nat \ {0}

NoStep == 0

VARIABLES
    instance,  \* the instance row: status and current_step
    tasks,     \* its task rows in the order they were created
    request    \* per request: what it is about to do, and the task it loaded

vars == <<instance, tasks, request>>

Idle == [pc |-> "idle", task |-> 0]

(***************************************************************************)
(* Completing a task.                                                      *)
(***************************************************************************)

\* The view's get_object_or_404(..., status=OPEN).
LoadTask(r) ==
    /\ request[r] = Idle
    /\ \E t \in DOMAIN tasks :
          /\ tasks[t].status = "open"
          /\ request' = [request EXCEPT ![r] = [pc |-> "complete", task |-> t]]
    /\ UNCHANGED <<instance, tasks>>

\* Error: one step past the last.
StepPastLast(s) == IF s <= Last THEN s + 1 ELSE NoStep

\* Error: the step after the next.
StepAfterNext(s) == IF s + 1 < Last THEN s + 2 ELSE NoStep

NextStep(s) == IF s < Last THEN s + 1 ELSE NoStep

\* Error: save() without update_fields writes the status it once read, too.
SavedWhole(s) ==
    IF s = NoStep THEN [status |-> "completed", current |-> NoStep]
    ELSE [status |-> "running", current |-> s]

\* the instance row after _advance_instance_to_step
Saved(s) ==
    IF s = NoStep THEN [status |-> "completed", current |-> NoStep]
    ELSE [instance EXCEPT !.current = s]

\* Error: the last step but one is taken for the end.
TasksShort(done, s) ==
    IF s \in {NoStep, Last} THEN done ELSE Append(done, [step |-> s, status |-> "open"])

\* the task rows after _create_task_for_step
TasksFor(done, s) ==
    IF s = NoStep THEN done ELSE Append(done, [step |-> s, status |-> "open"])

\* CompleteWorkflowTask: "Workflow task is not open." is only asked of the
\* object in memory, which was open when the view loaded it.
CompleteTask(r) ==
    /\ request[r].pc = "complete"
    /\ LET t == request[r].task
           next == NextStep(tasks[t].step)
       IN  /\ tasks' = TasksFor([tasks EXCEPT ![t].status = "completed"], next)
           /\ instance' = Saved(next)
    /\ request' = [request EXCEPT ![r] = Idle]

(***************************************************************************)
(* Moving or deleting the document.                                        *)
(***************************************************************************)

\* CancelRunningWorkflowsForDocument lists the running instances ...
ListRunning(r) ==
    /\ request[r] = Idle
    /\ instance.status = "running"
    /\ request' = [request EXCEPT ![r].pc = "cancel"]
    /\ UNCHANGED <<instance, tasks>>

\* ... and cancels what it listed.
CancelInstance(r) ==
    /\ request[r].pc = "cancel"
    /\ tasks' = [t \in DOMAIN tasks |->
                   IF tasks[t].status = "open" THEN [tasks[t] EXCEPT !.status = "cancelled"]
                                               ELSE tasks[t]]
    /\ instance' = [status |-> "cancelled", current |-> NoStep]
    /\ request' = [request EXCEPT ![r] = Idle]

(***************************************************************************)
(* The specification.                                                      *)
(***************************************************************************)

\* StartWorkflowForDocument has created the instance and its first task.
Init ==
    /\ instance = [status |-> "running", current |-> 1]
    /\ tasks = <<[step |-> 1, status |-> "open"]>>
    /\ request = [r \in Requests |-> Idle]

Next == \E r \in Requests :
    LoadTask(r) \/ CompleteTask(r) \/ ListRunning(r) \/ CancelInstance(r)

Spec == Init /\ [][Next]_vars

(***************************************************************************)
(* Properties.                                                             *)
(***************************************************************************)

\* Every row and request is of its kind.
TypeOK ==
    /\ instance \in [status : {"running", "completed", "cancelled"}, current : 0..Last]
    /\ tasks \in Seq([step : 1..Last, status : {"open", "completed", "cancelled"}])
    /\ request \in [Requests -> [pc : {"idle", "complete", "cancel"}, task : Nat]]
    /\ \A r \in Requests : request[r].pc = "complete" => request[r].task \in DOMAIN tasks

\* However requests overlap, a running workflow is never stuck: there is an
\* open task of it that somebody can complete.
RunningHasTask ==
    instance.status = "running" => \E t \in DOMAIN tasks : tasks[t].status = "open"

\* However requests overlap, a task is only created once every step before its
\* own was completed, and a completed workflow has every step completed.
NoStepSkipped ==
    LET Done(s) == \E t \in DOMAIN tasks : tasks[t] = [step |-> s, status |-> "completed"]
    IN  /\ \A t \in DOMAIN tasks : \A s \in 1..(tasks[t].step - 1) : Done(s)
        /\ instance.status = "completed" => \A s \in 1..Last : Done(s)

\* However requests overlap, a workflow that has ended never runs again.
NeverReopened ==
    [][instance.status # "running" => instance'.status # "running"]_vars

\* A task is completed only while it is open: CompleteWorkflowTask refuses
\* any other with "Workflow task is not open.".
CompletedWhileOpen ==
    [][\A t \in DOMAIN tasks :
          tasks'[t].status = "completed" => tasks[t].status \in {"open", "completed"}]_vars

=============================================================================

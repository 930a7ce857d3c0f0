----------------------- MODULE WorkflowRequestsProofs -----------------------
(***************************************************************************)
(* What overlapping requests cannot break, for any number of requests and  *)
(* of steps: a running workflow has an open task, no step is skipped, and  *)
(* a workflow that ended does not run again.                               *)
(***************************************************************************)
EXTENDS WorkflowRequests, SequenceTheorems, TLAPS

\* Every row and request is of its kind, and a request that completes a task
\* refers to one that exists: task rows are never deleted.
THEOREM TypeCorrect == Spec => []TypeOK
<1> USE ConstantsAssumption
<1>1. Init => TypeOK
  BY DEF Init, TypeOK, Idle
<1>2. TypeOK /\ [Next]_vars => TypeOK'
  <2> SUFFICES ASSUME TypeOK, [Next]_vars PROVE TypeOK'
    OBVIOUS
  <2>1. ASSUME NEW r \in Requests, LoadTask(r) PROVE TypeOK'
    BY <2>1 DEF LoadTask, TypeOK, Idle
  <2>2. ASSUME NEW r \in Requests, CompleteTask(r) PROVE TypeOK'
    <3> DEFINE t == request[r].task
               next == NextStep(tasks[t].step)
               Row == [step : 1..Last, status : {"open", "completed", "cancelled"}]
               done == [tasks EXCEPT ![t].status = "completed"]
    <3>1. t \in DOMAIN tasks /\ tasks[t] \in Row
      <4>1. request[r].pc = "complete"
        BY <2>2, SMTT(30) DEF CompleteTask
      <4>2. t \in DOMAIN tasks
        BY <4>1 DEF TypeOK
      <4>3. tasks \in Seq(Row)
        BY DEF TypeOK
      <4> HIDE DEF t, Row
      <4> QED BY <4>2, <4>3
    <3>2. next \in 0..Last
      BY <3>1 DEF NextStep, NoStep
    <3>3. done \in Seq(Row) /\ Len(done) = Len(tasks) /\ DOMAIN done = DOMAIN tasks
      BY <3>1 DEF TypeOK
    <3>4. /\ tasks' \in Seq(Row)
          /\ Len(tasks) <= Len(tasks') 
      <4>1. CASE next = NoStep
        BY <4>1, <2>2, <3>3 DEF CompleteTask, TasksFor
      <4>2. CASE next # NoStep
        <5>1. [step |-> next, status |-> "open"] \in Row
          BY <4>2, <3>2 DEF NoStep
        <5>2. tasks' = Append(done, [step |-> next, status |-> "open"])
          BY <4>2, <2>2 DEF CompleteTask, TasksFor
        <5> QED BY <5>1, <5>2, <3>3
      <4> QED BY <4>1, <4>2
    <3>5. instance' \in [status : {"running", "completed", "cancelled"}, current : 0..Last]
      BY <2>2, <3>2 DEF CompleteTask, Saved, TypeOK, NoStep
    <3>6. request' \in [Requests -> [pc : {"idle", "complete", "cancel"}, task : Nat]]
      BY <2>2 DEF CompleteTask, TypeOK, Idle
    <3>7. \A q \in Requests : request'[q].pc = "complete" => request'[q].task \in DOMAIN tasks'
      <4>1. DOMAIN tasks \subseteq DOMAIN tasks'
        BY <3>4 DEF TypeOK
      <4> QED BY <4>1, <2>2 DEF CompleteTask, TypeOK, Idle
    <3> QED BY <3>4, <3>5, <3>6, <3>7 DEF TypeOK
  <2>3. ASSUME NEW r \in Requests, ListRunning(r) PROVE TypeOK'
    BY <2>3 DEF ListRunning, TypeOK, Idle
  <2>4. ASSUME NEW r \in Requests, CancelInstance(r) PROVE TypeOK'
    <3>1. /\ tasks' \in Seq([step : 1..Last, status : {"open", "completed", "cancelled"}])
          /\ DOMAIN tasks' = DOMAIN tasks
      <4> DEFINE Row == [step : 1..Last, status : {"open", "completed", "cancelled"}]
                 after(t) == IF tasks[t].status = "open"
                             THEN [tasks[t] EXCEPT !.status = "cancelled"] ELSE tasks[t]
      <4>1. DOMAIN tasks = 1..Len(tasks) /\ Len(tasks) \in Nat /\ tasks \in [1..Len(tasks) -> Row]
        <5>1. tasks \in Seq(Row)
          BY DEF TypeOK
        <5> HIDE DEF Row
        <5> QED BY <5>1, LenProperties
      <4>2. tasks' = [t \in 1..Len(tasks) |-> after(t)]
        BY <4>1, <2>4 DEF CancelInstance
      <4>3. \A t \in 1..Len(tasks) : after(t) \in Row
        BY <4>1
      <4>4. tasks' \in [1..Len(tasks) -> Row] /\ DOMAIN tasks' = 1..Len(tasks)
        <5> HIDE DEF after, Row
        <5> QED BY <4>2, <4>3
      <4> HIDE DEF Row
      <4>5. tasks' \in Seq(Row)
        BY <4>1, <4>4, SeqDef
      <4> QED BY <4>1, <4>4, <4>5 DEF Row
    <3> QED BY <3>1, <2>4 DEF CancelInstance, TypeOK, Idle, NoStep
  <2>5. CASE UNCHANGED vars
    BY <2>5 DEF vars, TypeOK
  <2> QED BY <2>1, <2>2, <2>3, <2>4, <2>5 DEF Next
<1> QED BY <1>1, <1>2, PTL DEF Spec

\* A running workflow is never stuck: whatever requests overlap, it has an
\* open task.
THEOREM NeverStuck == Spec => []RunningHasTask
<1> USE ConstantsAssumption
<1>1. Init => RunningHasTask
  BY DEF Init, RunningHasTask
<1>2. TypeOK /\ RunningHasTask /\ [Next]_vars => RunningHasTask'
  <2> SUFFICES ASSUME TypeOK, RunningHasTask, [Next]_vars PROVE RunningHasTask'
    OBVIOUS
  <2>1. ASSUME NEW r \in Requests, LoadTask(r) PROVE RunningHasTask'
    BY <2>1 DEF LoadTask, RunningHasTask
  <2>2. ASSUME NEW r \in Requests, CompleteTask(r) PROVE RunningHasTask'
    <3> DEFINE t == request[r].task
               next == NextStep(tasks[t].step)
               done == [tasks EXCEPT ![t].status = "completed"]
    <3>1. CASE next = NoStep
      BY <3>1, <2>2 DEF CompleteTask, Saved, RunningHasTask
    <3>2. CASE next # NoStep
      <4>1. Len(done) = Len(tasks) /\ Len(tasks) \in Nat
        BY DEF TypeOK
      <4>2. tasks' = Append(done, [step |-> next, status |-> "open"])
        BY <3>2, <2>2 DEF CompleteTask, TasksFor
      <4>3. Len(tasks) + 1 \in DOMAIN tasks' /\ tasks'[Len(tasks) + 1].status = "open"
        BY <4>1, <4>2 DEF TypeOK
      <4> QED BY <4>3 DEF RunningHasTask
    <3> QED BY <3>1, <3>2
  <2>3. ASSUME NEW r \in Requests, ListRunning(r) PROVE RunningHasTask'
    BY <2>3 DEF ListRunning, RunningHasTask
  <2>4. ASSUME NEW r \in Requests, CancelInstance(r) PROVE RunningHasTask'
    BY <2>4 DEF CancelInstance, RunningHasTask
  <2>5. CASE UNCHANGED vars
    BY <2>5 DEF vars, RunningHasTask
  <2> QED BY <2>1, <2>2, <2>3, <2>4, <2>5 DEF Next
<1> QED BY <1>1, <1>2, TypeCorrect, PTL DEF Spec

\* No step is skipped, whatever requests overlap: a task exists only if every
\* earlier step was completed, so the last completion comes after all others.
THEOREM AllStepsDone == Spec => []NoStepSkipped
<1> USE ConstantsAssumption
<1> DEFINE Done(s) == \E t \in DOMAIN tasks : tasks[t] = [step |-> s, status |-> "completed"]
<1> DEFINE DoneThen(s) == \E t \in DOMAIN tasks' : tasks'[t] = [step |-> s, status |-> "completed"]
<1>1. Init => NoStepSkipped
  BY DEF Init, NoStepSkipped
<1>2. TypeOK /\ NoStepSkipped /\ [Next]_vars => NoStepSkipped'
  <2> SUFFICES ASSUME TypeOK, NoStepSkipped, [Next]_vars PROVE NoStepSkipped'
    OBVIOUS
  <2>0. /\ \A t \in DOMAIN tasks : \A s \in 1..(tasks[t].step - 1) : Done(s)
        /\ instance.status = "completed" => \A s \in 1..Last : Done(s)
    BY DEF NoStepSkipped
  <2>1. ASSUME NEW r \in Requests, LoadTask(r) PROVE NoStepSkipped'
    BY <2>1 DEF LoadTask, NoStepSkipped
  <2>2. ASSUME NEW r \in Requests, CompleteTask(r) PROVE NoStepSkipped'
    <3> DEFINE t == request[r].task
               Row == [step : 1..Last, status : {"open", "completed", "cancelled"}]
               next == NextStep(tasks[t].step)
               done == [tasks EXCEPT ![t].status = "completed"]
    <3>1. t \in DOMAIN tasks
      BY <2>2, SMTT(30) DEF CompleteTask, TypeOK
    <3>2. tasks \in [DOMAIN tasks -> Row] /\ DOMAIN tasks = 1..Len(tasks) /\ Len(tasks) \in Nat
      <4>1. tasks \in Seq(Row)
        BY DEF TypeOK
      <4> HIDE DEF Row
      <4> QED BY <4>1, LenProperties
    <3>3. /\ done \in Seq(Row) /\ Len(done) = Len(tasks) /\ DOMAIN done = DOMAIN tasks
          /\ \A u \in DOMAIN tasks : done[u].step = tasks[u].step
          /\ done[t] = [step |-> tasks[t].step, status |-> "completed"]
          /\ \A u \in DOMAIN tasks : tasks[u].status = "completed" => done[u] = tasks[u]
      <4>1. done \in Seq(Row) /\ Len(done) = Len(tasks) /\ DOMAIN done = DOMAIN tasks
        BY <3>1, <3>2, SMTT(30) DEF TypeOK
      <4> QED BY <3>1, <3>2, <4>1
    <3>4. tasks' = TasksFor(done, next) /\ instance' = Saved(next)
      BY <2>2 DEF CompleteTask
    <3>5. /\ DOMAIN tasks \subseteq DOMAIN tasks'
          /\ \A u \in DOMAIN tasks : tasks'[u] = done[u]
          /\ \A u \in DOMAIN tasks' : u \notin DOMAIN tasks =>
                next # NoStep /\ tasks'[u].step = next
      <4>1. CASE next = NoStep
        BY <4>1, <3>3, <3>4 DEF TasksFor
      <4>2. CASE next # NoStep
        <5> DEFINE new == [step |-> next, status |-> "open"]
        <5>1. tasks' = Append(done, new)
          BY <4>2, <3>4 DEF TasksFor
        <5>2. /\ DOMAIN tasks' = 1..(Len(tasks) + 1)
              /\ \A u \in 1..Len(tasks) : tasks'[u] = done[u]
              /\ tasks'[Len(tasks) + 1] = new
          <6> HIDE DEF done, new
          <6> QED BY <5>1, <3>2, <3>3
        <5> QED BY <5>2, <3>2, <4>2
      <4> QED BY <4>1, <4>2
    <3>6. \A s : Done(s) => DoneThen(s)
      <4> SUFFICES ASSUME NEW s, NEW u \in DOMAIN tasks,
                          tasks[u] = [step |-> s, status |-> "completed"]
                   PROVE  DoneThen(s)
        OBVIOUS
      <4>1. done[u] = tasks[u]
        BY <3>3
      <4> HIDE DEF done
      <4> QED BY <4>1, <3>5
    <3>7. DoneThen(tasks[t].step)
      BY <3>1, <3>3, <3>5
    <3>8. \A s \in 1..tasks[t].step : DoneThen(s)
      <4>1. tasks[t].step \in 1..Last
        BY <3>1, <3>2
      <4>2. \A s \in 1..(tasks[t].step - 1) : Done(s)
        BY <2>0, <3>1
      <4> HIDE DEF Done, DoneThen
      <4> QED BY <4>1, <4>2, <3>6, <3>7
    <3>9. \A u \in DOMAIN tasks' : \A s \in 1..(tasks'[u].step - 1) : DoneThen(s)
      <4> TAKE u \in DOMAIN tasks'
      <4>1. CASE u \in DOMAIN tasks
        <5>1. tasks'[u].step = tasks[u].step
          BY <4>1, <3>3, <3>5
        <5> HIDE DEF Done, DoneThen
        <5> QED BY <5>1, <4>1, <2>0, <3>6
      <4>2. CASE u \notin DOMAIN tasks
        <5>1. tasks'[u].step = tasks[t].step + 1
          BY <4>2, <3>1, <3>2, <3>5 DEF NextStep, NoStep
        <5>2. tasks[t].step \in Nat
          BY <3>1, <3>2
        <5> HIDE DEF Done, DoneThen
        <5> QED BY <5>1, <5>2, <3>8
      <4> QED BY <4>1, <4>2
    <3>10. instance'.status = "completed" => \A s \in 1..Last : DoneThen(s)
      <4>1. CASE next = NoStep
        <5>1. tasks[t].step = Last
          BY <4>1, <3>1, <3>2 DEF NextStep, NoStep
        <5> HIDE DEF Done, DoneThen
        <5> QED BY <5>1, <3>8
      <4>2. CASE next # NoStep
        <5>1. instance'.status = instance.status
          BY <4>2, <3>4 DEF Saved, TypeOK
        <5> HIDE DEF Done, DoneThen
        <5> QED BY <5>1, <2>0, <3>6
      <4> QED BY <4>1, <4>2
    <3> HIDE DEF next
    <3> QED BY <3>9, <3>10 DEF NoStepSkipped
  <2>3. ASSUME NEW r \in Requests, ListRunning(r) PROVE NoStepSkipped'
    BY <2>3 DEF ListRunning, NoStepSkipped
  <2>4. ASSUME NEW r \in Requests, CancelInstance(r) PROVE NoStepSkipped'
    <3>1. /\ DOMAIN tasks' = DOMAIN tasks
          /\ \A t \in DOMAIN tasks : tasks'[t].step = tasks[t].step
          /\ \A t \in DOMAIN tasks : tasks[t].status = "completed" => tasks'[t] = tasks[t]
      BY <2>4 DEF CancelInstance, TypeOK
    <3>2. \A s : Done(s) => DoneThen(s)
      BY <3>1
    <3>3. instance'.status = "cancelled"
      BY <2>4 DEF CancelInstance
    <3> QED BY <2>0, <3>1, <3>2, <3>3 DEF NoStepSkipped
  <2>5. CASE UNCHANGED vars
    BY <2>5 DEF vars, NoStepSkipped
  <2> QED BY <2>1, <2>2, <2>3, <2>4, <2>5 DEF Next
<1> QED BY <1>1, <1>2, TypeCorrect, PTL DEF Spec

\* Nothing opens a workflow that ended: completed and cancelled may still
\* replace each other, running is never written again.
THEOREM EndIsFinal == Spec => NeverReopened
<1>1. TypeOK /\ [Next]_vars => (instance.status # "running" => instance'.status # "running")
  <2> SUFFICES ASSUME TypeOK, [Next]_vars, instance.status # "running"
               PROVE  instance'.status # "running"
    OBVIOUS
  <2>1. ASSUME NEW s PROVE Saved(s).status # "running"
    BY DEF TypeOK, Saved
  <2>2. ASSUME NEW r \in Requests, CompleteTask(r) PROVE instance'.status # "running"
    <3> HIDE DEF Saved
    <3> QED BY <2>1, <2>2 DEF CompleteTask
  <2>3. ASSUME NEW r \in Requests, CancelInstance(r) PROVE instance'.status # "running"
    BY <2>3 DEF CancelInstance
  <2> QED BY <2>2, <2>3 DEF Next, vars, LoadTask, ListRunning
<1> QED BY <1>1, TypeCorrect, PTL DEF Spec, NeverReopened

=============================================================================

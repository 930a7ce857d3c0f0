---------------------------- MODULE LeasedBoxJob ----------------------------
(***************************************************************************)
(* One maintenance job over a document box: the scan optimization job and  *)
(* the title refresh job, whose Claim / Run / resume code is the same up   *)
(* to the names of the settings.  Celery workers take a message, claim the *)
(* job row under a lease, work through one batch of documents and queue    *)
(* the next message; Celery Beat and the settings page resume a job whose  *)
(* lease ran out; an administrator may cancel it at any time.              *)
(*                                                                         *)
(* Time is kept as distances: the minutes left of the lease, the minutes   *)
(* left before Celery kills a task, the minutes since the last heartbeat.  *)
(*                                                                         *)
(* A definition introduced by "Error:" is a wrong version of the one after *)
(* it; PROJECT.json names the property that each of them breaks.           *)
(***************************************************************************)
EXTENDS Integers, FiniteSets

CONSTANTS
    Docs,        \* document ids; a box holds a subset of them
    Workers,     \* Celery worker processes
    Tokens,      \* lease tokens: the uuid4 values in use at one time
    NoToken,     \* a lease_token of NULL
    BatchSize,   \* *_BATCH_SIZE
    Lease,       \* *_LEASE_SECONDS
    TaskLimit,   \* CELERY_TASK_TIME_LIMIT
    StaleAfter,  \* *_STALE_AFTER_SECONDS
    MaxPlain,    \* bound: messages without a token waiting in the queue
    MaxFaults    \* bound: processes that die and messages that the broker refuses

ASSUME ConstantsAssumption ==
    /\ Docs \subseteq Nat \ {0} /\ IsFiniteSet(Docs)
    /\ NoToken \notin Tokens
    /\ BatchSize \in Nat \ {0}
    /\ Lease \in Nat /\ TaskLimit \in Nat /\ StaleAfter \in Nat
    /\ MaxPlain \in Nat /\ MaxFaults \in Nat

VARIABLES
    job,      \* the job row
    box,      \* ids of the ACTIVE documents now in the box
    created,  \* ids that were in the box when the job was created (history)
    stayed,   \* those of them that never left it since (history)
    visited,  \* documents some batch has worked on (history)
    worker,   \* per worker: the task it executes
    plain,    \* queued messages without lease_token_value
    queue,    \* lease_token_value of the queued messages that carry one
    resumer,  \* beat's resume task and the settings page's resume request
    faults,   \* how often a fault happened (bounded by MaxFaults)
    wrong     \* which faults there were (history)

vars == <<job, box, created, stayed, visited, worker, plain, queue, resumer, faults, wrong>>

Resumers == {"beat", "web"}

\* What goes wrong: a process dies; or it lives and .delay raises, because the
\* broker is not reached, in the request that creates the job, in a worker's
\* task, or in a resume.
Faults == {"death", "create", "task"} \cup Resumers

Open == {"queued", "running"}
Finished == {"completed", "failed"}

WorkerPCs == {"idle", "claimed", "batch", "stored", "closing", "return"}

Statuses == {"absent"} \cup Open \cup Finished

Row == [status : Statuses, total : Nat, processed : Nat,
        last : Nat, max : Nat, token : Tokens \cup {NoToken},
        lease : Nat, age : Nat]

NoJob == [status |-> "absent", total |-> 0, processed |-> 0, last |-> 0, max |-> 0,
          token |-> NoToken, lease |-> 0, age |-> 0]

\* status and processed: what the job object in a worker's memory held when it
\* was last read.  ids is the batch, todo the part of it still to visit.
IdleWorker == [pc |-> "idle", token |-> NoToken, left |-> 0, status |-> "absent",
               processed |-> 0, ids |-> {}, todo |-> {}]

IdleResumer == [pc |-> "idle", token |-> NoToken, snap |-> NoJob]

(***************************************************************************)
(* Reading the row.                                                        *)
(***************************************************************************)

MaxOf(S) == CHOOSE m \in S : \A x \in S : x <= m
MinOf(S) == CHOOSE m \in S : \A x \in S : m <= x

\* lease_expires_at > now, for a row that has a lease at all
LeaseRuns(row) == row.token # NoToken /\ row.lease > 0

\* Error: a claim that does not look at the running lease.
MayClaimAnyLease(row, token) == row.status \in Open

\* what Claim...Job.execute decides under select_for_update
MayClaim(row, token) ==
    /\ row.status \in Open
    /\ ~ (LeaseRuns(row) /\ row.token # token)

\* Error: only expired leases are looked for, a job nobody claimed is not.
ResumableByLease(row) ==
    row.status \in Open /\ row.token # NoToken /\ row.lease = 0

\* the property is_resumable, and the filter of resume_stale_*_jobs
Resumable(row) ==
    /\ row.status \in Open
    /\ IF row.token # NoToken THEN row.lease = 0 ELSE row.age >= StaleAfter

\* what the claim writes
Claimed(row, token) ==
    [row EXCEPT !.status = "running", !.token = token, !.lease = Lease, !.age = 0]

\* status, lease and heartbeat as _mark_completed and _mark_failed write them
Ended(row, status) ==
    [row EXCEPT !.status = status, !.token = NoToken, !.lease = 0, !.age = 0]

\* Error: the batch is cut from the wrong end of the ids.
LastIds(row) ==
    LET ahead == {d \in box : row.last < d /\ d <= row.max}
    IN  {d \in ahead : Cardinality({e \in ahead : e > d}) < BatchSize}

\* _next_document_ids: the first BatchSize ids after the cursor, up to max
NextIds(row) ==
    LET ahead == {d \in box : row.last < d /\ d <= row.max}
    IN  {d \in ahead : Cardinality({e \in ahead : e < d}) < BatchSize}

InUse == {worker[w].token : w \in Workers} \cup queue \cup {job.token}
            \cup {resumer[r].token : r \in Resumers}
            \cup {resumer[r].snap.token : r \in Resumers}

Fault(kind) ==
    /\ faults < MaxFaults
    /\ faults' = faults + 1
    /\ wrong' = wrong \cup {kind}

\* uuid.uuid4(): a token nobody holds
Fresh == Tokens \ InUse

Busy(w) == worker[w].pc # "idle"

\* between the claim and the last write of the batch
Running(w) == worker[w].pc \in {"claimed", "batch", "stored", "closing"}

Finish(w) == worker' = [worker EXCEPT ![w] = IdleWorker]

(***************************************************************************)
(* Creating the job, and documents that enter or leave the box meanwhile.  *)
(***************************************************************************)

\* Create...Job.execute, then .delay(job.id), which does not happen if the
\* process dies once the row is committed, and may raise.
Create ==
    /\ job.status = "absent"
    /\ job' = [NoJob EXCEPT !.status = "queued", !.total = Cardinality(box),
                            !.max = IF box = {} THEN 0 ELSE MaxOf(box)]
    /\ created' = box /\ stayed' = box
    /\ \/ plain' = 1 /\ UNCHANGED <<faults, wrong>>
       \/ plain' = 0 /\ (Fault("death") \/ Fault("create"))
    /\ UNCHANGED <<box, visited, worker, queue, resumer>>

\* A document is deleted, archived or moved out of the box.  (Nobody looks at
\* the box before the job exists or after it finished.)
LeaveBox(d) ==
    /\ job.status \in Open
    /\ d \in box
    /\ box' = box \ {d} /\ stayed' = stayed \ {d}
    /\ UNCHANGED <<job, created, visited, worker, plain, queue, resumer, faults, wrong>>

\* A document is moved into the box.
EnterBox(d) ==
    /\ job.status \in Open
    /\ d \in Docs \ box
    /\ box' = box \cup {d}
    /\ UNCHANGED <<job, created, stayed, visited, worker, plain, queue, resumer, faults, wrong>>

(***************************************************************************)
(* The Celery task process_document_box_*_job.                             *)
(***************************************************************************)

\* Claim...Job.execute for a message just taken from the queue.
Claim(w, token) ==
    IF MayClaim(job, token)
    THEN /\ job' = Claimed(job, token)
         /\ worker' = [worker EXCEPT ![w] = [IdleWorker EXCEPT !.pc = "claimed",
                                                !.token = token, !.left = TaskLimit]]
    ELSE UNCHANGED <<job, worker>>

\* A message without lease_token_value: the task draws a token of its own.
ReceivePlain(w) ==
    /\ ~ Busy(w)
    /\ plain > 0
    /\ plain' = plain - 1
    /\ \E t \in Fresh : Claim(w, t)
    /\ UNCHANGED <<box, created, stayed, visited, queue, resumer, faults, wrong>>

ReceiveToken(w) ==
    /\ ~ Busy(w)
    /\ \E t \in queue : queue' = queue \ {t} /\ Claim(w, t)
    /\ UNCHANGED <<box, created, stayed, visited, plain, resumer, faults, wrong>>

\* A worker that took the message and dies before its claim.
MessageLost ==
    /\ Fault("death")
    /\ \/ plain > 0 /\ plain' = plain - 1 /\ UNCHANGED queue
       \/ \E t \in queue : queue' = queue \ {t} /\ UNCHANGED plain
    /\ UNCHANGED <<job, box, created, stayed, visited, worker, resumer>>

\* Run...Batch.execute up to the batch: refresh_from_db, the two early returns,
\* _mark_running and the query for the ids.
LoadBatch(w) ==
    /\ worker[w].pc = "claimed"
    /\ job.status \in Open
    /\ job.token = worker[w].token
    /\ job' = [job EXCEPT !.status = "running"]
    /\ worker' = [worker EXCEPT ![w].pc = "batch", ![w].processed = job.processed,
                                ![w].ids = NextIds(job), ![w].todo = NextIds(job)]
    /\ UNCHANGED <<box, created, stayed, visited, plain, queue, resumer, faults, wrong>>

LoadStale(w) ==
    /\ worker[w].pc = "claimed"
    /\ job.status \in Finished \/ job.token # worker[w].token
    /\ worker' = [worker EXCEPT ![w].pc = "return", ![w].status = job.status,
                                ![w].processed = job.processed]
    /\ UNCHANGED <<job, box, created, stayed, visited, plain, queue, resumer, faults, wrong>>

\* No ids left: _mark_completed.
CompleteEmpty(w) ==
    /\ worker[w].pc = "batch"
    /\ worker[w].ids = {}
    /\ job' = Ended(job, "completed")
    /\ Finish(w)
    /\ UNCHANGED <<box, created, stayed, visited, plain, queue, resumer, faults, wrong>>

\* _optimize_one / _refresh_titles for the next document of the batch.
VisitDocument(w) ==
    /\ worker[w].pc = "batch"
    /\ worker[w].todo # {}
    /\ LET d == MinOf(worker[w].todo)
       IN  /\ visited' = visited \cup {d}
           /\ worker' = [worker EXCEPT ![w].todo = @ \ {d}]
    /\ UNCHANGED <<job, box, created, stayed, plain, queue, resumer, faults, wrong>>

\* An exception inside the batch: _mark_failed.
BatchFails(w) ==
    /\ worker[w].pc = "batch"
    /\ worker[w].ids # {}
    /\ job' = Ended(job, "failed")
    /\ Finish(w)
    /\ UNCHANGED <<box, created, stayed, visited, plain, queue, resumer, faults, wrong>>

\* _store_progress writes the counters computed from the object in memory.
StoreProgress(w) ==
    /\ worker[w].pc = "batch"
    /\ worker[w].ids # {}
    /\ worker[w].todo = {}
    /\ job' = [job EXCEPT !.processed = worker[w].processed + Cardinality(worker[w].ids),
                          !.last = MaxOf(worker[w].ids), !.age = 0]
    /\ worker' = [worker EXCEPT ![w].pc = "stored", ![w].ids = {}, ![w].processed = 0]
    /\ UNCHANGED <<box, created, stayed, visited, plain, queue, resumer, faults, wrong>>

\* the second refresh_from_db
Refresh(w) ==
    /\ worker[w].pc = "stored"
    /\ worker' = [worker EXCEPT ![w].pc = "closing", ![w].status = job.status,
                                ![w].processed = job.processed]
    /\ UNCHANGED <<job, box, created, stayed, visited, plain, queue, resumer, faults, wrong>>

CompleteCounted(w) ==
    /\ worker[w].pc = "closing"
    /\ worker[w].processed >= job.total
    /\ job' = Ended(job, "completed")
    /\ Finish(w)
    /\ UNCHANGED <<box, created, stayed, visited, plain, queue, resumer, faults, wrong>>

\* Error: the lease is left on the row.
ReleaseHeartbeatOnly(w) ==
    /\ worker[w].pc = "closing"
    /\ worker[w].processed < job.total
    /\ job' = [job EXCEPT !.age = 0]
    /\ worker' = [worker EXCEPT ![w].pc = "return"]
    /\ UNCHANGED <<box, created, stayed, visited, plain, queue, resumer, faults, wrong>>

ReleaseLease(w) ==
    /\ worker[w].pc = "closing"
    /\ worker[w].processed < job.total
    /\ job' = [job EXCEPT !.token = NoToken, !.lease = 0, !.age = 0]
    /\ worker' = [worker EXCEPT ![w].pc = "return"]
    /\ UNCHANGED <<box, created, stayed, visited, plain, queue, resumer, faults, wrong>>

\* Error: no message for the last document.
ContinueOneShort(w) ==
    /\ worker[w].pc = "return"
    /\ LET more == /\ worker[w].status = "running"
                   /\ worker[w].processed + 1 < job.total
       IN  /\ more => plain < MaxPlain
           /\ plain' = IF more THEN plain + 1 ELSE plain
    /\ Finish(w)
    /\ UNCHANGED <<job, box, created, stayed, visited, queue, resumer, faults, wrong>>

\* should_continue, decided on the object in memory, and the next .delay(job.id)
Continue(w) ==
    /\ worker[w].pc = "return"
    /\ LET more == /\ worker[w].status = "running"
                   /\ worker[w].processed < job.total
       IN  /\ more => plain < MaxPlain
           /\ plain' = IF more THEN plain + 1 ELSE plain
    /\ Finish(w)
    /\ UNCHANGED <<job, box, created, stayed, visited, queue, resumer, faults, wrong>>

\* The .delay of the task raises: the task fails, the row stays as it is.
ContinueUnsent(w) ==
    /\ worker[w].pc = "return"
    /\ worker[w].status = "running"
    /\ worker[w].processed < job.total
    /\ Fault("task")
    /\ Finish(w)
    /\ UNCHANGED <<job, box, created, stayed, visited, plain, queue, resumer>>

\* The worker process dies, is killed at the task time limit, or is revoked
\* by a cancellation; its message was acknowledged when the task began.
WorkerDies(w) ==
    /\ Busy(w)
    /\ Fault("death")
    /\ Finish(w)
    /\ UNCHANGED <<job, box, created, stayed, visited, plain, queue, resumer>>

(***************************************************************************)
(* Resuming: Beat's resume_stale_*_jobs and the settings page's request.   *)
(***************************************************************************)

\* what the request may have to put back
Kept(row) == [NoJob EXCEPT !.status = row.status, !.age = row.age,
                           !.token = row.token, !.lease = row.lease]

FindResumable(r) ==
    /\ resumer[r].pc = "idle"
    /\ Resumable(job)
    /\ resumer' = [resumer EXCEPT ![r].pc = "found",
                                  ![r].snap = IF r = "web" THEN Kept(job) ELSE NoJob]
    /\ UNCHANGED <<job, box, created, stayed, visited, worker, plain, queue, faults, wrong>>

\* Error: the resume does not keep the token it drew for its claim.
ResumeClaimUnkept(r) ==
    /\ resumer[r].pc = "found"
    /\ \E t \in Fresh :
          IF MayClaim(job, t)
          THEN /\ job' = Claimed(job, t)
               /\ resumer' = [resumer EXCEPT ![r].pc = "claimed"]
          ELSE /\ resumer' = [resumer EXCEPT ![r] = IdleResumer]
               /\ UNCHANGED job
    /\ UNCHANGED <<box, created, stayed, visited, worker, plain, queue, faults, wrong>>

ResumeClaim(r) ==
    /\ resumer[r].pc = "found"
    /\ \E t \in Fresh :
          IF MayClaim(job, t)
          THEN /\ job' = Claimed(job, t)
               /\ resumer' = [resumer EXCEPT ![r].pc = "claimed", ![r].token = t]
          ELSE /\ resumer' = [resumer EXCEPT ![r] = IdleResumer]
               /\ UNCHANGED job
    /\ UNCHANGED <<box, created, stayed, visited, worker, plain, queue, faults, wrong>>

ResumeQueued(r) ==
    /\ resumer[r].pc = "claimed"
    /\ queue' = queue \cup {resumer[r].token}
    /\ resumer' = [resumer EXCEPT ![r] = IdleResumer]
    /\ UNCHANGED <<job, box, created, stayed, visited, worker, plain, faults, wrong>>

\* Error: the status and the heartbeat are put back, the lease is not.
RestoredUnderLease(row, token, snap) ==
    IF row.token = token
    THEN [row EXCEPT !.status = snap.status, !.age = snap.age]
    ELSE row

\* Error: put back without asking whose claim it is.
RestoredAnyway(row, token, snap) ==
    [row EXCEPT !.status = snap.status, !.age = snap.age,
                !.token = snap.token, !.lease = snap.lease]

\* the row as the resume view restores it after a broker error
Restored(row, token, snap) ==
    IF row.token = token
    THEN [row EXCEPT !.status = snap.status, !.age = snap.age,
                     !.token = snap.token, !.lease = snap.lease]
    ELSE row

\* .delay raises in the settings page's request: the view undoes its claim if
\* the token is still its own.
ResumeUndone ==
    /\ resumer["web"].pc = "claimed"
    /\ Fault("web")
    /\ job' = Restored(job, resumer["web"].token, resumer["web"].snap)
    /\ resumer' = [resumer EXCEPT !["web"] = IdleResumer]
    /\ UNCHANGED <<box, created, stayed, visited, worker, plain, queue>>

\* .delay raises in Beat's task: the claim stays, until its lease runs out.
ResumeUnsent(r) ==
    /\ r = "beat"
    /\ resumer[r].pc = "claimed"
    /\ Fault("beat")
    /\ resumer' = [resumer EXCEPT ![r] = IdleResumer]
    /\ UNCHANGED <<job, box, created, stayed, visited, worker, plain, queue>>

ResumerDies(r) ==
    /\ resumer[r].pc # "idle"
    /\ Fault("death")
    /\ resumer' = [resumer EXCEPT ![r] = IdleResumer]
    /\ UNCHANGED <<job, box, created, stayed, visited, worker, plain, queue>>

(***************************************************************************)
(* Cancelling from the background jobs page.                               *)
(***************************************************************************)

\* cancel_background_job asks only that the row exists: the page the request
\* comes from may be old, and the job finished since.  A revoked worker may
\* die (WorkerDies) or get to its next write first.
Cancel ==
    /\ job.status # "absent"
    /\ job' = Ended(job, "failed")
    /\ UNCHANGED <<box, created, stayed, visited, worker, plain, queue, resumer, faults, wrong>>

(***************************************************************************)
(* Time, in minutes.  Celery kills a task that reaches its limit, so no    *)
(* minute passes while a worker with none left is still busy.              *)
(***************************************************************************)

Less(n) == IF n > 0 THEN n - 1 ELSE 0
Older(row) == [row EXCEPT !.lease = Less(@),
                          !.age = IF @ < StaleAfter THEN @ + 1 ELSE @]

Tick ==
    /\ job.status \in Open
    /\ \A w \in Workers : Busy(w) => worker[w].left > 0
    /\ job' = Older(job)
    /\ worker' = [w \in Workers |-> [worker[w] EXCEPT !.left = Less(@)]]
    /\ resumer' = [r \in Resumers |->
                     IF resumer[r].snap = NoJob THEN resumer[r]
                     ELSE [resumer[r] EXCEPT !.snap = Older(@)]]
    /\ UNCHANGED <<box, created, stayed, visited, plain, queue, faults, wrong>>

(***************************************************************************)
(* The specification.                                                      *)
(***************************************************************************)

Init ==
    /\ job = NoJob
    /\ box \in SUBSET Docs
    /\ created = {} /\ stayed = {} /\ visited = {}
    /\ worker = [w \in Workers |-> IdleWorker]
    /\ plain = 0 /\ queue = {}
    /\ resumer = [r \in Resumers |-> IdleResumer]
    /\ faults = 0 /\ wrong = {}

TaskStep(w) ==
    \/ ReceivePlain(w) \/ ReceiveToken(w)
    \/ LoadBatch(w) \/ LoadStale(w)
    \/ CompleteEmpty(w) \/ VisitDocument(w) \/ StoreProgress(w)
    \/ Refresh(w) \/ CompleteCounted(w) \/ ReleaseLease(w) \/ Continue(w)

ResumeStep(r) == FindResumable(r) \/ ResumeClaim(r) \/ ResumeQueued(r)

Next ==
    \/ Create
    \/ \E d \in Docs : LeaveBox(d) \/ EnterBox(d)
    \/ \E w \in Workers : TaskStep(w) \/ BatchFails(w) \/ ContinueUnsent(w) \/ WorkerDies(w)
    \/ MessageLost
    \/ \E r \in Resumers : ResumeStep(r) \/ ResumeUnsent(r) \/ ResumerDies(r)
    \/ ResumeUndone
    \/ Cancel
    \/ Tick

Spec == Init /\ [][Next]_vars

(***************************************************************************)
(* Properties.                                                             *)
(***************************************************************************)

\* Every row field, task and message is of its kind.
TypeOK ==
    /\ job \in Row
    /\ box \subseteq Docs /\ created \subseteq Docs /\ stayed \subseteq Docs
    /\ visited \subseteq Docs
    /\ worker \in [Workers -> [pc : WorkerPCs, token : Tokens \cup {NoToken},
                               left : Nat, status : Statuses, processed : Nat,
                               ids : SUBSET Docs, todo : SUBSET Docs]]
    /\ plain \in Nat /\ queue \subseteq Tokens
    /\ resumer \in [Resumers -> [pc : {"idle", "found", "claimed"},
                                 token : Tokens \cup {NoToken}, snap : Row]]
    /\ \A r \in Resumers : resumer[r].pc = "claimed" => resumer[r].token \in Tokens
    /\ faults \in Nat /\ wrong \subseteq Faults

\* The lease keeps batches of one job apart: whatever messages are queued,
\* duplicated by a resume or left over, two workers are never between their
\* claim and the end of their batch at the same time.  This is what
\* deploy/README.md promises when the lease is longer than the task limit.
SingleRunner ==
    \A v, w \in Workers : Running(v) /\ Running(w) => v = w

\* A lease that is running was taken by somebody who still exists: a worker, a
\* queued message or a resume under way.  No path through a batch ends with the
\* lease still set, and a resume whose message the broker refuses takes its
\* lease back, whoever has touched the row meanwhile.  (Not said of a claim
\* whose holder died, nor of one that Beat took and could not send on: Beat has
\* no compensation.)
LeaseHasHolder ==
    LeaseRuns(job) /\ wrong \cap {"death", "beat"} = {} =>
        \/ \E w \in Workers : worker[w].token = job.token
        \/ job.token \in queue
        \/ \E r \in Resumers : resumer[r].token = job.token

\* An unfinished job is always in somebody's hands: a refused claim or a
\* superseded task never drops the last message.  This is said of a broker that
\* takes every message and of processes that live.  Where a .delay raised the
\* job may well lie there, also after the compensation of the settings page,
\* during whose claim another message may have been refused; such a job is left
\* to Beat (JobFinishes).
OpenJobInHand ==
    job.status \in Open /\ wrong = {} =>
        \/ plain > 0 \/ queue # {}
        \/ \E w \in Workers : Busy(w)
        \/ \E r \in Resumers : resumer[r].pc # "idle"

\* A completed job has worked on every document that was in the box when it
\* started and never left, unless documents moved into the box meanwhile were
\* worked on and counted in their place (processed >= total compares numbers).
CompletedMeansCovered ==
    job.status = "completed" /\ visited \subseteq created => stayed \subseteq visited

\* The cursor and the counter that a resumed batch starts from never go back.
ProgressMonotone ==
    [][job'.last >= job.last /\ job'.processed >= job.processed]_vars

\* A finished job is never opened again: not by a late worker, not by the
\* resume view that puts back the row it had read before.
NoRevival ==
    [][job.status \in Finished => job'.status \in Finished]_vars

\* The job as the abstract specification sees it.
Phase(status) ==
    IF status = "absent" THEN "none" ELSE IF status \in Open THEN "open" ELSE "ended"

Sweep == INSTANCE BoxSweep WITH
    phase <- Phase(job.status),
    sweeper <- {w \in Workers : Running(w)},
    cursor <- job.last,
    seen <- visited,
    here <- stayed

\* With all its messages, leases, faults and resumes, the job is one sweep
\* over the box: one batch at a time, the cursor only forward and never past a
\* document that nobody has worked on although it was in the box all along,
\* and no claim of a job that has ended.
JobSweeps == Sweep!Spec

\* A job that was cancelled stays failed, as test_background_jobs.py asserts.
CancelledStaysFailed ==
    [][job.status = "failed" => job'.status = "failed"]_vars

(***************************************************************************)
(* Fairness.  A started task or request goes on, Beat runs its resume task  *)
(* every minute, and time passes.  PromptTick says that the queue is       *)
(* served: no minute passes while a message waits and a worker is idle, or *)
(* between a resume's claim and its message.                               *)
(***************************************************************************)

PromptTick ==
    /\ Tick
    /\ \A r \in Resumers : resumer[r].pc # "claimed"
    /\ \/ plain = 0 /\ queue = {}
       \/ \A w \in Workers : Busy(w)

LiveNext ==
    /\ Next
    /\ Tick => PromptTick

LiveSpec ==
    /\ Init /\ [][LiveNext]_vars
    /\ \A w \in Workers : WF_vars(TaskStep(w))
    /\ WF_vars(ResumeStep("beat")) /\ WF_vars(ResumeQueued("web"))
    /\ WF_vars(PromptTick)

\* A created job reaches completed or failed, although processes die and the
\* broker refuses messages (MaxFaults times), documents move and requests
\* resume it.
JobFinishes == job.status \in Open ~> job.status \in Finished

=============================================================================

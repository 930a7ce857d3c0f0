# Verification of Doksio

Doksio is a document management system: a Django monolith on PostgreSQL with
Celery workers, Celery Beat and an S3-compatible object store. Tenants file
documents in hierarchical boxes; documents are uploaded, imported by mail, read by
OCR, indexed, linked to each other, taken through workflows and exported.

This directory holds TLA+ models of the parts of it in which several processes
work on the same rows, the TLC runs that check them on small instances, and proofs,
checked by TLAPS, that the most important properties hold for every value of the
constants. `PROJECT.json` lists the runs, which lines of the source each definition
models, the hazards the properties are for, the disagreements found, and for every
property a wrong version of one definition that violates it.

    tlc -workers 2 -config Scan.cfg MCLeasedBoxJob.tla
    tlapm LeasedBoxJobProofs.tla

## The system

Everything runs in three kinds of process that share the database:

* gunicorn (three workers in `deploy/portainer-stack.yml`) serves requests. There is
  no `ATOMIC_REQUESTS`: each service class opens its own `transaction.atomic`, reads
  mostly without locks, and runs at PostgreSQL's READ COMMITTED.
* Celery workers run tasks from Redis. A message is acknowledged when its task
  starts (no `acks_late`), so a task whose worker dies is gone.
  `CELERY_TASK_TIME_LIMIT` is 30 minutes.
* Celery Beat queues the periodic tasks every minute.

| Component | State | Operations | What is hard | What makes it correct |
|---|---|---|---|---|
| Leased box jobs (scan optimization, title refresh) | job row: status, counters, cursor, lease, heartbeat; queued messages | create, claim, run a batch, store progress, complete, fail, resume (Beat, settings page), cancel | leases against slow workers, crashes between any two writes, duplicate messages, a compensation that restores an old row | one batch at a time, nothing skipped, a job always ends, a finished one stays finished |
| Workflow engine | templates, steps, instances, tasks | start (manual, automatic), complete, advance over satisfied steps, refresh relation steps, cancel, edit steps | stale copies, cancellation against completion, on_commit callbacks, edits while running | one open task per running instance, no step skipped, forward only, no run left on a document it does not belong to |
| Metadata link and OCR layout jobs | job row: status, cursor | claim by status, batch, requeue, resume, cancel | no lease, so two workers may have one job; each has its own cursor | the cursor passes over nothing that was not worked on |
| Upload, inbox batches and mail import | import sources, IMAP mailbox, jobs, batches and items, staged files | upload, poll, import an attachment, move or delete a mail, reply; assign, finalize, discard | overlapping polls that address mails by number, crashes between import and flag, saves from stale copies, files deleted inside a transaction | no mail and no staged file is lost, a failure is told, one reply |
| Relations, metadata fields, automatic links | pairs of documents, fields | add, remove, edit fields, migrate values, reconcile by value | read-then-write without locks, many paths that change values | a link of a field connects equal values, links of people stay |
| Boxes, documents and files | tree of boxes, document and file rows, blobs | create, move, delete, empty, upload, divide, merge, optimize a scan | stored paths, blob and row are not one transaction | paths fit the tree, every row has its blob |
| OCR jobs, office conversion | job rows, prefilled title and metadata | start, run, cancel, fill in | cancellation against start, a document read long before it is written | what people gave stays |
| Exports | runs, items, ZIPs | create, pack, finish, cancel | overlapping runs, items written before the ZIP | what a run skips is in another ZIP |
| Alarms, reminders | matches, due rows | evaluate, dispatch | rebuilds and tasks that overlap | none missed, a reminder told once |
| Search index | one row per document | rebuild on commit | order of rebuilds | the last state is indexed |
| Title rules | a rule per box, a default | create, edit, delete, resolve for a new document or a refresh | two ways to resolve, boxes that become inactive | both ways agree |
| Members and roles | memberships, roles with boxes | add, edit, delete; list or open documents | a query and a test for the same question, a check before a deletion | lists show what opens |
| Tenancy, audit, reports, help center, settings, templates | | | little: checks on data, appended rows, reads | |

They interact through rows and callbacks. An upload or a move schedules the start of
matching workflows with `transaction.on_commit`; a new relation refreshes the waiting
workflow tasks of both documents inside its own transaction; a deletion or a move
cancels the running workflows; a metadata change reconciles automatic links, which
add relations; every change of what is searched schedules the rebuild of a search entry,
which evaluates the alarms; a new file schedules its recognition or conversion; emptying a
box takes the rows of all parts with it, and the blobs after the commit; the background jobs
page cancels jobs by writing their rows and killing their workers.

## The modules

| Module | Models | Extended by |
|---|---|---|
| `LeasedBoxJob` | one scan optimization or title refresh job | `MCLeasedBoxJob`, `LeasedBoxJobProofs` |
| `BoxSweep` | what such a job promises, without messages, leases and time | implemented by `LeasedBoxJob` (`JobSweeps`), `LeasedBoxJobProofs` |
| `Workflow` | the workflow engine with its documents, one request at a time, callbacks apart | `MCWorkflow`, `WorkflowProofs` |
| `WorkflowRuns` | what the engine promises: each workflow walks through its steps | implemented by `Workflow` (`RunsWalk`), `WorkflowProofs` |
| `WorkflowRequests` | one workflow instance under overlapping requests | `MCWorkflowRequests`, `WorkflowRequestsProofs` |
| `ImportBatch` | inbox batches: staged files, assignment, finalization, discard, by overlapping requests | `MailImport` |
| `MailImport` | a mailbox and the polls that import from it; HTTP imports and uploads | `MCMailImport`, `IntakeProofs` |
| `Documents` | boxes, documents, files and blobs, the optimization of scans | all parts below |
| `TitleRules` | the rules for titles | `DocumentLinks` |
| `DocumentLinks` | fields, metadata, relations and automatic links | `OcrJobs` |
| `OcrJobs` | text recognition and conversion | `BoxJobs` |
| `BoxJobs` | the link job and the OCR layout job of a box | `Office` |
| `Notices` | search entries, alarms, reminders | `Office` |
| `Exports` | export runs | `Office` |
| `Accounts` | members, roles, and who sees a document | `Office` |
| `Office` | all of these at once | `MCOffice`, `OfficeProofs`, `DocumentsProofs`, `ChangesProofs`, `RowsProofs` |

Types are sets named after the Django models (`Document`, `DocumentFile`, `OcrJob`, ...);
`TypeOK` asks of the rows that they belong to them.

### LeasedBoxJob and BoxSweep

The two jobs share their structure line by line (`Create...Job`, `Claim...Job`,
`Run...Batch` in `documents/services.py`, the tasks and resume tasks in
`documents/tasks.py`, the resume views), so one module models both; some definitions
are mapped to the scan job's lines, others to its twin's. Only the timing settings
tell them apart, and those are constants.

`job` is the row. `worker[w]` is a task in a worker process: between its claim
(`claimed`), the query for the ids (`batch`), the stored progress (`stored`), the
second `refresh_from_db` (`closing`) and the decision to queue another message
(`return`); `status` and `processed` are what its job object in memory holds, which
is what `_store_progress` adds to and what `should_continue` looks at. `plain` counts
queued messages without a lease token, `queue` holds the tokens of the others.
`resumer` is Beat's resume task and the settings page's request: both find a
resumable row, claim it, then queue the message. `visited`, `created` and `stayed` are
history.

Two things go wrong, and the model keeps them apart. A process dies (`WorkerDies`,
`ResumerDies`, `MessageLost`). Or it lives and its `.delay` raises, because the broker takes no
message: in the request that creates the job, which is committed by then (`Create`), in a
worker that wants the next batch (`ContinueUnsent`), or in a resume (`ResumeUnsent`). The
settings page then puts back the row it had read (`ResumeUndone`); Beat has nothing of the
kind. `wrong` is the history of which of these there were, so that a property can name the
ones it excepts; `faults` counts them.

Time is distances in minutes: what is left of the lease, what is left before Celery
kills the task, and how long ago the heartbeat was. `Tick` may not pass while a busy
worker has nothing left, because the task limit is enforced. A crash, a revoked task
and a killed one are the same `WorkerDies`; a message taken by a worker that dies
before its claim is `MessageLost`.

`BoxSweep` is the promise: one sweeper at a time, a cursor that only moves forward and
never past a document that was in the box all along and was not visited, and no claim
of a job that has ended. The refinement mapping (`Sweep`) takes the phase from the
status, the sweeper from the workers that run a batch, the cursor from the row, and
the rest from history.

Abstracted: what is done to a document (`VisitDocument`; the title job, which writes a
batch's titles in one update, visits one after the other here too), the reason of a
failure, and the statistics of the row. A resume visits only one job.

### Workflow

Documents have a status, a box, whether the metadata that the steps ask for is
filled, and whether their last arrival in a box started workflows. Instances and tasks
are functions from keys to rows, numbered where the database would give ids. A
request is one atomic step, and `pending` holds what `transaction.on_commit` will run
after it: any request may come in between. A callback may also not run at all
(`StartDropped`): its process dies, or a callback of the same commit raises. They are
registered in order, text recognition before workflows before the search entry, and none is
robust, so that a broker that takes no message for the first drops the others while the
process lives. `missed` is the history of the arrivals whose callback was dropped.

`_advance_instance_to_step` recurses through steps that are satisfied already.
`Landing` says where it stops: at the first unsatisfied one of the steps that
`_next_step` leads through (`Path`). `Advance` writes the instance and the new task for
each of the instances a request moves on.

Abstracted: roles, comments, notifications and audit events. A step's kind and what it
requires are constants, so `SetSortOrder` is the part of `UpdateWorkflowStep` that
changes the order; a task and an approval are one kind. Which templates start by
themselves is the constant `Automatic`. Relations are the ones users
add: no field links documents automatically here.

`WorkflowRuns` is the promise, without tasks, requests, callbacks and boxes. A run stays at
its step until a person confirms it or what the step asks for is there, passes over nothing
but steps that have what they ask for, ends where no step is left, and is not taken up again.
People edit the steps and what they ask for, but not a step under a run that waits at it. The
refinement mapping (`Walk`) takes runs from the instances and, for each, the steps whose
demand is met from the documents, their relations and the workflows that are completed
(`Satisfied`). Of steps with equal `sort_order` only the first counts (`Counts`), as
`tied_steps` shows; and a run that a step takes on meets its demands by the end of that step,
because a workflow that ends may be what another waits for.

### WorkflowRequests

Here a request is two steps: it loads a task or lists an instance, and writes later,
from its copy. Several of them overlap on one instance whose steps are ordinary ones.
What they may write is what the services write, with `update_fields`: the completion
saves only `current_step` unless the workflow ends.

### ImportBatch and MailImport

In `ImportBatch` a request reads the batch and its items without a lock and writes from
those copies. A finalization or a discard is one transaction: its rows are seen at the
commit (`wrote` holds them until then, and others wait for their locks), but the staged
files it deletes are gone at once. A discard lists the items without a lock, deletes their
files one by one, and only then skips the items (`ListDiscarded`, `DropFile`, `SkipDropped`,
`CommitDiscarded`). Either may be rolled back, because its process dies or its transaction
fails (`RequestDies`).

`MailImport` adds a source with its mailbox, the set of the mails that are present; their
numbers (`Numbered`) are their places in the order they arrived in. A poll (`ProcessEmailImportSource`) keeps the
settings it has read, the view of the mailbox its session has, and the numbers that
SEARCH gave; FETCH, COPY and STORE address mails by these numbers. A session learns of
expunged mails only where the protocol lets the server say so, and it may or may not
(`told` of `MoveMail`). FETCH sets `\Seen`. An attachment is the sequence of what is imported of
it: the pages of a PDF that the source splits, one after the other, or its single content.
Each is checked for a duplicate and then created in a later step, or staged in the inbox;
either may be done, undone by an error, or committed before a callback raises (`Outcomes`). A
page that fails, also as a duplicate, ends its attachment. Before there is an import job the
attachment may raise as well (`AttachmentRaises`): the PDF cannot be read, or the box is not
active. Nothing tells of it then, and `untold` is the history of these. A reply is claimed by
`get_or_create`, then sent. The end expunges and writes the settings back. The IMAP server
is an external program, modelled as far as the code relies on it.

Abstracted: contents are values compared by hash, a mail is its list of
importable attachments, rules of a source lead to one box that may become inactive.

### Documents and Office

`Documents` has the tree of boxes with the stored paths, the documents in the order of
their ids, their files and the keys in the object store. `pending` is the bag of
callbacks and messages to come: `start` (OCR or conversion), `index`, `boxjob`, `export`;
`purge` holds the keys that a callback will delete. Other requests come in between. Callbacks
are dropped together: those of a commit when its process dies or the first of them raises
(`CallbacksLost`, `PurgeLost`), those after one that finds its document gone (`CallbackRaises`),
those after a recognition or conversion whose message the broker refuses (`StartUnsent`), and
those after a rebuild in which an alarm's mail is refused or a row is gone (`RebuildFails`,
`RebuildRaises`). `past` counts requests and failures, and `past.lost` is the history of the
documents that lost a rebuild and have had none since. The optimization of a scan is
four steps: read, save the new blob, update the row, delete the old blob.

Every other part adds its rows and its actions on the same documents and the same
`pending`. `Office` puts them together: each disjunct of `DocumentsNext`, `LinksNext` and so on
is an action of one part with what the other parts leave alone, except `EmptyDocumentSpace`,
which takes the rows of the other parts with it.

The assumptions on the constants say what a tenant may start with: boxes with their
paths, which fit the tree (`FirstBoxesAssumption`); documents in these boxes, unchanged so far,
and fields of distinct names (`LinksAssumption`); alarms on these boxes
(`NoticesAssumption`); members whose main role is one of their roles (`AccountsAssumption`).

* `DocumentLinks`: `EffectiveFields` gives the fields of a box, `InOrder` their order; `Reconciled` is
  `ReconcileAutomaticMetadataRelations`, from the row the program holds. A field is found by
  a slug that people may edit, and documents hold their values by slug. `Reconcile` is the
  same within a transaction at READ COMMITTED: where documents overlap, it may read the
  values that others had before their latest change, and not see their latest links (`Unseen`).
  `history` says which values, which pairs were reconciled that way (`crossed`), and which
  fields had their slug edited or values brought under it (`loose`).
* `TitleRules`: of a strategy counts where it takes titles from, an invoice or the text.
* `OcrJobs`: a job's message goes from `queued` to `done`; `seen` is the document as the last
  transaction of `_mark_succeeded` read it. What it found is any value of `Found`.
  "cancelled" is FAILED with the administrator's message, as the code tells it.
* `BoxJobs`: a worker has a copy of the cursor and the documents of its batch as they were
  read; it takes the one with the lowest id next. `done` is history.
* `Notices`: a rebuild reads, writes, and then tries the alarms one by one; `rev` counts
  the changes of what is searched. A reminder task lists, then locks one after the other.
* `Exports`: a run lists keys, packs documents, writes an item for each, and saves the ZIP
  last. "missing" is an item with status FAILED.
* `Accounts`: `Openable` is `has_document_permission`, `ListedDocuments` is
  `filter_documents_for_user`. The deletion of a role checks first and deletes later.

Abstracted: a request is one step, but for what `Reconcile` lets overlap. The link job
reconciles a document in one step, although
no transaction surrounds it. The query of an alarm is a box and a word that a document has
from some revision on; the owner's permissions are no filter. The export's filter for
documents without open workflows is left out. `SlugAvailable` is checked where the field is
saved, and two forms that overlap are not.

## The runs

| Run | Instance | Checks |
|---|---|---|
| `scan` | 2 documents, 2 workers, 3 tokens, batches of 1, lease 2, limit 1, stale 1, 2 plain messages, 1 fault: a death or a refused message | `TypeOK SingleRunner LeaseHasHolder OpenJobInHand CompletedMeansCovered JobSweeps` |
| `scan_live` | 2 documents, 1 worker, 1 fault, with fairness | `JobFinishes` |
| `titles_overlap` | lease 1, limit 2, no fault | `SingleRunner` is violated |
| `cancel_race` | as `scan`, no fault, a box with documents that nobody moves (`StillSpec`) | `CancelledStaysFailed` is violated |
| `workflow` | an automatic template of 3 steps and a manual one of 2 relation steps; 2 documents and 2 changes; 2 documents, 1 change and a lost callback; 1 document, 2 changes and a lost callback; 1 document, 1 change and 2 edits | `TypeOK OneOpenTask EveryStepDone AutoStarted OneAutomaticRun RelationTasksWait RunningFits HistoryIsFinal RunsWalk` |
| `tied_steps` | two steps with sort order 20 | `EveryStepDone` is violated |
| `workflow_requests` | 3 requests, 3 steps | `TypeOK RunningHasTask NoStepSkipped NeverReopened` |
| `cancelled_task` | 2 requests, 2 steps | `CompletedWhileOpen` is violated |
| `intake` | a mail with a PDF of two pages and another attachment, and one with none; seven situations: 2 polls with 2 mails, an error, an edit and a death; 2 polls that fill an inbox, and a death; a poll and a request on its batch; 2 requests on a batch; a request and 2 failures; HTTP imports and uploads; rules and moves | `TypeOK NoMailLost FailureTold OneReply JobsTellTruth FilesKeptUnlessKilled SaidImported` |
| `moved_mail` | 2 polls, 3 mails that are moved away | `NoMailLost` is violated |
| `office` | twenty-five situations | `TypeOK TreeFits RowHasBlob LinksAgree IndexFresh AlarmTold ReminderOnce CursorHonest SkipsAreCovered ListedIsOpenable TitlesAgree ManualLinksStay OcrKeepsInput` |
| `emptied_box` | 1 document, recognized and emptied | `NothingLeftOfEmptied` is violated |

Why the bounds are enough to be interesting. Two workers, two plain messages and both
resumers give every way two claims can meet; with a lease one minute longer than the
limit a lease can run out while a token message waits, while a web resume is between
its claim and its message, and after a crash. Three tokens are the most that two
workers, a row and a resume hold while anything new may happen; where all are in use,
`Fresh` is empty and the action waits, which only drops behaviours with yet more
claims. Two documents with batches of one make a first, a last and an empty batch.
In `workflow` two documents with relations between them let one relation satisfy tasks on
both sides; two moves bring a document back to its box. Three requests let a cancellation
meet two completions.

`Workflow`, `MailImport` and `Office` have a constant `Bounds`, a set of records of which one
holds from the start: a run is the sum of small instances, each with all it needs for one
kind of meeting and nothing else. In `intake`, two polls are the least that overlap, and
two mails, one of them without attachments, the least for one to be imported and answered
while the other is searched. In `office` a situation says which documents, fields, alarms,
members and roles there are, how many documents, keys, requests and failures there may be,
and what is done at all (`does`):

| Situation | What meets |
|---|---|
| `TreeBounds` | boxes are created, moved, renamed, made active and deleted |
| `FileBounds`, `FileLossBounds` | two optimizers, an emptied box, uploads; a failure |
| `LinkBounds` | metadata, relations, fields, moves, invoices, emptied boxes on three documents |
| `OverlapBounds` | transactions that overlap and reconcile without seeing each other |
| `SharedBounds` | two fields with one slug in boxes apart, whose slugs are edited and which are deleted |
| `NoticeBounds`, `SplitBounds`, `SearchBounds` | overlapping rebuilds with every operation that changes what is searched |
| `AlarmBounds` | alarms that are saved and deleted while rebuilds evaluate them; a failure |
| `CallbackBounds`, `UnsentBounds` | callbacks that raise and drop later ones, documents that are gone; OCR and conversion that are refused |
| `ReminderBounds` | two reminder tasks, postponed and ended reminders; a failure |
| `OcrBounds`, `OfficeBounds`, `OfficeLossBounds` | OCR and conversion against edits, cancellation, emptied boxes; a failure |
| `LinkJobBounds` | two workers on a link job, edits, moves, a resume, a failure |
| `LayoutBounds`, `LayoutLossBounds` | the same for a layout job, with cancellation |
| `ExportBounds`, `ExportLossBounds`, `ReplacedBounds` | overlapping exports, cancellation, emptied boxes, replaced files; a failure |
| `RuleBounds`, `TitleBounds` | rules against boxes that come and go; titles of new and recognized documents |
| `AccountBounds` | members and roles against boxes and moves |

Two documents are the least that are linked, exported apart or overtaken by a cursor;
three requests let one request's effect be undone and done again. What never happens
in the same situation is not checked together.

`MaxPlain`, `MaxFaults`, `SortOrders` and the fields of the `Bounds` are the only bounds in
guards. `Permutations` of workers, tokens, polls, documents of the workflow and requests are
symmetries, because no definition compares them; in `office`, workers, indexers, optimizers
and dispatchers are the same two model values, interchangeable within each kind and so
also all at once. Document ids of the jobs and of `Documents` are ordered and are not
permuted. Deadlock is not checked: all of these systems may stop, when a job, all
workflows or the requests of a situation have ended.

## Fairness

`Spec` has none; only `LiveSpec` of `LeasedBoxJob` does. A started task or request goes
on (`TaskStep`, `ResumeQueued`), Beat's resume task runs every minute
(`ResumeStep("beat")`), and time passes (`PromptTick`). `PromptTick` is `Tick` without the
cases in which the queue is not served for minutes: no minute passes while a message
waits and a worker is idle, or while a resume is between its claim and its message.
Without it a resumed message could wait for as long as its own lease, be resumed
again, and so on for ever. The failure of a batch, the settings page, cancellation,
deaths and refused messages are not fair: nobody promises that they happen.

The other modules state no liveness. Of the link job there is none to state: `EndBatch`
shows the loop of `documents/tasks.py:87`, in which a job whose last document has left its box
queues itself for ever.

## What the checks say

They hold: under the documented timing a lease keeps batches of one job apart,
the job is a sweep as `BoxSweep` says, a completed job visited everything that stayed, and
every job ends. As long as no process dies and the broker takes every message, an open job is
in somebody's hands, whatever claims are refused and tasks superseded. A
workflow's tasks and instances stay in step however documents are moved, deleted and
related; and overlapping requests, although they write from stale copies, never leave a
running workflow without a task, skip a step or reopen an ended workflow. Whatever completes
a task, the engine only walks its workflows through their steps, as `WorkflowRuns` says.

When mails are kept, flagged or deleted, and also when a single poll moves them, no mail
leaves the mailbox before its attachments are taken over, whatever polls overlap, fail or
die, and whoever edits the source; what failed is told by a job, if it had one; replies go
out once. Staged files are kept unless a process dies, or a transaction fails, between their
deletion and the commit.

In the tenant, paths fit the tree, every file row has its blob, links of fields connect equal
values and links of people stay, entries of the search index are fresh and alarms are told
once the callbacks have run, reminders are told once per date, the cursors of the box jobs
pass nothing over even where they go back, exports skip only what another run packs, lists
show exactly what opens, and a new document and a refresh follow the same title rule.

Some properties say less than one might wish, and say so:

* `OpenJobInHand` excepts every fault. Where a `.delay` raised, the job may lie in nobody's
  hands: created and never sent, not continued, or put back by the settings page during whose
  claim a message of the job was refused. Such a job is left to Beat, and that Beat finds it is
  `JobFinishes`. `LeaseHasHolder` excepts only deaths and Beat, which has no compensation: it
  holds across the failed sends of the others.
* `CompletedMeansCovered`: a document that is moved into the box counts towards
  `total_documents`, which was counted at creation, so the job may be completed with
  documents left. The property excludes exactly the runs in which such a document was visited.
* `AutoStarted` excepts an arrival whose own callback was dropped: nothing repeats it, but a
  later arrival in the same box. A callback that was dropped for another document or another
  box excuses nothing.
* `RunningFits` is an action property with one exception, which it names: a callback that a
  move or a deletion has overtaken starts workflows for the document as it was. Nothing else
  leaves a workflow running where it does not belong. In the model, as in the code
  (`documents/services.py:2822`), an upload, the deletion of the document, and then the callback
  of the upload leave a running workflow on a deleted document.
* `FilesKeptUnlessKilled` leaves out killed processes and failed transactions, `FailureTold`
  killed polls, and the attachments that raised before they had a job: a PDF that could not be
  split, or rules that lead to an inactive box. These are told by nothing, and the mail is
  `\Seen`.
* `NoMailLost` excepts the pages after one that was a duplicate, which the code gives up and
  counts as processed. So a PDF of which the first page became a document before its import
  failed, in a callback, loses the other pages when the mail is polled again: they are documents
  nowhere, and the mail is deleted or moved.
* `IndexFresh` and `AlarmTold` except a document that lost its own rebuild and has had none
  since: its process died, or that callback or one before it raised while the process lived.
  Nothing repeats it but the next change of the document. `IndexFresh` also excepts entries
  from rebuilds of one document that overlapped: the slower one may write the older state.
* `LinksAgree` excepts pairs of which one was reconciled without seeing the latest change of
  the other, until one is reconciled again; links by a field whose slug was edited, or that got
  values from a deleted field with its slug; and situations with the link job, which
  reconciles from documents read at the start of its batch. It says nothing of links that are
  missing: neither moves nor edits of a field reconcile.
* `OcrKeepsInput` excepts a title, or the value of a field, that was given after the job read
  the document: what a person typed in these moments is overwritten. Each is excepted for
  itself: a new title does not excuse a lost value.
* `SkipsAreCovered` excepts a run that ended without a ZIP: its items stay and documents
  that were exported nowhere are skipped from then on.

They do not hold, and each is a finding in `PROJECT.json`:

* `titles_overlap`: the title refresh job's lease (10 minutes) is shorter than the task
  limit (30), against the advice `deploy/README.md` gives for the scan job.
* `cancel_race`: a job cancelled during its last batch ends as completed: the batch has worked on
  the last document, its task compares `processed` with the total, and writes over the
  cancellation. The run starts from a box with documents that stay, so that this is no empty
  batch.
* `tied_steps`: of two steps with equal `sort_order`, which is the default, one is
  skipped and the workflow is completed without it.
* `cancelled_task`: a task that was cancelled becomes completed, because
  `CompleteWorkflowTask` asks the copy in memory whether it is open.
* `moved_mail`: two polls that move mails overlap, the numbers shift under one of them, and a
  mail that nobody imported is deleted.
* `emptied_box`: the OCR layout of a document outlives the emptying of its box.

Observed while reading and not checked by a run: `docs/architecture.md` says that automatic
workflows apply to child boxes, and the code matches the exact box; it says that original
files are never overwritten, and the scan optimization replaces their content.

## What is proved

Every invariant and action property of the runs is a theorem of its specification, for every
value of the constants: any number of documents, boxes, workers,
requests, polls, faults and edits. The assumptions on the constants are the named ones of the
modules, which TLC evaluates; a theorem that needs more says so in its statement.

### Leased jobs (`LeasedBoxJobProofs`)

| Theorem | States |
|---|---|
| `TypeCorrect` | `Spec => []TypeOK` |
| `OneBatchAtATime` | `SingleRunner`, if `TaskLimit < Lease` |
| `CursorNeverGoesBack` | `ProgressMonotone`, if `TaskLimit < Lease` |
| `FinishedIsFinal` | `NoRevival` |
| `LeaseAlwaysHeld`, `OpenJobAlwaysInHand` | `LeaseHasHolder`, `OpenJobInHand`, whatever the lease |
| `JobIsOneSweep` | `JobSweeps`: the job implements `BoxSweep`, if `TaskLimit < Lease` |
| `CompletedCoversTheBox` | `CompletedMeansCovered`, if `TaskLimit < Lease` |

`SingleRunner` is not inductive. `LeaseInv` adds why it holds: while a worker runs a
batch, either the job has been ended by somebody else, or the row still has the
worker's token and the lease outlives the worker (`RunnerHoldsLease`); no queued message
and no resume holds the token of a running worker (`RunnerTokenIsPrivate`), and no
message and no other resume the token of a resume that has just claimed
(`ClaimTokenIsPrivate`), so nobody else can claim under it; and only a running job
carries a token, in the row and in what the settings page may put back
(`LeasedIsRunning`). `TaskLimit < Lease` is used once, where a claim starts the clocks of
the task and of the lease together; `titles_overlap` shows that it cannot be dropped.
`CursorInv` says that the ids a worker holds lie ahead of the row's cursor, and that the
counter it adds to is the row's; the step uses that nobody else runs a batch.

`HandInv` and `HeldInv` need no such assumption. `HandInv` follows a job from hand to hand as long
as nothing has gone wrong: through messages without a token, workers that will queue another,
and the resumes. `HeldInv` holds beyond that, through the failed sends of creators, workers and
the settings page. What the page puts back is a row whose lease had run out when it was read,
and leases in a copy only grow shorter (`SnapRanOut`), so that no compensation revives a lease
whose holder is gone.

The refinement needs one more invariant, `SweepInv`: up to the cursor every
document that stayed was visited, and a batch, as it was cut, has no gap, neither of
documents it still has to visit nor of ones it has. `BatchHasNoGap` proves that from the
definition of `NextIds`, the lowest ids ahead of the cursor. `SweepStep` then goes through
the actions: a claim is a `Take`, the stored progress an `Advance`, the end of a task a `Drop`,
and messages, resumes and time are stutters. A job is completed for one of two reasons, an
empty batch or a counter that has reached the total, and `CoverInv` has what each says: the
counter never exceeds the number of visited documents behind the cursor.

### Workflows (`WorkflowProofs`, `WorkflowRequestsProofs`)

| Theorem | States |
|---|---|
| `TypeCorrect`, `OneTaskIsOpen` | `TypeOK`, `OneOpenTask` |
| `HistoryStaysFinal`, `OnlyForward` | `HistoryIsFinal`, `ForwardOnly` |
| `AutomaticOnce`, `AutomaticStarts` | `OneAutomaticRun`, `AutoStarted` |
| `WorkflowsFit` | `RunningFits` |
| `WaitingIsForSomething` | `RelationTasksWait` |
| `NothingLeftOut` | `EveryStepDone`, if `NoTies` |
| `EngineImplementsRuns` | `RunsWalk`: the engine implements `WorkflowRuns` |
| `NeverStuck`, `AllStepsDone`, `EndIsFinal` and `TypeCorrect` of `WorkflowRequests` | `RunningHasTask`, `NoStepSkipped`, `NeverReopened`, `TypeOK` |

The proofs go through the engine as the code does: lemmas say what `Stepped`, `Cancelled` and
the start of instances leave of the rows (`LeftByStep`, `LeftByCancel`), and each action is
one of them. `RowsInv` carries the rest: `Sound` says of instances and tasks together that a
running instance waits for exactly the task of its step, and that the tasks of a step and the
instances of a template are numbered without gaps, so that a new row never takes the place of
an old one. `OneTaskIsOpen`, `HistoryStaysFinal` and `OnlyForward` need nothing else.
`ForwardOnly` is also a part of `RunsWalk`, and no run checks it apart.

`AutoStarted` is inductive beside `RowsInv` and the types of the rest (`OthersTyped`). A document that moves back and forth has callbacks for boxes
it has left; for the box where it is (`Owed`), the last of them has run, and it started what was
not there, or it was dropped and is remembered. `RunningFits` compares the misplaced runs before
and after a step: each action but an overtaken `StartMatching` (`Overtaken`) leaves no new one
(`NoneMisplaced`). `WaitInv` adds to `RelationTasksWait` that only documents there are are related.
`UneditedInv` says that as long as nobody edits the steps, each ordinary step before the
current one is done; it needs `NoTies` (`Untied`), and `tied_steps` shows what happens without.

`EngineImplementsRuns` needs no invariant but `RowsInv`. A request is a step of many runs at
once: each that it takes on leaves its step (`Leaves`) and comes to another (`Comes`), and
the others stay. `PassedAreSatisfied` follows `Landing` along the path: what lies before
the step it finds is satisfied. The engine asks of the rows as they were, the walk of the
rows as they become; between them workflows only end, so that what was satisfied
stays so (`SatisfiedStays`). A change of relations refreshes the two documents one after the
other; the second starts from what the first left, and together they are still one step of
the walk (`RelationWalks`). `WorkflowRequests` does not implement `WorkflowRuns`: a stale
completion may take the instance back to a step that it has passed, and only `NoStepSkipped`,
`RunningHasTask` and `NeverReopened` remain.

`NoStepSkipped` together with `TypeOK` is inductive: whatever a stale completion does,
it first completes the task it holds. This is why the service is more robust than its
guard.

### Intake (`IntakeProofs`)

| Theorem | States |
|---|---|
| `IntakeTypeCorrect` | `TypeOK` |
| `SaidImportedIsTrue`, `FilesAlwaysKept` | `SaidImported`, `FilesKeptUnlessKilled` |
| `JobsAlwaysTellTruth`, `RepliesAreSentOnce` | `JobsTellTruth`, `OneReply` |
| `FailuresAreTold` | `FailureTold` |
| `MailsAreKept` | `NoMailLost`, if `NoMoves` or `OnePoll` |

`Intake` is the common base: what polls, the mailbox and requests on batches hold
(`Polling`, `Mailing`, `Batches`). `Batches` looks at a request that works on old copies of a
batch: what it is about to call a duplicate is a document (`RequestsFit`), and a staged file
that is gone is a document, was discarded, or is in the hands of a request that has not
committed (`FilesAccounted`). `Answers` counts the replies that were sent or claimed against
the rows and the resets. `Handling` and `Telling` follow the attachments of a mail through a
poll: those before the one it is at are taken over, or reported (`Reported`): by a failed job of a
page that is missing or one before it, or as one that raised before it had a job, which stays
on record (`UntoldFits`). `Keeping` says that a
mail marked as deleted is taken over. For that, a poll must delete the mail it has in hand
and not the one that has its number by now (`Addressed`): here the hypothesis is used, and
`moved_mail` shows that it cannot be dropped.

### The tenant (`OfficeProofs`, `DocumentsProofs`, `ChangesProofs`, `RowsProofs`)

| Theorem | States | With |
|---|---|---|
| `TitlesAlwaysAgree` | `TitlesAgree` | `RulesApart`, the theorem `RulesStayApart` |
| `RemindersAreToldOnce` | `ReminderOnce` | `RemindersUntold` |
| `SkipsAlwaysCovered` | `SkipsAreCovered` | `RunsKept`, `BegunOnce` |
| `ListedIsAlwaysOpenable` | `ListedIsOpenable` | `MainRolesFit` |
| `TreeAlwaysFits` | `TreeFits` | `Tree` |
| `RowsAlwaysHaveBlobs` | `RowHasBlob` | `Shaped`, `FilesFit` |
| `ManualLinksAlwaysStay` | `ManualLinksStay` | `FieldsKnown` |
| `LinksAlwaysAgree` | `LinksAgree` | `Shaped`, `Tree`, `Linking` |
| `OcrAlwaysKeepsInput` | `OcrKeepsInput` | `Shaped`, `Counted` |
| `IndexStaysFresh` | `IndexFresh` | `Fresh` |
| `AlarmsAreTold` | `AlarmTold` | `Telling` |
| `CursorsAreHonest` | `CursorHonest` | `Shaped`, `Honest` |
| `OfficeTypeCorrect` | `TypeOK` | `Founded`, `RowsTyped` |

Each begins with a lemma that names the actions that touch its rows (`OnlyTheseTouch...`), so
that the rest of the tenant is dealt with once. `Shaped` says what the rows of documents, OCR
jobs and jobs of boxes look like, and that a row that was purged stays so; most theorems rest
on it. Beyond that each has its own idea:

* `TitlesAgree` is not inductive: two rules of one box may agree by chance until one is edited.
  `RulesApart` is: no box has two rules, and there is at most one default, which is the rule
  without boxes. The forms keep it, although they offer only usable boxes and boxes become
  inactive and come back, because what they refuse (`UsedElsewhere`) does not look at whether
  a box is usable.
* `SkipsAreCovered`: a run skips what an item says another run has exported. That item stays,
  and is in the other's archive, and the archive in its ZIP, if each run starts once
  (`BegunOnce`).
* `ListedIsOpenable`: a query and a test give the same answer because the main role of a
  member is one of its roles (`MainRolesFit`). Those who save a member put it there, and a
  role is protected as long as it is a main role, whatever the earlier check had found.
* `RowHasBlob`: an optimizer deletes the key that it has read. Once it has replaced it, the
  row never goes back to that key, because the keys of other optimizers are their own
  (`OptimizersFit`); and what an emptied box will purge is of documents that have no rows
  any more (`PurgesKnown`).
* `LinksAgree`: a document is reconciled field by field, and one link may pass from one field
  to another. `HalfWay` says what holds after some of the fields, and `LinkedByEach` that the
  recursive function of the model goes on from field to field. `Linking` asks of each link that
  no exception is made for (`Firm`) that it fits (`LinkFits`); `ReconcileFits` that a transaction
  leaves its links right or crossed, whatever it did not see.
* `IndexFresh`: as long as a document, unless it lost its rebuild, differs from its entry, a callback
  for it waits or a rebuild
  that read its present state is under way (`EntriesFollow`). That is a case for each operation
  that changes what is searched: it schedules the callback itself (`ChangesAreScheduled`).
* `AlarmTold`: for such a document that fits an alarm a callback waits, a rebuild reads it, a process
  has the alarm still to try, or there is a match (`AlarmsFollow`). A process that meets an
  alarm that is gone leaves the rest untried; where nobody edits alarms there is none
  (`TodoKnown`).
* `CursorHonest`: nothing keeps two workers from one job, and the slower one takes the cursor
  back. `Honest` looks at each worker alone: behind its own cursor all is done, and behind
  each document of its batch all is done or in the batch (`BatchHonest`). What was done is
  never undone, so that whoever writes the row last writes an honest cursor.
* `TypeOK` asks of each row that it refers to rows there are, and rows refer across all parts,
  so that it rests on most of the invariants above (`Founded`, `RulesApart`,
  `MainRolesFit`, `RunsKept`) and on what its own rows do not say (`RowsTyped`). What an OCR job
  fills in, it fills into a row that it read earlier, so what it has in hand is of its
  kind too; a worker moves the cursor to a document of its batch (`BoxJobsTyped`, with
  `Honest`); a process that still tries an alarm that is gone leaves no match
  (`NoticesTyped`); a deleted field takes its links along or hands them to another; a deleted
  role is nobody's; and a run finds the original of each document it is to read
  (`OriginalsThere`), because originals go only with their document, in an emptied box. The
  first rows and what forms offer are of their kind by assumption (`LinksAssumption`,
  `NoticesAssumption`, `AccountsAssumption`, `OcrAssumption`, `RowsAssumption`).

## What is only model-checked

* `JobFinishes`, which is liveness and out of the prover's reach, as are the fairness and
  ENABLED it rests on.
* The properties that runs violate, of course.

## What is not modelled, and the plan

1. A version of `Workflow` whose requests read and write apart, at READ COMMITTED: two starts
   of one template, lost wake-ups of relation tasks, and which part of `WorkflowRuns` is left.
2. Requests of `Office` that read and write apart beyond what `Reconcile` has: two saves of one
   document, a title refresh that writes over titles edited meanwhile.
3. Members' mails and notification preferences, markers and choice lists, version numbers of
   files, the creation and deletion of import sources: small parts of modelled components.

Tenancy checks, audit events, notifications, forms, pages, login, OCR, e-invoice, mail parsing
and PDF computations are data and presentation and stay out, as do reports, the help center
and the status page, which only read.

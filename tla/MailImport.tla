----------------------------- MODULE MailImport -----------------------------
(***************************************************************************)
(* Import of e-mail attachments: one source, its IMAP mailbox, the polls   *)
(* that Beat and operators start and that may overlap, and what becomes of *)
(* the attachments: documents of a box, or items of inbox batches, which   *)
(* people work on meanwhile (ImportBatch).                                 *)
(*                                                                         *)
(* A poll works on the settings it has read at its start and addresses     *)
(* mails by sequence number, in the view of the mailbox its session has.   *)
(* A session learns of what others expunged only with a command that lets  *)
(* the server say so: COPY and CREATE do, FETCH, STORE and SEARCH do not   *)
(* (RFC 3501, 7.4.1).  Replies are on and limited to one per sender.       *)
(*                                                                         *)
(* HTTP imports and uploads of documents import files in the same steps    *)
(* and appear here as polls without a mailbox.                             *)
(*                                                                         *)
(* The sources split PDFs (split_pdf_pages): of one with several pages     *)
(* each page is imported by itself, with an import job of its own.         *)
(***************************************************************************)
EXTENDS ImportBatch

CONSTANTS
    Polls,     \* polls of the source at the same time
    Attached,  \* per mail, in the order of arrival: importable attachments,
               \* each the sequence of its pages, or of one other content
    Sender,    \* per mail: its sender
    Settings   \* settings an administrator gives the source: action,
               \* unprocessable and search

Mails == DOMAIN Attached
Replies == {"success", "unprocessable"}
Senders == {Sender[m] : m \in Mails}

\* What the form lets an administrator choose.
Setting == [action : STRING, unprocessable : STRING, search : STRING]

ASSUME MailAssumption ==
    /\ IsFiniteSet(Polls)
    /\ Attached \in Seq(Seq(Seq(Files) \ {<<>>}))
    /\ DOMAIN Sender = Mails
    /\ Settings \subseteq Setting
    /\ \A b \in Bounds : /\ b.mails \in 0..Len(Attached)
                         /\ b.targets \subseteq {"inbox", "fixed", "rules"}
                         /\ b.settings \subseteq Setting

VARIABLES
    mailbox,  \* the mails in it, flags, copies in the folder
    source,   \* the source row: is_active, target_strategy and settings; and
              \* whether the box its rules lead to is active
    job,      \* per content: the statuses of its import jobs
    untold,   \* attachments, by mail, that raised before they had a job
    poll,     \* per poll or request: where it is and what it has read
    reply,    \* EmailAutoReplyRecipient rows, replies sent, resets of rows
    count     \* counters of what the bounds limit

mailVars == <<mailbox, source, job, untold, poll, reply, count>>
vars == <<batchVars, mailVars>>

\* The rows: a source, with its settings; the status of an import job; to whom
\* which reply was sent.
ImportSource ==
    [active : BOOLEAN, target : {"inbox", "fixed", "rules"}, boxActive : BOOLEAN,
     set : [action : STRING, unprocessable : STRING, search : STRING, checked : BOOLEAN]]

ImportJob == {"processing", "staged", "imported", "failed"}

EmailAutoReplyRecipient == Senders \X Replies

\* The settings as they are saved, with last_checked_at or without.
Saved(s, checked) ==
    [action |-> s.action, unprocessable |-> s.unprocessable, search |-> s.search,
     checked |-> checked]

\* own: of the pages of the attachment it is at, those it was the first to import
NotPolling == [pc |-> "idle", kind |-> "mail", target |-> "", set |-> <<>>, view |-> {}, todo |-> {},
               mail |-> 0, left |-> <<>>, page |-> 1, own |-> {},
               failed |-> FALSE, reply |-> "", row |-> 0, aborted |-> FALSE]

\* Mails are numbered in the order of their arrival; the n-th of a view.
Numbered(view, n) == CHOOSE m \in view : Cardinality({k \in view : k <= m}) = n

Present == mailbox.present
Number(p) == Lowest(poll[p].todo)   \* the message number the poll is at
Mail(p) == poll[p].mail             \* the mail it has fetched by it
Attachment(p) == Head(poll[p].left) \* the attachment it is at
File(p) == Attachment(p)[poll[p].page]  \* ... and the page of it

(***************************************************************************)
(* Polls begin.                                                            *)
(***************************************************************************)

\* _is_due: last_checked_at is only written when a poll has ended.
Due == ~ source.set.checked

\* ProcessEmailImportSource up to the answer of SEARCH.  A forced poll, of
\* the command with --all or --source-id, does not ask whether it is due.
BeginPoll(p, forced) ==
    /\ poll[p] = NotPolling
    /\ count.polls < bound.polls
    /\ source.active
    /\ Due \/ forced
    /\ count' = [count EXCEPT !.polls = @ + 1]
    /\ LET Found(n) == source.set.search = "ALL" \/ Numbered(Present, n) \notin mailbox.seen
       IN  poll' = [poll EXCEPT ![p] =
                      [NotPolling EXCEPT !.pc = "next", !.target = source.target,
                         !.set = source.set, !.view = Present,
                         !.todo = {n \in 1..Cardinality(Present) : Found(n)}]]
    /\ UNCHANGED <<batchVars, mailbox, source, job, untold, reply>>

\* Another import by a request: http_import with one file, the pages of which
\* are imported for the target of its own source, or document_upload with files
\* for a box, which are not split.
BeginRequest(p, kind, target, files) ==
    /\ poll[p] = NotPolling
    /\ count.requests < bound.imports
    /\ kind = "upload" => target = "fixed"
    /\ count' = [count EXCEPT !.requests = @ + 1]
    /\ poll' = [poll EXCEPT ![p] = [NotPolling EXCEPT !.pc = "import", !.kind = kind,
                                      !.target = target,
                                      !.left = IF kind = "http" THEN <<files>>
                                               ELSE [k \in DOMAIN files |-> <<files[k]>>]]]
    /\ UNCHANGED <<batchVars, mailbox, source, job, untold, reply>>

EndRequest(p) ==
    /\ poll[p].kind # "mail" /\ poll[p].pc = "import" /\ poll[p].left = <<>>
    /\ poll' = [poll EXCEPT ![p] = NotPolling]
    /\ UNCHANGED <<batchVars, mailbox, source, job, untold, reply, count>>

(***************************************************************************)
(* One mail: its attachments.                                              *)
(***************************************************************************)

NextNumber(q) == [q EXCEPT !.pc = "next", !.todo = @ \ {Lowest(@)}, !.left = <<>>, !.failed = FALSE,
                           !.mail = 0, !.row = 0]
Abort(q) == [q EXCEPT !.pc = "close", !.aborted = TRUE]

\* FETCH of RFC822 sets \Seen; of an expunged mail it has no data, and a
\* number past the end is an error.  A mail without importable attachments
\* is unprocessable.
FetchMail(p) ==
    LET q == poll[p]
        known == Number(p) <= Cardinality(q.view)
        m == Numbered(q.view, Number(p))
        none == Attached[m] = <<>>
    IN  /\ q.pc = "next" /\ q.todo # {}
        /\ IF known /\ m \in Present
           THEN /\ mailbox' = [mailbox EXCEPT !.seen = @ \cup {m}]
                /\ poll' = [poll EXCEPT ![p].mail = m, ![p].left = Attached[m],
                               ![p].pc = IF none THEN "dispose" ELSE "import",
                               ![p].reply = IF none THEN "unprocessable" ELSE "success"]
           ELSE /\ poll' = [poll EXCEPT ![p] = IF known THEN NextNumber(@) ELSE Abort(@)]
                /\ UNCHANGED mailbox
        /\ UNCHANGED <<batchVars, source, job, untold, reply, count>>

\* What follows a page, or a content that is not split: the next page if it was
\* imported; else the next attachment.  The pages after one that raises, and be
\* it as a duplicate, are given up.  An upload ends at the first file that raises.
AfterAttachment(q, result) ==
    LET next == [q EXCEPT !.pc = "import", !.left = Tail(@), !.page = 1, !.own = {}]
    IN  CASE result = "imported" /\ q.page < Len(Head(q.left)) -> [q EXCEPT !.pc = "import", !.page = @ + 1]
          [] result = "failed" /\ q.kind = "upload" -> NotPolling
          [] result = "failed" /\ q.kind # "upload" -> [next EXCEPT !.failed = TRUE]
          [] OTHER -> next

AttachmentDone(p, result) == poll' = [poll EXCEPT ![p] = AfterAttachment(@, result)]

\* An upload has no import job.
JobEnds(p, status) ==
    job' = IF poll[p].kind = "upload" THEN job ELSE [job EXCEPT ![File(p)] = @ \cup {status}]

AtAttachment(p) == poll[p].pc = "import" /\ poll[p].left # <<>>

Raises == count.errors < bound.errors /\ count' = [count EXCEPT !.errors = @ + 1]

\* Before there is an import job, ResolveImportDocumentSpace raises if the rules
\* lead to a box that is not active, and _import_pdf_pages if the PDF cannot be
\* read or a page of it cannot be written.
AttachmentRaises(p) ==
    /\ AtAttachment(p)
    /\ \/ poll[p].target = "rules" /\ ~ source.boxActive /\ poll[p].page = 1 /\ UNCHANGED count
       \/ poll[p].kind # "upload" /\ Raises
    /\ AttachmentDone(p, "failed")
    /\ untold' = IF poll[p].kind = "mail" THEN untold \cup {<<Mail(p), Attachment(p)>>} ELSE untold
    /\ UNCHANGED <<batchVars, mailbox, source, job, reply>>

\* a document with this content, but of an earlier page of the same PDF
Duplicate(p) == docs[File(p)] > 0 /\ File(p) \notin poll[p].own

\* ImportDocument into a box, up to the duplicate check.  The job of a
\* duplicate ends as failed, but the attachment counts as processed.
CheckAttachment(p) ==
    /\ AtAttachment(p)
    /\ \/ poll[p].target = "fixed"
       \/ poll[p].target = "rules" /\ (source.boxActive \/ poll[p].page > 1)
    /\ IF Duplicate(p)
       THEN AttachmentDone(p, "duplicate") /\ JobEnds(p, "failed")
       ELSE poll' = [poll EXCEPT ![p].pc = "create"] /\ UNCHANGED job
    /\ UNCHANGED <<batchVars, mailbox, source, untold, reply, count>>

\* Error: the job is saved in the transaction that the error rolls back.
JobStatusRolledBack(outcome, good) ==
    CASE outcome = "done" -> good [] outcome = "undone" -> "processing" [] OTHER -> "failed"

\* Error: what could not be stored counts as imported.
JobStatusHopeful(outcome, good) == IF outcome = "callback" THEN "failed" ELSE good

JobStatus(outcome, good) == IF outcome = "done" THEN good ELSE "failed"

\* A document or an inbox item is made: done; undone by an error; or committed,
\* and then a callback, the tags or the item's name fail.
Outcomes == {"done", "undone", "callback"}

\* Poll p, of which q is the row, has made one.
Made(p, q, outcome, good) ==
    /\ IF outcome = "done" THEN UNCHANGED count ELSE Raises
    /\ poll' = [poll EXCEPT ![p] =
                  AfterAttachment(q, IF outcome = "done" THEN "imported" ELSE "failed")]
    /\ JobEnds(p, JobStatus(outcome, good))

\* ... and the creation of the document.
CreateDocument(p, outcome) ==
    LET new == IF docs[File(p)] = 0 THEN {File(p)} ELSE {}
    IN  /\ poll[p].pc = "create"
        /\ Made(p, [poll[p] EXCEPT !.own = @ \cup new], outcome, "imported")
        /\ docs' = [docs EXCEPT ![File(p)] = @ + (IF outcome = "undone" THEN 0 ELSE 1)]
        /\ UNCHANGED <<batch, item, blob, discarded, request, crashes, bound, mailbox, source, untold, reply>>

\* ImportDocument into the inbox: a batch of its own, no duplicate check.
StageAttachment(p, suggested, outcome) ==
    /\ AtAttachment(p) /\ poll[p].target = "inbox"
    /\ IF outcome = "undone" THEN UNCHANGED <<batch, item, blob>> ELSE Stage({File(p)}, suggested)
    /\ Made(p, poll[p], outcome, "staged")
    /\ UNCHANGED <<docs, discarded, request, crashes, bound, mailbox, source, untold, reply>>

(***************************************************************************)
(* One mail: what is done with it.                                         *)
(***************************************************************************)

\* Error: one imported attachment is enough.
ImportedAny(p) == ~ poll[p].failed \/ Len(Attached[Mail(p)]) > 1

\* No attachment of the mail has failed.
ImportedAll(p) == ~ poll[p].failed

\* After the last attachment the mail is kept as it is if one has failed.
LeaveMail(p) ==
    /\ poll[p].kind = "mail" /\ poll[p].pc = "import" /\ poll[p].left = <<>>
    /\ poll' = [poll EXCEPT ![p] = IF ImportedAll(p) THEN [@ EXCEPT !.pc = "dispose"]
                                                     ELSE NextNumber(@)]
    /\ UNCHANGED <<batchVars, mailbox, source, job, untold, reply, count>>

MailAction(p) ==
    IF poll[p].reply = "success" THEN poll[p].set.action ELSE poll[p].set.unprocessable

\* _finalize_processed_message or _handle_unprocessable_message, without move
DisposeMail(p) ==
    /\ poll[p].pc = "dispose" /\ MailAction(p) # "move"
    /\ mailbox' = CASE MailAction(p) = "delete" /\ Mail(p) \in Present ->
                         [mailbox EXCEPT !.deleted = @ \cup {Mail(p)}]
                    [] MailAction(p) = "mark_seen" -> [mailbox EXCEPT !.seen = @ \cup {Mail(p)}]
                    [] OTHER -> mailbox
    /\ poll' = [poll EXCEPT ![p].pc = "reply"]
    /\ UNCHANGED <<batchVars, source, job, untold, reply, count>>

\* move: COPY, of which the session may learn that mails are gone and the
\* numbers have changed, then \Deleted for the number.  An error of either
\* ends the poll.
MoveMail(p, told) ==
    LET view == IF told THEN poll[p].view \cap Present ELSE poll[p].view
        past == Number(p) > Cardinality(view)
        gone == Mail(p) \notin Present
    IN  /\ poll[p].pc = "dispose" /\ MailAction(p) = "move"
        /\ mailbox' = [mailbox EXCEPT
                         !.moved = IF gone THEN @ ELSE @ \cup {Mail(p)},
                         !.deleted = IF gone \/ past THEN @
                                     ELSE @ \cup ({Numbered(view, Number(p))} \cap Present)]
        /\ poll' = [poll EXCEPT ![p] =
                      IF gone \/ past THEN Abort(@)
                      ELSE [@ EXCEPT !.pc = "reply", !.view = view]]
        /\ UNCHANGED <<batchVars, source, job, untold, reply, count>>

ReplyKey(p) == <<Sender[Mail(p)], poll[p].reply>>

\* Error: the row is looked for, but not created.
LookedFor(p) == reply.rows

\* _send_email_import_reply, get_or_create of the row
Claimed(p) == reply.rows \cup {ReplyKey(p)}

ClaimReply(p) ==
    /\ poll[p].pc = "reply"
    /\ reply' = [reply EXCEPT !.rows = Claimed(p)]
    /\ poll' = [poll EXCEPT ![p] = IF ReplyKey(p) \in reply.rows THEN NextNumber(@)
                                  ELSE [@ EXCEPT !.pc = "send", !.row = reply.resets[ReplyKey(p)]]]
    /\ UNCHANGED <<batchVars, mailbox, source, job, untold, count>>

\* The row the poll has created was not deleted by a reset.
OwnRow(p) == poll[p].row = reply.resets[ReplyKey(p)]

\* The mail is sent and sent_at saved, which raises if the row is gone.
SendReply(p) ==
    /\ poll[p].pc = "send"
    /\ reply' = [reply EXCEPT !.sent[ReplyKey(p)] = @ + 1]
    /\ poll' = [poll EXCEPT ![p] = IF OwnRow(p) THEN NextNumber(@) ELSE Abort(@)]
    /\ UNCHANGED <<batchVars, mailbox, source, job, untold, count>>

\* The SMTP server refuses: the poll's row is deleted, and the poll ends.
ReplyFails(p) ==
    /\ poll[p].pc = "send"
    /\ Raises
    /\ reply' = [reply EXCEPT !.rows = IF OwnRow(p) THEN @ \ {ReplyKey(p)} ELSE @]
    /\ poll' = [poll EXCEPT ![p] = Abort(@)]
    /\ UNCHANGED <<batchVars, mailbox, source, job, untold>>

(***************************************************************************)
(* Polls end.                                                              *)
(***************************************************************************)

\* Error: the mails go, their flags stay.
ExpungedMails == [mailbox EXCEPT !.present = @ \ mailbox.deleted]

Expunged == [mailbox EXCEPT !.present = @ \ mailbox.deleted, !.deleted = {}]

\* The finally clause: EXPUNGE if the poll asked for a deletion, and CLOSE,
\* which expunges too, remove whatever is flagged.
CloseMailbox(p) ==
    /\ poll[p].pc = "close" \/ (poll[p].pc = "next" /\ poll[p].todo = {})
    /\ mailbox' = Expunged
    /\ poll' = [poll EXCEPT ![p] = IF @.aborted THEN NotPolling ELSE [@ EXCEPT !.pc = "write"]]
    /\ UNCHANGED <<batchVars, source, job, untold, reply, count>>

\* _write_poll_state saves the settings as the poll has read them, and now
\* as last_checked_at.
WritePollState(p) ==
    /\ poll[p].pc = "write"
    /\ source' = [source EXCEPT !.set = Saved(poll[p].set, TRUE)]
    /\ poll' = [poll EXCEPT ![p] = NotPolling]
    /\ UNCHANGED <<batchVars, mailbox, job, untold, reply, count>>

\* The worker is killed: the session is lost without CLOSE; a job that was
\* being worked on stays in processing.
PollDies(p) ==
    /\ poll[p] # NotPolling
    /\ crashes < bound.crashes
    /\ crashes' = crashes + 1
    /\ job' = IF poll[p].pc = "create" /\ poll[p].kind # "upload"
              THEN [job EXCEPT ![File(p)] = @ \cup {"processing"}]
              ELSE job
    /\ poll' = [poll EXCEPT ![p] = NotPolling]
    /\ UNCHANGED <<docs, batch, item, blob, discarded, request, bound, mailbox, source, untold, reply, count>>

(***************************************************************************)
(* Mails, time and administrators.                                         *)
(***************************************************************************)

MailArrives ==
    /\ mailbox.arrived < bound.mails
    /\ mailbox' = [mailbox EXCEPT !.arrived = @ + 1, !.present = @ \cup {mailbox.arrived + 1}]
    /\ UNCHANGED <<batchVars, source, job, untold, poll, reply, count>>

\* poll_interval_seconds have passed since last_checked_at.
IntervalPasses ==
    /\ source.set.checked
    /\ source' = [source EXCEPT !.set.checked = FALSE]
    /\ UNCHANGED <<batchVars, mailbox, job, untold, poll, reply, count>>

Edit ==
    /\ count.edits < bound.edits
    /\ count' = [count EXCEPT !.edits = @ + 1]
    /\ UNCHANGED <<batchVars, mailbox, job, untold, poll>>

\* The form replaces the settings, and drops last_checked_at with the rest.
EditSource(s, active) ==
    /\ Edit
    /\ source' = [source EXCEPT !.active = active, !.set = Saved(s, FALSE)]
    /\ UNCHANGED reply

\* An administrator deactivates the box the rules lead to.
DeactivateBox ==
    /\ Edit
    /\ source.boxActive
    /\ source' = [source EXCEPT !.boxActive = FALSE]
    /\ UNCHANGED reply

\* The page resets one sender's row, who may get the reply again.
ResetRecipient(k) ==
    /\ Edit
    /\ k \in reply.rows
    /\ reply' = [reply EXCEPT !.rows = @ \ {k}, !.resets[k] = @ + 1]
    /\ UNCHANGED source

(***************************************************************************)
(* The specification.                                                      *)
(***************************************************************************)

Init ==
    /\ BatchInit
    /\ mailbox = [present |-> {}, arrived |-> 0, seen |-> {}, deleted |-> {}, moved |-> {}]
    /\ \E t \in bound.targets, s \in bound.settings :
          source = [active |-> TRUE, target |-> t, boxActive |-> TRUE, set |-> Saved(s, FALSE)]
    /\ job = [f \in Files |-> {}]
    /\ untold = {}
    /\ poll = [p \in Polls |-> NotPolling]
    /\ reply = [rows |-> {}, sent |-> [k \in EmailAutoReplyRecipient |-> 0],
                resets |-> [k \in EmailAutoReplyRecipient |-> 0]]
    /\ count = [polls |-> 0, requests |-> 0, edits |-> 0, errors |-> 0]

PollStep(p) ==
    \/ \E forced \in BOOLEAN : BeginPoll(p, forced)
    \/ \E kind \in {"http", "upload"}, t \in bound.targets :
          \E n \in 1..Cardinality(Files) : \E files \in [1..n -> Files] :
             BeginRequest(p, kind, t, files)
    \/ EndRequest(p)
    \/ FetchMail(p)
    \/ AttachmentRaises(p) \/ CheckAttachment(p)
    \/ \E outcome \in Outcomes :
          CreateDocument(p, outcome) \/ \E suggested \in BOOLEAN : StageAttachment(p, suggested, outcome)
    \/ LeaveMail(p) \/ DisposeMail(p)
    \/ \E told \in BOOLEAN : MoveMail(p, told)
    \/ ClaimReply(p) \/ SendReply(p) \/ ReplyFails(p)
    \/ CloseMailbox(p) \/ WritePollState(p)
    \/ PollDies(p)

People(r) ==
    \/ \E b \in DOMAIN batch : LoadPage(r, b) /\ UNCHANGED mailVars
    \/ \E b \in DOMAIN batch : LoadDiscard(r, b) /\ UNCHANGED mailVars
    \/ \E i \in DOMAIN item : LoadItem(r, i) /\ UNCHANGED mailVars
    \/ SaveItems(r) /\ UNCHANGED mailVars
    \/ AssignItem(r) /\ UNCHANGED mailVars
    \/ ListItems(r) /\ UNCHANGED mailVars
    \/ ReadItem(r) /\ UNCHANGED mailVars
    \/ WriteItem(r) /\ UNCHANGED mailVars
    \/ CommitFinalized(r) /\ UNCHANGED mailVars
    \/ ListDiscarded(r) /\ UNCHANGED mailVars
    \/ DropFile(r) /\ UNCHANGED mailVars
    \/ SkipDropped(r) /\ UNCHANGED mailVars
    \/ CommitDiscarded(r) /\ UNCHANGED mailVars
    \/ RequestDies(r) /\ UNCHANGED mailVars

Next ==
    \/ \E p \in Polls : PollStep(p)
    \/ \E r \in Requests : People(r)
    \/ \E files \in SUBSET Files, t \in BOOLEAN : UploadBatch(files, t) /\ UNCHANGED mailVars
    \/ MailArrives \/ IntervalPasses
    \/ \E s \in Settings, a \in BOOLEAN : EditSource(s, a)
    \/ DeactivateBox
    \/ \E k \in EmailAutoReplyRecipient : ResetRecipient(k)

Spec == Init /\ [][Next]_vars

(***************************************************************************)
(* Properties.                                                             *)
(***************************************************************************)

\* Every row is of its kind; an item is of a batch, a staged file of an item.
TypeOK ==
    /\ docs \in [Files -> Nat]
    /\ batch \in Seq(DocumentImportBatch)
    /\ item \in Seq(DocumentImportBatchItem)
    /\ blob \subseteq DOMAIN item /\ discarded \subseteq DOMAIN batch
    /\ \A r \in Requests : DOMAIN request[r].wrote \subseteq ItemsOf(request[r].batch)
    /\ Present \subseteq Mails /\ mailbox.deleted \subseteq Present
    /\ source \in ImportSource
    /\ job \in [Files -> SUBSET ImportJob]
    /\ untold \subseteq Mails \X Seq(Files)
    /\ reply.rows \subseteq EmailAutoReplyRecipient

\* the content has been taken over
TakenOver(f) == docs[f] > 0 \/ \E i \in DOMAIN item : item[i].file = f

\* A page of the attachment before the j-th turned out to be a duplicate.
AfterDuplicate(a, j) == \E i \in 1..(j - 1) : TakenOver(a[i]) /\ "failed" \in job[a[i]]

Imported(a) == \A j \in DOMAIN a : TakenOver(a[j]) \/ AfterDuplicate(a, j)

\* However polls overlap, fail, are killed, or work on old settings, a mail
\* leaves the mailbox only after every importable attachment of it, and every
\* page where a PDF is split, has become a document or an inbox item, but for
\* the pages that follow a duplicate one.
NoMailLost ==
    \A m \in 1..mailbox.arrived :
        m \notin Present => \A k \in DOMAIN Attached[m] : Imported(Attached[m][k])

\* A poll has the mail in hand.
Fetched(p, m) ==
    poll[p].pc \in {"import", "create"} /\ Mail(p) = m

\* All of the attachment is there, or a job tells from where on it is not.
Told(a) == \A j \in DOMAIN a : TakenOver(a[j]) \/ \E i \in 1..j : "failed" \in job[a[i]]

\* SEARCH UNSEEN does not find a mail again once FETCH has set \Seen.  So an
\* attachment of it that was not imported, or not wholly, has a failed job that
\* tells people, unless a poll was killed, or the import raised before it had a
\* job: when its PDF could not be split, or its box was found inactive.
FailureTold ==
    crashes = 0 =>
        \A m \in mailbox.seen : (\A p \in Polls : ~ Fetched(p, m)) =>
            \A k \in DOMAIN Attached[m] : <<m, Attached[m][k]>> \in untold \/ Told(Attached[m][k])

\* A sender gets a reply of either type once, and once more for each reset,
\* however many polls answer its mails at the same time, or fail to.
OneReply == \A k \in EmailAutoReplyRecipient : reply.sent[k] <= 1 + reply.resets[k]

\* A job that says imported or staged has its document or inbox item.
JobsTellTruth ==
    \A f \in Files :
        /\ "imported" \in job[f] => docs[f] > 0
        /\ "staged" \in job[f] => \E i \in DOMAIN item : item[i].file = f

=============================================================================

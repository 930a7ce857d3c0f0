------------------------------ MODULE BoxJobs ------------------------------
(***************************************************************************)
(* Maintenance of a box in batches: the link job reconciles the automatic  *)
(* links of every document, the layout job recognizes the files that have  *)
(* no layout yet.  A worker works on its own copy of the job row, claimed  *)
(* by its status alone, and saves the cursor after each document.          *)
(***************************************************************************)
EXTENDS OcrJobs

CONSTANTS
    JobWorkers, \* workers
    BatchSize   \* documents of a batch

ASSUME BoxJobsAssumption == BatchSize \in Nat \ {0}

VARIABLES
    boxjob, \* the job rows in the order of their ids; done: the documents that
            \* were worked on, or not in the box when a batch passed them
    worker  \* per worker: the job it has, its copy of the cursor, and the
            \* documents of the batch as they were read

boxJobVars == <<boxjob, worker>>

\* The rows.
JobRow(kind) ==
    [kind : {kind}, box : DOMAIN box, below : BOOLEAN,
     status : {"queued", "running", "completed", "failed"},
     last : Nat, max : Nat, done : SUBSET Docs]

DocumentBoxMetadataLinkJob == JobRow("link")
DocumentBoxOcrLayoutJob == JobRow("layout")

IdleWorker == [pc |-> "idle", job |-> 0, last |-> 0, todo |-> {}, ocr |-> 0, empty |-> FALSE]

\* the documents a job still has to work on
Remaining(j) ==
    {d \in InBox(boxjob[j].box, boxjob[j].below) : d > boxjob[j].last /\ d <= boxjob[j].max}

\* those of the next batch: the first in the order of their ids
Batch(j) == {d \in Remaining(j) : Cardinality({e \in Remaining(j) : e < d}) < BatchSize}

\* what is not in the box when the batch passes it: up to its last document, or
\* to the end if there is none after it
Passed(j) ==
    {n \in boxjob[j].last + 1 .. boxjob[j].max :
        /\ n \notin Batch(j)
        /\ Batch(j) = Remaining(j) \/ \E d \in Batch(j) : n < d}

\* a job for the documents of a box, up to the last there is
NewBoxJob(kind, b, below) ==
    LET inside == InBox(b, below)
    IN  [kind |-> kind, box |-> b, below |-> below, status |-> "queued", last |-> 0,
         max |-> IF inside = {} THEN 0 ELSE CHOOSE d \in inside : \A e \in inside : e <= d,
         done |-> {}]

\* DocumentBoxOcrLayoutForm or DocumentBoxMetadataLinkForm, and the message
CreateBoxJob(kind, b, below) ==
    /\ Request(kind)
    /\ Usable(b)
    /\ boxjob' = Append(boxjob, NewBoxJob(kind, b, below))
    /\ pending' = Scheduled({"boxjob"}, {Len(boxjob) + 1})
    /\ UNCHANGED <<box, doc, file, blob, optimize, purge, bound, linkVars, ocrVars, worker>>

\* A succeeded job of the original has left a layout.
HasLayout(d) == \E j \in DOMAIN ocr : ocr[j].doc = d /\ ocr[j].status = "succeeded"

\* The message is taken: the job is claimed if it is queued, and the next batch
\* read.
ClaimBoxJob(w, j) ==
    /\ worker[w] = IdleWorker
    /\ BagIn(<<"boxjob", j>>, pending)
    /\ pending' = Taken(<<"boxjob", j>>)
    /\ IF boxjob[j].status # "queued"
       THEN UNCHANGED <<boxjob, worker>>
       ELSE /\ boxjob' = [boxjob EXCEPT ![j].status = "running", ![j].done = @ \cup Passed(j)]
            /\ worker' = [worker EXCEPT
                            ![w] = [IdleWorker EXCEPT
                                      !.pc = "batch", !.job = j, !.last = boxjob[j].last,
                                      !.todo = {[id |-> d, row |-> doc[d], layout |-> HasLayout(d)] :
                                                  d \in Batch(j)},
                                      !.empty = Batch(j) = {}]]
    /\ UNCHANGED <<box, doc, file, blob, optimize, purge, past, bound, linkVars, ocrVars>>

\* the document of the batch that is next, as it was read
NextDocument(w) ==
    CHOOSE x \in worker[w].todo : \A y \in worker[w].todo : x.id <= y.id

Worked(w) ==
    /\ worker' = [worker EXCEPT ![w].pc = "worked"]
    /\ boxjob' = [boxjob EXCEPT ![worker[w].job].done = @ \cup {NextDocument(w).id}]

\* A document is reconciled as it was read; an error is counted and passed over.
ReconcileNext(w) ==
    /\ worker[w].pc = "batch" /\ worker[w].todo # {}
    /\ boxjob[worker[w].job].kind = "link"
    /\ LET next == NextDocument(w)
       IN  relation' = IF Exists(next.id) THEN Reconciled(relation, doc, next.id, next.row)
                       ELSE relation
    /\ Worked(w)
    /\ UNCHANGED <<docVars, field, history, ocrVars>>

\* The document had a layout, or is no scan, or is gone: nothing to do.
SkipLayout(w) ==
    /\ worker[w].pc = "batch" /\ worker[w].todo # {}
    /\ boxjob[worker[w].job].kind = "layout"
    /\ LET next == NextDocument(w)
       IN  next.layout \/ next.row.type # "pdf" \/ ~ Exists(next.id)
    /\ Worked(w)
    /\ UNCHANGED <<docVars, linkVars, ocrVars>>

\* CreateOcrJob for the layout alone, which this worker runs itself.
StartLayout(w) ==
    /\ worker[w].pc = "batch" /\ worker[w].todo # {}
    /\ boxjob[worker[w].job].kind = "layout"
    /\ LET next == NextDocument(w)
       IN  /\ ~ next.layout /\ next.row.type = "pdf" /\ Exists(next.id)
           /\ ocr' = Append(ocr, [NewOcrJob(next.id) EXCEPT !.status = "running",
                                                           !.step = "layout",
                                                           !.by = worker[w].job])
           /\ worker' = [worker EXCEPT ![w].pc = "layout", ![w].ocr = Len(ocr) + 1]
    /\ UNCHANGED <<docVars, linkVars, conversion, boxjob>>

\* It ends, with a layout or without.
EndLayout(w, found) ==
    LET j == worker[w].ocr
        d == ocr[j].doc
    IN  /\ worker[w].pc = "layout"
        /\ blob' = IF found THEN blob \cup {Key(<<d, "layout">>, j)} ELSE blob
        /\ IF found /\ Exists(d)
           THEN /\ doc' = [doc EXCEPT ![d].rev = @ + 1]
                /\ pending' = Scheduled({"index"}, {d})
                /\ OcrGoes(j, "done", "succeeded")
           ELSE /\ OcrGoes(j, "done", IF Exists(d) THEN "failed" ELSE ocr[j].status)
                /\ UNCHANGED <<doc, pending>>
        /\ Worked(w)
        /\ UNCHANGED <<box, file, optimize, purge, past, bound, linkVars, conversion>>

\* Error: the cursor goes to the end of the batch at once.
CursorTooEarly(w) == Max({x.id : x \in worker[w].todo})

\* the document just worked on
CursorAfter(w) == NextDocument(w).id

SaveCursor(w) ==
    /\ worker[w].pc = "worked"
    /\ boxjob' = [boxjob EXCEPT ![worker[w].job].last = CursorAfter(w)]
    /\ worker' = [worker EXCEPT ![w].pc = "batch", ![w].last = CursorAfter(w),
                                ![w].todo = @ \ {NextDocument(w)}, ![w].ocr = 0]
    /\ UNCHANGED <<docVars, linkVars, ocrVars>>

\* The batch is done: there is a next one, or the job is completed.  A layout
\* job whose batch was empty is; a link job goes on.
EndBatch(w) ==
    LET j == worker[w].job
        last == IF worker[w].empty /\ boxjob[j].kind = "layout" THEN boxjob[j].max
                ELSE worker[w].last
        more == last < boxjob[j].max
    IN  /\ worker[w].pc = "batch" /\ worker[w].todo = {}
        /\ worker' = [worker EXCEPT ![w] = IdleWorker]
        /\ boxjob' = [boxjob EXCEPT ![j].status = IF more THEN "queued" ELSE "completed",
                                    ![j].last = IF last = worker[w].last THEN @ ELSE last]
        /\ pending' = IF more THEN Scheduled({"boxjob"}, {j}) ELSE pending
        /\ UNCHANGED <<box, doc, file, blob, optimize, purge, past, bound, linkVars, ocrVars>>

WorkerDies(w) ==
    /\ Failure
    /\ worker[w] # IdleWorker
    /\ worker' = [worker EXCEPT ![w] = IdleWorker]
    /\ UNCHANGED <<box, doc, file, blob, optimize, purge, pending, bound, linkVars, ocrVars,
                   boxjob>>

\* A person resumes a job that waits, or runs and has not been heard of.
ResumeBoxJob(j) ==
    /\ Request("resume")
    /\ boxjob[j].status \in {"queued", "running"}
    /\ boxjob' = [boxjob EXCEPT ![j].status = "queued"]
    /\ pending' = Scheduled({"boxjob"}, {j})
    /\ UNCHANGED <<box, doc, file, blob, optimize, purge, bound, linkVars, ocrVars, worker>>

\* cancel_background_job, which kills the workers it is told of; their OCR
\* jobs fail.
CancelLayout(j, killed) ==
    /\ boxjob[j].kind = "layout"
    /\ Cancel(boxjob[j].status, killed # {}, \A w \in killed : worker[w].job = j)
    /\ boxjob' = [boxjob EXCEPT ![j].status = "failed"]
    /\ ocr' = [k \in DOMAIN ocr |->
                 IF ocr[k].by = j /\ ocr[k].status = "running"
                 THEN [ocr[k] EXCEPT !.status = "failed"] ELSE ocr[k]]
    /\ worker' = [w \in JobWorkers |-> IF w \in killed THEN IdleWorker ELSE worker[w]]
    /\ UNCHANGED <<box, doc, file, blob, optimize, purge, pending, bound, linkVars, conversion>>

BoxJobsInit ==
    /\ boxjob = << >>
    /\ worker = [w \in JobWorkers |-> IdleWorker]

(***************************************************************************)
(* Properties.                                                             *)
(***************************************************************************)

\* The cursor of a job never passes a document that was in the box and has not
\* been worked on, and a completed job has none left: when workers die, when a
\* job is resumed under the hands of a slow one, when the cursor goes back, and
\* when documents come and go.
CursorHonest ==
    \A j \in DOMAIN boxjob :
        /\ 1 .. boxjob[j].last \subseteq boxjob[j].done
        /\ boxjob[j].status = "completed" => 1 .. boxjob[j].max \subseteq boxjob[j].done

=============================================================================

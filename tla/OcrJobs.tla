------------------------------ MODULE OcrJobs ------------------------------
(***************************************************************************)
(* Text recognition and the conversion of office files, by workers that    *)
(* take messages from a queue.  A worker looks at its job, works outside   *)
(* of any transaction, and writes what it found into the document as it    *)
(* read it at the start of the last transaction.                           *)
(***************************************************************************)
EXTENDS DocumentLinks

CONSTANT Found \* values of fields that rules may find in a text

ASSUME OcrAssumption == Found \subseteq [ToSet(Fields) -> Values]

VARIABLES
    ocr,       \* the OCR jobs in the order of their ids, with the progress
               \* of the message of each, and the document as it read it
    conversion \* per office document: its job and the progress of its message

ocrVars == <<ocr, conversion>>

\* The rows, with the progress of their messages.
OcrJob ==
    [doc : Docs, status : {"pending", "running", "succeeded", "failed", "cancelled"},
     step : {"queued", "taken", "running", "read", "layout", "done"},
     seen : SUBSET Document, by : Nat, from : Sources \cup {Automatic}]

DocumentOfficeConversionJob ==
    [status : {"pending", "running", "succeeded", "failed", "cancelled"},
     step : {"queued", "running", "saved", "stored", "done"}]

\* by: the layout job it belongs to, or 0; from: where the rule of its document
\* took titles from when it was created
NewOcrJob(d) ==
    [doc |-> d, status |-> "pending", step |-> "queued", seen |-> {}, by |-> 0,
     from |-> TitlePolicy(doc[d].box)]

\* CreateOcrJob and the message
OcrCreated(d) == Append(ocr, NewOcrJob(d))

Original(d) == <<d, "original">>
Derivative(d) == <<d, "derivative">>

\* _ocr_document_file: the file a job recognizes
Recognized(d) == IF doc[d].type = "office" THEN Derivative(d) ELSE Original(d)

OcrRowExists(j) == Exists(ocr[j].doc)

\* One message more runs ahead.
OcrGoes(j, step, status) ==
    ocr' = [ocr EXCEPT ![j].step = step, ![j].status = status]

(***************************************************************************)
(* Jobs start.                                                             *)
(***************************************************************************)

\* The callback of a new document: StartOcrForDocumentFile
StartOcr(d) ==
    /\ "recognize" \in bound.does
    /\ BagIn(<<"start", d>>, pending)
    /\ Exists(d) /\ doc[d].type = "pdf"
    /\ pending' = Taken(<<"start", d>>)
    /\ ocr' = OcrCreated(d)
    /\ UNCHANGED <<box, doc, file, blob, optimize, purge, past, bound, linkVars, conversion>>

\* The same of an office file: StartOfficeConversion, once per file
StartOfficeConversion(d) ==
    /\ "recognize" \in bound.does
    /\ BagIn(<<"start", d>>, pending)
    /\ Exists(d) /\ doc[d].type = "office"
    /\ pending' = Taken(<<"start", d>>)
    /\ conversion' = IF d \in DOMAIN conversion THEN conversion
                     ELSE Upsert(conversion, d, [status |-> "pending", step |-> "queued"])
    /\ UNCHANGED <<box, doc, file, blob, optimize, purge, past, bound, linkVars, ocr>>

\* The broker refuses the message of the new job: the row stays, and the
\* callback raises.
StartUnsent(d, later) ==
    /\ "recognize" \in bound.does
    /\ FailureFor(Unbuilt(later))
    /\ BagIn(<<"start", d>>, pending)
    /\ Exists(d) /\ d \notin DOMAIN conversion
    /\ pending' = Without({<<"start", d>>} \cup later)
    /\ IF doc[d].type = "pdf"
       THEN /\ ocr' = Append(ocr, [NewOcrJob(d) EXCEPT !.step = "done"])
            /\ UNCHANGED conversion
       ELSE /\ conversion' = Upsert(conversion, d, [status |-> "pending", step |-> "done"])
            /\ UNCHANGED ocr
    /\ UNCHANGED <<box, doc, file, blob, optimize, purge, bound, linkVars>>

\* A person starts the OCR of a document again.
RestartOcr(d) ==
    /\ Request("ocr")
    /\ Active(d) /\ Recognized(d) \in DOMAIN file
    /\ ocr' = OcrCreated(d)
    /\ UNCHANGED <<box, doc, file, blob, optimize, purge, pending, bound, linkVars, conversion>>

(***************************************************************************)
(* An OCR job runs.                                                        *)
(***************************************************************************)

\* run_ocr_job leaves a cancelled job alone.  "cancelled" is FAILED with the
\* message of the administrator, which is how the code tells it from a failure.
TakeOcrJob(j) ==
    /\ ocr[j].step = "queued"
    /\ IF OcrRowExists(j) /\ ocr[j].status # "cancelled"
       THEN OcrGoes(j, "taken", ocr[j].status)
       ELSE OcrGoes(j, "done", ocr[j].status)
    /\ UNCHANGED <<docVars, linkVars, conversion>>

MarkOcrRunning(j) ==
    /\ ocr[j].step = "taken"
    /\ IF OcrRowExists(j) THEN OcrGoes(j, "running", "running")
                          ELSE OcrGoes(j, "done", ocr[j].status)
    /\ UNCHANGED <<docVars, linkVars, conversion>>

\* The file was recognized; _mark_succeeded begins and reads the document.
ReadForOcr(j) ==
    LET d == ocr[j].doc
    IN  /\ ocr[j].step = "running"
        /\ OcrRowExists(j) /\ Recognized(d) \in DOMAIN file
        /\ ocr' = [ocr EXCEPT ![j].step = "read", ![j].seen = {doc[d]}]
        /\ UNCHANGED <<docVars, linkVars, conversion>>

\* Error: rules fill fields that have a value as well.
AllFilled(seen, found) ==
    [s \in ToSet(Fields) |->
        IF s \in EffectiveSlugs(seen.box) /\ found[s] # "" THEN found[s] ELSE seen.meta[s]]

\* ApplyOcrMetadataRules: empty fields that apply to the box get values.
Filled(seen, found) ==
    [s \in ToSet(Fields) |->
        IF s \in EffectiveSlugs(seen.box) /\ seen.meta[s] = ""
        THEN found[s] ELSE seen.meta[s]]

\* _prefill_document_title: titles of persons and invoices stay.
Prefills(seen) == seen.title \in {"filename", "ocr"}

\* The transaction saves the layout, and what was found into the document:
\* the title, and if a rule found a value, all metadata as it was read.
OcrSucceeds(j, titled, found) ==
    LET d == ocr[j].doc
        seen == CHOOSE row \in ocr[j].seen : TRUE
        meta == Filled(seen, found)
    IN  /\ ocr[j].step = "read"
        /\ titled => "text" \in ocr[j].from
        /\ blob' = blob \cup {Key(<<d, "layout">>, j)}
        /\ IF OcrRowExists(j)
           THEN /\ ocr' = [ocr EXCEPT ![j].step = "done", ![j].status = "succeeded",
                                      ![j].seen = {}]
                /\ doc' = [doc EXCEPT
                             ![d].title = IF Prefills(seen) /\ titled THEN "ocr" ELSE @,
                             ![d].meta = IF meta = seen.meta THEN @ ELSE meta,
                             ![d].rev = @ + 1]
                /\ IF meta = seen.meta THEN UNCHANGED <<relation, history>>
                   ELSE Reconcile(doc', d, [seen EXCEPT !.meta = meta])
                /\ pending' = Scheduled({"index"}, {d})
           ELSE /\ ocr' = [ocr EXCEPT ![j].step = "done", ![j].seen = {}]
                /\ UNCHANGED <<doc, relation, history, pending>>
        /\ UNCHANGED <<box, file, optimize, purge, past, bound, field, conversion>>

OcrFails(j) ==
    /\ ocr[j].step = "running"
    /\ OcrGoes(j, "done", IF OcrRowExists(j) THEN "failed" ELSE ocr[j].status)
    /\ UNCHANGED <<docVars, linkVars, conversion>>

\* cancel_background_job marks the job; the worker dies of it, or is not found.
CancelOcr(j, killed) ==
    /\ OcrRowExists(j)
    /\ Cancel(ocr[j].status, killed, ocr[j].step # "queued")
    /\ ocr' = [ocr EXCEPT ![j].status = "cancelled",
                          ![j].step = IF killed THEN "done" ELSE @,
                          ![j].seen = IF killed THEN {} ELSE @]
    /\ UNCHANGED <<box, doc, file, blob, optimize, purge, pending, bound, linkVars, conversion>>

OcrDies(j) ==
    /\ Failure
    /\ ocr[j].step \in {"taken", "running", "read"}
    /\ ocr' = [ocr EXCEPT ![j].step = "done", ![j].seen = {}]
    /\ UNCHANGED <<box, doc, file, blob, optimize, purge, pending, bound, linkVars, conversion>>

(***************************************************************************)
(* A conversion runs.                                                      *)
(***************************************************************************)

ConversionGoes(d, step, status) ==
    conversion' = [conversion EXCEPT ![d] = [step |-> step, status |-> status]]

RunOfficeConversion(d) ==
    /\ conversion[d].step = "queued"
    /\ IF Exists(d) /\ conversion[d].status # "cancelled"
       THEN ConversionGoes(d, "running", "running")
       ELSE ConversionGoes(d, "done", conversion[d].status)
    /\ UNCHANGED <<docVars, linkVars, ocr>>

\* StoreImmutableFile saves the PDF ...
SaveDerivative(d) ==
    /\ conversion[d].step = "running"
    /\ Exists(d)
    /\ ConversionGoes(d, "saved", conversion[d].status)
    /\ blob' = blob \cup {Key(Derivative(d), 1)}
    /\ UNCHANGED <<box, doc, file, optimize, purge, pending, past, bound, linkVars, ocr>>

\* ... and then its row.
StoreDerivative(d) ==
    /\ conversion[d].step = "saved"
    /\ IF Exists(d)
       THEN /\ ConversionGoes(d, "stored", conversion[d].status)
            /\ file' = Upsert(file, Derivative(d), 1)
       ELSE /\ ConversionGoes(d, "done", conversion[d].status)
            /\ UNCHANGED file
    /\ UNCHANGED <<box, doc, blob, optimize, purge, pending, past, bound, linkVars, ocr>>

\* The job is done, and starts the OCR of the PDF.
ConversionSucceeds(d) ==
    /\ conversion[d].step = "stored"
    /\ ConversionGoes(d, "done", IF Exists(d) THEN "succeeded" ELSE conversion[d].status)
    /\ ocr' = IF Exists(d) THEN OcrCreated(d) ELSE ocr
    /\ UNCHANGED <<docVars, linkVars>>

\* The PDF, or the preview made of the stored PDF, fails.
ConversionFails(d) ==
    /\ conversion[d].step \in {"running", "stored"}
    /\ ConversionGoes(d, "done", IF Exists(d) THEN "failed" ELSE conversion[d].status)
    /\ UNCHANGED <<docVars, linkVars, ocr>>

CancelConversion(d, killed) ==
    /\ Exists(d)
    /\ Cancel(conversion[d].status, killed, conversion[d].step # "queued")
    /\ ConversionGoes(d, IF killed THEN "done" ELSE conversion[d].step, "cancelled")
    /\ UNCHANGED <<box, doc, file, blob, optimize, purge, pending, bound, linkVars, ocr>>

OcrInit ==
    /\ ocr = << >>
    /\ conversion = << >>

(***************************************************************************)
(* Properties.                                                             *)
(***************************************************************************)

LosesTitle(d) == doc[d].title = "manual" /\ doc'[d].title # "manual"
LosesValue(d, f) == doc[d].meta[f] # "" /\ doc'[d].meta[f] # doc[d].meta[f]

\* Job j ends, and what it wrote is of document d.
OcrEnds(j, d) == ocr[j].step = "read" /\ ocr'[j].step = "done" /\ ocr[j].doc = d

\* No title a person gave and no value of a field is changed by a step that is
\* no request, but by an OCR job that had read another title, or another value
\* of this field, before a person or a migration changed it.
OcrKeepsInput ==
    [][\A d \in Docs : past'.requests = past.requests =>
          /\ LosesTitle(d) =>
                \E j \in DOMAIN ocr :
                    OcrEnds(j, d) /\ \A row \in ocr[j].seen : row.title # doc[d].title
          /\ \A f \in ToSet(Fields) : LosesValue(d, f) =>
                \E j \in DOMAIN ocr :
                    OcrEnds(j, d) /\ \A row \in ocr[j].seen : row.meta[f] # doc[d].meta[f]
      ]_<<docVars, linkVars, ocrVars>>

\* Emptying a box takes the OCR data of its documents out of the store, too:
\* once the blobs are deleted, no layout of a job that had succeeded is left.
NothingLeftOfEmptied ==
    purge = {} /\ past.failures = 0 =>
        \A j \in DOMAIN ocr :
            ocr[j].status = "succeeded" /\ ~ Exists(ocr[j].doc) =>
                Key(<<ocr[j].doc, "layout">>, j) \notin blob

=============================================================================

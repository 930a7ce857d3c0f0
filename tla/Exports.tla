------------------------------ MODULE Exports ------------------------------
(***************************************************************************)
(* Exports of document files as a ZIP: a run is built by a worker that     *)
(* lists the files at once and then packs them one by one.  Of each it     *)
(* keeps an item, written at once, while the ZIP is saved at the end.      *)
(***************************************************************************)
EXTENDS Documents

VARIABLE run \* the export runs in the order of their ids, each with its
             \* items, and the progress of the worker that builds it

exportVars == <<run>>

\* The rows: ExportRun with its ExportRunItems, and what the worker has.
ExportRun(r) ==
    [status : {"processing", "completed", "failed"}, docs : SUBSET Docs, only : BOOLEAN,
     step : {"queued", "packing", "done"},
     todo : [(DOMAIN run[r].todo) \cap run[r].docs -> Nat],
     items : [(DOMAIN run[r].items) \cap run[r].docs -> {"exported", "skipped", "missing"}],
     archive : SUBSET Docs, zip : SUBSET Docs]

\* the items of a run with a status
ItemsOf(r, status) == {d \in DOMAIN run[r].items : run[r].items[d] = status}

\* Error: any earlier item is taken for an export.
AnyItem(d) == \E r \in DOMAIN run : d \in DOMAIN run[r].items

\* _already_exported
AlreadyExported(d) == \E r \in DOMAIN run : d \in ItemsOf(r, "exported")

\* DocumentImageExportForm.documents_queryset
Exportable(b, below, only) ==
    {d \in InBox(b, below) : only => ~ AlreadyExported(d)}

\* CreateDocumentImageExportRun
NewRun(ds, only) ==
    [status |-> "processing", docs |-> ds, only |-> only, step |-> "queued", todo |-> << >>,
     items |-> << >>, archive |-> {}, zip |-> {}]

\* the page of the exports, and the message
CreateExport(b, below, only) ==
    LET ds == Exportable(b, below, only)
        r == Len(run) + 1
    IN  /\ Request("export")
        /\ box[b].active
        /\ ds # {}
        /\ run' = Append(run, NewRun(ds, only))
        /\ pending' = Scheduled({"export"}, {r})
        /\ UNCHANGED <<box, doc, file, blob, optimize, purge, bound>>

\* build_document_image_export leaves a cancelled run alone; else it reads the
\* documents, and the keys of their files.
StartExport(r) ==
    /\ BagIn(<<"export", r>>, pending)
    /\ pending' = Taken(<<"export", r>>)
    /\ run' = IF run[r].status = "failed"
              THEN [run EXCEPT ![r].step = "done"]
              ELSE [run EXCEPT ![r].step = "packing",
                               ![r].todo = [d \in {e \in run[r].docs : Exists(e)} |->
                                              file[<<d, "original">>]]]
    /\ UNCHANGED <<box, doc, file, blob, optimize, purge, past, bound>>

\* The item of a document that a run packs: "missing" is FAILED, for a file
\* that is not in the store.
Outcome(r, d) ==
    IF run[r].only /\ AlreadyExported(d) THEN "skipped"
    ELSE IF Key(<<d, "original">>, run[r].todo[d]) \in blob THEN "exported"
    ELSE "missing"

\* The file of a document is packed, and its item created: that fails, and so
\* the whole run, if the document is gone.
PackDocument(r, d) ==
    LET outcome == Outcome(r, d)
    IN  /\ run[r].step = "packing"
        /\ d \in DOMAIN run[r].todo
        /\ run' = IF Exists(d)
                  THEN [run EXCEPT ![r].todo = Restrict(@, DOMAIN @ \ {d}),
                                   ![r].items = Upsert(@, d, outcome),
                                   ![r].archive = IF outcome = "exported" THEN @ \cup {d} ELSE @]
                  ELSE [run EXCEPT ![r].step = "done", ![r].status = "failed"]
        /\ UNCHANGED docVars

\* The ZIP is saved, and the run is completed, cancelled or not.
FinishExport(r) ==
    /\ run[r].step = "packing" /\ run[r].todo = << >>
    /\ run' = [run EXCEPT ![r].step = "done",
                          ![r].status = "completed",
                          ![r].zip = run[r].archive]
    /\ UNCHANGED docVars

\* Something else fails.
ExportFails(r) ==
    /\ Failure
    /\ run[r].step = "packing"
    /\ run' = [run EXCEPT ![r].step = "done", ![r].status = "failed"]
    /\ UNCHANGED <<box, doc, file, blob, optimize, purge, pending, bound>>

ExportDies(r) ==
    /\ Failure
    /\ run[r].step = "packing"
    /\ run' = [run EXCEPT ![r].step = "done"]
    /\ UNCHANGED <<box, doc, file, blob, optimize, purge, pending, bound>>

\* cancel_background_job
CancelExport(r, killed) ==
    /\ Cancel(run[r].status, killed, run[r].step = "packing")
    /\ run' = [run EXCEPT ![r].status = "failed", ![r].step = IF killed THEN "done" ELSE @]
    /\ UNCHANGED <<box, doc, file, blob, optimize, purge, pending, bound>>

\* Items of documents that are deleted for good go, too.
ItemsLeft ==
    run' = [r \in DOMAIN run |->
              [run[r] EXCEPT !.items = [d \in {e \in DOMAIN @ : doc'[e].status # "purged"} |-> @[d]]]]

ExportsInit == run = << >>

(***************************************************************************)
(* Properties.                                                             *)
(***************************************************************************)

\* the run has ended without a ZIP
Lost(r) == run[r].step = "done" /\ run[r].status # "completed"

\* A document that a run skips, because it has been exported, is in the ZIP of
\* another run, or will be, unless that run was cancelled, failed or died.
\* Runs overlap, and files are replaced under their hands.
SkipsAreCovered ==
    \A r \in DOMAIN run : \A d \in ItemsOf(r, "skipped") :
        \E s \in DOMAIN run \ {r} :
            /\ d \in ItemsOf(s, "exported")
            /\ d \in run[s].archive
            /\ Lost(s) \/ run[s].step = "packing" \/ d \in run[s].zip

=============================================================================

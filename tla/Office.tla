------------------------------- MODULE Office -------------------------------
(***************************************************************************)
(* The documents of a tenant with everything that works on them: requests, *)
(* callbacks, workers, periodic tasks.  The parts share the documents, the *)
(* boxes, the files and the queue of callbacks and messages; rows of other *)
(* parts go with documents that are deleted for good.                      *)
(***************************************************************************)
EXTENDS BoxJobs, Notices, Exports, Accounts

CONSTANTS
    FieldRows, \* rows that people give to fields
    AlarmRows, \* rows that people give to alarms
    RoleRows   \* rows that people give to roles

ASSUME RowsAssumption ==
    /\ FieldRows \subseteq [box : Boxes, slug : ToSet(Fields), propagate : BOOLEAN,
                            auto : BOOLEAN, active : BOOLEAN]
    /\ AlarmRows \subseteq [active : BOOLEAN, box : Boxes \cup {Root}, below : BOOLEAN, word : Nat]
    /\ RoleRows \subseteq [see : BOOLEAN, all : BOOLEAN, boxes : SUBSET Boxes, active : BOOLEAN,
                           system : {FALSE}, sup : {{}}]

vars == <<docVars, rule, linkVars, noticeVars, ocrVars, boxJobVars, exportVars, accountVars>>

Init ==
    /\ DocumentsInit
    /\ RulesInit
    /\ LinksInit
    /\ NoticesInit
    /\ OcrInit
    /\ BoxJobsInit
    /\ ExportsInit
    /\ AccountsInit

\* what the parts leave alone
Elsewhere == UNCHANGED <<rule, noticeVars, exportVars, accountVars>>
DocumentsOnly == Elsewhere /\ UNCHANGED <<linkVars, ocrVars, boxJobVars>>
RulesOnly == UNCHANGED <<linkVars, noticeVars, ocrVars, boxJobVars, exportVars, accountVars>>
LinksOnly == Elsewhere /\ UNCHANGED <<ocrVars, boxJobVars>>
OcrOnly == Elsewhere /\ UNCHANGED boxJobVars
BoxJobsOnly == Elsewhere
NoticesOnly == UNCHANGED <<rule, linkVars, ocrVars, boxJobVars, exportVars, accountVars>>
ExportsOnly == UNCHANGED <<rule, linkVars, noticeVars, ocrVars, boxJobVars, accountVars>>
AccountsOnly == UNCHANGED <<rule, linkVars, noticeVars, ocrVars, boxJobVars, exportVars>>

Known == DOMAIN box
Jobs == DOMAIN ocr

DocumentsNext ==
    \/ \E b \in Boxes, p \in Known \cup {Root}, s \in Slugs :
          CreateDocumentSpace(b, p, s) /\ DocumentsOnly
    \/ \E b \in Known, p \in Known \cup {Root}, s \in Slugs, active \in BOOLEAN :
          UpdateDocumentSpace(b, p, s, active) /\ DocumentsOnly
    \/ \E b \in Known, target \in Known \cup {Root} :
          DeleteDocumentSpace(b, target) /\ DocumentsOnly
    \/ \E b \in Known : /\ EmptyDocumentSpace(b)
                        /\ RelationsLeft /\ NoticesLeft /\ ItemsLeft
                        /\ UNCHANGED <<rule, ocrVars, boxJobVars, accountVars>>
    \/ \E keys \in purge : DeleteStorageKeys(keys) /\ DocumentsOnly
    \/ \E b \in Known, type \in {"pdf", "office"}, title \in {"manual", "filename"} :
          UploadDocument(b, type, title) /\ DocumentsOnly
    \/ \E b \in Known : ImportIntoBox(b, "pdf") /\ DocumentsOnly
    \/ \E d \in Docs : DeleteDocument(d) /\ DocumentsOnly
    \/ \E d \in Docs, a, b \in Known, keep \in BOOLEAN :
          SplitDocument(d, <<a, b>>, keep) /\ DocumentsOnly
    \/ \E ds \in SUBSET Docs, b \in Known, keep \in BOOLEAN :
          MergeDocuments(ds, b, keep) /\ DocumentsOnly
    \/ \E d \in Docs, b \in Known, retitled \in BOOLEAN :
          UpdateDocumentCoreMetadata(d, b, retitled) /\ DocumentsOnly
    \/ \E d \in Docs : AddDocumentComment(d) /\ DocumentsOnly
    \/ \E d \in Docs : SetDocumentTags(d) /\ DocumentsOnly
    \/ \E w \in Optimizers, d \in Docs : OptimizeOne(w, d) /\ DocumentsOnly
    \/ \E w \in Optimizers : SaveOptimized(w) /\ DocumentsOnly
    \/ \E w \in Optimizers : ReplaceStorage(w) /\ DocumentsOnly
    \/ \E w \in Optimizers : DeleteOldKey(w) /\ DocumentsOnly
    \/ \E w \in Optimizers : OptimizerDies(w) /\ DocumentsOnly
    \/ \E keys \in purge : PurgeLost(keys) /\ DocumentsOnly
    \/ \E cs \in SUBSET DOMAIN pending : CallbacksLost(cs) /\ DocumentsOnly
    \/ \E c \in Droppable : \E later \in SUBSET (Droppable \ {c}) :
          CallbackRaises(c, later) /\ DocumentsOnly

TitleRulesNext ==
    \/ \E bs \in SUBSET Known, from \in Sources : CreateTitleRule(bs, from) /\ RulesOnly
    \/ \E n \in DOMAIN rule, bs \in SUBSET Known, from \in Sources :
          EditTitleRule(n, bs, from) /\ RulesOnly
    \/ \E n \in DOMAIN rule : DeleteTitleRule(n) /\ RulesOnly

LinksNext ==
    \/ \E d \in Docs : \E values \in MetadataForm(d) :
          UpdateDocumentMetadata(d, values) /\ LinksOnly
    \/ \E b \in Known, title \in {"manual", "filename"}, f \in DOMAIN field, v \in Values \ {""},
          complete \in BOOLEAN : UploadInvoice(b, title, f, v, complete) /\ LinksOnly
    \/ \E d, e \in Docs : AddDocumentRelation(d, e) /\ LinksOnly
    \/ \E d, e \in Docs : RemoveDocumentRelation(d, e) /\ LinksOnly
    \/ \E f \in ToSet(Fields), row \in FieldRows : CreateDocumentMetadataField(f, row) /\ LinksOnly
    \/ \E f \in DOMAIN field, row \in FieldRows : UpdateDocumentMetadataField(f, row) /\ LinksOnly
    \/ \E f, g \in DOMAIN field : DeleteDocumentMetadataField(f, g) /\ LinksOnly

NoticesNext ==
    \/ \E p \in Indexers, d \in Docs : ReadDocument(p, d) /\ NoticesOnly
    \/ \E p \in Indexers : WriteIndex(p) /\ NoticesOnly
    \/ \E p \in Indexers : \E x \in rebuild[p].todo : EvaluateAlarm(p, x[1], x[2]) /\ NoticesOnly
    \/ \E p \in Indexers : Evaluated(p) /\ NoticesOnly
    \/ \E p \in Indexers, later \in SUBSET Droppable : RebuildFails(p, later) /\ NoticesOnly
    \/ \E p \in Indexers, later \in SUBSET Droppable : RebuildRaises(p, later) /\ NoticesOnly
    \/ \E a \in Alarms, row \in AlarmRows : SaveAlarm(a, row) /\ NoticesOnly
    \/ \E a \in Alarms : DeleteAlarm(a) /\ NoticesOnly
    \/ \E d \in Docs, due \in BOOLEAN : SaveDocumentReminder(d, due) /\ NoticesOnly
    \/ \E d \in Docs : EndDocumentReminder(d) /\ NoticesOnly
    \/ \E d \in Docs : ReminderComesDue(d) /\ NoticesOnly
    \/ \E w \in Dispatchers : ListDueReminders(w) /\ NoticesOnly
    \/ \E w \in Dispatchers : \E x \in dispatch[w] : TellReminder(w, x[1], x[2]) /\ NoticesOnly
    \/ \E w \in Dispatchers : DispatcherDies(w) /\ NoticesOnly

OcrNext ==
    \/ \E d \in Docs : StartOcr(d) /\ OcrOnly
    \/ \E d \in Docs : StartOfficeConversion(d) /\ OcrOnly
    \/ \E d \in Docs, later \in SUBSET Droppable : StartUnsent(d, later) /\ OcrOnly
    \/ \E d \in Docs : RestartOcr(d) /\ OcrOnly
    \/ \E j \in Jobs : TakeOcrJob(j) /\ OcrOnly
    \/ \E j \in Jobs : MarkOcrRunning(j) /\ OcrOnly
    \/ \E j \in Jobs : ReadForOcr(j) /\ OcrOnly
    \/ \E j \in Jobs, titled \in BOOLEAN, found \in Found : OcrSucceeds(j, titled, found) /\ OcrOnly
    \/ \E j \in Jobs : OcrFails(j) /\ OcrOnly
    \/ \E j \in Jobs, killed \in BOOLEAN : CancelOcr(j, killed) /\ OcrOnly
    \/ \E j \in Jobs : OcrDies(j) /\ OcrOnly
    \/ \E d \in DOMAIN conversion : RunOfficeConversion(d) /\ OcrOnly
    \/ \E d \in DOMAIN conversion : SaveDerivative(d) /\ OcrOnly
    \/ \E d \in DOMAIN conversion : StoreDerivative(d) /\ OcrOnly
    \/ \E d \in DOMAIN conversion : ConversionSucceeds(d) /\ OcrOnly
    \/ \E d \in DOMAIN conversion : ConversionFails(d) /\ OcrOnly
    \/ \E d \in DOMAIN conversion, killed \in BOOLEAN : CancelConversion(d, killed) /\ OcrOnly

BoxJobsNext ==
    \/ \E kind \in {"link", "layout"}, b \in Known, below \in BOOLEAN :
          CreateBoxJob(kind, b, below) /\ BoxJobsOnly
    \/ \E w \in JobWorkers, j \in DOMAIN boxjob : ClaimBoxJob(w, j) /\ BoxJobsOnly
    \/ \E w \in JobWorkers : ReconcileNext(w) /\ BoxJobsOnly
    \/ \E w \in JobWorkers : SkipLayout(w) /\ BoxJobsOnly
    \/ \E w \in JobWorkers : StartLayout(w) /\ BoxJobsOnly
    \/ \E w \in JobWorkers, found \in BOOLEAN : EndLayout(w, found) /\ BoxJobsOnly
    \/ \E w \in JobWorkers : SaveCursor(w) /\ BoxJobsOnly
    \/ \E w \in JobWorkers : EndBatch(w) /\ BoxJobsOnly
    \/ \E w \in JobWorkers : WorkerDies(w) /\ BoxJobsOnly
    \/ \E j \in DOMAIN boxjob : ResumeBoxJob(j) /\ BoxJobsOnly
    \/ \E j \in DOMAIN boxjob, killed \in SUBSET JobWorkers : CancelLayout(j, killed) /\ BoxJobsOnly

ExportsNext ==
    \/ \E b \in Known, below, only \in BOOLEAN : CreateExport(b, below, only) /\ ExportsOnly
    \/ \E r \in DOMAIN run : StartExport(r) /\ ExportsOnly
    \/ \E r \in DOMAIN run, d \in Docs : PackDocument(r, d) /\ ExportsOnly
    \/ \E r \in DOMAIN run : FinishExport(r) /\ ExportsOnly
    \/ \E r \in DOMAIN run : ExportFails(r) /\ ExportsOnly
    \/ \E r \in DOMAIN run : ExportDies(r) /\ ExportsOnly
    \/ \E r \in DOMAIN run, killed \in BOOLEAN : CancelExport(r, killed) /\ ExportsOnly

AccountsNext ==
    \/ \E m \in Members, rs \in SUBSET DOMAIN role : AddTenantMember(m, rs) /\ AccountsOnly
    \/ \E m \in Members, rs \in SUBSET DOMAIN role, active \in BOOLEAN :
          UpdateTenantMembership(m, rs, active) /\ AccountsOnly
    \/ \E r \in ToSet(Roles), row \in RoleRows : CreateTenantRole(r, row) /\ AccountsOnly
    \/ \E r \in DOMAIN role, row \in RoleRows : UpdateTenantRole(r, row) /\ AccountsOnly
    \/ \E r \in DOMAIN role : CheckTenantRole(r) /\ AccountsOnly
    \/ \E r \in deleting : DeleteTenantRole(r) /\ AccountsOnly

Next ==
    \/ DocumentsNext \/ TitleRulesNext \/ LinksNext \/ NoticesNext
    \/ OcrNext \/ BoxJobsNext \/ ExportsNext \/ AccountsNext

Spec == Init /\ [][Next]_vars

\* Every row is of its kind, and refers to rows there are.
TypeOK ==
    /\ \A b \in Known : box[b] \in DocumentSpace
    /\ \A d \in Docs : doc[d] \in Document
    /\ DOMAIN file \subseteq DocumentFile
    /\ \A n \in DOMAIN rule : rule[n] \in DocumentTitleRule
    /\ \A f \in DOMAIN field : field[f] \in DocumentMetadataField
    /\ relation \in DocumentRelation
    /\ DOMAIN index \cup DOMAIN reminder \subseteq Docs
    /\ \A d \in DOMAIN index : index[d] \in DocumentSearchIndex
    /\ \A d \in DOMAIN reminder : reminder[d] \in DocumentReminder
    /\ \A a \in DOMAIN alarm : alarm[a] \in DocumentAlarm
    /\ match \subseteq DocumentAlarmMatch
    /\ \A j \in Jobs : ocr[j] \in OcrJob
    /\ \A d \in DOMAIN conversion : conversion[d] \in DocumentOfficeConversionJob
    /\ \A j \in DOMAIN boxjob :
          boxjob[j] \in DocumentBoxMetadataLinkJob \cup DocumentBoxOcrLayoutJob
    /\ \A r \in DOMAIN run : run[r] \in ExportRun(r)
    /\ \A m \in DOMAIN member : member[m] \in TenantMembership
    /\ \A r \in DOMAIN role : role[r] \in TenantRole

=============================================================================

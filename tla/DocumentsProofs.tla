--------------------------- MODULE DocumentsProofs --------------------------
(***************************************************************************)
(* Theorems about the tree of boxes and the stored files, whichever        *)
(* workers replace files, die, and delete what is left; and what the rows  *)
(* of documents and jobs look like, which other proofs rest on.            *)
(***************************************************************************)
EXTENDS OfficeProofs, FiniteSetTheorems

-----------------------------------------------------------------------------
(***************************************************************************)
(* Documents: rows are added and changed; one that is purged stays so.     *)
(***************************************************************************)

RowShaped(row) ==
    /\ DOMAIN row = {"status", "box", "type", "title", "meta", "rev"}
    /\ DOMAIN row.meta = ToSet(Fields)

DocsShaped ==
    /\ doc \in Seq({doc[d] : d \in Docs})
    /\ \A d \in Docs : RowShaped(doc[d])

\* What may become of the row of a document.
RowKept(row, next) ==
    /\ RowShaped(next)
    /\ next.type = row.type
    /\ row.status = "purged" <=> next.status = "purged"

\* The same of all, unless a box is emptied; and new ones are active.
DocsKept ==
    /\ DocsShaped'
    /\ Docs \subseteq Docs'
    /\ \A d \in Docs : /\ doc'[d].type = doc[d].type
                       /\ doc[d].status = "purged" => doc'[d].status = "purged"
    /\ \/ \E b : EmptyDocumentSpace(b) /\ UNCHANGED ocrVars
       \/ \A d \in Docs : doc'[d].status = "purged" => doc[d].status = "purged"
    /\ \A d \in Docs' \ Docs : doc'[d].status = "active"

LEMMA SameDocsShaped ==
    ASSUME DocsShaped, doc' = [d \in Docs |-> doc'[d]], \A d \in Docs : RowShaped(doc'[d])
    PROVE  DocsShaped' /\ Docs' = Docs
<1>1. DOMAIN doc' = Docs /\ Len(doc) \in Nat /\ Docs = 1 .. Len(doc)
  BY DEF DocsShaped, Docs
<1> DEFINE S == {doc'[d] : d \in 1 .. Len(doc)}
<1>2. doc' \in [1 .. Len(doc) -> S]
  BY <1>1
<1>3. doc' \in Seq(S)
  BY <1>1, <1>2
<1>4. doc' \in Seq({doc'[d] : d \in Docs'})
  BY <1>1, <1>3, OwnElements DEF Docs
<1> QED BY <1>1, <1>4 DEF DocsShaped, Docs

LEMMA SameDocs ==
    ASSUME DocsShaped, doc' = [d \in Docs |-> doc'[d]], \A d \in Docs : RowKept(doc[d], doc'[d])
    PROVE  DocsKept /\ Docs' = Docs
BY SameDocsShaped DEF DocsKept, RowKept

\* Documents are created from uploads, parts and merged pages.
LEMMA MoreDocs ==
    ASSUME DocsShaped, NEW docs, docs = [d \in Docs |-> docs[d]],
           \A d \in Docs : RowKept(doc[d], docs[d]),
           NEW S, NEW rows \in Seq(S), doc' = docs \o rows,
           \A k \in DOMAIN rows : RowShaped(rows[k]) /\ rows[k].status = "active"
    PROVE  /\ DocsKept
           /\ Docs' = Docs \cup (Len(doc) + 1 .. Len(doc) + Len(rows))
           /\ Len(docs) = Len(doc)
           /\ \A d \in Docs : doc'[d] = docs[d]
           /\ \A d \in Docs' \ Docs : doc'[d] = rows[d - Len(doc)]
<1>1. Len(doc) \in Nat /\ Docs = 1 .. Len(doc) /\ Len(rows) \in Nat /\ DOMAIN rows = 1 .. Len(rows)
  BY DEF DocsShaped, Docs
<1> DEFINE T == {docs[d] : d \in 1 .. Len(doc)} \cup S
<1>2. docs \in [1 .. Len(doc) -> T]
  BY <1>1
<1>3. docs \in Seq(T) /\ Len(docs) = Len(doc)
  BY <1>1, <1>2
<1>4. rows \in Seq(T)
  BY <1>1
<1> HIDE DEF T
<1>5. /\ doc' \in Seq(T)
      /\ Len(doc') = Len(doc) + Len(rows)
      /\ \A d \in 1 .. Len(doc) : doc'[d] = docs[d]
      /\ \A d \in Len(doc) + 1 .. Len(doc) + Len(rows) : doc'[d] = rows[d - Len(doc)]
  BY <1>1, <1>3, <1>4
<1>6. /\ DOMAIN doc' = 1 .. Len(doc) + Len(rows)
      /\ 1 .. Len(doc) + Len(rows) = Docs \cup (Len(doc) + 1 .. Len(doc) + Len(rows))
  BY <1>1, <1>5
<1>7. doc' \in Seq({doc'[d] : d \in Docs'})
  <2>1. doc' \in Seq(T)
    BY <1>5
  <2>2. ASSUME NEW q \in Seq(T) PROVE q \in Seq({q[d] : d \in DOMAIN q})
    <3> HIDE DEF T
    <3> QED BY OwnElements
  <2> QED BY <2>1, <2>2 DEF Docs
<1>8. ASSUME NEW d \in Docs' \ Docs
      PROVE  d - Len(doc) \in DOMAIN rows /\ doc'[d] = rows[d - Len(doc)]
  BY <1>1, <1>5, <1>6 DEF Docs
<1>9. \A d \in Docs' : RowShaped(doc'[d])
  BY <1>1, <1>5, <1>6, <1>8 DEF RowKept, Docs
<1>10. Docs' = Docs \cup (Len(doc) + 1 .. Len(doc) + Len(rows))
  BY <1>6 DEF Docs
<1>11. \A d \in Docs : doc'[d] = docs[d]
  BY <1>1, <1>5
<1>12. DocsKept
  <2>1. DocsShaped'
    BY <1>7, <1>9 DEF DocsShaped
  <2>2. \A d \in Docs : /\ doc'[d].type = doc[d].type
                        /\ doc[d].status = "purged" <=> doc'[d].status = "purged"
    BY <1>11 DEF RowKept
  <2>3. \A d \in Docs' \ Docs : doc'[d].status = "active"
    BY <1>8
  <2>4. Docs \subseteq Docs'
    BY <1>10
  <2> QED BY <2>1, <2>2, <2>3, <2>4 DEF DocsKept
<1> QED BY <1>3, <1>8, <1>10, <1>11, <1>12

\* What touches documents.
LEMMA OnlyTheseTouchDocs ==
    ASSUME [Next]_vars
    PROVE  \/ UNCHANGED doc
           \/ \E b, target : DeleteDocumentSpace(b, target)
           \/ \E b : EmptyDocumentSpace(b) /\ UNCHANGED ocrVars
           \/ \E b, type, title : UploadDocument(b, type, title)
           \/ \E b : ImportIntoBox(b, "pdf")
           \/ \E d \in Docs : DeleteDocument(d) \/ Annotate(d)
           \/ \E d \in Docs : \E a, b, keep : SplitDocument(d, <<a, b>>, keep)
           \/ \E ds \in SUBSET Docs : \E b, keep : MergeDocuments(ds, b, keep)
           \/ \E d \in Docs : \E b, retitled : UpdateDocumentCoreMetadata(d, b, retitled)
           \/ \E d \in Docs : \E values : UpdateDocumentMetadata(d, values)
           \/ \E b, title, f, v, complete : UploadInvoice(b, title, f, v, complete)
           \/ \E f, g : DeleteDocumentMetadataField(f, g)
           \/ \E j \in Jobs : \E titled, found : OcrSucceeds(j, titled, found)
           \/ \E w \in JobWorkers : \E found : EndLayout(w, found)
BY ZenonT(60)
   DEF Next, DocumentsNext, TitleRulesNext, LinksNext, NoticesNext, OcrNext, BoxJobsNext,
       ExportsNext, AccountsNext, vars, docVars, linkVars, Elsewhere, DocumentsOnly, RulesOnly, LinksOnly, OcrOnly,
       BoxJobsOnly, NoticesOnly, ExportsOnly, AccountsOnly, CreateDocumentSpace,
       UpdateDocumentSpace, DeleteStorageKeys, AddDocumentComment, SetDocumentTags, OptimizeOne,
       SaveOptimized, ReplaceStorage, DeleteOldKey, OptimizerDies, PurgeLost, CallbacksLost, CallbackRaises,
       CreateTitleRule, EditTitleRule, DeleteTitleRule, AddDocumentRelation,
       RemoveDocumentRelation, CreateDocumentMetadataField, UpdateDocumentMetadataField,
       ReadDocument, WriteIndex, EvaluateAlarm, Evaluated, RebuildFails, RebuildRaises, RebuildEnds, SaveAlarm, DeleteAlarm,
       SaveDocumentReminder, EndDocumentReminder, ReminderComesDue, ListDueReminders,
       TellReminder, DispatcherDies, StartOcr, StartOfficeConversion, StartUnsent, RestartOcr,
       TakeOcrJob, MarkOcrRunning, ReadForOcr, OcrFails, CancelOcr, OcrDies, RunOfficeConversion,
       SaveDerivative, StoreDerivative, ConversionSucceeds, ConversionFails, CancelConversion,
       CreateBoxJob, ClaimBoxJob, ReconcileNext, SkipLayout, StartLayout, SaveCursor, EndBatch,
       WorkerDies, ResumeBoxJob, CancelLayout, CreateExport, StartExport, PackDocument,
       FinishExport, ExportFails, ExportDies, CancelExport, AddTenantMember,
       UpdateTenantMembership, CreateTenantRole, UpdateTenantRole, CheckTenantRole,
       DeleteTenantRole

\* Rows of new documents.
LEMMA NewDocumentShaped ==
    ASSUME NEW b, NEW type, NEW title, NEW meta, DOMAIN meta = ToSet(Fields)
    PROVE  /\ RowShaped(NewDocument(b, type, title, meta))
           /\ NewDocument(b, type, title, meta).status = "active"
BY DEF NewDocument, RowShaped

\* New documents get an original each, in the store before its row.
FilesCreated ==
    \E new \in SUBSET (Docs' \ Docs) :
        /\ Docs' \ Docs \subseteq new
        /\ file' = [r \in DOMAIN file \cup (new \X {"original"}) |->
                        IF r \in DOMAIN file THEN file[r] ELSE 1]
        /\ blob' = blob \cup (new \X {"original"} \X {1})

\* The values of fields stay what they are, the place and the number of changes
\* as well.
MetaKept == \A d \in Docs : doc'[d].meta = doc[d].meta

PlaceKept(row, next) ==
    /\ next.box = row.box
    /\ next.rev = row.rev
    /\ next.status = "active" => row.status = "active"

PlacesKept == \A d \in Docs : PlaceKept(doc[d], doc'[d])

\* New documents get a search entry.
NewAreScheduled ==
    \E new : Docs' \ Docs \subseteq new /\ pending' = Scheduled({"start", "index"}, new)

CreatedWell == DocsKept /\ FilesCreated /\ MetaKept /\ PlacesKept /\ NewAreScheduled

LEMMA DocsCreated ==
    ASSUME DocsShaped, NEW docs, docs = [d \in Docs |-> docs[d]],
           \A d \in Docs : /\ RowKept(doc[d], docs[d]) /\ docs[d].meta = doc[d].meta
                           /\ PlaceKept(doc[d], docs[d]),
           NEW S, NEW rows \in Seq(S),
           \A k \in DOMAIN rows : RowShaped(rows[k]) /\ rows[k].status = "active",
           Create(docs, rows)
    PROVE  CreatedWell
<1>1. doc' = docs \o rows
  BY DEF Create
<1>2. /\ DocsKept
      /\ Docs' = Docs \cup (Len(doc) + 1 .. Len(doc) + Len(rows))
      /\ Len(docs) = Len(doc)
      /\ \A d \in Docs : doc'[d] = docs[d]
  BY <1>1, MoreDocs
<1> DEFINE new == Len(docs) + 1 .. Len(docs) + Len(rows)
<1>3. new \subseteq Docs' \ Docs
  <2>1. Len(doc) \in Nat /\ Docs = 1 .. Len(doc) /\ Len(rows) \in Nat
    BY DEF DocsShaped, Docs
  <2>2. \A n \in new : n \notin Docs
    BY <1>2, <2>1
  <2>3. new \subseteq Docs'
    BY <1>2, <2>1
  <2> QED BY <2>2, <2>3
<1>4. /\ file' = [r \in DOMAIN file \cup (new \X {"original"}) |->
                        IF r \in DOMAIN file THEN file[r] ELSE 1]
      /\ blob' = blob \cup (new \X {"original"} \X {1})
  BY DEF Create
<1>5. Docs' \ Docs \subseteq new /\ pending' = Scheduled({"start", "index"}, new)
  BY <1>2 DEF Create
<1> HIDE DEF new
<1>6. MetaKept /\ PlacesKept
  BY <1>2 DEF MetaKept, PlacesKept
<1>7. FilesCreated /\ NewAreScheduled
  BY <1>3, <1>4, <1>5 DEF FilesCreated, NewAreScheduled
<1> QED BY <1>2, <1>6, <1>7 DEF CreatedWell

LEMMA OneMoreDoc ==
    ASSUME DocsShaped, NEW row, RowShaped(row), row.status = "active", Create(doc, <<row>>)
    PROVE  CreatedWell
<1>1. /\ doc = [d \in Docs |-> doc[d]]
      /\ \A d \in Docs : RowKept(doc[d], doc[d]) /\ PlaceKept(doc[d], doc[d])
  BY DEF DocsShaped, RowKept, PlaceKept, Docs
<1> DEFINE rows == <<row>>
<1>2. rows \in Seq({row}) /\ \A k \in DOMAIN rows : RowShaped(rows[k]) /\ rows[k].status = "active"
  OBVIOUS
<1>3. Create(doc, rows)
  OBVIOUS
<1> HIDE DEF rows
<1> QED BY <1>1, <1>2, <1>3, DocsCreated

\* Deleting documents keeps their rows.
LEMMA DeletedKept ==
    ASSUME DocsShaped, NEW ds, \A d \in ds : doc[d].status # "purged"
    PROVE  \A d \in Docs : /\ RowKept(doc[d], DeletedIn(ds)[d])
                           /\ DeletedIn(ds)[d].meta = doc[d].meta
                           /\ PlaceKept(doc[d], DeletedIn(ds)[d])
BY DEF DocsShaped, DeletedIn, RowShaped, RowKept, PlaceKept

\* Documents are made of others, which stay or are deleted.
LEMMA MadeOfOthers ==
    ASSUME DocsShaped, NEW ds \in SUBSET Docs, \A d \in ds : Active(d), NEW keep,
           NEW S, NEW rows \in Seq(S),
           \A k \in DOMAIN rows : RowShaped(rows[k]) /\ rows[k].status = "active",
           Create(IF keep THEN doc ELSE DocumentsDeleted(ds), rows)
    PROVE  CreatedWell
<1> DEFINE docs == IF keep THEN doc ELSE DocumentsDeleted(ds)
<1>1. \A d \in ds : doc[d].status # "purged"
  BY DEF Active
<1>2. /\ docs = [d \in Docs |-> docs[d]]
      /\ \A d \in Docs : /\ RowKept(doc[d], docs[d]) /\ docs[d].meta = doc[d].meta
                         /\ PlaceKept(doc[d], docs[d])
  <2>1. \A d \in Docs : /\ RowKept(doc[d], DeletedIn(ds)[d])
                        /\ DeletedIn(ds)[d].meta = doc[d].meta
                        /\ PlaceKept(doc[d], DeletedIn(ds)[d])
    BY <1>1, DeletedKept
  <2>2. /\ doc = [d \in Docs |-> doc[d]]
        /\ \A d \in Docs : RowKept(doc[d], doc[d]) /\ PlaceKept(doc[d], doc[d])
    BY DEF DocsShaped, RowKept, PlaceKept, Docs
  <2>3. DeletedIn(ds) = [d \in Docs |-> DeletedIn(ds)[d]]
    BY DEF DeletedIn
  <2> QED BY <2>1, <2>2, <2>3, Zenon DEF DocumentsDeleted
<1>3. Create(docs, rows)
  OBVIOUS
<1> HIDE DEF docs
<1> QED BY <1>2, <1>3, DocsCreated

\* Whatever creates documents creates their files.
CreatesDocs ==
    \/ \E b, type, title : UploadDocument(b, type, title)
    \/ \E b : ImportIntoBox(b, "pdf")
    \/ \E d \in Docs : \E a, b, keep : SplitDocument(d, <<a, b>>, keep)
    \/ \E ds \in SUBSET Docs : \E b, keep : MergeDocuments(ds, b, keep)
    \/ \E b, title, f, v, complete : UploadInvoice(b, title, f, v, complete)

LEMMA FilesComeWithDocs ==
    ASSUME DocsShaped, CreatesDocs
    PROVE  CreatedWell
<1>1. DOMAIN NoValues = ToSet(Fields)
  BY DEF NoValues
<1>2. ASSUME NEW b, NEW type, NEW title, UploadDocument(b, type, title)
      PROVE  CreatedWell
  BY <1>1, <1>2, NewDocumentShaped, OneMoreDoc DEF UploadDocument
<1>3. ASSUME NEW b, ImportIntoBox(b, "pdf")
      PROVE  CreatedWell
  BY <1>1, <1>3, NewDocumentShaped, OneMoreDoc DEF ImportIntoBox
<1>4. ASSUME NEW d \in Docs, NEW a, NEW b, NEW keep, SplitDocument(d, <<a, b>>, keep)
      PROVE  CreatedWell
  <2> DEFINE rows == PartRows(<<a, b>>)
  <2>1. \A k \in DOMAIN rows : RowShaped(rows[k]) /\ rows[k].status = "active"
    BY <1>1, NewDocumentShaped DEF PartRows
  <2>2. rows \in Seq({rows[k] : k \in 1 .. 2})
    BY DEF PartRows
  <2> HIDE DEF rows
  <2>3. \A e \in {d} : Active(e)
    BY <1>4 DEF SplitDocument, Splittable
  <2>4. Create(IF keep THEN doc ELSE DocumentsDeleted({d}), rows)
    BY <1>4 DEF SplitDocument, rows
  <2>5. {d} \in SUBSET Docs
    OBVIOUS
  <2> QED BY <2>1, <2>2, <2>3, <2>4, <2>5, MadeOfOthers
<1>5. ASSUME NEW ds \in SUBSET Docs, NEW b, NEW keep, MergeDocuments(ds, b, keep)
      PROVE  CreatedWell
  <2> DEFINE rows == <<MergedRow(b)>>
  <2>1. \A k \in DOMAIN rows : RowShaped(rows[k]) /\ rows[k].status = "active"
    BY <1>1, NewDocumentShaped DEF MergedRow
  <2>2. rows \in Seq({MergedRow(b)})
    OBVIOUS
  <2>3. \A e \in ds : Active(e)
    BY <1>5 DEF MergeDocuments, Mergeable
  <2>4. Create(IF keep THEN doc ELSE DocumentsDeleted(ds), rows)
    BY <1>5 DEF MergeDocuments
  <2> HIDE DEF rows
  <2> QED BY <2>1, <2>2, <2>3, <2>4, MadeOfOthers
<1>6. ASSUME NEW b, NEW title, NEW f, NEW v, NEW complete, UploadInvoice(b, title, f, v, complete)
      PROVE  CreatedWell
  <2>1. DOMAIN [NoValues EXCEPT ![f] = v] = ToSet(Fields)
    BY <1>1
  <2> QED BY <1>6, <2>1, NewDocumentShaped, OneMoreDoc DEF UploadInvoice
<1> QED BY <1>2, <1>3, <1>4, <1>5, <1>6 DEF CreatesDocs

LEMMA DocsStayShaped ==
    ASSUME DocsShaped, [Next]_vars
    PROVE  DocsKept
<1>1. CASE UNCHANGED doc
  BY <1>1, Zenon DEF DocsKept, DocsShaped, RowKept, Docs
<1>2. ASSUME NEW b, NEW target, DeleteDocumentSpace(b, target) PROVE DocsKept
  <2> DEFINE subtree == {c \in {b} \cup Below(b) : ~ box[c].deleted}
             inside == {d \in Docs : Exists(d) /\ doc[d].box \in subtree}
  <2>1. doc' = MovedTo(inside, target) \/ doc' = DeletedIn(inside)
    BY <1>2 DEF DeleteDocumentSpace
  <2>2. \A d \in inside : doc[d].status # "purged"
    BY DEF Exists
  <2> HIDE DEF inside
  <2>3. CASE doc' = MovedTo(inside, target)
    <3>1. \A d \in Docs : RowKept(doc[d], doc'[d])
      BY <2>3 DEF DocsShaped, MovedTo, RowShaped, RowKept
    <3> QED BY <2>3, <3>1, SameDocs DEF MovedTo
  <2>4. CASE doc' = DeletedIn(inside)
    <3>1. \A d \in Docs : RowKept(doc[d], doc'[d])
      BY <2>2, <2>4, DeletedKept
    <3> QED BY <2>4, <3>1, SameDocs DEF DeletedIn
  <2> QED BY <2>1, <2>3, <2>4
<1>3. ASSUME NEW b, EmptyDocumentSpace(b), UNCHANGED ocrVars PROVE DocsKept
  <2>1. PICK inside : doc' = Emptied(inside)
    BY <1>3 DEF EmptyDocumentSpace
  <2>2. \A d \in Docs : /\ RowShaped(doc'[d])
                        /\ doc'[d].type = doc[d].type
                        /\ doc[d].status = "purged" => doc'[d].status = "purged"
    BY <2>1 DEF DocsShaped, Emptied, RowShaped
  <2>3. DocsShaped' /\ Docs' = Docs
    BY <2>1, <2>2, SameDocsShaped DEF Emptied
  <2> QED BY <1>3, <2>2, <2>3 DEF DocsKept
<1>4. ASSUME CreatesDocs PROVE DocsKept
  BY <1>4, FilesComeWithDocs DEF CreatedWell
<1>5. ASSUME NEW d \in Docs, DeleteDocument(d) PROVE DocsKept
  <2>1. \A e \in {d} : doc[e].status # "purged"
    BY <1>5 DEF DeleteDocument, Active
  <2>2. doc' = DeletedIn({d})
    BY <1>5 DEF DeleteDocument, DocumentsDeleted
  <2>3. \A e \in Docs : RowKept(doc[e], doc'[e])
    BY <2>1, <2>2, DeletedKept
  <2> QED BY <2>2, <2>3, SameDocs DEF DeletedIn
<1>6. ASSUME NEW d \in Docs, Annotate(d) PROVE DocsKept
  <2>1. doc' = [doc EXCEPT ![d].rev = @ + 1]
    BY <1>6 DEF Annotate
  <2>2. \A e \in Docs : RowKept(doc[e], doc'[e])
    BY <2>1 DEF DocsShaped, RowShaped, RowKept, Docs
  <2>3. doc' = [e \in Docs |-> doc'[e]]
    BY <2>1 DEF DocsShaped, Docs
  <2> QED BY <2>2, <2>3, SameDocs
<1>7. ASSUME NEW d \in Docs, NEW b, NEW retitled, UpdateDocumentCoreMetadata(d, b, retitled)
      PROVE  DocsKept
  <2> DEFINE row == [doc[d] EXCEPT !.box = b, !.title = IF retitled THEN "manual" ELSE @,
                                   !.rev = IF retitled THEN @ + 1 ELSE @]
  <2>1. doc' = [e \in Docs |-> IF e = d THEN row ELSE doc[e]]
    BY <1>7 DEF UpdateDocumentCoreMetadata, CoreSaved, DocsShaped, Docs
  <2>2. RowKept(doc[d], row)
    BY DEF DocsShaped, RowShaped, RowKept
  <2> HIDE DEF row
  <2>3. \A e \in Docs : RowKept(doc[e], doc'[e])
    BY <2>1, <2>2 DEF DocsShaped, RowKept
  <2> QED BY <2>1, <2>3, SameDocs
<1>8. ASSUME NEW d \in Docs, NEW values, UpdateDocumentMetadata(d, values) PROVE DocsKept
  <2> DEFINE meta == CleanedMetadata(values)
  <2>1. doc' = [doc EXCEPT ![d].meta = meta, ![d].rev = @ + 1] /\ DOMAIN meta = ToSet(Fields)
    BY <1>8 DEF UpdateDocumentMetadata, Saved, CleanedMetadata
  <2> HIDE DEF meta
  <2>2. \A e \in Docs : RowKept(doc[e], doc'[e])
    BY <2>1 DEF DocsShaped, RowShaped, RowKept, Docs
  <2>3. doc' = [e \in Docs |-> doc'[e]]
    BY <2>1 DEF DocsShaped, Docs
  <2> QED BY <2>2, <2>3, SameDocs
<1>9. ASSUME NEW f, NEW g, DeleteDocumentMetadataField(f, g) PROVE DocsKept
  <2>1. CASE doc' = doc
    BY <1>1, <2>1
  <2>2. CASE doc' = Migrated(f, g)
    <3>1. \A d \in Docs : RowKept(doc[d], doc'[d])
      BY <2>2 DEF Migrated, DocsShaped, RowShaped, RowKept
    <3> QED BY <2>2, <3>1, SameDocs DEF Migrated
  <2> QED BY <1>9, <2>1, <2>2 DEF DeleteDocumentMetadataField
<1>10. ASSUME NEW j \in Jobs, NEW titled, NEW found, OcrSucceeds(j, titled, found) PROVE DocsKept
  <2> DEFINE d == ocr[j].doc
             seen == CHOOSE row \in ocr[j].seen : TRUE
             meta == Filled(seen, found)
             title == IF Prefills(seen) /\ titled THEN "ocr" ELSE doc[d].title
             next == IF meta = seen.meta THEN doc[d].meta ELSE meta
             row == [doc[d] EXCEPT !.title = title, !.meta = next, !.rev = @ + 1]
  <2>1. CASE doc' = doc
    BY <1>1, <2>1
  <2>2. CASE OcrRowExists(j)
    <3>1. d \in Docs
      BY <2>2 DEF OcrRowExists, Exists
    <3>2. DOMAIN meta = ToSet(Fields)
      BY DEF Filled
    <3>3. doc' = [doc EXCEPT ![d].title = IF Prefills(seen) /\ titled THEN "ocr" ELSE @,
                             ![d].meta = IF meta = seen.meta THEN @ ELSE meta,
                             ![d].rev = @ + 1]
      BY <1>10, <2>2 DEF OcrSucceeds
    <3> HIDE DEF seen, meta
    <3>4. doc' = [e \in Docs |-> IF e = d THEN row ELSE doc[e]]
      BY <3>1, <3>3 DEF DocsShaped, Docs
    <3>5. DOMAIN next = ToSet(Fields)
      BY <3>1, <3>2 DEF DocsShaped, RowShaped
    <3> HIDE DEF next, title
    <3>6. RowKept(doc[d], row)
      BY <3>1, <3>5 DEF DocsShaped, RowShaped, RowKept
    <3> HIDE DEF row
    <3>7. \A e \in Docs : RowKept(doc[e], doc'[e])
      BY <3>4, <3>6 DEF DocsShaped, RowKept
    <3> QED BY <3>4, <3>7, SameDocs
  <2> QED BY <1>10, <2>1, <2>2 DEF OcrSucceeds
<1>11. ASSUME NEW w \in JobWorkers, NEW found, EndLayout(w, found) PROVE DocsKept
  <2>1. CASE doc' = doc
    BY <1>1, <2>1
  <2>2. ASSUME NEW d, doc' = [doc EXCEPT ![d].rev = @ + 1] PROVE DocsKept
    <3>1. \A e \in Docs : RowKept(doc[e], doc'[e])
      BY <2>2 DEF DocsShaped, RowShaped, RowKept, Docs
    <3>2. doc' = [e \in Docs |-> doc'[e]]
      BY <2>2 DEF DocsShaped, Docs
    <3> QED BY <3>1, <3>2, SameDocs
  <2> QED BY <1>11, <2>1, <2>2 DEF EndLayout
<1> QED BY <1>1, <1>2, <1>3, <1>4, <1>5, <1>6, <1>7, <1>8, <1>9, <1>10, <1>11, OnlyTheseTouchDocs
           DEF CreatesDocs

-----------------------------------------------------------------------------
(***************************************************************************)
(* OCR jobs and jobs of boxes: what their rows look like.                  *)
(***************************************************************************)

OcrRowShaped(row) ==
    /\ DOMAIN row = {"doc", "status", "step", "seen", "by", "from"}
    /\ row.step = "read" => \E seen : row.seen = {seen} /\ RowShaped(seen)

OcrShaped ==
    /\ ocr \in Seq({ocr[j] : j \in Jobs})
    /\ \A j \in Jobs : OcrRowShaped(ocr[j])

LEMMA SameOcr ==
    ASSUME OcrShaped, ocr' = [j \in Jobs |-> ocr'[j]], \A j \in Jobs : OcrRowShaped(ocr'[j])
    PROVE  OcrShaped'
<1>1. DOMAIN ocr' = Jobs /\ Len(ocr) \in Nat /\ Jobs = 1 .. Len(ocr)
  BY DEF OcrShaped, Jobs
<1> DEFINE S == {ocr'[j] : j \in 1 .. Len(ocr)}
<1>2. ocr' \in [1 .. Len(ocr) -> S]
  BY <1>1
<1>3. ocr' \in Seq(S)
  BY <1>1, <1>2
<1>4. ocr' \in Seq({ocr'[j] : j \in Jobs'})
  BY <1>1, <1>3, OwnElements DEF Jobs
<1> QED BY <1>1, <1>4 DEF OcrShaped, Jobs

LEMMA MoreOcr ==
    ASSUME OcrShaped, NEW row, OcrRowShaped(row), ocr' = Append(ocr, row)
    PROVE  OcrShaped'
<1> DEFINE T == {ocr[j] : j \in Jobs} \cup {row}
<1>1. ocr \in Seq(T) /\ row \in T
  BY DEF OcrShaped
<1> HIDE DEF T
<1>2. /\ ocr' \in Seq(T) /\ Len(ocr') = Len(ocr) + 1
      /\ Len(ocr) \in Nat /\ Jobs = 1 .. Len(ocr)
      /\ \A j \in 1 .. Len(ocr) : ocr'[j] = ocr[j]
      /\ ocr'[Len(ocr) + 1] = row
  BY <1>1, AppendProperties DEF Jobs
<1>3. DOMAIN ocr' = 1 .. Len(ocr) + 1
  BY <1>2
<1>4. ASSUME NEW j \in DOMAIN ocr' PROVE OcrRowShaped(ocr'[j])
  BY <1>2, <1>3 DEF OcrShaped
<1>5. ASSUME NEW q \in Seq(T) PROVE q \in Seq({q[j] : j \in DOMAIN q})
  BY OwnElements
<1> QED BY <1>2, <1>4, <1>5 DEF OcrShaped, Jobs

\* What touches OCR jobs.
LEMMA OnlyTheseTouchOcr ==
    ASSUME [Next]_vars
    PROVE  \/ UNCHANGED ocr
           \/ \E d \in Docs : \/ StartOcr(d) \/ RestartOcr(d)
                              \/ \E later : StartUnsent(d, later)
           \/ \E d \in DOMAIN conversion : ConversionSucceeds(d)
           \/ \E j \in Jobs : \/ TakeOcrJob(j) \/ MarkOcrRunning(j) \/ ReadForOcr(j)
                              \/ OcrFails(j) \/ OcrDies(j)
                              \/ \E titled, found : OcrSucceeds(j, titled, found)
                              \/ \E killed \in BOOLEAN : CancelOcr(j, killed)
           \/ \E w \in JobWorkers : \/ StartLayout(w)
                                    \/ \E found : EndLayout(w, found)
           \/ \E j, killed : CancelLayout(j, killed)
BY ZenonT(60)
   DEF Next, DocumentsNext, TitleRulesNext, LinksNext, NoticesNext, OcrNext, BoxJobsNext,
       ExportsNext, AccountsNext, vars, ocrVars, Elsewhere, DocumentsOnly, RulesOnly, LinksOnly, OcrOnly,
       BoxJobsOnly, NoticesOnly, ExportsOnly, AccountsOnly, StartOfficeConversion,
       RunOfficeConversion, SaveDerivative, StoreDerivative, ConversionFails, CancelConversion,
       CreateBoxJob, ClaimBoxJob, ReconcileNext, SkipLayout, SaveCursor, EndBatch,
       WorkerDies, ResumeBoxJob

\* A new job, and a change of the step or the status of one.
LEMMA NewJobShaped ==
    ASSUME NEW d
    PROVE  OcrRowShaped(NewOcrJob(d)) /\ NewOcrJob(d).step = "queued"
BY DEF NewOcrJob, OcrRowShaped

LEMMA OcrGoesShaped ==
    ASSUME OcrShaped, NEW j, NEW step, NEW status, step # "read", OcrGoes(j, step, status)
    PROVE  OcrShaped'
<1>1. ocr' = [ocr EXCEPT ![j].step = step, ![j].status = status]
  BY DEF OcrGoes
<1>2. \A k \in Jobs : OcrRowShaped(ocr'[k])
  BY <1>1 DEF OcrShaped, OcrRowShaped, Jobs
<1>3. ocr' = [k \in Jobs |-> ocr'[k]]
  BY <1>1 DEF OcrShaped, Jobs
<1> QED BY <1>2, <1>3, SameOcr

LEMMA OcrStaysShaped ==
    ASSUME DocsShaped, OcrShaped, [Next]_vars
    PROVE  OcrShaped'
<1>1. CASE UNCHANGED ocr
  BY <1>1 DEF OcrShaped, Jobs
<1>2. ASSUME NEW d, ocr' = OcrCreated(d) PROVE OcrShaped'
  BY <1>2, NewJobShaped, MoreOcr DEF OcrCreated
<1>3. ASSUME NEW d \in Docs, StartOcr(d) \/ RestartOcr(d) PROVE OcrShaped'
  BY <1>1, <1>2, <1>3 DEF StartOcr, RestartOcr
<1>16. ASSUME NEW d \in Docs, NEW later, StartUnsent(d, later) PROVE OcrShaped'
  <2> DEFINE row == [NewOcrJob(d) EXCEPT !.step = "done"]
  <2>1. OcrRowShaped(row)
    BY NewJobShaped DEF OcrRowShaped
  <2>2. UNCHANGED ocr \/ ocr' = Append(ocr, row)
    BY <1>16, Zenon DEF StartUnsent
  <2> HIDE DEF row
  <2> QED BY <1>1, <2>1, <2>2, MoreOcr
<1>4. ASSUME NEW d \in DOMAIN conversion, ConversionSucceeds(d) PROVE OcrShaped'
  BY <1>1, <1>2, <1>4 DEF ConversionSucceeds
<1>5. ASSUME NEW j \in Jobs, TakeOcrJob(j) PROVE OcrShaped'
  BY <1>5, OcrGoesShaped DEF TakeOcrJob
<1>6. ASSUME NEW j \in Jobs, MarkOcrRunning(j) PROVE OcrShaped'
  BY <1>6, OcrGoesShaped DEF MarkOcrRunning
<1>7. ASSUME NEW j \in Jobs, OcrFails(j) PROVE OcrShaped'
  BY <1>7, OcrGoesShaped DEF OcrFails
<1>8. ASSUME NEW j \in Jobs, ReadForOcr(j) PROVE OcrShaped'
  <2>1. ocr' = [ocr EXCEPT ![j].step = "read", ![j].seen = {doc[ocr[j].doc]}]
    BY <1>8 DEF ReadForOcr
  <2>2. RowShaped(doc[ocr[j].doc])
    BY <1>8 DEF ReadForOcr, OcrRowExists, Exists, DocsShaped
  <2>3. \A k \in Jobs : OcrRowShaped(ocr'[k])
    BY <2>1, <2>2 DEF OcrShaped, OcrRowShaped, Jobs
  <2>4. ocr' = [k \in Jobs |-> ocr'[k]]
    BY <2>1 DEF OcrShaped, Jobs
  <2> QED BY <2>3, <2>4, SameOcr
<1>9. ASSUME NEW j \in Jobs, NEW row, DOMAIN row = DOMAIN ocr[j],
             (row.step = ocr[j].step /\ row.seen = ocr[j].seen) \/ row.step = "done",
             ocr' = [ocr EXCEPT ![j] = row]
      PROVE  OcrShaped'
  <2>1. OcrRowShaped(row)
    BY <1>9 DEF OcrShaped, OcrRowShaped
  <2>2. \A k \in Jobs : OcrRowShaped(ocr'[k])
    BY <1>9, <2>1 DEF OcrShaped, Jobs
  <2>3. ocr' = [k \in Jobs |-> ocr'[k]]
    BY <1>9 DEF OcrShaped, Jobs
  <2> QED BY <2>2, <2>3, SameOcr
<1>10. ASSUME NEW j \in Jobs, OcrDies(j) PROVE OcrShaped'
  <2> DEFINE row == [ocr[j] EXCEPT !.step = "done", !.seen = {}]
  <2>1. ocr' = [ocr EXCEPT ![j] = row]
    BY <1>10 DEF OcrDies
  <2>2. DOMAIN row = DOMAIN ocr[j] /\ row.step = "done"
    BY DEF OcrShaped, OcrRowShaped
  <2> HIDE DEF row
  <2> QED BY <1>9, <2>1, <2>2
<1>11. ASSUME NEW j \in Jobs, NEW killed \in BOOLEAN, CancelOcr(j, killed) PROVE OcrShaped'
  <2> DEFINE row == [ocr[j] EXCEPT !.status = "cancelled",
                                   !.step = IF killed THEN "done" ELSE @,
                                   !.seen = IF killed THEN {} ELSE @]
  <2>1. ocr' = [ocr EXCEPT ![j] = row]
    BY <1>11 DEF CancelOcr
  <2>2. /\ DOMAIN row = DOMAIN ocr[j]
        /\ (row.step = ocr[j].step /\ row.seen = ocr[j].seen) \/ row.step = "done"
    BY DEF OcrShaped, OcrRowShaped
  <2> HIDE DEF row
  <2> QED BY <1>9, <2>1, <2>2
<1>12. ASSUME NEW j \in Jobs, NEW titled, NEW found, OcrSucceeds(j, titled, found) PROVE OcrShaped'
  <2> DEFINE row(status) == [ocr[j] EXCEPT !.step = "done", !.status = status, !.seen = {}]
  <2>1. \/ ocr' = [ocr EXCEPT ![j] = row("succeeded")]
        \/ ocr' = [ocr EXCEPT ![j] = row(ocr[j].status)]
    <3>1. \/ ocr' = [ocr EXCEPT ![j].step = "done", ![j].status = "succeeded", ![j].seen = {}]
          \/ ocr' = [ocr EXCEPT ![j].step = "done", ![j].seen = {}]
      BY <1>12, Zenon DEF OcrSucceeds
    <3>2. row(ocr[j].status) = [ocr[j] EXCEPT !.step = "done", !.seen = {}]
      BY DEF OcrShaped, OcrRowShaped
    <3>3. CASE ocr' = [ocr EXCEPT ![j].step = "done", ![j].status = "succeeded", ![j].seen = {}]
      BY <3>3
    <3>4. CASE ocr' = [ocr EXCEPT ![j].step = "done", ![j].seen = {}]
      <4>1. ocr' = [ocr EXCEPT ![j] = [ocr[j] EXCEPT !.step = "done", !.seen = {}]]
        BY <3>4
      <4> HIDE DEF row
      <4> QED BY <3>2, <4>1
    <3> HIDE DEF row
    <3> QED BY <3>1, <3>3, <3>4
  <2>2. ASSUME NEW status PROVE DOMAIN row(status) = DOMAIN ocr[j] /\ row(status).step = "done"
    BY DEF OcrShaped, OcrRowShaped
  <2> HIDE DEF row
  <2> QED BY <1>9, <2>1, <2>2
<1>13. ASSUME NEW w \in JobWorkers, StartLayout(w) PROVE OcrShaped'
  <2> DEFINE row == [NewOcrJob(NextDocument(w).id) EXCEPT !.status = "running",
                        !.step = "layout", !.by = worker[w].job]
  <2>1. ocr' = Append(ocr, row)
    BY <1>13 DEF StartLayout
  <2>2. OcrRowShaped(row)
    BY NewJobShaped DEF OcrRowShaped
  <2> HIDE DEF row
  <2> QED BY <2>1, <2>2, MoreOcr
<1>14. ASSUME NEW w \in JobWorkers, NEW found, EndLayout(w, found) PROVE OcrShaped'
  <2>1. \E status : OcrGoes(worker[w].ocr, "done", status)
    BY <1>14, Zenon DEF EndLayout
  <2> QED BY <2>1, OcrGoesShaped
<1>15. ASSUME NEW j, NEW killed, CancelLayout(j, killed) PROVE OcrShaped'
  <2>1. ocr' = [k \in Jobs |->
                 IF ocr[k].by = j /\ ocr[k].status = "running"
                 THEN [ocr[k] EXCEPT !.status = "failed"] ELSE ocr[k]]
    BY <1>15 DEF CancelLayout, Jobs
  <2>2. \A k \in Jobs : OcrRowShaped(ocr'[k])
    BY <2>1 DEF OcrShaped, OcrRowShaped
  <2>3. ocr' = [k \in Jobs |-> ocr'[k]]
    BY <2>1
  <2> QED BY <2>2, <2>3, SameOcr
<1> QED BY <1>1, <1>3, <1>4, <1>5, <1>6, <1>7, <1>8, <1>10, <1>11, <1>12, <1>13, <1>14, <1>15, <1>16,
           OnlyTheseTouchOcr

BoxJobShaped(row) ==
    /\ DOMAIN row = {"kind", "box", "below", "status", "last", "max", "done"}
    /\ row.kind \in bound.does

WorkerShaped(row, jobs) ==
    /\ DOMAIN row = {"pc", "job", "last", "todo", "ocr", "empty"}
    /\ row.ocr \in Nat
    /\ row.pc # "idle" => row.job \in jobs

\* Jobs of boxes are of kinds that are done at all; a worker at work has a job.
BoxJobsShaped ==
    /\ boxjob \in Seq({boxjob[j] : j \in DOMAIN boxjob})
    /\ \A j \in DOMAIN boxjob : BoxJobShaped(boxjob[j])
    /\ worker = [w \in JobWorkers |-> worker[w]]
    /\ \A w \in JobWorkers : WorkerShaped(worker[w], DOMAIN boxjob)

\* The bounds that hold at first hold for good.
LEMMA BoundStays == ASSUME [Next]_vars PROVE bound' = bound
<1>1. \/ bound' = bound
      \/ \E b, target : DeleteDocumentSpace(b, target)
      \/ \E b : EmptyDocumentSpace(b)
      \/ \E b, type, title : UploadDocument(b, type, title)
      \/ \E b : ImportIntoBox(b, "pdf")
      \/ \E d \in Docs : DeleteDocument(d) \/ Annotate(d)
      \/ \E d \in Docs : \E a, b, keep : SplitDocument(d, <<a, b>>, keep)
      \/ \E ds \in SUBSET Docs : \E b, keep : MergeDocuments(ds, b, keep)
      \/ \E d \in Docs : \E b, retitled : UpdateDocumentCoreMetadata(d, b, retitled)
      \/ \E d \in Docs : \E values : UpdateDocumentMetadata(d, values)
      \/ \E b, title, f, v, complete : UploadInvoice(b, title, f, v, complete)
      \/ \E f, g : DeleteDocumentMetadataField(f, g)
      \/ \E j \in Jobs : \E titled, found : OcrSucceeds(j, titled, found)
      \/ \E w \in JobWorkers : \E found : EndLayout(w, found)
  BY ZenonT(60)
   DEF Next, DocumentsNext, TitleRulesNext, LinksNext, NoticesNext, OcrNext, BoxJobsNext,
       ExportsNext, AccountsNext, vars, docVars, linkVars, Elsewhere, DocumentsOnly, RulesOnly, LinksOnly, OcrOnly,
         BoxJobsOnly, NoticesOnly, ExportsOnly, AccountsOnly, CreateDocumentSpace,
         UpdateDocumentSpace, DeleteStorageKeys, AddDocumentComment, SetDocumentTags, OptimizeOne,
         SaveOptimized, ReplaceStorage, DeleteOldKey, OptimizerDies, PurgeLost, CallbacksLost, CallbackRaises,
         CreateTitleRule, EditTitleRule, DeleteTitleRule, AddDocumentRelation,
         RemoveDocumentRelation, CreateDocumentMetadataField, UpdateDocumentMetadataField,
         ReadDocument, WriteIndex, EvaluateAlarm, Evaluated, RebuildFails, RebuildRaises, RebuildEnds, SaveAlarm, DeleteAlarm,
         SaveDocumentReminder, EndDocumentReminder, ReminderComesDue, ListDueReminders,
         TellReminder, DispatcherDies, StartOcr, StartOfficeConversion, StartUnsent, RestartOcr,
         TakeOcrJob, MarkOcrRunning, ReadForOcr, OcrFails, CancelOcr, OcrDies, RunOfficeConversion,
         SaveDerivative, StoreDerivative, ConversionSucceeds, ConversionFails, CancelConversion,
         CreateBoxJob, ClaimBoxJob, ReconcileNext, SkipLayout, StartLayout, SaveCursor, EndBatch,
         WorkerDies, ResumeBoxJob, CancelLayout, CreateExport, StartExport, PackDocument,
         FinishExport, ExportFails, ExportDies, CancelExport, AddTenantMember,
         UpdateTenantMembership, CreateTenantRole, UpdateTenantRole, CheckTenantRole,
         DeleteTenantRole
<1> QED BY <1>1, ZenonT(60)
                DEF DeleteDocumentSpace, EmptyDocumentSpace, UploadDocument, ImportIntoBox,
                    DeleteDocument, Annotate, SplitDocument, MergeDocuments,
                    UpdateDocumentCoreMetadata, UpdateDocumentMetadata, UploadInvoice,
                    DeleteDocumentMetadataField, OcrSucceeds, EndLayout

\* What touches the jobs of boxes and their workers.
LEMMA OnlyTheseTouchBoxJobs ==
    ASSUME [Next]_vars
    PROVE  \/ UNCHANGED boxJobVars
           \/ \E kind, b, below : CreateBoxJob(kind, b, below)
           \/ \E w \in JobWorkers : \/ \E j \in DOMAIN boxjob : ClaimBoxJob(w, j)
                                    \/ ReconcileNext(w) \/ SkipLayout(w) \/ StartLayout(w)
                                    \/ \E found : EndLayout(w, found)
                                    \/ SaveCursor(w) \/ EndBatch(w) \/ WorkerDies(w)
           \/ \E j \in DOMAIN boxjob : \/ ResumeBoxJob(j)
                                       \/ \E killed : CancelLayout(j, killed)
BY ZenonT(60)
   DEF Next, DocumentsNext, TitleRulesNext, LinksNext, NoticesNext, OcrNext, BoxJobsNext,
       ExportsNext, AccountsNext, vars, boxJobVars, Elsewhere, DocumentsOnly, RulesOnly, LinksOnly, OcrOnly,
       BoxJobsOnly, NoticesOnly, ExportsOnly, AccountsOnly

\* The row of a job, of a worker, or of both, changes.
LEMMA OneJobChanges ==
    ASSUME BoxJobsShaped, bound' = bound,
           boxjob' = [j \in DOMAIN boxjob |-> boxjob'[j]],
           \A j \in DOMAIN boxjob : BoxJobShaped(boxjob'[j]),
           worker' = [w \in JobWorkers |-> worker'[w]],
           \A w \in JobWorkers : WorkerShaped(worker'[w], DOMAIN boxjob)
    PROVE  BoxJobsShaped'
<1>1. DOMAIN boxjob' = DOMAIN boxjob /\ Len(boxjob) \in Nat /\ DOMAIN boxjob = 1 .. Len(boxjob)
  BY DEF BoxJobsShaped
<1> DEFINE S == {boxjob'[j] : j \in 1 .. Len(boxjob)}
<1>2. boxjob' \in [1 .. Len(boxjob) -> S]
  BY <1>1
<1>3. boxjob' \in Seq(S)
  BY <1>1, <1>2
<1>4. boxjob' \in Seq({boxjob'[j] : j \in DOMAIN boxjob'})
  BY <1>1, <1>3, OwnElements
<1> QED BY <1>1, <1>4 DEF BoxJobsShaped, BoxJobShaped, WorkerShaped

LEMMA BoxJobsStayShaped ==
    ASSUME OcrShaped, BoxJobsShaped, [Next]_vars
    PROVE  BoxJobsShaped'
<1>1. bound' = bound
  BY BoundStays
<1>2. CASE UNCHANGED boxJobVars
  BY <1>1, <1>2 DEF boxJobVars, BoxJobsShaped, BoxJobShaped, WorkerShaped
<1>3. ASSUME NEW kind, NEW b, NEW below, CreateBoxJob(kind, b, below) PROVE BoxJobsShaped'
  <2> DEFINE row == NewBoxJob(kind, b, below)
             T == {boxjob[j] : j \in DOMAIN boxjob} \cup {row}
  <2>1. boxjob' = Append(boxjob, row) /\ worker' = worker
    BY <1>3 DEF CreateBoxJob
  <2>2. BoxJobShaped(row)
    BY <1>3 DEF CreateBoxJob, Request, NewBoxJob, BoxJobShaped
  <2>3. boxjob \in Seq(T) /\ row \in T
    BY DEF BoxJobsShaped
  <2> HIDE DEF row, T
  <2>4. /\ boxjob' \in Seq(T) /\ Len(boxjob') = Len(boxjob) + 1
        /\ Len(boxjob) \in Nat /\ DOMAIN boxjob = 1 .. Len(boxjob)
        /\ \A j \in 1 .. Len(boxjob) : boxjob'[j] = boxjob[j]
        /\ boxjob'[Len(boxjob) + 1] = row
    BY <2>1, <2>3, AppendProperties
  <2>5. DOMAIN boxjob' = 1 .. Len(boxjob) + 1
    BY <2>4
  <2>6. ASSUME NEW j \in DOMAIN boxjob' PROVE BoxJobShaped(boxjob'[j])
    BY <2>2, <2>4, <2>5 DEF BoxJobsShaped
  <2>7. ASSUME NEW q \in Seq(T) PROVE q \in Seq({q[j] : j \in DOMAIN q})
    BY OwnElements
  <2>8. DOMAIN boxjob \subseteq DOMAIN boxjob'
    BY <2>4, <2>5
  <2>9. boxjob' \in Seq({boxjob'[j] : j \in DOMAIN boxjob'})
    BY <2>4, <2>7
  <2> QED BY <1>1, <2>1, <2>6, <2>8, <2>9 DEF BoxJobsShaped, BoxJobShaped, WorkerShaped
<1>4. ASSUME NEW j \in DOMAIN boxjob, NEW row, boxjob' = [boxjob EXCEPT ![j] = row],
             DOMAIN row = DOMAIN boxjob[j], row.kind = boxjob[j].kind
      PROVE  /\ boxjob' = [k \in DOMAIN boxjob |-> boxjob'[k]]
             /\ \A k \in DOMAIN boxjob : BoxJobShaped(boxjob'[k])
  BY <1>4 DEF BoxJobsShaped, BoxJobShaped
<1>5. /\ boxjob = [k \in DOMAIN boxjob |-> boxjob[k]]
      /\ \A k \in DOMAIN boxjob : BoxJobShaped(boxjob[k])
  BY DEF BoxJobsShaped
<1>6. ASSUME NEW w \in JobWorkers, NEW row, worker' = [worker EXCEPT ![w] = row],
             WorkerShaped(row, DOMAIN boxjob)
      PROVE  /\ worker' = [v \in JobWorkers |-> worker'[v]]
             /\ \A v \in JobWorkers : WorkerShaped(worker'[v], DOMAIN boxjob)
  BY <1>6 DEF BoxJobsShaped
<1>7. /\ worker = [v \in JobWorkers |-> worker[v]]
      /\ \A v \in JobWorkers : WorkerShaped(worker[v], DOMAIN boxjob)
  BY DEF BoxJobsShaped
<1>8. WorkerShaped(IdleWorker, DOMAIN boxjob)
  BY DEF IdleWorker, WorkerShaped
<1>9. ASSUME NEW w \in JobWorkers, NEW j \in DOMAIN boxjob, ClaimBoxJob(w, j) PROVE BoxJobsShaped'
  <2>1. CASE UNCHANGED <<boxjob, worker>>
    BY <1>2, <2>1 DEF boxJobVars
  <2>2. CASE ~ UNCHANGED <<boxjob, worker>>
    <3> DEFINE passed == Passed(j)
               todo == {[id |-> d, row |-> doc[d], layout |-> HasLayout(d)] : d \in Batch(j)}
               row == [boxjob[j] EXCEPT !.status = "running", !.done = @ \cup passed]
               hand == [IdleWorker EXCEPT !.pc = "batch", !.job = j, !.last = boxjob[j].last,
                                          !.todo = todo, !.empty = Batch(j) = {}]
    <3>1. /\ boxjob' = [boxjob EXCEPT ![j].status = "running", ![j].done = @ \cup passed]
          /\ worker' = [worker EXCEPT ![w] = hand]
      BY <1>9, <2>2, Zenon DEF ClaimBoxJob
    <3> HIDE DEF passed, todo
    <3>2. boxjob' = [boxjob EXCEPT ![j] = row]
      BY <3>1
    <3>3. DOMAIN row = DOMAIN boxjob[j] /\ row.kind = boxjob[j].kind
      BY DEF BoxJobsShaped, BoxJobShaped
    <3>4. WorkerShaped(hand, DOMAIN boxjob)
      BY DEF IdleWorker, WorkerShaped
    <3> HIDE DEF row, hand
    <3>6. /\ boxjob' = [k \in DOMAIN boxjob |-> boxjob'[k]]
          /\ \A k \in DOMAIN boxjob : BoxJobShaped(boxjob'[k])
      BY <1>4, <3>2, <3>3
    <3> QED BY <1>1, <1>6, <3>1, <3>4, <3>6, OneJobChanges
  <2> QED BY <2>1, <2>2
<1>10. ASSUME NEW w \in JobWorkers, worker[w].pc # "idle", Worked(w) PROVE BoxJobsShaped'
  <2> DEFINE j == worker[w].job
             hand == [worker[w] EXCEPT !.pc = "worked"]
  <2>1. PICK done : boxjob' = [boxjob EXCEPT ![j].done = done]
    BY <1>10 DEF Worked
  <2> DEFINE row == [boxjob[j] EXCEPT !.done = done]
  <2>2. worker' = [worker EXCEPT ![w] = hand] /\ boxjob' = [boxjob EXCEPT ![j] = row]
    BY <1>10, <2>1 DEF Worked
  <2>3. j \in DOMAIN boxjob /\ WorkerShaped(hand, DOMAIN boxjob)
    BY <1>7, <1>10 DEF WorkerShaped
  <2>4. DOMAIN row = DOMAIN boxjob[j] /\ row.kind = boxjob[j].kind
    BY <2>3 DEF BoxJobsShaped, BoxJobShaped
  <2> HIDE DEF row, hand, j
  <2>5. /\ boxjob' = [k \in DOMAIN boxjob |-> boxjob'[k]]
        /\ \A k \in DOMAIN boxjob : BoxJobShaped(boxjob'[k])
    BY <1>4, <2>2, <2>3, <2>4
  <2> QED BY <1>1, <1>6, <2>2, <2>3, <2>5, OneJobChanges
<1>11. ASSUME NEW w \in JobWorkers, ReconcileNext(w) \/ SkipLayout(w) PROVE BoxJobsShaped'
  BY <1>10, <1>11 DEF ReconcileNext, SkipLayout
<1>12. ASSUME NEW w \in JobWorkers, NEW found, EndLayout(w, found) PROVE BoxJobsShaped'
  BY <1>10, <1>12 DEF EndLayout
<1>13. ASSUME NEW w \in JobWorkers, StartLayout(w) PROVE BoxJobsShaped'
  <2> DEFINE hand == [worker[w] EXCEPT !.pc = "layout", !.ocr = Len(ocr) + 1]
  <2>1. worker' = [worker EXCEPT ![w] = hand] /\ boxjob' = boxjob
    BY <1>13 DEF StartLayout
  <2>2. worker[w].pc # "idle" /\ Len(ocr) \in Nat
    BY <1>13 DEF StartLayout, OcrShaped
  <2>3. WorkerShaped(hand, DOMAIN boxjob)
    BY <1>7, <2>2 DEF WorkerShaped
  <2> HIDE DEF hand
  <2> QED BY <1>1, <1>5, <1>6, <2>1, <2>3, OneJobChanges
<1>14. ASSUME NEW w \in JobWorkers, SaveCursor(w) PROVE BoxJobsShaped'
  <2> DEFINE j == worker[w].job
             row == [boxjob[j] EXCEPT !.last = CursorAfter(w)]
             hand == [worker[w] EXCEPT !.pc = "batch", !.last = CursorAfter(w),
                                       !.todo = @ \ {NextDocument(w)}, !.ocr = 0]
  <2>1. worker' = [worker EXCEPT ![w] = hand] /\ boxjob' = [boxjob EXCEPT ![j] = row]
    BY <1>14 DEF SaveCursor
  <2>2. j \in DOMAIN boxjob /\ WorkerShaped(hand, DOMAIN boxjob)
    BY <1>7, <1>14 DEF WorkerShaped, SaveCursor
  <2>3. DOMAIN row = DOMAIN boxjob[j] /\ row.kind = boxjob[j].kind
    BY <2>2 DEF BoxJobsShaped, BoxJobShaped
  <2> HIDE DEF row, hand, j
  <2>4. /\ boxjob' = [k \in DOMAIN boxjob |-> boxjob'[k]]
        /\ \A k \in DOMAIN boxjob : BoxJobShaped(boxjob'[k])
    BY <1>4, <2>1, <2>2, <2>3
  <2> QED BY <1>1, <1>6, <2>1, <2>2, <2>4, OneJobChanges
<1>15. ASSUME NEW w \in JobWorkers, EndBatch(w) PROVE BoxJobsShaped'
  <2> DEFINE j == worker[w].job
  <2>1. PICK status, last : boxjob' = [boxjob EXCEPT ![j].status = status, ![j].last = last]
    <3>1. PICK new : boxjob' = [boxjob EXCEPT
                ![j].status = IF new < boxjob[j].max THEN "queued" ELSE "completed",
                ![j].last = IF new = worker[w].last THEN @ ELSE new]
      BY <1>15 DEF EndBatch
    <3> QED BY <3>1
  <2> DEFINE row == [boxjob[j] EXCEPT !.status = status, !.last = last]
  <2>2. worker' = [worker EXCEPT ![w] = IdleWorker] /\ boxjob' = [boxjob EXCEPT ![j] = row]
    <3>1. worker' = [worker EXCEPT ![w] = IdleWorker]
      BY <1>15 DEF EndBatch
    <3>2. boxjob' = [boxjob EXCEPT ![j] = row]
      BY <2>1
    <3> QED BY <3>1, <3>2
  <2>3. j \in DOMAIN boxjob
    BY <1>7, <1>15 DEF WorkerShaped, EndBatch
  <2>4. DOMAIN row = DOMAIN boxjob[j] /\ row.kind = boxjob[j].kind
    BY <2>3 DEF BoxJobsShaped, BoxJobShaped
  <2> HIDE DEF row, j
  <2>5. /\ boxjob' = [k \in DOMAIN boxjob |-> boxjob'[k]]
        /\ \A k \in DOMAIN boxjob : BoxJobShaped(boxjob'[k])
    BY <1>4, <2>2, <2>3, <2>4
  <2> QED BY <1>1, <1>6, <1>8, <2>2, <2>5, OneJobChanges
<1>16. ASSUME NEW w \in JobWorkers, WorkerDies(w) PROVE BoxJobsShaped'
  <2>1. worker' = [worker EXCEPT ![w] = IdleWorker] /\ boxjob' = boxjob
    BY <1>16 DEF WorkerDies
  <2> QED BY <1>1, <1>5, <1>6, <1>8, <2>1, OneJobChanges
<1>17. ASSUME NEW j \in DOMAIN boxjob, NEW status, boxjob' = [boxjob EXCEPT ![j].status = status]
       PROVE  /\ boxjob' = [k \in DOMAIN boxjob |-> boxjob'[k]]
              /\ \A k \in DOMAIN boxjob : BoxJobShaped(boxjob'[k])
  BY <1>17 DEF BoxJobsShaped, BoxJobShaped
<1>18. ASSUME NEW j \in DOMAIN boxjob, ResumeBoxJob(j) PROVE BoxJobsShaped'
  BY <1>1, <1>7, <1>17, <1>18, OneJobChanges DEF ResumeBoxJob
<1>19. ASSUME NEW j \in DOMAIN boxjob, NEW killed, CancelLayout(j, killed) PROVE BoxJobsShaped'
  <2>1. /\ boxjob' = [boxjob EXCEPT ![j].status = "failed"]
        /\ worker' = [w \in JobWorkers |-> IF w \in killed THEN IdleWorker ELSE worker[w]]
    BY <1>19 DEF CancelLayout
  <2>2. /\ worker' = [w \in JobWorkers |-> worker'[w]]
        /\ \A w \in JobWorkers : WorkerShaped(worker'[w], DOMAIN boxjob)
    BY <1>7, <1>8, <2>1
  <2> QED BY <1>1, <1>17, <2>1, <2>2, OneJobChanges
<1> QED BY <1>2, <1>3, <1>9, <1>11, <1>12, <1>13, <1>14, <1>15, <1>16, <1>18, <1>19,
           OnlyTheseTouchBoxJobs

Shaped == DocsShaped /\ OcrShaped /\ BoxJobsShaped

LEMMA ShapedAtFirst == ASSUME Init PROVE Shaped
<1>1. doc = bound.first /\ bound \in Bounds /\ ocr = << >> /\ boxjob = << >>
      /\ worker = [w \in JobWorkers |-> IdleWorker]
  BY DEF Init, DocumentsInit, OcrInit, BoxJobsInit
<1> DEFINE Rows1 == [status : {"active", "deleted"}, box : DOMAIN FirstBoxes,
                     type : {"pdf", "office"}, title : {"manual", "filename", "ocr", "einvoice"},
                     meta : [ToSet(Fields) -> Values], rev : {0}]
<1>2. doc \in Seq(Rows1)
  BY <1>1, LinksAssumption DEF LinksAssumption
<1>3. \A row \in Rows1 : RowShaped(row)
  BY DEF RowShaped
<1>4. DocsShaped
  <2> HIDE DEF Rows1
  <2>1. \A d \in DOMAIN doc : doc[d] \in Rows1
    BY <1>2
  <2> QED BY <1>2, <1>3, <2>1, OwnElements DEF DocsShaped, Docs
<1>5. OcrShaped
  BY <1>1 DEF OcrShaped, Jobs
<1>6. WorkerShaped(IdleWorker, DOMAIN boxjob)
  BY DEF WorkerShaped, IdleWorker
<1>7. BoxJobsShaped
  BY <1>1, <1>6 DEF BoxJobsShaped
<1> QED BY <1>4, <1>5, <1>7 DEF Shaped

LEMMA StaysShaped ==
    ASSUME Shaped, [Next]_vars
    PROVE  Shaped' /\ DocsKept
BY DocsStayShaped, OcrStaysShaped, BoxJobsStayShaped DEF Shaped, DocsKept

-----------------------------------------------------------------------------
(***************************************************************************)
(* Paths.                                                                  *)
(***************************************************************************)

\* A path that is that of a box, or goes on from there.
From(old, path) == Len(old) <= Len(path) /\ \A n \in 1 .. Len(old) : path[n] = old[n]

LEMMA StrictPrefixIs ==
    ASSUME NEW S, NEW old \in Seq(S), NEW path \in Seq(S)
    PROVE  IsStrictPrefix(old, path) <=> From(old, path) /\ Len(old) < Len(path)
<1>1. Len(old) \in Nat /\ Len(path) \in Nat
  OBVIOUS
<1>2. ASSUME Len(old) <= Len(path)
      PROVE  /\ SubSeq(old, 1, Len(old)) = old
             /\ SubSeq(path, 1, Len(old)) = old <=> \A n \in 1 .. Len(old) : path[n] = old[n]
  <2> DEFINE head == SubSeq(path, 1, Len(old))
  <2>1. SubSeq(old, 1, Len(old)) = old
    OBVIOUS
  <2>2. head \in Seq(S) /\ Len(head) = Len(old) /\ \A n \in 1 .. Len(old) : head[n] = path[n]
    BY <1>1, <1>2
  <2> HIDE DEF head
  <2>3. head = old <=> \A n \in 1 .. Len(old) : head[n] = old[n]
    BY <2>2
  <2> QED BY <2>1, <2>2, <2>3 DEF head
<1>3. From(old, path) /\ Len(old) = Len(path) => old = path
  BY DEF From
<1> QED BY <1>1, <1>2, <1>3 DEF IsStrictPrefix, IsPrefix, From

\* The path of what lies below a box that moves.
Moved(old, new, path) == new \o SubSeq(path, Len(old) + 1, Len(path))

IsMoved(moved, old, new, path) ==
    /\ Len(moved) = Len(new) + (Len(path) - Len(old))
    /\ \A n \in 1 .. Len(new) : moved[n] = new[n]
    /\ \A n \in 1 .. Len(path) - Len(old) : moved[Len(new) + n] = path[Len(old) + n]

LEMMA MovedIs ==
    ASSUME NEW S, NEW old \in Seq(S), NEW new \in Seq(S), NEW path \in Seq(S), From(old, path)
    PROVE  /\ Moved(old, new, path) \in Seq(S)
           /\ IsMoved(Moved(old, new, path), old, new, path)
<1> DEFINE rest == SubSeq(path, Len(old) + 1, Len(path))
<1>1. Len(old) \in Nat /\ Len(path) \in Nat /\ Len(new) \in Nat /\ Len(old) <= Len(path)
  BY DEF From
<1>2. /\ rest \in Seq(S)
      /\ Len(rest) = Len(path) - Len(old)
      /\ \A n \in 1 .. Len(path) - Len(old) : rest[n] = path[Len(old) + n]
  BY <1>1
<1> HIDE DEF rest
<1> DEFINE moved == Moved(old, new, path)
<1>3. moved = new \o rest
  BY DEF Moved, rest
<1>4. /\ moved \in Seq(S) /\ Len(moved) = Len(new) + Len(rest)
      /\ \A n \in 1 .. Len(new) : moved[n] = new[n]
      /\ \A n \in Len(new) + 1 .. Len(new) + Len(rest) : moved[n] = rest[n - Len(new)]
  BY <1>2, <1>3
<1> HIDE DEF moved
<1>5. ASSUME NEW n \in 1 .. Len(path) - Len(old) PROVE moved[Len(new) + n] = path[Len(old) + n]
  <2>1. Len(new) + n \in Len(new) + 1 .. Len(new) + Len(rest) /\ (Len(new) + n) - Len(new) = n
    BY <1>1, <1>2
  <2>2. moved[Len(new) + n] = rest[(Len(new) + n) - Len(new)]
    BY <1>4, <2>1
  <2> QED BY <1>2, <2>1, <2>2
<1> QED BY <1>2, <1>4, <1>5 DEF moved, IsMoved

\* The box itself has the new path, ...
LEMMA MovedBox ==
    ASSUME NEW S, NEW old \in Seq(S), NEW new \in Seq(S)
    PROVE  Moved(old, new, old) = new
<1>1. From(old, old)
  BY DEF From
<1> DEFINE moved == Moved(old, new, old)
<1>2. moved \in Seq(S) /\ IsMoved(moved, old, new, old)
  BY <1>1, MovedIs, Zenon
<1> HIDE DEF moved
<1>3. Len(moved) = Len(new) /\ \A n \in 1 .. Len(moved) : moved[n] = new[n]
  BY <1>2 DEF IsMoved
<1>4. moved = new
  BY <1>2, <1>3, SeqEqual
<1> QED BY <1>4 DEF moved

\* ... what was a child stays one, ...
LEMMA MovedChild ==
    ASSUME NEW S, NEW old \in Seq(S), NEW new \in Seq(S), NEW path \in Seq(S),
           NEW slug \in S, From(old, path)
    PROVE  /\ From(old, Append(path, slug))
           /\ Moved(old, new, Append(path, slug)) = Append(Moved(old, new, path), slug)
<1> DEFINE child == Append(path, slug)
           there == Moved(old, new, path)
           moved == Moved(old, new, child)
<1>1. Len(old) \in Nat /\ Len(path) \in Nat /\ Len(new) \in Nat /\ Len(old) <= Len(path)
  BY DEF From
<1>2. /\ child \in Seq(S) /\ Len(child) = Len(path) + 1 /\ child[Len(path) + 1] = slug
      /\ \A n \in 1 .. Len(path) : child[n] = path[n]
  BY AppendProperties
<1> HIDE DEF child
<1>3. From(old, child)
  <2>1. \A n \in 1 .. Len(old) : n \in 1 .. Len(path) /\ path[n] = old[n]
    BY <1>1 DEF From
  <2> QED BY <1>1, <1>2, <2>1 DEF From
<1>a. there \in Seq(S) /\ IsMoved(there, old, new, path)
  BY MovedIs, Zenon
<1>b. moved \in Seq(S) /\ IsMoved(moved, old, new, child)
  BY <1>2, <1>3, MovedIs, Zenon
<1> HIDE DEF there, moved
<1>4. /\ there \in Seq(S) /\ Len(there) = Len(new) + (Len(path) - Len(old))
      /\ \A n \in 1 .. Len(new) : there[n] = new[n]
      /\ \A n \in 1 .. Len(path) - Len(old) : there[Len(new) + n] = path[Len(old) + n]
  BY <1>a DEF IsMoved
<1>5. /\ moved \in Seq(S) /\ Len(moved) = Len(new) + (Len(child) - Len(old))
      /\ \A n \in 1 .. Len(new) : moved[n] = new[n]
      /\ \A n \in 1 .. Len(child) - Len(old) : moved[Len(new) + n] = child[Len(old) + n]
  BY <1>b DEF IsMoved
<1>6. Len(moved) = Len(there) + 1
  BY <1>1, <1>2, <1>4, <1>5
<1>7. ASSUME NEW n \in 1 .. Len(there) PROVE moved[n] = there[n]
  <2>1. CASE n <= Len(new)
    BY <1>1, <1>4, <1>5, <1>7, <2>1
  <2>2. CASE n > Len(new)
    <3>1. PICK m \in 1 .. Len(path) - Len(old) : n = Len(new) + m
      <4>1. n - Len(new) \in 1 .. Len(path) - Len(old) /\ n = Len(new) + (n - Len(new))
        BY <1>1, <1>4, <2>2
      <4> QED BY <4>1
    <3>2. m \in 1 .. Len(child) - Len(old) /\ Len(old) + m \in 1 .. Len(path)
      BY <1>1, <1>2
    <3> QED BY <1>2, <1>4, <1>5, <3>1, <3>2
  <2> QED BY <1>1, <1>4, <2>1, <2>2
<1>8. moved[Len(there) + 1] = slug
  <2>1. Len(child) - Len(old) \in 1 .. Len(child) - Len(old)
    BY <1>1, <1>2
  <2>2. moved[Len(new) + (Len(child) - Len(old))] = child[Len(old) + (Len(child) - Len(old))]
    BY <1>5, <2>1
  <2>3. /\ Len(new) + (Len(child) - Len(old)) = Len(there) + 1
        /\ Len(old) + (Len(child) - Len(old)) = Len(path) + 1
    BY <1>1, <1>2, <1>4
  <2> QED BY <1>2, <2>2, <2>3
<1>9. moved = Append(there, slug)
  <2> DEFINE longer == Append(there, slug)
  <2>1. /\ longer \in Seq(S) /\ Len(longer) = Len(there) + 1
        /\ longer[Len(there) + 1] = slug
        /\ \A n \in 1 .. Len(there) : longer[n] = there[n]
    BY <1>4, AppendProperties
  <2>2. Len(there) \in Nat
    BY <1>4
  <2> HIDE DEF longer
  <2>3. \A n \in 1 .. Len(there) + 1 : n \in 1 .. Len(there) \/ n = Len(there) + 1
    BY <2>2
  <2>4. \A n \in 1 .. Len(moved) : moved[n] = longer[n]
    BY <1>6, <1>7, <1>8, <2>1, <2>3
  <2> QED BY <1>5, <1>6, <2>1, <2>4, SeqEqual DEF longer
<1> QED BY <1>3, <1>9 DEF child, moved, there

\* ... and different paths stay different.
LEMMA MovedApart ==
    ASSUME NEW S, NEW old \in Seq(S), NEW new \in Seq(S), NEW path \in Seq(S),
           NEW other \in Seq(S), From(old, path), From(old, other),
           Moved(old, new, path) = Moved(old, new, other)
    PROVE  path = other
<1>1. /\ Len(old) \in Nat /\ Len(path) \in Nat /\ Len(other) \in Nat /\ Len(new) \in Nat
      /\ Len(old) <= Len(path) /\ Len(old) <= Len(other)
  BY DEF From
<1> DEFINE moved == Moved(old, new, path)
<1>2. IsMoved(moved, old, new, path)
  BY MovedIs, Zenon
<1>3. IsMoved(moved, old, new, other)
  BY MovedIs, Zenon
<1> HIDE DEF moved
<1>4. Len(path) = Len(other)
  BY <1>1, <1>2, <1>3 DEF IsMoved
<1>5. ASSUME NEW n \in 1 .. Len(path) PROVE path[n] = other[n]
  <2>1. CASE n <= Len(old)
    BY <1>1, <1>5, <2>1 DEF From
  <2>2. CASE n > Len(old)
    <3>1. PICK m \in 1 .. Len(path) - Len(old) : n = Len(old) + m
      <4>1. n - Len(old) \in 1 .. Len(path) - Len(old) /\ n = Len(old) + (n - Len(old))
        BY <1>1, <2>2
      <4> QED BY <4>1
    <3> QED BY <1>2, <1>3, <1>4, <3>1 DEF IsMoved
  <2> QED BY <1>1, <2>1, <2>2
<1> QED BY <1>4, <1>5, SeqEqual

-----------------------------------------------------------------------------
(***************************************************************************)
(* The tree of boxes.                                                      *)
(***************************************************************************)

TreeShaped == DOMAIN box \subseteq Boxes /\ box \in [DOMAIN box -> DocumentSpace]

\* A box or one below it.
Inside(b, c) == From(box[b].path, box[c].path)

LEMMA SpaceIs ==
    ASSUME TreeShaped, NEW c \in DOMAIN box
    PROVE  /\ box[c].path \in Seq(STRING) /\ Len(box[c].path) \in Nat
           /\ box[c].slug \in STRING
           /\ box[c].parent \in DOMAIN box \cup {Root}
           /\ Root \notin DOMAIN box
<1>1. box[c] \in DocumentSpace
  BY Zenon DEF TreeShaped
<1>2. /\ box[c].path \in Seq(STRING) /\ box[c].slug \in STRING
      /\ box[c].parent \in DOMAIN box \cup {Root}
  BY <1>1 DEF DocumentSpace
<1>3. \A path \in Seq(STRING) : Len(path) \in Nat
  BY LenProperties
<1>4. Root \notin DOMAIN box
  BY DocumentsAssumption DEF DocumentsAssumption, TreeShaped
<1> QED BY <1>2, <1>3, <1>4

\* A path with one more slug.
Longer(path, from, slug) ==
    /\ path = Append(from, slug)
    /\ Len(path) = Len(from) + 1
    /\ \A n \in 1 .. Len(from) : path[n] = from[n]

LEMMA PathInIs ==
    ASSUME TreeShaped, NEW p \in DOMAIN box \cup {Root}, NEW s \in STRING
    PROVE  /\ PathIn(p, s) \in Seq(STRING)
           /\ p = Root => Len(PathIn(p, s)) = 1
           /\ p # Root => Longer(PathIn(p, s), box[p].path, s)
<1>1. CASE p = Root
  <2>1. PathIn(p, s) = <<s>>
    BY <1>1 DEF PathIn
  <2>2. \A T : \A x \in T : <<x>> \in Seq(T) /\ Len(<<x>>) = 1
    OBVIOUS
  <2> QED BY <1>1, <2>1, <2>2
<1>2. CASE p # Root
  <2>1. PathIn(p, s) = Append(box[p].path, s) /\ p \in DOMAIN box
    BY <1>2 DEF PathIn
  <2>2. box[p].path \in Seq(STRING)
    BY <2>1, SpaceIs
  <2> QED BY <1>2, <2>1, <2>2, AppendProperties DEF Longer
<1> QED BY <1>1, <1>2

LEMMA ParentIs ==
    ASSUME TreeShaped, TreeFits, NEW c \in DOMAIN box
    PROVE  /\ Len(box[c].path) >= 1
           /\ box[c].parent = Root => Len(box[c].path) = 1
           /\ box[c].parent # Root =>
                 /\ box[c].parent \in DOMAIN box
                 /\ Longer(box[c].path, box[box[c].parent].path, box[c].slug)
<1>1. box[c].path = PathIn(box[c].parent, box[c].slug)
  BY DEF TreeFits
<1>2. box[c].slug \in STRING /\ box[c].parent \in DOMAIN box \cup {Root}
  BY SpaceIs
<1>3. /\ box[c].parent = Root => Len(box[c].path) = 1
      /\ box[c].parent # Root => Longer(box[c].path, box[box[c].parent].path, box[c].slug)
  BY <1>1, <1>2, PathInIs
<1>4. CASE box[c].parent = Root
  BY <1>3, <1>4
<1>5. CASE box[c].parent # Root
  <2>1. box[c].parent \in DOMAIN box
    BY <1>2, <1>5
  <2>2. Len(box[box[c].parent].path) \in Nat
    BY <2>1, SpaceIs
  <2>3. Len(box[c].path) = Len(box[box[c].parent].path) + 1
    BY <1>3, <1>5 DEF Longer
  <2> QED BY <1>3, <1>5, <2>1, <2>2, <2>3
<1> QED BY <1>4, <1>5

LEMMA SamePath ==
    ASSUME TreeShaped, TreeFits, NEW b \in DOMAIN box, NEW c \in DOMAIN box,
           Len(box[b].path) = Len(box[c].path),
           \A n \in 1 .. Len(box[b].path) : box[b].path[n] = box[c].path[n]
    PROVE  b = c
<1>1. box[b].path = box[c].path
  BY SpaceIs, SeqEqual
<1> QED BY <1>1 DEF TreeFits, Unused

LEMMA InsideIs ==
    ASSUME TreeShaped, TreeFits, NEW b \in DOMAIN box, NEW c \in DOMAIN box
    PROVE  Inside(b, c) <=> c \in {b} \cup Below(b)
<1>1. c \in Below(b) <=> Inside(b, c) /\ Len(box[b].path) < Len(box[c].path)
  BY SpaceIs, StrictPrefixIs DEF Below, Inside
<1>2. Inside(b, b)
  BY SpaceIs DEF Inside, From
<1>3. ASSUME Inside(b, c), ~ (Len(box[b].path) < Len(box[c].path)) PROVE c = b
  <2>1. Len(box[b].path) = Len(box[c].path)
    BY <1>3, SpaceIs DEF Inside, From
  <2> QED BY <1>3, <2>1, SamePath DEF Inside, From
<1> QED BY <1>1, <1>2, <1>3

\* What lies in a box, other than the box, is in what lies in it.
LEMMA InsideParent ==
    ASSUME TreeShaped, TreeFits, NEW b \in DOMAIN box, NEW c \in DOMAIN box, c # b
    PROVE  /\ Inside(b, c) => box[c].parent # Root
           /\ box[c].parent # Root => (Inside(b, c) <=> Inside(b, box[c].parent))
<1>1. Len(box[b].path) \in Nat /\ Len(box[c].path) \in Nat
  BY SpaceIs
<1>2. Len(box[b].path) >= 1
  BY <1>1, ParentIs, SpaceIs
<1>3. Inside(b, c) => Len(box[b].path) < Len(box[c].path)
  BY <1>1, SamePath DEF Inside, From
<1>4. Inside(b, c) => box[c].parent # Root
  <2> SUFFICES ASSUME Inside(b, c), box[c].parent = Root PROVE FALSE
    OBVIOUS
  <2>1. Len(box[c].path) = 1
    BY ParentIs
  <2>2. Len(box[b].path) < Len(box[c].path)
    BY <1>3
  <2> QED BY <1>1, <1>2, <2>1, <2>2
<1>5. ASSUME box[c].parent # Root PROVE Inside(b, c) <=> Inside(b, box[c].parent)
  <2> DEFINE q == box[c].parent
  <2>1. q \in DOMAIN box /\ Longer(box[c].path, box[q].path, box[c].slug)
    BY <1>5, ParentIs
  <2>2. Len(box[q].path) \in Nat
    BY <2>1, SpaceIs
  <2> HIDE DEF q
  <2>3. Inside(b, c) => Inside(b, q)
    BY <1>1, <1>3, <2>1, <2>2 DEF Inside, From, Longer
  <2>4. Inside(b, q) => Inside(b, c)
    BY <1>1, <2>1, <2>2 DEF Inside, From, Longer
  <2> QED BY <2>3, <2>4 DEF q
<1> QED BY <1>4, <1>5

\* Where a box has a path, there is a box for every part of it.
LEMMA PartsAreBoxes ==
    ASSUME TreeShaped, TreeFits, NEW b \in DOMAIN box, NEW n \in 1 .. Len(box[b].path)
    PROVE  \E g \in DOMAIN box : Len(box[g].path) = n /\ Inside(g, b)
<1> DEFINE Part(k) == \E g \in DOMAIN box : Len(box[g].path) = Len(box[b].path) - k /\ Inside(g, b)
           Missing == {k \in 0 .. Len(box[b].path) - n : ~ Part(k)}
<1>1. Len(box[b].path) \in Nat
  BY SpaceIs
<1>2. Missing = {}
  <2> SUFFICES ASSUME Missing # {} PROVE FALSE
    OBVIOUS
  <2>1. PICK k \in Missing : \A m \in Missing : k <= m
    <3> HIDE DEF Missing
    <3>1. Missing \subseteq Nat
      BY <1>1 DEF Missing
    <3> QED BY <3>1, SmallestExists
  <2>2. k # 0
    <3>1. Inside(b, b)
      BY InsideIs
    <3> QED BY <1>1, <2>1, <3>1
  <2>3. k - 1 \in 0 .. Len(box[b].path) - n /\ k - 1 \notin Missing
    <3>1. k \in 0 .. Len(box[b].path) - n
      BY <2>1
    <3>2. k - 1 \in 0 .. Len(box[b].path) - n /\ ~ (k <= k - 1)
      BY <1>1, <2>2, <3>1
    <3> HIDE DEF Missing
    <3> QED BY <2>1, <3>2
  <2>4. PICK g \in DOMAIN box : Len(box[g].path) = Len(box[b].path) - (k - 1) /\ Inside(g, b)
    BY <2>3
  <2>5. Part(k)
    <3> HIDE DEF Missing, Part
    <3>1. k \in 1 .. Len(box[b].path) - n
      BY <1>1, <2>1, <2>2 DEF Missing
    <3>2. Len(box[g].path) > 1 /\ Len(box[g].path) - 1 = Len(box[b].path) - k
      BY <1>1, <2>4, <3>1
    <3>3. box[g].parent # Root
      <4> SUFFICES ASSUME box[g].parent = Root PROVE FALSE
        OBVIOUS
      <4>1. Len(box[g].path) = 1
        BY ParentIs
      <4> QED BY <3>2, <4>1
    <3> DEFINE q == box[g].parent
    <3>4. q \in DOMAIN box /\ Longer(box[g].path, box[q].path, box[g].slug)
      BY <3>3, ParentIs
    <3> HIDE DEF q
    <3>5. /\ Len(box[q].path) \in Nat
          /\ Len(box[g].path) = Len(box[q].path) + 1
          /\ \A m \in 1 .. Len(box[q].path) : box[g].path[m] = box[q].path[m]
      BY <3>4, SpaceIs DEF Longer
    <3>6. Len(box[q].path) = Len(box[b].path) - k
      BY <3>2, <3>5
    <3>7. Inside(q, b)
      BY <1>1, <2>4, <3>5 DEF Inside, From
    <3> QED BY <3>4, <3>6, <3>7 DEF Part
  <2> QED BY <2>1, <2>5
<1>3. Len(box[b].path) - n \in 0 .. Len(box[b].path) - n
  BY <1>1
<1>4. Part(Len(box[b].path) - n)
  BY <1>2, <1>3
<1> QED BY <1>1, <1>4

\* The tree, and the types of its rows.
Tree == TreeShaped /\ TreeFits

\* A new box.
LEMMA CreateKeepsTree ==
    ASSUME Tree, NEW b \in Boxes, NEW p \in DOMAIN box \cup {Root}, NEW s \in Slugs,
           CreateDocumentSpace(b, p, s)
    PROVE  Tree'
<1> DEFINE row == NewSpace(p, s)
<1>1. /\ b \notin DOMAIN box /\ Unused(PathIn(p, s), {})
      /\ p = Root \/ ~ box[p].deleted
      /\ box' = [c \in DOMAIN box \cup {b} |-> IF c = b THEN row ELSE box[c]]
  BY DEF CreateDocumentSpace, Upsert, Usable
<1>2. s \in STRING
  BY DocumentsAssumption DEF DocumentsAssumption
<1>3. PathIn(p, s) \in Seq(STRING)
  BY <1>2, PathInIs DEF Tree
<1>4. row = [parent |-> p, slug |-> s, path |-> PathIn(p, s), active |-> TRUE, deleted |-> FALSE]
  BY DEF NewSpace
<1>5. DOMAIN box' = DOMAIN box \cup {b} /\ box'[b] = row /\ \A c \in DOMAIN box : box'[c] = box[c]
  BY <1>1
<1>6. TreeShaped'
  <2> DEFINE Space2 == [parent : DOMAIN box' \cup {Root}, slug : STRING, path : Seq(STRING),
                        active : BOOLEAN, deleted : BOOLEAN]
  <2>1. DocumentSpace \subseteq Space2
    BY <1>5 DEF DocumentSpace
  <2>2. row \in Space2
    BY <1>2, <1>3, <1>4, <1>5
  <2>3. \A c \in DOMAIN box : box[c] \in DocumentSpace
    BY Zenon DEF Tree, TreeShaped
  <2>4. DocumentSpace' = Space2
    BY DEF DocumentSpace
  <2> HIDE DEF Space2, row
  <2>5. box' \in [DOMAIN box \cup {b} -> Space2]
    BY <1>1, <2>1, <2>2, <2>3
  <2> QED BY <1>5, <2>4, <2>5 DEF Tree, TreeShaped
<1> DEFINE there(c) == box'[c].path = (IF box'[c].parent = Root THEN <<box'[c].slug>>
                                      ELSE Append(box'[box'[c].parent].path, box'[c].slug))
<1>7. p # Root => p \in DOMAIN box /\ p # b
  BY <1>1
<1>8. \A c \in DOMAIN box : box[c].parent # Root => box[c].parent \in DOMAIN box /\ box[c].parent # b
  BY <1>1, SpaceIs DEF Tree
<1>9. ASSUME NEW c \in DOMAIN box' PROVE there(c)
  <2>1. CASE c = b
    <3>1. /\ box'[c].path = PathIn(p, s) /\ box'[c].parent = p /\ box'[c].slug = s
      BY <1>4, <1>5, <2>1
    <3>2. p # Root => box'[p].path = box[p].path
      BY <1>5, <1>7
    <3> QED BY <3>1, <3>2 DEF PathIn
  <2>2. CASE c # b
    <3>1. c \in DOMAIN box /\ box'[c] = box[c]
      BY <1>5, <2>2
    <3>2. box[c].path = PathIn(box[c].parent, box[c].slug)
      BY <3>1 DEF Tree, TreeFits
    <3>3. box[c].parent # Root => box'[box[c].parent].path = box[box[c].parent].path
      BY <1>5, <1>8, <3>1
    <3> QED BY <3>1, <3>2, <3>3 DEF PathIn
  <2> QED BY <2>1, <2>2
<1>10. ASSUME NEW c \in DOMAIN box', NEW e \in DOMAIN box', c # e PROVE box'[c].path # box'[e].path
  <2>1. box'[b].path = PathIn(p, s) /\ \A x \in DOMAIN box : box[x].path # PathIn(p, s)
    BY <1>1, <1>4, <1>5 DEF Unused
  <2>2. \A x, y \in DOMAIN box : x # y => box[x].path # box[y].path
    BY DEF Tree, TreeFits, Unused
  <2> QED BY <1>5, <1>10, <2>1, <2>2
<1>11. ASSUME NEW c \in DOMAIN box', ~ box'[c].deleted
       PROVE  box'[c].parent = Root \/ ~ box'[box'[c].parent].deleted
  <2>1. CASE c = b
    <3>1. box'[c].parent = p
      BY <1>4, <1>5, <2>1
    <3> QED BY <1>1, <1>5, <1>7, <3>1
  <2>2. CASE c # b
    <3>1. c \in DOMAIN box /\ box'[c] = box[c]
      BY <1>5, <2>2
    <3>2. box[c].parent = Root \/ ~ box[box[c].parent].deleted
      BY <1>11, <3>1 DEF Tree, TreeFits
    <3> QED BY <1>5, <1>8, <3>1, <3>2
  <2> QED BY <2>1, <2>2
<1>12. TreeFits'
  BY <1>9, <1>10, <1>11 DEF TreeFits, PathIn, Unused
<1> QED BY <1>6, <1>12 DEF Tree

\* A box is moved, with what lies in it.
LEMMA UpdateKeepsTree ==
    ASSUME Tree, NEW b \in DOMAIN box, NEW p \in DOMAIN box \cup {Root}, NEW s \in Slugs,
           NEW active \in BOOLEAN, UpdateDocumentSpace(b, p, s, active)
    PROVE  Tree'
<1> DEFINE old == box[b].path
           new == PathIn(p, s)
<1>1. /\ p = Root \/ (~ box[p].deleted /\ p # b /\ p \notin Below(b))
      /\ \A c \in DOMAIN box \ {b} : box[c].path # new
  BY DEF UpdateDocumentSpace, ParentOffered, Usable, Unused
<1>2. s \in STRING
  BY DocumentsAssumption DEF DocumentsAssumption
<1>3. old \in Seq(STRING) /\ new \in Seq(STRING) /\ Len(old) \in Nat /\ Len(new) \in Nat
  <2>1. \A path \in Seq(STRING) : Len(path) \in Nat
    BY LenProperties
  <2> QED BY <1>2, <2>1, PathInIs, SpaceIs DEF Tree
<1> DEFINE moved(c) == [box[c] EXCEPT !.path = Moved(old, new, box[c].path)]
           edited == [box[b] EXCEPT !.parent = p, !.slug = s, !.path = new, !.active = active]
<1>4. box' = [c \in DOMAIN box |-> IF c = b THEN edited
                                   ELSE IF c \in Below(b) THEN moved(c) ELSE box[c]]
  <2>1. box' = SpaceUpdated(b, p, s, active)
    BY DEF UpdateDocumentSpace
  <2>2. b \notin Below(b)
    BY DEF Below, IsStrictPrefix
  <2>3. Rebased(b, old, new) = [c \in DOMAIN box |-> IF c \in Below(b) THEN moved(c) ELSE box[c]]
    BY DEF Rebased, Moved
  <2>4. Rebased(b, old, new)[b] = box[b]
    BY <2>2, <2>3
  <2> HIDE DEF moved, edited
  <2>5. SpaceUpdated(b, p, s, active) = [Rebased(b, old, new) EXCEPT ![b] = edited]
    BY <2>4, Zenon DEF SpaceUpdated, edited
  <2> QED BY <2>1, <2>3, <2>5
<1>5. \A c \in DOMAIN box : box[c] \in DocumentSpace
  BY Zenon DEF Tree, TreeShaped
<1>6. /\ edited.parent = p /\ edited.slug = s /\ edited.path = new
      /\ edited.deleted = box[b].deleted
      /\ edited \in DocumentSpace
  <2>1. PICK row \in DocumentSpace : row = box[b]
    BY <1>5
  <2>2. edited = [row EXCEPT !.parent = p, !.slug = s, !.path = new, !.active = active]
    BY <2>1
  <2> HIDE DEF edited, old, new
  <2>3. edited.parent = p /\ edited.slug = s /\ edited.path = new /\ edited.deleted = row.deleted
    BY <2>2 DEF DocumentSpace
  <2>4. edited \in DocumentSpace
    BY <1>2, <1>3, <2>2 DEF DocumentSpace
  <2> QED BY <2>1, <2>3, <2>4
<1>7. ASSUME NEW c \in DOMAIN box
      PROVE  moved(c) = [parent |-> box[c].parent, slug |-> box[c].slug,
                         path |-> Moved(old, new, box[c].path),
                         active |-> box[c].active, deleted |-> box[c].deleted]
  BY <1>5 DEF DocumentSpace
<1> HIDE DEF moved, edited, old, new
\* What the paths are afterwards.
<1>8. \A c \in DOMAIN box : Inside(b, c) <=> c = b \/ c \in Below(b)
  BY InsideIs DEF Tree
<1>9. DOMAIN box' = DOMAIN box /\ \A c \in DOMAIN box : box[c].path \in Seq(STRING)
  BY <1>4, SpaceIs DEF Tree
<1>10. ASSUME NEW c \in DOMAIN box
       PROVE  /\ Inside(b, c) => box'[c].path = Moved(old, new, box[c].path)
              /\ ~ Inside(b, c) => box'[c].path = box[c].path
              /\ c # b => box'[c].parent = box[c].parent /\ box'[c].slug = box[c].slug
              /\ box'[c].deleted = box[c].deleted
  <2>1. CASE c = b
    <3>1. box'[c] = edited /\ Moved(old, new, old) = new
      BY <1>3, <1>4, <2>1, MovedBox
    <3> QED BY <1>6, <1>8, <2>1, <3>1 DEF old
  <2>2. CASE c # b /\ c \in Below(b)
    BY <1>4, <1>7, <1>8, <2>2
  <2>3. CASE c # b /\ c \notin Below(b)
    BY <1>4, <1>8, <2>3
  <2> QED BY <2>1, <2>2, <2>3
<1>11. box'[b].parent = p /\ box'[b].slug = s /\ box'[b].path = new
  BY <1>4, <1>6
<1>12. TreeShaped'
  <2>1. ASSUME NEW c \in DOMAIN box PROVE box'[c] \in DocumentSpace
    <3>1. CASE c = b
      BY <1>4, <1>6, <3>1
    <3>2. CASE c # b /\ c \in Below(b)
      <4>1. Moved(old, new, box[c].path) \in Seq(STRING)
        BY <1>3, <1>8, <1>9, <3>2, MovedIs DEF Inside, old
      <4> QED BY <1>4, <1>5, <1>7, <3>2, <4>1 DEF DocumentSpace
    <3>3. CASE c # b /\ c \notin Below(b)
      BY <1>4, <1>5, <3>3
    <3> QED BY <3>1, <3>2, <3>3
  <2>2. DocumentSpace' = DocumentSpace
    BY <1>9 DEF DocumentSpace
  <2>3. box' \in [DOMAIN box -> DocumentSpace]
    <3>1. box' = [c \in DOMAIN box |-> box'[c]]
      BY <1>4
    <3> QED BY <2>1, <3>1
  <2> QED BY <1>9, <2>2, <2>3 DEF Tree, TreeShaped
\* A path is the parent's with the slug.
<1>13. p # Root => p \in DOMAIN box /\ box'[p].path = box[p].path
  BY <1>1, <1>8, <1>10, <1>12
<1> DEFINE there(c) == box'[c].path = (IF box'[c].parent = Root THEN <<box'[c].slug>>
                                      ELSE Append(box'[box'[c].parent].path, box'[c].slug))
<1>14. ASSUME NEW c \in DOMAIN box PROVE there(c)
  <2>1. CASE c = b
    BY <1>11, <1>13, <2>1 DEF PathIn, new
  <2>2. CASE c # b
    <3> DEFINE q == box[c].parent
               slug == box[c].slug
    <3>1. box'[c].parent = q /\ box'[c].slug = slug
      BY <1>10, <2>2
    <3>2. /\ q # Root => q \in DOMAIN box /\ box[c].path = Append(box[q].path, slug)
          /\ q = Root => box[c].path = <<slug>>
      BY SpaceIs DEF Tree, TreeFits, PathIn
    <3>3. slug \in STRING
      BY SpaceIs DEF Tree
    <3>4. /\ Inside(b, c) => q # Root
          /\ q # Root => (Inside(b, c) <=> Inside(b, q))
      BY <2>2, InsideParent DEF Tree
    <3> HIDE DEF q, slug
    <3>5. CASE q = Root
      BY <1>10, <3>1, <3>2, <3>4, <3>5
    <3>6. CASE q # Root /\ ~ Inside(b, c)
      BY <1>10, <3>1, <3>2, <3>4, <3>6
    <3>7. CASE q # Root /\ Inside(b, c)
      <4>1. box'[c].path = Moved(old, new, Append(box[q].path, slug))
        BY <1>10, <3>2, <3>7
      <4>2. box'[q].path = Moved(old, new, box[q].path)
        BY <1>10, <3>2, <3>4, <3>7
      <4>3. From(old, box[q].path) /\ box[q].path \in Seq(STRING)
        BY <1>9, <3>2, <3>4, <3>7 DEF Inside, old
      <4>4. Moved(old, new, Append(box[q].path, slug)) = Append(Moved(old, new, box[q].path), slug)
        BY <1>3, <3>3, <4>3, MovedChild
      <4> QED BY <3>1, <3>7, <4>1, <4>2, <4>4
    <3> QED BY <3>5, <3>6, <3>7
  <2> QED BY <2>1, <2>2
\* Paths are different.
<1>15. ASSUME NEW c \in DOMAIN box, NEW e \in DOMAIN box, Inside(b, c), ~ Inside(b, e)
       PROVE  box'[c].path # box'[e].path
  <2> SUFFICES ASSUME box[e].path = Moved(old, new, box[c].path) PROVE FALSE
    BY <1>10, <1>15
  <2>1. IsMoved(box[e].path, old, new, box[c].path)
    <3>1. From(old, box[c].path)
      BY <1>15 DEF Inside, old
    <3> QED BY <1>3, <1>9, <3>1, MovedIs
  <2>2. Len(box[c].path) \in Nat /\ Len(box[e].path) \in Nat /\ Len(old) <= Len(box[c].path)
    BY <1>15, SpaceIs DEF Tree, Inside, From, old
  <2>3. Len(new) \in 1 .. Len(box[e].path)
    <3>1. Len(new) <= Len(box[e].path)
      BY <1>3, <2>1, <2>2 DEF IsMoved
    <3>2. Len(new) >= 1
      <4>1. CASE p = Root
        <5>1. Len(new) = 1
          BY <1>2, <4>1, PathInIs DEF Tree, new
        <5> QED BY <5>1
      <4>2. CASE p # Root
        <5>1. Len(new) = Len(box[p].path) + 1 /\ Len(box[p].path) \in Nat
          BY <1>2, <4>2, PathInIs, SpaceIs DEF Tree, new, Longer
        <5> QED BY <5>1
      <4> QED BY <4>1, <4>2
    <3> QED BY <1>3, <2>2, <3>1, <3>2
  <2>4. PICK g \in DOMAIN box : Len(box[g].path) = Len(new) /\ Inside(g, e)
    BY <2>3, PartsAreBoxes DEF Tree
  <2>5. \A n \in 1 .. Len(new) : box[g].path[n] = new[n]
    BY <2>1, <2>4 DEF IsMoved, Inside, From
  <2>6. box[g].path = new
    BY <1>3, <1>9, <2>4, <2>5, SeqEqual
  <2>7. g = b
    BY <1>1, <2>6 DEF new
  <2> QED BY <1>15, <2>4, <2>7
<1>16. ASSUME NEW c \in DOMAIN box, NEW e \in DOMAIN box, c # e
       PROVE  box'[c].path # box'[e].path
  <2>1. box[c].path # box[e].path
    BY <1>16 DEF Tree, TreeFits, Unused
  <2>2. CASE Inside(b, c) /\ Inside(b, e)
    <3>1. From(old, box[c].path) /\ From(old, box[e].path)
      BY <2>2 DEF Inside, old
    <3> QED BY <1>3, <1>9, <1>10, <2>1, <2>2, <3>1, MovedApart
  <2>3. CASE ~ Inside(b, c) /\ ~ Inside(b, e)
    BY <1>10, <2>1, <2>3
  <2> QED BY <1>15, <2>2, <2>3
<1>17. ASSUME NEW c \in DOMAIN box, ~ box'[c].deleted
       PROVE  box'[c].parent = Root \/ ~ box'[box'[c].parent].deleted
  <2>1. CASE c = b
    BY <1>1, <1>10, <1>11, <1>13, <2>1
  <2>2. CASE c # b
    <3>1. box[c].parent = Root \/ ~ box[box[c].parent].deleted
      BY <1>10, <1>17 DEF Tree, TreeFits
    <3>2. box[c].parent # Root => box[c].parent \in DOMAIN box
      BY SpaceIs DEF Tree
    <3> QED BY <1>10, <2>2, <3>1, <3>2
  <2> QED BY <2>1, <2>2
<1>18. TreeFits'
  <2>1. \A c \in DOMAIN box' : there(c)
    BY <1>9, <1>14
  <2>2. \A c, e \in DOMAIN box' : c # e => box'[c].path # box'[e].path
    BY <1>9, <1>16
  <2>3. \A c \in DOMAIN box' : ~ box'[c].deleted =>
            box'[c].parent = Root \/ ~ box'[box'[c].parent].deleted
    BY <1>9, <1>17
  <2> QED BY <2>1, <2>2, <2>3 DEF TreeFits, PathIn, Unused
<1> QED BY <1>12, <1>18 DEF Tree

\* A box is deleted, with what lies in it.
LEMMA DeleteKeepsTree ==
    ASSUME Tree, NEW b \in DOMAIN box, NEW target, DeleteDocumentSpace(b, target)
    PROVE  Tree'
<1> DEFINE subtree == {c \in {b} \cup Below(b) : ~ box[c].deleted}
           gone(c) == [box[c] EXCEPT !.active = FALSE, !.deleted = TRUE]
<1>1. box' = [c \in DOMAIN box |-> IF c \in subtree THEN gone(c) ELSE box[c]]
  BY DEF DeleteDocumentSpace, SpacesDeleted
<1>2. \A c \in DOMAIN box : box[c] \in DocumentSpace
  BY Zenon DEF Tree, TreeShaped
<1>3. ASSUME NEW c \in DOMAIN box
      PROVE  /\ gone(c).parent = box[c].parent /\ gone(c).slug = box[c].slug
             /\ gone(c).path = box[c].path /\ gone(c).deleted
             /\ gone(c) \in DocumentSpace
  <2>1. PICK row \in DocumentSpace : row = box[c]
    BY <1>2
  <2>2. gone(c) = [row EXCEPT !.active = FALSE, !.deleted = TRUE]
    BY <2>1
  <2> HIDE DEF gone
  <2>3. /\ gone(c).parent = row.parent /\ gone(c).slug = row.slug
        /\ gone(c).path = row.path /\ gone(c).deleted
    BY <2>2 DEF DocumentSpace
  <2>4. gone(c) \in DocumentSpace
    BY <2>2 DEF DocumentSpace
  <2> QED BY <2>1, <2>3, <2>4
<1> HIDE DEF gone
<1>4. \A c \in DOMAIN box : c \in subtree <=> Inside(b, c) /\ ~ box[c].deleted
  BY InsideIs DEF Tree
<1> HIDE DEF subtree
<1>5. DOMAIN box' = DOMAIN box
  BY <1>1
<1>6. ASSUME NEW c \in DOMAIN box
      PROVE  /\ box'[c].parent = box[c].parent /\ box'[c].slug = box[c].slug
             /\ box'[c].path = box[c].path
             /\ box'[c] \in DocumentSpace
             /\ ~ box'[c].deleted => ~ box[c].deleted /\ ~ Inside(b, c)
             /\ ~ Inside(b, c) => box'[c] = box[c]
  <2>1. CASE c \in subtree
    BY <1>1, <1>3, <1>4, <2>1
  <2>2. CASE c \notin subtree
    BY <1>1, <1>2, <1>4, <2>2
  <2> QED BY <2>1, <2>2
<1>7. TreeShaped'
  <2>1. DocumentSpace' = DocumentSpace
    BY <1>5 DEF DocumentSpace
  <2>2. box' \in [DOMAIN box -> DocumentSpace]
    <3>1. box' = [c \in DOMAIN box |-> box'[c]]
      BY <1>1
    <3> QED BY <1>6, <3>1
  <2> QED BY <1>5, <2>1, <2>2 DEF Tree, TreeShaped
<1>8. \A c \in DOMAIN box : box[c].parent # Root => box[c].parent \in DOMAIN box
  BY SpaceIs DEF Tree
<1> DEFINE there(c) == box'[c].path = (IF box'[c].parent = Root THEN <<box'[c].slug>>
                                      ELSE Append(box'[box'[c].parent].path, box'[c].slug))
<1>9. ASSUME NEW c \in DOMAIN box PROVE there(c)
  <2>1. box[c].path = PathIn(box[c].parent, box[c].slug)
    BY DEF Tree, TreeFits
  <2> QED BY <1>6, <1>8, <2>1 DEF PathIn
<1>10. ASSUME NEW c \in DOMAIN box, ~ box'[c].deleted
       PROVE  box'[c].parent = Root \/ ~ box'[box'[c].parent].deleted
  <2>1. ~ box[c].deleted /\ ~ Inside(b, c) /\ box'[c].parent = box[c].parent
    BY <1>6, <1>10
  <2>2. box[c].parent = Root \/ ~ box[box[c].parent].deleted
    BY <2>1 DEF Tree, TreeFits
  <2>3. c # b
    BY <2>1, InsideIs DEF Tree
  <2>4. box[c].parent # Root => ~ Inside(b, box[c].parent)
    BY <2>1, <2>3, InsideParent DEF Tree
  <2> QED BY <1>6, <1>8, <2>1, <2>2, <2>4
<1>11. TreeFits'
  <2>1. \A c \in DOMAIN box' : there(c)
    BY <1>5, <1>9
  <2>2. \A c, e \in DOMAIN box' : c # e => box'[c].path # box'[e].path
    BY <1>5, <1>6 DEF Tree, TreeFits, Unused
  <2>3. \A c \in DOMAIN box' : ~ box'[c].deleted =>
            box'[c].parent = Root \/ ~ box'[box'[c].parent].deleted
    BY <1>5, <1>10
  <2> QED BY <2>1, <2>2, <2>3 DEF TreeFits, PathIn, Unused
<1> QED BY <1>7, <1>11 DEF Tree

\* The first boxes.
LEMMA TreeAtFirst == ASSUME Init PROVE Tree
<1> DEFINE parentOf(path) == IF Len(path) = 1 THEN Root
                             ELSE CHOOSE c \in DOMAIN FirstBoxes : FirstBoxes[c] = Front(path)
<1>1. box = [b \in DOMAIN FirstBoxes |-> FirstSpace(FirstBoxes[b])]
  BY DEF Init, DocumentsInit
<1>2. ASSUME NEW b \in DOMAIN FirstBoxes
      PROVE  /\ FirstBoxes[b] \in Seq(STRING)
             /\ Len(FirstBoxes[b]) \in Nat /\ Len(FirstBoxes[b]) >= 1
             /\ \A c \in DOMAIN FirstBoxes \ {b} : FirstBoxes[c] # FirstBoxes[b]
             /\ Len(FirstBoxes[b]) > 1 =>
                   \E c \in DOMAIN FirstBoxes : FirstBoxes[c] = Front(FirstBoxes[b])
  <2>1. FirstBoxes[b] \in Seq(STRING) /\ FirstBoxes[b] # << >>
    BY FirstBoxesAssumption DEF FirstBoxesAssumption
  <2>2. Len(FirstBoxes[b]) \in Nat \ {0}
    BY <2>1, EmptySeq
  <2> QED BY <2>1, <2>2, FirstBoxesAssumption DEF FirstBoxesAssumption
<1>3. ASSUME NEW b \in DOMAIN box
      PROVE  /\ box[b].parent = parentOf(FirstBoxes[b]) /\ box[b].path = FirstBoxes[b]
             /\ box[b].slug = FirstBoxes[b][Len(FirstBoxes[b])]
             /\ ~ box[b].deleted
  <2>1. ASSUME NEW path
        PROVE  /\ FirstSpace(path).parent = parentOf(path) /\ FirstSpace(path).path = path
               /\ FirstSpace(path).slug = path[Len(path)]
               /\ ~ FirstSpace(path).deleted
    <3>1. FirstSpace(path) = [parent |-> parentOf(path), slug |-> path[Len(path)],
                              path |-> path, active |-> TRUE, deleted |-> FALSE]
      BY Zenon DEF FirstSpace, Last
    <3> HIDE DEF parentOf
    <3> QED BY <3>1
  <2>2. box[b] = FirstSpace(FirstBoxes[b])
    BY <1>1
  <2> HIDE DEF parentOf
  <2> QED BY <2>1, <2>2
<1>4. ASSUME NEW b \in DOMAIN FirstBoxes, Len(FirstBoxes[b]) # 1
      PROVE  /\ parentOf(FirstBoxes[b]) \in DOMAIN FirstBoxes
             /\ FirstBoxes[parentOf(FirstBoxes[b])] = Front(FirstBoxes[b])
  <2>1. Len(FirstBoxes[b]) > 1
    <3>1. PICK n \in Nat : n = Len(FirstBoxes[b]) /\ n >= 1
      BY <1>2
    <3>2. n # 1
      BY <1>4, <3>1, Zenon
    <3> QED BY <3>1, <3>2
  <2>2. \E c \in DOMAIN FirstBoxes : FirstBoxes[c] = Front(FirstBoxes[b])
    BY <1>2, <2>1
  <2>3. parentOf(FirstBoxes[b]) =
           CHOOSE c \in DOMAIN FirstBoxes : FirstBoxes[c] = Front(FirstBoxes[b])
    BY <1>4
  <2> HIDE DEF parentOf
  <2> QED BY <2>2, <2>3
<1>5. DOMAIN box = DOMAIN FirstBoxes /\ Root \notin DOMAIN box
  BY <1>1, DocumentsAssumption DEF DocumentsAssumption
<1>6. ASSUME NEW b \in DOMAIN FirstBoxes
      PROVE  /\ parentOf(FirstBoxes[b]) \in DOMAIN FirstBoxes \cup {Root}
             /\ FirstBoxes[b][Len(FirstBoxes[b])] \in STRING
             /\ FirstBoxes[b] = IF parentOf(FirstBoxes[b]) = Root
                                THEN <<FirstBoxes[b][Len(FirstBoxes[b])]>>
                                ELSE Append(FirstBoxes[parentOf(FirstBoxes[b])],
                                            FirstBoxes[b][Len(FirstBoxes[b])])
  <2> DEFINE path == FirstBoxes[b]
             slug == path[Len(path)]
  <2>1. path \in Seq(STRING) /\ Len(path) \in Nat /\ Len(path) >= 1
    BY <1>2
  <2> HIDE DEF path
  <2>2. Len(path) \in 1 .. Len(path)
    BY <2>1
  <2>3. slug \in STRING
    BY <2>1, <2>2, ElementOfSeq
  <2>4. CASE Len(path) = 1
    <3>1. path = <<slug>>
      <4>1. \A T : \A q \in Seq(T) : Len(q) = 1 => q = <<q[1]>>
        OBVIOUS
      <4> QED BY <2>1, <2>4, <4>1
    <3> QED BY <2>3, <2>4, <3>1 DEF path
  <2>5. CASE Len(path) # 1
    <3>1. parentOf(path) \in DOMAIN FirstBoxes /\ FirstBoxes[parentOf(path)] = Front(path)
      BY <1>4, <2>5 DEF path
    <3>2. path = Append(Front(path), slug)
      <4>1. \A T : \A q \in Seq(T) : Len(q) > 1 => q = Append(SubSeq(q, 1, Len(q) - 1), q[Len(q)])
        OBVIOUS
      <4> QED BY <2>1, <2>5, <4>1 DEF Front
    <3>3. parentOf(path) # Root
      BY <1>5, <3>1
    <3> QED BY <2>3, <3>1, <3>2, <3>3 DEF path
  <2> QED BY <2>4, <2>5
<1> HIDE DEF parentOf
<1>7. TreeShaped
  <2>1. ASSUME NEW b \in DOMAIN box PROVE box[b] \in DocumentSpace
    BY <1>1, <1>2, <1>5, <1>6 DEF DocumentSpace, FirstSpace, Last, parentOf
  <2>2. box = [b \in DOMAIN box |-> box[b]]
    BY <1>1
  <2> QED BY <1>5, <2>1, <2>2, DocumentsAssumption DEF TreeShaped, DocumentsAssumption
<1>8. TreeFits
  <2>1. ASSUME NEW b \in DOMAIN box
        PROVE  box[b].path = PathIn(box[b].parent, box[b].slug)
    <3> DEFINE path == FirstBoxes[b]
               slug == path[Len(path)]
               q == parentOf(path)
    <3>1. /\ q \in DOMAIN FirstBoxes \cup {Root}
          /\ path = IF q = Root THEN <<slug>> ELSE Append(FirstBoxes[q], slug)
      BY <1>5, <1>6
    <3>2. box[b].parent = q /\ box[b].path = path /\ box[b].slug = slug
      BY <1>3
    <3> HIDE DEF q, slug, path
    <3>3. q # Root => box[q].path = FirstBoxes[q]
      BY <1>3, <1>5, <3>1
    <3> QED BY <3>1, <3>2, <3>3 DEF PathIn
  <2>2. ASSUME NEW b \in DOMAIN box PROVE Unused(box[b].path, {b})
    <3>1. ASSUME NEW c \in DOMAIN box \ {b} PROVE box[c].path # box[b].path
      <4>1. box[c].path = FirstBoxes[c] /\ box[b].path = FirstBoxes[b]
        BY <1>3
      <4>2. FirstBoxes[c] # FirstBoxes[b]
        BY <1>2, <1>5
      <4> QED BY <4>1, <4>2
    <3> QED BY <3>1 DEF Unused
  <2>3. ASSUME NEW b \in DOMAIN box
        PROVE  ~ box[b].deleted => box[b].parent = Root \/ ~ box[box[b].parent].deleted
    BY <1>3, <1>5, <1>6
  <2> QED BY <2>1, <2>2, <2>3 DEF TreeFits
<1> QED BY <1>7, <1>8 DEF Tree

\* Only the three requests touch boxes.
LEMMA OnlyTheseTouchBoxes ==
    ASSUME [Next]_vars
    PROVE  \/ UNCHANGED box
           \/ \E b \in Boxes, p \in DOMAIN box \cup {Root}, s \in Slugs : CreateDocumentSpace(b, p, s)
           \/ \E b \in DOMAIN box, p \in DOMAIN box \cup {Root}, s \in Slugs, active \in BOOLEAN :
                 UpdateDocumentSpace(b, p, s, active)
           \/ \E b \in DOMAIN box, target \in DOMAIN box \cup {Root} :
                 DeleteDocumentSpace(b, target)
<1>1. CASE DocumentsNext
  BY <1>1 DEF DocumentsNext, Known, EmptyDocumentSpace, DeleteStorageKeys, UploadDocument,
       ImportIntoBox, DeleteDocument, SplitDocument, MergeDocuments, UpdateDocumentCoreMetadata,
       AddDocumentComment, SetDocumentTags, Annotate, OptimizeOne, SaveOptimized,
       ReplaceStorage, DeleteOldKey, OptimizerDies, PurgeLost, CallbacksLost, CallbackRaises
<1>2. CASE TitleRulesNext \/ NoticesNext \/ ExportsNext \/ AccountsNext
  BY <1>2 DEF TitleRulesNext, NoticesNext, ExportsNext, AccountsNext, docVars, Elsewhere,
       CreateTitleRule, EditTitleRule, DeleteTitleRule,
       RulesOnly, NoticesOnly, ExportsOnly, AccountsOnly,
       ReadDocument, WriteIndex, EvaluateAlarm, Evaluated, RebuildFails, RebuildRaises, RebuildEnds, SaveAlarm, DeleteAlarm,
       SaveDocumentReminder, EndDocumentReminder, ReminderComesDue, ListDueReminders,
       TellReminder, DispatcherDies, CreateExport, StartExport, PackDocument,
       FinishExport, ExportFails, ExportDies, CancelExport, AddTenantMember,
       UpdateTenantMembership, CreateTenantRole, UpdateTenantRole, CheckTenantRole,
       DeleteTenantRole
<1>3. CASE LinksNext
  BY <1>3 DEF LinksNext, Elsewhere, LinksOnly,
       UpdateDocumentMetadata, UploadInvoice, AddDocumentRelation, RemoveDocumentRelation,
       CreateDocumentMetadataField, UpdateDocumentMetadataField, DeleteDocumentMetadataField
<1>4. CASE OcrNext
  <2>1. UNCHANGED box \/ \E j, titled, found : OcrSucceeds(j, titled, found)
    BY <1>4 DEF OcrNext, docVars, StartOcr, StartOfficeConversion, StartUnsent, RestartOcr, TakeOcrJob,
         MarkOcrRunning, ReadForOcr, OcrFails, CancelOcr, OcrDies, RunOfficeConversion,
         SaveDerivative, StoreDerivative, ConversionSucceeds, ConversionFails, CancelConversion
  <2>2. ASSUME NEW j, NEW titled, NEW found, OcrSucceeds(j, titled, found) PROVE UNCHANGED box
    BY <2>2 DEF OcrSucceeds
  <2> QED BY <2>1, <2>2
<1>5. CASE BoxJobsNext
  BY <1>5 DEF BoxJobsNext, docVars, Elsewhere, BoxJobsOnly,
       CreateBoxJob, ClaimBoxJob, ReconcileNext, SkipLayout, StartLayout, EndLayout, SaveCursor,
       EndBatch, WorkerDies, ResumeBoxJob, CancelLayout
<1>6. CASE UNCHANGED vars
  BY <1>6 DEF vars, docVars
<1> QED BY <1>1, <1>2, <1>3, <1>4, <1>5, <1>6 DEF Next

\* No row of a box is ever taken away.
LEMMA BoxesStay ==
    ASSUME [Next]_vars
    PROVE  DOMAIN box \subseteq DOMAIN box'
<1>1. ASSUME NEW b, NEW p, NEW s, CreateDocumentSpace(b, p, s) PROVE DOMAIN box \subseteq DOMAIN box'
  BY <1>1 DEF CreateDocumentSpace, Upsert
<1>2. ASSUME NEW b, NEW p, NEW s, NEW active, UpdateDocumentSpace(b, p, s, active)
      PROVE  DOMAIN box' = DOMAIN box
  BY <1>2 DEF UpdateDocumentSpace, SpaceUpdated, Rebased
<1>3. ASSUME NEW b, NEW target, DeleteDocumentSpace(b, target) PROVE DOMAIN box' = DOMAIN box
  BY <1>3 DEF DeleteDocumentSpace, SpacesDeleted
<1> QED BY <1>1, <1>2, <1>3, OnlyTheseTouchBoxes

\* The tree fits after every step.
LEMMA TreeStays ==
    ASSUME Tree, [Next]_vars
    PROVE  Tree'
<1>1. CASE UNCHANGED box
  BY <1>1 DEF Tree, TreeShaped, DocumentSpace, TreeFits, PathIn, Unused
<1> QED BY <1>1, OnlyTheseTouchBoxes, CreateKeepsTree, UpdateKeepsTree, DeleteKeepsTree

\* However boxes are created, moved, renamed and deleted, their paths are
\* different, and those of their parents with their own slugs, and what is not
\* deleted lies in boxes that are not: for any boxes, slugs and first tree.
THEOREM TreeAlwaysFits == Spec => []TreeFits
<1>1. Tree /\ [Next]_vars => Tree'
  BY TreeStays
<1>2. Tree => TreeFits
  BY DEF Tree
<1> QED BY <1>1, <1>2, TreeAtFirst, PTL DEF Spec

-----------------------------------------------------------------------------
(***************************************************************************)
(* Files: rows point to blobs that are there.                              *)
(***************************************************************************)

Busy(w) == optimize[w].pc # "idle"

\* File rows belong to documents that are not purged, and have their blobs.
FilesKnown ==
    \A r \in DOMAIN file : /\ r \in DocumentFile /\ Exists(r[1])
                           /\ file[r] \in Nat
                           /\ Key(r, file[r]) \in blob

\* The keys that a callback is to delete belong to documents that are purged.
PurgesKnown == \A keys \in purge : \A k \in keys : k[1] \in Docs /\ ~ Exists(k[1])

\* A converted file that is saved, and has no row yet.
DerivativesSaved ==
    \A d \in DOMAIN conversion :
        conversion[d].step = "saved" =>
            d \in Docs /\ (Exists(d) => Key(Derivative(d), 1) \in blob)

OptimizerShaped(q) ==
    /\ DOMAIN q = {"pc", "row", "old", "new"}
    /\ q.old \in Nat /\ q.new \in Nat
    /\ q.pc \in {"idle", "read", "saved", "replaced"}
    /\ q.pc # "idle" => \E d \in Docs : q.row = Original(d)
    /\ q.pc \in {"saved", "replaced"} => q.old < q.new

\* As long as its row is there, the file that a worker has read or saved is not
\* newer than the newest of the row.
NoneNewer(q) ==
    q.pc # "idle" /\ q.row \in DOMAIN file =>
        \E k \in blob : k = Key(q.row, k[3]) /\ q.old <= k[3] /\ q.new <= k[3]

\* Nobody else knows the file that a worker has saved ...
OwnFile(w) ==
    optimize[w].pc = "saved" /\ optimize[w].row \in DOMAIN file =>
        /\ Key(optimize[w].row, optimize[w].new) \in blob
        /\ file[optimize[w].row] # optimize[w].new
        /\ \A v \in Optimizers \ {w} :
              Busy(v) /\ optimize[v].row = optimize[w].row =>
                 optimize[w].new \notin {optimize[v].old, optimize[v].new}

\* ... and its row never goes back to the one that it has read.
NeverBack(q) ==
    q.pc = "replaced" /\ q.row \in DOMAIN file => file[q.row] # q.old

OptimizersFit ==
    /\ optimize = [w \in Optimizers |-> optimize[w]]
    /\ \A w \in Optimizers : /\ OptimizerShaped(optimize[w])
                             /\ NoneNewer(optimize[w])
                             /\ OwnFile(w)
                             /\ NeverBack(optimize[w])

\* The numbers of keys end somewhere.
KeysBounded ==
    \E n \in Nat : /\ \A k \in blob : k[3] \in 0 .. n
                   /\ \A w \in Optimizers : optimize[w].old <= n /\ optimize[w].new <= n

FilesFit == FilesKnown /\ PurgesKnown /\ DerivativesSaved /\ OptimizersFit /\ KeysBounded

\* What touches files.
SameFiles == UNCHANGED <<file, blob, optimize, purge>>

OptimizerGoes(w) ==
    \/ \E d \in Docs : OptimizeOne(w, d)
    \/ SaveOptimized(w) \/ ReplaceStorage(w) \/ DeleteOldKey(w) \/ OptimizerDies(w)

ConversionGoesOn(d) ==
    \/ RunOfficeConversion(d) \/ SaveDerivative(d) \/ StoreDerivative(d)
    \/ ConversionSucceeds(d) \/ ConversionFails(d)
    \/ \E killed : CancelConversion(d, killed)

LEMMA RequestsTouchFiles ==
    ASSUME DocumentsNext
    PROVE  /\ UNCHANGED conversion
           /\ \/ SameFiles
              \/ \E b : EmptyDocumentSpace(b)
              \/ \E keys : DeleteStorageKeys(keys)
              \/ CreatesDocs
              \/ \E w \in Optimizers : OptimizerGoes(w)
              \/ \E keys : PurgeLost(keys)
<1>1. UNCHANGED conversion
  BY DEF DocumentsNext, DocumentsOnly, ocrVars
<1>2. \/ SameFiles
      \/ \E b : EmptyDocumentSpace(b)
      \/ \E keys : DeleteStorageKeys(keys)
      \/ CreatesDocs
      \/ \E w \in Optimizers : OptimizerGoes(w)
      \/ \E keys : PurgeLost(keys)
  BY DEF SameFiles, DocumentsNext, CreatesDocs, OptimizerGoes, CreateDocumentSpace, UpdateDocumentSpace, DeleteDocumentSpace,
         DeleteDocument, UpdateDocumentCoreMetadata, AddDocumentComment, SetDocumentTags, Annotate,
         CallbacksLost, CallbackRaises
<1> QED BY <1>1, <1>2

LEMMA OthersTouchFiles ==
    ASSUME \/ TitleRulesNext \/ LinksNext \/ NoticesNext \/ BoxJobsNext \/ ExportsNext
           \/ AccountsNext \/ UNCHANGED vars
    PROVE  /\ UNCHANGED conversion
           /\ \/ SameFiles
              \/ CreatesDocs
              \/ \E w \in JobWorkers : \E found : EndLayout(w, found)
<1>1. CASE TitleRulesNext
  BY <1>1 DEF TitleRulesNext, SameFiles, RulesOnly, ocrVars, docVars, CreateTitleRule, EditTitleRule, DeleteTitleRule
<1>2. CASE LinksNext
  <2>1. UNCHANGED conversion
    BY <1>2 DEF LinksNext, LinksOnly, ocrVars
  <2>2. SameFiles \/ CreatesDocs
    BY <1>2 DEF LinksNext, CreatesDocs, SameFiles, docVars, UpdateDocumentMetadata, AddDocumentRelation,
         RemoveDocumentRelation, CreateDocumentMetadataField, UpdateDocumentMetadataField,
         DeleteDocumentMetadataField
  <2> QED BY <2>1, <2>2
<1>3. CASE NoticesNext
  BY <1>3 DEF NoticesNext, SameFiles, NoticesOnly, ocrVars, docVars, ReadDocument, WriteIndex,
         EvaluateAlarm, Evaluated, RebuildFails, RebuildRaises, RebuildEnds, SaveAlarm, DeleteAlarm,
         SaveDocumentReminder, EndDocumentReminder, ReminderComesDue, ListDueReminders,
         TellReminder, DispatcherDies
<1>4. CASE BoxJobsNext
  <2>1. UNCHANGED conversion
    BY <1>4 DEF BoxJobsNext, ocrVars, CreateBoxJob, ClaimBoxJob, ReconcileNext, SkipLayout, StartLayout,
         EndLayout, SaveCursor, EndBatch, WorkerDies, ResumeBoxJob, CancelLayout
  <2>2. SameFiles \/ \E w \in JobWorkers : \E found : EndLayout(w, found)
    BY <1>4 DEF BoxJobsNext, SameFiles, docVars, CreateBoxJob, ClaimBoxJob, ReconcileNext, SkipLayout,
         StartLayout, SaveCursor, EndBatch, WorkerDies, ResumeBoxJob, CancelLayout
  <2> QED BY <2>1, <2>2
<1>5. CASE ExportsNext
  BY <1>5 DEF ExportsNext, SameFiles, ExportsOnly, ocrVars, docVars, CreateExport, StartExport, PackDocument,
         FinishExport, ExportFails, ExportDies, CancelExport
<1>6. CASE AccountsNext
  BY <1>6 DEF AccountsNext, SameFiles, AccountsOnly, ocrVars, docVars, AddTenantMember,
         UpdateTenantMembership, CreateTenantRole, UpdateTenantRole, CheckTenantRole,
         DeleteTenantRole
<1>7. CASE UNCHANGED vars
  BY <1>7 DEF vars, SameFiles, docVars, ocrVars
<1> QED BY <1>1, <1>2, <1>3, <1>4, <1>5, <1>6, <1>7

LEMMA OcrTouchesFiles ==
    ASSUME OcrNext
    PROVE  \/ SameFiles /\ UNCHANGED conversion
           \/ \E j \in Jobs : \E titled, found : OcrSucceeds(j, titled, found)
           \/ \E d : StartOfficeConversion(d) \/ \E later : StartUnsent(d, later)
           \/ \E d \in DOMAIN conversion : ConversionGoesOn(d)
BY DEF OcrNext, SameFiles, docVars, ConversionGoesOn, StartOcr, RestartOcr, TakeOcrJob, MarkOcrRunning,
       ReadForOcr, OcrFails, CancelOcr, OcrDies

\* Which documents exist.
LEMMA ExistenceKept ==
    ASSUME DocsKept
    PROVE  /\ \A d \in Docs : d \in Docs' /\ (~ Exists(d) => ~ Exists(d)')
           /\ \/ \E b : EmptyDocumentSpace(b) /\ UNCHANGED conversion
              \/ \A d : Exists(d) => Exists(d)'
           /\ \A d \in Docs' \ Docs : Exists(d)'
BY DEF DocsKept, Exists, ocrVars

\* Steps that add blobs, and rows of new documents or of converted files.
LEMMA FilesGrow ==
    ASSUME FilesFit, DocsKept, UNCHANGED optimize, purge' \subseteq purge, blob \subseteq blob',
           NEW top \in Nat, \A k \in blob' \ blob : k[3] \in 0 .. top,
           \A d \in Docs : Original(d) \in DOMAIN file' =>
               Original(d) \in DOMAIN file /\ file'[Original(d)] = file[Original(d)]
    PROVE  PurgesKnown' /\ OptimizersFit' /\ KeysBounded'
<1>1. PurgesKnown'
  BY ExistenceKept DEF FilesFit, PurgesKnown
<1>2. KeysBounded'
  <2>1. PICK n \in Nat : /\ \A k \in blob : k[3] \in 0 .. n
                         /\ \A w \in Optimizers : optimize[w].old <= n /\ optimize[w].new <= n
    BY DEF FilesFit, KeysBounded
  <2>2. \A w \in Optimizers : optimize[w].old \in Nat /\ optimize[w].new \in Nat
    BY DEF FilesFit, OptimizersFit, OptimizerShaped
  <2>3. n + top \in Nat /\ \A k \in blob' : k[3] \in 0 .. n + top
    BY <2>1
  <2>4. \A w \in Optimizers : optimize'[w].old <= n + top /\ optimize'[w].new <= n + top
    BY <2>1, <2>2
  <2> QED BY <2>3, <2>4 DEF KeysBounded
<1>3. ASSUME NEW w \in Optimizers
      PROVE  /\ OptimizerShaped(optimize[w])' /\ NoneNewer(optimize[w])'
             /\ OwnFile(w)' /\ NeverBack(optimize[w])'
  <2>1. /\ OptimizerShaped(optimize[w]) /\ NoneNewer(optimize[w]) /\ OwnFile(w)
        /\ NeverBack(optimize[w])
    BY DEF FilesFit, OptimizersFit
  <2>2. OptimizerShaped(optimize[w])'
    BY <2>1, ExistenceKept DEF OptimizerShaped, Original
  <2>3. optimize[w].pc # "idle" /\ optimize[w].row \in DOMAIN file' =>
           optimize[w].row \in DOMAIN file /\ file'[optimize[w].row] = file[optimize[w].row]
    BY <2>1 DEF OptimizerShaped
  <2>4. NoneNewer(optimize[w])'
    BY <2>1, <2>3 DEF NoneNewer, Key
  <2>5. NeverBack(optimize[w])'
    BY <2>1, <2>3 DEF NeverBack
  <2>6. OwnFile(w)'
    BY <2>1, <2>3 DEF OwnFile, Key, Busy
  <2> QED BY <2>2, <2>4, <2>5, <2>6
<1>4. OptimizersFit'
  BY <1>3, Zenon DEF FilesFit, OptimizersFit
<1> QED BY <1>1, <1>2, <1>4

\* Rows stay as they are, and no document that exists goes.
LEMMA RowsStay ==
    ASSUME FilesFit, \A d : Exists(d) => Exists(d)', \A d \in Docs : d \in Docs',
           UNCHANGED file, blob \subseteq blob'
    PROVE  FilesKnown'
BY DEF FilesFit, FilesKnown, DocumentFile, Key

LEMMA ConversionsStay ==
    ASSUME FilesFit, DocsKept, UNCHANGED conversion, blob \subseteq blob'
    PROVE  DerivativesSaved'
<1>1. \A d \in Docs : d \in Docs' /\ (Exists(d)' => Exists(d))
  BY ExistenceKept
<1> QED BY <1>1 DEF FilesFit, DerivativesSaved, Key, Derivative

\* A box is emptied: the rows of its documents go, with their keys in the hands
\* of a callback.
LEMMA EmptyingFits ==
    ASSUME FilesFit, NEW b, EmptyDocumentSpace(b), UNCHANGED conversion
    PROVE  FilesFit'
<1> DEFINE inside == {d \in Docs : Exists(d) /\ doc[d].box = b}
<1>1. /\ doc' = Emptied(inside)
      /\ file' = [r \in {q \in DOMAIN file : q[1] \notin inside} |-> file[r]]
      /\ purge' = purge \cup {KeysOf(inside)}
      /\ UNCHANGED <<blob, optimize>>
  BY DEF EmptyDocumentSpace
<1>2. inside \subseteq Docs
  OBVIOUS
<1> HIDE DEF inside
<1>3. /\ Docs' = Docs
      /\ \A d \in Docs : Exists(d)' <=> Exists(d) /\ d \notin inside
  BY <1>1 DEF Emptied, Docs, Exists
<1>4. DOMAIN file' \subseteq DOMAIN file /\ \A r \in DOMAIN file' : file'[r] = file[r]
  BY <1>1
<1>5. FilesKnown'
  BY <1>1, <1>3, <1>4 DEF FilesFit, FilesKnown, DocumentFile, Exists
<1>6. PurgesKnown'
  <2>1. ASSUME NEW k \in KeysOf(inside) PROVE k[1] \in inside
    BY DEF KeysOf
  <2>2. \A keys \in purge : \A k \in keys : k[1] \in Docs' /\ ~ Exists(k[1])'
    BY <1>3 DEF FilesFit, PurgesKnown
  <2>3. \A k \in KeysOf(inside) : k[1] \in Docs' /\ ~ Exists(k[1])'
    BY <1>2, <1>3, <2>1
  <2> QED BY <1>1, <2>2, <2>3 DEF PurgesKnown
<1>7. DerivativesSaved'
  BY <1>1, <1>3 DEF FilesFit, DerivativesSaved
<1>8. OptimizersFit'
  <2>1. ASSUME NEW w \in Optimizers
        PROVE  /\ OptimizerShaped(optimize[w])' /\ NoneNewer(optimize[w])'
               /\ OwnFile(w)' /\ NeverBack(optimize[w])'
    <3>1. OptimizerShaped(optimize[w]) /\ NoneNewer(optimize[w])
          /\ OwnFile(w) /\ NeverBack(optimize[w])
      BY DEF FilesFit, OptimizersFit
    <3> QED BY <1>1, <1>3, <1>4, <3>1
            DEF OptimizerShaped, NoneNewer, OwnFile, NeverBack, Original, Key, Busy
  <2> QED BY <1>1, <2>1, Zenon DEF FilesFit, OptimizersFit
<1>9. KeysBounded'
  BY <1>1 DEF FilesFit, KeysBounded
<1> QED BY <1>5, <1>6, <1>7, <1>8, <1>9 DEF FilesFit

\* The callback deletes them.
LEMMA PurgingFits ==
    ASSUME FilesFit, NEW keys, DeleteStorageKeys(keys), UNCHANGED conversion
    PROVE  FilesFit'
<1>1. /\ keys \in purge /\ purge' \subseteq purge /\ blob' = blob \ keys
      /\ UNCHANGED <<doc, file, optimize, conversion>>
  BY DEF DeleteStorageKeys
<1>2. Docs' = Docs /\ \A d : Exists(d)' <=> Exists(d)
  BY <1>1 DEF Docs, Exists
<1>3. \A k \in blob : Exists(k[1]) => k \in blob'
  BY <1>1 DEF FilesFit, PurgesKnown
<1>4. FilesKnown'
  BY <1>1, <1>2, <1>3 DEF FilesFit, FilesKnown, DocumentFile, Key
<1>5. PurgesKnown'
  BY <1>1, <1>2 DEF FilesFit, PurgesKnown
<1>6. DerivativesSaved'
  BY <1>1, <1>2, <1>3 DEF FilesFit, DerivativesSaved, Key, Derivative
<1>7. OptimizersFit'
  <2>1. ASSUME NEW w \in Optimizers
        PROVE  /\ OptimizerShaped(optimize[w])' /\ NoneNewer(optimize[w])'
               /\ OwnFile(w)' /\ NeverBack(optimize[w])'
    <3>1. OptimizerShaped(optimize[w]) /\ NoneNewer(optimize[w])
          /\ OwnFile(w) /\ NeverBack(optimize[w])
      BY DEF FilesFit, OptimizersFit
    <3>2. optimize[w].row \in DOMAIN file => Exists(optimize[w].row[1])
      BY DEF FilesFit, FilesKnown
    <3>3. NoneNewer(optimize[w])'
      BY <1>1, <1>3, <3>1, <3>2 DEF NoneNewer, Key
    <3>4. OwnFile(w)'
      BY <1>1, <1>3, <3>1, <3>2 DEF OwnFile, Key, Busy
    <3>5. OptimizerShaped(optimize[w])' /\ NeverBack(optimize[w])'
      BY <1>1, <1>2, <3>1 DEF OptimizerShaped, NeverBack, Original
    <3> QED BY <3>3, <3>4, <3>5
  <2> QED BY <1>1, <2>1, Zenon DEF FilesFit, OptimizersFit
<1>8. KeysBounded'
  BY <1>1 DEF FilesFit, KeysBounded
<1> QED BY <1>4, <1>5, <1>6, <1>7, <1>8 DEF FilesFit

\* Documents are created.
LEMMA CreatingFits ==
    ASSUME FilesFit, DocsKept, \A d : Exists(d) => Exists(d)', FilesCreated,
           UNCHANGED <<optimize, purge, conversion>>
    PROVE  FilesFit'
<1>1. PICK new \in SUBSET (Docs' \ Docs) :
        /\ file' = [r \in DOMAIN file \cup (new \X {"original"}) |->
                        IF r \in DOMAIN file THEN file[r] ELSE 1]
        /\ blob' = blob \cup (new \X {"original"} \X {1})
  BY DEF FilesCreated
<1>2. \A d \in Docs' \ Docs : Exists(d)'
  BY ExistenceKept
<1>3. \A k \in blob' \ blob : k[3] \in 0 .. 1
  BY <1>1
<1>4. \A d \in Docs : Original(d) \in DOMAIN file' =>
         Original(d) \in DOMAIN file /\ file'[Original(d)] = file[Original(d)]
  BY <1>1 DEF Original
<1>5. PurgesKnown' /\ OptimizersFit' /\ KeysBounded'
  <2>1. blob \subseteq blob' /\ purge' \subseteq purge /\ 1 \in Nat
    BY <1>1
  <2> QED BY <1>3, <1>4, <2>1, FilesGrow
<1>6. DerivativesSaved'
  <2>1. blob \subseteq blob'
    BY <1>1
  <2> QED BY <2>1, ConversionsStay
<1>7. FilesKnown'
  <2> SUFFICES ASSUME NEW r \in DOMAIN file'
               PROVE  (/\ r \in DocumentFile /\ Exists(r[1]) /\ file[r] \in Nat
                       /\ Key(r, file[r]) \in blob)'
    BY DEF FilesKnown
  <2>1. CASE r \in DOMAIN file
    <3>1. r \in DocumentFile /\ Exists(r[1]) /\ file[r] \in Nat /\ Key(r, file[r]) \in blob
      BY <2>1 DEF FilesFit, FilesKnown
    <3>2. file'[r] = file[r] /\ blob \subseteq blob'
      BY <1>1, <2>1
    <3>3. Docs \subseteq Docs'
      BY DEF DocsKept
    <3> QED BY <3>1, <3>2, <3>3 DEF DocumentFile, Key
  <2>2. CASE r \notin DOMAIN file
    <3>1. r \in new \X {"original"} /\ file'[r] = 1
      BY <1>1, <2>2
    <3>2. Key(r, 1) \in blob'
      BY <1>1, <3>1 DEF Key
    <3> QED BY <1>2, <3>1, <3>2 DEF DocumentFile, Key
  <2> QED BY <2>1, <2>2
<1> QED BY <1>5, <1>6, <1>7 DEF FilesFit

\* A worker changes its own row of optimize only: the others, and what becomes
\* of documents and conversions.
LEMMA OneOptimizer ==
    ASSUME FilesFit, NEW w \in Optimizers, NEW q, optimize' = [optimize EXCEPT ![w] = q]
    PROVE  /\ optimize' = [v \in Optimizers |-> optimize'[v]]
           /\ optimize'[w] = q
           /\ \A v \in Optimizers \ {w} : optimize'[v] = optimize[v]
           /\ \A v \in Optimizers : /\ OptimizerShaped(optimize[v]) /\ NoneNewer(optimize[v])
                                    /\ OwnFile(v) /\ NeverBack(optimize[v])
BY DEF FilesFit, OptimizersFit

LEMMA DocsNotTouched ==
    ASSUME FilesFit, UNCHANGED <<doc, purge, conversion>>
    PROVE  /\ Docs' = Docs /\ \A d : Exists(d)' <=> Exists(d)
           /\ PurgesKnown'
           /\ (\A d : Key(Derivative(d), 1) \in blob => Key(Derivative(d), 1) \in blob') =>
                 DerivativesSaved'
<1>1. Docs' = Docs /\ \A d : Exists(d)' <=> Exists(d)
  BY DEF Docs, Exists
<1> QED BY <1>1 DEF FilesFit, PurgesKnown, DerivativesSaved

\* A worker is done, or dies.
LEMMA IdleFits ==
    /\ OptimizerShaped(NotOptimizing) /\ NoneNewer(NotOptimizing) /\ NeverBack(NotOptimizing)
    /\ NotOptimizing.pc = "idle" /\ NotOptimizing.old = 0 /\ NotOptimizing.new = 0
BY DEF OptimizerShaped, NoneNewer, NeverBack, NotOptimizing

LEMMA DyingFits ==
    ASSUME FilesFit, NEW w \in Optimizers, OptimizerDies(w), UNCHANGED conversion
    PROVE  FilesFit'
<1>1. /\ optimize' = [optimize EXCEPT ![w] = NotOptimizing]
      /\ UNCHANGED <<doc, file, blob, purge, conversion>>
  BY DEF OptimizerDies
<1>2. /\ optimize' = [v \in Optimizers |-> optimize'[v]]
      /\ optimize'[w] = NotOptimizing
      /\ \A v \in Optimizers \ {w} : optimize'[v] = optimize[v]
      /\ \A v \in Optimizers : /\ OptimizerShaped(optimize[v]) /\ NoneNewer(optimize[v])
                               /\ OwnFile(v) /\ NeverBack(optimize[v])
  BY <1>1, OneOptimizer
<1>3. Docs' = Docs /\ (\A d : Exists(d)' <=> Exists(d)) /\ PurgesKnown' /\ DerivativesSaved'
  BY <1>1, DocsNotTouched DEF Key, Derivative
<1>4. FilesKnown'
  BY <1>1, <1>3 DEF FilesFit, FilesKnown, DocumentFile
<1>5. KeysBounded'
  BY <1>1, <1>2, IdleFits DEF FilesFit, KeysBounded
<1>6. ASSUME NEW v \in Optimizers
      PROVE  /\ OptimizerShaped(optimize[v])' /\ NoneNewer(optimize[v])'
             /\ OwnFile(v)' /\ NeverBack(optimize[v])'
  <2>1. CASE v = w
    BY <1>1, <1>2, <2>1, IdleFits DEF OptimizerShaped, NoneNewer, OwnFile, NeverBack
  <2>2. CASE v # w
    <3>1. OptimizerShaped(optimize[v])' /\ NoneNewer(optimize[v])' /\ NeverBack(optimize[v])'
      BY <1>1, <1>2, <1>3, <2>2 DEF OptimizerShaped, NoneNewer, NeverBack, Original, Key
    <3>2. OwnFile(v)'
      BY <1>1, <1>2, <2>2, IdleFits DEF OwnFile, Key, Busy
    <3> QED BY <3>1, <3>2
  <2> QED BY <2>1, <2>2
<1>7. OptimizersFit'
  BY <1>2, <1>6, Zenon DEF OptimizersFit
<1> QED BY <1>3, <1>4, <1>5, <1>7 DEF FilesFit

\* It reads a file.
LEMMA ReadingFits ==
    ASSUME FilesFit, NEW w \in Optimizers, NEW d \in Docs, OptimizeOne(w, d), UNCHANGED conversion
    PROVE  FilesFit'
<1> DEFINE row == <<d, "original">>
           q == [pc |-> "read", row |-> row, old |-> file[row], new |-> 0]
<1>1. /\ optimize' = [optimize EXCEPT ![w] = q]
      /\ row \in DOMAIN file
      /\ UNCHANGED <<doc, file, blob, purge, conversion>>
  BY DEF OptimizeOne
<1>2. file[row] \in Nat /\ Key(row, file[row]) \in blob /\ row = Original(d)
  BY <1>1 DEF FilesFit, FilesKnown, Original
<1> HIDE DEF row
<1>3. q.pc = "read" /\ q.row = row /\ q.old = file[row] /\ q.new = 0
      /\ DOMAIN q = {"pc", "row", "old", "new"}
  OBVIOUS
<1> HIDE DEF q
<1>4. /\ optimize' = [v \in Optimizers |-> optimize'[v]]
      /\ optimize'[w] = q
      /\ \A v \in Optimizers \ {w} : optimize'[v] = optimize[v]
      /\ \A v \in Optimizers : /\ OptimizerShaped(optimize[v]) /\ NoneNewer(optimize[v])
                               /\ OwnFile(v) /\ NeverBack(optimize[v])
  BY <1>1, OneOptimizer
<1>5. Docs' = Docs /\ (\A e : Exists(e)' <=> Exists(e)) /\ PurgesKnown' /\ DerivativesSaved'
  BY <1>1, DocsNotTouched DEF Key, Derivative
<1>6. FilesKnown'
  BY <1>1, <1>5 DEF FilesFit, FilesKnown, DocumentFile
<1>7. KeysBounded'
  <2>1. PICK n \in Nat : /\ \A k \in blob : k[3] \in 0 .. n
                         /\ \A v \in Optimizers : optimize[v].old <= n /\ optimize[v].new <= n
    BY DEF FilesFit, KeysBounded
  <2>2. file[row] <= n
    BY <1>2, <2>1 DEF Key
  <2>3. \A v \in Optimizers : optimize'[v].old <= n /\ optimize'[v].new <= n
    BY <1>3, <1>4, <2>1, <2>2
  <2> QED BY <1>1, <2>1, <2>3 DEF KeysBounded
<1>8. ASSUME NEW v \in Optimizers
      PROVE  /\ OptimizerShaped(optimize[v])' /\ NoneNewer(optimize[v])'
             /\ OwnFile(v)' /\ NeverBack(optimize[v])'
  <2>1. CASE v = w
    <3>1. OptimizerShaped(optimize[v])'
      BY <1>2, <1>3, <1>4, <1>5, <2>1 DEF OptimizerShaped
    <3>2. NoneNewer(optimize[v])'
      BY <1>1, <1>2, <1>3, <1>4, <2>1 DEF NoneNewer, Key
    <3> QED BY <1>3, <1>4, <2>1, <3>1, <3>2 DEF OwnFile, NeverBack
  <2>2. CASE v # w
    <3>1. OptimizerShaped(optimize[v])' /\ NoneNewer(optimize[v])' /\ NeverBack(optimize[v])'
      BY <1>1, <1>4, <1>5, <2>2 DEF OptimizerShaped, NoneNewer, NeverBack, Original, Key
    <3>2. OptimizerShaped(optimize[v]) /\ OwnFile(v)
      BY <1>4
    <3>3. ASSUME optimize[v].pc = "saved", row = optimize[v].row
          PROVE  optimize[v].new \notin {file[row], 0}
      BY <1>1, <3>2, <3>3 DEF OptimizerShaped, OwnFile
    <3>4. OwnFile(v)'
      BY <1>1, <1>3, <1>4, <2>2, <3>2, <3>3 DEF OwnFile, Key, Busy
    <3> QED BY <3>1, <3>4
  <2> QED BY <2>1, <2>2
<1>9. OptimizersFit'
  BY <1>4, <1>8, Zenon DEF OptimizersFit
<1> QED BY <1>5, <1>6, <1>7, <1>9 DEF FilesFit

\* A bounded set of numbers has a largest one.
LEMMA LargestExists ==
    ASSUME NEW S \in SUBSET Nat, S # {}, NEW top \in Nat, \A x \in S : x <= top
    PROVE  \E m \in S : \A x \in S : x <= m
<1> DEFINE Over == {u \in Nat : \A x \in S : x <= u}
<1>1. top \in Over /\ Over \subseteq Nat
  OBVIOUS
<1>2. PICK m \in Over : \A u \in Over : m <= u
  <2> HIDE DEF Over
  <2> QED BY <1>1, SmallestExists
<1>3. m \in S
  <2> SUFFICES ASSUME m \notin S PROVE FALSE
    OBVIOUS
  <2>1. m \in Nat /\ \A x \in S : x <= m /\ x # m
    BY <1>2
  <2>2. PICK x \in S : TRUE
    OBVIOUS
  <2>3. m > 0
    BY <2>1, <2>2
  <2>4. m - 1 \in Nat /\ \A y \in S : y <= m - 1
    BY <2>1, <2>3
  <2> QED BY <1>2, <2>1, <2>4
<1> QED BY <1>2, <1>3

\* It saves a file under a number that nobody has.
LEMMA SavingFits ==
    ASSUME FilesFit, NEW w \in Optimizers, SaveOptimized(w), UNCHANGED conversion
    PROVE  FilesFit'
<1> DEFINE row == optimize[w].row
           old == optimize[w].old
           taken == {k[3] : k \in blob} \cup {optimize[v].new : v \in Optimizers} \cup {old}
           m == CHOOSE x \in taken : \A k \in taken : k <= x
           n == 1 + m
           q == [optimize[w] EXCEPT !.pc = "saved", !.new = n]
<1>1. /\ optimize[w].pc = "read"
      /\ optimize' = [optimize EXCEPT ![w] = q]
      /\ blob' = blob \cup {Key(row, n)}
      /\ UNCHANGED <<doc, file, purge, conversion>>
  <2>1. /\ optimize[w].pc = "read"
        /\ optimize' = [optimize EXCEPT ![w].pc = "saved", ![w].new = n]
        /\ blob' = blob \cup {Key(row, n)}
        /\ UNCHANGED <<doc, file, purge, conversion>>
    BY Zenon DEF SaveOptimized
  <2> HIDE DEF n
  <2> QED BY <2>1
<1>2. PICK top \in Nat : /\ \A k \in blob : k[3] \in 0 .. top
                         /\ \A v \in Optimizers : optimize[v].old <= top /\ optimize[v].new <= top
  BY DEF FilesFit, KeysBounded
<1>3. \A v \in Optimizers : OptimizerShaped(optimize[v])
  BY DEF FilesFit, OptimizersFit
<1>4. taken \subseteq Nat /\ taken # {} /\ \A x \in taken : x <= top
  BY <1>2, <1>3 DEF OptimizerShaped
<1>5. m \in taken /\ \A x \in taken : x <= m
  <2> HIDE DEF taken
  <2>1. \E x \in taken : \A k \in taken : k <= x
    BY <1>4, LargestExists
  <2> QED BY <2>1
<1>6. /\ n \in Nat /\ n <= top + 1 /\ old < n
      /\ \A k \in blob : k[3] < n
      /\ \A v \in Optimizers : optimize[v].new < n
  <2>1. /\ \A k \in blob : k[3] \in taken
        /\ \A v \in Optimizers : optimize[v].new \in taken
        /\ old \in taken
    OBVIOUS
  <2> HIDE DEF m, taken
  <2>2. m \in Nat /\ m <= top
    BY <1>4, <1>5
  <2>3. \A x \in taken : x \in Nat /\ x < 1 + m
    BY <1>4, <1>5, <2>2
  <2> QED BY <2>1, <2>2, <2>3
<1> HIDE DEF n
<1>7. DOMAIN q = {"pc", "row", "old", "new"} /\ q.pc = "saved" /\ q.row = row /\ q.old = old
      /\ q.new = n
  BY <1>3 DEF OptimizerShaped
<1> HIDE DEF q
<1>8. /\ optimize' = [v \in Optimizers |-> optimize'[v]]
      /\ optimize'[w] = q
      /\ \A v \in Optimizers \ {w} : optimize'[v] = optimize[v]
      /\ \A v \in Optimizers : /\ OptimizerShaped(optimize[v]) /\ NoneNewer(optimize[v])
                               /\ OwnFile(v) /\ NeverBack(optimize[v])
  BY <1>1, OneOptimizer
<1>9. Docs' = Docs /\ (\A e : Exists(e)' <=> Exists(e)) /\ PurgesKnown' /\ DerivativesSaved'
  BY <1>1, DocsNotTouched
<1>10. FilesKnown'
  BY <1>1, <1>9 DEF FilesFit, FilesKnown, DocumentFile, Key
<1>11. KeysBounded'
  <2>1. top + 1 \in Nat /\ \A k \in blob' : k[3] \in 0 .. top + 1
    BY <1>1, <1>2, <1>6 DEF Key
  <2>2. \A v \in Optimizers : optimize'[v].old <= top + 1 /\ optimize'[v].new <= top + 1
    BY <1>2, <1>3, <1>6, <1>7, <1>8 DEF OptimizerShaped
  <2> QED BY <2>1, <2>2 DEF KeysBounded
<1>12. ASSUME NEW v \in Optimizers
       PROVE  /\ OptimizerShaped(optimize[v])' /\ NoneNewer(optimize[v])'
              /\ OwnFile(v)' /\ NeverBack(optimize[v])'
  <2>1. CASE v = w
    <3>1. OptimizerShaped(optimize[v])'
      BY <1>1, <1>3, <1>6, <1>7, <1>8, <1>9, <2>1 DEF OptimizerShaped
    <3>2. NoneNewer(optimize[v])'
      <4>1. Key(row, n) \in blob' /\ Key(row, n)[3] = n /\ old <= n /\ n <= n
        BY <1>1, <1>3, <1>6 DEF Key, OptimizerShaped
      <4> QED BY <1>7, <1>8, <2>1, <4>1 DEF NoneNewer
    <3>3. ASSUME row \in DOMAIN file PROVE Key(row, n) \in blob' /\ file[row] # n
      <4>1. Key(row, file[row]) \in blob /\ file[row] \in Nat
        BY <3>3 DEF FilesFit, FilesKnown
      <4>2. file[row] < n
        BY <1>6, <4>1 DEF Key
      <4> QED BY <1>1, <1>6, <4>1, <4>2
    <3>4. ASSUME NEW u \in Optimizers \ {w}, row \in DOMAIN file, Busy(u), optimize[u].row = row
          PROVE  n \notin {optimize[u].old, optimize[u].new}
      <4>1. PICK k \in blob : optimize[u].old <= k[3]
        BY <1>8, <3>4 DEF NoneNewer, Busy
      <4>2. optimize[u].old \in Nat /\ optimize[u].new \in Nat /\ k[3] \in Nat
        BY <1>2, <1>3, <4>1 DEF OptimizerShaped
      <4> QED BY <1>6, <4>1, <4>2
    <3>5. OwnFile(v)'
      BY <1>1, <1>7, <1>8, <2>1, <3>3, <3>4 DEF OwnFile, Busy, Key
    <3>6. NeverBack(optimize[v])'
      BY <1>7, <1>8, <2>1 DEF NeverBack
    <3> QED BY <3>1, <3>2, <3>5, <3>6
  <2>2. CASE v # w
    <3>1. OptimizerShaped(optimize[v])' /\ NoneNewer(optimize[v])' /\ NeverBack(optimize[v])'
      BY <1>1, <1>8, <1>9, <2>2 DEF OptimizerShaped, NoneNewer, NeverBack, Original, Key
    <3>2. OptimizerShaped(optimize[v]) /\ OwnFile(v) /\ optimize[v].new < n /\ Busy(w)
      BY <1>1, <1>6, <1>8 DEF Busy
    <3>3. optimize[v].new # n
      BY <1>6, <3>2 DEF OptimizerShaped
    <3>4. OwnFile(v)'
      BY <1>1, <1>7, <1>8, <2>2, <3>2, <3>3 DEF OwnFile, Key, Busy
    <3> QED BY <3>1, <3>4
  <2> QED BY <2>1, <2>2
<1>13. OptimizersFit'
  BY <1>8, <1>12, Zenon DEF OptimizersFit
<1> QED BY <1>9, <1>10, <1>11, <1>13 DEF FilesFit

\* The row gets it.
LEMMA ReplacingFits ==
    ASSUME FilesFit, NEW w \in Optimizers, ReplaceStorage(w), UNCHANGED conversion
    PROVE  FilesFit'
<1> DEFINE row == optimize[w].row
           q == [optimize[w] EXCEPT !.pc = "replaced"]
<1>1. /\ optimize[w].pc = "saved"
      /\ optimize' = [optimize EXCEPT ![w] = q]
      /\ file' = IF row \in DOMAIN file THEN [file EXCEPT ![row] = optimize[w].new] ELSE file
      /\ UNCHANGED <<doc, blob, purge, conversion>>
  BY DEF ReplaceStorage
<1>2. \A v \in Optimizers : OptimizerShaped(optimize[v])
  BY DEF FilesFit, OptimizersFit
<1>3. DOMAIN q = {"pc", "row", "old", "new"} /\ q.pc = "replaced" /\ q.row = row
      /\ q.old = optimize[w].old /\ q.new = optimize[w].new
  BY <1>2 DEF OptimizerShaped
<1> HIDE DEF q
<1>4. /\ optimize' = [v \in Optimizers |-> optimize'[v]]
      /\ optimize'[w] = q
      /\ \A v \in Optimizers \ {w} : optimize'[v] = optimize[v]
      /\ \A v \in Optimizers : /\ OptimizerShaped(optimize[v]) /\ NoneNewer(optimize[v])
                               /\ OwnFile(v) /\ NeverBack(optimize[v])
  BY <1>1, OneOptimizer
<1>5. Docs' = Docs /\ (\A e : Exists(e)' <=> Exists(e)) /\ PurgesKnown' /\ DerivativesSaved'
  BY <1>1, DocsNotTouched
<1>6. /\ DOMAIN file' = DOMAIN file
      /\ row \in DOMAIN file => file'[row] = optimize[w].new
      /\ \A r \in DOMAIN file \ {row} : file'[r] = file[r]
  BY <1>1
<1>7. row \in DOMAIN file => Key(row, optimize[w].new) \in blob
  BY <1>1, <1>4 DEF OwnFile
<1>8. FilesKnown'
  <2> SUFFICES ASSUME NEW r \in DOMAIN file
               PROVE  /\ r \in DocumentFile /\ Exists(r[1])
                      /\ file'[r] \in Nat /\ Key(r, file'[r]) \in blob
    BY <1>1, <1>5, <1>6 DEF FilesKnown, DocumentFile, Key
  <2>1. optimize[w].new \in Nat
    BY <1>2 DEF OptimizerShaped
  <2> QED BY <1>6, <1>7, <2>1 DEF FilesFit, FilesKnown
<1>9. KeysBounded'
  BY <1>1, <1>3, <1>4 DEF FilesFit, KeysBounded
<1>10. ASSUME NEW v \in Optimizers
       PROVE  /\ OptimizerShaped(optimize[v])' /\ NoneNewer(optimize[v])'
              /\ OwnFile(v)' /\ NeverBack(optimize[v])'
  <2>1. OptimizerShaped(optimize[v])' /\ NoneNewer(optimize[v])'
    BY <1>1, <1>3, <1>4, <1>5, <1>6 DEF OptimizerShaped, NoneNewer, Original, Key
  <2>2. CASE v = w
    <3>1. optimize[w].new # optimize[w].old
      BY <1>1, <1>2 DEF OptimizerShaped
    <3>2. NeverBack(optimize[v])'
      BY <1>3, <1>4, <1>6, <2>2, <3>1 DEF NeverBack
    <3>3. OwnFile(v)'
      BY <1>3, <1>4, <2>2 DEF OwnFile
    <3> QED BY <2>1, <3>2, <3>3
  <2>3. CASE v # w
    <3>1. OwnFile(v) /\ OwnFile(w) /\ NeverBack(optimize[v]) /\ Busy(w)
      BY <1>1, <1>4 DEF Busy
    <3>2. NeverBack(optimize[v])'
      BY <1>1, <1>4, <1>6, <2>3, <3>1 DEF NeverBack, OwnFile, Busy
    <3>3. OwnFile(v)'
      BY <1>1, <1>3, <1>4, <1>6, <2>3, <3>1 DEF OwnFile, Busy, Key
    <3> QED BY <2>1, <3>2, <3>3
  <2> QED BY <2>2, <2>3
<1>11. OptimizersFit'
  BY <1>4, <1>10, Zenon DEF OptimizersFit
<1> QED BY <1>5, <1>8, <1>9, <1>11 DEF FilesFit

\* The old file goes.
LEMMA DeletingFits ==
    ASSUME FilesFit, NEW w \in Optimizers, DeleteOldKey(w), UNCHANGED conversion
    PROVE  FilesFit'
<1> DEFINE row == optimize[w].row
           old == optimize[w].old
<1>1. /\ optimize[w].pc = "replaced"
      /\ optimize' = [optimize EXCEPT ![w] = NotOptimizing]
      /\ blob' = blob \ {Key(row, old)}
      /\ UNCHANGED <<doc, file, purge, conversion>>
  BY DEF DeleteOldKey, OldKey
<1>2. /\ optimize' = [v \in Optimizers |-> optimize'[v]]
      /\ optimize'[w] = NotOptimizing
      /\ \A v \in Optimizers \ {w} : optimize'[v] = optimize[v]
      /\ \A v \in Optimizers : /\ OptimizerShaped(optimize[v]) /\ NoneNewer(optimize[v])
                               /\ OwnFile(v) /\ NeverBack(optimize[v])
  BY <1>1, OneOptimizer
<1>3. PICK e \in Docs : row = <<e, "original">>
  BY <1>1, <1>2 DEF OptimizerShaped, Original
<1>4. Docs' = Docs /\ (\A d : Exists(d)' <=> Exists(d)) /\ PurgesKnown' /\ DerivativesSaved'
  <2>1. \A d : Key(Derivative(d), 1) # Key(row, old)
    BY <1>3 DEF Key, Derivative
  <2> QED BY <1>1, <2>1, DocsNotTouched
<1>5. row \in DOMAIN file => file[row] # old
  BY <1>1, <1>2 DEF NeverBack
<1>6. FilesKnown'
  <2>1. ASSUME NEW r \in DOMAIN file PROVE Key(r, file[r]) # Key(row, old)
    <3>1. r = <<r[1], r[2]>>
      BY DEF FilesFit, FilesKnown, DocumentFile
    <3>2. CASE r = row
      BY <1>5, <3>2 DEF Key
    <3>3. CASE r # row
      <4>1. r[1] # row[1] \/ r[2] # row[2]
        BY <1>3, <3>1, <3>3
      <4> QED BY <4>1 DEF Key
    <3> QED BY <3>2, <3>3
  <2> QED BY <1>1, <1>4, <2>1 DEF FilesFit, FilesKnown, DocumentFile, Key
<1>7. KeysBounded'
  BY <1>1, <1>2, IdleFits DEF FilesFit, KeysBounded
<1>8. ASSUME NEW v \in Optimizers
      PROVE  /\ OptimizerShaped(optimize[v])' /\ NoneNewer(optimize[v])'
             /\ OwnFile(v)' /\ NeverBack(optimize[v])'
  <2>1. CASE v = w
    BY <1>1, <1>2, <2>1, IdleFits DEF OptimizerShaped, NoneNewer, OwnFile, NeverBack
  <2>2. CASE v # w
    <3>1. OptimizerShaped(optimize[v])' /\ NeverBack(optimize[v])'
      BY <1>1, <1>2, <1>4, <2>2 DEF OptimizerShaped, NeverBack, Original
    <3>2. ASSUME Busy(v), optimize[v].row \in DOMAIN file
          PROVE  \E k \in blob' : /\ k = Key(optimize[v].row, k[3])
                                  /\ optimize[v].old <= k[3] /\ optimize[v].new <= k[3]
      <4>1. PICK k \in blob : /\ k = Key(optimize[v].row, k[3])
                              /\ optimize[v].old <= k[3] /\ optimize[v].new <= k[3]
        BY <1>2, <3>2 DEF NoneNewer, Busy
      <4>2. CASE k # Key(row, old)
        BY <1>1, <4>1, <4>2
      <4>3. CASE k = Key(row, old)
        <5>1. optimize[v].row = row /\ k[3] = old
          <6>1. \E d \in Docs : optimize[v].row = <<d, "original">>
            BY <1>2, <3>2 DEF OptimizerShaped, Original, Busy
          <6> QED BY <1>3, <4>1, <4>3, <6>1 DEF Key
        <5>2. PICK x \in blob : /\ x = Key(row, x[3])
                                /\ optimize[w].old <= x[3] /\ optimize[w].new <= x[3]
          BY <1>1, <1>2, <3>2, <5>1 DEF NoneNewer
        <5>3. /\ old < optimize[w].new /\ old \in Nat /\ optimize[w].new \in Nat /\ x[3] \in Nat
              /\ optimize[v].old \in Nat /\ optimize[v].new \in Nat
          BY <1>1, <1>2, <5>2 DEF OptimizerShaped, FilesFit, KeysBounded
        <5>4. x[3] # old /\ optimize[v].old <= x[3] /\ optimize[v].new <= x[3]
          BY <4>1, <5>1, <5>2, <5>3
        <5>5. x # Key(row, old)
          BY <5>4 DEF Key
        <5> QED BY <1>1, <5>1, <5>2, <5>4, <5>5
      <4> QED BY <4>2, <4>3
    <3>3. NoneNewer(optimize[v])'
      BY <1>1, <1>2, <2>2, <3>2 DEF NoneNewer, Busy, Key
    <3>4. OwnFile(v)'
      <4>1. ASSUME optimize[v].pc = "saved", optimize[v].row \in DOMAIN file
            PROVE  Key(optimize[v].row, optimize[v].new) # Key(row, old)
        <5>1. \E d \in Docs : optimize[v].row = <<d, "original">>
          BY <1>2, <4>1 DEF OptimizerShaped, Original
        <5>2. optimize[v].row = row => optimize[v].new # old
          BY <1>1, <1>2, <2>2, <4>1 DEF OwnFile, Busy
        <5> QED BY <1>3, <5>1, <5>2 DEF Key
      <4> QED BY <1>1, <1>2, <2>2, <4>1, IdleFits DEF OwnFile, Key, Busy
    <3> QED BY <3>1, <3>3, <3>4
  <2> QED BY <2>1, <2>2
<1>9. OptimizersFit'
  BY <1>2, <1>8, Zenon DEF OptimizersFit
<1> QED BY <1>4, <1>6, <1>7, <1>9 DEF FilesFit

\* What adds a blob and changes no row of a file.
LEMMA BlobAddedFits ==
    ASSUME FilesFit, DocsKept, \A d : Exists(d) => Exists(d)',
           UNCHANGED <<file, optimize>>, purge' \subseteq purge,
           NEW top \in Nat, blob \subseteq blob', \A k \in blob' \ blob : k[3] \in 0 .. top
    PROVE  FilesKnown' /\ PurgesKnown' /\ OptimizersFit' /\ KeysBounded'
<1>1. \A d \in Docs : d \in Docs'
  BY DEF DocsKept
<1>2. FilesKnown'
  BY <1>1, RowsStay
<1>3. \A d \in Docs : Original(d) \in DOMAIN file' =>
         Original(d) \in DOMAIN file /\ file'[Original(d)] = file[Original(d)]
  OBVIOUS
<1> QED BY <1>2, <1>3, FilesGrow

LEMMA SameBlobsFit ==
    ASSUME FilesFit, DocsKept, \A d : Exists(d) => Exists(d)',
           UNCHANGED <<file, optimize, blob>>, purge' \subseteq purge
    PROVE  FilesKnown' /\ PurgesKnown' /\ OptimizersFit' /\ KeysBounded'
<1>1. blob \subseteq blob' /\ \A k \in blob' \ blob : k[3] \in 0 .. 0
  OBVIOUS
<1>2. 0 \in Nat
  OBVIOUS
<1> QED BY <1>1, <1>2, BlobAddedFits

\* OCR saves a layout, or does not.
LEMMA LayoutFits ==
    ASSUME FilesFit, DocsKept, \A d : Exists(d) => Exists(d)',
           UNCHANGED <<file, optimize, purge, conversion>>, NEW d, NEW j \in Nat,
           blob' = blob \cup {Key(<<d, "layout">>, j)} \/ blob' = blob
    PROVE  FilesFit'
<1>1. blob \subseteq blob' /\ \A k \in blob' \ blob : k[3] \in 0 .. j
  BY DEF Key
<1>2. purge' \subseteq purge
  OBVIOUS
<1> QED BY <1>1, <1>2, BlobAddedFits, ConversionsStay DEF FilesFit

\* A conversion goes on, and saves a file ...
LEMMA ConversionFits ==
    ASSUME FilesFit, DocsKept, \A d : Exists(d) => Exists(d)',
           NEW d \in DOMAIN conversion, ConversionGoesOn(d)
    PROVE  FilesFit'
<1>1. \A e \in Docs : e \in Docs' /\ (Exists(e)' => Exists(e))
  BY ExistenceKept
<1>2. ASSUME NEW step, NEW status, ConversionGoes(d, step, status), step # "saved",
             blob \subseteq blob'
      PROVE  DerivativesSaved'
  <2>1. \A e \in DOMAIN conversion' :
           e \in DOMAIN conversion /\ (e # d => conversion'[e] = conversion[e])
    BY <1>2 DEF ConversionGoes
  <2>2. conversion'[d].step # "saved"
    BY <1>2 DEF ConversionGoes
  <2> QED BY <1>1, <1>2, <2>1, <2>2 DEF FilesFit, DerivativesSaved, Key, Derivative
<1>3. ASSUME NEW step, NEW status, ConversionGoes(d, step, status),
             step # "saved" \/ step = conversion[d].step, UNCHANGED <<file, blob, optimize, purge>>
      PROVE  FilesFit'
  <2>1. FilesKnown' /\ PurgesKnown' /\ OptimizersFit' /\ KeysBounded'
    BY <1>3, SameBlobsFit
  <2>2. CASE step # "saved"
    BY <1>2, <1>3, <2>1, <2>2 DEF FilesFit
  <2>3. CASE step = conversion[d].step
    <3>1. \A e \in DOMAIN conversion' :
             e \in DOMAIN conversion /\ conversion'[e].step = conversion[e].step
      BY <1>3, <2>3 DEF ConversionGoes
    <3>2. DerivativesSaved'
      BY <1>1, <1>3, <3>1 DEF FilesFit, DerivativesSaved, Key, Derivative
    <3> QED BY <2>1, <3>2 DEF FilesFit
  <2> QED BY <1>3, <2>2, <2>3
<1>4. CASE \/ RunOfficeConversion(d) \/ ConversionSucceeds(d) \/ ConversionFails(d)
           \/ \E killed : CancelConversion(d, killed)
  BY <1>3, <1>4
     DEF RunOfficeConversion, ConversionSucceeds, ConversionFails, CancelConversion, docVars
<1>5. CASE SaveDerivative(d)
  <2>1. /\ Exists(d) /\ ConversionGoes(d, "saved", conversion[d].status)
        /\ blob' = blob \cup {Key(Derivative(d), 1)}
        /\ UNCHANGED <<file, optimize, purge>>
    BY <1>5 DEF SaveDerivative
  <2>2. FilesKnown' /\ PurgesKnown' /\ OptimizersFit' /\ KeysBounded'
    <3>1. blob \subseteq blob' /\ \A k \in blob' \ blob : k[3] \in 0 .. 1
      BY <2>1 DEF Key
    <3>2. 1 \in Nat /\ purge' \subseteq purge
      BY <2>1
    <3> QED BY <2>1, <3>1, <3>2, BlobAddedFits
  <2>3. DerivativesSaved'
    <3>1. \A e \in DOMAIN conversion' :
             e \in DOMAIN conversion /\ (e # d => conversion'[e] = conversion[e])
      BY <2>1 DEF ConversionGoes
    <3>2. d \in Docs' /\ Key(Derivative(d), 1) \in blob'
      BY <1>1, <2>1 DEF Exists
    <3> QED BY <1>1, <2>1, <3>1, <3>2 DEF FilesFit, DerivativesSaved, Key, Derivative
  <2> QED BY <2>2, <2>3 DEF FilesFit
<1>6. CASE StoreDerivative(d)
  <2>1. CASE ~ Exists(d)
    <3>1. /\ ConversionGoes(d, "done", conversion[d].status)
          /\ UNCHANGED <<file, blob, optimize, purge>>
      BY <1>6, <2>1 DEF StoreDerivative
    <3> QED BY <1>3, <3>1
  <2>2. CASE Exists(d)
    <3>1. /\ conversion[d].step = "saved" /\ ConversionGoes(d, "stored", conversion[d].status)
          /\ file' = Upsert(file, Derivative(d), 1)
          /\ UNCHANGED <<blob, optimize, purge>>
      BY <1>6, <2>2 DEF StoreDerivative
    <3>2. Key(Derivative(d), 1) \in blob /\ d \in Docs
      BY <2>2, <3>1 DEF FilesFit, DerivativesSaved
    <3>3. DerivativesSaved'
      BY <1>2, <3>1
    <3>4. PurgesKnown' /\ OptimizersFit' /\ KeysBounded'
      <4>1. \A e \in Docs : Original(e) \in DOMAIN file' =>
               Original(e) \in DOMAIN file /\ file'[Original(e)] = file[Original(e)]
        BY <3>1 DEF Upsert, Original, Derivative
      <4>2. blob \subseteq blob' /\ \A k \in blob' \ blob : k[3] \in 0 .. 0
        BY <3>1
      <4>3. 0 \in Nat /\ purge' \subseteq purge
        BY <3>1
      <4> QED BY <3>1, <4>1, <4>2, <4>3, FilesGrow
    <3>5. FilesKnown'
      <4>1. /\ DOMAIN file' = DOMAIN file \cup {Derivative(d)}
            /\ file'[Derivative(d)] = 1
            /\ \A r \in DOMAIN file \ {Derivative(d)} : file'[r] = file[r]
        BY <3>1 DEF Upsert
      <4>2. Derivative(d) \in DocumentFile' /\ Derivative(d)[1] = d /\ Exists(d)'
        BY <1>1, <2>2, <3>2 DEF Derivative, DocumentFile
      <4>3. Docs \subseteq Docs'
        BY DEF DocsKept
      <4>4. ASSUME NEW r \in DOMAIN file'
            PROVE  r \in DocumentFile' /\ Exists(r[1])' /\ file'[r] \in Nat /\ Key(r, file'[r]) \in blob'
        <5>1. CASE r = Derivative(d)
          BY <3>1, <3>2, <4>1, <4>2, <5>1
        <5>2. CASE r # Derivative(d)
          BY <3>1, <4>1, <4>3, <5>2 DEF FilesFit, FilesKnown, DocumentFile
        <5> QED BY <5>1, <5>2
      <4> QED BY <4>4 DEF FilesKnown, Key
    <3> QED BY <3>3, <3>4, <3>5 DEF FilesFit
  <2> QED BY <2>1, <2>2
<1> QED BY <1>4, <1>5, <1>6 DEF ConversionGoesOn

\* ... or starts.
LEMMA StartedConversionFits ==
    ASSUME FilesFit, DocsKept, \A d : Exists(d) => Exists(d)', NEW d,
           StartOfficeConversion(d) \/ \E later : StartUnsent(d, later)
    PROVE  FilesFit'
<1>1. UNCHANGED <<file, blob, optimize, purge>>
  BY DEF StartOfficeConversion, StartUnsent
<1>2. FilesKnown' /\ PurgesKnown' /\ OptimizersFit' /\ KeysBounded'
  BY <1>1, SameBlobsFit
<1>3. ASSUME NEW e \in DOMAIN conversion', conversion'[e].step = "saved"
      PROVE  e \in DOMAIN conversion /\ conversion[e].step = "saved"
  <2>1. \/ conversion' = conversion
        \/ \E step \in {"queued", "done"} :
              conversion' = Upsert(conversion, d, [status |-> "pending", step |-> step])
    BY DEF StartOfficeConversion, StartUnsent
  <2> QED BY <1>3, <2>1 DEF Upsert
<1>4. \A e \in Docs : e \in Docs' /\ (Exists(e)' => Exists(e))
  BY ExistenceKept
<1>5. DerivativesSaved'
  BY <1>1, <1>3, <1>4 DEF FilesFit, DerivativesSaved, Key, Derivative
<1> QED BY <1>2, <1>5 DEF FilesFit

\* Files fit at first ...
LEMMA FilesFitAtFirst == ASSUME Init PROVE FilesFit
<1>1. /\ doc = bound.first /\ bound \in Bounds /\ purge = {} /\ conversion = << >>
      /\ file = [r \in Docs \X {"original"} |-> 1]
      /\ blob = Docs \X {"original"} \X {1}
      /\ optimize = [w \in Optimizers |-> NotOptimizing]
  BY DEF Init, DocumentsInit, OcrInit
<1>2. \A d \in Docs : Exists(d)
  <2> DEFINE Rows1 == [status : {"active", "deleted"}, box : DOMAIN FirstBoxes,
                       type : {"pdf", "office"}, title : {"manual", "filename", "ocr", "einvoice"},
                       meta : [ToSet(Fields) -> Values], rev : {0}]
  <2>1. doc \in Seq(Rows1)
    BY <1>1, LinksAssumption DEF LinksAssumption
  <2>2. \A row \in Rows1 : row.status # "purged"
    OBVIOUS
  <2> HIDE DEF Rows1
  <2>3. \A d \in Docs : doc[d] \in Rows1
    BY <2>1 DEF Docs
  <2> QED BY <2>2, <2>3 DEF Exists
<1>3. FilesKnown
  BY <1>1, <1>2 DEF FilesKnown, DocumentFile, Key
<1>4. PurgesKnown /\ DerivativesSaved
  BY <1>1 DEF PurgesKnown, DerivativesSaved
<1>5. OptimizersFit
  BY <1>1, IdleFits DEF OptimizersFit, OwnFile
<1>6. KeysBounded
  <2>1. 1 \in Nat /\ \A k \in blob : k[3] \in 0 .. 1
    BY <1>1
  <2>2. \A w \in Optimizers : optimize[w].old <= 1 /\ optimize[w].new <= 1
    BY <1>1, IdleFits
  <2> QED BY <2>1, <2>2 DEF KeysBounded
<1> QED BY <1>3, <1>4, <1>5, <1>6 DEF FilesFit

\* ... and with every step.
LEMMA FilesStayFit ==
    ASSUME Shaped, FilesFit, [Next]_vars
    PROVE  FilesFit'
<1>1. DocsKept
  BY StaysShaped
<1>2. CASE \E b : EmptyDocumentSpace(b) /\ UNCHANGED conversion
  BY <1>2, EmptyingFits
<1>3. CASE ~ \E b : EmptyDocumentSpace(b) /\ UNCHANGED conversion
  <2>1. \A d : Exists(d) => Exists(d)'
    BY <1>1, <1>3, ExistenceKept
  <2>2. CASE SameFiles /\ UNCHANGED conversion
    BY <1>1, <2>1, <2>2, SameBlobsFit, ConversionsStay DEF SameFiles, FilesFit
  <2>3. CASE CreatesDocs /\ UNCHANGED conversion
    <3>1. FilesCreated
      BY <2>3, FilesComeWithDocs DEF Shaped, CreatedWell
    <3>2. UNCHANGED <<optimize, purge>>
      BY <2>3 DEF CreatesDocs, UploadDocument, ImportIntoBox, SplitDocument, MergeDocuments,
                  UploadInvoice
    <3> QED BY <1>1, <2>1, <2>3, <3>1, <3>2, CreatingFits
  <2>4. ASSUME NEW keys, DeleteStorageKeys(keys), UNCHANGED conversion PROVE FilesFit'
    BY <2>4, PurgingFits
  <2>5. ASSUME NEW keys, PurgeLost(keys), UNCHANGED conversion PROVE FilesFit'
    <3>1. UNCHANGED <<file, optimize, blob>> /\ purge' \subseteq purge
      BY <2>5 DEF PurgeLost
    <3> QED BY <1>1, <2>1, <2>5, <3>1, SameBlobsFit, ConversionsStay DEF FilesFit
  <2>6. ASSUME NEW w \in Optimizers, OptimizerGoes(w), UNCHANGED conversion PROVE FilesFit'
    BY <2>6, ReadingFits, SavingFits, ReplacingFits, DeletingFits, DyingFits DEF OptimizerGoes
  <2>7. ASSUME NEW j \in Jobs, NEW titled, NEW found, OcrSucceeds(j, titled, found) PROVE FilesFit'
    <3>1. /\ UNCHANGED <<file, optimize, purge, conversion>>
          /\ blob' = blob \cup {Key(<<ocr[j].doc, "layout">>, j)}
      BY <2>7 DEF OcrSucceeds
    <3>2. j \in Nat
      BY DEF Shaped, OcrShaped, Jobs
    <3> QED BY <1>1, <2>1, <3>1, <3>2, LayoutFits
  <2>8. ASSUME NEW w \in JobWorkers, NEW found, EndLayout(w, found) PROVE FilesFit'
    <3> DEFINE j == worker[w].ocr
               d == ocr[j].doc
    <3>1. /\ UNCHANGED <<file, optimize, purge, conversion>>
          /\ blob' = blob \cup {Key(<<d, "layout">>, j)} \/ blob' = blob
      BY <2>8 DEF EndLayout
    <3>2. j \in Nat
      BY DEF Shaped, BoxJobsShaped, WorkerShaped
    <3> HIDE DEF j, d
    <3> QED BY <1>1, <2>1, <3>1, <3>2, LayoutFits
  <2>9. ASSUME NEW d, StartOfficeConversion(d) \/ \E later : StartUnsent(d, later)
       PROVE  FilesFit'
    BY <1>1, <2>1, <2>9, StartedConversionFits
  <2>10. ASSUME NEW d \in DOMAIN conversion, ConversionGoesOn(d) PROVE FilesFit'
    BY <1>1, <2>1, <2>10, ConversionFits
  <2>11. CASE DocumentsNext
    BY <1>3, <2>2, <2>3, <2>4, <2>5, <2>6, <2>11, RequestsTouchFiles
  <2>12. CASE OcrNext
    BY <2>2, <2>7, <2>9, <2>10, <2>12, OcrTouchesFiles
  <2>13. CASE ~ DocumentsNext /\ ~ OcrNext
    <3>1. \/ TitleRulesNext \/ LinksNext \/ NoticesNext \/ BoxJobsNext \/ ExportsNext
          \/ AccountsNext \/ UNCHANGED vars
      BY <2>13 DEF Next
    <3> QED BY <2>2, <2>3, <2>8, <3>1, OthersTouchFiles
  <2> QED BY <2>11, <2>12, <2>13
<1> QED BY <1>2, <1>3

\* Every file row has its blob, at any number of documents, workers and keys:
\* a worker deletes only the file that it has read, and no row goes back to it;
\* nobody else knows the file that it has saved; what callbacks delete belonged
\* to documents that are gone.
THEOREM RowsAlwaysHaveBlobs == Spec => []RowHasBlob
<1>1. Init => Shaped /\ FilesFit
  BY ShapedAtFirst, FilesFitAtFirst
<1>2. Shaped /\ FilesFit /\ [Next]_vars => (Shaped /\ FilesFit)'
  BY StaysShaped, FilesStayFit
<1>3. FilesFit => RowHasBlob
  BY DEF FilesFit, FilesKnown, RowHasBlob
<1> QED BY <1>1, <1>2, <1>3, PTL DEF Spec

=============================================================================

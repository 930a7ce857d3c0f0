--------------------------- MODULE ChangesProofs ---------------------------
(***************************************************************************)
(* Theorems about what follows from changes of documents: what a person    *)
(* related or wrote stays, a link that a field made is between documents   *)
(* with the same value, search entries and alarms catch up with the last   *)
(* change, and the jobs of a box pass over no document.                    *)
(***************************************************************************)
EXTENDS DocumentsProofs

-----------------------------------------------------------------------------
(***************************************************************************)
(* The operators that relate documents.                                    *)
(***************************************************************************)

\* The fields of a box are finitely many.
LEMMA FieldsAreFinite ==
    ASSUME NEW fs \in SUBSET ToSet(Fields)
    PROVE  IsFiniteSet(fs) /\ Cardinality(fs) \in Nat
<1>1. Len(Fields) \in Nat /\ DOMAIN Fields = 1 .. Len(Fields)
  BY LinksAssumption DEF LinksAssumption
<1>2. IsFiniteSet(1 .. Len(Fields))
  BY <1>1, FS_Interval
<1>3. Fields \in Surjection(1 .. Len(Fields), ToSet(Fields))
  BY <1>1, LinksAssumption DEF LinksAssumption, Surjection, ToSet
<1>4. IsFiniteSet(ToSet(Fields))
  BY <1>2, <1>3, FS_Surjection
<1> QED BY <1>4, FS_Subset, FS_CardinalityType

\* With one field after the other: LinkedByAll is what its equation says.
LEMMA LinkedByEach ==
    ASSUME NEW rel, NEW docs, NEW d, NEW row, NEW fs, Len(fs) \in Nat
    PROVE  /\ LinkedByAll(rel, docs, d, row, fs)[0] = rel
           /\ \A n \in 1 .. Len(fs) :
                 LinkedByAll(rel, docs, d, row, fs)[n] =
                    Linked(LinkedByAll(rel, docs, d, row, fs)[n - 1], docs, d, row, fs[n])
<1> DEFINE Step(g, n) == IF n = 0 THEN rel ELSE Linked(g[n - 1], docs, d, row, fs[n])
           Solved(g, k) == /\ g = [n \in 0 .. k |-> g[n]]
                           /\ \A n \in 0 .. k : g[n] = Step(g, n)
           Unsolved == {k \in Nat : \A g : ~ Solved(g, k)}
<1>1. Unsolved = {}
  <2> SUFFICES ASSUME Unsolved # {} PROVE FALSE
    OBVIOUS
  <2>1. PICK k \in Unsolved : \A n \in Unsolved : k <= n
    <3> HIDE DEF Unsolved
    <3>1. Unsolved \subseteq Nat
      BY DEF Unsolved
    <3> QED BY <3>1, SmallestExists
  <2>2. k \in Nat /\ \A g : ~ Solved(g, k)
    BY <2>1
  <2>3. CASE k = 0
    <3>1. Solved([n \in 0 .. 0 |-> rel], 0)
      OBVIOUS
    <3> HIDE DEF Solved
    <3> QED BY <2>2, <2>3, <3>1
  <2>4. CASE k # 0
    <3>1. k - 1 \in Nat /\ k - 1 \notin Unsolved
      BY <2>1, <2>2, <2>4
    <3>2. PICK g : Solved(g, k - 1)
      BY <3>1
    <3> DEFINE h == [n \in 0 .. k |-> IF n = k THEN Linked(g[k - 1], docs, d, row, fs[k]) ELSE g[n]]
    <3>3. \A n \in 0 .. k - 1 : h[n] = g[n]
      BY <2>2, <2>4
    <3>4. \A n \in 0 .. k - 1 : n # 0 => h[n - 1] = g[n - 1]
      BY <2>2, <2>4
    <3>5. h[k] = Linked(h[k - 1], docs, d, row, fs[k])
      BY <2>2, <2>4
    <3>6. h = [n \in 0 .. k |-> h[n]]
      OBVIOUS
    <3> HIDE DEF h
    <3>7. \A n \in 0 .. k : h[n] = Step(h, n)
      <4>1. h[0] = rel
        <5>1. 0 \in 0 .. k - 1
          BY <2>2, <2>4
        <5>2. g[0] = rel
          BY <3>2, <5>1
        <5> QED BY <3>3, <5>1, <5>2
      <4>2. ASSUME NEW n \in 0 .. k - 1, n # 0 PROVE h[n] = Step(h, n)
        BY <3>2, <3>3, <3>4, <4>2
      <4> QED BY <2>2, <2>4, <3>5, <4>1, <4>2
    <3>8. Solved(h, k)
      BY <3>6, <3>7
    <3> HIDE DEF Solved
    <3> QED BY <2>2, <3>8
  <2> QED BY <2>3, <2>4
<1>2. PICK g : Solved(g, Len(fs))
  <2> HIDE DEF Solved
  <2> QED BY <1>1
<1>3. g = [n \in 0 .. Len(fs) |-> Step(g, n)]
  BY <1>2
<1>4. LinkedByAll(rel, docs, d, row, fs) =
         [n \in 0 .. Len(fs) |-> Step(LinkedByAll(rel, docs, d, row, fs), n)]
  BY <1>3, Zenon DEF LinkedByAll
<1> HIDE DEF Step
<1>5. \A n \in 0 .. Len(fs) :
        LinkedByAll(rel, docs, d, row, fs)[n] = Step(LinkedByAll(rel, docs, d, row, fs), n)
  BY <1>4
<1> QED BY <1>5 DEF Step

LEMMA OrderIsSequence ==
    ASSUME NEW fs \in SUBSET ToSet(Fields)
    PROVE  Len(InOrder(fs)) \in Nat /\ DOMAIN InOrder(fs) = 1 .. Len(InOrder(fs))
<1>1. Cardinality(fs) \in Nat
  BY FieldsAreFinite
<1>2. DOMAIN InOrder(fs) = 1 .. Cardinality(fs)
  BY DEF InOrder
<1> DEFINE s == InOrder(fs)
           S == {s[n] : n \in 1 .. Cardinality(fs)}
           at(n) == CHOOSE f \in fs : Cardinality({g \in fs : Earlier(g, f)}) = n - 1
<1>3. s = [n \in 1 .. Cardinality(fs) |-> at(n)]
  BY Zenon DEF InOrder
<1> HIDE DEF s, at
<1>4. s \in [1 .. Cardinality(fs) -> S]
  BY <1>3
<1>5. s \in Seq(S)
  BY <1>1, <1>4
<1>6. Len(s) \in Nat /\ DOMAIN s = 1 .. Len(s)
  BY <1>5
<1> QED BY <1>6 DEF s

\* Reconciling with a field leaves the links of people ...
LEMMA LinkedKeepsManual ==
    ASSUME NEW rel, NEW docs, NEW d, NEW row, NEW f, NEW p \in DOMAIN rel, rel[p] = "user"
    PROVE  LET after == Linked(rel, docs, d, row, f)
           IN  p \in DOMAIN after /\ after[p] = "user"
BY DEF Linked, Related, StaleDropped, Restrict

\* ... and so does all reconciliation.
LEMMA ReconciledKeepsManual ==
    ASSUME NEW rel, NEW docs, NEW d, NEW row, DOMAIN field \subseteq ToSet(Fields),
           NEW p \in DOMAIN rel, rel[p] = "user"
    PROVE  LET after == Reconciled(rel, docs, d, row)
           IN  p \in DOMAIN after /\ after[p] = "user"
<1> DEFINE enabled == InOrder({f \in EffectiveFields(row.box) : field[f].auto})
           kept == Restrict(rel, {q \in DOMAIN rel :
                                     d \in q => rel[q] \in {"user"} \cup ToSet(enabled)})
           after == LinkedByAll(kept, docs, d, row, enabled)
           LostAt == {n \in 0 .. Len(enabled) : ~ (p \in DOMAIN after[n] /\ after[n][p] = "user")}
<1>1. Len(enabled) \in Nat
  <2>1. {f \in EffectiveFields(row.box) : field[f].auto} \subseteq ToSet(Fields)
    BY DEF EffectiveFields
  <2> QED BY <2>1, OrderIsSequence
<1>2. p \in DOMAIN kept /\ kept[p] = "user"
  BY DEF Restrict
<1>3. Reconciled(rel, docs, d, row) = after[Len(enabled)]
  BY DEF Reconciled
<1> HIDE DEF kept, enabled
<1>4. /\ after[0] = kept
      /\ \A n \in 1 .. Len(enabled) : after[n] = Linked(after[n - 1], docs, d, row, enabled[n])
  BY <1>1, LinkedByEach
<1> HIDE DEF after
<1>5. LostAt = {}
  <2> SUFFICES ASSUME LostAt # {} PROVE FALSE
    OBVIOUS
  <2>1. PICK n \in LostAt : \A m \in LostAt : n <= m
    <3> HIDE DEF LostAt
    <3>1. LostAt \subseteq Nat
      BY DEF LostAt
    <3> QED BY <3>1, SmallestExists
  <2>2. n \in 1 .. Len(enabled) /\ n - 1 \in 0 .. Len(enabled) /\ n - 1 \notin LostAt
    BY <1>1, <1>2, <1>4, <2>1
  <2>3. p \in DOMAIN after[n - 1] /\ after[n - 1][p] = "user"
    BY <2>2
  <2>4. p \in DOMAIN after[n] /\ after[n][p] = "user"
    BY <1>4, <2>2, <2>3, LinkedKeepsManual
  <2> QED BY <2>1, <2>4
<1>6. Len(enabled) \in 0 .. Len(enabled) /\ Len(enabled) \notin LostAt
  BY <1>1, <1>5
<1> QED BY <1>3, <1>6
-----------------------------------------------------------------------------
(***************************************************************************)
(* What people relate stays related.                                       *)
(***************************************************************************)

\* What touches fields and relations.
LEMMA OnlyTheseTouchLinks ==
    ASSUME [Next]_vars
    PROVE  \/ UNCHANGED linkVars
           \/ \E d \in Docs : \E values : UpdateDocumentMetadata(d, values)
           \/ \E b, title, f, v, complete : UploadInvoice(b, title, f, v, complete)
           \/ \E d, e \in Docs : AddDocumentRelation(d, e) \/ RemoveDocumentRelation(d, e)
           \/ \E f \in ToSet(Fields), row \in FieldRows : CreateDocumentMetadataField(f, row)
           \/ \E f \in DOMAIN field, row \in FieldRows : UpdateDocumentMetadataField(f, row)
           \/ \E f, g \in DOMAIN field : DeleteDocumentMetadataField(f, g)
           \/ \E j \in Jobs : \E titled, found : OcrSucceeds(j, titled, found)
           \/ \E w \in JobWorkers : ReconcileNext(w)
           \/ \E b : EmptyDocumentSpace(b) /\ RelationsLeft
BY DEF Next, DocumentsNext, TitleRulesNext, LinksNext, NoticesNext, OcrNext, BoxJobsNext,
       ExportsNext, AccountsNext, vars, linkVars, Elsewhere, DocumentsOnly, RulesOnly, LinksOnly, OcrOnly, BoxJobsOnly,
       NoticesOnly, ExportsOnly, AccountsOnly, StartOcr, StartOfficeConversion, StartUnsent, RestartOcr,
       TakeOcrJob, MarkOcrRunning, ReadForOcr, OcrFails, CancelOcr, OcrDies, RunOfficeConversion,
       SaveDerivative, StoreDerivative, ConversionSucceeds, ConversionFails, CancelConversion,
       CreateBoxJob, ClaimBoxJob, SkipLayout, StartLayout, EndLayout, SaveCursor, EndBatch,
       WorkerDies, ResumeBoxJob, CancelLayout

FieldsKnown ==
    /\ DOMAIN field \subseteq ToSet(Fields)
    /\ \A f \in DOMAIN field : field[f].box \in DOMAIN box /\ field[f].slug \in ToSet(Fields)

LEMMA FieldsKnownAtFirst == ASSUME Init PROVE FieldsKnown
<1>1. field = bound.fields /\ bound \in Bounds /\ DOMAIN box = DOMAIN FirstBoxes
  BY DEF Init, DocumentsInit, LinksInit
<1> QED BY <1>1, LinksAssumption DEF LinksAssumption, FieldsKnown

LEMMA FieldsStayKnown ==
    ASSUME FieldsKnown, [Next]_vars
    PROVE  FieldsKnown'
<1> USE DEF FieldsKnown
<1>1. DOMAIN box \subseteq DOMAIN box'
  BY BoxesStay
<1>2. CASE UNCHANGED field
  BY <1>1, <1>2
<1>3. ASSUME NEW f \in ToSet(Fields), NEW row \in FieldRows, CreateDocumentMetadataField(f, row)
      PROVE  FieldsKnown'
  <2>1. /\ row.box \in DOMAIN box /\ row.slug \in ToSet(Fields)
        /\ field' = [g \in DOMAIN field \cup {f} |-> IF g = f THEN row ELSE field[g]]
    BY <1>3, RowsAssumption DEF CreateDocumentMetadataField, FieldSaved, Upsert, RowsAssumption
  <2> QED BY <1>1, <2>1
<1>4. ASSUME NEW f \in DOMAIN field, NEW row \in FieldRows, UpdateDocumentMetadataField(f, row)
      PROVE  FieldsKnown'
  <2>1. /\ row.box = field[f].box /\ row.slug \in ToSet(Fields)
        /\ field' = [g \in DOMAIN field \cup {f} |-> IF g = f THEN row ELSE field[g]]
    BY <1>4, RowsAssumption DEF UpdateDocumentMetadataField, FieldSaved, Upsert, RowsAssumption
  <2> QED BY <1>1, <2>1
<1>5. ASSUME NEW f, NEW g, DeleteDocumentMetadataField(f, g) PROVE FieldsKnown'
  <2>1. field' = [h \in DOMAIN field \cap (DOMAIN field \ {f}) |-> field[h]]
    BY <1>5, Zenon DEF DeleteDocumentMetadataField, Restrict
  <2> QED BY <1>1, <2>1
<1>6. \/ UNCHANGED field
      \/ \E f \in ToSet(Fields), row \in FieldRows : CreateDocumentMetadataField(f, row)
      \/ \E f \in DOMAIN field, row \in FieldRows : UpdateDocumentMetadataField(f, row)
      \/ \E f, g : DeleteDocumentMetadataField(f, g)
  BY OnlyTheseTouchLinks, ZenonT(60)
        DEF linkVars, UpdateDocumentMetadata, UploadInvoice, AddDocumentRelation,
            RemoveDocumentRelation, OcrSucceeds, ReconcileNext, RelationsLeft
<1> HIDE DEF FieldsKnown
<1> QED BY <1>2, <1>3, <1>4, <1>5, <1>6

\* A transaction that reconciles a document hides some of its relations from
\* itself, which stay as they are; the rest comes from what it sees.
Committed(docs, d, row, unseen, hidden) ==
    LET after == Reconciled(Restrict(relation, DOMAIN relation \ hidden),
                            AsSeen(docs, unseen), d, row)
    IN  /\ DOMAIN relation' = hidden \cup DOMAIN after
        /\ \A p \in hidden : p \in DOMAIN relation /\ relation'[p] = relation[p]
        /\ \A p \in DOMAIN after \ hidden : relation'[p] = after[p]
        /\ history' = [history EXCEPT
                          !.former = Former({d}),
                          !.crossed = {p \in @ : d \notin p} \cup {{d, e} : e \in unseen}]

LEMMA ReconcileIs ==
    ASSUME NEW docs, NEW d, NEW row, Reconcile(docs, d, row)
    PROVE  \E unseen \in Unseen(d) : \E hidden \in SUBSET LinksTo(d, unseen) :
              Committed(docs, d, row, unseen, hidden)
<1> SUFFICES ASSUME NEW unseen \in Unseen(d), NEW hidden \in SUBSET LinksTo(d, unseen),
                    relation' = WithHidden(Reconciled(Restrict(relation, DOMAIN relation \ hidden),
                                                AsSeen(docs, unseen), d, row), hidden),
                    history' = [history EXCEPT
                                   !.former = Former({d}),
                                   !.crossed = {p \in @ : d \notin p} \cup {{d, e} : e \in unseen}]
             PROVE  Committed(docs, d, row, unseen, hidden)
  BY Zenon DEF Reconcile
<1> DEFINE after == Reconciled(Restrict(relation, DOMAIN relation \ hidden), AsSeen(docs, unseen), d, row)
<1>1. hidden \subseteq DOMAIN relation
  BY DEF LinksTo
<1>2. relation' = WithHidden(after, hidden)
  OBVIOUS
<1> HIDE DEF after
<1>3. relation' = [p \in DOMAIN after \cup hidden |-> IF p \in hidden THEN relation[p] ELSE after[p]]
  BY <1>2 DEF WithHidden
<1>4. /\ DOMAIN relation' = hidden \cup DOMAIN after
      /\ \A p \in hidden : p \in DOMAIN relation /\ relation'[p] = relation[p]
      /\ \A p \in DOMAIN after \ hidden : relation'[p] = after[p]
  BY <1>1, <1>3
<1> QED BY <1>4 DEF Committed, after

\* A relation that a person made goes only when a person takes it away, or with
\* one of its documents for good: whatever is reconciled, by jobs and by hand,
\* and whichever fields come and go.
THEOREM ManualLinksAlwaysStay == Spec => ManualLinksStay
<1> DEFINE Stays(p) == \/ p \in DOMAIN relation' /\ relation'[p] = "user"
                       \/ \E d, e \in p : RemoveDocumentRelation(d, e)
                       \/ p \cap Gone # {}
<1>1. FieldsKnown /\ [Next]_vars =>
        [\A p \in DOMAIN relation : relation[p] = "user" => Stays(p)]_<<docVars, linkVars>>
  <2> SUFFICES ASSUME FieldsKnown, [Next]_vars, NEW p \in DOMAIN relation, relation[p] = "user"
               PROVE  Stays(p)
    OBVIOUS
  <2>1. CASE UNCHANGED linkVars
    BY <2>1 DEF linkVars
  <2>2. ASSUME NEW docs, NEW d, NEW row, relation' = Reconciled(relation, docs, d, row)
        PROVE  Stays(p)
    BY <2>2, ReconciledKeepsManual DEF FieldsKnown
  <2>12. ASSUME NEW docs, NEW d, NEW row, Reconcile(docs, d, row) PROVE Stays(p)
    <3>1. PICK unseen, hidden : Committed(docs, d, row, unseen, hidden)
      BY <2>12, ReconcileIs
    <3> DEFINE rel == Restrict(relation, DOMAIN relation \ hidden)
               after == Reconciled(rel, AsSeen(docs, unseen), d, row)
    <3>2. CASE p \in hidden
      BY <3>1, <3>2 DEF Committed
    <3>3. CASE p \notin hidden
      <4>1. p \in DOMAIN rel /\ rel[p] = "user"
        BY <3>3 DEF Restrict
      <4> HIDE DEF rel
      <4>2. p \in DOMAIN after /\ after[p] = "user"
        BY <4>1, ReconciledKeepsManual DEF FieldsKnown
      <4>3. p \in DOMAIN relation' /\ relation'[p] = after[p]
        BY <3>1, <3>3, <4>2 DEF rel, Committed
      <4> QED BY <4>2, <4>3
    <3> QED BY <3>2, <3>3
  <2>3. ASSUME NEW d \in Docs, NEW values, UpdateDocumentMetadata(d, values) PROVE Stays(p)
    BY <2>3, <2>12 DEF UpdateDocumentMetadata
  <2>4. ASSUME NEW b, NEW title, NEW f, NEW v, NEW complete, UploadInvoice(b, title, f, v, complete)
        PROVE  Stays(p)
    BY <2>4, <2>12 DEF UploadInvoice
  <2>5. ASSUME NEW d \in Docs, NEW e \in Docs, AddDocumentRelation(d, e) PROVE Stays(p)
    BY <2>5 DEF AddDocumentRelation, Related
  <2>6. ASSUME NEW d \in Docs, NEW e \in Docs, RemoveDocumentRelation(d, e) PROVE Stays(p)
    <3>1. CASE p = {d, e}
      BY <2>6, <3>1
    <3>2. CASE p # {d, e}
      BY <2>6, <3>2 DEF RemoveDocumentRelation, Restrict
    <3> QED BY <3>1, <3>2
  <2>7. ASSUME NEW f, NEW row, CreateDocumentMetadataField(f, row) \/ UpdateDocumentMetadataField(f, row)
        PROVE  Stays(p)
    BY <2>7 DEF CreateDocumentMetadataField, UpdateDocumentMetadataField
  <2>8. ASSUME NEW f \in DOMAIN field, NEW g, DeleteDocumentMetadataField(f, g) PROVE Stays(p)
    <3>1. f # "user"
      BY <2>8, LinksAssumption DEF FieldsKnown, LinksAssumption
    <3> QED BY <2>8, <3>1 DEF DeleteDocumentMetadataField, Restrict
  <2>9. ASSUME NEW j \in Jobs, NEW titled, NEW found, OcrSucceeds(j, titled, found) PROVE Stays(p)
    <3> DEFINE seen == CHOOSE row \in ocr[j].seen : TRUE
               meta == Filled(seen, found)
    <3>1. \/ relation' = relation
          \/ Reconcile(doc', ocr[j].doc, [seen EXCEPT !.meta = meta])
      BY <2>9, Zenon DEF OcrSucceeds
    <3> QED BY <2>12, <3>1
  <2>10. ASSUME NEW w \in JobWorkers, ReconcileNext(w) PROVE Stays(p)
    <3>1. \/ relation' = relation
          \/ \E docs, d, row : relation' = Reconciled(relation, docs, d, row)
      BY <2>10, Zenon DEF ReconcileNext
    <3> QED BY <2>2, <3>1
  <2>11. ASSUME RelationsLeft PROVE Stays(p)
    BY <2>11 DEF RelationsLeft, Restrict
  <2> HIDE DEF Stays
  <2> QED BY <2>1, <2>3, <2>4, <2>5, <2>6, <2>7, <2>8, <2>9, <2>10, <2>11, OnlyTheseTouchLinks
<1>2. FieldsKnown /\ [Next]_vars => FieldsKnown'
  BY FieldsStayKnown
<1> QED BY <1>1, <1>2, FieldsKnownAtFirst, PTL DEF Spec, ManualLinksStay

-----------------------------------------------------------------------------
(***************************************************************************)
(* What fields link agrees.                                                *)
(***************************************************************************)

\* Values of fields change when a person edits, a field goes, OCR fills.
LEMMA OnlyTheseTouchMeta ==
    ASSUME Shaped, [Next]_vars
    PROVE  \/ MetaKept
           \/ \E d \in Docs : \E values : UpdateDocumentMetadata(d, values)
           \/ \E f, g : DeleteDocumentMetadataField(f, g)
           \/ \E j \in Jobs : \E titled, found : OcrSucceeds(j, titled, found)
<1> DEFINE Else == \/ \E d \in Docs : \E values : UpdateDocumentMetadata(d, values)
                   \/ \E f, g : DeleteDocumentMetadataField(f, g)
                   \/ \E j \in Jobs : \E titled, found : OcrSucceeds(j, titled, found)
<1>1. CASE UNCHANGED doc
  BY <1>1 DEF MetaKept
<1>2. ASSUME NEW b, NEW target, DeleteDocumentSpace(b, target) PROVE MetaKept
  <2>1. PICK inside : doc' = MovedTo(inside, target) \/ doc' = DeletedIn(inside)
    BY <1>2 DEF DeleteDocumentSpace
  <2> QED BY <2>1 DEF MetaKept, MovedTo, DeletedIn, Shaped, DocsShaped, RowShaped
<1>3. ASSUME NEW b, EmptyDocumentSpace(b) PROVE MetaKept
  <2>1. PICK inside : doc' = Emptied(inside)
    BY <1>3 DEF EmptyDocumentSpace
  <2> QED BY <2>1 DEF MetaKept, Emptied, Shaped, DocsShaped, RowShaped
<1>4. CASE CreatesDocs
  BY <1>4, FilesComeWithDocs DEF Shaped, CreatedWell
<1>5. ASSUME NEW d \in Docs, DeleteDocument(d) PROVE MetaKept
  BY <1>5 DEF MetaKept, DeleteDocument, DocumentsDeleted, DeletedIn, Shaped, DocsShaped, RowShaped
<1>6. ASSUME NEW d \in Docs, Annotate(d) PROVE MetaKept
  BY <1>6 DEF MetaKept, Annotate, Shaped, DocsShaped, RowShaped, Docs
<1>7. ASSUME NEW d \in Docs, NEW b, NEW retitled, UpdateDocumentCoreMetadata(d, b, retitled)
      PROVE  MetaKept
  <2> DEFINE row == [doc[d] EXCEPT !.box = b, !.title = IF retitled THEN "manual" ELSE @,
                                   !.rev = IF retitled THEN @ + 1 ELSE @]
  <2>1. doc' = [e \in Docs |-> IF e = d THEN row ELSE doc[e]]
    BY <1>7 DEF UpdateDocumentCoreMetadata, CoreSaved, Shaped, DocsShaped, Docs
  <2>2. row.meta = doc[d].meta
    BY DEF Shaped, DocsShaped, RowShaped
  <2> HIDE DEF row
  <2> QED BY <2>1, <2>2 DEF MetaKept
<1>8. ASSUME NEW w \in JobWorkers, NEW found, EndLayout(w, found) PROVE MetaKept
  <2>1. doc' = doc \/ \E d : doc' = [doc EXCEPT ![d].rev = @ + 1]
    BY <1>8 DEF EndLayout
  <2> QED BY <1>1, <2>1 DEF MetaKept, Shaped, DocsShaped, RowShaped, Docs
<1> HIDE DEF Else
<1> SUFFICES MetaKept \/ Else
  BY DEF Else
<1> QED BY <1>1, <1>2, <1>3, <1>4, <1>5, <1>6, <1>7, <1>8, OnlyTheseTouchDocs
        DEF CreatesDocs, Else, Shaped

\* Two fields of a box: one is before the other.
LEMMA EarlierOrders ==
    ASSUME Tree, FieldsKnown
    PROVE  /\ \A f \in DOMAIN field : ~ Earlier(f, f)
           /\ \A f, g, h \in DOMAIN field : Earlier(f, g) /\ Earlier(g, h) => Earlier(f, h)
           /\ \A f, g \in DOMAIN field : f # g => Earlier(f, g) \/ Earlier(g, f)
<1> DEFINE depth(x) == Len(box[field[x].box].path)
           Before(f, g) == \E m, n \in DOMAIN Fields : Fields[m] = f /\ Fields[n] = g /\ m < n
<1>1. \A f \in DOMAIN field : depth(f) \in Nat
  BY SpaceIs DEF Tree, FieldsKnown
<1>2. \A f, g : Earlier(f, g) <=> depth(f) < depth(g) \/ (depth(f) = depth(g) /\ Before(f, g))
  BY DEF Earlier
<1>3. /\ DOMAIN Fields = 1 .. Len(Fields) /\ Len(Fields) \in Nat
      /\ \A m, n \in DOMAIN Fields : Fields[m] = Fields[n] => m = n
  BY LinksAssumption DEF LinksAssumption
<1>4. \A f \in DOMAIN field : \E n \in DOMAIN Fields : Fields[n] = f
  BY <1>3 DEF FieldsKnown, ToSet
<1>5. \A f : ~ Before(f, f)
  BY <1>3
<1>6. \A f, g, h : Before(f, g) /\ Before(g, h) => Before(f, h)
  <2> SUFFICES ASSUME NEW f, NEW g, NEW h, Before(f, g), Before(g, h) PROVE Before(f, h)
    OBVIOUS
  <2>1. PICK m, n \in DOMAIN Fields : Fields[m] = f /\ Fields[n] = g /\ m < n
    OBVIOUS
  <2>2. PICK k, l \in DOMAIN Fields : Fields[k] = g /\ Fields[l] = h /\ k < l
    OBVIOUS
  <2>3. n = k
    BY <1>3, <2>1, <2>2
  <2>4. m < l
    BY <1>3, <2>1, <2>2, <2>3
  <2> QED BY <2>1, <2>2, <2>4
<1>7. \A f, g \in DOMAIN field : f # g => Before(f, g) \/ Before(g, f)
  <2> SUFFICES ASSUME NEW f \in DOMAIN field, NEW g \in DOMAIN field, f # g
               PROVE  Before(f, g) \/ Before(g, f)
    OBVIOUS
  <2>1. PICK m \in DOMAIN Fields : Fields[m] = f
    BY <1>4
  <2>2. PICK n \in DOMAIN Fields : Fields[n] = g
    BY <1>4
  <2>3. m < n \/ n < m
    BY <1>3, <2>1, <2>2
  <2> QED BY <2>1, <2>2, <2>3
<1> HIDE DEF depth, Before
<1> QED BY <1>1, <1>2, <1>5, <1>6, <1>7

\* The order of some fields has each of them.
LEMMA OrderIsOfFields ==
    ASSUME Tree, FieldsKnown, NEW fs \in SUBSET DOMAIN field,
           NEW n \in DOMAIN InOrder(fs)
    PROVE  InOrder(fs)[n] \in fs
<1> DEFINE N == Cardinality(fs)
           before(f) == {g \in fs : Earlier(g, f)}
           rank == [f \in fs |-> Cardinality(before(f))]
<1>1. IsFiniteSet(fs) /\ N \in Nat
  <2>1. fs \in SUBSET ToSet(Fields)
    BY DEF FieldsKnown
  <2> QED BY <2>1, FieldsAreFinite
<1>2. n \in 1 .. N
  BY DEF InOrder
<1>3. ASSUME NEW f \in fs
      PROVE  IsFiniteSet(before(f)) /\ rank[f] \in 0 .. N - 1
  <2>1. before(f) \subseteq fs \ {f}
    BY EarlierOrders
  <2>2. IsFiniteSet(fs \ {f}) /\ Cardinality(fs \ {f}) = N - 1
    BY <1>1, FS_RemoveElement
  <2> HIDE DEF before, N
  <2>3. IsFiniteSet(before(f)) /\ Cardinality(before(f)) <= N - 1 /\ Cardinality(before(f)) \in Nat
    BY <2>1, <2>2, FS_Subset, FS_CardinalityType
  <2> QED BY <1>1, <2>3
<1>4. ASSUME NEW f \in fs, NEW g \in fs, Earlier(f, g) PROVE rank[f] # rank[g]
  <2>1. before(f) \subseteq before(g)
    BY <1>4, EarlierOrders
  <2>2. f \in before(g) /\ f \notin before(f)
    BY <1>4, EarlierOrders
  <2>3. rank[f] = Cardinality(before(f)) /\ rank[g] = Cardinality(before(g))
    OBVIOUS
  <2>4. IsFiniteSet(before(g))
    BY <1>3
  <2> HIDE DEF before, rank
  <2>5. Cardinality(before(g)) # Cardinality(before(f))
    BY <2>1, <2>2, <2>4, FS_Subset
  <2> QED BY <2>3, <2>5
<1>5. \A f, g \in fs : f # g => rank[f] # rank[g]
  <2> HIDE DEF rank
  <2> QED BY <1>4, EarlierOrders
<1>6. rank \in Injection(fs, 0 .. N - 1)
  <2>1. rank = [f \in fs |-> rank[f]]
    OBVIOUS
  <2> HIDE DEF rank, N
  <2>2. rank \in [fs -> 0 .. N - 1]
    BY <1>3, <2>1
  <2>3. IsInjective(rank)
    BY <1>5, <2>2 DEF IsInjective
  <2> QED BY <2>2, <2>3 DEF Injection
<1>7. IsFiniteSet(0 .. N - 1) /\ Cardinality(0 .. N - 1) = N
  <2> HIDE DEF N
  <2> QED BY <1>1, FS_Interval
<1>8. rank \in Surjection(fs, 0 .. N - 1)
  <2> HIDE DEF rank
  <2> QED BY <1>6, <1>7, FS_Injection
<1>9. \E f \in fs : Cardinality(before(f)) = n - 1
  <2>1. n - 1 \in 0 .. N - 1
    BY <1>1, <1>2
  <2>2. \A f \in fs : rank[f] = Cardinality(before(f))
    OBVIOUS
  <2> HIDE DEF rank, N, before
  <2>3. \E f \in fs : rank[f] = n - 1
    BY <1>8, <2>1 DEF Surjection
  <2> QED BY <2>2, <2>3
<1>10. InOrder(fs)[n] = CHOOSE f \in fs : Cardinality(before(f)) = n - 1
  BY <1>2 DEF InOrder
<1> HIDE DEF before
<1> QED BY <1>9, <1>10

Agreeing(docs, p, s) == \A d, e \in p : docs[d].meta[s] # "" /\ docs[d].meta[s] = docs[e].meta[s]

Pair(ds, p) == \E d, e \in ds : d # e /\ p = {d, e}

\* After reconciling with some of the fields: links of other documents are as
\* they were, those of this one by these fields are with documents that match,
\* and its others are up to the rest.
HalfWay(old, rel, docs, d, row, fs, n) ==
    \A p \in DOMAIN rel :
        /\ Pair(DOMAIN docs, p)
        /\ d \notin p => p \in DOMAIN old /\ rel[p] = old[p]
        /\ d \in p /\ rel[p] # "user" =>
              /\ \E k \in DOMAIN fs : fs[k] = rel[p]
              /\ (\E k \in 1 .. n : fs[k] = rel[p]) =>
                    p \ {d} \subseteq Matching(docs, d, row, rel[p])

LEMMA LinkedGoesOn ==
    ASSUME NEW old, NEW rel, NEW docs, NEW d \in DOMAIN docs, NEW row, NEW fs, NEW n \in Nat \ {0},
           n \in DOMAIN fs, HalfWay(old, rel, docs, d, row, fs, n - 1)
    PROVE  HalfWay(old, Linked(rel, docs, d, row, fs[n]), docs, d, row, fs, n)
<1> DEFINE f == fs[n]
           matching == Matching(docs, d, row, f)
           after == Linked(rel, docs, d, row, f)
           Fits(p) ==
              /\ Pair(DOMAIN docs, p)
              /\ d \notin p => p \in DOMAIN old /\ after[p] = old[p]
              /\ d \in p /\ after[p] # "user" =>
                    /\ \E k \in DOMAIN fs : fs[k] = after[p]
                    /\ (\E k \in 1 .. n : fs[k] = after[p]) =>
                          p \ {d} \subseteq Matching(docs, d, row, after[p])
<1>1. matching \subseteq DOMAIN docs
  BY DEF Matching
<1>2. ASSUME NEW p \in DOMAIN after
      PROVE  \/ /\ p \in DOMAIN rel /\ after[p] = rel[p]
                /\ d \in p /\ rel[p] # "user" /\ rel[p] = f => p \ {d} \subseteq matching
             \/ \E e \in matching : p = {d, e} /\ after[p] = f
  <2> HIDE DEF f, matching
  <2> QED BY DEF Linked, Related, StaleDropped, Restrict, matching
<1> HIDE DEF after
<1> SUFFICES ASSUME NEW p \in DOMAIN after PROVE Fits(p)
  BY DEF HalfWay, after
<1>3. CASE \E e \in matching : p = {d, e} /\ after[p] = f
  <2>1. PICK e \in matching : p = {d, e} /\ after[p] = f
    BY <1>3
  <2>2. p \ {d} \subseteq matching /\ e # d
    BY <2>1 DEF Matching
  <2>3. Pair(DOMAIN docs, p)
    <3> HIDE DEF matching
    <3> QED BY <1>1, <2>1, <2>2 DEF Pair
  <2>4. d \in p /\ after[p] = fs[n] /\ p \ {d} \subseteq Matching(docs, d, row, after[p])
    BY <2>1, <2>2
  <2> QED BY <2>3, <2>4
<1>4. CASE /\ p \in DOMAIN rel /\ after[p] = rel[p]
           /\ d \in p /\ rel[p] # "user" /\ rel[p] = f => p \ {d} \subseteq matching
  <2>1. \A k \in 1 .. n : k = n \/ k \in 1 .. n - 1
    OBVIOUS
  <2> HIDE DEF f, matching
  <2>2. /\ Pair(DOMAIN docs, p)
        /\ d \notin p => p \in DOMAIN old /\ rel[p] = old[p]
        /\ d \in p /\ rel[p] # "user" =>
              /\ \E k \in DOMAIN fs : fs[k] = rel[p]
              /\ (\E k \in 1 .. n - 1 : fs[k] = rel[p]) =>
                    p \ {d} \subseteq Matching(docs, d, row, rel[p])
    BY <1>4 DEF HalfWay
  <2>3. ASSUME d \in p, rel[p] # "user", NEW k \in 1 .. n, fs[k] = rel[p]
        PROVE  p \ {d} \subseteq Matching(docs, d, row, rel[p])
    BY <1>4, <2>1, <2>2, <2>3 DEF f, matching
  <2> QED BY <1>4, <2>2, <2>3
<1> QED BY <1>2, <1>3, <1>4

\* What reconciling a document does to links: those of others are as they were,
\* and its own by fields are with documents that match.
LEMMA ReconciledIs ==
    ASSUME NEW rel, NEW docs, NEW d \in DOMAIN docs, NEW row, Tree, FieldsKnown,
           \A p \in DOMAIN rel : Pair(DOMAIN docs, p)
    PROVE  LET after == Reconciled(rel, docs, d, row)
           IN  \A p \in DOMAIN after :
                  /\ Pair(DOMAIN docs, p)
                  /\ d \notin p => p \in DOMAIN rel /\ after[p] = rel[p]
                  /\ d \in p /\ after[p] # "user" =>
                        /\ after[p] \in DOMAIN field
                        /\ p \ {d} \subseteq Matching(docs, d, row, after[p])
<1> DEFINE enabled == InOrder({f \in EffectiveFields(row.box) : field[f].auto})
           kept == Restrict(rel, {q \in DOMAIN rel :
                                     d \in q => rel[q] \in {"user"} \cup ToSet(enabled)})
           after == LinkedByAll(kept, docs, d, row, enabled)
           Wrong == {n \in 0 .. Len(enabled) : ~ HalfWay(rel, after[n], docs, d, row, enabled, n)}
<1>1. /\ Len(enabled) \in Nat /\ DOMAIN enabled = 1 .. Len(enabled)
      /\ \A k \in DOMAIN enabled : enabled[k] \in DOMAIN field
  <2> DEFINE fs == {f \in EffectiveFields(row.box) : field[f].auto}
  <2>1. fs \subseteq ToSet(Fields) /\ fs \subseteq DOMAIN field
    BY DEF EffectiveFields, FieldsKnown
  <2> HIDE DEF fs
  <2>2. \A k \in DOMAIN InOrder(fs) : InOrder(fs)[k] \in fs
    BY <2>1, OrderIsOfFields
  <2>3. Len(InOrder(fs)) \in Nat /\ DOMAIN InOrder(fs) = 1 .. Len(InOrder(fs))
    BY <2>1, OrderIsSequence
  <2> QED BY <2>1, <2>2, <2>3 DEF fs
<1>2. Reconciled(rel, docs, d, row) = after[Len(enabled)]
  BY DEF Reconciled
<1> HIDE DEF enabled
<1>3. HalfWay(rel, kept, docs, d, row, enabled, 0)
  BY DEF HalfWay, kept, Restrict, ToSet
<1> HIDE DEF kept
<1>4. /\ after[0] = kept
      /\ \A n \in 1 .. Len(enabled) : after[n] = Linked(after[n - 1], docs, d, row, enabled[n])
  BY <1>1, LinkedByEach
<1> HIDE DEF after
<1>5. Wrong = {}
  <2> SUFFICES ASSUME Wrong # {} PROVE FALSE
    OBVIOUS
  <2>1. PICK n \in Wrong : \A m \in Wrong : n <= m
    <3> HIDE DEF Wrong
    <3>1. Wrong \subseteq Nat
      BY DEF Wrong
    <3> QED BY <3>1, SmallestExists
  <2>2. n \in 1 .. Len(enabled) /\ n - 1 \in 0 .. Len(enabled) /\ n - 1 \notin Wrong
    BY <1>1, <1>3, <1>4, <2>1
  <2>3. HalfWay(rel, after[n - 1], docs, d, row, enabled, n - 1)
    BY <2>2
  <2>4. HalfWay(rel, after[n], docs, d, row, enabled, n)
    BY <1>1, <1>4, <2>2, <2>3, LinkedGoesOn
  <2> QED BY <2>1, <2>4
<1>6. HalfWay(rel, after[Len(enabled)], docs, d, row, enabled, Len(enabled))
  BY <1>1, <1>5
<1> DEFINE result == after[Len(enabled)]
<1> HIDE DEF result, Wrong
<1>7. ASSUME NEW p \in DOMAIN result
      PROVE  /\ Pair(DOMAIN docs, p)
             /\ d \notin p => p \in DOMAIN rel /\ result[p] = rel[p]
             /\ d \in p /\ result[p] # "user" =>
                   /\ \E k \in DOMAIN enabled : enabled[k] = result[p]
                   /\ (\E k \in 1 .. Len(enabled) : enabled[k] = result[p]) =>
                         p \ {d} \subseteq Matching(docs, d, row, result[p])
  BY <1>6 DEF HalfWay, result
<1>8. ASSUME NEW p \in DOMAIN result, d \in p, result[p] # "user"
      PROVE  result[p] \in DOMAIN field /\ p \ {d} \subseteq Matching(docs, d, row, result[p])
  BY <1>1, <1>7, <1>8
<1>9. Reconciled(rel, docs, d, row) = result
  BY <1>2 DEF result
<1> QED BY <1>7, <1>8, <1>9

\* A link that no exception is made for.
Firm(p) == relation[p] # "user" /\ relation[p] \notin history.loose /\ p \notin history.crossed

LinkFits(p) ==
    /\ Pair(Docs, p)
    /\ relation[p] \in {"user"} \cup DOMAIN field
    /\ Firm(p) => Agreeing(doc, p, Slug(relation[p]))

HistoryShaped == DOMAIN history = {"former", "crossed", "loose"}

\* A transaction that reconciles a document, and may not have seen others,
\* leaves links that fit: those it could not judge have crossed.
LEMMA ReconcileFits ==
    ASSUME Tree, FieldsKnown, HistoryShaped, Docs \subseteq Docs', field' = field,
           \A p \in DOMAIN relation : LinkFits(p),
           NEW d \in Docs', NEW row, Reconcile(doc', d, row), doc'[d].meta = row.meta,
           \A e \in Docs : e # d => doc'[e].meta = doc[e].meta
    PROVE  \A p \in DOMAIN relation' : LinkFits(p)'
<1>1. PICK unseen \in Unseen(d) : \E hidden \in SUBSET LinksTo(d, unseen) :
         Committed(doc', d, row, unseen, hidden)
  BY ReconcileIs
<1>2. PICK hidden \in SUBSET LinksTo(d, unseen) : Committed(doc', d, row, unseen, hidden)
  BY <1>1
<1> DEFINE rel == Restrict(relation, DOMAIN relation \ hidden)
           seen == AsSeen(doc', unseen)
           after == Reconciled(rel, seen, d, row)
<1>3. /\ history'.loose = history.loose
      /\ history'.crossed = {p \in history.crossed : d \notin p} \cup {{d, e} : e \in unseen}
  BY <1>2 DEF HistoryShaped, Committed
<1>4. \A p \in DOMAIN rel : p \in DOMAIN relation /\ rel[p] = relation[p]
  BY DEF Restrict
<1>5. /\ DOMAIN seen = Docs'
      /\ \A e \in Docs' \ unseen : seen[e] = doc'[e]
  BY DEF AsSeen, Docs
<1> HIDE DEF rel, seen
<1>6. \A p \in DOMAIN rel : Pair(DOMAIN seen, p)
  BY <1>4, <1>5 DEF LinkFits, Pair
<1>7. \A p \in DOMAIN after :
         /\ Pair(Docs', p)
         /\ d \notin p => p \in DOMAIN rel /\ after[p] = rel[p]
         /\ d \in p /\ after[p] # "user" =>
               /\ after[p] \in DOMAIN field
               /\ p \ {d} \subseteq Matching(seen, d, row, after[p])
  BY <1>5, <1>6, ReconciledIs
<1>8. /\ DOMAIN relation' = hidden \cup DOMAIN after
      /\ \A p \in hidden : p \in DOMAIN relation /\ relation'[p] = relation[p]
      /\ \A p \in DOMAIN after \ hidden : relation'[p] = after[p]
  BY <1>2 DEF rel, seen, Committed
<1> HIDE DEF after
<1> SUFFICES ASSUME NEW p \in DOMAIN relation' PROVE LinkFits(p)'
  OBVIOUS
<1>9. ASSUME Pair(Docs', p), relation'[p] \in {"user"} \cup DOMAIN field,
             relation'[p] # "user" /\ relation'[p] \notin history'.loose /\ p \notin history'.crossed =>
                Agreeing(doc', p, Slug(relation'[p]))
      PROVE  LinkFits(p)'
  BY <1>9 DEF LinkFits, Firm, Slug, Agreeing, Pair, Docs
\* It was hidden, so it crossed.
<1>10. CASE p \in hidden
  <2>1. p \in DOMAIN relation /\ relation'[p] = relation[p] /\ LinkFits(p)
    BY <1>8, <1>10
  <2>2. p \in history'.crossed
    BY <1>3, <1>10 DEF LinksTo
  <2>3. Pair(Docs', p)
    BY <2>1 DEF LinkFits, Pair
  <2>4. relation'[p] \in {"user"} \cup DOMAIN field
    BY <2>1 DEF LinkFits
  <2> QED BY <1>9, <2>2, <2>3, <2>4
\* It is of other documents, of which none changed.
<1>11. CASE p \notin hidden /\ d \notin p
  <2>1. p \in DOMAIN relation /\ relation'[p] = relation[p] /\ LinkFits(p)
    BY <1>4, <1>7, <1>8, <1>11
  <2>2. Pair(Docs', p) /\ p \subseteq Docs
    BY <2>1 DEF LinkFits, Pair
  <2>3. p \in history.crossed => p \in history'.crossed
    BY <1>3, <1>11
  <2>4. \A e \in p : doc'[e].meta = doc[e].meta
    BY <1>11, <2>2
  <2>5. relation'[p] \in {"user"} \cup DOMAIN field
    BY <2>1 DEF LinkFits
  <2>6. Firm(p) => Agreeing(doc', p, Slug(relation[p]))
    BY <2>1, <2>4 DEF LinkFits, Agreeing
  <2> QED BY <1>3, <1>9, <2>1, <2>2, <2>3, <2>5, <2>6 DEF Firm
\* It is of this document: with one that matches, or that it did not see.
<1>12. CASE p \notin hidden /\ d \in p
  <2>1. /\ p \in DOMAIN after /\ relation'[p] = after[p] /\ Pair(Docs', p)
        /\ after[p] # "user" => /\ after[p] \in DOMAIN field
                                /\ p \ {d} \subseteq Matching(seen, d, row, after[p])
    BY <1>7, <1>8, <1>12
  <2>2. PICK e \in Docs' : e # d /\ p = {d, e}
    BY <1>12, <2>1 DEF Pair
  <2>3. CASE e \in unseen
    <3>1. p \in history'.crossed
      BY <1>3, <2>2, <2>3
    <3> QED BY <1>9, <2>1, <3>1
  <2>4. CASE e \notin unseen
    <3>1. ASSUME after[p] # "user" PROVE Agreeing(doc', p, Slug(after[p]))
      <4>1. e \in Matching(seen, d, row, after[p])
        BY <2>1, <2>2, <3>1
      <4>2. /\ row.meta[Slug(after[p])] # ""
            /\ seen[e].meta[Slug(after[p])] = row.meta[Slug(after[p])]
        BY <4>1 DEF Matching
      <4>3. doc'[e].meta[Slug(after[p])] = doc'[d].meta[Slug(after[p])]
        BY <1>5, <2>4, <4>2
      <4>4. doc'[d].meta[Slug(after[p])] # ""
        BY <4>2
      <4> QED BY <2>2, <4>3, <4>4 DEF Agreeing
    <3> QED BY <1>9, <2>1, <3>1
  <2> QED BY <2>3, <2>4
<1> QED BY <1>10, <1>11, <1>12

Linking ==
    /\ FieldsKnown
    /\ HistoryShaped
    /\ "link" \notin bound.does => \A p \in DOMAIN relation : LinkFits(p)

LEMMA HistoryStaysShaped ==
    ASSUME HistoryShaped, [Next]_vars
    PROVE  HistoryShaped'
<1> SUFFICES \/ history' = history
             \/ \E a, b : history' = [history EXCEPT !.former = a, !.crossed = b]
             \/ \E a : history' = [history EXCEPT !.loose = a]
             \/ \E a, b : history' = [[history EXCEPT !.loose = a] EXCEPT !.former = b]
  BY DEF HistoryShaped
<1>1. CASE UNCHANGED linkVars
  BY <1>1 DEF linkVars
<1>2. ASSUME NEW docs, NEW d, NEW row, Reconcile(docs, d, row)
      PROVE  \E a, b : history' = [history EXCEPT !.former = a, !.crossed = b]
  <2>1. PICK unseen : history' = [history EXCEPT
                                    !.former = Former({d}),
                                    !.crossed = {p \in history.crossed : d \notin p}
                                                  \cup {{d, e} : e \in unseen}]
    BY <1>2, Zenon DEF Reconcile
  <2> QED BY <2>1
<1>3. ASSUME NEW f, NEW g, DeleteDocumentMetadataField(f, g)
      PROVE  \/ history' = history
             \/ \E a, b : history' = [[history EXCEPT !.loose = a] EXCEPT !.former = b]
  BY <1>3, Zenon DEF DeleteDocumentMetadataField, WithLoose
<1>4. ASSUME NEW f, NEW row, UpdateDocumentMetadataField(f, row)
      PROVE  \E a : history' = [history EXCEPT !.loose = a]
  BY <1>4, Zenon DEF UpdateDocumentMetadataField, WithLoose
<1>5. \/ history' = history
      \/ \E docs, d, row : Reconcile(docs, d, row)
      \/ \E f, g : DeleteDocumentMetadataField(f, g)
      \/ \E f, row : UpdateDocumentMetadataField(f, row)
  <2>1. ASSUME NEW j, NEW titled, NEW found, OcrSucceeds(j, titled, found)
        PROVE  history' = history \/ \E docs, d, row : Reconcile(docs, d, row)
    BY <2>1, Zenon DEF OcrSucceeds
  <2>2. ASSUME NEW d, NEW values, UpdateDocumentMetadata(d, values)
        PROVE  \E docs, e, row : Reconcile(docs, e, row)
    BY <2>2, Zenon DEF UpdateDocumentMetadata
  <2>3. ASSUME NEW b, NEW title, NEW f, NEW v, NEW complete, UploadInvoice(b, title, f, v, complete)
        PROVE  \E docs, e, row : Reconcile(docs, e, row)
    BY <2>3, Zenon DEF UploadInvoice
  <2>4. ASSUME NEW w, ReconcileNext(w) PROVE history' = history
    BY <2>4 DEF ReconcileNext
  <2>5. ASSUME NEW d, NEW e, AddDocumentRelation(d, e) \/ RemoveDocumentRelation(d, e)
        PROVE  history' = history
    BY <2>5 DEF AddDocumentRelation, RemoveDocumentRelation
  <2>6. ASSUME NEW f, NEW row, CreateDocumentMetadataField(f, row) PROVE history' = history
    BY <2>6 DEF CreateDocumentMetadataField
  <2>7. CASE RelationsLeft
    BY <2>7 DEF RelationsLeft
  <2> QED BY <1>1, <2>1, <2>2, <2>3, <2>4, <2>5, <2>6, <2>7, OnlyTheseTouchLinks, ZenonT(60)
             DEF linkVars
<1> QED BY <1>2, <1>3, <1>4, <1>5, ZenonT(30)

LEMMA LinkingStays ==
    ASSUME Shaped, Tree, Linking, [Next]_vars
    PROVE  Linking'
<1>1. FieldsKnown' /\ HistoryShaped' /\ bound' = bound
  BY FieldsStayKnown, HistoryStaysShaped, BoundStays DEF Linking
<1> DEFINE Fit == \A p \in DOMAIN relation' : LinkFits(p)'
<1> SUFFICES ASSUME "link" \notin bound.does PROVE Fit
  BY <1>1 DEF Linking
<1>2. /\ \A p \in DOMAIN relation : LinkFits(p)
      /\ FieldsKnown /\ HistoryShaped
  BY DEF Linking
<1>3. Docs \subseteq Docs'
  BY StaysShaped DEF DocsKept
\* Fewer links, and more that people make.
<1>4. ASSUME history.loose \subseteq history'.loose, history.crossed \subseteq history'.crossed,
             \A p \in DOMAIN relation' :
                \/ Pair(Docs, p) /\ relation'[p] = "user"
                \/ /\ p \in DOMAIN relation /\ relation'[p] = relation[p]
                   /\ relation[p] # "user" => relation[p] \in DOMAIN field'
                   /\ relation[p] \notin {"user"} \cup history'.loose =>
                         /\ field'[relation[p]].slug = Slug(relation[p])
                         /\ \A d \in p : doc[d].meta[Slug(relation[p])] # "" =>
                               doc'[d].meta[Slug(relation[p])] = doc[d].meta[Slug(relation[p])]
      PROVE  Fit
  <2> SUFFICES ASSUME NEW p \in DOMAIN relation' PROVE LinkFits(p)'
    OBVIOUS
  <2>1. CASE Pair(Docs, p) /\ relation'[p] = "user"
    BY <1>3, <2>1 DEF LinkFits, Firm, Pair
  <2>2. CASE ~ (Pair(Docs, p) /\ relation'[p] = "user")
    <3>1. /\ p \in DOMAIN relation /\ relation'[p] = relation[p]
          /\ relation[p] # "user" => relation[p] \in DOMAIN field'
          /\ relation[p] \notin {"user"} \cup history'.loose =>
                /\ field'[relation[p]].slug = Slug(relation[p])
                /\ \A d \in p : doc[d].meta[Slug(relation[p])] # "" =>
                      doc'[d].meta[Slug(relation[p])] = doc[d].meta[Slug(relation[p])]
      BY <1>4, <2>2
    <3>2. LinkFits(p)
      BY <1>2, <3>1
    <3>3. Pair(Docs', p)
      BY <1>3, <3>2 DEF LinkFits, Pair
    <3>4. ASSUME Firm(p)' PROVE Agreeing(doc', p, Slug(relation[p])) /\ Slug(relation[p])' = Slug(relation[p])
      <4>1. Firm(p) /\ relation[p] \notin {"user"} \cup history'.loose
        BY <1>4, <3>1, <3>4 DEF Firm
      <4>2. Agreeing(doc, p, Slug(relation[p]))
        BY <3>2, <4>1 DEF LinkFits
      <4>3. \A d \in p : doc'[d].meta[Slug(relation[p])] = doc[d].meta[Slug(relation[p])]
        BY <3>1, <4>1, <4>2 DEF Agreeing
      <4>4. Slug(relation[p])' = Slug(relation[p])
        BY <3>1, <4>1 DEF Slug
      <4> QED BY <4>2, <4>3, <4>4 DEF Agreeing
    <3>5. Firm(p)' => Agreeing(doc, p, Slug(relation[p]))'
      BY <3>1, <3>4 DEF Agreeing
    <3> QED BY <3>1, <3>3, <3>5 DEF LinkFits
  <2> QED BY <2>1, <2>2
<1>5. ASSUME NEW d \in Docs', NEW row, Reconcile(doc', d, row), doc'[d].meta = row.meta,
             \A e \in Docs : e # d => doc'[e].meta = doc[e].meta, field' = field
      PROVE  Fit
  BY <1>2, <1>3, <1>5, ReconcileFits
<1>6. ASSUME NEW d \in Docs, NEW values, UpdateDocumentMetadata(d, values)
      PROVE  Fit
  <2>1. /\ doc' = Saved(doc, d, CleanedMetadata(values)) /\ Reconcile(doc', d, doc'[d])
        /\ field' = field
    BY <1>6 DEF UpdateDocumentMetadata
  <2>2. \A e \in Docs : e # d => doc'[e].meta = doc[e].meta
    BY <2>1 DEF Saved, Shaped, DocsShaped, Docs
  <2> HIDE DEF Fit
  <2> QED BY <1>3, <1>5, <2>1, <2>2
<1>7. ASSUME NEW b, NEW title, NEW f, NEW v, NEW complete, UploadInvoice(b, title, f, v, complete)
      PROVE  Fit
  <2>1. MetaKept
    BY <1>7, FilesComeWithDocs DEF CreatesDocs, Shaped, CreatedWell
  <2>2. Reconcile(doc', Len(doc) + 1, doc'[Len(doc) + 1]) /\ field' = field
    BY <1>7 DEF UploadInvoice
  <2>3. PICK row : doc' = doc \o <<row>>
    BY <1>7 DEF UploadInvoice, Create
  <2>4. Len(doc) + 1 \in Docs'
    BY <2>3 DEF Shaped, DocsShaped, Docs
  <2> HIDE DEF Fit
  <2> QED BY <1>5, <2>1, <2>2, <2>4 DEF MetaKept
<1>8. ASSUME NEW f \in DOMAIN field, NEW g, DeleteDocumentMetadataField(f, g)
      PROVE  Fit
  <2>1. /\ relation' = Restrict(relation, {p \in DOMAIN relation : relation[p] # f})
        /\ field' = Restrict(field, DOMAIN field \ {f})
    BY <1>8 DEF DeleteDocumentMetadataField
  <2>2. \A p \in DOMAIN relation' : p \in DOMAIN relation /\ relation'[p] = relation[p] /\ relation[p] # f
    BY <2>1 DEF Restrict
  <2>3. \A h \in DOMAIN field \ {f} : h \in DOMAIN field' /\ field'[h] = field[h]
    BY <2>1 DEF Restrict
  <2>4. \A p \in DOMAIN relation' :
           relation[p] # "user" => /\ relation[p] \in DOMAIN field \ {f}
                                   /\ relation[p] \in DOMAIN field'
                                   /\ field'[relation[p]].slug = Slug(relation[p])
    BY <1>2, <2>2, <2>3 DEF LinkFits, Slug
  <2>5. CASE f = g
    <3>1. doc' = doc /\ history' = history
      BY <1>8, <2>5 DEF DeleteDocumentMetadataField
    <3> HIDE DEF Fit
    <3> QED BY <1>4, <2>2, <2>4, <3>1
  <2>6. CASE f # g
    <3>1. /\ doc' = Migrated(f, g)
          /\ history' = [WithLoose(Sharing(f)) EXCEPT !.former = Former(Movable(f, g))]
      BY <1>8, <2>6 DEF DeleteDocumentMetadataField
    <3>2. history'.loose = history.loose \cup Sharing(f) /\ history'.crossed = history.crossed
      BY <1>2, <3>1 DEF HistoryShaped, WithLoose
    <3>3. ASSUME NEW d \in Docs, NEW s \in ToSet(Fields), s # Slug(f), doc[d].meta[s] # ""
          PROVE  doc'[d].meta[s] = doc[d].meta[s]
      <4>1. DOMAIN doc[d] = {"status", "box", "type", "title", "meta", "rev"}
            /\ DOMAIN doc[d].meta = ToSet(Fields)
        BY DEF Shaped, DocsShaped, RowShaped
      <4> DEFINE meta == [doc[d].meta EXCEPT ![Slug(g)] = doc[d].meta[Slug(f)], ![Slug(f)] = ""]
                 row == [doc[d] EXCEPT !.meta = meta]
      <4>2. \/ doc'[d] = doc[d]
            \/ doc[d].meta[Slug(g)] = "" /\ doc'[d] = row
        BY <3>1 DEF Migrated, Movable
      <4>3. s # Slug(g) => meta[s] = doc[d].meta[s]
        BY <3>3, <4>1
      <4> HIDE DEF meta
      <4>4. row.meta = meta
        BY <4>1
      <4> HIDE DEF row
      <4> QED BY <3>3, <4>2, <4>3, <4>4
    <3>4. ASSUME NEW p \in DOMAIN relation', relation[p] \notin {"user"} \cup history'.loose,
                 NEW d \in p, doc[d].meta[Slug(relation[p])] # ""
          PROVE  doc'[d].meta[Slug(relation[p])] = doc[d].meta[Slug(relation[p])]
      <4>1. relation[p] \in DOMAIN field \ {f} /\ relation[p] \notin Sharing(f)
        BY <2>4, <3>2, <3>4
      <4>2. Slug(relation[p]) \in ToSet(Fields) /\ Slug(relation[p]) # Slug(f)
        BY <1>2, <4>1 DEF Sharing, FieldsKnown, Slug
      <4>3. p \subseteq Docs
        <5>1. LinkFits(p)
          BY <1>2, <2>2
        <5> QED BY <5>1 DEF LinkFits, Pair
      <4>4. d \in Docs
        BY <4>3
      <4> QED BY <3>3, <3>4, <4>2, <4>4
    <3> HIDE DEF Fit
    <3> QED BY <1>4, <2>2, <2>4, <3>2, <3>4
  <2> QED BY <2>5, <2>6
<1>9. ASSUME NEW j \in Jobs, NEW titled, NEW found, OcrSucceeds(j, titled, found)
      PROVE  Fit
  <2> DEFINE d == ocr[j].doc
             seen == CHOOSE row \in ocr[j].seen : TRUE
             meta == Filled(seen, found)
             row == [seen EXCEPT !.meta = meta]
  <2>1. CASE ~ OcrRowExists(j)
    <3>1. UNCHANGED <<doc, relation, history, field>>
      BY <1>9, <2>1 DEF OcrSucceeds
    <3> QED BY <1>2, <3>1 DEF LinkFits, Firm, Slug, Agreeing, Docs
  <2>2. CASE OcrRowExists(j)
    <3>1. d \in Docs
      BY <2>2 DEF OcrRowExists, Exists
    <3>2. /\ doc' = [doc EXCEPT ![d].title = IF Prefills(seen) /\ titled THEN "ocr" ELSE @,
                                ![d].meta = IF meta = seen.meta THEN @ ELSE meta,
                                ![d].rev = @ + 1]
          /\ IF meta = seen.meta THEN UNCHANGED <<relation, history>> ELSE Reconcile(doc', d, row)
          /\ field' = field
      BY <1>9, <2>2, Zenon DEF OcrSucceeds
    <3>3. RowShaped(seen)
      BY <1>9 DEF OcrSucceeds, Shaped, OcrShaped, OcrRowShaped
    <3> HIDE DEF seen, meta
    <3>4. row.meta = meta
      BY <3>3 DEF RowShaped
    <3>5. /\ \A e \in Docs : e # d => doc'[e].meta = doc[e].meta
          /\ doc'[d].meta = IF meta = seen.meta THEN doc[d].meta ELSE meta
      BY <3>1, <3>2 DEF Shaped, DocsShaped, RowShaped, Docs
    <3> HIDE DEF row, d, Fit
    <3>6. CASE meta = seen.meta
      <4>1. /\ \A e \in Docs : doc'[e].meta = doc[e].meta
            /\ relation' = relation /\ history' = history /\ field' = field
        BY <3>2, <3>5, <3>6
      <4>2. \A p \in DOMAIN relation : relation[p] \in {"user"} \cup DOMAIN field /\ p \subseteq Docs
        BY <1>2 DEF LinkFits, Pair
      <4> QED BY <1>4, <4>1, <4>2 DEF Slug
    <3>7. CASE meta # seen.meta
      BY <1>3, <1>5, <3>1, <3>2, <3>4, <3>5, <3>7
    <3> QED BY <3>6, <3>7
  <2> QED BY <2>1, <2>2
<1>10. ASSUME NEW w \in JobWorkers, ReconcileNext(w) PROVE FALSE
  BY <1>10 DEF ReconcileNext, Shaped, BoxJobsShaped, BoxJobShaped, WorkerShaped
<1>11. CASE MetaKept
  <2>1. \A p \in DOMAIN relation : relation[p] \in {"user"} \cup DOMAIN field /\ p \subseteq Docs
    BY <1>2 DEF LinkFits, Pair
  <2>2. ASSUME \A p \in DOMAIN relation' : \/ Pair(Docs, p) /\ relation'[p] = "user"
                                           \/ p \in DOMAIN relation /\ relation'[p] = relation[p],
               history' = history, \A f \in DOMAIN field : f \in DOMAIN field' /\ field'[f] = field[f]
        PROVE  Fit
    <3>1. ASSUME NEW p \in DOMAIN relation, relation[p] # "user"
          PROVE  /\ relation[p] \in DOMAIN field'
                 /\ field'[relation[p]].slug = Slug(relation[p])
                 /\ \A d \in p : doc'[d].meta = doc[d].meta
      BY <1>11, <2>1, <2>2, <3>1 DEF MetaKept, Slug
    <3> HIDE DEF Fit
    <3> QED BY <1>4, <2>2, <3>1
  <2>3. CASE UNCHANGED linkVars
    BY <2>2, <2>3 DEF linkVars
  <2>4. ASSUME NEW d \in Docs, NEW e \in Docs, AddDocumentRelation(d, e) PROVE Fit
    <3>1. d # e /\ relation' = Related(relation, {{d, e}}, "user") /\ history' = history /\ field' = field
      BY <2>4 DEF AddDocumentRelation, Relatable
    <3>2. Pair(Docs, {d, e})
      BY <3>1 DEF Pair
    <3>3. \A p \in DOMAIN relation' : \/ p = {d, e} /\ relation'[p] = "user"
                                      \/ p \in DOMAIN relation /\ relation'[p] = relation[p]
      BY <3>1 DEF Related
    <3> HIDE DEF Fit
    <3> QED BY <2>2, <3>1, <3>2, <3>3
  <2>5. ASSUME NEW d \in Docs, NEW e \in Docs, RemoveDocumentRelation(d, e) PROVE Fit
    BY <2>2, <2>5 DEF RemoveDocumentRelation, Restrict
  <2>6. ASSUME NEW f, NEW row, CreateDocumentMetadataField(f, row) PROVE Fit
    <3>1. /\ relation' = relation /\ history' = history
          /\ \A h \in DOMAIN field : h \in DOMAIN field' /\ field'[h] = field[h]
      BY <2>6 DEF CreateDocumentMetadataField, FieldSaved, Upsert
    <3> HIDE DEF Fit
    <3> QED BY <2>2, <3>1
  <2>7. ASSUME NEW f \in DOMAIN field, NEW row, UpdateDocumentMetadataField(f, row) PROVE Fit
    <3>1. /\ relation' = relation /\ history'.crossed = history.crossed
          /\ history'.loose = history.loose \cup (IF row.slug = Slug(f) THEN {} ELSE {f})
      BY <1>2, <2>7 DEF UpdateDocumentMetadataField, WithLoose, HistoryShaped
    <3>2. /\ DOMAIN field' = DOMAIN field
          /\ \A h \in DOMAIN field : field'[h] = IF h = f THEN row ELSE field[h]
      BY <2>7 DEF UpdateDocumentMetadataField, FieldSaved, Upsert
    <3>3. \A h \in DOMAIN field \ history'.loose : field'[h].slug = Slug(h)
      BY <3>1, <3>2 DEF Slug
    <3>4. ASSUME NEW p \in DOMAIN relation
          PROVE  /\ relation[p] # "user" => relation[p] \in DOMAIN field'
                 /\ relation[p] \notin {"user"} \cup history'.loose =>
                       field'[relation[p]].slug = Slug(relation[p])
                 /\ \A d \in p : doc'[d].meta = doc[d].meta
      BY <1>11, <2>1, <3>2, <3>3 DEF MetaKept
    <3> HIDE DEF Fit
    <3> QED BY <1>4, <3>1, <3>4
  <2>8. CASE RelationsLeft
    BY <2>2, <2>8 DEF RelationsLeft, Restrict
  <2> HIDE DEF Fit
  <2> QED BY <1>6, <1>7, <1>8, <1>9, <1>10, <2>3, <2>4, <2>5, <2>6, <2>7, <2>8, OnlyTheseTouchLinks
<1> HIDE DEF Fit
<1>12. CASE \E f, g : DeleteDocumentMetadataField(f, g)
  BY <1>8, <1>12 DEF DeleteDocumentMetadataField
<1> QED BY <1>6, <1>9, <1>11, <1>12, OnlyTheseTouchMeta

\* A link that a field made is between documents that have the same value of it,
\* however many documents, fields and values there are.  Every step that changes
\* a value reconciles the document, or takes the links of the field away; what
\* it leaves wrong is told apart: pairs it did not see because of an overlap,
\* and fields whose slug was edited, or shared by one that went with its values.
THEOREM LinksAlwaysAgree == Spec => []LinksAgree
<1>1. Init => Shaped /\ Tree /\ Linking
  <2>1. Init => HistoryShaped /\ \A p \in DOMAIN relation : LinkFits(p)
    BY DEF Init, LinksInit, HistoryShaped
  <2> QED BY <2>1, ShapedAtFirst, TreeAtFirst, FieldsKnownAtFirst DEF Linking
<1>2. Shaped /\ Tree /\ Linking /\ [Next]_vars => (Shaped /\ Tree /\ Linking)'
  BY StaysShaped, TreeStays, LinkingStays
<1>3. Linking => LinksAgree
  BY DEF Linking, LinksAgree, LinkFits, Firm, Agreeing
<1> QED BY <1>1, <1>2, <1>3, PTL DEF Spec

-----------------------------------------------------------------------------
(***************************************************************************)
(* Titles and values that people gave.                                     *)
(***************************************************************************)

Counted ==
    /\ DOMAIN past = {"requests", "failures", "lost"}
    /\ past.requests \in Nat /\ past.failures \in Nat

\* Every step is a request, a failure, or neither: but rebuilds may be lost, or
\* made good for.
Loses == \/ \E ds : past' = [past EXCEPT !.lost = @ \cup ds]
         \/ \E p \in Indexers : \E d : ReadDocument(p, d)

LEMMA StepsAreCounted ==
    ASSUME [Next]_vars
    PROVE  UNCHANGED past \/ (\E kind : Request(kind)) \/ (\E ds : FailureFor(ds)) \/ Loses
<1>1. CASE DocumentsNext
  BY <1>1, Zenon DEF DocumentsNext, CreateDocumentSpace, UpdateDocumentSpace, DeleteDocumentSpace,
     EmptyDocumentSpace, DeleteStorageKeys, UploadDocument, ImportIntoBox, DeleteDocument,
     SplitDocument, MergeDocuments, UpdateDocumentCoreMetadata, AddDocumentComment, SetDocumentTags,
     Annotate, OptimizeOne, SaveOptimized, ReplaceStorage, DeleteOldKey, OptimizerDies, PurgeLost,
     CallbacksLost, CallbackRaises, Failure, Loses
<1>2. CASE TitleRulesNext
  BY <1>2, Zenon DEF TitleRulesNext, CreateTitleRule, EditTitleRule, DeleteTitleRule
<1>3. CASE LinksNext
  BY <1>3, Zenon DEF LinksNext, UpdateDocumentMetadata, UploadInvoice, AddDocumentRelation,
     RemoveDocumentRelation, CreateDocumentMetadataField, UpdateDocumentMetadataField,
     DeleteDocumentMetadataField
<1>4. CASE NoticesNext
  BY <1>4, Zenon DEF NoticesNext, docVars, WriteIndex, EvaluateAlarm, Evaluated,
     RebuildFails, RebuildRaises, Failure, Loses, SaveAlarm, DeleteAlarm, SaveDocumentReminder, EndDocumentReminder,
     ReminderComesDue, ListDueReminders, TellReminder, DispatcherDies
<1>5. CASE OcrNext
  <2> DEFINE One == UNCHANGED past \/ (\E kind : Request(kind)) \/ (\E ds : FailureFor(ds)) \/ Loses
  <2>1. ASSUME NEW d, \/ StartOcr(d) \/ StartOfficeConversion(d) \/ RestartOcr(d)
                      \/ RunOfficeConversion(d) \/ SaveDerivative(d) \/ StoreDerivative(d)
                      \/ ConversionSucceeds(d) \/ ConversionFails(d)
                      \/ \E killed \in BOOLEAN : CancelConversion(d, killed)
        PROVE  One
    BY <2>1, Zenon DEF docVars, Cancel, StartOcr, StartOfficeConversion, RestartOcr,
       RunOfficeConversion, SaveDerivative, StoreDerivative, ConversionSucceeds, ConversionFails,
       CancelConversion
  <2>2. ASSUME NEW j, \/ TakeOcrJob(j) \/ MarkOcrRunning(j) \/ ReadForOcr(j) \/ OcrFails(j)
                      \/ OcrDies(j) \/ \E killed \in BOOLEAN : CancelOcr(j, killed)
        PROVE  One
    BY <2>2, Zenon DEF docVars, Cancel, TakeOcrJob, MarkOcrRunning, ReadForOcr, OcrFails, OcrDies,
       CancelOcr, Failure
  <2>3. ASSUME NEW j, NEW titled, NEW found, OcrSucceeds(j, titled, found) PROVE One
    BY <2>3, Zenon DEF OcrSucceeds
  <2>4. ASSUME NEW d, NEW later, StartUnsent(d, later) PROVE One
    BY <2>4, Zenon DEF StartUnsent
  <2> HIDE DEF One
  <2>5. One
    BY <1>5, <2>1, <2>2, <2>3, <2>4, Zenon DEF OcrNext
  <2> QED BY <2>5 DEF One
<1>6. CASE BoxJobsNext
  BY <1>6, Zenon DEF BoxJobsNext, docVars, Cancel, CreateBoxJob, ClaimBoxJob, ReconcileNext,
     SkipLayout, StartLayout, EndLayout, SaveCursor, EndBatch, WorkerDies, ResumeBoxJob, CancelLayout,
     Failure
<1>7. CASE ExportsNext
  BY <1>7, Zenon DEF ExportsNext, docVars, Cancel, CreateExport, StartExport, PackDocument,
     FinishExport, ExportFails, ExportDies, CancelExport, Failure
<1>8. CASE AccountsNext
  BY <1>8, Zenon DEF AccountsNext, docVars, AddTenantMember, UpdateTenantMembership,
     CreateTenantRole, UpdateTenantRole, CheckTenantRole, DeleteTenantRole
<1>9. CASE UNCHANGED vars
  BY <1>9 DEF vars, docVars
<1> QED BY <1>1, <1>2, <1>3, <1>4, <1>5, <1>6, <1>7, <1>8, <1>9 DEF Next

LEMMA CountedStays ==
    ASSUME Counted, [Next]_vars
    PROVE  /\ Counted'
           /\ past'.requests = past.requests => \A kind : ~ Request(kind)
           /\ past'.failures = 0 => past.failures = 0 /\ \A ds : ~ FailureFor(ds)
<1> DEFINE Well == /\ Counted'
                   /\ past'.requests = past.requests => \A kind : ~ Request(kind)
                   /\ past'.failures = 0 => past.failures = 0 /\ \A ds : ~ FailureFor(ds)
<1>1. ASSUME DOMAIN past' = DOMAIN past, past'.requests = past.requests,
             past'.failures = past.failures
      PROVE  Well
  <2>1. \A kind : ~ Request(kind)
    BY <1>1 DEF Counted, Request
  <2>2. ASSUME NEW ds, FailureFor(ds) PROVE FALSE
    <3>1. past'.failures = past.failures + 1
      BY <2>2 DEF Counted, FailureFor
    <3> QED BY <1>1, <3>1 DEF Counted
  <2> QED BY <1>1, <2>1, <2>2 DEF Counted
<1>2. ASSUME NEW kind, Request(kind) PROVE Well
  <2>1. DOMAIN past' = DOMAIN past /\ past'.requests = past.requests + 1
        /\ past'.failures = past.failures
    BY <1>2 DEF Counted, Request
  <2>2. ASSUME NEW ds, FailureFor(ds) PROVE FALSE
    <3>1. past'.failures = past.failures + 1
      BY <2>2 DEF Counted, FailureFor
    <3> QED BY <2>1, <3>1 DEF Counted
  <2> QED BY <2>1, <2>2 DEF Counted
<1>3. ASSUME NEW ds, FailureFor(ds) PROVE Well
  <2>1. DOMAIN past' = DOMAIN past /\ past'.requests = past.requests
        /\ past'.failures = past.failures + 1
    BY <1>3 DEF Counted, FailureFor
  <2>2. \A kind : ~ Request(kind)
    BY <2>1 DEF Counted, Request
  <2> QED BY <2>1, <2>2 DEF Counted
<1> HIDE DEF Well
<1>4. ASSUME Loses PROVE Well
  <2>1. DOMAIN past' = DOMAIN past /\ past'.requests = past.requests
        /\ past'.failures = past.failures
    BY <1>4 DEF Counted, Loses, ReadDocument
  <2> QED BY <1>1, <2>1
<1>5. Well
  BY <1>1, <1>2, <1>3, <1>4, StepsAreCounted
<1> QED BY <1>5 DEF Well

\* A document that lost its rebuild has lost it until the next one begins.
LEMMA LostStays ==
    ASSUME Counted, [Next]_vars, NEW d \in past.lost
    PROVE  d \in past'.lost \/ \E p \in Indexers : ReadDocument(p, d)
<1>1. CASE UNCHANGED past
  BY <1>1
<1>2. ASSUME NEW kind, Request(kind) PROVE d \in past'.lost
  BY <1>2 DEF Counted, Request
<1>3. ASSUME NEW ds, FailureFor(ds) PROVE d \in past'.lost
  BY <1>3 DEF Counted, FailureFor
<1>4. ASSUME NEW ds, past' = [past EXCEPT !.lost = @ \cup ds] PROVE d \in past'.lost
  BY <1>4 DEF Counted
<1>5. ASSUME NEW p \in Indexers, NEW e, ReadDocument(p, e), e # d PROVE d \in past'.lost
  BY <1>5 DEF Counted, ReadDocument
<1> QED BY <1>1, <1>2, <1>3, <1>4, <1>5, StepsAreCounted DEF Loses

\* What touches documents and is no request.
LEMMA OnlyJobsTouchDocs ==
    ASSUME [Next]_vars, \A kind : ~ Request(kind)
    PROVE  \/ UNCHANGED doc
           \/ \E j \in Jobs : \E titled, found : OcrSucceeds(j, titled, found)
           \/ \E w \in JobWorkers : \E found : EndLayout(w, found)
BY OnlyTheseTouchDocs, Zenon
   DEF DeleteDocumentSpace, EmptyDocumentSpace, UploadDocument, ImportIntoBox, DeleteDocument,
       Annotate, SplitDocument, MergeDocuments, UpdateDocumentCoreMetadata, UpdateDocumentMetadata,
       UploadInvoice, DeleteDocumentMetadataField

\* What a job writes into the document as it is.
LEMMA OcrLosesOnlyWhatItHadNotRead ==
    ASSUME Shaped, NEW j \in Jobs, NEW titled, NEW found, OcrSucceeds(j, titled, found),
           NEW d \in Docs, NEW seen, ocr[j].seen = {seen}
    PROVE  /\ d # ocr[j].doc => doc'[d] = doc[d]
           /\ LosesTitle(d) => seen.title # doc[d].title
           /\ \A f \in ToSet(Fields) : LosesValue(d, f) => seen.meta[f] # doc[d].meta[f]
<1> DEFINE e == ocr[j].doc
           meta == Filled(seen, found)
           row == [doc[e] EXCEPT !.title = IF Prefills(seen) /\ titled THEN "ocr" ELSE @,
                                 !.meta = IF meta = seen.meta THEN @ ELSE meta,
                                 !.rev = @ + 1]
<1>1. (CHOOSE one \in ocr[j].seen : TRUE) = seen
  OBVIOUS
<1>2. doc' = doc \/ (e \in Docs /\ doc' = [doc EXCEPT ![e] = row])
  <2>1. \/ doc' = doc
        \/ /\ OcrRowExists(j)
           /\ doc' = [doc EXCEPT ![e].title = IF Prefills(seen) /\ titled THEN "ocr" ELSE @,
                                 ![e].meta = IF meta = seen.meta THEN @ ELSE meta,
                                 ![e].rev = @ + 1]
    BY <1>1, Zenon DEF OcrSucceeds
  <2>2. CASE doc' = doc
    BY <2>2
  <2>3. CASE /\ OcrRowExists(j)
             /\ doc' = [doc EXCEPT ![e].title = IF Prefills(seen) /\ titled THEN "ocr" ELSE @,
                                   ![e].meta = IF meta = seen.meta THEN @ ELSE meta,
                                   ![e].rev = @ + 1]
    <3>1. e \in Docs
      BY <2>3 DEF OcrRowExists, Exists
    <3> HIDE DEF meta
    <3> QED BY <2>3, <3>1
  <2> QED BY <2>1, <2>2, <2>3
<1>3. ASSUME e \in Docs
      PROVE  /\ row.title = IF Prefills(seen) /\ titled THEN "ocr" ELSE doc[e].title
             /\ row.meta = IF meta = seen.meta THEN doc[e].meta ELSE meta
  <2> HIDE DEF meta
  <2> QED BY <1>3 DEF Shaped, DocsShaped, RowShaped
<1>4. \A f \in ToSet(Fields) : seen.meta[f] # "" => meta[f] = seen.meta[f]
  BY DEF Filled
<1> HIDE DEF row, meta
<1>5. CASE doc' = doc
  BY <1>5 DEF LosesTitle, LosesValue
<1>6. CASE e \in Docs /\ doc' = [doc EXCEPT ![e] = row]
  <2>1. doc' = [c \in Docs |-> IF c = e THEN row ELSE doc[c]]
    BY <1>6 DEF Shaped, DocsShaped, Docs
  <2>2. CASE d # e
    BY <2>1, <2>2 DEF LosesTitle, LosesValue
  <2>3. CASE d = e
    <3>1. doc'[d] = row
      BY <2>1, <2>3
    <3>2. LosesTitle(d) => seen.title # doc[d].title
      BY <1>3, <1>6, <2>3, <3>1 DEF LosesTitle, Prefills
    <3>3. \A f \in ToSet(Fields) : LosesValue(d, f) => seen.meta[f] # doc[d].meta[f]
      BY <1>3, <1>4, <1>6, <2>3, <3>1 DEF LosesValue
    <3> QED BY <2>3, <3>2, <3>3
  <2> QED BY <2>2, <2>3
<1> QED BY <1>2, <1>5, <1>6

\* What people wrote into a document is changed by people, or by the one OCR job
\* that had read the document before they wrote it: by no callback, no other job
\* and no worker that died and began again.
THEOREM OcrAlwaysKeepsInput == Spec => OcrKeepsInput
<1> DEFINE InputKept(d) ==
      past'.requests = past.requests =>
          /\ LosesTitle(d) =>
                \E j \in DOMAIN ocr :
                    OcrEnds(j, d) /\ \A row \in ocr[j].seen : row.title # doc[d].title
          /\ \A f \in ToSet(Fields) : LosesValue(d, f) =>
                \E j \in DOMAIN ocr :
                    OcrEnds(j, d) /\ \A row \in ocr[j].seen : row.meta[f] # doc[d].meta[f]
<1>1. Shaped /\ Counted /\ [Next]_vars => [\A d \in Docs : InputKept(d)]_<<docVars, linkVars, ocrVars>>
  <2> SUFFICES ASSUME Shaped, Counted, [Next]_vars, NEW d \in Docs,
                      past'.requests = past.requests
               PROVE  InputKept(d)
    OBVIOUS
  <2>1. \A kind : ~ Request(kind)
    BY CountedStays
  <2>2. CASE UNCHANGED doc
    BY <2>2 DEF LosesTitle, LosesValue
  <2>3. ASSUME NEW j \in Jobs, NEW titled, NEW found, OcrSucceeds(j, titled, found) PROVE InputKept(d)
    <3>1. ocr[j].step = "read"
      BY <2>3 DEF OcrSucceeds
    <3>2. PICK seen : ocr[j].seen = {seen}
      BY <3>1 DEF Shaped, OcrShaped, OcrRowShaped
    <3>3. ocr'[j].step = "done"
      <4>1. \/ ocr' = [ocr EXCEPT ![j].step = "done", ![j].status = "succeeded", ![j].seen = {}]
            \/ ocr' = [ocr EXCEPT ![j].step = "done", ![j].seen = {}]
        BY <2>3, Zenon DEF OcrSucceeds
      <4> QED BY <4>1 DEF Shaped, OcrShaped, OcrRowShaped, Jobs
    <3>4. /\ d # ocr[j].doc => doc'[d] = doc[d]
          /\ LosesTitle(d) => seen.title # doc[d].title
          /\ \A f \in ToSet(Fields) : LosesValue(d, f) => seen.meta[f] # doc[d].meta[f]
      BY <2>3, <3>2, OcrLosesOnlyWhatItHadNotRead
    <3>5. CASE d # ocr[j].doc
      BY <3>4, <3>5 DEF LosesTitle, LosesValue
    <3>6. CASE d = ocr[j].doc
      <4>1. OcrEnds(j, d)
        BY <3>1, <3>3, <3>6 DEF OcrEnds
      <4> QED BY <3>2, <3>4, <4>1 DEF Jobs
    <3> QED BY <3>5, <3>6
  <2>4. ASSUME NEW w \in JobWorkers, NEW found, EndLayout(w, found) PROVE InputKept(d)
    <3>1. doc' = doc \/ \E e : doc' = [doc EXCEPT ![e].rev = @ + 1]
      BY <2>4 DEF EndLayout
    <3>2. doc'[d].title = doc[d].title /\ doc'[d].meta = doc[d].meta
      BY <3>1 DEF Shaped, DocsShaped, RowShaped, Docs
    <3> QED BY <3>2 DEF LosesTitle, LosesValue
  <2> HIDE DEF InputKept
  <2> QED BY <2>1, <2>2, <2>3, <2>4, OnlyJobsTouchDocs
<1>2. Init => Shaped /\ Counted
  BY ShapedAtFirst DEF Init, DocumentsInit, Counted
<1>3. Shaped /\ Counted /\ [Next]_vars => Shaped' /\ Counted'
  BY StaysShaped, CountedStays
<1> QED BY <1>1, <1>2, <1>3, PTL DEF Spec, OcrKeepsInput

-----------------------------------------------------------------------------
(***************************************************************************)
(* Search entries and alarms.                                              *)
(***************************************************************************)

\* The callback for the search entry of d still has to run.
Waits(d) == <<"index", d>> \in DOMAIN pending

PendingShaped == \A c \in DOMAIN pending : pending[c] \in Nat \ {0}

\* Callbacks are added to those that wait ...
LEMMA ScheduledWait ==
    ASSUME PendingShaped, NEW kinds, NEW ds, pending' = Scheduled(kinds, ds)
    PROVE  PendingShaped' /\ DOMAIN pending' = DOMAIN pending \cup (kinds \X ds)
<1> DEFINE all == DOMAIN pending \cup (kinds \X ds)
           new == SetToBag(kinds \X ds)
<1>1. DOMAIN new = kinds \X ds /\ \A c \in DOMAIN new : new[c] = 1
  BY DEF SetToBag
<1>2. Scheduled(kinds, ds) = [x \in all |-> (IF x \in DOMAIN pending THEN pending[x] ELSE 0)
                                            + (IF x \in DOMAIN new THEN new[x] ELSE 0)]
  BY <1>1 DEF Scheduled, (+)
<1>3. DOMAIN new \subseteq all /\ all = DOMAIN pending \cup DOMAIN new
  BY <1>1
<1> HIDE DEF new, all
<1>4. \A c \in DOMAIN pending' : pending'[c] \in Nat \ {0}
  BY <1>1, <1>2, <1>3 DEF PendingShaped
<1> QED BY <1>2, <1>4 DEF all, PendingShaped

\* ... and some are taken, or dropped.
LEMMA WithoutKeeps ==
    ASSUME PendingShaped, NEW cs, pending' = Without(cs)
    PROVE  PendingShaped' /\ \A x \in DOMAIN pending : x \in cs \/ x \in DOMAIN pending'
<1> DEFINE some == SetToBag(cs)
           less == [x \in DOMAIN pending |->
                       IF x \in DOMAIN some THEN pending[x] - some[x] ELSE pending[x]]
<1>1. DOMAIN some = cs /\ \A c \in cs : some[c] = 1
  BY DEF SetToBag
<1>2. pending' = [x \in {y \in DOMAIN less : less[y] > 0} |-> less[x]]
  BY DEF Without, (-)
<1>3. \A x \in DOMAIN less : less[x] = IF x \in cs THEN pending[x] - 1 ELSE pending[x]
  BY <1>1
<1>4. DOMAIN less = DOMAIN pending
  OBVIOUS
<1> HIDE DEF less, some
<1> QED BY <1>2, <1>3, <1>4 DEF PendingShaped

LEMMA TakenIsOne ==
    ASSUME PendingShaped, NEW c, pending' = Taken(c)
    PROVE  PendingShaped' /\ \A x \in DOMAIN pending : x = c \/ x \in DOMAIN pending'
BY WithoutKeeps DEF Taken

\* What becomes of the callbacks in one step: the one for an entry goes when a
\* process takes it, or it is lost to the document, if there still is one.
LEMMA CallbacksStay ==
    ASSUME PendingShaped, Counted, [Next]_vars
    PROVE  /\ PendingShaped'
           /\ \A d : Waits(d) => \/ Waits(d)' \/ d \in past'.lost \/ ~ Exists(d)
                                \/ \E p \in Indexers : ReadDocument(p, d)
<1> DEFINE Stay == /\ PendingShaped'
                   /\ \A d : Waits(d) => \/ Waits(d)' \/ d \in past'.lost \/ ~ Exists(d)
                                        \/ \E p \in Indexers : ReadDocument(p, d)
<1>1. ASSUME UNCHANGED pending PROVE Stay
  BY <1>1 DEF PendingShaped, Waits
<1>2. ASSUME NEW kinds, NEW ds, pending' = Scheduled(kinds, ds) PROVE Stay
  BY <1>2, ScheduledWait DEF Waits
<1>3. ASSUME NEW kind, kind # "index", NEW x, pending' = Taken(<<kind, x>>) PROVE Stay
  <2>1. \A d : <<"index", d>> # <<kind, x>>
    BY <1>3
  <2> QED BY <1>3, <2>1, TakenIsOne DEF Waits
<1>4. ASSUME NEW cs, pending' = Without(cs),
             \A d : <<"index", d>> \in cs => d \in past'.lost \/ ~ Exists(d)
      PROVE  Stay
  BY <1>4, WithoutKeeps DEF Waits
<1>21. ASSUME NEW cs, NEW d, <<"index", d>> \in cs PROVE d \in Unbuilt(cs)
  <2>1. <<"index", d>>[1] = "index" /\ <<"index", d>>[2] = d
    OBVIOUS
  <2> QED BY <1>21, <2>1, Zenon DEF Unbuilt
<1>22. ASSUME NEW ds, FailureFor(ds), NEW d \in ds PROVE d \in past'.lost
  BY <1>22 DEF FailureFor, Counted
<1>23. ASSUME NEW ds, past' = [past EXCEPT !.lost = @ \cup ds], NEW d \in ds PROVE d \in past'.lost
  BY <1>23 DEF Counted
<1>24. ASSUME NEW cs, CallbacksLost(cs) PROVE Stay
  <2>1. FailureFor(Unbuilt(cs)) /\ pending' = Without(cs)
    BY <1>24 DEF CallbacksLost
  <2> HIDE DEF Stay
  <2> QED BY <1>4, <1>21, <1>22, <2>1
<1>25. ASSUME NEW c, NEW later, CallbackRaises(c, later) PROVE Stay
  <2>1. /\ ~ Exists(c[2]) /\ pending' = Without({c} \cup later)
        /\ past' = [past EXCEPT !.lost = @ \cup Unbuilt(later)]
    BY <1>25 DEF CallbackRaises
  <2>2. ASSUME NEW d, <<"index", d>> \in {c} \cup later PROVE d \in past'.lost \/ ~ Exists(d)
    <3>1. CASE c = <<"index", d>>
      <4>1. c[2] = d
        BY <3>1
      <4> QED BY <2>1, <4>1
    <3>2. CASE <<"index", d>> \in later
      BY <1>21, <1>23, <2>1, <3>2
    <3> QED BY <2>2, <3>1, <3>2
  <2> HIDE DEF Stay
  <2> QED BY <1>4, <2>1, <2>2
<1>26. ASSUME NEW d, NEW later, StartUnsent(d, later) PROVE Stay
  <2>1. FailureFor(Unbuilt(later)) /\ pending' = Without({<<"start", d>>} \cup later)
    BY <1>26 DEF StartUnsent
  <2>2. ASSUME NEW e, <<"index", e>> \in {<<"start", d>>} \cup later PROVE e \in past'.lost
    <3>1. <<"index", e>> # <<"start", d>>
      OBVIOUS
    <3>2. <<"index", e>> \in later
      BY <2>2, <3>1
    <3> QED BY <1>21, <1>22, <2>1, <3>2
  <2> HIDE DEF Stay
  <2> QED BY <1>4, <2>1, <2>2
<1>27. ASSUME NEW p, NEW later, RebuildFails(p, later) \/ RebuildRaises(p, later) PROVE Stay
  <2>1. pending' = Without(later)
    BY <1>27 DEF RebuildFails, RebuildRaises, RebuildEnds
  <2>2. ASSUME NEW d, <<"index", d>> \in later PROVE d \in past'.lost
    <3>1. d \in LostBy(p, later)
      BY <1>21, <2>2 DEF LostBy
    <3>2. \/ FailureFor(LostBy(p, later))
          \/ past' = [past EXCEPT !.lost = @ \cup LostBy(p, later)]
      BY <1>27, Zenon DEF RebuildFails, RebuildRaises
    <3> QED BY <1>22, <1>23, <3>1, <3>2
  <2> HIDE DEF Stay
  <2> QED BY <1>4, <2>1, <2>2
<1>5. ASSUME NEW p \in Indexers, NEW d, ReadDocument(p, d) PROVE Stay
  <2>1. pending' = Taken(<<"index", d>>)
    BY <1>5 DEF ReadDocument
  <2>2. ASSUME NEW e, Waits(e) PROVE e = d \/ Waits(e)'
    BY <2>1, <2>2, TakenIsOne DEF Waits
  <2> QED BY <1>5, <2>1, <2>2, TakenIsOne
<1> HIDE DEF Stay
<1>6. ASSUME NEW b, NEW target, DeleteDocumentSpace(b, target) PROVE Stay
  BY <1>1, <1>2, <1>6, Zenon DEF DeleteDocumentSpace
<1>7. ASSUME NEW d, \/ \E b, retitled : UpdateDocumentCoreMetadata(d, b, retitled)
                    \/ AddDocumentComment(d) \/ SetDocumentTags(d)
                    \/ \E values : UpdateDocumentMetadata(d, values)
      PROVE  Stay
  BY <1>2, <1>7, Zenon DEF UpdateDocumentCoreMetadata, AddDocumentComment, SetDocumentTags, Annotate,
     UpdateDocumentMetadata
<1>8. ASSUME NEW j, NEW titled, NEW found, OcrSucceeds(j, titled, found) PROVE Stay
  <2>1. UNCHANGED pending \/ pending' = Scheduled({"index"}, {ocr[j].doc})
    BY <1>8, Zenon DEF OcrSucceeds
  <2> QED BY <1>1, <1>2, <2>1
<1>9. ASSUME NEW d, StartOcr(d) \/ StartOfficeConversion(d) PROVE Stay
  BY <1>3, <1>9 DEF StartOcr, StartOfficeConversion
<1>10. ASSUME NEW kind, NEW b, NEW below, CreateBoxJob(kind, b, below) PROVE Stay
  BY <1>2, <1>10, Zenon DEF CreateBoxJob
<1>11. ASSUME NEW w, \/ \E j : ClaimBoxJob(w, j)
                     \/ \E found : EndLayout(w, found)
                     \/ EndBatch(w)
       PROVE  Stay
  <2>1. \/ UNCHANGED pending
        \/ \E kinds, ds : pending' = Scheduled(kinds, ds)
        \/ \E j : pending' = Taken(<<"boxjob", j>>)
    BY <1>11, Zenon DEF ClaimBoxJob, EndLayout, EndBatch
  <2> QED BY <1>1, <1>2, <1>3, <2>1
<1>12. ASSUME NEW j, ResumeBoxJob(j) PROVE Stay
  BY <1>2, <1>12, Zenon DEF ResumeBoxJob
<1>13. ASSUME NEW b, NEW below, NEW only, CreateExport(b, below, only) PROVE Stay
  BY <1>2, <1>13, Zenon DEF CreateExport
<1>14. ASSUME NEW r, StartExport(r) PROVE Stay
  BY <1>3, <1>14 DEF StartExport
<1>15. ASSUME NEW kind, NEW b, NEW title, \/ UploadDocument(b, kind, title) \/ ImportIntoBox(b, kind)
       PROVE  Stay
  BY <1>2, <1>15, Zenon DEF UploadDocument, ImportIntoBox, Create
<1>16. ASSUME NEW d, NEW parts, NEW keep, SplitDocument(d, parts, keep) PROVE Stay
  BY <1>2, <1>16, Zenon DEF SplitDocument, Create
<1>17. ASSUME NEW ds, NEW b, NEW keep, MergeDocuments(ds, b, keep) PROVE Stay
  BY <1>2, <1>17, Zenon DEF MergeDocuments, Create
<1>18. ASSUME NEW b, NEW title, NEW f, NEW v, NEW complete, UploadInvoice(b, title, f, v, complete)
       PROVE  Stay
  BY <1>2, <1>18, Zenon DEF UploadInvoice, Create
<1>19. Stay
  BY <1>1, <1>24, <1>25, <1>26, <1>27, <1>5, <1>6, <1>7, <1>8, <1>9, <1>10, <1>11, <1>12, <1>13, <1>14, <1>15, <1>16,
     <1>17, <1>18, OnlyTheseTouchMessages, Zenon
<1> QED BY <1>19 DEF Stay

\* Each operation that moves or changes a document, or makes one, schedules the
\* callback for its entry; and a document that was deleted stays so.
LEMMA ChangesAreScheduled ==
    ASSUME Shaped, PendingShaped, [Next]_vars
    PROVE  /\ \A d \in Docs : Waits(d)' \/ (doc'[d].rev = doc[d].rev /\ doc'[d].box = doc[d].box)
           /\ \A d \in Docs : doc'[d].status = "active" => doc[d].status = "active"
           /\ \A d \in Docs' \ Docs : Waits(d)'
<1> DEFINE Told ==
      /\ \A d \in Docs : Waits(d)' \/ (doc'[d].rev = doc[d].rev /\ doc'[d].box = doc[d].box)
      /\ \A d \in Docs : doc'[d].status = "active" => doc[d].status = "active"
      /\ \A d \in Docs' \ Docs : Waits(d)'
<1>1. ASSUME UNCHANGED doc PROVE Told
  BY <1>1 DEF Docs
<1>2. ASSUME PlacesKept, Docs' = Docs PROVE Told
  BY <1>2 DEF PlacesKept, PlaceKept
<1>3. ASSUME CreatesDocs PROVE Told
  <2>1. CreatedWell
    BY <1>3, FilesComeWithDocs DEF Shaped
  <2>2. PICK new : Docs' \ Docs \subseteq new /\ pending' = Scheduled({"start", "index"}, new)
    BY <2>1 DEF CreatedWell, NewAreScheduled
  <2>3. DOMAIN pending' = DOMAIN pending \cup ({"start", "index"} \X new)
    BY <2>2, ScheduledWait
  <2>4. \A d \in Docs' \ Docs : Waits(d)'
    BY <2>2, <2>3 DEF Waits
  <2> QED BY <2>1, <2>4 DEF CreatedWell, PlacesKept, PlaceKept
<1>4. ASSUME NEW S, pending' = Scheduled({"index"}, S), Docs' = Docs,
             \A d \in Docs \ S : PlaceKept(doc[d], doc'[d]),
             \A d \in S \cap Docs : doc'[d].status = doc[d].status
      PROVE  Told
  <2>1. DOMAIN pending' = DOMAIN pending \cup ({"index"} \X S)
    BY <1>4, ScheduledWait
  <2>2. \A d \in S : Waits(d)'
    BY <2>1 DEF Waits
  <2> QED BY <1>4, <2>2 DEF PlaceKept
<1>5. ASSUME NEW d, NEW row, doc' = [e \in Docs |-> IF e = d THEN row ELSE doc[e]],
             row.status = doc[d].status, pending' = Scheduled({"index"}, {d})
      PROVE  Told
  <2>1. Docs' = Docs /\ \A e \in Docs : doc'[e] = IF e = d THEN row ELSE doc[e]
    BY <1>5 DEF Docs
  <2> QED BY <1>4, <1>5, <2>1 DEF PlaceKept
<1> HIDE DEF Told
<1>6. ASSUME NEW b, NEW target, DeleteDocumentSpace(b, target) PROVE Told
  <2> DEFINE subtree == {c \in {b} \cup Below(b) : ~ box[c].deleted}
             inside == {d \in Docs : Exists(d) /\ doc[d].box \in subtree}
  <2>1. \/ doc' = MovedTo(inside, target) /\ pending' = Scheduled({"index"}, inside)
        \/ doc' = DeletedIn(inside)
    BY <1>6, Zenon DEF DeleteDocumentSpace
  <2>2. \A d \in inside : doc[d].status # "purged"
    BY DEF Exists
  <2> HIDE DEF inside
  <2>3. CASE doc' = MovedTo(inside, target) /\ pending' = Scheduled({"index"}, inside)
    <3>1. /\ Docs' = Docs
          /\ \A d \in Docs \ inside : PlaceKept(doc[d], doc'[d])
          /\ \A d \in inside \cap Docs : doc'[d].status = doc[d].status
      BY <2>3 DEF MovedTo, PlaceKept, Docs, Shaped, DocsShaped, RowShaped
    <3> QED BY <1>4, <2>3, <3>1
  <2>4. CASE doc' = DeletedIn(inside)
    <3>1. PlacesKept
      BY <2>2, <2>4, DeletedKept DEF PlacesKept, Shaped
    <3>2. Docs' = Docs
      BY <2>4 DEF DeletedIn, Docs
    <3> QED BY <1>2, <3>1, <3>2
  <2> QED BY <2>1, <2>3, <2>4
<1>7. ASSUME NEW b, EmptyDocumentSpace(b) PROVE Told
  <2>1. PICK inside : doc' = Emptied(inside)
    BY <1>7 DEF EmptyDocumentSpace
  <2>2. PlacesKept /\ Docs' = Docs
    BY <2>1 DEF PlacesKept, PlaceKept, Emptied, Docs, Shaped, DocsShaped, RowShaped
  <2> QED BY <1>2, <2>2
<1>8. ASSUME NEW d \in Docs, DeleteDocument(d) PROVE Told
  <2>1. \A e \in {d} : doc[e].status # "purged"
    BY <1>8 DEF DeleteDocument, Active
  <2>2. doc' = DeletedIn({d})
    BY <1>8 DEF DeleteDocument, DocumentsDeleted
  <2>3. PlacesKept
    BY <2>1, <2>2, DeletedKept DEF PlacesKept, Shaped
  <2>4. Docs' = Docs
    BY <2>2 DEF DeletedIn, Docs
  <2> QED BY <1>2, <2>3, <2>4
<1>9. ASSUME NEW d, doc' = [doc EXCEPT ![d].rev = @ + 1], pending' = Scheduled({"index"}, {d})
      PROVE  Told
  <2>1. Docs' = Docs
    BY <1>9 DEF Shaped, DocsShaped, Docs
  <2>2. \A e \in Docs \ {d} : PlaceKept(doc[e], doc'[e])
    BY <1>9 DEF PlaceKept, Docs
  <2>3. \A e \in {d} \cap Docs : doc'[e].status = doc[e].status
    BY <1>9 DEF Shaped, DocsShaped, RowShaped, Docs
  <2> QED BY <1>4, <1>9, <2>1, <2>2, <2>3
<1>10. ASSUME NEW d \in Docs, Annotate(d) PROVE Told
  BY <1>9, <1>10 DEF Annotate
<1>11. ASSUME NEW w \in JobWorkers, NEW found, EndLayout(w, found) PROVE Told
  <2>1. \/ UNCHANGED doc
        \/ \E d : doc' = [doc EXCEPT ![d].rev = @ + 1] /\ pending' = Scheduled({"index"}, {d})
    BY <1>11, Zenon DEF EndLayout
  <2> QED BY <1>1, <1>9, <2>1
<1>12. ASSUME NEW d \in Docs, NEW b, NEW retitled, UpdateDocumentCoreMetadata(d, b, retitled)
       PROVE  Told
  <2> DEFINE row == [doc[d] EXCEPT !.box = b, !.title = IF retitled THEN "manual" ELSE @,
                                   !.rev = IF retitled THEN @ + 1 ELSE @]
  <2>1. doc' = [e \in Docs |-> IF e = d THEN row ELSE doc[e]]
    BY <1>12 DEF UpdateDocumentCoreMetadata, CoreSaved, Shaped, DocsShaped, Docs
  <2>2. row.status = doc[d].status
    BY DEF Shaped, DocsShaped, RowShaped
  <2>3. pending' = Scheduled({"index"}, {d})
    BY <1>12 DEF UpdateDocumentCoreMetadata
  <2> HIDE DEF row
  <2> QED BY <1>5, <2>1, <2>2, <2>3
<1>13. ASSUME NEW d \in Docs, NEW values, UpdateDocumentMetadata(d, values) PROVE Told
  <2> DEFINE meta == CleanedMetadata(values)
             row == [doc[d] EXCEPT !.meta = meta, !.rev = @ + 1]
  <2>1. doc' = [doc EXCEPT ![d].meta = meta, ![d].rev = @ + 1] /\ pending' = Scheduled({"index"}, {d})
    BY <1>13 DEF UpdateDocumentMetadata, Saved
  <2> HIDE DEF meta
  <2>2. doc' = [e \in Docs |-> IF e = d THEN row ELSE doc[e]]
    BY <2>1 DEF Shaped, DocsShaped, Docs
  <2>3. row.status = doc[d].status
    BY DEF Shaped, DocsShaped, RowShaped
  <2>4. pending' = Scheduled({"index"}, {d})
    BY <2>1
  <2> HIDE DEF row
  <2> QED BY <1>5, <2>2, <2>3, <2>4
<1>14. ASSUME NEW f, NEW g, DeleteDocumentMetadataField(f, g) PROVE Told
  <2>1. doc' = doc \/ doc' = Migrated(f, g)
    BY <1>14 DEF DeleteDocumentMetadataField
  <2>2. ASSUME doc' = Migrated(f, g) PROVE Told
    <3>1. PlacesKept /\ Docs' = Docs
      BY <2>2 DEF Migrated, PlacesKept, PlaceKept, Docs, Shaped, DocsShaped, RowShaped
    <3> QED BY <1>2, <3>1
  <2> QED BY <1>1, <2>1, <2>2
<1>15. ASSUME NEW j \in Jobs, NEW titled, NEW found, OcrSucceeds(j, titled, found) PROVE Told
  <2> DEFINE d == ocr[j].doc
             seen == CHOOSE row \in ocr[j].seen : TRUE
             meta == Filled(seen, found)
             title == IF Prefills(seen) /\ titled THEN "ocr" ELSE doc[d].title
             next == IF meta = seen.meta THEN doc[d].meta ELSE meta
             row == [doc[d] EXCEPT !.title = title, !.meta = next, !.rev = @ + 1]
  <2>1. \/ UNCHANGED doc
        \/ /\ OcrRowExists(j)
           /\ doc' = [doc EXCEPT ![d].title = IF Prefills(seen) /\ titled THEN "ocr" ELSE @,
                                 ![d].meta = IF meta = seen.meta THEN @ ELSE meta,
                                 ![d].rev = @ + 1]
           /\ pending' = Scheduled({"index"}, {d})
    BY <1>15, Zenon DEF OcrSucceeds
  <2> HIDE DEF seen, meta
  <2>2. ASSUME OcrRowExists(j),
               doc' = [doc EXCEPT ![d].title = IF Prefills(seen) /\ titled THEN "ocr" ELSE @,
                                  ![d].meta = IF meta = seen.meta THEN @ ELSE meta,
                                  ![d].rev = @ + 1],
               pending' = Scheduled({"index"}, {d})
        PROVE  Told
    <3>1. d \in Docs
      BY <2>2 DEF OcrRowExists, Exists
    <3>2. doc' = [e \in Docs |-> IF e = d THEN row ELSE doc[e]]
      BY <2>2, <3>1 DEF Shaped, DocsShaped, Docs
    <3> HIDE DEF next, title
    <3>3. row.status = doc[d].status
      BY <3>1 DEF Shaped, DocsShaped, RowShaped
    <3>4. pending' = Scheduled({"index"}, {d})
      BY <2>2
    <3> HIDE DEF row, d
    <3> QED BY <1>5, <3>2, <3>3, <3>4
  <2> QED BY <1>1, <2>1, <2>2
<1>16. Told
  BY <1>1, <1>3, <1>6, <1>7, <1>8, <1>10, <1>11, <1>12, <1>13, <1>14, <1>15, OnlyTheseTouchDocs
     DEF CreatesDocs
<1> QED BY <1>16 DEF Told

RebuildShaped ==
    /\ rebuild = [p \in Indexers |-> rebuild[p]]
    /\ \A p \in Indexers : DOMAIN rebuild[p] = {"pc", "doc", "rev", "met", "todo"}

\* A rebuild ends early.
Ends(p) == \E later : RebuildFails(p, later) \/ RebuildRaises(p, later)

\* What touches entries, alarms and matches.
LEMMA OnlyTheseTouchIndex ==
    ASSUME [Next]_vars
    PROVE  \/ UNCHANGED <<index, rebuild, alarm, match>>
           \/ \E p \in Indexers : \/ \E d \in Docs : ReadDocument(p, d)
                                  \/ WriteIndex(p) \/ Evaluated(p) \/ Ends(p)
                                  \/ \E a, row : EvaluateAlarm(p, a, row)
           \/ \E a, row : SaveAlarm(a, row)
           \/ \E a : DeleteAlarm(a)
           \/ \E b : EmptyDocumentSpace(b) /\ NoticesLeft
BY DEF Ends, Next, DocumentsNext, TitleRulesNext, LinksNext, NoticesNext, OcrNext, BoxJobsNext,
       ExportsNext, AccountsNext, vars, Elsewhere, DocumentsOnly, RulesOnly, LinksOnly, OcrOnly,
       BoxJobsOnly, ExportsOnly, AccountsOnly, noticeVars, SaveDocumentReminder, EndDocumentReminder,
       ReminderComesDue, ListDueReminders, TellReminder, DispatcherDies

\* ... and that is kept as lost to its document.
LEMMA EndedIsLost ==
    ASSUME Counted, NEW p, Ends(p)
    PROVE  /\ rebuild[p].doc \in past'.lost
           /\ rebuild' = [rebuild EXCEPT ![p] = NotRebuilding]
           /\ UNCHANGED <<index, alarm, match>>
<1>1. PICK later : RebuildFails(p, later) \/ RebuildRaises(p, later)
  BY DEF Ends
<1>2. RebuildEnds(p, later)
  BY <1>1 DEF RebuildFails, RebuildRaises
<1>3. \/ FailureFor(LostBy(p, later))
      \/ past' = [past EXCEPT !.lost = @ \cup LostBy(p, later)]
  BY <1>1, Zenon DEF RebuildFails, RebuildRaises
<1>4. past'.lost = past.lost \cup LostBy(p, later)
  BY <1>3 DEF FailureFor, Counted
<1> QED BY <1>2, <1>4 DEF RebuildEnds, LostBy

LEMMA RebuildStaysShaped ==
    ASSUME RebuildShaped, Counted, [Next]_vars
    PROVE  RebuildShaped'
<1>1. CASE UNCHANGED <<index, rebuild, alarm, match>>
  BY <1>1 DEF RebuildShaped
<1>2. DOMAIN NotRebuilding = {"pc", "doc", "rev", "met", "todo"}
  BY DEF NotRebuilding
<1>3. ASSUME NEW p \in Indexers, NEW d, ReadDocument(p, d) PROVE RebuildShaped'
  <2>1. UNCHANGED rebuild
        \/ rebuild' = [q \in Indexers |->
                          IF q = p THEN [NotRebuilding EXCEPT !.pc = "read", !.doc = d,
                                                              !.rev = doc[d].rev,
                                                              !.met = Reading(d) # {}]
                          ELSE IF q \in Reading(d) THEN [rebuild[q] EXCEPT !.met = TRUE]
                          ELSE rebuild[q]]
    BY <1>3, Zenon DEF ReadDocument
  <2> QED BY <1>2, <2>1 DEF RebuildShaped
<1>4. ASSUME NEW p \in Indexers, \/ WriteIndex(p) \/ Evaluated(p) \/ Ends(p)
                                 \/ \E a, row : EvaluateAlarm(p, a, row)
      PROVE  RebuildShaped'
  <2>1. \/ rebuild' = [rebuild EXCEPT ![p] = NotRebuilding]
        \/ \E pc, todo : rebuild' = [rebuild EXCEPT ![p].pc = pc, ![p].todo = todo]
        \/ \E todo : rebuild' = [rebuild EXCEPT ![p].todo = todo]
    BY <1>4, EndedIsLost, Zenon DEF WriteIndex, Evaluated, EvaluateAlarm
  <2> QED BY <1>2, <2>1 DEF RebuildShaped
<1>5. ASSUME UNCHANGED rebuild PROVE RebuildShaped'
  BY <1>5 DEF RebuildShaped
<1> QED BY <1>1, <1>3, <1>4, <1>5, OnlyTheseTouchIndex DEF SaveAlarm, DeleteAlarm, NoticesLeft

\* The entry shows the document as it is, or is of rebuilds that met.
Shown(d) == d \in DOMAIN index /\ (index[d].rev = doc[d].rev \/ index[d].raced)

\* The entry is up to date, or will be; and who holds the document as it was
\* before has met another rebuild, or is followed by one.
Followed(d) ==
    /\ Waits(d) \/ Reading(d) # {} \/ Shown(d)
    /\ \A p \in Reading(d) : rebuild[p].rev = doc[d].rev \/ rebuild[p].met \/ Waits(d)

EntriesFollow == \A d \in Docs \ past.lost : Exists(d) => Followed(d)

Fresh == Shaped /\ Counted /\ PendingShaped /\ RebuildShaped /\ EntriesFollow

\* Who reads the document, after a step of a process that runs callbacks.
LEMMA ReadingAfterRead ==
    ASSUME RebuildShaped, NEW p \in Indexers, NEW d, ReadDocument(p, d)
    PROVE  /\ p \in Reading(d)' /\ rebuild'[p].rev = doc[d].rev
           /\ \A q \in Reading(d)' \ {p} : rebuild'[q].met
           /\ \A e : e # d => /\ Reading(e)' = Reading(e)
                              /\ \A q \in Reading(e) : rebuild'[q] = rebuild[q]
<1>1. rebuild' = [q \in Indexers |->
                    IF q = p THEN [NotRebuilding EXCEPT !.pc = "read", !.doc = d,
                                                        !.rev = doc[d].rev,
                                                        !.met = Reading(d) # {}]
                    ELSE IF q \in Reading(d) THEN [rebuild[q] EXCEPT !.met = TRUE]
                    ELSE rebuild[q]]
  BY Zenon DEF ReadDocument
<1>2. rebuild[p] = NotRebuilding
  BY DEF ReadDocument
<1>3. p \notin Reading(d) /\ \A e : p \notin Reading(e)
  BY <1>2 DEF Reading, NotRebuilding
<1>4. \A q \in Indexers : DOMAIN rebuild[q] = {"pc", "doc", "rev", "met", "todo"}
  BY DEF RebuildShaped
<1> DEFINE mine == [NotRebuilding EXCEPT !.pc = "read", !.doc = d, !.rev = doc[d].rev,
                                         !.met = Reading(d) # {}]
<1>5. rebuild'[p] = mine /\ mine.pc = "read" /\ mine.doc = d /\ mine.rev = doc[d].rev
  BY <1>1 DEF NotRebuilding
<1>6. \A q \in Indexers \ {p} :
        rebuild'[q] = IF q \in Reading(d) THEN [rebuild[q] EXCEPT !.met = TRUE] ELSE rebuild[q]
  BY <1>1
<1> HIDE DEF mine
<1>7. \A q \in Indexers \ {p} : /\ rebuild'[q].pc = rebuild[q].pc /\ rebuild'[q].doc = rebuild[q].doc
                                /\ q \in Reading(d) => rebuild'[q].met
                                /\ q \notin Reading(d) => rebuild'[q] = rebuild[q]
  BY <1>4, <1>6
<1>8. Reading(d)' = Reading(d) \cup {p}
  BY <1>5, <1>7 DEF Reading
<1>9. ASSUME NEW e, e # d
      PROVE  Reading(e)' = Reading(e) /\ \A q \in Reading(e) : rebuild'[q] = rebuild[q]
  <2>1. Reading(e)' = Reading(e)
    BY <1>3, <1>5, <1>7, <1>9 DEF Reading
  <2>2. \A q \in Reading(e) : q # p /\ q \in Indexers /\ q \notin Reading(d)
    BY <1>3, <1>9 DEF Reading
  <2> QED BY <1>7, <2>1, <2>2
<1>10. \A q \in Reading(d)' \ {p} : rebuild'[q].met
  <2>1. \A q \in Reading(d) : q \in Indexers
    BY DEF Reading
  <2> QED BY <1>7, <1>8, <2>1
<1> QED BY <1>5, <1>8, <1>9, <1>10

\* A process that wrote, or gave up, reads no more.
LEMMA ReadingAfterOthers ==
    ASSUME RebuildShaped, Counted,
           NEW p \in Indexers, \/ WriteIndex(p) \/ Evaluated(p) \/ Ends(p)
                               \/ \E a, row : EvaluateAlarm(p, a, row)
    PROVE  /\ \A q \in Indexers \ {p} : rebuild'[q] = rebuild[q]
           /\ \A e : Reading(e)' = Reading(e) \ {p}
<1>1. \/ rebuild' = [rebuild EXCEPT ![p] = NotRebuilding]
      \/ \E todo : rebuild' = [rebuild EXCEPT ![p].pc = "written", ![p].todo = todo]
      \/ /\ rebuild[p].pc = "written"
         /\ \E todo : rebuild' = [rebuild EXCEPT ![p].todo = todo]
  BY EndedIsLost, Zenon DEF WriteIndex, Evaluated, EvaluateAlarm
<1>2. /\ \A q \in Indexers \ {p} : rebuild'[q] = rebuild[q]
      /\ rebuild'[p].pc # "read"
  <2>1. DOMAIN rebuild = Indexers /\ DOMAIN rebuild[p] = {"pc", "doc", "rev", "met", "todo"}
    BY DEF RebuildShaped
  <2>2. CASE rebuild' = [rebuild EXCEPT ![p] = NotRebuilding]
    BY <2>1, <2>2 DEF NotRebuilding
  <2>3. ASSUME NEW todo, rebuild' = [rebuild EXCEPT ![p].pc = "written", ![p].todo = todo]
        PROVE  (\A q \in Indexers \ {p} : rebuild'[q] = rebuild[q]) /\ rebuild'[p].pc # "read"
    BY <2>1, <2>3
  <2>4. ASSUME rebuild[p].pc = "written",
               NEW todo, rebuild' = [rebuild EXCEPT ![p].todo = todo]
        PROVE  (\A q \in Indexers \ {p} : rebuild'[q] = rebuild[q]) /\ rebuild'[p].pc # "read"
    BY <2>1, <2>4
  <2> QED BY <1>1, <2>2, <2>3, <2>4
<1> QED BY <1>2 DEF Reading

\* What no step changes about a document that waits for nothing.
LEMMA UntoldIsUnchanged ==
    ASSUME Shaped, Counted, PendingShaped, [Next]_vars,
           NEW d \in Docs' \ past'.lost, Exists(d)', ~ Waits(d)'
    PROVE  /\ d \in Docs /\ doc'[d].rev = doc[d].rev /\ doc'[d].box = doc[d].box
           /\ Exists(d)
           /\ Active(d)' => Active(d)
           /\ (~ Waits(d) /\ d \notin past.lost) \/ \E p \in Indexers : ReadDocument(p, d)
<1>1. d \in Docs /\ doc'[d].rev = doc[d].rev /\ doc'[d].box = doc[d].box
  BY ChangesAreScheduled
<1>2. doc'[d].status = "active" => doc[d].status = "active"
  BY <1>1, ChangesAreScheduled
<1>3. doc[d].status = "purged" => doc'[d].status = "purged"
  BY <1>1, StaysShaped DEF DocsKept
<1>4. Exists(d)
  BY <1>1, <1>3 DEF Exists
<1>5. ~ Waits(d) \/ \E p \in Indexers : ReadDocument(p, d)
  BY <1>4, CallbacksStay
<1>6. d \notin past.lost \/ \E p \in Indexers : ReadDocument(p, d)
  BY LostStays
<1> QED BY <1>1, <1>2, <1>4, <1>5, <1>6 DEF Active

LEMMA EntriesStillFollow ==
    ASSUME Fresh, [Next]_vars
    PROVE  EntriesFollow'
<1> USE DEF Fresh
<1> SUFFICES ASSUME NEW d \in Docs' \ past'.lost, Exists(d)', ~ Waits(d)'
             PROVE  Followed(d)'
  BY DEF EntriesFollow, Followed
<1>2. /\ d \in Docs /\ doc'[d].rev = doc[d].rev /\ Exists(d)
      /\ (~ Waits(d) /\ d \notin past.lost) \/ \E p \in Indexers : ReadDocument(p, d)
  BY UntoldIsUnchanged
<1>4. ASSUME NEW p \in Indexers, ReadDocument(p, d) PROVE Followed(d)'
  BY <1>2, <1>4, ReadingAfterRead DEF Followed
<1>5. CASE ~ Waits(d) /\ d \notin past.lost
  <2>1. /\ Reading(d) # {} \/ Shown(d)
        /\ \A p \in Reading(d) : rebuild[p].rev = doc[d].rev \/ rebuild[p].met
    BY <1>2, <1>5 DEF EntriesFollow, Followed
  <2>2. ASSUME UNCHANGED <<rebuild, index>> PROVE Followed(d)'
    <3>1. Reading(d)' = Reading(d) /\ (Shown(d) => Shown(d)')
      BY <1>2, <2>2 DEF Reading, Shown
    <3> QED BY <1>2, <2>1, <2>2, <3>1 DEF Followed
  <2>3. ASSUME NEW p \in Indexers, NEW e \in Docs, ReadDocument(p, e) PROVE Followed(d)'
    <3>1. UNCHANGED index
      BY <2>3 DEF ReadDocument
    <3>2. CASE e = d
      BY <1>4, <2>3, <3>2
    <3>3. CASE e # d
      <4>1. Reading(d)' = Reading(d) /\ \A q \in Reading(d) : rebuild'[q] = rebuild[q]
        BY <2>3, <3>3, ReadingAfterRead
      <4>2. Shown(d) => Shown(d)'
        BY <1>2, <3>1 DEF Shown
      <4> QED BY <1>2, <2>1, <4>1, <4>2 DEF Followed
    <3> QED BY <3>2, <3>3
  <2>4. ASSUME NEW p \in Indexers, \/ WriteIndex(p) \/ Evaluated(p) \/ Ends(p)
                                   \/ \E a, row : EvaluateAlarm(p, a, row)
        PROVE  Followed(d)'
    <3>1. /\ Reading(d)' = Reading(d) \ {p}
          /\ \A q \in Reading(d)' : rebuild'[q] = rebuild[q]
      BY <2>4, ReadingAfterOthers DEF Reading
    <3>2. \A q \in Reading(d)' : rebuild'[q].rev = doc'[d].rev \/ rebuild'[q].met
      BY <1>2, <2>1, <3>1
    <3>3. CASE p \in Reading(d)
      <4>1. rebuild[p].pc = "read" /\ rebuild[p].doc = d
        BY <3>3 DEF Reading
      <4>2. WriteIndex(p)
        BY <2>4, <4>1, EndedIsLost DEF Evaluated, EvaluateAlarm
      <4>3. index' = UpdatedOrCreated(d, p)
        BY <4>1, <4>2 DEF WriteIndex
      <4>4. d \in DOMAIN index' /\ index'[d] = [rev |-> rebuild[p].rev, raced |-> rebuild[p].met]
        BY <4>3 DEF UpdatedOrCreated, Upsert
      <4>5. rebuild[p].rev = doc[d].rev \/ rebuild[p].met
        BY <2>1, <3>3
      <4>6. Shown(d)'
        BY <1>2, <4>4, <4>5 DEF Shown
      <4> QED BY <3>2, <4>6 DEF Followed
    <3>4. CASE p \notin Reading(d)
      <4>1. UNCHANGED index \/ (\E e : e # d /\ index' = UpdatedOrCreated(e, p))
        <5>1. WriteIndex(p) => rebuild[p].doc # d
          BY <3>4 DEF Reading, WriteIndex
        <5>2. WriteIndex(p) => index' = UpdatedOrCreated(rebuild[p].doc, p)
          BY DEF WriteIndex
        <5> QED BY <2>4, <5>1, <5>2, EndedIsLost DEF Evaluated, EvaluateAlarm
      <4>2. Shown(d) => d \in DOMAIN index' /\ index'[d] = index[d]
        BY <4>1 DEF Shown, UpdatedOrCreated, Upsert
      <4>3. Shown(d) => Shown(d)'
        BY <1>2, <4>2 DEF Shown
      <4> QED BY <2>1, <3>1, <3>2, <3>4, <4>3 DEF Followed
    <3> QED BY <3>3, <3>4
  <2>5. ASSUME NEW b, EmptyDocumentSpace(b), NoticesLeft PROVE Followed(d)'
    <3>1. UNCHANGED rebuild /\ (d \in DOMAIN index => d \in DOMAIN index' /\ index'[d] = index[d])
      BY <2>5 DEF NoticesLeft, Exists
    <3>2. Reading(d)' = Reading(d) /\ (Shown(d) => Shown(d)')
      BY <1>2, <3>1 DEF Reading, Shown
    <3> QED BY <1>2, <2>1, <3>1, <3>2 DEF Followed
  <2> QED BY <2>2, <2>3, <2>4, <2>5, OnlyTheseTouchIndex DEF SaveAlarm, DeleteAlarm
<1> QED BY <1>2, <1>4, <1>5

LEMMA FreshAtFirst == ASSUME Init PROVE Fresh
<1>1. Counted /\ PendingShaped /\ pending = EmptyBag
  BY DEF Init, DocumentsInit, Counted, PendingShaped, EmptyBag, SetToBag
<1>2. RebuildShaped
  BY DEF Init, NoticesInit, RebuildShaped, NotRebuilding
<1>3. \A d \in Docs : Reading(d) = {} /\ Shown(d)
  BY DEF Init, NoticesInit, Reading, Shown, NotRebuilding
<1> QED BY <1>1, <1>2, <1>3, ShapedAtFirst DEF Fresh, EntriesFollow, Followed

LEMMA FreshStays == ASSUME Fresh, [Next]_vars PROVE Fresh'
BY StaysShaped, CountedStays, CallbacksStay, RebuildStaysShaped, EntriesStillFollow DEF Fresh

\* The callbacks for search entries, in any number of processes and any order
\* with requests and jobs: when none is left, every entry shows its document as
\* it is, whichever processes died and whichever callbacks raised and took later
\* ones along - but for a document that lost a rebuild to one of these and has
\* had none since, and one of which two rebuilds overlapped.
THEOREM IndexStaysFresh == Spec => []IndexFresh
<1>1. Init => Fresh
  BY FreshAtFirst
<1>2. Fresh /\ [Next]_vars => Fresh'
  BY FreshStays
<1>3. Fresh => IndexFresh
  <2> SUFFICES ASSUME Fresh, Settled, NEW d \in Docs \ past.lost, Exists(d) PROVE Shown(d)
    BY DEF IndexFresh, Shown
  <2>1. ~ Waits(d)
    BY DEF Settled, Waits
  <2>2. Reading(d) = {}
    BY DEF Settled, Reading, NotRebuilding
  <2> QED BY <2>1, <2>2 DEF Fresh, EntriesFollow, Followed, Settled
<1> QED BY <1>1, <1>2, <1>3, PTL DEF Spec

\* A process has the alarm still to try on the document.
Trying(a, d) ==
    \E p \in Indexers : /\ rebuild[p].pc = "written" /\ rebuild[p].doc = d
                        /\ <<a, alarm[a]>> \in rebuild[p].todo

\* The document came or changed, and the alarm is on, and fits it by its entry.
Due(a, d) ==
    /\ Matches(alarm[a], d) /\ alarm[a].active
    /\ d > Len(bound.first) \/ doc[d].rev > 0

AlarmsFollow ==
    bound.does \cap {"alarms", "boxes"} = {} =>
        \A a \in DOMAIN alarm, d \in Docs \ past.lost :
            Due(a, d) => Waits(d) \/ Reading(d) # {} \/ Trying(a, d) \/ <<a, d>> \in match

\* While nobody changes alarms, processes try them as they are.
TodoKnown ==
    "alarms" \notin bound.does =>
        \A p \in Indexers : rebuild[p].pc = "written" =>
            \A x \in rebuild[p].todo : x[1] \in DOMAIN alarm

AlarmsKnown == \A a \in DOMAIN alarm : alarm[a].box \in DOMAIN box \cup {Root}

Telling == Fresh /\ Tree /\ TodoKnown /\ AlarmsKnown /\ AlarmsFollow

LEMMA AlarmsStayKnown ==
    ASSUME AlarmsKnown, [Next]_vars
    PROVE  AlarmsKnown'
<1>1. DOMAIN box \subseteq DOMAIN box'
  BY BoxesStay
<1>2. CASE UNCHANGED alarm
  BY <1>1, <1>2 DEF AlarmsKnown
<1>3. ASSUME NEW a, NEW row, SaveAlarm(a, row) PROVE AlarmsKnown'
  BY <1>1, <1>3 DEF SaveAlarm, Upsert, AlarmsKnown, Usable, Offered
<1>4. ASSUME NEW a, DeleteAlarm(a) PROVE AlarmsKnown'
  BY <1>1, <1>4 DEF DeleteAlarm, Restrict, AlarmsKnown
<1> QED BY <1>2, <1>3, <1>4, OnlyTheseTouchIndex
        DEF ReadDocument, WriteIndex, Evaluated, Ends, RebuildFails, RebuildRaises, RebuildEnds,
            EvaluateAlarm, NoticesLeft

\* Alarms are changed by requests of their own only.
LEMMA AlarmsUnchanged ==
    ASSUME [Next]_vars, "alarms" \notin bound.does
    PROVE  /\ UNCHANGED alarm
           /\ \/ UNCHANGED <<index, rebuild, match>>
              \/ \E p \in Indexers : \/ \E d \in Docs : ReadDocument(p, d)
                                     \/ WriteIndex(p) \/ Evaluated(p) \/ Ends(p)
                                     \/ \E a, row : EvaluateAlarm(p, a, row)
              \/ \E b : EmptyDocumentSpace(b) /\ NoticesLeft
BY OnlyTheseTouchIndex DEF SaveAlarm, DeleteAlarm, Request, ReadDocument, WriteIndex, Evaluated,
   Ends, RebuildFails, RebuildRaises, RebuildEnds, EvaluateAlarm, NoticesLeft

LEMMA TodoStaysKnown ==
    ASSUME RebuildShaped, Counted, TodoKnown, [Next]_vars
    PROVE  TodoKnown'
<1> SUFFICES ASSUME "alarms" \notin bound'.does, NEW q \in Indexers, rebuild'[q].pc = "written",
                    NEW x \in rebuild'[q].todo
             PROVE  x[1] \in DOMAIN alarm'
  BY DEF TodoKnown
<1>1. "alarms" \notin bound.does /\ UNCHANGED alarm
  BY BoundStays, AlarmsUnchanged
<1>2. \A p \in Indexers : rebuild[p].pc = "written" =>
          \A y \in rebuild[p].todo : y[1] \in DOMAIN alarm
  BY <1>1 DEF TodoKnown
<1>3. CASE rebuild'[q] = rebuild[q]
  BY <1>1, <1>2, <1>3
<1>4. DOMAIN rebuild = Indexers /\ DOMAIN rebuild[q] = {"pc", "doc", "rev", "met", "todo"}
  BY DEF RebuildShaped
<1>5. ASSUME NEW p \in Indexers, NEW d, ReadDocument(p, d), rebuild'[q] # rebuild[q] PROVE FALSE
  <2>2. q \in Reading(d)'
    <3>1. q = p \/ q \in Reading(d)
      BY <1>5, Zenon DEF ReadDocument
    <3>2. CASE q = p
      BY <1>5, <3>2, ReadingAfterRead
    <3>3. CASE q # p /\ q \in Reading(d)
      <4>1. rebuild'[q] = [rebuild[q] EXCEPT !.met = TRUE]
        BY <1>5, <3>3, Zenon DEF ReadDocument
      <4> QED BY <1>4, <3>3, <4>1 DEF Reading
    <3> QED BY <3>1, <3>2, <3>3
  <2> QED BY <2>2 DEF Reading
<1>6. CASE WriteIndex(q)
  <2>1. rebuild'[q].todo = AlarmsToTry(rebuild[q].doc)
    BY <1>4, <1>6 DEF WriteIndex
  <2> QED BY <1>1, <2>1 DEF AlarmsToTry
<1>7. CASE Evaluated(q) \/ Ends(q)
  <2>1. rebuild' = [rebuild EXCEPT ![q] = NotRebuilding]
    BY <1>7, EndedIsLost DEF Evaluated
  <2> QED BY <1>4, <2>1 DEF NotRebuilding
<1>8. ASSUME NEW a, NEW row, EvaluateAlarm(q, a, row) PROVE x[1] \in DOMAIN alarm'
  <2>1. rebuild'[q].todo \subseteq rebuild[q].todo /\ rebuild[q].pc = "written"
    BY <1>4, <1>8 DEF EvaluateAlarm
  <2> QED BY <1>1, <1>2, <2>1
<1>9. ASSUME NEW p \in Indexers, p # q, \/ WriteIndex(p) \/ Evaluated(p) \/ Ends(p)
                                        \/ \E a, row : EvaluateAlarm(p, a, row)
      PROVE  rebuild'[q] = rebuild[q]
  BY <1>9, ReadingAfterOthers
<1> QED BY <1>1, <1>3, <1>5, <1>6, <1>7, <1>8, <1>9, AlarmsUnchanged DEF NoticesLeft

\* Boxes keep their paths while nobody edits boxes.
LEMMA PathsStay ==
    ASSUME TreeShaped, [Next]_vars, "boxes" \notin bound.does
    PROVE  DOMAIN box' = DOMAIN box /\ \A b \in DOMAIN box : box'[b].path = box[b].path
<1>1. CASE UNCHANGED box
  BY <1>1
<1>2. ASSUME NEW b, NEW target, DeleteDocumentSpace(b, target)
      PROVE  DOMAIN box' = DOMAIN box /\ \A c \in DOMAIN box : box'[c].path = box[c].path
  <2>1. PICK subtree : box' = SpacesDeleted(subtree)
    BY <1>2 DEF DeleteDocumentSpace
  <2>2. \A c \in DOMAIN box :
          DOMAIN box[c] = {"parent", "slug", "path", "active", "deleted"}
    BY DEF TreeShaped, DocumentSpace
  <2> QED BY <2>1, <2>2 DEF SpacesDeleted
<1> QED BY <1>1, <1>2, OnlyTheseTouchBoxes DEF CreateDocumentSpace, UpdateDocumentSpace, Request

\* An alarm fits a document as before, if its entry and its place are as before.
LEMMA DueAsBefore ==
    ASSUME TreeShaped, AlarmsKnown, [Next]_vars, bound.does \cap {"alarms", "boxes"} = {},
           NEW a \in DOMAIN alarm, NEW d \in Docs, Due(a, d)',
           doc'[d].box = doc[d].box, doc'[d].rev = doc[d].rev, Active(d)' => Active(d),
           d \in DOMAIN index' => d \in DOMAIN index /\ index'[d] = index[d]
    PROVE  Due(a, d)
<1>1. bound' = bound /\ alarm' = alarm
  BY BoundStays, AlarmsUnchanged
<1>2. DOMAIN box' = DOMAIN box /\ \A b \in DOMAIN box : box'[b].path = box[b].path
  BY PathsStay
<1>3. /\ Matches(alarm[a], d)' /\ alarm[a].active
      /\ d > Len(bound.first) \/ doc[d].rev > 0
  BY <1>1 DEF Due
<1>4. alarm[a].box \in DOMAIN box \cup {Root}
  BY DEF AlarmsKnown
<1>5. ASSUME alarm[a].box \in DOMAIN box
      PROVE  \A b : b \in Below(alarm[a].box)' => b \in Below(alarm[a].box)
  BY <1>1, <1>2, <1>5 DEF Below
<1>6. Matches(alarm[a], d)
  BY <1>1, <1>3, <1>4, <1>5 DEF Matches
<1> QED BY <1>3, <1>6 DEF Due

LEMMA AlarmsStillFollow ==
    ASSUME Telling, [Next]_vars
    PROVE  AlarmsFollow'
<1> USE DEF Telling, Fresh
<1> DEFINE Owed(a, d) == Reading(d) # {} \/ Trying(a, d) \/ <<a, d>> \in match
<1> SUFFICES ASSUME bound'.does \cap {"alarms", "boxes"} = {},
                    NEW a \in DOMAIN alarm', NEW d \in Docs' \ past'.lost, Due(a, d)', ~ Waits(d)'
             PROVE  Owed(a, d)'
  BY DEF AlarmsFollow
<1>1. /\ bound' = bound /\ bound.does \cap {"alarms", "boxes"} = {}
      /\ alarm' = alarm /\ a \in DOMAIN alarm
  BY BoundStays, AlarmsUnchanged
<1>6. Active(d)' /\ Exists(d)' /\ alarm[a].active
  BY <1>1 DEF Due, Matches, Active, Exists
<1>2. /\ d \in Docs /\ doc'[d].rev = doc[d].rev /\ doc'[d].box = doc[d].box
      /\ Active(d)' => Active(d)
      /\ (~ Waits(d) /\ d \notin past.lost) \/ \E p \in Indexers : ReadDocument(p, d)
  BY <1>6, UntoldIsUnchanged
<1>3. Active(d) /\ alarm[a].active
  BY <1>2, <1>6
<1>4. ASSUME NEW p \in Indexers, ReadDocument(p, d) PROVE Owed(a, d)'
  BY <1>3, <1>4, ReadingAfterRead
<1>5. CASE ~ Waits(d) /\ d \notin past.lost
  <2>1. ASSUME d \in DOMAIN index' => d \in DOMAIN index /\ index'[d] = index[d] PROVE Owed(a, d)
    <3>1. Due(a, d)
      BY <1>1, <1>2, <2>1, DueAsBefore DEF Tree
    <3> QED BY <1>1, <1>2, <1>5, <3>1 DEF AlarmsFollow
  <2>2. ASSUME UNCHANGED <<rebuild, index>>, <<a, d>> \in match => <<a, d>> \in match'
        PROVE  Owed(a, d)'
    <3>1. Owed(a, d)
      BY <2>1, <2>2
    <3>2. Reading(d)' = Reading(d) /\ (Trying(a, d) => Trying(a, d)')
      BY <1>1, <2>2 DEF Reading, Trying
    <3> QED BY <2>2, <3>1, <3>2
  <2>3. ASSUME NEW p \in Indexers, NEW e \in Docs, ReadDocument(p, e) PROVE Owed(a, d)'
    <3>1. UNCHANGED <<index, match>> /\ rebuild[p] = NotRebuilding
      BY <2>3 DEF ReadDocument
    <3>2. CASE e = d
      BY <1>4, <2>3, <3>2
    <3>3. CASE e # d
      <4>1. Reading(d)' = Reading(d)
        BY <2>3, <3>3, ReadingAfterRead
      <4>2. \A q \in Indexers : rebuild[q].pc = "written" => rebuild'[q] = rebuild[q]
        <5> SUFFICES ASSUME NEW q \in Indexers, rebuild[q].pc = "written" PROVE rebuild'[q] = rebuild[q]
          OBVIOUS
        <5>1. q # p /\ q \notin Reading(e)
          BY <3>1 DEF Reading, NotRebuilding
        <5> QED BY <2>3, <3>3, <5>1, Zenon DEF ReadDocument
      <4>3. Trying(a, d) => Trying(a, d)'
        BY <1>1, <4>2 DEF Trying
      <4> QED BY <2>1, <3>1, <4>1, <4>3
    <3> QED BY <3>2, <3>3
  <2>4. ASSUME NEW p \in Indexers, \/ WriteIndex(p) \/ Evaluated(p) \/ Ends(p)
                                   \/ \E b, row : EvaluateAlarm(p, b, row)
        PROVE  Owed(a, d)'
    <3>1. /\ Reading(d)' = Reading(d) \ {p}
          /\ \A q \in Indexers \ {p} : rebuild'[q] = rebuild[q]
      BY <2>4, ReadingAfterOthers
    <3>2. DOMAIN rebuild = Indexers /\ DOMAIN rebuild[p] = {"pc", "doc", "rev", "met", "todo"}
      BY DEF RebuildShaped
    <3>3. ASSUME NEW q \in Indexers \ {p}, rebuild[q].pc = "written", rebuild[q].doc = d,
                 <<a, alarm[a]>> \in rebuild[q].todo
          PROVE  Trying(a, d)'
      BY <1>1, <3>1, <3>3 DEF Trying
    <3>4. CASE WriteIndex(p) /\ rebuild[p].doc = d
      <4>1. rebuild' = [rebuild EXCEPT ![p].pc = "written", ![p].todo = AlarmsToTry(d)]
        BY <3>4 DEF WriteIndex
      <4>2. rebuild'[p].pc = "written" /\ rebuild'[p].doc = d /\ rebuild'[p].todo = AlarmsToTry(d)
        BY <3>2, <3>4, <4>1
      <4>3. <<a, alarm[a]>> \in AlarmsToTry(d)
        BY <1>1, <1>3 DEF AlarmsToTry
      <4> QED BY <1>1, <4>2, <4>3 DEF Trying
    <3>5. CASE WriteIndex(p) /\ rebuild[p].doc # d
      <4>1. index' = UpdatedOrCreated(rebuild[p].doc, p)
        BY <3>5 DEF WriteIndex
      <4>2. d \in DOMAIN index' => d \in DOMAIN index /\ index'[d] = index[d]
        BY <3>5, <4>1 DEF UpdatedOrCreated, Upsert
      <4>3. Owed(a, d) /\ UNCHANGED match /\ rebuild[p].pc = "read"
        BY <2>1, <3>5, <4>2 DEF WriteIndex
      <4>4. p \notin Reading(d)
        BY <3>5 DEF Reading
      <4>5. Trying(a, d) => Trying(a, d)'
        BY <3>3, <4>3 DEF Trying
      <4> QED BY <3>1, <4>3, <4>4, <4>5
    <3>6. CASE Evaluated(p)
      <4>1. Owed(a, d) /\ UNCHANGED match /\ rebuild[p].pc = "written" /\ rebuild[p].todo = {}
        BY <2>1, <3>6 DEF Evaluated
      <4>2. p \notin Reading(d)
        BY <4>1 DEF Reading
      <4>3. Trying(a, d) => Trying(a, d)'
        BY <3>3, <4>1 DEF Trying
      <4> QED BY <3>1, <4>1, <4>2, <4>3
    <3>8. CASE Ends(p)
      <4>1. /\ rebuild[p].doc # d /\ UNCHANGED <<index, match>>
            /\ Owed(a, d)
        BY <2>1, <3>8, EndedIsLost
      <4>2. p \notin Reading(d)
        BY <4>1 DEF Reading
      <4>3. Trying(a, d) => Trying(a, d)'
        BY <3>3, <4>1 DEF Trying
      <4> QED BY <3>1, <4>1, <4>2, <4>3
    <3>7. ASSUME NEW b, NEW row, EvaluateAlarm(p, b, row) PROVE Owed(a, d)'
      <4>1. /\ rebuild[p].pc = "written" /\ <<b, row>> \in rebuild[p].todo
            /\ UNCHANGED index /\ match \subseteq match'
        BY <3>7 DEF EvaluateAlarm
      <4>2. b \in DOMAIN alarm
        <5>1. <<b, row>>[1] \in DOMAIN alarm
          BY <1>1, <4>1 DEF TodoKnown
        <5> QED BY <5>1
      <4>3. rebuild' = [rebuild EXCEPT ![p].todo = @ \ {<<b, row>>}]
        BY <3>7, <4>2 DEF EvaluateAlarm
      <4>4. /\ rebuild'[p].pc = "written" /\ rebuild'[p].doc = rebuild[p].doc
            /\ rebuild'[p].todo = rebuild[p].todo \ {<<b, row>>}
        BY <3>2, <4>1, <4>3
      <4>5. p \notin Reading(d) /\ Owed(a, d)
        BY <2>1, <4>1 DEF Reading
      <4>6. CASE rebuild[p].doc = d /\ <<a, alarm[a]>> = <<b, row>>
        <5>1. b = a /\ row = alarm[a]
          BY <4>6
        <5>2. Due(a, d)
          BY <1>1, <1>2, <4>1, DueAsBefore DEF Tree
        <5>3. Matches(row, rebuild[p].doc)
          BY <4>6, <5>1, <5>2 DEF Due
        <5>4. <<a, d>> \in match'
          BY <3>7, <4>2, <4>6, <5>1, <5>3 DEF EvaluateAlarm
        <5> QED BY <5>4
      <4>7. CASE ~ (rebuild[p].doc = d /\ <<a, alarm[a]>> = <<b, row>>)
        <5>1. Trying(a, d) => Trying(a, d)'
          BY <1>1, <3>3, <4>4, <4>7 DEF Trying
        <5> QED BY <3>1, <4>1, <4>5, <5>1
      <4> QED BY <4>6, <4>7
    <3> QED BY <2>4, <3>4, <3>5, <3>6, <3>7, <3>8
  <2>5. ASSUME NEW b, EmptyDocumentSpace(b), NoticesLeft PROVE Owed(a, d)'
    <3>1. /\ UNCHANGED rebuild /\ (<<a, d>> \in match => <<a, d>> \in match')
          /\ d \in DOMAIN index' => d \in DOMAIN index /\ index'[d] = index[d]
      BY <1>3, <1>6, <2>5 DEF NoticesLeft, Exists
    <3>2. Reading(d)' = Reading(d) /\ (Trying(a, d) => Trying(a, d)')
      BY <1>1, <3>1 DEF Reading, Trying
    <3> QED BY <2>1, <3>1, <3>2
  <2> HIDE DEF Owed
  <2> QED BY <1>1, <2>2, <2>3, <2>4, <2>5, AlarmsUnchanged
<1> QED BY <1>2, <1>4, <1>5

\* When no callback is left, an active document that came or changed has a match
\* with each alarm that fits it, however requests and jobs came between its entry
\* and the alarms tried on it - but for a document that lost a rebuild, or the
\* rest of one, to a process that died or to something that raised before it, a
\* refused mail or message, and has had none since.
THEOREM AlarmsAreTold == Spec => []AlarmTold
<1>1. Init => Telling
  <2> SUFFICES ASSUME Init PROVE Telling
    OBVIOUS
  <2>1. bound \in Bounds /\ alarm = bound.alarms /\ doc = bound.first /\ DOMAIN box = DOMAIN FirstBoxes
    BY DEF Init, NoticesInit, DocumentsInit
  <2>2. AlarmsKnown
    BY <2>1, NoticesAssumption DEF NoticesAssumption, AlarmsKnown
  <2>3. TodoKnown
    BY DEF Init, NoticesInit, TodoKnown, NotRebuilding
  <2>4. \A a, d : d \in Docs => ~ Due(a, d)
    <3> SUFFICES ASSUME NEW d \in Docs PROVE ~ (d > Len(bound.first) \/ doc[d].rev > 0)
      BY DEF Due
    <3> DEFINE FirstRows == [status : {"active", "deleted"}, box : DOMAIN FirstBoxes,
                        type : {"pdf", "office"}, title : {"manual", "filename", "ocr", "einvoice"},
                        meta : [ToSet(Fields) -> Values], rev : {0}]
    <3>1. doc \in Seq(FirstRows)
      BY <2>1, LinksAssumption DEF LinksAssumption
    <3>2. \A row \in FirstRows : row.rev = 0
      OBVIOUS
    <3> HIDE DEF FirstRows
    <3>3. d \in 1 .. Len(doc) /\ Len(doc) \in Nat /\ doc[d] \in FirstRows
      BY <3>1 DEF Docs
    <3> QED BY <2>1, <3>2, <3>3
  <2>5. AlarmsFollow
    BY <2>4 DEF AlarmsFollow
  <2> QED BY <2>2, <2>3, <2>5, FreshAtFirst, TreeAtFirst DEF Telling
<1>2. Telling /\ [Next]_vars => Telling'
  BY FreshStays, TreeStays, TodoStaysKnown, AlarmsStayKnown, AlarmsStillFollow DEF Telling, Fresh
<1>3. Telling => AlarmTold
  <2> SUFFICES ASSUME Telling, Settled, bound.does \cap {"alarms", "boxes"} = {},
                      NEW a \in DOMAIN alarm, NEW d \in Docs \ past.lost, Due(a, d)
               PROVE  <<a, d>> \in match
    BY DEF AlarmTold, Due
  <2>1. ~ Waits(d)
    BY DEF Settled, Waits
  <2>2. Reading(d) = {} /\ ~ Trying(a, d)
    BY DEF Settled, Reading, Trying, NotRebuilding
  <2> QED BY <2>1, <2>2 DEF Telling, AlarmsFollow, Settled
<1> QED BY <1>1, <1>2, <1>3, PTL DEF Spec

-----------------------------------------------------------------------------
(***************************************************************************)
(* The cursors of the jobs of boxes.                                       *)
(***************************************************************************)

\* A job for the documents of a box ends with one of them.
LEMMA LastInBox ==
    ASSUME DocsShaped, NEW kind, NEW b, NEW below
    PROVE  /\ NewBoxJob(kind, b, below).max \in Nat
           /\ NewBoxJob(kind, b, below).max \in {0} \cup Docs
<1> DEFINE inside == InBox(b, below)
<1>1. inside \subseteq Docs /\ Docs = 1 .. Len(doc) /\ Len(doc) \in Nat
  BY DEF DocsShaped, Docs, InBox
<1>2. CASE inside = {}
  BY <1>2 DEF NewBoxJob
<1>3. CASE inside # {}
  <2> DEFINE Above == {n \in Nat : \A d \in inside : d <= n}
  <2> HIDE DEF inside
  <2>1. Len(doc) \in Above /\ Above \subseteq Nat
    BY <1>1
  <2> HIDE DEF Above
  <2>2. PICK m \in Above : \A n \in Above : m <= n
    BY <2>1, SmallestExists
  <2>3. m \in inside
    <3> SUFFICES ASSUME m \notin inside PROVE FALSE
      OBVIOUS
    <3>1. m \in Nat /\ \A d \in inside : d \in Nat /\ d >= 1 /\ d <= m /\ d # m
      BY <1>1, <2>2 DEF Above
    <3>2. m - 1 \in Nat /\ \A d \in inside : d <= m - 1
      BY <1>3, <3>1
    <3>3. m - 1 \in Above
      BY <3>2 DEF Above
    <3> QED BY <2>2, <3>1, <3>3
  <2>4. m \in inside /\ \A e \in inside : e <= m
    BY <2>2, <2>3 DEF Above
  <2>5. (CHOOSE d \in inside : \A e \in inside : e <= d) \in inside
    BY <2>4
  <2> QED BY <1>1, <1>3, <2>5 DEF NewBoxJob, inside
<1> QED BY <1>2, <1>3

\* A batch is empty only if nothing is left to do.
LEMMA EmptyBatch ==
    ASSUME DocsShaped, NEW j, Batch(j) = {}
    PROVE  Remaining(j) = {}
<1> DEFINE left == Remaining(j)
<1> SUFFICES ASSUME left # {} PROVE FALSE
  OBVIOUS
<1>1. left \subseteq Nat
  BY DEF Remaining, InBox, Docs, DocsShaped
<1> HIDE DEF left
<1>2. PICK m \in left : \A n \in left : m <= n
  BY <1>1, SmallestExists
<1>3. {n \in left : n < m} = {}
  <2> SUFFICES ASSUME NEW n \in left, n < m PROVE FALSE
    OBVIOUS
  <2> QED BY <1>1, <1>2
<1>4. Cardinality({n \in left : n < m}) < BatchSize
  BY <1>3, FS_EmptySet, BoxJobsAssumption DEF BoxJobsAssumption
<1> QED BY <1>4 DEF Batch, left

RowHonest(row) ==
    /\ row.last \in Nat /\ row.max \in Nat
    /\ 1 .. row.last \subseteq row.done
    /\ row.status = "completed" => 1 .. row.max \subseteq row.done

Ids(todo) == {x.id : x \in todo}

\* What a worker has in its hands: behind each document of the batch everything
\* was worked on or is in the batch itself.
BatchHonest(hand, row) ==
    /\ hand.pc \in {"batch", "layout", "worked"}
    /\ hand.last \in Nat /\ 1 .. hand.last \subseteq row.done
    /\ Ids(hand.todo) \subseteq Nat
    /\ \A x \in hand.todo : 1 .. x.id \subseteq row.done \cup Ids(hand.todo)
    /\ hand.pc # "batch" => hand.todo # {}
    /\ hand.pc = "worked" => \A x \in hand.todo : (\A y \in hand.todo : x.id <= y.id) => x.id \in row.done
    /\ hand.empty => 1 .. row.max \subseteq row.done

Honest ==
    /\ \A j \in DOMAIN boxjob : RowHonest(boxjob[j])
    /\ \A w \in JobWorkers : worker[w].pc # "idle" =>
          BatchHonest(worker[w], boxjob[worker[w].job])

\* The next document is the first of the batch.
LEMMA NextIsFirst ==
    ASSUME NEW w, worker[w].todo # {}, Ids(worker[w].todo) \subseteq Nat
    PROVE  /\ NextDocument(w) \in worker[w].todo
           /\ \A x \in worker[w].todo : NextDocument(w).id <= x.id
<1>1. PICK m \in Ids(worker[w].todo) : \A n \in Ids(worker[w].todo) : m <= n
  BY SmallestExists DEF Ids
<1>2. PICK x \in worker[w].todo : x.id = m
  BY <1>1 DEF Ids
<1>3. \A y \in worker[w].todo : x.id <= y.id
  BY <1>1, <1>2 DEF Ids
<1> QED BY <1>2, <1>3 DEF NextDocument

\* A worker and its job go on, and the job forgets nothing that was done.
LEMMA OneHandHonest ==
    ASSUME Shaped, Honest, NEW w \in JobWorkers, NEW j \in DOMAIN boxjob, NEW row, NEW hand,
           boxjob' = [boxjob EXCEPT ![j] = row], worker' = [worker EXCEPT ![w] = hand],
           RowHonest(row), row.max = boxjob[j].max, boxjob[j].done \subseteq row.done,
           hand.pc # "idle" => hand.job = j /\ BatchHonest(hand, row)
    PROVE  Honest'
<1>1. DOMAIN boxjob' = DOMAIN boxjob /\ \A k \in DOMAIN boxjob : RowHonest(boxjob'[k])
  BY DEF Honest
<1>2. ASSUME NEW v \in JobWorkers, worker'[v].pc # "idle"
      PROVE  BatchHonest(worker'[v], boxjob'[worker'[v].job])
  <2>1. CASE v = w
    <3>1. worker'[v] = hand
      BY <2>1 DEF Shaped, BoxJobsShaped
    <3> QED BY <1>2, <3>1
  <2>2. CASE v # w
    <3>1. worker'[v] = worker[v] /\ worker[v].job \in DOMAIN boxjob
      BY <1>2, <2>2 DEF Shaped, BoxJobsShaped, WorkerShaped
    <3>2. BatchHonest(worker[v], boxjob[worker[v].job])
      BY <1>2, <3>1 DEF Honest
    <3>3. CASE worker[v].job = j
      <4>1. BatchHonest(worker[v], row)
        BY <3>2, <3>3 DEF BatchHonest
      <4> QED BY <3>1, <3>3, <4>1
    <3>4. CASE worker[v].job # j
      BY <3>1, <3>2, <3>4
    <3> QED BY <3>3, <3>4
  <2> QED BY <2>1, <2>2
<1> QED BY <1>1, <1>2 DEF Honest, RowHonest, BatchHonest, Ids

\* Only the states of jobs change, and workers stop.
LEMMA StatesHonest ==
    ASSUME Shaped, Honest, NEW j \in DOMAIN boxjob, NEW status, status # "completed",
           boxjob' = [boxjob EXCEPT ![j].status = status],
           \A w \in JobWorkers : worker'[w] \in {worker[w], IdleWorker}
    PROVE  Honest'
<1>1. /\ DOMAIN boxjob' = DOMAIN boxjob
      /\ \A k \in DOMAIN boxjob : boxjob'[k] \in {boxjob[k], [boxjob[k] EXCEPT !.status = status]}
  OBVIOUS
<1>2. \A k \in DOMAIN boxjob :
        /\ boxjob'[k].last = boxjob[k].last /\ boxjob'[k].max = boxjob[k].max
        /\ boxjob'[k].done = boxjob[k].done
        /\ boxjob'[k].status = "completed" => boxjob[k].status = "completed"
  BY <1>1 DEF Shaped, BoxJobsShaped, BoxJobShaped
<1>3. ASSUME NEW w \in JobWorkers, worker'[w].pc # "idle"
      PROVE  worker'[w] = worker[w] /\ worker[w].job \in DOMAIN boxjob
  BY <1>3 DEF IdleWorker, Shaped, BoxJobsShaped, WorkerShaped
<1>4. \A k \in DOMAIN boxjob : RowHonest(boxjob'[k])
  BY <1>2 DEF Honest, RowHonest
<1>5. ASSUME NEW w \in JobWorkers, worker'[w].pc # "idle"
      PROVE  BatchHonest(worker'[w], boxjob'[worker'[w].job])
  <2>1. BatchHonest(worker[w], boxjob[worker[w].job]) /\ worker'[w] = worker[w]
    BY <1>3, <1>5 DEF Honest
  <2> QED BY <1>2, <1>3, <1>5, <2>1 DEF BatchHonest
<1> QED BY <1>1, <1>4, <1>5 DEF Honest, RowHonest, BatchHonest, Ids

LEMMA StaysHonest ==
    ASSUME Shaped, Honest, [Next]_vars
    PROVE  Honest'
<1>1. /\ DOMAIN worker = JobWorkers
      /\ \A w \in JobWorkers :
            /\ DOMAIN worker[w] = {"pc", "job", "last", "todo", "ocr", "empty"}
            /\ worker[w].pc # "idle" => /\ worker[w].job \in DOMAIN boxjob
                                        /\ BatchHonest(worker[w], boxjob[worker[w].job])
      /\ \A j \in DOMAIN boxjob :
            /\ DOMAIN boxjob[j] = {"kind", "box", "below", "status", "last", "max", "done"}
            /\ RowHonest(boxjob[j])
  BY DEF Shaped, BoxJobsShaped, BoxJobShaped, WorkerShaped, Honest
<1>2. CASE UNCHANGED boxJobVars
  BY <1>2 DEF boxJobVars, Honest, RowHonest, BatchHonest, Ids
<1>3. ASSUME NEW kind, NEW b, NEW below, CreateBoxJob(kind, b, below) PROVE Honest'
  <2> DEFINE row == NewBoxJob(kind, b, below)
             T == {boxjob[j] : j \in DOMAIN boxjob} \cup {row}
  <2>1. boxjob' = Append(boxjob, row) /\ worker' = worker
    BY <1>3 DEF CreateBoxJob
  <2>2. RowHonest(row)
    <3>1. row.max \in Nat
      BY LastInBox DEF Shaped
    <3>2. row.last = 0 /\ row.status = "queued"
      BY DEF NewBoxJob
    <3> HIDE DEF row
    <3> QED BY <3>1, <3>2 DEF RowHonest
  <2>3. boxjob \in Seq(T) /\ row \in T
    BY DEF Shaped, BoxJobsShaped
  <2> HIDE DEF row, T
  <2>4. /\ Len(boxjob') = Len(boxjob) + 1
        /\ boxjob' \in Seq(T)
        /\ Len(boxjob) \in Nat /\ DOMAIN boxjob = 1 .. Len(boxjob)
        /\ \A j \in 1 .. Len(boxjob) : boxjob'[j] = boxjob[j]
        /\ boxjob'[Len(boxjob) + 1] = row
    BY <2>1, <2>3, AppendProperties
  <2>5. DOMAIN boxjob' = 1 .. Len(boxjob) + 1
    BY <2>4
  <2>6. \A j \in DOMAIN boxjob' : RowHonest(boxjob'[j])
    BY <1>1, <2>2, <2>4, <2>5
  <2>7. \A w \in JobWorkers : worker[w].pc # "idle" => boxjob'[worker[w].job] = boxjob[worker[w].job]
    BY <1>1, <2>4
  <2>8. ASSUME NEW w \in JobWorkers, worker'[w].pc # "idle"
        PROVE  BatchHonest(worker'[w], boxjob'[worker'[w].job])
    <3>1. BatchHonest(worker[w], boxjob[worker[w].job])
      BY <2>1, <2>8 DEF Honest
    <3> QED BY <2>1, <2>7, <2>8, <3>1
  <2> QED BY <2>6, <2>8 DEF Honest
<1>4. ASSUME NEW w \in JobWorkers, NEW j \in DOMAIN boxjob, ClaimBoxJob(w, j) PROVE Honest'
  <2>1. CASE UNCHANGED <<boxjob, worker>>
    BY <1>2, <2>1 DEF boxJobVars
  <2>2. CASE ~ UNCHANGED <<boxjob, worker>>
    <3> DEFINE batch == Batch(j)
               passed == Passed(j)
               Seen(d) == [id |-> d, row |-> doc[d], layout |-> HasLayout(d)]
               todo == {Seen(d) : d \in batch}
               row == [boxjob[j] EXCEPT !.status = "running", !.done = @ \cup passed]
               hand == [IdleWorker EXCEPT !.pc = "batch", !.job = j, !.last = boxjob[j].last,
                                          !.todo = todo, !.empty = batch = {}]
    <3>1. /\ boxjob' = [boxjob EXCEPT ![j].status = "running", ![j].done = @ \cup passed]
          /\ worker' = [worker EXCEPT ![w] = hand]
      BY <1>4, <2>2, Zenon DEF ClaimBoxJob
    <3>2. Ids(todo) = batch
      <4>1. \A d \in batch : Seen(d).id = d
        OBVIOUS
      <4> HIDE DEF Seen, batch
      <4> QED BY <4>1 DEF Ids
    <3>3. batch \subseteq Nat /\ \A d \in batch : d <= boxjob[j].max
      BY DEF Batch, Remaining, InBox, Docs, Shaped, DocsShaped
    <3>4. ASSUME NEW d \in batch, NEW n \in 1 .. d, n \notin batch
          PROVE  n \in boxjob[j].done \cup passed
      <4>1. n # d /\ n <= boxjob[j].max /\ boxjob[j].last \in Nat /\ boxjob[j].max \in Nat /\ d \in Nat
        BY <1>1, <3>3, <3>4 DEF RowHonest
      <4>2. CASE n <= boxjob[j].last
        BY <1>1, <3>4, <4>1, <4>2 DEF RowHonest
      <4>3. CASE ~ (n <= boxjob[j].last)
        <5>1. n \in boxjob[j].last + 1 .. boxjob[j].max /\ n < d
          BY <4>1, <4>3, <3>4
        <5> QED BY <3>4, <5>1 DEF Passed
      <4> QED BY <4>2, <4>3
    <3>5. ASSUME batch = {}, NEW n \in 1 .. boxjob[j].max PROVE n \in boxjob[j].done \cup passed
      <4>1. Batch(j) = Remaining(j)
        BY <3>5, EmptyBatch DEF Shaped
      <4>2. boxjob[j].last \in Nat /\ boxjob[j].max \in Nat
        BY <1>1 DEF RowHonest
      <4>3. CASE n <= boxjob[j].last
        BY <1>1, <4>2, <4>3 DEF RowHonest
      <4>4. CASE ~ (n <= boxjob[j].last)
        <5>1. n \in boxjob[j].last + 1 .. boxjob[j].max
          BY <4>2, <4>4
        <5> QED BY <3>5, <4>1, <5>1 DEF Passed
      <4> QED BY <4>3, <4>4
    <3>6. /\ hand.pc = "batch" /\ hand.job = j /\ hand.last = boxjob[j].last /\ hand.todo = todo
          /\ hand.empty <=> batch = {}
      BY DEF IdleWorker
    <3> HIDE DEF batch, passed
    <3>7. /\ boxjob' = [boxjob EXCEPT ![j] = row]
          /\ row.max = boxjob[j].max /\ row.last = boxjob[j].last
          /\ row.status = "running" /\ row.done = boxjob[j].done \cup passed
      BY <1>1, <3>1
    <3>8. \A x \in todo : x.id \in batch
      OBVIOUS
    <3> HIDE DEF todo, row, hand
    <3>9. RowHonest(row)
      BY <1>1, <3>7 DEF RowHonest
    <3>10. \A x \in hand.todo : 1 .. x.id \subseteq row.done \cup Ids(hand.todo)
      <4> SUFFICES ASSUME NEW x \in todo, NEW n \in 1 .. x.id, n \notin batch PROVE n \in row.done
        BY <3>2, <3>6
      <4> QED BY <3>4, <3>7, <3>8
    <3>11. BatchHonest(hand, row)
      BY <1>1, <3>2, <3>3, <3>5, <3>6, <3>7, <3>10 DEF BatchHonest, RowHonest
    <3> QED BY <3>1, <3>6, <3>7, <3>9, <3>11, OneHandHonest
  <2> QED BY <2>1, <2>2
\* The next document is worked on.
<1>5. ASSUME NEW w \in JobWorkers, worker[w].pc \in {"batch", "layout"}, worker[w].todo # {}, Worked(w)
      PROVE  Honest'
  <2> DEFINE j == worker[w].job
             n == NextDocument(w).id
             row == [boxjob[j] EXCEPT !.done = @ \cup {n}]
             hand == [worker[w] EXCEPT !.pc = "worked"]
  <2>1. j \in DOMAIN boxjob /\ BatchHonest(worker[w], boxjob[j]) /\ RowHonest(boxjob[j])
    BY <1>1, <1>5
  <2>2. NextDocument(w) \in worker[w].todo /\ \A x \in worker[w].todo : n <= x.id
    BY <1>5, <2>1, NextIsFirst DEF BatchHonest
  <2>3. /\ boxjob' = [boxjob EXCEPT ![j] = row] /\ worker' = [worker EXCEPT ![w] = hand]
        /\ row.max = boxjob[j].max /\ row.last = boxjob[j].last
        /\ row.status = boxjob[j].status /\ row.done = boxjob[j].done \cup {n}
        /\ hand.pc = "worked" /\ hand.job = j /\ hand.last = worker[w].last
        /\ hand.todo = worker[w].todo /\ hand.empty = worker[w].empty
    BY <1>1, <1>5, <2>1 DEF Worked
  <2> HIDE DEF row, hand, j
  <2>4. RowHonest(row)
    BY <2>1, <2>3 DEF RowHonest
  <2>5. \A x \in hand.todo : (\A y \in hand.todo : x.id <= y.id) => x.id \in row.done
    <3> SUFFICES ASSUME NEW x \in worker[w].todo, \A y \in worker[w].todo : x.id <= y.id
                 PROVE  x.id = n
      BY <2>3
    <3>1. x.id \in Nat /\ n \in Nat
      BY <2>1, <2>2 DEF BatchHonest, Ids
    <3> QED BY <2>2, <3>1
  <2> HIDE DEF n
  <2>6. BatchHonest(hand, row)
    BY <1>5, <2>1, <2>3, <2>5 DEF BatchHonest
  <2> QED BY <2>1, <2>3, <2>4, <2>6, OneHandHonest
<1>6. ASSUME NEW w \in JobWorkers, \/ ReconcileNext(w) \/ SkipLayout(w)
                                  \/ \E found : EndLayout(w, found)
      PROVE  Honest'
  <2>1. worker[w].pc \in {"batch", "layout"} /\ Worked(w)
    BY <1>6 DEF ReconcileNext, SkipLayout, EndLayout
  <2>2. worker[w].todo # {}
    BY <1>1, <1>6 DEF ReconcileNext, SkipLayout, EndLayout, BatchHonest
  <2> QED BY <1>5, <2>1, <2>2
<1>7. ASSUME NEW w \in JobWorkers, StartLayout(w) PROVE Honest'
  <2> DEFINE j == worker[w].job
             hand == [worker[w] EXCEPT !.pc = "layout", !.ocr = Len(ocr) + 1]
  <2>1. j \in DOMAIN boxjob /\ BatchHonest(worker[w], boxjob[j]) /\ RowHonest(boxjob[j])
    BY <1>1, <1>7 DEF StartLayout
  <2>2. /\ worker' = [worker EXCEPT ![w] = hand] /\ boxjob' = [boxjob EXCEPT ![j] = boxjob[j]]
        /\ hand.pc = "layout" /\ hand.job = j /\ hand.last = worker[w].last
        /\ hand.todo = worker[w].todo /\ hand.empty = worker[w].empty /\ worker[w].todo # {}
    <3>1. boxjob = [k \in DOMAIN boxjob |-> boxjob[k]]
      BY DEF Shaped, BoxJobsShaped
    <3>2. boxjob' = boxjob /\ worker' = [worker EXCEPT ![w] = hand]
      BY <1>7 DEF StartLayout
    <3>3. worker[w].todo # {} /\ w \in DOMAIN worker
      BY <1>1, <1>7 DEF StartLayout
    <3>4. boxjob' = [boxjob EXCEPT ![j] = boxjob[j]]
      BY <2>1, <3>1, <3>2
    <3> QED BY <1>1, <3>2, <3>3, <3>4
  <2> HIDE DEF hand, j
  <2>3. BatchHonest(hand, boxjob[j])
    BY <2>1, <2>2 DEF BatchHonest
  <2> QED BY <2>1, <2>2, <2>3, OneHandHonest
<1>8. ASSUME NEW w \in JobWorkers, SaveCursor(w) PROVE Honest'
  <2> DEFINE j == worker[w].job
             next == NextDocument(w)
             row == [boxjob[j] EXCEPT !.last = next.id]
             hand == [worker[w] EXCEPT !.pc = "batch", !.last = next.id,
                                       !.todo = @ \ {next}, !.ocr = 0]
  <2>1. j \in DOMAIN boxjob /\ BatchHonest(worker[w], boxjob[j]) /\ RowHonest(boxjob[j])
        /\ worker[w].pc = "worked"
    BY <1>1, <1>8 DEF SaveCursor
  <2>2. next \in worker[w].todo /\ \A x \in worker[w].todo : next.id <= x.id
    BY <2>1, NextIsFirst DEF BatchHonest
  <2>3. /\ boxjob' = [boxjob EXCEPT ![j] = row] /\ worker' = [worker EXCEPT ![w] = hand]
        /\ row.max = boxjob[j].max /\ row.last = next.id
        /\ row.status = boxjob[j].status /\ row.done = boxjob[j].done
        /\ hand.pc = "batch" /\ hand.job = j /\ hand.last = next.id
        /\ hand.todo = worker[w].todo \ {next} /\ hand.empty = worker[w].empty
    BY <1>1, <1>8, <2>1 DEF SaveCursor, CursorAfter
  <2> HIDE DEF row, hand, j, next
  <2>4. next.id \in Nat /\ next.id \in boxjob[j].done
    BY <2>1, <2>2 DEF BatchHonest, Ids
  <2>5. 1 .. next.id \subseteq boxjob[j].done
    <3> SUFFICES ASSUME NEW n \in 1 .. next.id, n \notin boxjob[j].done PROVE FALSE
      OBVIOUS
    <3>1. PICK x \in worker[w].todo : x.id = n
      BY <2>1, <2>2 DEF BatchHonest, Ids
    <3> QED BY <2>2, <2>4, <3>1
  <2>6. RowHonest(row)
    BY <2>1, <2>3, <2>4, <2>5 DEF RowHonest
  <2>7. ASSUME NEW x \in hand.todo, NEW n \in 1 .. x.id PROVE n \in row.done \cup Ids(hand.todo)
    <3>1. x \in worker[w].todo
      BY <2>3
    <3>2. n \in boxjob[j].done \cup Ids(worker[w].todo)
      BY <2>1, <2>7, <3>1 DEF BatchHonest
    <3>3. ASSUME NEW y \in worker[w].todo, n = y.id PROVE n \in row.done \cup Ids(hand.todo)
      BY <2>3, <2>4, <3>3 DEF Ids
    <3> QED BY <2>3, <3>2, <3>3 DEF Ids
  <2>8. Ids(hand.todo) \subseteq Nat
    BY <2>1, <2>3 DEF BatchHonest, Ids
  <2>9. BatchHonest(hand, row)
    BY <2>1, <2>3, <2>4, <2>5, <2>7, <2>8 DEF BatchHonest
  <2> QED BY <2>1, <2>3, <2>6, <2>9, OneHandHonest
<1>9. ASSUME NEW w \in JobWorkers, EndBatch(w) PROVE Honest'
  <2> DEFINE j == worker[w].job
             last == IF worker[w].empty /\ boxjob[j].kind = "layout" THEN boxjob[j].max
                     ELSE worker[w].last
             row == [boxjob[j] EXCEPT !.status = IF last < boxjob[j].max THEN "queued" ELSE "completed",
                                      !.last = IF last = worker[w].last THEN @ ELSE last]
  <2>1. j \in DOMAIN boxjob /\ BatchHonest(worker[w], boxjob[j]) /\ RowHonest(boxjob[j])
    BY <1>1, <1>9 DEF EndBatch
  <2>2. last \in Nat /\ 1 .. last \subseteq boxjob[j].done
    BY <2>1 DEF BatchHonest, RowHonest
  <2>3. /\ boxjob' = [boxjob EXCEPT ![j] = row] /\ worker' = [worker EXCEPT ![w] = IdleWorker]
        /\ row.max = boxjob[j].max /\ row.last \in {boxjob[j].last, last}
        /\ row.status = "completed" => ~ (last < boxjob[j].max)
        /\ row.done = boxjob[j].done
    <3>1. /\ boxjob' = [boxjob EXCEPT ![j].status = IF last < boxjob[j].max THEN "queued" ELSE "completed",
                                      ![j].last = IF last = worker[w].last THEN @ ELSE last]
          /\ worker' = [worker EXCEPT ![w] = IdleWorker]
      BY <1>9, Zenon DEF EndBatch
    <3> HIDE DEF last
    <3> QED BY <1>1, <2>1, <3>1
  <2> HIDE DEF row, j, last
  <2>4. RowHonest(row)
    BY <2>1, <2>2, <2>3 DEF RowHonest
  <2>5. IdleWorker.pc = "idle"
    BY DEF IdleWorker
  <2> QED BY <2>1, <2>3, <2>4, <2>5, OneHandHonest
<1>10. ASSUME NEW w \in JobWorkers, WorkerDies(w) PROVE Honest'
  <2>1. worker' = [worker EXCEPT ![w] = IdleWorker] /\ boxjob' = boxjob
    BY <1>10 DEF WorkerDies
  <2>2. \A v \in JobWorkers : worker'[v].pc # "idle" => worker'[v] = worker[v]
    BY <1>1, <2>1 DEF IdleWorker
  <2> QED BY <1>1, <2>1, <2>2 DEF Honest, RowHonest, BatchHonest, Ids
<1>11. ASSUME NEW j \in DOMAIN boxjob, ResumeBoxJob(j) PROVE Honest'
  BY <1>11, StatesHonest DEF ResumeBoxJob
<1>12. ASSUME NEW j \in DOMAIN boxjob, NEW killed, CancelLayout(j, killed) PROVE Honest'
  BY <1>12, StatesHonest DEF CancelLayout
<1> QED BY <1>2, <1>3, <1>4, <1>6, <1>7, <1>8, <1>9, <1>10, <1>11, <1>12,
           OnlyTheseTouchBoxJobs

\* A cursor is behind everything that was worked on or was not in the box, also
\* where two workers drive it, one of them back, and a completed job has left
\* nothing: for any number of workers, batches of any size, and whoever dies.
THEOREM CursorsAreHonest == Spec => []CursorHonest
<1>1. Init => Shaped /\ Honest
  <2>1. Init => Honest
    BY DEF Init, BoxJobsInit, Honest, IdleWorker
  <2> QED BY <2>1, ShapedAtFirst
<1>2. Shaped /\ Honest /\ [Next]_vars => (Shaped /\ Honest)'
  BY StaysShaped, StaysHonest
<1>3. Honest => CursorHonest
  BY DEF Honest, RowHonest, CursorHonest
<1> QED BY <1>1, <1>2, <1>3, PTL DEF Spec

=============================================================================

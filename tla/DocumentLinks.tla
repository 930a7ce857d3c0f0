--------------------------- MODULE DocumentLinks ---------------------------
(***************************************************************************)
(* Metadata fields of boxes, the metadata of documents, and the relations  *)
(* between documents: those people add and those that follow from equal    *)
(* values of a field.  A relation is a row per pair; who made it first     *)
(* owns it, a person or a field.                                           *)
(*                                                                         *)
(* A document has its values by the slugs of fields, which people edit;    *)
(* a relation has the field itself.  The elements of Fields serve as the   *)
(* names of fields, in their order, and as slugs.                          *)
(*                                                                         *)
(* A transaction that reconciles a document is one step, which commits it; *)
(* of others that committed while it ran it may not have seen the change,  *)
(* as READ COMMITTED lets it happen.                                       *)
(***************************************************************************)
EXTENDS TitleRules

ASSUME LinksAssumption ==
    /\ Fields \in Seq(ToSet(Fields)) /\ "user" \notin ToSet(Fields)
    /\ \A m, n \in DOMAIN Fields : Fields[m] = Fields[n] => m = n
    /\ \A b \in Bounds :
          /\ DOMAIN b.fields \subseteq ToSet(Fields)
          /\ \A f \in DOMAIN b.fields :
                b.fields[f] \in [box : DOMAIN FirstBoxes, slug : ToSet(Fields),
                                 propagate : BOOLEAN, auto : BOOLEAN, active : BOOLEAN]
          /\ b.first \in Seq([status : {"active", "deleted"}, box : DOMAIN FirstBoxes,
                              type : {"pdf", "office"},
                              title : {"manual", "filename", "ocr", "einvoice"},
                              meta : [ToSet(Fields) -> Values], rev : {0}])

VARIABLES
    field,    \* the field rows
    relation, \* per pair of documents that are related: "user", or the
              \* field that made the relation
    history   \* former: the metadata of documents before their latest change;
              \* crossed: pairs of which one was reconciled last when it did
              \* not see the latest change of the other; loose: fields whose
              \* slug was edited, or whose values went with another field

linkVars == <<field, relation, history>>

DocumentMetadataField ==
    [box : DOMAIN box, slug : ToSet(Fields), propagate : BOOLEAN, auto : BOOLEAN,
     active : BOOLEAN]

\* one row per pair of documents, with the field that made it or none
DocumentRelation ==
    [{p \in DOMAIN relation : p \subseteq Docs /\ Cardinality(p) = 2} ->
        {"user"} \cup DOMAIN field]

(***************************************************************************)
(* Fields that apply to a box.                                             *)
(***************************************************************************)

\* the boxes whose documents have the field
FieldBoxes(f) == {field[f].box} \cup (IF field[f].propagate THEN Below(field[f].box) ELSE {})

\* the order of fields: those of the boxes above come first
Earlier(f, g) ==
    LET depth(x) == Len(box[field[x].box].path)
    IN  \/ depth(f) < depth(g)
        \/ depth(f) = depth(g)
           /\ \E m, n \in DOMAIN Fields : Fields[m] = f /\ Fields[n] = g /\ m < n

Slug(f) == field[f].slug

\* effective_metadata_fields: of those with the same slug, the first
EffectiveFields(b) ==
    LET fields == {f \in DOMAIN field : field[f].active /\ b \in FieldBoxes(f)}
    IN  {f \in fields : ~ \E g \in fields : Slug(g) = Slug(f) /\ Earlier(g, f)}

EffectiveSlugs(b) == {Slug(f) : f \in EffectiveFields(b)}

InOrder(fs) ==
    [n \in 1 .. Cardinality(fs) |->
        CHOOSE f \in fs : Cardinality({g \in fs : Earlier(g, f)}) = n - 1]

(***************************************************************************)
(* ReconcileAutomaticMetadataRelations.                                    *)
(***************************************************************************)

\* the active documents with the same value, in the boxes of the field
Matching(docs, d, row, f) ==
    {e \in DOMAIN docs \ {d} :
        /\ docs[e].status = "active"
        /\ docs[e].box \in FieldBoxes(f)
        /\ row.meta[Slug(f)] # ""
        /\ docs[e].meta[Slug(f)] = row.meta[Slug(f)]}

\* Error: a document keeps its links when its value changes.
NothingDropped(rel, d, f, matching) == rel

\* Error: links of people go as well.
AllDropped(rel, d, f, matching) ==
    Restrict(rel, {p \in DOMAIN rel : d \in p => p \ {d} \subseteq matching})

\* without the links that the field made and that no longer match
StaleDropped(rel, d, f, matching) ==
    Restrict(rel, {p \in DOMAIN rel : d \in p /\ rel[p] # "user" /\ rel[p] = f =>
                                         p \ {d} \subseteq matching})

\* AddDocumentRelation: a pair that is related stays as it is.
Related(rel, pairs, owner) ==
    [p \in DOMAIN rel \cup pairs |-> IF p \in DOMAIN rel THEN rel[p] ELSE owner]

\* The relations after d was reconciled, when the program holds row for it: with
\* one field ...
Linked(rel, docs, d, row, f) ==
    LET matching == Matching(docs, d, row, f)
    IN  Related(StaleDropped(rel, d, f, matching), {{d, e} : e \in matching}, f)

\* ... with each in turn ...
LinkedByAll(rel, docs, d, row, fs) ==
    LET After[n \in 0 .. Len(fs)] ==
            IF n = 0 THEN rel ELSE Linked(After[n - 1], docs, d, row, fs[n])
    IN  After

\* ... that is enabled.  Other links that fields made are gone.
Reconciled(rel, docs, d, row) ==
    LET enabled == InOrder({f \in EffectiveFields(row.box) : field[f].auto})
        kept == Restrict(rel, {p \in DOMAIN rel :
                                  d \in p => rel[p] \in {"user"} \cup ToSet(enabled)})
    IN  LinkedByAll(kept, docs, d, row, enabled)[Len(enabled)]

\* Documents whose latest change a transaction on d may not see, where the
\* bounds admit such overlaps: they look as they did before.
Unseen(d) ==
    IF "overlap" \in bound.does THEN SUBSET (DOMAIN history.former \ {d}) ELSE {{}}

AsSeen(docs, unseen) ==
    [e \in DOMAIN docs |->
        IF e \in unseen THEN [docs[e] EXCEPT !.meta = history.former[e]] ELSE docs[e]]

\* links that may have come with such changes, and so are not seen, either
LinksTo(d, unseen) == {p \in DOMAIN relation : \E e \in unseen : p = {d, e}}

WithHidden(rel, hidden) ==
    [p \in DOMAIN rel \cup hidden |-> IF p \in hidden THEN relation[p] ELSE rel[p]]

\* the metadata before a change of documents, or that of no document
Former(ds) ==
    IF "overlap" \in bound.does
    THEN [e \in DOMAIN history.former \cup ds |->
             IF e \notin ds THEN history.former[e]
             ELSE IF e \in Docs THEN doc[e].meta ELSE NoValues]
    ELSE history.former

\* A transaction reconciles d, and commits.
Reconcile(docs, d, row) ==
    \E unseen \in Unseen(d) : \E hidden \in SUBSET LinksTo(d, unseen) :
        /\ relation' = WithHidden(Reconciled(Restrict(relation, DOMAIN relation \ hidden),
                                       AsSeen(docs, unseen), d, row), hidden)
        /\ history' = [history EXCEPT
                          !.former = Former({d}),
                          !.crossed = {p \in @ : d \notin p} \cup {{d, e} : e \in unseen}]

(***************************************************************************)
(* Documents.                                                              *)
(***************************************************************************)

\* The form of the metadata gives a value, or none, to each field that
\* applies to the box ...
MetadataForm(d) == [EffectiveSlugs(doc[d].box) -> Values]

\* ... and values of other fields are gone.
CleanedMetadata(values) ==
    [s \in ToSet(Fields) |-> IF s \in DOMAIN values THEN values[s] ELSE ""]

\* The document with other metadata, as UpdateDocumentMetadata saves it.
Saved(docs, d, meta) == [docs EXCEPT ![d].meta = meta, ![d].rev = @ + 1]

UpdateDocumentMetadata(d, values) ==
    /\ Request("metadata")
    /\ Active(d)
    /\ values \in MetadataForm(d)
    /\ doc' = Saved(doc, d, CleanedMetadata(values))
    /\ pending' = Scheduled({"index"}, {d})
    /\ Reconcile(doc', d, doc'[d])
    /\ UNCHANGED <<box, file, blob, optimize, purge, bound, field>>

\* An invoice is uploaded: _attach_einvoice_data fills fields, and the title if
\* the rule takes it from invoices and this one has what the rule asks for.
InvoiceTitle(b, title, complete) ==
    IF title # "manual" /\ complete /\ "invoice" \in TitlePolicy(b) THEN "einvoice" ELSE title

UploadInvoice(b, title, f, v, complete) ==
    LET d == Len(doc) + 1
    IN  /\ Request("upload")
        /\ Offered(b)
        /\ f \in EffectiveFields(b)
        /\ Create(doc, <<NewDocument(b, "pdf", InvoiceTitle(b, title, complete),
                                     [NoValues EXCEPT ![Slug(f)] = v])>>)
        /\ Reconcile(doc', d, doc'[d])
        /\ UNCHANGED <<box, optimize, purge, bound, field>>

\* the relation form of a document
Relatable(d, e) == d # e /\ Active(d) /\ Active(e)

AddDocumentRelation(d, e) ==
    /\ Request("relate")
    /\ Relatable(d, e)
    /\ relation' = Related(relation, {{d, e}}, "user")
    /\ UNCHANGED <<box, doc, file, blob, optimize, purge, pending, bound, field, history>>

\* RemoveDocumentRelation: the page of a document removes any of its links.
RemoveDocumentRelation(d, e) ==
    /\ Request("relate")
    /\ Active(d)
    /\ {d, e} \in DOMAIN relation
    /\ relation' = Restrict(relation, DOMAIN relation \ {{d, e}})
    /\ UNCHANGED <<box, doc, file, blob, optimize, purge, pending, bound, field, history>>

(***************************************************************************)
(* Fields.                                                                 *)
(***************************************************************************)

\* metadata_field_slug_is_available, for the form of a field: no other field of
\* the box, of those above that reach it, or of those it reaches, has the slug.
SlugAvailable(f, row) ==
    ~ \E g \in DOMAIN field \ {f} :
          /\ Slug(g) = row.slug
          /\ \/ row.box \in FieldBoxes(g)
             \/ row.propagate /\ field[g].box \in Below(row.box)

\* CreateDocumentMetadataField and UpdateDocumentMetadataField: no document is
\* reconciled, nor are values moved to another slug.
FieldSaved(f, row) == Upsert(field, f, row)

WithLoose(fs) == [history EXCEPT !.loose = @ \cup fs]

CreateDocumentMetadataField(f, row) ==
    /\ Request("fields")
    /\ f \notin DOMAIN field
    /\ row.box \in DOMAIN box
    /\ SlugAvailable(f, row)
    /\ field' = FieldSaved(f, row)
    /\ UNCHANGED <<box, doc, file, blob, optimize, purge, pending, bound, relation, history>>

UpdateDocumentMetadataField(f, row) ==
    /\ Request("fields")
    /\ row.box = field[f].box
    /\ SlugAvailable(f, row)
    /\ field' = FieldSaved(f, row)
    /\ history' = WithLoose(IF row.slug = Slug(f) THEN {} ELSE {f})
    /\ UNCHANGED <<box, doc, file, blob, optimize, purge, pending, bound, relation>>

\* what the form of a deletion offers as the field that values go to
TakesValues(g, f) ==
    /\ g \in EffectiveFields(field[f].box)
    /\ field[f].propagate => field[g].propagate

\* Values go to the other field, where that is empty.
Movable(f, g) ==
    {d \in Docs : /\ doc[d].box \in FieldBoxes(f)
                  /\ doc[d].meta[Slug(f)] # "" /\ doc[d].meta[Slug(g)] = ""}

Migrated(f, g) ==
    [d \in Docs |->
        IF d \in Movable(f, g)
        THEN [doc[d] EXCEPT !.meta = [@ EXCEPT ![Slug(g)] = doc[d].meta[Slug(f)],
                                               ![Slug(f)] = ""]]
        ELSE doc[d]]

\* fields elsewhere with the same slug, which documents may have been linked by
Sharing(f) == {h \in DOMAIN field \ {f} : Slug(h) = Slug(f)}

\* DeleteDocumentMetadataField, with a field the values go to, or itself: no
\* document is reconciled, and no search entry built, which shows values alone.
DeleteDocumentMetadataField(f, g) ==
    /\ Request("fields")
    /\ f \in DOMAIN field
    /\ f # g => TakesValues(g, f)
    /\ doc' = IF f = g THEN doc ELSE Migrated(f, g)
    /\ field' = Restrict(field, DOMAIN field \ {f})
    /\ relation' = Restrict(relation, {p \in DOMAIN relation : relation[p] # f})
    /\ history' = IF f = g THEN history
                  ELSE [WithLoose(Sharing(f)) EXCEPT !.former = Former(Movable(f, g))]
    /\ UNCHANGED <<box, file, blob, optimize, purge, pending, bound>>

(***************************************************************************)
(* Rows that go with documents that are deleted for good.                  *)
(***************************************************************************)

Gone == {d \in Docs : doc'[d].status = "purged"}

RelationsLeft ==
    /\ relation' = Restrict(relation, {p \in DOMAIN relation : p \cap Gone = {}})
    /\ UNCHANGED <<field, history>>

LinksInit ==
    /\ field = bound.fields
    /\ relation = << >>
    /\ history = [former |-> << >>, crossed |-> {}, loose |-> {}]

(***************************************************************************)
(* Properties.                                                             *)
(***************************************************************************)

\* A link that a field made is between two documents with the same value of
\* it, whatever is edited, moved, recognized or migrated, by whom.  It may be
\* wrong in four cases alone: the two documents were saved by transactions that
\* overlapped, and neither has been reconciled since; the slug of the field was
\* edited; values went with the deletion of a field elsewhere that had the same
\* slug; and bounds with the link job, which reconciles documents it has read
\* before.
LinksAgree ==
    "link" \notin bound.does =>
        \A p \in DOMAIN relation \ history.crossed :
            relation[p] # "user" /\ relation[p] \notin history.loose =>
                \A d, e \in p : /\ doc[d].meta[Slug(relation[p])] # ""
                                /\ doc[d].meta[Slug(relation[p])] = doc[e].meta[Slug(relation[p])]

\* A link that a person made goes only when a person takes it away, or with
\* one of its documents.
ManualLinksStay ==
    [][\A p \in DOMAIN relation :
          relation[p] = "user" =>
             \/ p \in DOMAIN relation' /\ relation'[p] = "user"
             \/ \E d, e \in p : RemoveDocumentRelation(d, e)
             \/ p \cap Gone # {}]_<<docVars, linkVars>>

=============================================================================

----------------------------- MODULE Documents -----------------------------
(***************************************************************************)
(* The tree of document boxes, the documents in it, and their stored       *)
(* files: file rows point to blobs of the object store, which knows no     *)
(* transactions.  Blobs are saved before the row that points to them and   *)
(* deleted after the commit that lets go of them.                          *)
(*                                                                         *)
(* A request is one step; what it leaves to transaction.on_commit runs     *)
(* later, in any order with other requests.  A callback is lost with its   *)
(* process; and if one raises, in a process that lives on, Django drops    *)
(* those that were registered after it in the same transaction.  Which     *)
(* those are is not kept: any that wait may go with it.                    *)
(* The optimization of a scan replaces a file in several steps.            *)
(*                                                                         *)
(* A definition introduced by "Error:" is a wrong version of the one after *)
(* it; PROJECT.json names the property that each of them breaks.           *)
(***************************************************************************)
EXTENDS Integers, Sequences, SequencesExt, FiniteSets, Bags, TLC

CONSTANTS
    Boxes,       \* ids of document spaces
    FirstBoxes,  \* per box that exists at first: its path
    Root,        \* a parent of NULL
    Slugs,       \* slugs of boxes
    Fields,      \* metadata fields, in the order effective_metadata_fields
                 \* gives them
    Values,      \* values of metadata fields, with "" for none
    Optimizers,  \* workers that optimize scans at the same time
    Bounds       \* sets of bounds, of which one holds from the start: the
                 \* first documents, how many there may be, keys, requests,
                 \* failures, and what is done at all

ASSUME DocumentsAssumption ==
    /\ IsFiniteSet(Boxes) /\ Root \notin Boxes
    /\ DOMAIN FirstBoxes \subseteq Boxes
    /\ Slugs \subseteq STRING
    /\ "" \in Values

\* The first boxes make a tree of their own.
ASSUME FirstBoxesAssumption ==
    \A b \in DOMAIN FirstBoxes :
        /\ FirstBoxes[b] \in Seq(STRING) \ {<< >>}
        /\ \A c \in DOMAIN FirstBoxes \ {b} : FirstBoxes[c] # FirstBoxes[b]
        /\ Len(FirstBoxes[b]) > 1 =>
              \E c \in DOMAIN FirstBoxes : FirstBoxes[c] = Front(FirstBoxes[b])

VARIABLES
    box,       \* the box rows
    doc,       \* the document rows, in the order of their ids
    file,      \* the file rows: of document and kind, the number of the key
    blob,      \* the keys in the object store
    optimize,  \* per worker: the file it optimizes
    purge,     \* sets of keys that on_commit callbacks are to delete
    pending,   \* bag of the other callbacks still to run, with their document
    past,      \* requests served and failures met so far, and the documents
               \* whose search entry was not rebuilt since a rebuild was lost
    bound      \* the bounds that hold

\* A table with another row of a key: a new one, or in place of the one there was.
Upsert(table, key, row) == [k \in DOMAIN table \cup {key} |-> IF k = key THEN row ELSE table[k]]

docVars == <<box, doc, file, blob, optimize, purge, pending, past, bound>>

Docs == DOMAIN doc

\* The rows: the values of their fields, as far as the program tells them apart.
\* "purged" is a row that is no more, and rev the number of its changes.
DocumentSpace ==
    [parent : DOMAIN box \cup {Root}, slug : STRING, path : Seq(STRING),
     active : BOOLEAN, deleted : BOOLEAN]

Document ==
    [status : {"active", "deleted", "purged"}, box : DOMAIN box, type : {"pdf", "office"},
     title : {"manual", "filename", "ocr", "einvoice"},
     meta : [ToSet(Fields) -> Values], rev : Nat]

DocumentFile == Docs \X {"original", "derivative"}

Active(d) == d \in Docs /\ doc[d].status = "active"
Exists(d) == d \in Docs /\ doc[d].status # "purged"

\* Boxes that the upload page and the page of a document offer: a deleted box
\* is among them that somebody has made active again.
Offered(b) == b \in DOMAIN box /\ box[b].active

\* boxes that the other forms offer
Usable(b) == Offered(b) /\ ~ box[b].deleted

\* path.startswith(path of the box and a slash)
Below(b) == {c \in DOMAIN box : IsStrictPrefix(box[b].path, box[c].path)}
PathIn(p, s) == IF p = Root THEN <<s>> ELSE Append(box[p].path, s)

\* what the form of a box offers as its parent, and as the target of its
\* documents when it is deleted
ParentOffered(b, p) == p = Root \/ (Usable(p) /\ p # b /\ p \notin Below(b))
TargetOffered(b, target) == Usable(target) /\ target \notin {b} \cup Below(b)

\* the active documents of a box, or of it and what lies below
InBox(b, below) ==
    {d \in Docs : Active(d) /\ doc[d].box \in {b} \cup (IF below THEN Below(b) ELSE {})}

\* no other box has the path
Unused(path, but) == \A c \in DOMAIN box \ but : box[c].path # path

\* One more request of a kind that the bounds admit.
Request(kind) ==
    /\ kind \in bound.does
    /\ past.requests < bound.requests
    /\ past' = [past EXCEPT !.requests = @ + 1]

\* One more failure that the bounds admit: a process dies, or something raises
\* in a process that lives on.  It may cost documents their rebuild.
FailureFor(ds) ==
    /\ past.failures < bound.failures
    /\ past' = [past EXCEPT !.failures = @ + 1, !.lost = @ \cup ds]

Failure == FailureFor({})

\* The callbacks that wait: with new ones ...
Scheduled(kinds, ds) == pending (+) SetToBag(kinds \X ds)

\* ... and without some: the one that is called, or those that are dropped,
\* which are among these, with the documents that lose their rebuild by it.
Without(cs) == pending (-) SetToBag(cs)
Taken(c) == Without({c})

Droppable == {c \in DOMAIN pending : c[1] \in {"start", "index"}}
Unbuilt(cs) == {c[2] : c \in {x \in cs : x[1] = "index"}}

\* The page of background jobs lists jobs that wait or run.
Listed(status) == status \in {"pending", "queued", "running", "processing"}

\* A job that is listed is cancelled; a worker that has it is killed, or not
\* found.
Cancel(status, killed, started) ==
    /\ Request("cancel")
    /\ Listed(status)
    /\ killed => started

(***************************************************************************)
(* Boxes.                                                                  *)
(***************************************************************************)

\* CreateDocumentSpace, for the page of a new box
NewSpace(p, s) ==
    [parent |-> p, slug |-> s, path |-> PathIn(p, s), active |-> TRUE, deleted |-> FALSE]

CreateDocumentSpace(b, p, s) ==
    /\ Request("boxes")
    /\ b \notin DOMAIN box
    /\ p = Root \/ Usable(p)
    /\ Unused(PathIn(p, s), {})
    /\ box' = Upsert(box, b, NewSpace(p, s))
    /\ UNCHANGED <<doc, file, blob, optimize, purge, pending, bound>>

\* Error: only the direct children follow their box.
RebasedChildren(b, old, new) ==
    [c \in DOMAIN box |->
        IF box[c].parent = b THEN [box[c] EXCEPT !.path = Append(new, box[c].slug)] ELSE box[c]]

\* the descendants' paths with the new path instead of the old one
Rebased(b, old, new) ==
    [c \in DOMAIN box |->
        IF c \in Below(b)
        THEN [box[c] EXCEPT !.path = new \o SubSeq(@, Len(old) + 1, Len(@))]
        ELSE box[c]]

\* UpdateDocumentSpace, for the page of a box, deleted ones included
SpaceUpdated(b, p, s, active) ==
    LET new == PathIn(p, s)
    IN  [Rebased(b, box[b].path, new) EXCEPT
           ![b] = [@ EXCEPT !.parent = p, !.slug = s, !.path = new, !.active = active]]

UpdateDocumentSpace(b, p, s, active) ==
    /\ Request("boxes")
    /\ ParentOffered(b, p)
    /\ Unused(PathIn(p, s), {b})
    /\ box' = SpaceUpdated(b, p, s, active)
    /\ UNCHANGED <<doc, file, blob, optimize, purge, pending, bound>>

\* DeleteDocumentSpace: the boxes that go ...
SpacesDeleted(subtree) ==
    [c \in DOMAIN box |->
        IF c \in subtree THEN [box[c] EXCEPT !.active = FALSE, !.deleted = TRUE] ELSE box[c]]

\* ... and what becomes of documents: a target takes them, or they go, too.
MovedTo(inside, target) ==
    [d \in Docs |-> IF d \in inside THEN [doc[d] EXCEPT !.box = target] ELSE doc[d]]

DeletedIn(inside) ==
    [d \in Docs |-> IF d \in inside THEN [doc[d] EXCEPT !.status = "deleted"] ELSE doc[d]]

DeleteDocumentSpace(b, target) ==
    LET subtree == {c \in {b} \cup Below(b) : ~ box[c].deleted}
        inside == {d \in Docs : Exists(d) /\ doc[d].box \in subtree}
        moved == target # Root
    IN  /\ Request("remove")
        /\ ~ box[b].deleted
        /\ moved => TargetOffered(b, target)
        /\ doc' = IF moved THEN MovedTo(inside, target) ELSE DeletedIn(inside)
        /\ box' = SpacesDeleted(subtree)
        /\ pending' = IF moved THEN Scheduled({"index"}, inside) ELSE pending
        /\ UNCHANGED <<file, blob, optimize, purge, bound>>

\* EmptyDocumentSpace deletes the documents of the box for good, with all
\* rows that belong to them, and their blobs after the commit.
Emptied(ds) == [d \in Docs |-> IF d \in ds THEN [doc[d] EXCEPT !.status = "purged"] ELSE doc[d]]

KeysOf(ds) == {<<r[1], r[2], file[r]>> : r \in {q \in DOMAIN file : q[1] \in ds}}

EmptyDocumentSpace(b) ==
    LET inside == {d \in Docs : Exists(d) /\ doc[d].box = b}
    IN  /\ Request("empty")
        /\ ~ box[b].deleted
        /\ inside # {}
        /\ doc' = Emptied(inside)
        /\ file' = [r \in {q \in DOMAIN file : q[1] \notin inside} |-> file[r]]
        /\ purge' = purge \cup {KeysOf(inside)}
        /\ UNCHANGED <<box, blob, optimize, pending, bound>>

\* _delete_storage_keys
DeleteStorageKeys(keys) ==
    /\ keys \in purge
    /\ purge' = purge \ {keys}
    /\ blob' = blob \ keys
    /\ UNCHANGED <<box, doc, file, optimize, pending, past, bound>>

(***************************************************************************)
(* Documents.                                                              *)
(***************************************************************************)

NoValues == [f \in ToSet(Fields) |-> ""]

NewDocument(b, type, title, meta) ==
    [status |-> "active", box |-> b, type |-> type, title |-> title, meta |-> meta, rev |-> 0]

\* CreateDocumentFromUpload, _create_document: a document per row with its
\* original, and the callbacks that start OCR or a conversion and build the
\* index.
Create(docs, rows) ==
    LET new == Len(docs) + 1 .. Len(docs) + Len(rows)
    IN  /\ Len(docs) + Len(rows) <= bound.docs
        /\ doc' = docs \o rows
        /\ file' = [r \in DOMAIN file \cup (new \X {"original"}) |->
                       IF r \in DOMAIN file THEN file[r] ELSE 1]
        /\ blob' = blob \cup (new \X {"original"} \X {1})
        /\ pending' = Scheduled({"start", "index"}, new)

\* the upload page, with a title or without
UploadDocument(b, type, title) ==
    /\ Request("upload")
    /\ Offered(b)
    /\ Create(doc, <<NewDocument(b, type, title, NoValues)>>)
    /\ UNCHANGED <<box, optimize, purge, bound>>

\* An import source delivers into its target box as it was configured.
ImportIntoBox(b, type) ==
    /\ Request("import")
    /\ Create(doc, <<NewDocument(b, type, "filename", NoValues)>>)
    /\ UNCHANGED <<box, optimize, purge, bound>>

\* DeleteDocument, of documents that are loaded as active
DocumentsDeleted(ds) == DeletedIn(ds)

DeleteDocument(d) ==
    /\ Request("delete")
    /\ Active(d)
    /\ doc' = DocumentsDeleted({d})
    /\ UNCHANGED <<box, file, blob, optimize, purge, pending, bound>>

\* what the forms of a division and a merger ask of documents
Splittable(d, parts) ==
    /\ Active(d) /\ doc[d].type = "pdf"
    /\ Len(parts) >= 2
    /\ \A k \in DOMAIN parts : Usable(parts[k])

Mergeable(ds) ==
    /\ Cardinality(ds) >= 2
    /\ \A d \in ds : Active(d) /\ doc[d].type = "pdf"

\* SplitPdfDocument: a document for every part, and the original may go
PartRows(parts) == [k \in DOMAIN parts |-> NewDocument(parts[k], "pdf", "filename", NoValues)]

SplitDocument(d, parts, keep) ==
    /\ Request("split")
    /\ Splittable(d, parts)
    /\ Create(IF keep THEN doc ELSE DocumentsDeleted({d}),
              PartRows(parts))
    /\ UNCHANGED <<box, optimize, purge, bound>>

\* MergeDocuments: a document of the pages of others, which may go
MergedRow(b) == NewDocument(b, "pdf", "filename", NoValues)

MergeDocuments(ds, b, keep) ==
    /\ Request("split")
    /\ Mergeable(ds)
    /\ Usable(b)
    /\ Create(IF keep THEN doc ELSE DocumentsDeleted(ds),
              <<MergedRow(b)>>)
    /\ UNCHANGED <<box, optimize, purge, bound>>

\* UpdateDocumentCoreMetadata: the box, or a title, which is manual then
CoreSaved(d, b, retitled) ==
    [doc EXCEPT ![d].box = b,
                ![d].title = IF retitled THEN "manual" ELSE @,
                ![d].rev = IF retitled THEN @ + 1 ELSE @]

UpdateDocumentCoreMetadata(d, b, retitled) ==
    /\ Request("core")
    /\ Active(d)
    /\ Offered(b)
    /\ doc' = CoreSaved(d, b, retitled)
    /\ pending' = Scheduled({"index"}, {d})
    /\ UNCHANGED <<box, file, blob, optimize, purge, bound>>

\* what is searched besides title and metadata: comments and tags
Annotate(d) ==
    /\ Request("annotate")
    /\ Active(d)
    /\ doc' = [doc EXCEPT ![d].rev = @ + 1]
    /\ pending' = Scheduled({"index"}, {d})
    /\ UNCHANGED <<box, file, blob, optimize, purge, bound>>

AddDocumentComment(d) == Annotate(d)
SetDocumentTags(d) == Annotate(d)

(***************************************************************************)
(* The optimization of scans.                                              *)
(***************************************************************************)

NotOptimizing == [pc |-> "idle", row |-> <<>>, old |-> 0, new |-> 0]

Key(row, n) == <<row[1], row[2], n>>

\* _optimize_one reads the original of an active document.
OptimizeOne(w, d) ==
    LET row == <<d, "original">>
    IN  /\ "scan" \in bound.does
        /\ optimize[w] = NotOptimizing
        /\ Active(d) /\ doc[d].type = "pdf" /\ row \in DOMAIN file
        /\ Key(row, file[row]) \in blob
        /\ optimize' = [optimize EXCEPT ![w] = [pc |-> "read", row |-> row, old |-> file[row],
                                                new |-> 0]]
        /\ UNCHANGED <<box, doc, file, blob, purge, pending, past, bound>>

\* _replace_storage saves the smaller file under a key nobody else has ...
SaveOptimized(w) ==
    LET q == optimize[w]
        taken == {k[3] : k \in blob} \cup {optimize[v].new : v \in Optimizers} \cup {q.old}
        n == 1 + CHOOSE m \in taken : \A k \in taken : k <= m
    IN  /\ q.pc = "read"
        /\ n <= bound.keys
        /\ optimize' = [optimize EXCEPT ![w].pc = "saved", ![w].new = n]
        /\ blob' = blob \cup {Key(q.row, n)}
        /\ UNCHANGED <<box, doc, file, purge, pending, past, bound>>

\* ... updates the row, if there still is one ...
ReplaceStorage(w) ==
    LET q == optimize[w]
    IN  /\ q.pc = "saved"
        /\ optimize' = [optimize EXCEPT ![w].pc = "replaced"]
        /\ file' = IF q.row \in DOMAIN file THEN [file EXCEPT ![q.row] = q.new] ELSE file
        /\ UNCHANGED <<box, doc, blob, purge, pending, past, bound>>

\* Error: the file that the row has by then is deleted.
KeyToDelete(w) == IF optimize[w].row \in DOMAIN file THEN file[optimize[w].row] ELSE optimize[w].old

\* the key the worker has read
OldKey(w) == optimize[w].old

\* ... and deletes the old file after the commit.
DeleteOldKey(w) ==
    /\ optimize[w].pc = "replaced"
    /\ blob' = blob \ {Key(optimize[w].row, OldKey(w))}
    /\ optimize' = [optimize EXCEPT ![w] = NotOptimizing]
    /\ UNCHANGED <<box, doc, file, purge, pending, past, bound>>

(***************************************************************************)
(* Processes die, and callbacks raise: what was to follow is not done.      *)
(***************************************************************************)

OptimizerDies(w) ==
    /\ Failure
    /\ optimize[w].pc # "idle"
    /\ optimize' = [optimize EXCEPT ![w] = NotOptimizing]
    /\ UNCHANGED <<box, doc, file, blob, purge, pending, bound>>

PurgeLost(keys) ==
    /\ Failure
    /\ keys \in purge
    /\ purge' = purge \ {keys}
    /\ UNCHANGED <<box, doc, file, blob, optimize, pending, bound>>

\* A process dies before it has run the callbacks of a commit, or the first of
\* them raises and takes the others along; or a message is lost.
CallbacksLost(cs) ==
    /\ FailureFor(Unbuilt(cs))
    /\ cs # {}
    /\ pending' = Without(cs)
    /\ UNCHANGED <<box, doc, file, blob, optimize, purge, bound>>

\* The document of a callback is no more: it raises, and others are dropped.
CallbackRaises(c, later) ==
    /\ bound.does \cap {"index", "recognize"} # {}
    /\ c \in Droppable
    /\ ~ Exists(c[2])
    /\ pending' = Without({c} \cup later)
    /\ past' = [past EXCEPT !.lost = @ \cup Unbuilt(later)]
    /\ UNCHANGED <<box, doc, file, blob, optimize, purge, bound>>

(***************************************************************************)
(* The specification of this part.                                         *)
(***************************************************************************)

\* A box with the path: its parent has what comes before the slug.
FirstSpace(path) ==
    [parent |-> IF Len(path) = 1 THEN Root
                ELSE CHOOSE c \in DOMAIN FirstBoxes : FirstBoxes[c] = Front(path),
     slug |-> Last(path), path |-> path, active |-> TRUE, deleted |-> FALSE]

DocumentsInit ==
    /\ bound \in Bounds
    /\ box = [b \in DOMAIN FirstBoxes |-> FirstSpace(FirstBoxes[b])]
    /\ doc = bound.first
    /\ file = [r \in Docs \X {"original"} |-> 1]
    /\ blob = Docs \X {"original"} \X {1}
    /\ purge = {}
    /\ optimize = [w \in Optimizers |-> NotOptimizing]
    /\ pending = EmptyBag
    /\ past = [requests |-> 0, failures |-> 0, lost |-> {}]

(***************************************************************************)
(* Properties.                                                             *)
(***************************************************************************)

\* However boxes are moved, renamed and deleted, with what lies below them,
\* no two have the same path, the path of a box is its parent's with its own
\* slug, and a box that is not deleted lies in boxes that are not deleted:
\* every query for a box "with its children" goes by these paths.
TreeFits ==
    \A b \in DOMAIN box :
        /\ box[b].path = PathIn(box[b].parent, box[b].slug)
        /\ Unused(box[b].path, {b})
        /\ ~ box[b].deleted => box[b].parent = Root \/ ~ box[box[b].parent].deleted

\* Every file row has its blob, whoever replaces it, empties its box or dies
\* meanwhile.
RowHasBlob == \A r \in DOMAIN file : Key(r, file[r]) \in blob

=============================================================================

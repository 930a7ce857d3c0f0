---------------------------- MODULE ImportBatch ----------------------------
(***************************************************************************)
(* Inbox batches: staged files wait in a batch until a person assigns a    *)
(* document box to each, skips it, and finalizes or discards the batch.    *)
(*                                                                         *)
(* Web requests overlap.  A request reads the batch and its items without  *)
(* a lock and writes later from those copies.  A finalization or a discard *)
(* is one transaction: other requests see its rows at the commit and wait  *)
(* for its row locks, but the staged files it deletes are gone at once.    *)
(*                                                                         *)
(* A definition introduced by "Error:" is a wrong version of the one after *)
(* it; PROJECT.json names the property that each of them breaks.           *)
(***************************************************************************)
EXTENDS Integers, Sequences, SequencesExt, FiniteSets

CONSTANTS
    Files,       \* contents, told apart by sha256 and size
    Requests,    \* requests the web workers serve at the same time
    Bounds       \* sets of bounds, of which one holds from the start: batches
                 \* uploaded, items, requests at a time, discards or not,
                 \* crashes, and those of MailImport

ASSUME BatchAssumption == IsFiniteSet(Files) /\ IsFiniteSet(Requests)

VARIABLES
    docs,        \* per content: documents whose ORIGINAL file has it
    batch,       \* status of the batches, in the order of their ids
    item,        \* item rows, in the order of their ids
    blob,        \* items whose staged file is in the storage
    discarded,   \* batches with an audit event document_import_batch.discarded
    request,     \* per request: where it is, and the rows it has read
    crashes,     \* processes killed, or transactions failed, so far
    bound        \* the bounds that hold

batchVars == <<docs, batch, item, blob, discarded, request, crashes, bound>>

\* The rows.
DocumentImportBatch == {"open", "completed", "discarded"}

DocumentImportBatchItem ==
    [batch : DOMAIN batch, file : Files, target : BOOLEAN,
     status : {"staged", "imported", "duplicate", "skipped", "error"}]

Open == {"staged", "error"}            \* what a finalization works on
Assignable == Open \cup {"skipped"}    \* what can still be assigned

\* A request: its batch, its copies of the items (their status, later their
\* target), the items it has still to do, and the rows written in its
\* transaction but not committed.
Idle == [pc |-> "idle", batch |-> 0, seen |-> <<>>, left |-> {}, wrote |-> <<>>]

ItemsOf(b) == {i \in DOMAIN item : item[i].batch = b}
Lowest(S) == CHOOSE i \in S : \A j \in S : i <= j

\* Nobody else holds the row locks of the items.
Free(r, S) == \A q \in Requests \ {r} : S \cap DOMAIN request[q].wrote = {}

(***************************************************************************)
(* Staging.                                                                *)
(***************************************************************************)

\* CreateDocumentImportBatch with one item per file.  The suggested box is
\* the item's first target, unless there is none or the inbox forbids it.
Stage(files, suggested) ==
    LET new == SetToSeq(files)
        n == Len(item)
    IN  /\ n + Cardinality(files) <= bound.items
        /\ batch' = Append(batch, "open")
        /\ item' = item \o [k \in DOMAIN new |->
                               [batch |-> Len(batch) + 1, file |-> new[k],
                                status |-> "staged", target |-> suggested]]
        /\ blob' = blob \cup (n + 1)..(n + Cardinality(files))

\* the batch upload page, the form of which requires a file
UploadBatch(files, suggested) ==
    /\ Len(batch) < bound.uploads
    /\ files # {}
    /\ Stage(files, suggested)
    /\ UNCHANGED <<docs, discarded, request, crashes, bound>>

(***************************************************************************)
(* Assigning.                                                              *)
(***************************************************************************)

Load(r, b, pc, items) ==
    /\ request[r] = Idle
    /\ Cardinality({q \in Requests : request[q] # Idle}) < bound.requests
    /\ batch[b] = "open"
    /\ request' = [request EXCEPT ![r] = [Idle EXCEPT !.pc = pc, !.batch = b,
                                             !.seen = [i \in items |-> item[i].status]]]
    /\ UNCHANGED <<docs, batch, item, blob, discarded, crashes, bound>>

\* The batch page is posted, to save or to finalize: the batch is open and
\* every item is read before the first is written.
LoadPage(r, b) == \E pc \in {"save", "saveAndFinalize"} : Load(r, b, pc, ItemsOf(b))

\* The single assignment, which answers batch_closed and item_locked otherwise.
LoadItem(r, i) == item[i].status \in Assignable /\ Load(r, item[i].batch, "assign", {i})

\* The page writes each assignable item from the copies: a skipped one only
\* its status, another its target and the status the request once read.
SaveItems(r) ==
    LET q == request[r]
        mine == {i \in DOMAIN q.seen : q.seen[i] \in Assignable}
    IN  /\ q.pc \in {"save", "saveAndFinalize"}
        /\ Free(r, mine)
        /\ \E skip, assign \in SUBSET mine :
              item' = [i \in DOMAIN item |->
                         IF i \in skip THEN [item[i] EXCEPT !.status = "skipped"]
                         ELSE IF i \in mine
                         THEN [item[i] EXCEPT !.target = i \in assign,
                                 !.status = IF q.seen[i] = "skipped" THEN "staged" ELSE q.seen[i]]
                         ELSE item[i]]
        /\ request' = [request EXCEPT ![r] =
                         IF q.pc = "save" THEN Idle ELSE [q EXCEPT !.pc = "list", !.seen = <<>>]]
        /\ UNCHANGED <<docs, batch, blob, discarded, crashes, bound>>

\* The single assignment writes target and status at once.
AssignItem(r) ==
    /\ request[r].pc = "assign"
    /\ Free(r, DOMAIN request[r].seen)
    /\ \E i \in DOMAIN request[r].seen, new \in {"staged", "skipped"}, assign \in BOOLEAN :
          item' = [item EXCEPT ![i].status = new,
                               ![i].target = IF new = "staged" THEN assign ELSE @]
    /\ request' = [request EXCEPT ![r] = Idle]
    /\ UNCHANGED <<docs, batch, blob, discarded, crashes, bound>>

(***************************************************************************)
(* Finalizing.                                                             *)
(***************************************************************************)

\* FinalizeDocumentImportBatch asks the status of the batch that the view
\* loaded, which was open, and reads the items to do.
ListItems(r) ==
    /\ request[r].pc = "list"
    /\ LET todo == {i \in ItemsOf(request[r].batch) : item[i].status \in Open}
       IN  request' = [request EXCEPT ![r].pc = "item", ![r].left = todo,
                         ![r].seen = [i \in todo |-> item[i].target]]
    /\ UNCHANGED <<docs, batch, item, blob, discarded, crashes, bound>>

\* Error: a file that waits in another batch counts as a duplicate, too.
KnownInInbox(r, f) ==
    docs[f] > 0 \/ \E i \in blob : item[i].file = f /\ item[i].batch # request[r].batch

\* the duplicate check: committed files, and those of the own transaction
Known(r, f) ==
    \/ docs[f] > 0
    \/ \E i \in DOMAIN request[r].wrote : request[r].wrote[i] = "imported" /\ item[i].file = f

\* What becomes of the next item, up to the save of its row.  Creating the
\* document may fail, which its savepoint undoes.
Outcome(r, i) ==
    IF ~ request[r].seen[i] \/ i \notin blob THEN {"error"}
    ELSE IF Known(r, item[i].file) THEN {"duplicate"}
    ELSE {"imported", "error"}

ReadItem(r) ==
    /\ request[r].pc = "item" /\ request[r].left # {}
    /\ \E o \in Outcome(r, Lowest(request[r].left)) : request' = [request EXCEPT ![r].pc = o]
    /\ UNCHANGED <<docs, batch, item, blob, discarded, crashes, bound>>

\* Error: the staged file goes before the outcome is known.
FilesAfterAny(i, outcome) == blob \ {i}

\* _delete_staged_file
FilesAfter(i, outcome) == IF outcome = "error" THEN blob ELSE blob \ {i}

\* The row is saved in the transaction, the staged file deleted at once.
WriteItem(r) ==
    LET i == Lowest(request[r].left)
        o == request[r].pc
    IN  /\ o \in {"imported", "duplicate", "error"}
        /\ Free(r, {i})
        /\ blob' = FilesAfter(i, o)
        /\ request' = [request EXCEPT ![r].pc = "item", ![r].left = @ \ {i},
                         ![r].wrote = [j \in DOMAIN @ \cup {i} |-> IF j = i THEN o ELSE @[j]]]
        /\ UNCHANGED <<docs, batch, item, discarded, crashes, bound>>

Committed(wrote) ==
    [i \in DOMAIN item |-> IF i \in DOMAIN wrote THEN [item[i] EXCEPT !.status = wrote[i]]
                                                 ELSE item[i]]

\* The commit; the batch is completed unless an item is staged or in error.
CommitFinalized(r) ==
    LET q == request[r]
        made(f) == Cardinality({i \in DOMAIN q.wrote : q.wrote[i] = "imported" /\ item[i].file = f})
    IN  /\ q.pc = "item" /\ q.left = {}
        /\ item' = Committed(q.wrote)
        /\ docs' = [f \in Files |-> docs[f] + made(f)]
        /\ batch' = IF \E i \in ItemsOf(q.batch) : item'[i].status \in Open
                    THEN batch ELSE [batch EXCEPT ![q.batch] = "completed"]
        /\ request' = [request EXCEPT ![r] = Idle]
        /\ UNCHANGED <<blob, discarded, crashes, bound>>

(***************************************************************************)
(* Discarding.                                                             *)
(***************************************************************************)

LoadDiscard(r, b) == bound.discards /\ Load(r, b, "discard", {})

\* DiscardDocumentImportBatch reads the items that are not documents, without a
\* lock, and goes through those copies: ...
ListDiscarded(r) ==
    /\ request[r].pc = "discard"
    /\ request' = [request EXCEPT ![r].pc = "drop",
                     ![r].left = {i \in ItemsOf(request[r].batch) : item[i].status \in Assignable}]
    /\ UNCHANGED <<docs, batch, item, blob, discarded, crashes, bound>>

\* ... the file of each is deleted at once, ...
DropFile(r) ==
    /\ request[r].pc = "drop" /\ request[r].left # {}
    /\ blob' = blob \ {Lowest(request[r].left)}
    /\ request' = [request EXCEPT ![r].pc = "dropped"]
    /\ UNCHANGED <<docs, batch, item, discarded, crashes, bound>>

\* ... then its row saved as skipped, whatever it has become meanwhile, ...
SkipDropped(r) ==
    LET i == Lowest(request[r].left)
    IN  /\ request[r].pc = "dropped"
        /\ Free(r, {i})
        /\ request' = [request EXCEPT ![r].pc = "drop", ![r].left = @ \ {i},
                         ![r].wrote = [j \in DOMAIN @ \cup {i} |-> IF j = i THEN "skipped" ELSE @[j]]]
        /\ UNCHANGED <<docs, batch, item, blob, discarded, crashes, bound>>

\* ... and the transaction commits.
CommitDiscarded(r) ==
    /\ request[r].pc = "drop" /\ request[r].left = {}
    /\ item' = Committed(request[r].wrote)
    /\ batch' = [batch EXCEPT ![request[r].batch] = "discarded"]
    /\ discarded' = discarded \cup {request[r].batch}
    /\ request' = [request EXCEPT ![r] = Idle]
    /\ UNCHANGED <<docs, blob, crashes, bound>>

(***************************************************************************)
(* The specification.                                                      *)
(***************************************************************************)

\* The web process is killed, or the transaction fails: it is rolled back.
RequestDies(r) ==
    /\ crashes < bound.crashes
    /\ request[r].pc \in {"item", "imported", "duplicate", "error", "drop", "dropped"}
    /\ crashes' = crashes + 1
    /\ request' = [request EXCEPT ![r] = Idle]
    /\ UNCHANGED <<docs, batch, item, blob, discarded, bound>>

BatchInit ==
    /\ docs = [f \in Files |-> 0]
    /\ batch = <<>> /\ item = <<>> /\ blob = {} /\ discarded = {}
    /\ request = [r \in Requests |-> Idle]
    /\ crashes = 0
    /\ bound \in Bounds

(***************************************************************************)
(* Properties.                                                             *)
(***************************************************************************)

\* A request has saved the item, or is about to, and has not committed.
InHand(i) ==
    \E r \in Requests : \/ i \in DOMAIN request[r].wrote
                        \/ request[r].pc = "dropped" /\ i = Lowest(request[r].left)

\* The content of an item is nowhere any more.
Lost(i) == i \notin blob /\ docs[item[i].file] = 0 /\ ~ InHand(i)

\* A staged file is kept until it is a document or its batch was discarded:
\* "Ein Stapel bleibt gespeichert, bis er abgeschlossen oder verworfen wird."
FilesKept == \A i \in DOMAIN item : Lost(i) => item[i].batch \in discarded

\* However saves, finalizations and discards of a batch overlap on their old
\* copies, a staged file is kept until it is a document or its batch was
\* discarded, unless a process was killed, or its transaction failed, between
\* deleting it and the commit.
FilesKeptUnlessKilled == crashes = 0 => FilesKept

\* What a batch calls imported or a duplicate is a document, whatever
\* finalization was rolled back or overtaken.
SaidImported ==
    \A i \in DOMAIN item :
        item[i].status \in {"imported", "duplicate"} => docs[item[i].file] > 0

=============================================================================

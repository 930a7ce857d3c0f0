------------------------------ MODULE Notices ------------------------------
(***************************************************************************)
(* What follows from a change of a document: its search entry is built     *)
(* after the commit, and then the alarms are evaluated, one by one, each   *)
(* in a transaction of its own.  Reminders are told by a periodic task     *)
(* that first lists those that are due.                                    *)
(***************************************************************************)
EXTENDS Documents

CONSTANTS
    Indexers,    \* processes that run callbacks at the same time
    Dispatchers, \* runs of the reminder task at the same time
    Alarms       \* ids of alarms

\* The first alarms are for boxes there are.
ASSUME NoticesAssumption ==
    \A b \in Bounds : \A a \in DOMAIN b.alarms :
        b.alarms[a] \in [active : BOOLEAN, box : DOMAIN FirstBoxes \cup {Root}, below : BOOLEAN,
                         word : Nat]

VARIABLES
    index,     \* per document with a search entry: the revision it shows, and
               \* whether its rebuild had met another one of the document
    rebuild,   \* per process: the rebuild it is in, and alarms it has to try
    alarm,     \* the alarm rows
    match,     \* the match rows: pairs of alarm and document
    reminder,  \* per document: the open reminder of a person
    dispatch   \* per run of the task: the reminders it still has to lock

noticeVars == <<index, rebuild, alarm, match, reminder, dispatch>>

\* The rows.  An alarm is for a box, or for all, and has a word that documents
\* have once they were changed so often.
DocumentSearchIndex == [rev : Nat, raced : BOOLEAN]
DocumentAlarm == [active : BOOLEAN, box : DOMAIN box \cup {Root}, below : BOOLEAN, word : Nat]
DocumentAlarmMatch == (DOMAIN alarm) \X Docs
DocumentReminder == [row : Nat, due : BOOLEAN, notified : BOOLEAN, told : Nat]

(***************************************************************************)
(* RebuildDocumentSearchIndex and EvaluateDocumentAlarms.                  *)
(***************************************************************************)

NotRebuilding == [pc |-> "idle", doc |-> 0, rev |-> 0, met |-> FALSE, todo |-> {}]

Reading(d) == {q \in Indexers : rebuild[q].pc = "read" /\ rebuild[q].doc = d}

\* The callback reads the document, and so makes good for one that was lost ...
ReadDocument(p, d) ==
    /\ "index" \in bound.does
    /\ rebuild[p] = NotRebuilding
    /\ BagIn(<<"index", d>>, pending)
    /\ Exists(d)
    /\ pending' = Taken(<<"index", d>>)
    /\ past' = [past EXCEPT !.lost = @ \ {d}]
    /\ rebuild' = [q \in Indexers |->
                      IF q = p THEN [NotRebuilding EXCEPT !.pc = "read", !.doc = d,
                                                          !.rev = doc[d].rev,
                                                          !.met = Reading(d) # {}]
                      ELSE IF q \in Reading(d) THEN [rebuild[q] EXCEPT !.met = TRUE]
                      ELSE rebuild[q]]
    /\ UNCHANGED <<box, doc, file, blob, optimize, purge, bound,
                   index, alarm, match, reminder, dispatch>>

\* Error: an entry stays as it was first made.
CreatedOnce(d, p) ==
    IF d \in DOMAIN index THEN index
    ELSE Upsert(index, d, [rev |-> rebuild[p].rev, raced |-> rebuild[p].met])

\* update_or_create
UpdatedOrCreated(d, p) == Upsert(index, d, [rev |-> rebuild[p].rev, raced |-> rebuild[p].met])

\* Error: alarms on boxes above the document's own are forgotten.
AlarmsOnBox(d) ==
    {<<a, alarm[a]>> : a \in {x \in DOMAIN alarm : /\ alarm[x].active
                                                  /\ alarm[x].box \in {Root, doc[d].box}}}

\* the active alarms, as they are listed at once
AlarmsToTry(d) == {<<a, alarm[a]>> : a \in {x \in DOMAIN alarm : alarm[x].active}}

\* ... writes the entry, and lists the alarms.
WriteIndex(p) ==
    LET d == rebuild[p].doc
    IN  /\ rebuild[p].pc = "read"
        /\ Exists(d)
        /\ index' = UpdatedOrCreated(d, p)
        /\ rebuild' = [rebuild EXCEPT ![p].pc = "written", ![p].todo = AlarmsToTry(d)]
        /\ UNCHANGED <<docVars, alarm, match, reminder, dispatch>>

\* SearchDocuments with the filters of an alarm; its word is one that the
\* document has since a revision.
Matches(row, d) ==
    /\ Active(d)
    /\ row.box = Root \/ doc[d].box = row.box \/ (row.below /\ doc[d].box \in Below(row.box))
    /\ d \in DOMAIN index /\ index[d].rev >= row.word

\* A match is created once, and fails if the alarm has been deleted meanwhile.
EvaluateAlarm(p, a, row) ==
    LET d == rebuild[p].doc
        hit == Matches(row, d)
    IN  /\ rebuild[p].pc = "written"
        /\ <<a, row>> \in rebuild[p].todo
        /\ hit => a \in DOMAIN alarm
        /\ rebuild' = [rebuild EXCEPT ![p].todo = @ \ {<<a, row>>}]
        /\ match' = IF hit THEN match \cup {<<a, d>>} ELSE match
        /\ UNCHANGED <<docVars, index, alarm, reminder, dispatch>>

Evaluated(p) ==
    /\ rebuild[p].pc = "written" /\ rebuild[p].todo = {}
    /\ rebuild' = [rebuild EXCEPT ![p] = NotRebuilding]
    /\ UNCHANGED <<docVars, index, alarm, match, reminder, dispatch>>

\* A rebuild ends early: what is left of it is not done, nor the callbacks that
\* were to follow.
RebuildEnds(p, later) ==
    /\ rebuild[p] # NotRebuilding
    /\ rebuild' = [rebuild EXCEPT ![p] = NotRebuilding]
    /\ pending' = Without(later)
    /\ UNCHANGED <<box, doc, file, blob, optimize, purge, bound,
                   index, alarm, match, reminder, dispatch>>

LostBy(p, later) == {rebuild[p].doc} \cup Unbuilt(later)

\* The mail of an alarm is refused, or the process dies.
RebuildFails(p, later) ==
    /\ FailureFor(LostBy(p, later))
    /\ RebuildEnds(p, later)

\* The row to refer to is gone: the document's, or that of a listed alarm.
RebuildRaises(p, later) ==
    LET d == rebuild[p].doc
    IN  /\ \/ rebuild[p].pc = "read" /\ ~ Exists(d)
           \/ /\ rebuild[p].pc = "written"
              /\ \E x \in rebuild[p].todo : Matches(x[2], d) /\ x[1] \notin DOMAIN alarm
        /\ RebuildEnds(p, later)
        /\ past' = [past EXCEPT !.lost = @ \cup LostBy(p, later)]

(***************************************************************************)
(* Alarms.                                                                 *)
(***************************************************************************)

\* alarm_create or alarm_update, with a box that is offered
SaveAlarm(a, row) ==
    /\ Request("alarms")
    /\ row.box = Root \/ Usable(row.box)
    /\ alarm' = Upsert(alarm, a, row)
    /\ UNCHANGED <<box, doc, file, blob, optimize, purge, pending, bound,
                   index, rebuild, match, reminder, dispatch>>

DeleteAlarm(a) ==
    /\ Request("alarms")
    /\ a \in DOMAIN alarm
    /\ alarm' = Restrict(alarm, DOMAIN alarm \ {a})
    /\ match' = {m \in match : m[1] # a}
    /\ UNCHANGED <<box, doc, file, blob, optimize, purge, pending, bound,
                   index, rebuild, reminder, dispatch>>

(***************************************************************************)
(* Reminders.                                                              *)
(***************************************************************************)

\* SaveDocumentReminder: a new row, or another date and untold again
SaveDocumentReminder(d, due) ==
    /\ Request("remind")
    /\ Active(d)
    /\ reminder' = Upsert(reminder, d,
                          [row |-> IF d \in DOMAIN reminder THEN reminder[d].row ELSE past'.requests,
                           due |-> due, notified |-> FALSE, told |-> 0])
    /\ UNCHANGED <<box, doc, file, blob, optimize, purge, pending, bound,
                   index, rebuild, alarm, match, dispatch>>

\* CompleteDocumentReminder or DeleteDocumentReminder
EndDocumentReminder(d) ==
    /\ Request("remind")
    /\ Active(d) /\ d \in DOMAIN reminder
    /\ reminder' = Restrict(reminder, DOMAIN reminder \ {d})
    /\ UNCHANGED <<box, doc, file, blob, optimize, purge, pending, bound,
                   index, rebuild, alarm, match, dispatch>>

ReminderComesDue(d) ==
    /\ d \in DOMAIN reminder /\ ~ reminder[d].due
    /\ reminder' = [reminder EXCEPT ![d].due = TRUE]
    /\ UNCHANGED <<docVars, index, rebuild, alarm, match, dispatch>>

\* dispatch_due_document_reminders lists ...
ListDueReminders(w) ==
    /\ dispatch[w] = {}
    /\ dispatch' = [dispatch EXCEPT ![w] =
                      {<<d, reminder[d].row>> :
                          d \in {e \in DOMAIN reminder : /\ Active(e)
                                                         /\ reminder[e].due
                                                         /\ ~ reminder[e].notified}}]
    /\ dispatch'[w] # {}
    /\ UNCHANGED <<docVars, index, rebuild, alarm, match, reminder>>

\* Error: a listed reminder is told, if the row is still there.
StillListed(d, row) == d \in DOMAIN reminder /\ reminder[d].row = row /\ Active(d)

\* the filter of the locked row, which does not ask for its date again
StillUntold(d, row) ==
    /\ d \in DOMAIN reminder
    /\ reminder[d].row = row
    /\ ~ reminder[d].notified
    /\ Active(d)

\* ... and tells, in a transaction each.
TellReminder(w, d, row) ==
    /\ <<d, row>> \in dispatch[w]
    /\ dispatch' = [dispatch EXCEPT ![w] = @ \ {<<d, row>>}]
    /\ reminder' = IF StillUntold(d, row)
                   THEN [reminder EXCEPT ![d].notified = TRUE, ![d].told = @ + 1]
                   ELSE reminder
    /\ UNCHANGED <<docVars, index, rebuild, alarm, match>>

DispatcherDies(w) ==
    /\ Failure
    /\ dispatch[w] # {}
    /\ dispatch' = [dispatch EXCEPT ![w] = {}]
    /\ UNCHANGED <<box, doc, file, blob, optimize, purge, pending, bound,
                   index, rebuild, alarm, match, reminder>>

(***************************************************************************)
(* Rows that go with documents that are deleted for good.                  *)
(***************************************************************************)

NoticesLeft ==
    /\ index' = [d \in {e \in DOMAIN index : doc'[e].status # "purged"} |-> index[d]]
    /\ match' = {m \in match : doc'[m[2]].status # "purged"}
    /\ reminder' = [d \in {e \in DOMAIN reminder : doc'[e].status # "purged"} |-> reminder[d]]
    /\ UNCHANGED <<rebuild, alarm, dispatch>>

NoticesInit ==
    /\ index = [d \in Docs |-> [rev |-> doc[d].rev, raced |-> FALSE]]
    /\ rebuild = [p \in Indexers |-> NotRebuilding]
    /\ alarm = bound.alarms
    /\ match = {}
    /\ reminder = << >>
    /\ dispatch = [w \in Dispatchers |-> {}]

(***************************************************************************)
(* Properties.                                                             *)
(***************************************************************************)

\* No callback is left to run, and none runs.
Settled ==
    /\ \A c \in DOMAIN pending : c[1] # "index"
    /\ \A p \in Indexers : rebuild[p] = NotRebuilding

\* Once the callbacks have run, every search entry shows the document as it is
\* now: each operation that changes what is searched also schedules it, and a
\* rebuild that read too early is followed by another.  Two things may leave an
\* old entry.  One is a rebuild that was lost - its process died, or it or a
\* callback before it raised - for that document alone, and until the next
\* rebuild of it begins.  The other are two rebuilds of it that overlapped, of
\* which the slower one had read before.
IndexFresh ==
    Settled => \A d \in Docs \ past.lost : Exists(d) =>
                   d \in DOMAIN index /\ (index[d].rev = doc[d].rev \/ index[d].raced)

\* Once the callbacks have run, each active document that came or changed and
\* matches an alarm has a match, unless its rebuild was lost and none has begun
\* since, and provided alarms and the tree of boxes are as they were before.
AlarmTold ==
    Settled /\ bound.does \cap {"alarms", "boxes"} = {} =>
        \A a \in DOMAIN alarm, d \in Docs \ past.lost :
            /\ Matches(alarm[a], d) /\ alarm[a].active
            /\ d > Len(bound.first) \/ doc[d].rev > 0
            => <<a, d>> \in match

\* Runs of the reminder task that overlap tell a reminder once per date.
ReminderOnce == \A d \in DOMAIN reminder : reminder[d].told <= 1

=============================================================================

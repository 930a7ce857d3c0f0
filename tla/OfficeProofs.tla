---------------------------- MODULE OfficeProofs ----------------------------
(***************************************************************************)
(* Theorems about parts of a tenant in which everything else goes on: the  *)
(* rules for titles, which only three requests touch; reminders; exports   *)
(* and what they skip; members, and the documents they see.                *)
(***************************************************************************)
EXTENDS Office, SequenceTheorems, WellFoundedInduction, TLAPS

Rows == {rule[n] : n \in DOMAIN rule}

\* The rules are rows in a sequence; one without boxes is the default; no box
\* has two rules; and there is at most one default.
RulesApart ==
    /\ rule \in Seq(Rows)
    /\ \A n \in DOMAIN rule : rule[n].default <=> rule[n].boxes = {}
    /\ \A m, n \in DOMAIN rule : m # n => rule[m].boxes \cap rule[n].boxes = {}
    /\ \A m, n \in DOMAIN rule : rule[m].default /\ rule[n].default => m = n

\* Rules that are apart resolve to the same policy either way.
LEMMA ApartAgree == RulesApart => TitlesAgree
<1> SUFFICES ASSUME RulesApart, NEW b \in DOMAIN box
             PROVE  TitlePolicy(b) = RefreshPolicy(b)
  BY DEF TitlesAgree
<1>1. CASE \E n \in DOMAIN rule : b \in rule[n].boxes
  <2>1. PICK n \in DOMAIN rule : RulesOf(b) = {n}
    BY <1>1 DEF RulesApart, RulesOf
  <2>2. Min({n}) = Max({n})
    BY DEF Min, Max
  <2> QED BY <2>1, <2>2 DEF TitlePolicy, RefreshPolicy
<1>2. CASE ~ \E n \in DOMAIN rule : b \in rule[n].boxes
  <2>1. RulesOf(b) = {}
    BY <1>2 DEF RulesOf
  <2> QED BY <2>1 DEF TitlePolicy, RefreshPolicy
<1> QED BY <1>1, <1>2

\* A sequence is a sequence of its own elements.
LEMMA OwnElements ==
    ASSUME NEW S, NEW s \in Seq(S)
    PROVE  s \in Seq({s[n] : n \in DOMAIN s})
OBVIOUS

\* A new rule has boxes that no other has.
LEMMA CreateKeepsApart ==
    ASSUME RulesApart, NEW boxes, NEW from, CreateTitleRule(boxes, from)
    PROVE  RulesApart'
<1> DEFINE r == RuleSaved(boxes, from)
           all == Rows \cup {r}
<1>1. rule \in Seq(all) /\ r \in all
  BY DEF RulesApart
<1>2. rule' = Append(rule, r) /\ RuleValid(0, boxes)
  BY DEF CreateTitleRule
<1>3. /\ rule' \in Seq(all)
      /\ DOMAIN rule' = DOMAIN rule \cup {Len(rule) + 1}
      /\ DOMAIN rule = 1 .. Len(rule)
      /\ Len(rule) \in Nat
      /\ \A n \in DOMAIN rule : rule'[n] = rule[n]
      /\ rule'[Len(rule) + 1] = r
  <2>1. DOMAIN rule = 1 .. Len(rule) /\ Len(rule) \in Nat
    BY <1>1
  <2>2. rule' \in Seq(all) /\ Len(rule') = Len(rule) + 1
    BY <1>1, <1>2, AppendProperties
  <2>3. rule'[Len(rule) + 1] = r /\ \A n \in 1 .. Len(rule) : rule'[n] = rule[n]
    BY <1>1, <1>2, AppendProperties
  <2>4. DOMAIN rule' = 1 .. (Len(rule) + 1)
    BY <2>2
  <2>5. 1 .. (Len(rule) + 1) = (1 .. Len(rule)) \cup {Len(rule) + 1}
    BY <2>1
  <2> QED BY <2>1, <2>2, <2>3, <2>4, <2>5
<1>4. /\ r.default <=> r.boxes = {}
      /\ \A n \in DOMAIN rule : /\ r.boxes \cap rule[n].boxes = {}
                                /\ r.default => ~ rule[n].default
  <2>1. r.boxes = boxes /\ (r.default <=> boxes = {})
    BY DEF RuleSaved
  <2>2. DOMAIN rule \ {0} = DOMAIN rule
    BY <1>3
  <2>3. ASSUME NEW n \in DOMAIN rule PROVE boxes \cap rule[n].boxes = {}
    BY <1>2, <2>2 DEF RuleValid, UsedElsewhere
  <2>4. ASSUME NEW n \in DOMAIN rule, boxes = {} PROVE ~ rule[n].default
    BY <1>2, <2>2, <2>4 DEF RuleValid
  <2> HIDE DEF r
  <2> QED BY <2>1, <2>3, <2>4
<1>5. rule' \in Seq(Rows')
  BY <1>3, OwnElements DEF Rows
<1> QED BY <1>3, <1>4, <1>5 DEF RulesApart

\* A rule that is edited has boxes that no other has.
LEMMA EditKeepsApart ==
    ASSUME RulesApart, NEW n \in DOMAIN rule, NEW boxes, NEW from,
           EditTitleRule(n, boxes, from)
    PROVE  RulesApart'
<1> DEFINE r == RuleSaved(boxes, from)
           all == Rows \cup {r}
<1>1. rule \in Seq(all) /\ r \in all
  BY DEF RulesApart
<1>2. rule' = [rule EXCEPT ![n] = r] /\ RuleValid(n, boxes)
  BY DEF EditTitleRule
<1>3. /\ rule' \in Seq(all)
      /\ DOMAIN rule' = DOMAIN rule
      /\ \A m \in DOMAIN rule \ {n} : rule'[m] = rule[m]
      /\ rule'[n] = r
  BY <1>1, <1>2
<1>4. /\ r.default <=> r.boxes = {}
      /\ \A m \in DOMAIN rule \ {n} : /\ r.boxes \cap rule[m].boxes = {}
                                      /\ r.default => ~ rule[m].default
  BY <1>2 DEF RuleSaved, RuleValid, UsedElsewhere
<1>5. rule' \in Seq(Rows')
  BY <1>3, OwnElements DEF Rows
<1> QED BY <1>3, <1>4, <1>5 DEF RulesApart

\* Deleting one leaves the others as they are.
LEMMA DeleteKeepsApart ==
    ASSUME RulesApart, NEW n \in DOMAIN rule, DeleteTitleRule(n)
    PROVE  RulesApart'
<1> DEFINE at(m) == IF m < n THEN m ELSE m + 1
<1>1. /\ Len(rule) \in Nat /\ DOMAIN rule = 1 .. Len(rule)
      /\ DOMAIN rule' = 1 .. (Len(rule) - 1)
      /\ \A m \in DOMAIN rule' : rule'[m] = rule[at(m)]
      /\ rule' \in Seq(Rows)
  <2> DEFINE before == SubSeq(rule, 1, n - 1)
             after == SubSeq(rule, n + 1, Len(rule))
  <2>1. rule \in Seq(Rows) /\ Len(rule) \in Nat /\ DOMAIN rule = 1 .. Len(rule)
    BY DEF RulesApart
  <2>2. /\ before \in Seq(Rows) /\ Len(before) = n - 1
        /\ \A m \in 1 .. (n - 1) : before[m] = rule[m]
    BY <2>1, SubSeqProperties
  <2>3. /\ after \in Seq(Rows) /\ Len(after) = Len(rule) - n
        /\ \A m \in 1 .. (Len(rule) - n) : after[m] = rule[n + m]
    BY <2>1, SubSeqProperties, SMTT(30)
  <2>4. rule' = before \o after
    BY DEF DeleteTitleRule, RemoveAt
  <2> HIDE DEF before, after
  <2>5. /\ rule' \in Seq(Rows) /\ Len(rule') = Len(rule) - 1
        /\ \A m \in 1 .. (Len(rule) - 1) :
              rule'[m] = IF m <= n - 1 THEN before[m] ELSE after[m - (n - 1)]
    <3>1. /\ rule' \in Seq(Rows) /\ Len(rule') = Len(before) + Len(after)
          /\ \A m \in 1 .. Len(before) + Len(after) :
                rule'[m] = IF m <= Len(before) THEN before[m] ELSE after[m - Len(before)]
      BY <2>2, <2>3, <2>4, ConcatProperties
    <3>2. Len(before) = n - 1 /\ Len(before) + Len(after) = Len(rule) - 1
      BY <2>1, <2>2, <2>3
    <3> QED BY <3>1, <3>2
  <2>6. DOMAIN rule' = 1 .. (Len(rule) - 1)
    BY <2>5
  <2>7. ASSUME NEW m \in 1 .. (Len(rule) - 1) PROVE rule'[m] = rule[at(m)]
    <3>1. CASE m < n
      <4>1. m \in 1 .. (n - 1) /\ m <= n - 1 /\ at(m) = m
        BY <2>1, <3>1
      <4>2. rule'[m] = before[m]
        BY <2>5, <4>1
      <4>3. before[m] = rule[m]
        BY <2>2, <4>1
      <4> QED BY <4>1, <4>2, <4>3
    <3>2. CASE ~ m < n
      <4> DEFINE k == m - (n - 1)
      <4>1. k \in 1 .. (Len(rule) - n) /\ n + k = m + 1 /\ ~ m <= n - 1 /\ at(m) = m + 1
        BY <2>1, <3>2
      <4>2. rule'[m] = after[k]
        BY <2>5, <4>1
      <4> HIDE DEF k
      <4>3. after[k] = rule[m + 1]
        BY <2>3, <4>1
      <4> QED BY <4>1, <4>2, <4>3
    <3> QED BY <3>1, <3>2
  <2> QED BY <2>1, <2>5, <2>6, <2>7
<1>2. \A m \in DOMAIN rule' : at(m) \in DOMAIN rule /\ rule'[m] = rule[at(m)]
  BY <1>1
<1>3. \A l, m \in DOMAIN rule' : at(l) = at(m) => l = m
  BY <1>1
<1>4. rule' \in Seq(Rows')
  BY <1>1, OwnElements, SMTT(30) DEF Rows
<1> HIDE DEF at
<1> QED BY <1>2, <1>3, <1>4 DEF RulesApart

\* Everything but the three requests leaves the rules alone.
LEMMA OnlyRequestsTouchRules ==
    ASSUME [Next]_vars
    PROVE  \/ UNCHANGED rule
           \/ \E boxes, from : CreateTitleRule(boxes, from)
           \/ \E n \in DOMAIN rule : \E boxes, from : EditTitleRule(n, boxes, from)
           \/ \E n \in DOMAIN rule : DeleteTitleRule(n)
BY DEF Next, DocumentsNext, TitleRulesNext, LinksNext, NoticesNext, OcrNext, BoxJobsNext,
       ExportsNext, AccountsNext, vars, Elsewhere, DocumentsOnly, LinksOnly, OcrOnly, BoxJobsOnly,
       NoticesOnly, ExportsOnly, AccountsOnly

THEOREM RulesStayApart == Spec => []RulesApart
<1>1. Init => RulesApart
  BY DEF Init, RulesInit, RulesApart, Rows
<1>2. RulesApart /\ [Next]_vars => RulesApart'
  <2> SUFFICES ASSUME RulesApart, [Next]_vars PROVE RulesApart'
    OBVIOUS
  <2>1. CASE UNCHANGED rule
    BY <2>1 DEF RulesApart, Rows
  <2>2. CASE \E boxes, from : CreateTitleRule(boxes, from)
    BY <2>2, CreateKeepsApart
  <2>3. CASE \E n \in DOMAIN rule : \E boxes, from : EditTitleRule(n, boxes, from)
    BY <2>3, EditKeepsApart
  <2>4. CASE \E n \in DOMAIN rule : DeleteTitleRule(n)
    BY <2>4, DeleteKeepsApart
  <2> QED BY <2>1, <2>2, <2>3, <2>4, OnlyRequestsTouchRules
<1> QED BY <1>1, <1>2, PTL DEF Spec

\* A document gets its title by the same rule when it is new and when the
\* titles of its box are refreshed, in a tenant of any size.
THEOREM TitlesAlwaysAgree == Spec => []TitlesAgree
BY RulesStayApart, ApartAgree, PTL

-----------------------------------------------------------------------------
(***************************************************************************)
(* Reminders: how often one was told depends only on what is set and told. *)
(***************************************************************************)

\* A reminder that is not marked as told was not told; no other was told twice.
RemindersUntold ==
    \A d \in DOMAIN reminder :
        /\ DOMAIN reminder[d] = {"row", "due", "notified", "told"}
        /\ reminder[d].notified \in BOOLEAN
        /\ reminder[d].told = IF reminder[d].notified THEN 1 ELSE 0

\* What touches the reminders.
LEMMA OnlyTheseTouchReminders ==
    ASSUME [Next]_vars
    PROVE  \/ UNCHANGED reminder
           \/ \E d, due : SaveDocumentReminder(d, due)
           \/ \E d : EndDocumentReminder(d) \/ ReminderComesDue(d)
           \/ \E w, d, row : TellReminder(w, d, row)
           \/ NoticesLeft
BY DEF Next, DocumentsNext, TitleRulesNext, LinksNext, NoticesNext, OcrNext, BoxJobsNext,
       ExportsNext, AccountsNext, vars, Elsewhere, DocumentsOnly, RulesOnly, LinksOnly, OcrOnly, BoxJobsOnly,
       ExportsOnly, AccountsOnly, noticeVars, ReadDocument, WriteIndex, EvaluateAlarm,
       Evaluated, RebuildFails, RebuildRaises, RebuildEnds, SaveAlarm, DeleteAlarm,
       ListDueReminders, DispatcherDies

\* Runs of the reminder task that overlap tell a reminder once per date, however
\* many there are: the lock of a row comes with the filter on its mark.
THEOREM RemindersAreToldOnce == Spec => []ReminderOnce
<1>1. Init => RemindersUntold
  BY DEF Init, NoticesInit, RemindersUntold
<1>2. RemindersUntold /\ [Next]_vars => RemindersUntold'
  <2> SUFFICES ASSUME RemindersUntold, [Next]_vars PROVE RemindersUntold'
    OBVIOUS
  <2>1. CASE UNCHANGED reminder
    BY <2>1 DEF RemindersUntold
  <2>2. ASSUME NEW d, NEW due, SaveDocumentReminder(d, due) PROVE RemindersUntold'
    BY <2>2 DEF SaveDocumentReminder, RemindersUntold, Upsert
  <2>3. ASSUME NEW d, EndDocumentReminder(d) PROVE RemindersUntold'
    BY <2>3 DEF EndDocumentReminder, Restrict, RemindersUntold
  <2>4. ASSUME NEW d, ReminderComesDue(d) PROVE RemindersUntold'
    BY <2>4 DEF ReminderComesDue, RemindersUntold
  <2>5. ASSUME NEW w, NEW d, NEW row, TellReminder(w, d, row) PROVE RemindersUntold'
    <3>1. CASE StillUntold(d, row)
      <4>1. d \in DOMAIN reminder /\ reminder[d].told = 0 /\ DOMAIN reminder' = DOMAIN reminder
        BY <2>5, <3>1 DEF TellReminder, StillUntold, RemindersUntold
      <4>2. /\ \A e \in DOMAIN reminder \ {d} : reminder'[e] = reminder[e]
            /\ reminder'[d] = [reminder[d] EXCEPT !.notified = TRUE, !.told = @ + 1]
        BY <2>5, <3>1 DEF TellReminder, StillUntold
      <4>3. DOMAIN reminder[d] = {"row", "due", "notified", "told"}
        BY <4>1 DEF RemindersUntold
      <4>4. /\ DOMAIN reminder'[d] = {"row", "due", "notified", "told"}
            /\ reminder'[d].notified = TRUE
            /\ reminder'[d].told = reminder[d].told + 1
        BY <4>2, <4>3
      <4>5. reminder'[d].told = 1
        BY <4>1, <4>4
      <4>6. ASSUME NEW e \in DOMAIN reminder, e # d
            PROVE  /\ DOMAIN reminder'[e] = {"row", "due", "notified", "told"}
                   /\ reminder'[e].notified \in BOOLEAN
                   /\ reminder'[e].told = IF reminder'[e].notified THEN 1 ELSE 0
        BY <4>2, <4>6 DEF RemindersUntold
      <4> QED BY <4>1, <4>4, <4>5, <4>6, Zenon DEF RemindersUntold
    <3>2. CASE ~ StillUntold(d, row)
      BY <2>5, <3>2 DEF TellReminder, RemindersUntold
    <3> QED BY <3>1, <3>2
  <2>6. CASE NoticesLeft
    BY <2>6 DEF NoticesLeft, RemindersUntold
  <2> QED BY <2>1, <2>2, <2>3, <2>4, <2>5, <2>6, OnlyTheseTouchReminders
<1>3. RemindersUntold => ReminderOnce
  BY DEF RemindersUntold, ReminderOnce
<1> QED BY <1>1, <1>2, <1>3, PTL DEF Spec

-----------------------------------------------------------------------------
(***************************************************************************)
(* Exports.  A run is begun by its one message, packs each document once,  *)
(* and has saved all that it packed when it is completed.                  *)
(***************************************************************************)

Runs == {run[r] : r \in DOMAIN run}

\* A run that waits has no items; the documents that it has exported are in its
\* archive; and that of a run that is completed is saved.
RunKept(r) ==
    /\ DOMAIN run[r] = {"status", "docs", "only", "step", "todo", "items", "archive", "zip"}
    /\ run[r].step \in {"queued", "packing", "done"}
    /\ run[r].step = "queued" => DOMAIN run[r].items = {}
    /\ DOMAIN run[r].todo \cap DOMAIN run[r].items = {}
    /\ ItemsOf(r, "exported") \subseteq run[r].archive
    /\ run[r].status = "completed" => run[r].step = "done" /\ run[r].archive \subseteq run[r].zip

\* There is one message for each run that waits, and none for another.
BegunOnce ==
    \A r : <<"export", r>> \in DOMAIN pending =>
              /\ pending[<<"export", r>>] = 1
              /\ r \in DOMAIN run
              /\ run[r].step = "queued"

\* What a run skips, another has exported.
SkipsHaveReason ==
    \A r \in DOMAIN run : \A d \in ItemsOf(r, "skipped") :
        \E s \in DOMAIN run \ {r} : d \in ItemsOf(s, "exported")

RunsKept ==
    /\ run \in Seq(Runs)
    /\ \A r \in DOMAIN run : RunKept(r)
    /\ SkipsHaveReason

\* What touches the runs.
LEMMA OnlyTheseTouchRuns ==
    ASSUME [Next]_vars
    PROVE  \/ UNCHANGED run
           \/ \E b, below, only : CreateExport(b, below, only)
           \/ \E r \in DOMAIN run :
                 \/ StartExport(r)
                 \/ \E d \in Docs : PackDocument(r, d)
                 \/ FinishExport(r) \/ ExportFails(r) \/ ExportDies(r)
                 \/ \E killed : CancelExport(r, killed)
           \/ ItemsLeft
BY DEF Next, DocumentsNext, TitleRulesNext, LinksNext, NoticesNext, OcrNext, BoxJobsNext,
       ExportsNext, AccountsNext, vars, exportVars, Elsewhere, DocumentsOnly, RulesOnly, LinksOnly, OcrOnly,
       BoxJobsOnly, NoticesOnly, AccountsOnly

\* Callbacks and messages that have none for a run that there was not.
NoneForRuns(messages) ==
    \A r : <<"export", r>> \in DOMAIN messages =>
              /\ <<"export", r>> \in DOMAIN pending
              /\ pending[<<"export", r>>] = 1 => messages[<<"export", r>>] = 1

LEMMA ScheduledAreOthers ==
    ASSUME NEW kinds, "export" \notin kinds, NEW ds
    PROVE  NoneForRuns(Scheduled(kinds, ds))
<1> SUFFICES ASSUME NEW r, <<"export", r>> \in DOMAIN Scheduled(kinds, ds)
             PROVE  /\ <<"export", r>> \in DOMAIN pending
                    /\ pending[<<"export", r>>] = 1 => Scheduled(kinds, ds)[<<"export", r>>] = 1
  BY DEF NoneForRuns
<1> DEFINE e == <<"export", r>>
           all == DOMAIN pending \cup (kinds \X ds)
           new == SetToBag(kinds \X ds)
<1>1. e \notin DOMAIN new /\ DOMAIN new = kinds \X ds
  BY DEF SetToBag
<1>2. Scheduled(kinds, ds) = [x \in all |-> (IF x \in DOMAIN pending THEN pending[x] ELSE 0)
                                            + (IF x \in DOMAIN new THEN new[x] ELSE 0)]
  BY <1>1 DEF Scheduled, (+)
<1> HIDE DEF new, e
<1>3. e \in DOMAIN pending
  BY <1>1, <1>2 DEF e
<1>4. pending[e] = 1 => Scheduled(kinds, ds)[e] = 1 + 0
  BY <1>1, <1>2, <1>3
<1> QED BY <1>3, <1>4 DEF e

LEMMA RemovedIsNone ==
    ASSUME NEW cs
    PROVE  NoneForRuns(Without(cs))
BY DEF NoneForRuns, Without, (-), SetToBag

\* What schedules a callback, sends a message, or takes one.
LEMMA OnlyTheseTouchMessages ==
    ASSUME [Next]_vars
    PROVE  \/ UNCHANGED pending
           \/ \E b, target : DeleteDocumentSpace(b, target)
           \/ \E b, type, title : UploadDocument(b, type, title)
           \/ \E b, type : ImportIntoBox(b, type)
           \/ \E d, parts, keep : SplitDocument(d, parts, keep)
           \/ \E ds, b, keep : MergeDocuments(ds, b, keep)
           \/ \E d, b, retitled : UpdateDocumentCoreMetadata(d, b, retitled)
           \/ \E d : AddDocumentComment(d) \/ SetDocumentTags(d)
           \/ \E cs : CallbacksLost(cs)
           \/ \E c, later : CallbackRaises(c, later)
           \/ \E d, values : UpdateDocumentMetadata(d, values)
           \/ \E b, title, f, v, complete : UploadInvoice(b, title, f, v, complete)
           \/ \E p \in Indexers : \E d : ReadDocument(p, d)
           \/ \E p, later : RebuildFails(p, later) \/ RebuildRaises(p, later)
           \/ \E d : StartOcr(d) \/ StartOfficeConversion(d)
           \/ \E d, later : StartUnsent(d, later)
           \/ \E j, titled, found : OcrSucceeds(j, titled, found)
           \/ \E kind, b, below : CreateBoxJob(kind, b, below)
           \/ \E w, j : ClaimBoxJob(w, j)
           \/ \E w, found : EndLayout(w, found)
           \/ \E w : EndBatch(w)
           \/ \E j : ResumeBoxJob(j)
           \/ \E b, below, only : CreateExport(b, below, only)
           \/ \E r \in DOMAIN run : StartExport(r)
BY DEF Next, DocumentsNext, TitleRulesNext, LinksNext, NoticesNext, OcrNext, BoxJobsNext,
       ExportsNext, AccountsNext, vars, docVars, CreateDocumentSpace, UpdateDocumentSpace, EmptyDocumentSpace, DeleteStorageKeys,
       DeleteDocument, OptimizeOne, SaveOptimized, ReplaceStorage, DeleteOldKey,
       OptimizerDies, PurgeLost, CreateTitleRule, EditTitleRule, DeleteTitleRule,
       AddDocumentRelation, RemoveDocumentRelation, CreateDocumentMetadataField,
       UpdateDocumentMetadataField, DeleteDocumentMetadataField, WriteIndex, EvaluateAlarm,
       Evaluated, SaveAlarm, DeleteAlarm, SaveDocumentReminder,
       EndDocumentReminder, ReminderComesDue, ListDueReminders, TellReminder,
       DispatcherDies, RestartOcr, TakeOcrJob, MarkOcrRunning, ReadForOcr, OcrFails,
       CancelOcr, OcrDies, RunOfficeConversion, SaveDerivative, StoreDerivative,
       ConversionSucceeds, ConversionFails, CancelConversion, ReconcileNext, SkipLayout,
       StartLayout, SaveCursor, WorkerDies, CancelLayout, PackDocument, FinishExport,
       ExportFails, ExportDies, CancelExport, AddTenantMember, UpdateTenantMembership,
       CreateTenantRole, UpdateTenantRole, CheckTenantRole, DeleteTenantRole

LEMMA OthersScheduleOthers ==
    ASSUME [Next]_vars
    PROVE  \/ NoneForRuns(pending')
           \/ \E b, below, only : CreateExport(b, below, only)
<1>1. NoneForRuns(pending)
  BY DEF NoneForRuns
<1>2. ASSUME NEW b, NEW target, DeleteDocumentSpace(b, target) PROVE NoneForRuns(pending')
  BY <1>1, <1>2, ScheduledAreOthers DEF DeleteDocumentSpace
<1>3. ASSUME NEW b, NEW type, NEW title, UploadDocument(b, type, title) PROVE NoneForRuns(pending')
  BY <1>1, <1>3, ScheduledAreOthers DEF Create, UploadDocument
<1>4. ASSUME NEW b, NEW type, ImportIntoBox(b, type) PROVE NoneForRuns(pending')
  BY <1>1, <1>4, ScheduledAreOthers DEF Create, ImportIntoBox
<1>5. ASSUME NEW d, NEW parts, NEW keep, SplitDocument(d, parts, keep) PROVE NoneForRuns(pending')
  BY <1>1, <1>5, ScheduledAreOthers DEF Create, SplitDocument
<1>6. ASSUME NEW ds, NEW b, NEW keep, MergeDocuments(ds, b, keep) PROVE NoneForRuns(pending')
  BY <1>1, <1>6, ScheduledAreOthers DEF Create, MergeDocuments
<1>7. ASSUME NEW d, NEW b, NEW retitled, UpdateDocumentCoreMetadata(d, b, retitled) PROVE NoneForRuns(pending')
  BY <1>1, <1>7, ScheduledAreOthers DEF UpdateDocumentCoreMetadata
<1>8. ASSUME NEW d, AddDocumentComment(d) PROVE NoneForRuns(pending')
  BY <1>1, <1>8, ScheduledAreOthers DEF Annotate, AddDocumentComment
<1>9. ASSUME NEW d, SetDocumentTags(d) PROVE NoneForRuns(pending')
  BY <1>1, <1>9, ScheduledAreOthers DEF Annotate, SetDocumentTags
<1>10. ASSUME NEW cs, CallbacksLost(cs) PROVE NoneForRuns(pending')
  BY <1>1, <1>10, RemovedIsNone DEF CallbacksLost
<1>23. ASSUME NEW c, NEW later, CallbackRaises(c, later) PROVE NoneForRuns(pending')
  BY <1>1, <1>23, RemovedIsNone DEF CallbackRaises
<1>24. ASSUME NEW p, NEW later, RebuildFails(p, later) \/ RebuildRaises(p, later)
       PROVE  NoneForRuns(pending')
  BY <1>1, <1>24, RemovedIsNone DEF RebuildFails, RebuildRaises, RebuildEnds
<1>25. ASSUME NEW d, NEW later, StartUnsent(d, later) PROVE NoneForRuns(pending')
  BY <1>1, <1>25, RemovedIsNone DEF StartUnsent
<1>11. ASSUME NEW d, NEW values, UpdateDocumentMetadata(d, values) PROVE NoneForRuns(pending')
  BY <1>1, <1>11, ScheduledAreOthers DEF UpdateDocumentMetadata
<1>12. ASSUME NEW b, NEW title, NEW f, NEW v, NEW complete, UploadInvoice(b, title, f, v, complete) PROVE NoneForRuns(pending')
  BY <1>1, <1>12, ScheduledAreOthers DEF Create, UploadInvoice
<1>13. ASSUME NEW p, NEW d, ReadDocument(p, d) PROVE NoneForRuns(pending')
  BY <1>1, <1>13, RemovedIsNone DEF ReadDocument, Taken
<1>14. ASSUME NEW d, StartOcr(d) PROVE NoneForRuns(pending')
  BY <1>1, <1>14, RemovedIsNone DEF StartOcr, Taken
<1>15. ASSUME NEW d, StartOfficeConversion(d) PROVE NoneForRuns(pending')
  BY <1>1, <1>15, RemovedIsNone DEF StartOfficeConversion, Taken
<1>16. ASSUME NEW j, NEW titled, NEW found, OcrSucceeds(j, titled, found) PROVE NoneForRuns(pending')
  <2>1. UNCHANGED pending \/ pending' = Scheduled({"index"}, {ocr[j].doc})
    BY <1>16, Zenon DEF OcrSucceeds
  <2> QED BY <1>1, <2>1, ScheduledAreOthers
<1>17. ASSUME NEW kind, NEW b, NEW below, CreateBoxJob(kind, b, below) PROVE NoneForRuns(pending')
  BY <1>1, <1>17, ScheduledAreOthers DEF CreateBoxJob
<1>18. ASSUME NEW w, NEW j, ClaimBoxJob(w, j) PROVE NoneForRuns(pending')
  BY <1>1, <1>18, RemovedIsNone DEF ClaimBoxJob, Taken
<1>19. ASSUME NEW w, NEW found, EndLayout(w, found) PROVE NoneForRuns(pending')
  <2>1. UNCHANGED pending \/ pending' = Scheduled({"index"}, {ocr[worker[w].ocr].doc})
    BY <1>19, Zenon DEF EndLayout
  <2> QED BY <1>1, <2>1, ScheduledAreOthers
<1>20. ASSUME NEW w, EndBatch(w) PROVE NoneForRuns(pending')
  BY <1>1, <1>20, ScheduledAreOthers DEF EndBatch
<1>21. ASSUME NEW j, ResumeBoxJob(j) PROVE NoneForRuns(pending')
  BY <1>1, <1>21, ScheduledAreOthers DEF ResumeBoxJob
<1>22. ASSUME NEW r, StartExport(r) PROVE NoneForRuns(pending')
  BY <1>1, <1>22, RemovedIsNone DEF StartExport, Taken
<1> QED
  BY <1>1, <1>2, <1>3, <1>4, <1>5, <1>6, <1>7, <1>8, <1>9, <1>10, <1>11, <1>12, <1>13, <1>14, <1>15, <1>16, <1>17, <1>18, <1>19, <1>20, <1>21, <1>22,
     <1>23, <1>24, <1>25,
     OnlyTheseTouchMessages

\* An export that a run has made is in its ZIP, or will be, or the run is lost.
LEMMA KeptCovers == RunsKept => SkipsAreCovered
<1> SUFFICES ASSUME RunsKept,
                    NEW r \in DOMAIN run, NEW d \in ItemsOf(r, "skipped"),
                    NEW s \in DOMAIN run \ {r}, d \in ItemsOf(s, "exported")
             PROVE  /\ d \in run[s].archive
                    /\ Lost(s) \/ run[s].step = "packing" \/ d \in run[s].zip
  BY DEF RunsKept, SkipsHaveReason, SkipsAreCovered
<1>1. RunKept(s) /\ d \in DOMAIN run[s].items
  BY DEF RunsKept, ItemsOf
<1> QED BY <1>1 DEF RunKept, Lost

\* A run is changed, and the others are not.
LEMMA OneRunChanges ==
    ASSUME run \in Seq(Runs), NEW r \in DOMAIN run, NEW row,
           run' = [run EXCEPT ![r] = row]
    PROVE  /\ run' \in Seq(Runs')
           /\ DOMAIN run' = DOMAIN run
           /\ run'[r] = row
           /\ \A s \in DOMAIN run \ {r} : run'[s] = run[s]
<1> DEFINE all == Runs \cup {row}
<1>1. run \in Seq(all) /\ row \in all
  OBVIOUS
<1>2. run' \in Seq(all) /\ DOMAIN run' = DOMAIN run
  BY <1>1
<1>3. run'[r] = row /\ \A s \in DOMAIN run \ {r} : run'[s] = run[s]
  BY <1>1
<1> HIDE DEF all
<1>4. run' \in Seq({run'[n] : n \in DOMAIN run'})
  <2>1. ASSUME NEW q \in Seq(all) PROVE q \in Seq({q[n] : n \in DOMAIN q})
    BY OwnElements
  <2> QED BY <1>2, <2>1
<1>5. Runs' = {run'[s] : s \in DOMAIN run'}
  BY DEF Runs
<1> QED BY <1>2, <1>3, <1>4, <1>5

\* A run that goes on with the items that it has.
LEMMA SameItemsKeep ==
    ASSUME RunsKept, NEW r \in DOMAIN run, NEW row,
           run' = [run EXCEPT ![r] = row],
           DOMAIN row = DOMAIN run[r],
           row.items = run[r].items, row.archive = run[r].archive,
           row.step \in {"queued", "packing", "done"},
           row.step = "queued" => DOMAIN row.items = {},
           DOMAIN row.todo \cap DOMAIN row.items = {},
           row.status = "completed" => row.step = "done" /\ row.archive \subseteq row.zip
    PROVE  RunsKept'
<1>1. /\ run' \in Seq(Runs')
      /\ DOMAIN run' = DOMAIN run
      /\ run'[r] = row
      /\ \A s \in DOMAIN run \ {r} : run'[s] = run[s]
  BY OneRunChanges DEF RunsKept
<1>2. \A s \in DOMAIN run : run'[s].items = run[s].items
  BY <1>1
<1>3. \A s \in DOMAIN run : \A status : ItemsOf(s, status)' = ItemsOf(s, status)
  BY <1>2 DEF ItemsOf
<1>4. SkipsHaveReason'
  BY <1>1, <1>3 DEF RunsKept, SkipsHaveReason
<1>5. ASSUME NEW s \in DOMAIN run \ {r} PROVE RunKept(s)'
  BY <1>1, <1>3 DEF RunsKept, RunKept
<1>6. RunKept(r)'
  BY <1>1, <1>3 DEF RunsKept, RunKept
<1> QED BY <1>1, <1>4, <1>5, <1>6 DEF RunsKept

LEMMA CreateKeepsRuns ==
    ASSUME RunsKept, BegunOnce, NEW b, NEW below, NEW only, CreateExport(b, below, only)
    PROVE  RunsKept' /\ BegunOnce'
<1>0. PICK r : r = Len(run) + 1
  OBVIOUS
<1> DEFINE row == NewRun(Exportable(b, below, only), only)
           all == Runs \cup {row}
<1>1. run' = Append(run, row) /\ pending' = Scheduled({"export"}, {r})
  BY <1>0 DEF CreateExport
<1>2. run \in Seq(all) /\ row \in all /\ DOMAIN run = 1 .. Len(run) /\ Len(run) \in Nat
  BY DEF RunsKept
<1>3. run' \in Seq(all) /\ Len(run') = r /\ run'[r] = row
      /\ \A s \in 1 .. Len(run) : run'[s] = run[s]
  BY <1>0, <1>1, <1>2, AppendProperties
<1>4. DOMAIN run' = DOMAIN run \cup {r} /\ r \notin DOMAIN run
  <2>1. DOMAIN run' = 1 .. r
    BY <1>3
  <2> QED BY <1>0, <1>2, <2>1
<1>5. \A s \in DOMAIN run : run'[s] = run[s]
  BY <1>2, <1>3
<1>6. run' \in Seq(Runs')
  <2> HIDE DEF all
  <2>1. ASSUME NEW q \in Seq(all) PROVE q \in Seq({q[n] : n \in DOMAIN q})
    BY OwnElements
  <2>2. run' \in Seq({run'[n] : n \in DOMAIN run'})
    BY <1>3, <2>1
  <2> QED BY <2>2 DEF Runs
<1>7. /\ DOMAIN row = {"status", "docs", "only", "step", "todo", "items", "archive", "zip"}
      /\ row.step = "queued" /\ row.status = "processing"
      /\ DOMAIN row.items = {} /\ DOMAIN row.todo = {}
  BY DEF NewRun
<1> HIDE DEF row
<1>8. RunKept(r)'
  BY <1>3, <1>7 DEF RunKept, ItemsOf
<1>9. \A s \in DOMAIN run : \A status : ItemsOf(s, status)' = ItemsOf(s, status)
  BY <1>5 DEF ItemsOf
<1>10. ASSUME NEW s \in DOMAIN run PROVE RunKept(s)'
  BY <1>5, <1>9 DEF RunsKept, RunKept
<1>11. SkipsHaveReason'
  <2>1. \A status : ItemsOf(r, status)' = {}
    BY <1>3, <1>7 DEF ItemsOf
  <2> QED BY <1>4, <1>9, <2>1 DEF RunsKept, SkipsHaveReason
<1>12. BegunOnce'
  <2> DEFINE sent == {"export"} \X {r}
             new == SetToBag(sent)
             known == DOMAIN pending \cup sent
  <2>1. DOMAIN new = sent /\ \A e \in sent : new[e] = 1
    BY DEF SetToBag
  <2>2. pending' = [e \in known |-> (IF e \in DOMAIN pending THEN pending[e] ELSE 0)
                                  + (IF e \in DOMAIN new THEN new[e] ELSE 0)]
    BY <1>1, <2>1 DEF Scheduled, (+)
  <2>3. <<"export", r>> \notin DOMAIN pending
    BY <1>4 DEF BegunOnce
  <2> HIDE DEF new
  <2>4. pending'[<<"export", r>>] = 0 + 1
    BY <2>1, <2>2, <2>3
  <2>5. ASSUME NEW s, <<"export", s>> \in DOMAIN pending', s # r
        PROVE  <<"export", s>> \in DOMAIN pending /\ pending'[<<"export", s>>] = 1 + 0
    <3>1. <<"export", s>> \in DOMAIN pending /\ <<"export", s>> \notin DOMAIN new
      BY <2>1, <2>2, <2>5
    <3> QED BY <2>2, <3>1 DEF BegunOnce
  <2> QED BY <1>3, <1>4, <1>5, <1>7, <2>4, <2>5 DEF BegunOnce
<1> QED BY <1>4, <1>6, <1>8, <1>10, <1>11, <1>12 DEF RunsKept

\* Where no run is created and none that waits goes on, the messages are those
\* of runs that wait.
LEMMA BegunOnceKept ==
    ASSUME BegunOnce, NoneForRuns(pending'), DOMAIN run' = DOMAIN run,
           \A r \in DOMAIN run : run[r].step = "queued" => run'[r].step = "queued"
    PROVE  BegunOnce'
BY DEF BegunOnce, NoneForRuns

LEMMA StartKeepsRuns ==
    ASSUME RunsKept, BegunOnce, NEW r \in DOMAIN run, StartExport(r)
    PROVE  RunsKept' /\ BegunOnce'
<1> DEFINE waiting == <<"export", r>>
<1>1. waiting \in DOMAIN pending /\ pending' = Taken(waiting)
  BY DEF StartExport, BagIn, BagToSet
<1>2. pending[waiting] = 1 /\ run[r].step = "queued"
  BY <1>1 DEF BegunOnce
<1>3. /\ DOMAIN pending' \subseteq DOMAIN pending \ {waiting}
      /\ \A e \in DOMAIN pending' : pending'[e] = pending[e]
  <2>1. /\ DOMAIN SetToBag({waiting}) = {waiting}
        /\ SetToBag({waiting})[waiting] = 1
    BY DEF SetToBag
  <2> DEFINE less == [e \in DOMAIN pending |-> IF e \in {waiting} THEN pending[e] - 1 ELSE pending[e]]
  <2>2. Taken(waiting) = [e \in {f \in DOMAIN pending : less[f] > 0} |-> less[e]]
    BY <2>1 DEF Taken, Without, (-)
  <2>3. /\ DOMAIN pending' \subseteq DOMAIN pending
        /\ \A e \in DOMAIN pending' : less[e] > 0 /\ pending'[e] = less[e]
    <3> HIDE DEF less
    <3> QED BY <1>1, <2>2
  <2>4. less[waiting] = 0 /\ \A e \in DOMAIN pending \ {waiting} : less[e] = pending[e]
    BY <1>1, <1>2
  <2> HIDE DEF less
  <2> QED BY <2>3, <2>4
<1> DEFINE todo == [d \in {e \in run[r].docs : Exists(e)} |-> file[<<d, "original">>]]
           row == IF run[r].status = "failed"
                  THEN [run[r] EXCEPT !.step = "done"]
                  ELSE [run[r] EXCEPT !.step = "packing", !.todo = todo]
<1>4. run' = [run EXCEPT ![r] = row]
  BY DEF StartExport
<1>5. RunKept(r) /\ DOMAIN run[r].items = {} /\ run[r].status # "completed"
  BY <1>2 DEF RunsKept, RunKept
<1>6. /\ DOMAIN row = DOMAIN run[r]
      /\ row.items = run[r].items /\ row.archive = run[r].archive
      /\ row.step \in {"packing", "done"} /\ row.status = run[r].status
  <2> HIDE DEF todo
  <2> QED BY <1>5 DEF RunKept
<1> HIDE DEF row
<1>7. RunsKept'
  BY <1>4, <1>5, <1>6, SameItemsKeep
<1>8. DOMAIN run' = DOMAIN run /\ \A s \in DOMAIN run \ {r} : run'[s] = run[s]
  BY <1>4
<1>9. BegunOnce'
  <2> SUFFICES ASSUME NEW s, <<"export", s>> \in DOMAIN pending'
               PROVE  /\ pending'[<<"export", s>>] = 1
                      /\ s \in DOMAIN run'
                      /\ run'[s].step = "queued"
    BY DEF BegunOnce
  <2>1. s # r /\ <<"export", s>> \in DOMAIN pending
        /\ pending'[<<"export", s>>] = pending[<<"export", s>>]
    BY <1>3
  <2> QED BY <1>8, <2>1 DEF BegunOnce
<1> QED BY <1>7, <1>9

\* A run that skips a document finds it in the items of another: what it has
\* itself, it does not pack again.
LEMMA PackKeepsRuns ==
    ASSUME RunsKept, NEW r \in DOMAIN run, NEW d \in Docs, PackDocument(r, d)
    PROVE  /\ RunsKept'
           /\ DOMAIN run' = DOMAIN run
           /\ \A s \in DOMAIN run : run[s].step = "queued" => run'[s].step = "queued"
<1>1. RunKept(r) /\ run[r].step = "packing" /\ d \in DOMAIN run[r].todo
  BY DEF PackDocument, RunsKept
<1>2. CASE ~ Exists(d)
  <2> DEFINE row == [run[r] EXCEPT !.step = "done", !.status = "failed"]
  <2>1. run' = [run EXCEPT ![r] = row]
    BY <1>2 DEF PackDocument
  <2>2. /\ DOMAIN row = DOMAIN run[r]
        /\ row.items = run[r].items /\ row.archive = run[r].archive /\ row.todo = run[r].todo
        /\ row.step = "done" /\ row.status = "failed"
    BY <1>1 DEF RunKept
  <2> HIDE DEF row
  <2>3. RunsKept'
    BY <1>1, <2>1, <2>2, SameItemsKeep DEF RunKept
  <2> QED BY <1>1, <2>1, <2>3
<1>3. CASE Exists(d)
  <2> DEFINE outcome == Outcome(r, d)
             todo == Restrict(run[r].todo, DOMAIN run[r].todo \ {d})
             items == Upsert(run[r].items, d, outcome)
             archive == IF outcome = "exported" THEN run[r].archive \cup {d} ELSE run[r].archive
             row == [run[r] EXCEPT !.todo = todo, !.items = items, !.archive = archive]
  <2>1. run' = [run EXCEPT ![r] = row]
    BY <1>3 DEF PackDocument
  <2>2. /\ DOMAIN row = DOMAIN run[r]
        /\ row.todo = todo /\ row.items = items /\ row.archive = archive
        /\ row.step = run[r].step /\ row.status = run[r].status /\ row.zip = run[r].zip
    <3> HIDE DEF todo, items, archive
    <3> QED BY <1>1 DEF RunKept
  <2>3. /\ DOMAIN items = DOMAIN run[r].items \cup {d}
        /\ items[d] = outcome
        /\ \A e \in DOMAIN run[r].items \ {d} : items[e] = run[r].items[e]
        /\ d \notin DOMAIN run[r].items
        /\ DOMAIN todo = DOMAIN run[r].todo \ {d}
    BY <1>1 DEF Upsert, Restrict, RunKept
  <2> HIDE DEF row, todo, items
  <2>4. /\ run' \in Seq(Runs')
        /\ DOMAIN run' = DOMAIN run
        /\ run'[r] = row
        /\ \A s \in DOMAIN run \ {r} : run'[s] = run[s]
    BY <2>1, OneRunChanges DEF RunsKept
  <2>5. \A s \in DOMAIN run \ {r} : \A status : ItemsOf(s, status)' = ItemsOf(s, status)
    BY <2>4 DEF ItemsOf
  <2>6. \A status : ItemsOf(r, status)' = IF status = outcome THEN ItemsOf(r, status) \cup {d}
                                                             ELSE ItemsOf(r, status)
    BY <2>2, <2>3, <2>4 DEF ItemsOf
  <2>7. ASSUME NEW s \in DOMAIN run \ {r} PROVE RunKept(s)'
    BY <2>4, <2>5 DEF RunsKept, RunKept
  <2>8. RunKept(r)'
    BY <1>1, <2>2, <2>3, <2>4, <2>6 DEF RunKept
  <2>9. ASSUME outcome = "skipped" PROVE \E s \in DOMAIN run \ {r} : d \in ItemsOf(s, "exported")
    <3>1. AlreadyExported(d)
      BY <2>9 DEF Outcome
    <3>2. d \notin ItemsOf(r, "exported")
      BY <2>3 DEF ItemsOf
    <3> QED BY <3>1, <3>2 DEF AlreadyExported
  <2>10. SkipsHaveReason'
    BY <2>4, <2>5, <2>6, <2>9 DEF RunsKept, SkipsHaveReason
  <2> QED BY <1>1, <2>4, <2>7, <2>8, <2>10 DEF RunsKept
<1> QED BY <1>2, <1>3

\* A run that is packing ends, in one way or another, or is cancelled.
LEMMA EndKeepsRuns ==
    ASSUME RunsKept, NEW r \in DOMAIN run,
           FinishExport(r) \/ ExportFails(r) \/ ExportDies(r) \/ \E killed : CancelExport(r, killed)
    PROVE  /\ RunsKept'
           /\ DOMAIN run' = DOMAIN run
           /\ \A s \in DOMAIN run : run[s].step = "queued" => run'[s].step = "queued"
<1>1. RunKept(r)
  BY DEF RunsKept
<1>2. CASE FinishExport(r)
  <2> DEFINE row == [run[r] EXCEPT !.step = "done", !.status = "completed",
                                   !.zip = run[r].archive]
  <2>1. run' = [run EXCEPT ![r] = row] /\ run[r].step = "packing"
    BY <1>2 DEF FinishExport
  <2>2. /\ DOMAIN row = DOMAIN run[r]
        /\ row.items = run[r].items /\ row.archive = run[r].archive /\ row.todo = run[r].todo
        /\ row.step = "done" /\ row.zip = run[r].archive
    BY <1>1 DEF RunKept
  <2> HIDE DEF row
  <2>3. RunsKept'
    BY <1>1, <2>1, <2>2, SameItemsKeep DEF RunKept
  <2> QED BY <2>1, <2>3
<1>3. CASE ExportFails(r)
  <2> DEFINE row == [run[r] EXCEPT !.step = "done", !.status = "failed"]
  <2>1. run' = [run EXCEPT ![r] = row] /\ run[r].step = "packing"
    BY <1>3 DEF ExportFails
  <2>2. /\ DOMAIN row = DOMAIN run[r]
        /\ row.items = run[r].items /\ row.archive = run[r].archive /\ row.todo = run[r].todo
        /\ row.step = "done" /\ row.status = "failed"
    BY <1>1 DEF RunKept
  <2> HIDE DEF row
  <2>3. RunsKept'
    BY <1>1, <2>1, <2>2, SameItemsKeep DEF RunKept
  <2> QED BY <2>1, <2>3
<1>4. CASE ExportDies(r)
  <2> DEFINE row == [run[r] EXCEPT !.step = "done"]
  <2>1. run' = [run EXCEPT ![r] = row] /\ run[r].step = "packing"
    BY <1>4 DEF ExportDies
  <2>2. /\ DOMAIN row = DOMAIN run[r]
        /\ row.items = run[r].items /\ row.archive = run[r].archive /\ row.todo = run[r].todo
        /\ row.step = "done" /\ row.status = run[r].status
    BY <1>1 DEF RunKept
  <2> HIDE DEF row
  <2>3. RunsKept'
    BY <1>1, <2>1, <2>2, SameItemsKeep DEF RunKept
  <2> QED BY <2>1, <2>3
<1>5. ASSUME NEW killed, CancelExport(r, killed)
      PROVE  RunsKept' /\ DOMAIN run' = DOMAIN run
             /\ \A s \in DOMAIN run : run[s].step = "queued" => run'[s].step = "queued"
  <2> DEFINE step == IF killed THEN "done" ELSE run[r].step
             row == [run[r] EXCEPT !.status = "failed", !.step = step]
  <2>1. run' = [run EXCEPT ![r] = row] /\ (killed => run[r].step = "packing")
    BY <1>5 DEF CancelExport, Cancel
  <2>2. /\ DOMAIN row = DOMAIN run[r]
        /\ row.items = run[r].items /\ row.archive = run[r].archive /\ row.todo = run[r].todo
        /\ row.step = step /\ row.status = "failed"
    BY <1>1 DEF RunKept
  <2> HIDE DEF row
  <2>3. step = "queued" => run[r].step = "queued"
    OBVIOUS
  <2>4. step \in {"queued", "packing", "done"} /\ (run[r].step = "queued" => step = "queued")
    BY <1>1, <2>1 DEF RunKept
  <2> HIDE DEF step
  <2>5. RunsKept'
    BY <1>1, <2>1, <2>2, <2>3, <2>4, SameItemsKeep DEF RunKept
  <2> QED BY <2>1, <2>2, <2>4, <2>5
<1> QED BY <1>2, <1>3, <1>4, <1>5

\* A box is emptied: the items of a document go from all runs at once.
LEMMA EmptyKeepsRuns ==
    ASSUME RunsKept, ItemsLeft
    PROVE  /\ RunsKept'
           /\ DOMAIN run' = DOMAIN run
           /\ \A s \in DOMAIN run : run[s].step = "queued" => run'[s].step = "queued"
<1> DEFINE left(r) == {d \in DOMAIN run[r].items : doc'[d].status # "purged"}
           items(r) == [d \in left(r) |-> run[r].items[d]]
           row(r) == [run[r] EXCEPT !.items = items(r)]
<1>1. run' = [r \in DOMAIN run |-> row(r)]
  BY DEF ItemsLeft
<1>2. ASSUME NEW r \in DOMAIN run
      PROVE  /\ run'[r] = row(r)
             /\ DOMAIN row(r) = DOMAIN run[r] /\ row(r).items = items(r)
             /\ row(r).step = run[r].step /\ row(r).status = run[r].status
             /\ row(r).todo = run[r].todo
             /\ row(r).archive = run[r].archive /\ row(r).zip = run[r].zip
  <2>1. RunKept(r)
    BY DEF RunsKept
  <2> HIDE DEF items
  <2> QED BY <1>1, <2>1 DEF RunKept
<1>3. DOMAIN run' = DOMAIN run
  BY <1>1
<1> HIDE DEF row
<1>4. ASSUME NEW r \in DOMAIN run, NEW status
      PROVE  ItemsOf(r, status)' = {d \in ItemsOf(r, status) : doc'[d].status # "purged"}
  <2>1. /\ DOMAIN items(r) = {d \in DOMAIN run[r].items : doc'[d].status # "purged"}
        /\ \A d \in DOMAIN items(r) : items(r)[d] = run[r].items[d]
    OBVIOUS
  <2>2. run'[r].items = items(r)
    BY <1>2
  <2>3. ItemsOf(r, status)' = {d \in DOMAIN run'[r].items : run'[r].items[d] = status}
    BY DEF ItemsOf
  <2> HIDE DEF items
  <2> QED BY <2>1, <2>2, <2>3 DEF ItemsOf
<1>5. SkipsHaveReason'
  BY <1>3, <1>4 DEF RunsKept, SkipsHaveReason
<1>6. ASSUME NEW r \in DOMAIN run PROVE RunKept(r)'
  <2>1. RunKept(r) /\ DOMAIN items(r) \subseteq DOMAIN run[r].items
    BY DEF RunsKept
  <2> HIDE DEF items
  <2> QED BY <1>2, <1>4, <2>1 DEF RunKept
<1>7. run' \in Seq(Runs')
  <2>1. Len(run) \in Nat /\ DOMAIN run = 1 .. Len(run)
    BY DEF RunsKept
  <2>2. \A r \in 1 .. Len(run) : run'[r] \in Runs'
    BY <1>3, <2>1 DEF Runs
  <2>3. run' = [r \in 1 .. Len(run) |-> run'[r]]
    BY <1>1, <2>1
  <2> QED BY <2>1, <2>2, <2>3
<1> QED BY <1>2, <1>3, <1>5, <1>6, <1>7 DEF RunsKept

\* Runs stay kept, and are begun once.
LEMMA RunsStayKept == Spec => [](RunsKept /\ BegunOnce)
<1>1. Init => RunsKept /\ BegunOnce
  <2> SUFFICES ASSUME run = << >>, pending = EmptyBag PROVE RunsKept /\ BegunOnce
    BY DEF Init, ExportsInit, DocumentsInit
  <2>1. DOMAIN EmptyBag = {}
    BY DEF EmptyBag, SetToBag
  <2>2. run \in Seq(Runs) /\ DOMAIN run = {}
    OBVIOUS
  <2> QED BY <2>1, <2>2 DEF RunsKept, BegunOnce, SkipsHaveReason
<1>2. RunsKept /\ BegunOnce /\ [Next]_vars => RunsKept' /\ BegunOnce'
  <2> SUFFICES ASSUME RunsKept, BegunOnce, [Next]_vars PROVE RunsKept' /\ BegunOnce'
    OBVIOUS
  <2>1. ASSUME NEW b, NEW below, NEW only, CreateExport(b, below, only)
        PROVE  RunsKept' /\ BegunOnce'
    BY <2>1, CreateKeepsRuns
  <2>2. ASSUME NEW r \in DOMAIN run, StartExport(r) PROVE RunsKept' /\ BegunOnce'
    BY <2>2, StartKeepsRuns
  <2> SUFFICES ASSUME ~ \E b, below, only : CreateExport(b, below, only),
                      ~ \E r \in DOMAIN run : StartExport(r)
               PROVE  RunsKept' /\ BegunOnce'
    BY <2>1, <2>2
  <2>3. NoneForRuns(pending')
    BY OthersScheduleOthers
  <2>4. CASE UNCHANGED run
    <3>1. RunsKept'
      BY <2>4 DEF RunsKept, RunKept, SkipsHaveReason, ItemsOf, Runs
    <3> QED BY <2>3, <2>4, <3>1, BegunOnceKept
  <2>5. ASSUME NEW r \in DOMAIN run, NEW d \in Docs, PackDocument(r, d)
        PROVE  RunsKept' /\ BegunOnce'
    BY <2>3, <2>5, PackKeepsRuns, BegunOnceKept
  <2>6. ASSUME NEW r \in DOMAIN run,
               \/ FinishExport(r) \/ ExportFails(r) \/ ExportDies(r)
               \/ \E killed : CancelExport(r, killed)
        PROVE  RunsKept' /\ BegunOnce'
    BY <2>3, <2>6, EndKeepsRuns, BegunOnceKept
  <2>7. CASE ItemsLeft
    BY <2>3, <2>7, EmptyKeepsRuns, BegunOnceKept
  <2> QED BY <2>4, <2>5, <2>6, <2>7, OnlyTheseTouchRuns
<1> QED BY <1>1, <1>2, PTL DEF Spec

\* However runs overlap, die or are cancelled, and whatever is deleted meanwhile,
\* what a run skips as exported is in the ZIP of another, or will be, or that run
\* is lost.
THEOREM SkipsAlwaysCovered == Spec => []SkipsAreCovered
BY RunsStayKept, KeptCovers, PTL

-----------------------------------------------------------------------------
(***************************************************************************)
(* Members and roles.  The main role of a member stays among the roles of  *)
(* the member: those who save it put it there, and a role that is deleted  *)
(* is nobody's main role.                                                  *)
(***************************************************************************)

MainRolesFit ==
    /\ DOMAIN role \subseteq ToSet(Roles)
    /\ \A m \in DOMAIN member :
          /\ DOMAIN member[m] = {"active", "role", "roles"}
          /\ member[m].role \in member[m].roles

\* A set of numbers has a smallest one.
LEMMA SmallestExists ==
    ASSUME NEW S \in SUBSET Nat, S # {}
    PROVE  \E m \in S : \A x \in S : m <= x
<1> DEFINE R == OpToRel(<, Nat)
<1>1. IsWellFoundedOn(R, Nat)
  BY NatLessThanWellFounded
<1>2. \A x, y \in Nat : x < y => <<x, y>> \in R
  BY DEF OpToRel
<1> HIDE DEF R
<1>3. PICK m \in S : \A x \in S : ~ (<<x, m>> \in R)
  BY <1>1, WFMin
<1>4. \A x \in S : ~ (x < m)
  BY <1>2, <1>3
<1> QED BY <1>4

\* The first of some roles is one of them.
LEMMA FirstIsOne ==
    ASSUME NEW rs \in SUBSET ToSet(Roles), rs # {}
    PROVE  FirstRole(rs) \in rs
<1> DEFINE S == {n \in DOMAIN Roles : Roles[n] \in rs}
<1>1. DOMAIN Roles \subseteq Nat
  BY AccountsAssumption DEF AccountsAssumption
<1>2. S # {} /\ S \subseteq Nat
  BY <1>1 DEF ToSet
<1>3. PICK n \in S : \A k \in S : n <= k
  <2> HIDE DEF S
  <2> QED BY <1>2, SmallestExists
<1>4. /\ n \in DOMAIN Roles /\ Roles[n] \in rs
      /\ \A k \in DOMAIN Roles : Roles[k] \in rs => n <= k
  BY <1>3
<1> QED BY <1>4 DEF FirstRole

\* What touches members and roles.
LEMMA OnlyTheseTouchAccounts ==
    ASSUME [Next]_vars
    PROVE  \/ UNCHANGED <<member, role>>
           \/ \E m \in Members, rs \in SUBSET DOMAIN role : AddTenantMember(m, rs)
           \/ \E m \in Members, rs \in SUBSET DOMAIN role : \E active :
                 UpdateTenantMembership(m, rs, active)
           \/ \E r \in ToSet(Roles) : \E row : CreateTenantRole(r, row)
           \/ \E r \in DOMAIN role : \E row : UpdateTenantRole(r, row)
           \/ \E r : DeleteTenantRole(r)
BY DEF Next, DocumentsNext, TitleRulesNext, LinksNext, NoticesNext, OcrNext, BoxJobsNext,
       ExportsNext, AccountsNext, vars, accountVars, Elsewhere, DocumentsOnly, RulesOnly, LinksOnly, OcrOnly,
       BoxJobsOnly, NoticesOnly, ExportsOnly, CheckTenantRole, EmptyDocumentSpace

\* Where the main role is one of the roles, the query and the test agree.
LEMMA FitAgree == MainRolesFit => ListedIsOpenable
<1> SUFFICES ASSUME MainRolesFit, NEW m \in DOMAIN member
             PROVE  ListedDocuments(m) = {d \in Docs : Openable(m, d)}
  BY DEF ListedIsOpenable
<1> DEFINE own == member[m].roles \cap ActiveRoles
<1>1. own = {} => {member[m].role} \cap ActiveRoles = {}
  BY DEF MainRolesFit
<1>2. ASSUME NEW d \in Docs
      PROVE  Openable(m, d) <=> /\ member[m].active /\ Active(d)
                                /\ Supervised(m, d) \/ \E r \in own : role[r].see /\ AllowsSpace(r, d)
  BY <1>1 DEF Openable
<1>3. ASSUME NEW d \in Docs
      PROVE  d \in ListedDocuments(m)
             <=> /\ member[m].active /\ Active(d)
                 /\ Supervised(m, d) \/ \E r \in own : role[r].see /\ AllowsSpace(r, d)
  BY DEF ListedDocuments, AllowsSpace
<1>4. ListedDocuments(m) \subseteq Docs
  BY DEF ListedDocuments
<1> QED BY <1>2, <1>3, <1>4

\* Main roles stay fit, with every role that is given and deleted.
LEMMA MainRolesStayFit == Spec => []MainRolesFit
<1>1. Init => MainRolesFit
  BY AccountsAssumption DEF AccountsAssumption, Init, DocumentsInit, AccountsInit, MainRolesFit
<1>2. MainRolesFit /\ [Next]_vars => MainRolesFit'
  <2> SUFFICES ASSUME MainRolesFit, [Next]_vars PROVE MainRolesFit'
    OBVIOUS
  <2>1. CASE UNCHANGED <<member, role>>
    BY <2>1 DEF MainRolesFit
  <2>2. ASSUME NEW m, NEW rs \in SUBSET DOMAIN role, rs # {}, NEW active,
               member' = MemberSaved(m, rs, active), role' = role
        PROVE  MainRolesFit'
    <3>1. FirstRole(rs) \in rs
      BY <2>2, FirstIsOne DEF MainRolesFit
    <3>2. /\ DOMAIN member' = DOMAIN member \cup {m}
          /\ member'[m] = [active |-> active, role |-> FirstRole(rs), roles |-> rs]
          /\ \A n \in DOMAIN member \ {m} : member'[n] = member[n]
      BY <2>2 DEF MemberSaved, WithRoles, Upsert
    <3> QED BY <2>2, <3>1, <3>2 DEF MainRolesFit
  <2>3. ASSUME NEW m, NEW rs \in SUBSET DOMAIN role, AddTenantMember(m, rs) PROVE MainRolesFit'
    BY <2>2, <2>3 DEF AddTenantMember
  <2>4. ASSUME NEW m, NEW rs \in SUBSET DOMAIN role, NEW active,
               UpdateTenantMembership(m, rs, active)
        PROVE  MainRolesFit'
    BY <2>2, <2>4 DEF UpdateTenantMembership
  <2>5. ASSUME NEW r \in ToSet(Roles), NEW row, CreateTenantRole(r, row) PROVE MainRolesFit'
    BY <2>5 DEF CreateTenantRole, RoleSaved, Upsert, MainRolesFit
  <2>6. ASSUME NEW r \in DOMAIN role, NEW row, UpdateTenantRole(r, row) PROVE MainRolesFit'
    BY <2>6 DEF UpdateTenantRole, RoleSaved, Upsert, MainRolesFit
  <2>7. ASSUME NEW r, DeleteTenantRole(r) PROVE MainRolesFit'
    BY <2>7 DEF DeleteTenantRole, Unprotected, Restrict, MainRolesFit
  <2> QED BY <2>1, <2>3, <2>4, <2>5, <2>6, <2>7, OnlyTheseTouchAccounts
<1> QED BY <1>1, <1>2, PTL DEF Spec

\* Members find in lists what opens, whoever edits and deletes roles at the same
\* time, and wherever boxes move.
THEOREM ListedIsAlwaysOpenable == Spec => []ListedIsOpenable
BY MainRolesStayFit, FitAgree, PTL

=============================================================================

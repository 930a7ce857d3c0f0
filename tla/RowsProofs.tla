----------------------------- MODULE RowsProofs -----------------------------
(***************************************************************************)
(* Type correctness of the office: every row is of its kind and refers to  *)
(* rows there are.  Rows refer to each other across the parts, so that     *)
(* each part needs what is proved of the others: which boxes and documents *)
(* there are, what rules, roles, jobs and runs keep, and where the blobs   *)
(* are.                                                                    *)
(***************************************************************************)
EXTENDS ChangesProofs

-----------------------------------------------------------------------------
(***************************************************************************)
(* Title rules and metadata fields.                                        *)
(***************************************************************************)

RulesTyped == \A n \in DOMAIN rule : rule[n] \in DocumentTitleRule

\* The inputs of a rule are boxes and a source there are.
LEMMA RulesAreWritten ==
    ASSUME [Next]_vars
    PROVE  \/ UNCHANGED rule
           \/ \E boxes \in SUBSET Known, from \in Sources : CreateTitleRule(boxes, from)
           \/ \E n \in DOMAIN rule, boxes \in SUBSET Known, from \in Sources :
                 EditTitleRule(n, boxes, from)
           \/ \E n \in DOMAIN rule : DeleteTitleRule(n)
BY DEF Next, DocumentsNext, TitleRulesNext, LinksNext, NoticesNext, OcrNext, BoxJobsNext,
       ExportsNext, AccountsNext, vars, Elsewhere, DocumentsOnly, LinksOnly, OcrOnly, BoxJobsOnly,
       NoticesOnly, ExportsOnly, AccountsOnly

\* A rule that is written is of boxes there are, and of a source.
LEMMA RulesStayTyped ==
    ASSUME RulesApart, RulesApart', RulesTyped, [Next]_vars
    PROVE  RulesTyped'
<1>1. DOMAIN box \subseteq DOMAIN box'
  BY BoxesStay
<1>2. DocumentTitleRule \subseteq DocumentTitleRule'
  BY <1>1 DEF DocumentTitleRule
<1>3. ASSUME NEW boxes \in SUBSET Known, NEW from \in Sources
      PROVE  RuleSaved(boxes, from) \in DocumentTitleRule
  BY DEF RuleSaved, DocumentTitleRule, Known
<1>4. CASE UNCHANGED rule
  BY <1>2, <1>4 DEF RulesTyped
<1>5. ASSUME NEW boxes \in SUBSET Known, NEW from \in Sources, CreateTitleRule(boxes, from)
      PROVE  RulesTyped'
  <2> DEFINE row == RuleSaved(boxes, from)
  <2>1. rule' = Append(rule, row) /\ row \in DocumentTitleRule
    BY <1>3, <1>5 DEF CreateTitleRule
  <2>2. rule \in Seq(DocumentTitleRule)
    <3>1. Len(rule) \in Nat /\ rule \in [1 .. Len(rule) -> DocumentTitleRule]
      BY DEF RulesApart, RulesTyped
    <3> QED BY <3>1
  <2> HIDE DEF row
  <2>3. rule' \in Seq(DocumentTitleRule)
    BY <2>1, <2>2
  <2>4. \A n \in DOMAIN rule' : rule'[n] \in DocumentTitleRule
    BY <2>3
  <2> QED BY <1>2, <2>4 DEF RulesTyped
<1>6. ASSUME NEW n \in DOMAIN rule, NEW boxes \in SUBSET Known, NEW from \in Sources,
             EditTitleRule(n, boxes, from)
      PROVE  RulesTyped'
  <2> DEFINE row == RuleSaved(boxes, from)
  <2>1. rule' = [rule EXCEPT ![n] = row] /\ row \in DocumentTitleRule
    BY <1>3, <1>6 DEF EditTitleRule
  <2> HIDE DEF row
  <2>2. \A m \in DOMAIN rule' : m \in DOMAIN rule /\ rule'[m] \in {rule[m], row}
    BY <2>1
  <2> QED BY <1>2, <2>1, <2>2 DEF RulesTyped
<1>7. ASSUME NEW n \in DOMAIN rule, DeleteTitleRule(n) PROVE RulesTyped'
  <2>1. rule' \in Seq(Rows)
    <3>1. rule \in Seq(Rows) /\ rule' = SubSeq(rule, 1, n - 1) \o SubSeq(rule, n + 1, Len(rule))
      BY <1>7 DEF RulesApart, DeleteTitleRule, RemoveAt
    <3>2. SubSeq(rule, 1, n - 1) \in Seq(Rows) /\ SubSeq(rule, n + 1, Len(rule)) \in Seq(Rows)
      BY <3>1, SubSeqProperties
    <3> QED BY <3>1, <3>2, ConcatProperties
  <2>2. Rows \subseteq DocumentTitleRule
    BY DEF Rows, RulesTyped
  <2> HIDE DEF Rows
  <2>3. \A m \in DOMAIN rule' : rule'[m] \in Rows
    BY <2>1
  <2> QED BY <1>2, <2>2, <2>3 DEF RulesTyped
<1> QED BY <1>4, <1>5, <1>6, <1>7, RulesAreWritten

\* The policy of a box is that of a rule, or the one without any.
LEMMA PolicyIsSource ==
    ASSUME RulesApart, RulesTyped, NEW b
    PROVE  TitlePolicy(b) \in Sources \cup {Automatic}
<1> DEFINE own == RulesOf(b)
           rules == IF own # {} THEN own ELSE Defaults
<1>1. rules \subseteq DOMAIN rule /\ DOMAIN rule \subseteq Nat
  BY DEF RulesOf, Defaults, RulesApart
<1>2. TitlePolicy(b) = IF rules = {} THEN Automatic ELSE rule[Min(rules)].from
  BY Zenon DEF TitlePolicy
<1> HIDE DEF rules
<1>3. ASSUME rules # {} PROVE Min(rules) \in DOMAIN rule
  <2>1. PICK m \in rules : \A x \in rules : m <= x
    BY <1>1, <1>3, SmallestExists
  <2>2. Min(rules) \in rules
    BY <2>1 DEF Min
  <2> QED BY <1>1, <2>2
<1>4. \A n \in DOMAIN rule : rule[n].from \in Sources
  BY DEF RulesTyped, DocumentTitleRule
<1> QED BY <1>2, <1>3, <1>4

FieldsTyped == \A f \in DOMAIN field : field[f] \in DocumentMetadataField

\* What writes fields.
LEMMA FieldsAreWritten ==
    ASSUME [Next]_vars
    PROVE  \/ UNCHANGED field
           \/ \E f \in ToSet(Fields), row \in FieldRows : CreateDocumentMetadataField(f, row)
           \/ \E f \in DOMAIN field, row \in FieldRows : UpdateDocumentMetadataField(f, row)
           \/ \E f, g \in DOMAIN field : DeleteDocumentMetadataField(f, g)
<1>1. \/ UNCHANGED field
      \/ \E f \in ToSet(Fields), row \in FieldRows : CreateDocumentMetadataField(f, row)
      \/ \E f \in DOMAIN field, row \in FieldRows : UpdateDocumentMetadataField(f, row)
      \/ \E f, g \in DOMAIN field : DeleteDocumentMetadataField(f, g)
      \/ \E j \in Jobs : \E titled, found : OcrSucceeds(j, titled, found)
      \/ \E w \in JobWorkers : ReconcileNext(w)
      \/ RelationsLeft
  BY ZenonT(60)
     DEF Next, DocumentsNext, TitleRulesNext, LinksNext, NoticesNext, OcrNext, BoxJobsNext,
       ExportsNext, AccountsNext, vars, linkVars, Elsewhere, DocumentsOnly, RulesOnly, LinksOnly, OcrOnly, BoxJobsOnly,
       NoticesOnly, ExportsOnly, AccountsOnly, StartOcr, StartOfficeConversion, StartUnsent,
       RestartOcr, TakeOcrJob, MarkOcrRunning, ReadForOcr, OcrFails, CancelOcr, OcrDies, RunOfficeConversion,
       SaveDerivative, StoreDerivative, ConversionSucceeds, ConversionFails, CancelConversion,
       CreateBoxJob, ClaimBoxJob, SkipLayout, StartLayout, EndLayout, SaveCursor, EndBatch,
       WorkerDies, ResumeBoxJob, CancelLayout, UpdateDocumentMetadata, UploadInvoice,
       AddDocumentRelation, RemoveDocumentRelation
<1> QED BY <1>1, ZenonT(60) DEF OcrSucceeds, ReconcileNext, RelationsLeft

\* A field that is written is of a box there is.
LEMMA FieldsStayTyped ==
    ASSUME Tree, FieldsTyped, [Next]_vars
    PROVE  FieldsTyped'
<1>1. DOMAIN box \subseteq DOMAIN box'
  BY BoxesStay
<1>2. DocumentMetadataField \subseteq DocumentMetadataField'
  BY <1>1 DEF DocumentMetadataField
<1>3. CASE UNCHANGED field
  BY <1>2, <1>3 DEF FieldsTyped
<1>4. ASSUME NEW f, NEW row \in FieldRows, row.box \in DOMAIN box, field' = FieldSaved(f, row)
      PROVE  FieldsTyped'
  <2>1. row \in DocumentMetadataField
    BY <1>4, RowsAssumption DEF RowsAssumption, DocumentMetadataField
  <2>2. \A g \in DOMAIN field' : field'[g] = row \/ (g \in DOMAIN field /\ field'[g] = field[g])
    BY <1>4 DEF FieldSaved, Upsert
  <2> QED BY <1>2, <2>1, <2>2 DEF FieldsTyped
<1>5. ASSUME NEW f \in ToSet(Fields), NEW row \in FieldRows, CreateDocumentMetadataField(f, row)
      PROVE  FieldsTyped'
  BY <1>4, <1>5 DEF CreateDocumentMetadataField
<1>6. ASSUME NEW f \in DOMAIN field, NEW row \in FieldRows, UpdateDocumentMetadataField(f, row)
      PROVE  FieldsTyped'
  <2>1. field[f].box \in DOMAIN box
    BY DEF FieldsTyped, DocumentMetadataField
  <2> QED BY <1>4, <1>6, <2>1 DEF UpdateDocumentMetadataField
<1>7. ASSUME NEW f, NEW g, DeleteDocumentMetadataField(f, g) PROVE FieldsTyped'
  <2>1. field' = [h \in DOMAIN field \cap (DOMAIN field \ {f}) |-> field[h]]
    BY <1>7, Zenon DEF DeleteDocumentMetadataField, Restrict
  <2> QED BY <1>2, <2>1 DEF FieldsTyped
<1> QED BY <1>3, <1>5, <1>6, <1>7, FieldsAreWritten

-----------------------------------------------------------------------------
(***************************************************************************)
(* Members and roles.                                                      *)
(***************************************************************************)

AccountsTyped ==
    /\ \A m \in DOMAIN member : member[m] \in TenantMembership
    /\ \A r \in DOMAIN role : role[r] \in TenantRole

\* What writes members and roles, with the rows there are.
LEMMA AccountsAreWritten ==
    ASSUME [Next]_vars
    PROVE  \/ UNCHANGED <<member, role>>
           \/ \E m \in Members, rs \in SUBSET DOMAIN role : AddTenantMember(m, rs)
           \/ \E m \in Members, rs \in SUBSET DOMAIN role, active \in BOOLEAN :
                 UpdateTenantMembership(m, rs, active)
           \/ \E r \in ToSet(Roles), row \in RoleRows : CreateTenantRole(r, row)
           \/ \E r \in DOMAIN role, row \in RoleRows : UpdateTenantRole(r, row)
           \/ \E r : DeleteTenantRole(r)
BY DEF Next, DocumentsNext, TitleRulesNext, LinksNext, NoticesNext, OcrNext, BoxJobsNext,
       ExportsNext, AccountsNext, vars, accountVars, Elsewhere, DocumentsOnly, RulesOnly, LinksOnly, OcrOnly,
       BoxJobsOnly, NoticesOnly, ExportsOnly, CheckTenantRole, EmptyDocumentSpace

\* Roles stay, boxes and documents as well: the rows are still of their kind.
LEMMA RowsOfAccountsStay ==
    ASSUME DocsKept, [Next]_vars
    PROVE  /\ TenantRole \subseteq TenantRole'
           /\ DOMAIN role \subseteq DOMAIN role' => TenantMembership \subseteq TenantMembership'
<1>1. DOMAIN box \subseteq DOMAIN box' /\ Docs \subseteq Docs'
  BY BoxesStay DEF DocsKept
<1> QED BY <1>1 DEF TenantRole, TenantMembership

\* Members have roles there are: one that goes is taken from them all.
LEMMA AccountsStayTyped ==
    ASSUME DocsKept, MainRolesFit, AccountsTyped, [Next]_vars
    PROVE  AccountsTyped'
<1>1. TenantRole \subseteq TenantRole'
  BY RowsOfAccountsStay
<1>2. CASE UNCHANGED <<member, role>>
  BY <1>2, RowsOfAccountsStay DEF AccountsTyped
<1>3. ASSUME NEW m, NEW rs \in SUBSET DOMAIN role, rs # {}, NEW active \in BOOLEAN,
             member' = MemberSaved(m, rs, active), role' = role
      PROVE  AccountsTyped'
  <2>1. FirstRole(rs) \in DOMAIN role
    BY <1>3, FirstIsOne DEF MainRolesFit
  <2>2. WithRoles(rs, active) \in TenantMembership
    BY <2>1 DEF WithRoles, TenantMembership
  <2>3. TenantMembership \subseteq TenantMembership'
    BY <1>3, RowsOfAccountsStay
  <2>4. \A n \in DOMAIN member' :
           member'[n] = WithRoles(rs, active) \/ (n \in DOMAIN member /\ member'[n] = member[n])
    BY <1>3 DEF MemberSaved, Upsert
  <2> QED BY <1>1, <1>3, <2>2, <2>3, <2>4 DEF AccountsTyped
<1>4. ASSUME NEW m, NEW rs \in SUBSET DOMAIN role, AddTenantMember(m, rs) PROVE AccountsTyped'
  BY <1>3, <1>4 DEF AddTenantMember
<1>5. ASSUME NEW m, NEW rs \in SUBSET DOMAIN role, NEW active \in BOOLEAN,
             UpdateTenantMembership(m, rs, active)
      PROVE  AccountsTyped'
  BY <1>3, <1>5 DEF UpdateTenantMembership
<1>6. ASSUME NEW r, NEW row \in RoleRows, row.boxes \subseteq OfferedBoxes,
             NEW was, was.system \in BOOLEAN, was.sup \in SUBSET Docs,
             role' = RoleSaved(r, row, was), member' = member
      PROVE  AccountsTyped'
  <2> DEFINE saved == [row EXCEPT !.system = was.system, !.sup = was.sup]
  <2>1. saved \in TenantRole
    BY <1>6, RowsAssumption DEF RowsAssumption, TenantRole, OfferedBoxes
  <2> HIDE DEF saved
  <2>2. /\ DOMAIN role' = DOMAIN role \cup {r}
        /\ \A q \in DOMAIN role' : role'[q] = saved \/ (q \in DOMAIN role /\ role'[q] = role[q])
    BY <1>6 DEF RoleSaved, Upsert, saved
  <2>3. TenantMembership \subseteq TenantMembership'
    BY <2>2, RowsOfAccountsStay
  <2> QED BY <1>1, <1>6, <2>1, <2>2, <2>3 DEF AccountsTyped
<1>7. ASSUME NEW r \in ToSet(Roles), NEW row \in RoleRows, CreateTenantRole(r, row)
      PROVE  AccountsTyped'
  <2> DEFINE was == [system |-> FALSE, sup |-> {}]
  <2>1. was.system \in BOOLEAN /\ was.sup \in SUBSET Docs
    OBVIOUS
  <2>2. row.boxes \subseteq OfferedBoxes /\ role' = RoleSaved(r, row, was) /\ member' = member
    BY <1>7 DEF CreateTenantRole
  <2> HIDE DEF was
  <2> QED BY <1>6, <2>1, <2>2
<1>8. ASSUME NEW r \in DOMAIN role, NEW row \in RoleRows, UpdateTenantRole(r, row)
      PROVE  AccountsTyped'
  <2>1. role[r].system \in BOOLEAN /\ role[r].sup \in SUBSET Docs
    BY DEF AccountsTyped, TenantRole
  <2> QED BY <1>6, <1>8, <2>1 DEF UpdateTenantRole
<1>9. ASSUME NEW r, DeleteTenantRole(r) PROVE AccountsTyped'
  <2>1. CASE UNCHANGED <<role, member>>
    BY <1>2, <2>1
  <2>2. CASE Unprotected(r)
    <3>1. /\ role' = [q \in DOMAIN role \cap (DOMAIN role \ {r}) |-> role[q]]
          /\ member' = [m \in DOMAIN member |-> [member[m] EXCEPT !.roles = @ \ {r}]]
      BY <1>9, <2>2, Zenon DEF DeleteTenantRole, Restrict
    <3>2. ASSUME NEW m \in DOMAIN member
          PROVE  [member[m] EXCEPT !.roles = @ \ {r}] \in TenantMembership'
      <4>1. member[m] \in TenantMembership /\ member[m].role # r
        BY <2>2 DEF AccountsTyped, Unprotected
      <4> QED BY <3>1, <4>1 DEF TenantMembership
    <3> QED BY <1>1, <3>1, <3>2 DEF AccountsTyped
  <2> QED BY <1>9, <2>1, <2>2 DEF DeleteTenantRole
<1> QED BY <1>2, <1>4, <1>5, <1>7, <1>8, <1>9, AccountsAreWritten

-----------------------------------------------------------------------------
(***************************************************************************)
(* Search entries, alarms, and reminders.                                  *)
(***************************************************************************)

HandTyped(q) ==
    q.pc # "idle" => q.doc \in Docs /\ q.rev \in Nat /\ q.met \in BOOLEAN

NoticesTyped ==
    /\ DOMAIN index \cup DOMAIN reminder \subseteq Docs
    /\ \A d \in DOMAIN index : index[d] \in DocumentSearchIndex
    /\ \A d \in DOMAIN reminder : reminder[d] \in DocumentReminder
    /\ \A a \in DOMAIN alarm : alarm[a] \in DocumentAlarm
    /\ match \subseteq DocumentAlarmMatch
    /\ \A p \in Indexers : HandTyped(rebuild[p])

\* What writes entries, alarms, matches and reminders.
LEMMA NoticesAreWritten ==
    ASSUME [Next]_vars
    PROVE  \/ UNCHANGED <<index, rebuild, alarm, match, reminder>>
           \/ \E p \in Indexers : \/ \E d \in Docs : ReadDocument(p, d)
                                  \/ WriteIndex(p) \/ Evaluated(p) \/ Ends(p)
                                  \/ \E a, row : EvaluateAlarm(p, a, row)
           \/ \E a \in Alarms, row \in AlarmRows : SaveAlarm(a, row)
           \/ \E a : DeleteAlarm(a)
           \/ \E d \in Docs, due \in BOOLEAN : SaveDocumentReminder(d, due)
           \/ \E d \in Docs : EndDocumentReminder(d) \/ ReminderComesDue(d)
           \/ \E w, d, row : TellReminder(w, d, row)
           \/ \E b : EmptyDocumentSpace(b) /\ NoticesLeft
BY DEF Next, DocumentsNext, TitleRulesNext, LinksNext, NoticesNext, OcrNext, BoxJobsNext,
       ExportsNext, AccountsNext, vars, Elsewhere, DocumentsOnly, RulesOnly, LinksOnly, OcrOnly,
       BoxJobsOnly, ExportsOnly, AccountsOnly, noticeVars, ListDueReminders, DispatcherDies, Ends

\* Where alarms stay, the rows are still of their kind.
LEMMA RowsOfNoticesStay ==
    ASSUME DocsKept, [Next]_vars
    PROVE  /\ DocumentAlarm \subseteq DocumentAlarm'
           /\ DOMAIN alarm \subseteq DOMAIN alarm' => DocumentAlarmMatch \subseteq DocumentAlarmMatch'
           /\ \A q : HandTyped(q) => HandTyped(q)'
<1>1. DOMAIN box \subseteq DOMAIN box' /\ Docs \subseteq Docs'
  BY BoxesStay DEF DocsKept
<1> QED BY <1>1 DEF DocumentAlarm, DocumentAlarmMatch, HandTyped

\* A match goes with its alarm, also where a process still tries that one.
LEMMA NoticesStayTyped ==
    ASSUME Shaped, DocsKept, Tree, \A d \in Docs : doc[d].rev \in Nat, Counted', RebuildShaped,
           NoticesTyped, [Next]_vars
    PROVE  NoticesTyped'
<1>1. Docs \subseteq Docs' /\ DOMAIN box \subseteq DOMAIN box'
  BY BoxesStay DEF DocsKept
<1>2. DocumentAlarm \subseteq DocumentAlarm' /\ \A q : HandTyped(q) => HandTyped(q)'
  BY RowsOfNoticesStay
<1>3. ASSUME DOMAIN alarm \subseteq DOMAIN alarm'
      PROVE  DocumentAlarmMatch \subseteq DocumentAlarmMatch'
  BY <1>3, RowsOfNoticesStay
<1>4. ASSUME NEW S \in SUBSET DocumentAlarmMatch, alarm' = alarm
      PROVE  S \subseteq DocumentAlarmMatch'
  BY <1>3, <1>4
<1>5. DocumentSearchIndex' = DocumentSearchIndex /\ DocumentReminder' = DocumentReminder
  BY DEF DocumentSearchIndex, DocumentReminder
<1>6. CASE UNCHANGED <<index, rebuild, alarm, match, reminder>>
  BY <1>1, <1>2, <1>4, <1>5, <1>6 DEF NoticesTyped
<1>7. ASSUME UNCHANGED <<index, alarm, match, reminder>>,
             \A p \in Indexers : HandTyped(rebuild'[p])
      PROVE  NoticesTyped'
  BY <1>1, <1>2, <1>4, <1>5, <1>7 DEF NoticesTyped
<1>8. HandTyped(NotRebuilding)
  BY DEF HandTyped, NotRebuilding
<1>9. ASSUME NEW p \in Indexers, NEW d \in Docs, ReadDocument(p, d) PROVE NoticesTyped'
  <2> DEFINE hand == [NotRebuilding EXCEPT !.pc = "read", !.doc = d, !.rev = doc[d].rev,
                                           !.met = Reading(d) # {}]
  <2>1. \A q \in Indexers :
            rebuild'[q] \in {hand, [rebuild[q] EXCEPT !.met = TRUE], rebuild[q]}
    BY <1>9 DEF ReadDocument
  <2>2. HandTyped(hand)
    BY DEF HandTyped, NotRebuilding
  <2>3. ASSUME NEW q \in Indexers PROVE HandTyped([rebuild[q] EXCEPT !.met = TRUE])
    BY DEF HandTyped, NoticesTyped, RebuildShaped
  <2> HIDE DEF hand
  <2>4. \A q \in Indexers : HandTyped(rebuild'[q])
    BY <2>1, <2>2, <2>3 DEF NoticesTyped
  <2> QED BY <1>7, <1>9, <2>4 DEF ReadDocument
<1>10. ASSUME NEW p \in Indexers, NEW hand, HandTyped(hand), rebuild' = [rebuild EXCEPT ![p] = hand]
       PROVE  \A q \in Indexers : HandTyped(rebuild'[q])
  <2>1. \A q \in Indexers : rebuild'[q] \in {hand, rebuild[q]}
    BY <1>10 DEF RebuildShaped
  <2> QED BY <1>10, <2>1 DEF NoticesTyped
<1>11. ASSUME NEW p \in Indexers, WriteIndex(p) PROVE NoticesTyped'
  <2> DEFINE d == rebuild[p].doc
             row == [rev |-> rebuild[p].rev, raced |-> rebuild[p].met]
  <2>1. \A q \in Indexers : HandTyped(rebuild'[q])
    <3> DEFINE hand == [rebuild[p] EXCEPT !.pc = "written", !.todo = AlarmsToTry(d)]
    <3>1. rebuild' = [rebuild EXCEPT ![p].pc = "written", ![p].todo = AlarmsToTry(d)]
      BY <1>11 DEF WriteIndex
    <3>2. rebuild' = [rebuild EXCEPT ![p] = hand]
      BY <3>1
    <3>3. HandTyped(hand)
      BY <1>11 DEF WriteIndex, HandTyped, NoticesTyped, RebuildShaped
    <3> HIDE DEF hand
    <3> QED BY <1>10, <3>2, <3>3
  <2>2. index' = UpdatedOrCreated(d, p)
    BY <1>11 DEF WriteIndex
  <2> QED
    <3>1. d \in Docs /\ row \in DocumentSearchIndex
      BY <1>11 DEF WriteIndex, HandTyped, NoticesTyped, DocumentSearchIndex
    <3>2. index' = [k \in DOMAIN index \cup {d} |-> IF k = d THEN row ELSE index[k]]
      BY <2>2 DEF UpdatedOrCreated, Upsert
    <3> HIDE DEF d, row
    <3>3. /\ DOMAIN index' \subseteq Docs
          /\ \A k \in DOMAIN index' : index'[k] \in DocumentSearchIndex
      BY <3>1, <3>2 DEF NoticesTyped
    <3> QED BY <1>1, <1>2, <1>4, <1>5, <1>11, <2>1, <3>3 DEF WriteIndex, NoticesTyped
<1>12. ASSUME NEW p \in Indexers, Evaluated(p) \/ Ends(p) PROVE NoticesTyped'
  <2>1. rebuild' = [rebuild EXCEPT ![p] = NotRebuilding] /\ UNCHANGED <<index, alarm, match, reminder>>
    BY <1>12 DEF Evaluated, Ends, RebuildFails, RebuildRaises, RebuildEnds
  <2>2. \A q \in Indexers : rebuild'[q] \in {NotRebuilding, rebuild[q]}
    BY <2>1 DEF RebuildShaped
  <2> QED BY <1>7, <1>8, <2>1, <2>2 DEF NoticesTyped
<1>13. ASSUME NEW p \in Indexers, NEW a, NEW row, EvaluateAlarm(p, a, row) PROVE NoticesTyped'
  <2>1. \A q \in Indexers : HandTyped(rebuild'[q])
    <3> DEFINE left == rebuild[p].todo \ {<<a, row>>}
               hand == [rebuild[p] EXCEPT !.todo = left]
    <3>1. rebuild' = [rebuild EXCEPT ![p] = hand]
      BY <1>13 DEF EvaluateAlarm
    <3> HIDE DEF left
    <3>2. HandTyped(hand)
      BY <1>13 DEF EvaluateAlarm, HandTyped, NoticesTyped, RebuildShaped
    <3> HIDE DEF hand
    <3> QED BY <1>10, <3>1, <3>2
  <2>2. match' \subseteq DocumentAlarmMatch /\ UNCHANGED <<index, alarm, reminder>>
    BY <1>13 DEF EvaluateAlarm, NoticesTyped, HandTyped, DocumentAlarmMatch
  <2> QED BY <1>1, <1>2, <1>4, <1>5, <2>1, <2>2 DEF NoticesTyped
<1>14. ASSUME NEW a, NEW row \in AlarmRows, SaveAlarm(a, row) PROVE NoticesTyped'
  <2>1. row \in DocumentAlarm
    BY <1>14, RowsAssumption DEF RowsAssumption, SaveAlarm, Usable, Offered, DocumentAlarm
  <2>2. alarm' = [k \in DOMAIN alarm \cup {a} |-> IF k = a THEN row ELSE alarm[k]]
        /\ UNCHANGED <<index, rebuild, match, reminder>>
    BY <1>14 DEF SaveAlarm, Upsert
  <2>3. \A k \in DOMAIN alarm' : alarm'[k] \in DocumentAlarm'
    BY <1>2, <2>1, <2>2 DEF NoticesTyped
  <2>4. match' \subseteq DocumentAlarmMatch'
    BY <1>3, <2>2 DEF NoticesTyped
  <2> QED BY <1>1, <1>2, <1>5, <2>2, <2>3, <2>4 DEF NoticesTyped
<1>15. ASSUME NEW a, DeleteAlarm(a) PROVE NoticesTyped'
  <2>1. /\ alarm' = [k \in DOMAIN alarm \cap (DOMAIN alarm \ {a}) |-> alarm[k]]
        /\ match' = {m \in match : m[1] # a}
        /\ UNCHANGED <<index, rebuild, reminder>>
    BY <1>15, Zenon DEF DeleteAlarm, Restrict
  <2>2. match' \subseteq DocumentAlarmMatch'
    BY <1>1, <2>1 DEF NoticesTyped, DocumentAlarmMatch
  <2> QED BY <1>1, <1>2, <1>5, <2>1, <2>2 DEF NoticesTyped
<1>16. ASSUME NEW d, reminder' = [k \in DOMAIN reminder \cup {d} |-> reminder'[k]], d \in Docs,
              \A k \in DOMAIN reminder \ {d} : reminder'[k] = reminder[k],
              reminder'[d] \in DocumentReminder, UNCHANGED <<index, rebuild, alarm, match>>
       PROVE  NoticesTyped'
  <2>1. /\ DOMAIN reminder' \subseteq Docs
        /\ \A k \in DOMAIN reminder' : reminder'[k] \in DocumentReminder
    BY <1>16 DEF NoticesTyped
  <2> QED BY <1>1, <1>2, <1>4, <1>5, <1>16, <2>1 DEF NoticesTyped
<1>17. ASSUME NEW d \in Docs, NEW due \in BOOLEAN, SaveDocumentReminder(d, due) PROVE NoticesTyped'
  <2> DEFINE row == [row |-> IF d \in DOMAIN reminder THEN reminder[d].row ELSE past'.requests,
                     due |-> due, notified |-> FALSE, told |-> 0]
  <2>1. row \in DocumentReminder
    BY DEF NoticesTyped, DocumentReminder, Counted
  <2>2. reminder' = [k \in DOMAIN reminder \cup {d} |-> IF k = d THEN row ELSE reminder[k]]
        /\ UNCHANGED <<index, rebuild, alarm, match>>
    BY <1>17 DEF SaveDocumentReminder, Upsert
  <2> HIDE DEF row
  <2> QED BY <1>16, <2>1, <2>2
<1>18. ASSUME NEW d \in Docs, EndDocumentReminder(d) \/ ReminderComesDue(d) PROVE NoticesTyped'
  <2>1. CASE EndDocumentReminder(d)
    <3>1. reminder' = [k \in DOMAIN reminder \cap (DOMAIN reminder \ {d}) |-> reminder[k]]
          /\ UNCHANGED <<index, rebuild, alarm, match>>
      BY <2>1, Zenon DEF EndDocumentReminder, Restrict
    <3> QED BY <1>1, <1>2, <1>4, <1>5, <3>1 DEF NoticesTyped
  <2>2. CASE ReminderComesDue(d)
    <3>1. d \in DOMAIN reminder /\ reminder' = [reminder EXCEPT ![d].due = TRUE]
          /\ UNCHANGED <<index, rebuild, alarm, match>>
      BY <2>2 DEF ReminderComesDue
    <3>2. /\ DOMAIN reminder' = DOMAIN reminder
          /\ \A k \in DOMAIN reminder : reminder'[k] \in {reminder[k], [reminder[k] EXCEPT !.due = TRUE]}
      BY <3>1
    <3>3. \A row \in DocumentReminder : [row EXCEPT !.due = TRUE] \in DocumentReminder
      BY DEF DocumentReminder
    <3>4. \A k \in DOMAIN reminder' : reminder'[k] \in DocumentReminder
      BY <3>2, <3>3 DEF NoticesTyped
    <3> QED BY <1>1, <1>2, <1>4, <1>5, <3>1, <3>2, <3>4 DEF NoticesTyped
  <2> QED BY <1>18, <2>1, <2>2
<1>19. ASSUME NEW w, NEW d, NEW row, TellReminder(w, d, row) PROVE NoticesTyped'
  <2>1. ASSUME NEW k \in DOMAIN reminder
        PROVE  [reminder[k] EXCEPT !.notified = TRUE, !.told = @ + 1] \in DocumentReminder
    <3>1. reminder[k] \in DocumentReminder /\ reminder[k].told + 1 \in Nat
      BY DEF NoticesTyped, DocumentReminder
    <3>2. PICK n \in Nat : n = reminder[k].told + 1
      BY <3>1
    <3>3. [reminder[k] EXCEPT !.notified = TRUE, !.told = n] \in DocumentReminder
      BY <3>1 DEF DocumentReminder
    <3> QED BY <3>2, <3>3
  <2>2. /\ reminder' \in {reminder, [reminder EXCEPT ![d].notified = TRUE, ![d].told = @ + 1]}
        /\ UNCHANGED <<index, rebuild, alarm, match>>
    BY <1>19 DEF TellReminder
  <2>3. /\ DOMAIN reminder' = DOMAIN reminder
        /\ \A k \in DOMAIN reminder :
              reminder'[k] \in {reminder[k], [reminder[k] EXCEPT !.notified = TRUE, !.told = @ + 1]}
    BY <2>2
  <2>4. \A k \in DOMAIN reminder' : reminder'[k] \in DocumentReminder
    <3> SUFFICES ASSUME NEW k \in DOMAIN reminder PROVE reminder'[k] \in DocumentReminder
      BY <2>3
    <3>1. reminder[k] \in DocumentReminder
      BY DEF NoticesTyped
    <3>2. \/ reminder'[k] = reminder[k]
          \/ reminder'[k] = [reminder[k] EXCEPT !.notified = TRUE, !.told = @ + 1]
      BY <2>3
    <3>3. CASE reminder'[k] = reminder[k]
      BY <3>1, <3>3
    <3> QED BY <2>1, <3>2, <3>3
  <2> QED BY <1>1, <1>2, <1>4, <1>5, <2>2, <2>3, <2>4 DEF NoticesTyped
<1>20. ASSUME NoticesLeft PROVE NoticesTyped'
  <2>1. /\ index' = [d \in {e \in DOMAIN index : doc'[e].status # "purged"} |-> index[d]]
        /\ match' \subseteq match /\ UNCHANGED <<rebuild, alarm>>
        /\ reminder' = [d \in {e \in DOMAIN reminder : doc'[e].status # "purged"} |-> reminder[d]]
    BY <1>20 DEF NoticesLeft
  <2>2. /\ DOMAIN index' \subseteq DOMAIN index /\ DOMAIN reminder' \subseteq DOMAIN reminder
        /\ \A d \in DOMAIN index' : index'[d] = index[d]
        /\ \A d \in DOMAIN reminder' : reminder'[d] = reminder[d]
    BY <2>1
  <2> QED BY <1>1, <1>2, <1>4, <1>5, <2>1, <2>2 DEF NoticesTyped
<1> QED BY <1>6, <1>9, <1>11, <1>12, <1>13, <1>14, <1>15, <1>17, <1>18, <1>19, <1>20, NoticesAreWritten

-----------------------------------------------------------------------------
(***************************************************************************)
(* Documents.                                                              *)
(***************************************************************************)

DocsTyped == \A d \in Docs : doc[d] \in Document

\* What changes documents, with the inputs there are.
LEMMA DocsAreWritten ==
    ASSUME [Next]_vars
    PROVE  \/ UNCHANGED doc
           \/ \E b \in Known, target \in Known \cup {Root} : DeleteDocumentSpace(b, target)
           \/ \E b : EmptyDocumentSpace(b)
           \/ \E b \in Known, type \in {"pdf", "office"}, title \in {"manual", "filename"} :
                 UploadDocument(b, type, title)
           \/ \E b \in Known : ImportIntoBox(b, "pdf")
           \/ \E d \in Docs : DeleteDocument(d) \/ Annotate(d)
           \/ \E d \in Docs, a, b \in Known, keep \in BOOLEAN : SplitDocument(d, <<a, b>>, keep)
           \/ \E ds \in SUBSET Docs, b \in Known, keep \in BOOLEAN : MergeDocuments(ds, b, keep)
           \/ \E d \in Docs, b \in Known, retitled \in BOOLEAN :
                 UpdateDocumentCoreMetadata(d, b, retitled)
           \/ \E d \in Docs : \E values \in MetadataForm(d) : UpdateDocumentMetadata(d, values)
           \/ \E b \in Known, title \in {"manual", "filename"}, f \in DOMAIN field,
                 v \in Values \ {""}, complete \in BOOLEAN : UploadInvoice(b, title, f, v, complete)
           \/ \E f, g \in DOMAIN field : DeleteDocumentMetadataField(f, g)
           \/ \E j \in Jobs : \E titled \in BOOLEAN, found \in Found : OcrSucceeds(j, titled, found)
           \/ \E w \in JobWorkers : \E found \in BOOLEAN : EndLayout(w, found)
BY ZenonT(60)
   DEF Next, DocumentsNext, TitleRulesNext, LinksNext, NoticesNext, OcrNext, BoxJobsNext,
       ExportsNext, AccountsNext, vars, docVars, linkVars, Elsewhere, DocumentsOnly, RulesOnly, LinksOnly, OcrOnly,
       BoxJobsOnly, NoticesOnly, ExportsOnly, AccountsOnly, CreateDocumentSpace,
       UpdateDocumentSpace, DeleteStorageKeys, AddDocumentComment, SetDocumentTags, OptimizeOne,
       SaveOptimized, ReplaceStorage, DeleteOldKey, OptimizerDies, PurgeLost, CallbacksLost,
       CallbackRaises, RebuildRaises, RebuildEnds, StartUnsent,
       CreateTitleRule, EditTitleRule, DeleteTitleRule, AddDocumentRelation,
       RemoveDocumentRelation, CreateDocumentMetadataField, UpdateDocumentMetadataField,
       ReadDocument, WriteIndex, EvaluateAlarm, Evaluated, RebuildFails, SaveAlarm, DeleteAlarm,
       SaveDocumentReminder, EndDocumentReminder, ReminderComesDue, ListDueReminders,
       TellReminder, DispatcherDies, StartOcr, StartOfficeConversion, RestartOcr,
       TakeOcrJob, MarkOcrRunning, ReadForOcr, OcrFails, CancelOcr, OcrDies, RunOfficeConversion,
       SaveDerivative, StoreDerivative, ConversionSucceeds, ConversionFails, CancelConversion,
       CreateBoxJob, ClaimBoxJob, ReconcileNext, SkipLayout, StartLayout, SaveCursor, EndBatch,
       WorkerDies, ResumeBoxJob, CancelLayout, CreateExport, StartExport, PackDocument,
       FinishExport, ExportFails, ExportDies, CancelExport, AddTenantMember,
       UpdateTenantMembership, CreateTenantRole, UpdateTenantRole, CheckTenantRole,
       DeleteTenantRole

Titles == {"manual", "filename", "ocr", "einvoice"}
Metadata == [ToSet(Fields) -> Values]

\* Fields of a document are given others.
LEMMA DocumentIs ==
    ASSUME NEW row \in Document
    PROVE  /\ row.title \in Titles /\ row.meta \in Metadata /\ row.rev \in Nat
           /\ row.rev + 1 \in Nat
           /\ \A b \in DOMAIN box : [row EXCEPT !.box = b] \in Document
           /\ \A s \in {"active", "deleted", "purged"} : [row EXCEPT !.status = s] \in Document
           /\ \A meta \in Metadata : [row EXCEPT !.meta = meta] \in Document
           /\ \A n \in Nat : [row EXCEPT !.rev = n] \in Document
           /\ \A meta \in Metadata, n \in Nat : [row EXCEPT !.meta = meta, !.rev = n] \in Document
           /\ \A title \in Titles, meta \in Metadata, n \in Nat :
                 [row EXCEPT !.title = title, !.meta = meta, !.rev = n] \in Document
           /\ \A b \in DOMAIN box, title \in Titles, n \in Nat :
                 [row EXCEPT !.box = b, !.title = title, !.rev = n] \in Document
<1> USE DEF Document, Titles, Metadata
<1>1. row.title \in Titles /\ row.meta \in Metadata /\ row.rev \in Nat
  OBVIOUS
<1>2. row.rev + 1 \in Nat
  BY <1>1
<1>3. ASSUME NEW b \in DOMAIN box PROVE [row EXCEPT !.box = b] \in Document
  OBVIOUS
<1>4. ASSUME NEW s \in {"active", "deleted", "purged"} PROVE [row EXCEPT !.status = s] \in Document
  OBVIOUS
<1>5. ASSUME NEW meta \in Metadata PROVE [row EXCEPT !.meta = meta] \in Document
  OBVIOUS
<1>6. ASSUME NEW n \in Nat PROVE [row EXCEPT !.rev = n] \in Document
  OBVIOUS
<1>7. ASSUME NEW meta \in Metadata, NEW n \in Nat
      PROVE  [row EXCEPT !.meta = meta, !.rev = n] \in Document
  OBVIOUS
<1>8. ASSUME NEW title \in Titles, NEW meta \in Metadata, NEW n \in Nat
      PROVE  [row EXCEPT !.title = title, !.meta = meta, !.rev = n] \in Document
  OBVIOUS
<1>9. ASSUME NEW b \in DOMAIN box, NEW title \in Titles, NEW n \in Nat
      PROVE  [row EXCEPT !.box = b, !.title = title, !.rev = n] \in Document
  OBVIOUS
<1> HIDE DEF Document, Titles, Metadata
<1> QED BY <1>1, <1>2, <1>3, <1>4, <1>5, <1>6, <1>7, <1>8, <1>9

\* A new row is one of a document.
LEMMA NewDocumentTyped ==
    ASSUME NEW b \in DOMAIN box, NEW type \in {"pdf", "office"}, NEW title \in Titles,
           NEW meta \in Metadata
    PROVE  NewDocument(b, type, title, meta) \in Document
BY DEF NewDocument, Document, Titles, Metadata

\* However values are cleaned and filled in, each field has one.
LEMMA ValuesTyped ==
    /\ NoValues \in Metadata
    /\ \A f \in ToSet(Fields), v \in Values : [NoValues EXCEPT ![f] = v] \in Metadata
    /\ \A S : \A values \in [S -> Values] : CleanedMetadata(values) \in Metadata
    /\ \A seen : seen.meta \in Metadata => \A found \in Found : Filled(seen, found) \in Metadata
<1>1. "" \in Values
  BY DocumentsAssumption DEF DocumentsAssumption
<1>2. NoValues \in Metadata
  BY <1>1 DEF NoValues, Metadata
<1>3. ASSUME NEW f \in ToSet(Fields), NEW v \in Values PROVE [NoValues EXCEPT ![f] = v] \in Metadata
  BY <1>2 DEF Metadata
<1>4. ASSUME NEW S, NEW values \in [S -> Values] PROVE CleanedMetadata(values) \in Metadata
  BY <1>1 DEF CleanedMetadata, Metadata
<1>5. ASSUME NEW seen, seen.meta \in Metadata, NEW found \in Found
      PROVE  Filled(seen, found) \in Metadata
  <2>1. found \in Metadata
    BY OcrAssumption DEF OcrAssumption, Metadata
  <2> QED BY <1>5, <2>1 DEF Filled, Metadata
<1> QED BY <1>2, <1>3, <1>4, <1>5

\* Documents are created.
LEMMA CreatedTyped ==
    ASSUME NEW docs \in Seq(Document), NEW rows \in Seq(Document), Create(docs, rows)
    PROVE  \A d \in DOMAIN doc' : doc'[d] \in Document
<1>1. doc' = docs \o rows
  BY DEF Create
<1>2. doc' \in Seq(Document)
  BY <1>1
<1> QED BY <1>2

\* What an OCR job writes back is filled into a row that it has read.
LEMMA DocsStayTyped ==
    ASSUME Shaped, FieldsKnown, DocsTyped, \A j \in Jobs : ocr[j].seen \subseteq Document,
           [Next]_vars
    PROVE  DocsTyped'
<1> DEFINE Typed == \A d \in DOMAIN doc' : doc'[d] \in Document
<1>1. Document \subseteq Document'
  BY BoxesStay DEF Document
<1>2. SUFFICES Typed
  BY <1>1 DEF DocsTyped, Docs
<1>3. DOMAIN doc = Docs /\ \A d \in Docs : doc[d] \in Document
  BY DEF DocsTyped, Docs
<1>4. doc \in Seq(Document)
  <2>1. Len(doc) \in Nat /\ doc \in [1 .. Len(doc) -> Document]
    BY <1>3 DEF Shaped, DocsShaped
  <2> QED BY <2>1
<1>5. CASE UNCHANGED doc
  BY <1>3, <1>5
<1>6. ASSUME NEW inside
      PROVE  /\ \A d \in Docs : DeletedIn(inside)[d] \in Document
             /\ \A d \in Docs : Emptied(inside)[d] \in Document
             /\ \A b \in DOMAIN box : \A d \in Docs : MovedTo(inside, b)[d] \in Document
  BY <1>3, DocumentIs DEF DeletedIn, Emptied, MovedTo
<1>7. ASSUME NEW inside
      PROVE  /\ DOMAIN DeletedIn(inside) = Docs /\ DOMAIN Emptied(inside) = Docs
             /\ \A b : DOMAIN MovedTo(inside, b) = Docs
  BY DEF DeletedIn, Emptied, MovedTo
<1>8. ASSUME NEW d \in Docs, NEW row \in Document, doc' = [doc EXCEPT ![d] = row] PROVE Typed
  BY <1>3, <1>8
<1>9. ASSUME NEW b \in Known, NEW target \in Known \cup {Root}, DeleteDocumentSpace(b, target)
      PROVE  Typed
  <2>1. PICK inside : doc' = DeletedIn(inside) \/ (target # Root /\ doc' = MovedTo(inside, target))
    BY <1>9 DEF DeleteDocumentSpace
  <2>2. target # Root => target \in DOMAIN box
    BY DEF Known
  <2> QED BY <1>6, <1>7, <2>1, <2>2
<1>10. ASSUME NEW b, EmptyDocumentSpace(b) PROVE Typed
  <2>1. PICK inside : doc' = Emptied(inside)
    BY <1>10 DEF EmptyDocumentSpace
  <2> QED BY <1>6, <1>7, <2>1
<1>11. ASSUME NEW row \in Document, Create(doc, <<row>>) PROVE Typed
  <2>1. <<row>> \in Seq(Document)
    OBVIOUS
  <2> QED BY <1>4, <1>11, <2>1, CreatedTyped
<1>12. ASSUME NEW b \in Known, NEW type \in {"pdf", "office"}, NEW title \in Titles, NEW meta \in Metadata
       PROVE  NewDocument(b, type, title, meta) \in Document
  BY NewDocumentTyped DEF Known
<1>13. ASSUME NEW b \in Known, NEW type \in {"pdf", "office"}, NEW title \in {"manual", "filename"},
              UploadDocument(b, type, title)
       PROVE  Typed
  BY <1>11, <1>12, <1>13, ValuesTyped DEF UploadDocument, Titles
<1>14. ASSUME NEW b \in Known, ImportIntoBox(b, "pdf") PROVE Typed
  BY <1>11, <1>12, <1>14, ValuesTyped DEF ImportIntoBox, Titles
<1>15. ASSUME NEW ds, NEW keep, NEW rows \in Seq(Document),
              Create(IF keep THEN doc ELSE DocumentsDeleted(ds), rows)
       PROVE  Typed
  <2>1. DocumentsDeleted(ds) \in Seq(Document)
    <3>1. Len(doc) \in Nat /\ Docs = 1 .. Len(doc)
      BY <1>4 DEF Docs
    <3>2. DeletedIn(ds) \in [1 .. Len(doc) -> Document]
      BY <1>6, <3>1 DEF DeletedIn
    <3> QED BY <3>1, <3>2 DEF DocumentsDeleted
  <2> QED BY <1>4, <1>15, <2>1, CreatedTyped
<1>16. ASSUME NEW d \in Docs, NEW a \in Known, NEW b \in Known, NEW keep,
              SplitDocument(d, <<a, b>>, keep)
       PROVE  Typed
  <2>1. PartRows(<<a, b>>) \in Seq(Document)
    <3>1. \A k \in 1 .. 2 : PartRows(<<a, b>>)[k] \in Document
      BY <1>12, ValuesTyped DEF PartRows, Titles
    <3>2. PartRows(<<a, b>>) = [k \in 1 .. 2 |-> PartRows(<<a, b>>)[k]]
      BY DEF PartRows
    <3>3. PICK n \in Nat : n = 2
      OBVIOUS
    <3>4. PartRows(<<a, b>>) \in [1 .. n -> Document]
      BY <3>1, <3>2, <3>3
    <3> HIDE <3>3
    <3> QED BY <3>4
  <2> QED BY <1>15, <1>16, <2>1 DEF SplitDocument
<1>17. ASSUME NEW ds, NEW b \in Known, NEW keep, MergeDocuments(ds, b, keep) PROVE Typed
  <2>1. <<MergedRow(b)>> \in Seq(Document)
    BY <1>12, ValuesTyped DEF MergedRow, Titles
  <2> QED BY <1>15, <1>17, <2>1 DEF MergeDocuments
<1>18. ASSUME NEW d \in Docs, DeleteDocument(d) PROVE Typed
  BY <1>6, <1>7, <1>18 DEF DeleteDocument, DocumentsDeleted
<1>19. ASSUME NEW d \in Docs, Annotate(d) PROVE Typed
  <2>1. doc' = [doc EXCEPT ![d] = [doc[d] EXCEPT !.rev = doc[d].rev + 1]]
    BY <1>19 DEF Annotate
  <2>2. [doc[d] EXCEPT !.rev = doc[d].rev + 1] \in Document
    BY <1>3, DocumentIs
  <2> QED BY <1>8, <2>1, <2>2
<1>20. ASSUME NEW d \in Docs, NEW b \in Known, NEW retitled, UpdateDocumentCoreMetadata(d, b, retitled)
       PROVE  Typed
  <2> DEFINE title == IF retitled THEN "manual" ELSE doc[d].title
             rev == IF retitled THEN doc[d].rev + 1 ELSE doc[d].rev
  <2>1. doc' = [doc EXCEPT ![d] = [doc[d] EXCEPT !.box = b, !.title = title, !.rev = rev]]
    BY <1>20 DEF UpdateDocumentCoreMetadata, CoreSaved
  <2>2. title \in Titles /\ rev \in Nat
    BY <1>3, DocumentIs DEF Titles
  <2> HIDE DEF title, rev
  <2>3. [doc[d] EXCEPT !.box = b, !.title = title, !.rev = rev] \in Document
    BY <1>3, <2>2, DocumentIs DEF Known
  <2> QED BY <1>8, <2>1, <2>3
<1>21. ASSUME NEW d \in Docs, NEW values \in MetadataForm(d), UpdateDocumentMetadata(d, values)
       PROVE  Typed
  <2> DEFINE meta == CleanedMetadata(values)
  <2>1. doc' = [doc EXCEPT ![d] = [doc[d] EXCEPT !.meta = meta, !.rev = doc[d].rev + 1]]
    BY <1>21 DEF UpdateDocumentMetadata, Saved
  <2>2. meta \in Metadata
    BY ValuesTyped DEF MetadataForm
  <2> HIDE DEF meta
  <2>3. [doc[d] EXCEPT !.meta = meta, !.rev = doc[d].rev + 1] \in Document
    BY <1>3, <2>2, DocumentIs
  <2> QED BY <1>8, <2>1, <2>3
<1>22. ASSUME NEW b \in Known, NEW title \in {"manual", "filename"}, NEW f \in DOMAIN field,
              NEW v \in Values \ {""}, NEW complete, UploadInvoice(b, title, f, v, complete)
       PROVE  Typed
  <2>1. InvoiceTitle(b, title, complete) \in Titles
    BY DEF InvoiceTitle, Titles
  <2>2. [NoValues EXCEPT ![Slug(f)] = v] \in Metadata
    BY ValuesTyped DEF FieldsKnown, Slug
  <2> QED BY <1>11, <1>12, <1>22, <2>1, <2>2 DEF UploadInvoice
<1>23. ASSUME NEW f \in DOMAIN field, NEW g \in DOMAIN field, DeleteDocumentMetadataField(f, g)
       PROVE  Typed
  <2>1. \A d \in Docs : Migrated(f, g)[d] \in Document
    <3> SUFFICES ASSUME NEW d \in Docs PROVE Migrated(f, g)[d] \in Document
      OBVIOUS
    <3> DEFINE meta == [doc[d].meta EXCEPT ![Slug(g)] = doc[d].meta[Slug(f)], ![Slug(f)] = ""]
    <3>1. meta \in Metadata
      BY <1>3, DocumentIs, DocumentsAssumption DEF Metadata, FieldsKnown, DocumentsAssumption, Slug
    <3>2. Migrated(f, g)[d] \in {[doc[d] EXCEPT !.meta = meta], doc[d]}
      BY DEF Migrated
    <3> HIDE DEF meta
    <3> QED BY <1>3, <3>1, <3>2, DocumentIs
  <2>2. doc' \in {doc, Migrated(f, g)} /\ DOMAIN Migrated(f, g) = Docs
    BY <1>23 DEF DeleteDocumentMetadataField, Migrated
  <2> QED BY <1>3, <2>1, <2>2
<1>24. ASSUME NEW j \in Jobs, NEW titled, NEW found \in Found, OcrSucceeds(j, titled, found)
       PROVE  Typed
  <2> DEFINE d == ocr[j].doc
             seen == CHOOSE row \in ocr[j].seen : TRUE
             meta == Filled(seen, found)
             title == IF Prefills(seen) /\ titled THEN "ocr" ELSE doc[d].title
             next == IF meta = seen.meta THEN doc[d].meta ELSE meta
             rev == doc[d].rev + 1
  <2>1. CASE OcrRowExists(j)
    <3>1. d \in Docs
      BY <2>1 DEF OcrRowExists, Exists
    <3>2. seen \in Document
      <4>1. PICK row : ocr[j].seen = {row}
        BY <1>24 DEF OcrSucceeds, Shaped, OcrShaped, OcrRowShaped
      <4> QED BY <4>1
    <3>3. doc' = [doc EXCEPT ![d].title = IF Prefills(seen) /\ titled THEN "ocr" ELSE @,
                             ![d].meta = IF meta = seen.meta THEN @ ELSE meta,
                             ![d].rev = @ + 1]
      BY <1>24, <2>1 DEF OcrSucceeds
    <3> HIDE DEF seen
    <3>4. meta \in Metadata
      BY <3>2, ValuesTyped, DocumentIs
    <3> HIDE DEF meta
    <3>5. doc' = [doc EXCEPT ![d] = [doc[d] EXCEPT !.title = title, !.meta = next, !.rev = rev]]
      BY <3>3
    <3>6. title \in Titles /\ next \in Metadata /\ rev \in Nat
      BY <1>3, <3>1, <3>4, DocumentIs DEF Titles
    <3> HIDE DEF title, next, rev, d
    <3>7. [doc[d] EXCEPT !.title = title, !.meta = next, !.rev = rev] \in Document
      BY <1>3, <3>1, <3>6, DocumentIs
    <3> QED BY <1>8, <3>1, <3>5, <3>7
  <2>2. CASE ~ OcrRowExists(j)
    BY <1>5, <1>24, <2>2 DEF OcrSucceeds
  <2> QED BY <2>1, <2>2
<1>25. ASSUME NEW w \in JobWorkers, NEW found, EndLayout(w, found) PROVE Typed
  <2> DEFINE d == ocr[worker[w].ocr].doc
  <2>1. CASE Exists(d) /\ doc' = [doc EXCEPT ![d] = [doc[d] EXCEPT !.rev = doc[d].rev + 1]]
    <3>1. d \in Docs
      BY <2>1 DEF Exists
    <3>2. [doc[d] EXCEPT !.rev = doc[d].rev + 1] \in Document
      BY <1>3, <3>1, DocumentIs
    <3> QED BY <1>8, <2>1, <3>1, <3>2
  <2> QED BY <1>5, <1>25, <2>1 DEF EndLayout
<1> HIDE DEF Typed
<1> QED BY <1>5, <1>9, <1>10, <1>13, <1>14, <1>16, <1>17, <1>18, <1>19, <1>20, <1>21, <1>22, <1>23,
           <1>24, <1>25, DocsAreWritten

-----------------------------------------------------------------------------
(***************************************************************************)
(* OCR jobs, what they have read, and conversions.                         *)
(***************************************************************************)

Statuses == {"pending", "running", "succeeded", "failed", "cancelled"}
OcrSteps == {"queued", "taken", "running", "read", "layout", "done"}

OcrTyped == \A j \in Jobs : ocr[j] \in OcrJob

\* A job goes on.
LEMMA OcrJobIs ==
    ASSUME NEW row \in OcrJob
    PROVE  /\ row.step \in OcrSteps /\ row.status \in Statuses /\ row.seen \subseteq Document
           /\ \A step \in OcrSteps, status \in Statuses :
                 [row EXCEPT !.step = step, !.status = status] \in OcrJob
           /\ \A step \in OcrSteps, seen \in SUBSET Document :
                 [row EXCEPT !.step = step, !.seen = seen] \in OcrJob
           /\ \A step \in OcrSteps, status \in Statuses, seen \in SUBSET Document :
                 [row EXCEPT !.step = step, !.status = status, !.seen = seen] \in OcrJob
           /\ \A status \in Statuses, step \in OcrSteps, seen \in SUBSET Document :
                 [row EXCEPT !.status = status, !.step = step, !.seen = seen] \in OcrJob
           /\ [row EXCEPT !.status = "failed"] \in OcrJob
           /\ \A step \in OcrSteps, status \in Statuses, by \in Nat :
                 [row EXCEPT !.status = status, !.step = step, !.by = by] \in OcrJob
<1> USE DEF OcrJob, Statuses, OcrSteps
<1>1. row.step \in OcrSteps /\ row.status \in Statuses /\ row.seen \subseteq Document
  OBVIOUS
<1>2. ASSUME NEW step \in OcrSteps, NEW status \in Statuses
      PROVE  [row EXCEPT !.step = step, !.status = status] \in OcrJob
  OBVIOUS
<1>3. ASSUME NEW step \in OcrSteps, NEW seen \in SUBSET Document
      PROVE  [row EXCEPT !.step = step, !.seen = seen] \in OcrJob
  OBVIOUS
<1>4. ASSUME NEW step \in OcrSteps, NEW status \in Statuses, NEW seen \in SUBSET Document
      PROVE  [row EXCEPT !.step = step, !.status = status, !.seen = seen] \in OcrJob
  OBVIOUS
<1>5. ASSUME NEW step \in OcrSteps, NEW status \in Statuses, NEW seen \in SUBSET Document
      PROVE  [row EXCEPT !.status = status, !.step = step, !.seen = seen] \in OcrJob
  OBVIOUS
<1>6. [row EXCEPT !.status = "failed"] \in OcrJob
  OBVIOUS
<1>7. ASSUME NEW step \in OcrSteps, NEW status \in Statuses, NEW by \in Nat
      PROVE  [row EXCEPT !.status = status, !.step = step, !.by = by] \in OcrJob
  OBVIOUS
<1> HIDE DEF OcrJob, Statuses, OcrSteps
<1> QED BY <1>1, <1>2, <1>3, <1>4, <1>5, <1>6, <1>7

\* A job reads rows of documents, and follows a rule or none.
LEMMA OcrStaysTyped ==
    ASSUME Shaped, DocsKept, DocsTyped, RulesApart, RulesTyped, OcrTyped, [Next]_vars
    PROVE  OcrTyped'
<1> DEFINE Typed == \A j \in DOMAIN ocr' : ocr'[j] \in OcrJob
<1>1. OcrJob \subseteq OcrJob'
  <2>1. Docs \subseteq Docs' /\ Document \subseteq Document'
    BY BoxesStay DEF DocsKept, Document
  <2> QED BY <2>1 DEF OcrJob
<1>2. SUFFICES Typed
  BY <1>1 DEF OcrTyped, Jobs
<1>3. DOMAIN ocr = Jobs /\ \A j \in Jobs : ocr[j] \in OcrJob
  BY DEF OcrTyped, Jobs
<1>4. CASE UNCHANGED ocr
  BY <1>3, <1>4
<1>5. ASSUME NEW j \in Jobs, NEW row \in OcrJob, ocr' = [ocr EXCEPT ![j] = row] PROVE Typed
  BY <1>3, <1>5
<1>6. ASSUME NEW row \in OcrJob, ocr' = Append(ocr, row) PROVE Typed
  <2>1. Len(ocr) \in Nat /\ ocr \in [1 .. Len(ocr) -> OcrJob]
    BY <1>3 DEF Shaped, OcrShaped
  <2>2. ocr \in Seq(OcrJob)
    BY <2>1
  <2>3. ocr' \in Seq(OcrJob)
    BY <1>6, <2>2
  <2> QED BY <2>3
<1>7. ASSUME NEW d \in Docs PROVE NewOcrJob(d) \in OcrJob
  BY PolicyIsSource DEF NewOcrJob, OcrJob
<1>8. ASSUME NEW d \in Docs, StartOcr(d) \/ RestartOcr(d) PROVE Typed
  BY <1>4, <1>6, <1>7, <1>8 DEF StartOcr, RestartOcr, OcrCreated
<1>9. ASSUME NEW d, ConversionSucceeds(d) PROVE Typed
  BY <1>4, <1>6, <1>7, <1>9 DEF ConversionSucceeds, OcrCreated, Exists
<1>20. ASSUME NEW d \in Docs, NEW later, StartUnsent(d, later) PROVE Typed
  <2> DEFINE row == [NewOcrJob(d) EXCEPT !.step = "done"]
  <2>1. NewOcrJob(d).status \in Statuses
    BY <1>7, OcrJobIs
  <2>2. row = [NewOcrJob(d) EXCEPT !.step = "done", !.status = NewOcrJob(d).status]
    BY <1>7 DEF OcrJob
  <2>3. row \in OcrJob
    BY <1>7, <2>1, <2>2, OcrJobIs DEF OcrSteps
  <2>4. ocr' = Append(ocr, row) \/ ocr' = ocr
    BY <1>20 DEF StartUnsent
  <2> HIDE DEF row
  <2> QED BY <1>4, <1>6, <2>3, <2>4
<1>10. ASSUME NEW j \in Jobs, NEW step \in OcrSteps, NEW status \in Statuses, OcrGoes(j, step, status)
       PROVE  Typed
  <2>1. ocr' = [ocr EXCEPT ![j] = [ocr[j] EXCEPT !.step = step, !.status = status]]
    BY <1>10 DEF OcrGoes
  <2>2. [ocr[j] EXCEPT !.step = step, !.status = status] \in OcrJob
    BY <1>3, OcrJobIs
  <2> QED BY <1>5, <2>1, <2>2
<1>11. \A j \in Jobs : ocr[j].status \in Statuses /\ ocr[j].step \in OcrSteps
                       /\ ocr[j].seen \subseteq Document
  BY <1>3, OcrJobIs
<1>12. ASSUME NEW j \in Jobs, TakeOcrJob(j) \/ MarkOcrRunning(j) \/ OcrFails(j) PROVE Typed
  <2>1. \E step \in OcrSteps, status \in Statuses : OcrGoes(j, step, status)
    BY <1>11, <1>12 DEF TakeOcrJob, MarkOcrRunning, OcrFails, OcrSteps, Statuses
  <2> QED BY <1>10, <2>1
<1>13. ASSUME NEW j \in Jobs, ReadForOcr(j) PROVE Typed
  <2> DEFINE seen == {doc[ocr[j].doc]}
  <2>1. seen \in SUBSET Document
    BY <1>13 DEF ReadForOcr, OcrRowExists, Exists, DocsTyped
  <2>2. ocr' = [ocr EXCEPT ![j] = [ocr[j] EXCEPT !.step = "read", !.seen = seen]]
    BY <1>13 DEF ReadForOcr
  <2> HIDE DEF seen
  <2>3. [ocr[j] EXCEPT !.step = "read", !.seen = seen] \in OcrJob
    BY <1>3, <2>1, OcrJobIs DEF OcrSteps
  <2> QED BY <1>5, <2>2, <2>3
<1>14. ASSUME NEW j \in Jobs, OcrDies(j) PROVE Typed
  <2>1. ocr' = [ocr EXCEPT ![j] = [ocr[j] EXCEPT !.step = "done", !.seen = {}]]
    BY <1>14 DEF OcrDies
  <2>2. [ocr[j] EXCEPT !.step = "done", !.seen = {}] \in OcrJob
    BY <1>3, OcrJobIs DEF OcrSteps
  <2> QED BY <1>5, <2>1, <2>2
<1>15. ASSUME NEW j \in Jobs, NEW titled, NEW found, OcrSucceeds(j, titled, found) PROVE Typed
  <2>1. \/ ocr' = [ocr EXCEPT ![j].step = "done", ![j].status = "succeeded", ![j].seen = {}]
        \/ ocr' = [ocr EXCEPT ![j].step = "done", ![j].seen = {}]
    BY <1>15, Zenon DEF OcrSucceeds
  <2>2. \/ ocr' = [ocr EXCEPT ![j] = [ocr[j] EXCEPT !.step = "done", !.status = "succeeded", !.seen = {}]]
        \/ ocr' = [ocr EXCEPT ![j] = [ocr[j] EXCEPT !.step = "done", !.seen = {}]]
    BY <2>1
  <2>3. /\ [ocr[j] EXCEPT !.step = "done", !.status = "succeeded", !.seen = {}] \in OcrJob
        /\ [ocr[j] EXCEPT !.step = "done", !.seen = {}] \in OcrJob
    BY <1>3, OcrJobIs DEF OcrSteps, Statuses
  <2> QED BY <1>5, <2>2, <2>3
<1>16. ASSUME NEW j \in Jobs, NEW killed \in BOOLEAN, CancelOcr(j, killed) PROVE Typed
  <2> DEFINE step == IF killed THEN "done" ELSE ocr[j].step
             seen == IF killed THEN {} ELSE ocr[j].seen
  <2>1. ocr' = [ocr EXCEPT ![j] = [ocr[j] EXCEPT !.status = "cancelled", !.step = step, !.seen = seen]]
    BY <1>16 DEF CancelOcr
  <2>2. step \in OcrSteps /\ seen \in SUBSET Document
    BY <1>11 DEF OcrSteps
  <2> HIDE DEF step, seen
  <2>3. [ocr[j] EXCEPT !.status = "cancelled", !.step = step, !.seen = seen] \in OcrJob
    BY <1>3, <2>2, OcrJobIs DEF Statuses
  <2> QED BY <1>5, <2>1, <2>3
<1>17. ASSUME NEW w \in JobWorkers, StartLayout(w) PROVE Typed
  <2> DEFINE d == NextDocument(w).id
             j == worker[w].job
  <2>1. /\ Exists(d)
        /\ ocr' = Append(ocr, [NewOcrJob(d) EXCEPT !.status = "running", !.step = "layout", !.by = j])
    BY <1>17 DEF StartLayout
  <2>2. j \in Nat
    BY <1>17 DEF StartLayout, Shaped, BoxJobsShaped, WorkerShaped
  <2> HIDE DEF d, j
  <2>3. NewOcrJob(d) \in OcrJob
    BY <1>7, <2>1 DEF Exists
  <2>4. [NewOcrJob(d) EXCEPT !.status = "running", !.step = "layout", !.by = j] \in OcrJob
    BY <2>2, <2>3, OcrJobIs DEF OcrSteps, Statuses
  <2> QED BY <1>6, <2>1, <2>4
<1>18. ASSUME NEW w \in JobWorkers, NEW found, EndLayout(w, found) PROVE Typed
  <2> DEFINE j == worker[w].ocr
  <2>1. j \in Jobs => \E status \in Statuses : OcrGoes(j, "done", status)
    BY <1>11, <1>18 DEF EndLayout, Statuses
  <2>2. j \notin Jobs => ocr' = ocr
    <3>1. \E status : ocr' = [ocr EXCEPT ![j].step = "done", ![j].status = status]
      BY <1>18 DEF EndLayout, OcrGoes
    <3> HIDE DEF j
    <3> QED BY <1>3, <3>1 DEF Shaped, OcrShaped
  <2> HIDE DEF j
  <2> QED BY <1>4, <1>10, <2>1, <2>2 DEF OcrSteps
<1>19. ASSUME NEW j, NEW killed, CancelLayout(j, killed) PROVE Typed
  <2>1. ocr' = [k \in Jobs |->
                 IF ocr[k].by = j /\ ocr[k].status = "running"
                 THEN [ocr[k] EXCEPT !.status = "failed"] ELSE ocr[k]]
    BY <1>19 DEF CancelLayout, Jobs
  <2>2. \A k \in Jobs : [ocr[k] EXCEPT !.status = "failed"] \in OcrJob
    BY <1>3, OcrJobIs
  <2> QED BY <1>3, <2>1, <2>2
<1> HIDE DEF Typed
<1> QED BY <1>4, <1>8, <1>9, <1>12, <1>13, <1>14, <1>15, <1>16, <1>17, <1>18, <1>19, <1>20, OnlyTheseTouchOcr

ConversionTyped == \A d \in DOMAIN conversion : conversion[d] \in DocumentOfficeConversionJob

\* What changes conversions.
LEMMA OnlyTheseTouchConversions ==
    ASSUME [Next]_vars
    PROVE  \/ UNCHANGED conversion
           \/ \E d : StartOfficeConversion(d) \/ \E later : StartUnsent(d, later)
           \/ \E d \in DOMAIN conversion : ConversionGoesOn(d)
<1>1. CASE DocumentsNext
  BY <1>1, RequestsTouchFiles
<1>2. CASE OcrNext
  BY <1>2, OcrTouchesFiles, ZenonT(60) DEF OcrSucceeds
<1> QED BY <1>1, <1>2, OthersTouchFiles DEF Next

\* Conversions go from step to step.
LEMMA ConversionsStayTyped ==
    ASSUME ConversionTyped, [Next]_vars
    PROVE  ConversionTyped'
<1> DEFINE Steps == {"queued", "running", "saved", "stored", "done"}
<1>1. DocumentOfficeConversionJob = [status : Statuses, step : Steps]
  BY DEF DocumentOfficeConversionJob, Statuses
<1>2. CASE UNCHANGED conversion
  BY <1>2 DEF ConversionTyped, DocumentOfficeConversionJob
<1>3. ASSUME NEW d, StartOfficeConversion(d) \/ \E later : StartUnsent(d, later)
      PROVE  ConversionTyped'
  <2>1. PICK row \in DocumentOfficeConversionJob :
          \/ conversion' = conversion
          \/ conversion' = [k \in DOMAIN conversion \cup {d} |-> IF k = d THEN row ELSE conversion[k]]
    <3> DEFINE Sent(row) ==
          \/ conversion' = conversion
          \/ conversion' = [k \in DOMAIN conversion \cup {d} |-> IF k = d THEN row ELSE conversion[k]]
    <3>1. /\ [status |-> "pending", step |-> "queued"] \in DocumentOfficeConversionJob
          /\ [status |-> "pending", step |-> "done"] \in DocumentOfficeConversionJob
      BY DEF DocumentOfficeConversionJob
    <3>2. CASE StartOfficeConversion(d)
      <4>1. Sent([status |-> "pending", step |-> "queued"])
        BY <3>2 DEF StartOfficeConversion, Upsert
      <4> HIDE DEF Sent
      <4> QED BY <3>1, <4>1 DEF Sent
    <3>3. ASSUME NEW later, StartUnsent(d, later)
          PROVE  \E row \in DocumentOfficeConversionJob : Sent(row)
      <4>1. Sent([status |-> "pending", step |-> "done"])
        BY <3>3 DEF StartUnsent, Upsert
      <4> HIDE DEF Sent
      <4> QED BY <3>1, <4>1
    <3> QED BY <1>3, <3>2, <3>3
  <2>3. \A k \in DOMAIN conversion' : conversion'[k] \in DocumentOfficeConversionJob
    BY <2>1 DEF ConversionTyped
  <2> QED BY <2>3 DEF ConversionTyped, DocumentOfficeConversionJob
<1>4. ASSUME NEW d \in DOMAIN conversion, ConversionGoesOn(d) PROVE ConversionTyped'
  <2>1. conversion[d].status \in Statuses /\ conversion[d].step \in Steps
    BY <1>1 DEF ConversionTyped
  <2>2. \E step \in Steps, status \in Statuses : ConversionGoes(d, step, status)
    <3>1. CASE RunOfficeConversion(d)
      BY <2>1, <3>1 DEF RunOfficeConversion, Statuses
    <3>2. CASE SaveDerivative(d) \/ StoreDerivative(d)
      BY <2>1, <3>2 DEF SaveDerivative, StoreDerivative
    <3>3. CASE ConversionSucceeds(d) \/ ConversionFails(d)
      BY <2>1, <3>3 DEF ConversionSucceeds, ConversionFails, Statuses
    <3>4. ASSUME NEW killed, CancelConversion(d, killed)
          PROVE  \E step \in Steps, status \in Statuses : ConversionGoes(d, step, status)
      BY <2>1, <3>4 DEF CancelConversion, Statuses
    <3> QED BY <1>4, <3>1, <3>2, <3>3, <3>4 DEF ConversionGoesOn
  <2>3. PICK step \in Steps, status \in Statuses : ConversionGoes(d, step, status)
    BY <2>2
  <2> DEFINE row == [step |-> step, status |-> status]
  <2>4. row \in DocumentOfficeConversionJob
    BY <1>1
  <2>5. conversion' = [conversion EXCEPT ![d] = row]
    BY <2>3 DEF ConversionGoes
  <2> HIDE DEF row
  <2>6. \A k \in DOMAIN conversion' : conversion'[k] \in DocumentOfficeConversionJob
    BY <2>4, <2>5 DEF ConversionTyped
  <2> QED BY <2>6 DEF ConversionTyped, DocumentOfficeConversionJob
<1> QED BY <1>2, <1>3, <1>4, OnlyTheseTouchConversions

-----------------------------------------------------------------------------
(***************************************************************************)
(* Relations are of two documents, and made by a person or a field.        *)
(***************************************************************************)

\* A row per pair of some documents, owned by one of some.
PairsOf(rel, ds, owners) ==
    /\ rel = [p \in DOMAIN rel |-> rel[p]]
    /\ \A p \in DOMAIN rel : p \subseteq ds /\ Cardinality(p) = 2 /\ rel[p] \in owners

Owners == {"user"} \cup DOMAIN field

\* The same, said of pairs and said of functions.
LEMMA PairsAreRelations ==
    ASSUME NEW rel, NEW ds, NEW owners
    PROVE  rel \in [{p \in DOMAIN rel : p \subseteq ds /\ Cardinality(p) = 2} -> owners]
           <=> PairsOf(rel, ds, owners)
<1> DEFINE pairs == {p \in DOMAIN rel : p \subseteq ds /\ Cardinality(p) = 2}
<1>1. ASSUME rel \in [pairs -> owners] PROVE PairsOf(rel, ds, owners)
  <2>1. DOMAIN rel = pairs
    BY <1>1
  <2> QED BY <1>1, <2>1 DEF PairsOf
<1>2. ASSUME PairsOf(rel, ds, owners) PROVE rel \in [pairs -> owners]
  <2>1. pairs = DOMAIN rel
    BY <1>2 DEF PairsOf
  <2> HIDE DEF pairs
  <2> QED BY <1>2, <2>1 DEF PairsOf
<1> QED BY <1>1, <1>2

\* Two are a pair.
LEMMA TwoAreTwo ==
    ASSUME NEW d, NEW e, d # e
    PROVE  Cardinality({d, e}) = 2
<1>1. IsFiniteSet({d}) /\ Cardinality({d}) = 1
  BY FS_Singleton
<1>2. Cardinality({d} \cup {e}) = 1 + 1
  BY <1>1, FS_AddElement
<1>3. {d} \cup {e} = {d, e}
  OBVIOUS
<1> QED BY <1>2, <1>3

\* Fewer pairs, ...
LEMMA FewerPairs ==
    ASSUME NEW rel, NEW ds, NEW owners, PairsOf(rel, ds, owners),
           NEW S \in SUBSET DOMAIN rel
    PROVE  PairsOf(Restrict(rel, S), ds, owners)
BY DEF PairsOf, Restrict

\* ... and more of them.
LEMMA MorePairs ==
    ASSUME NEW rel, NEW ds, NEW owners, PairsOf(rel, ds, owners), NEW owner \in owners, NEW pairs,
           \A p \in pairs : p \subseteq ds /\ Cardinality(p) = 2
    PROVE  PairsOf(Related(rel, pairs, owner), ds, owners)
BY DEF Related, PairsOf

\* Reconciling with a field ...
LEMMA LinkedIsPairs ==
    ASSUME NEW rel, NEW docs, NEW d \in DOMAIN docs, NEW row, NEW f \in DOMAIN field,
           PairsOf(rel, DOMAIN docs, Owners)
    PROVE  PairsOf(Linked(rel, docs, d, row, f), DOMAIN docs, Owners)
<1> DEFINE matching == Matching(docs, d, row, f)
           kept == StaleDropped(rel, d, f, matching)
<1>1. matching \subseteq DOMAIN docs \ {d}
  BY DEF Matching
<1> HIDE DEF matching
<1>2. PairsOf(kept, DOMAIN docs, Owners)
  BY FewerPairs DEF StaleDropped
<1> HIDE DEF kept
<1>3. \A p \in {{d, e} : e \in matching} : p \subseteq DOMAIN docs /\ Cardinality(p) = 2
  BY <1>1, TwoAreTwo, SMTT(30)
<1>4. f \in Owners
  BY DEF Owners
<1>5. PairsOf(Related(kept, {{d, e} : e \in matching}, f), DOMAIN docs, Owners)
  BY <1>2, <1>3, <1>4, MorePairs
<1> QED BY <1>5 DEF Linked, kept, matching

\* ... and with all that are enabled.
LEMMA ReconciledIsPairs ==
    ASSUME Tree, FieldsKnown, NEW rel, NEW docs, NEW d \in DOMAIN docs, NEW row,
           PairsOf(rel, DOMAIN docs, Owners)
    PROVE  PairsOf(Reconciled(rel, docs, d, row), DOMAIN docs, Owners)
<1> DEFINE fs == {f \in EffectiveFields(row.box) : field[f].auto}
           enabled == InOrder(fs)
           kept == Restrict(rel, {q \in DOMAIN rel :
                                     d \in q => rel[q] \in {"user"} \cup ToSet(enabled)})
           after == LinkedByAll(kept, docs, d, row, enabled)
           LostAt == {n \in 0 .. Len(enabled) : ~ PairsOf(after[n], DOMAIN docs, Owners)}
<1>1. fs \in SUBSET DOMAIN field /\ fs \in SUBSET ToSet(Fields)
  BY DEF EffectiveFields, FieldsKnown
<1> HIDE DEF fs
<1>2. /\ Len(enabled) \in Nat /\ DOMAIN enabled = 1 .. Len(enabled)
      /\ \A n \in DOMAIN enabled : enabled[n] \in DOMAIN field
  BY <1>1, OrderIsSequence, OrderIsOfFields
<1>3. PairsOf(kept, DOMAIN docs, Owners)
  BY FewerPairs
<1>4. Reconciled(rel, docs, d, row) = after[Len(enabled)]
  BY DEF Reconciled, fs
<1> HIDE DEF kept, enabled
<1>5. /\ after[0] = kept
      /\ \A n \in 1 .. Len(enabled) : after[n] = Linked(after[n - 1], docs, d, row, enabled[n])
  BY <1>2, LinkedByEach
<1> HIDE DEF after
<1>6. LostAt = {}
  <2> SUFFICES ASSUME LostAt # {} PROVE FALSE
    OBVIOUS
  <2>1. PICK n \in LostAt : \A m \in LostAt : n <= m
    <3> HIDE DEF LostAt
    <3>1. LostAt \subseteq Nat
      BY DEF LostAt
    <3> QED BY <3>1, SmallestExists
  <2>2. n \in 1 .. Len(enabled) /\ n - 1 \in 0 .. Len(enabled) /\ n - 1 \notin LostAt
    BY <1>2, <1>3, <1>5, <2>1
  <2>3. PairsOf(after[n - 1], DOMAIN docs, Owners)
    BY <2>2
  <2>4. PairsOf(after[n], DOMAIN docs, Owners)
    BY <1>2, <1>5, <2>2, <2>3, LinkedIsPairs
  <2> QED BY <2>1, <2>4
<1>7. Len(enabled) \in 0 .. Len(enabled) /\ Len(enabled) \notin LostAt
  BY <1>2, <1>6
<1> QED BY <1>4, <1>7

\* A transaction that reconciles commits relations, those it did not see as well.
LEMMA ReconcileIsPairs ==
    ASSUME Tree, FieldsKnown, NEW docs, NEW d \in DOMAIN docs, NEW row,
           PairsOf(relation, DOMAIN docs, Owners), Reconcile(docs, d, row)
    PROVE  PairsOf(relation', DOMAIN docs, Owners)
<1>1. PICK unseen \in Unseen(d) : \E hidden \in SUBSET LinksTo(d, unseen) :
          relation' = WithHidden(Reconciled(Restrict(relation, DOMAIN relation \ hidden),
                                      AsSeen(docs, unseen), d, row), hidden)
  BY Zenon DEF Reconcile
<1>2. PICK hidden \in SUBSET LinksTo(d, unseen) :
          relation' = WithHidden(Reconciled(Restrict(relation, DOMAIN relation \ hidden),
                                      AsSeen(docs, unseen), d, row), hidden)
  BY <1>1
<1> DEFINE seen == Restrict(relation, DOMAIN relation \ hidden)
           after == Reconciled(seen, AsSeen(docs, unseen), d, row)
<1>3. hidden \subseteq DOMAIN relation
  BY DEF LinksTo
<1>4. DOMAIN AsSeen(docs, unseen) = DOMAIN docs
  BY DEF AsSeen
<1>5. PairsOf(seen, DOMAIN docs, Owners)
  BY FewerPairs
<1> HIDE DEF seen
<1>6. PairsOf(after, DOMAIN docs, Owners)
  BY <1>4, <1>5, ReconciledIsPairs
<1>7. relation' = [p \in DOMAIN after \cup hidden |-> IF p \in hidden THEN relation[p] ELSE after[p]]
  BY <1>2 DEF WithHidden, seen
<1> HIDE DEF after
<1> QED BY <1>3, <1>6, <1>7 DEF PairsOf

\* Where a field goes, its relations go or come under another field.
LEMMA RelationsStayTyped ==
    ASSUME Shaped, DocsKept, Tree, FieldsKnown, relation \in DocumentRelation, [Next]_vars
    PROVE  (relation \in DocumentRelation)'
<1> DEFINE Typed == PairsOf(relation', Docs', {"user"} \cup DOMAIN field')
<1>1. SUFFICES Typed
  <2>1. Typed <=> relation' \in [{p \in DOMAIN relation' : p \subseteq Docs' /\ Cardinality(p) = 2}
                                 -> {"user"} \cup DOMAIN field']
    BY PairsAreRelations
  <2> QED BY <2>1 DEF DocumentRelation
<1>2. PairsOf(relation, Docs, Owners)
  BY PairsAreRelations DEF DocumentRelation, Owners
<1>3. Docs \subseteq Docs'
  BY DEF DocsKept
<1>4. PairsOf(relation, Docs', Owners)
  BY <1>2, <1>3 DEF PairsOf
<1>5. ASSUME NEW rel, PairsOf(rel, Docs', Owners), relation' = rel, DOMAIN field \subseteq DOMAIN field'
      PROVE  Typed
  BY <1>5 DEF PairsOf, Owners
<1>6. CASE UNCHANGED linkVars
  BY <1>4, <1>5, <1>6 DEF linkVars
<1>7. ASSUME NEW d \in Docs', NEW row, Reconcile(doc', d, row), field' = field
      PROVE  Typed
  <2>1. PairsOf(relation', Docs', Owners)
    BY <1>4, <1>7, ReconcileIsPairs DEF Docs
  <2> QED BY <1>5, <1>7, <2>1
<1>8. ASSUME NEW d \in Docs, NEW values, UpdateDocumentMetadata(d, values) PROVE Typed
  BY <1>3, <1>7, <1>8 DEF UpdateDocumentMetadata
<1>9. ASSUME NEW b, NEW title, NEW f, NEW v, NEW complete, UploadInvoice(b, title, f, v, complete)
      PROVE  Typed
  <2>1. PICK row : doc' = doc \o <<row>>
    BY <1>9 DEF UploadInvoice, Create
  <2>2. DOMAIN doc' = 1 .. Len(doc) + 1 /\ Len(doc) \in Nat
    <3>1. doc \in Seq({doc[d] : d \in Docs} \cup {row}) /\ <<row>> \in Seq({doc[d] : d \in Docs} \cup {row})
      BY DEF Shaped, DocsShaped
    <3>2. Len(doc') = Len(doc) + 1 /\ doc' \in Seq({doc[d] : d \in Docs} \cup {row}) /\ Len(doc) \in Nat
      BY <2>1, <3>1
    <3> QED BY <3>2
  <2>3. Len(doc) + 1 \in Docs'
    BY <2>2 DEF Docs
  <2> QED BY <1>7, <1>9, <2>3 DEF UploadInvoice
<1>10. ASSUME NEW d \in Docs, NEW e \in Docs, AddDocumentRelation(d, e) PROVE Typed
  <2>1. d # e /\ relation' = Related(relation, {{d, e}}, "user") /\ field' = field
    BY <1>10 DEF AddDocumentRelation, Relatable
  <2>2. \A p \in {{d, e}} : p \subseteq Docs' /\ Cardinality(p) = 2
    <3>1. Cardinality({d, e}) = 2
      BY <2>1, TwoAreTwo
    <3>2. {d, e} \subseteq Docs'
      BY <1>3
    <3> QED BY <3>1, <3>2
  <2>3. PairsOf(Related(relation, {{d, e}}, "user"), Docs', Owners)
    BY <1>4, <2>2, MorePairs DEF Owners
  <2> QED BY <1>5, <2>1, <2>3
<1>11. ASSUME NEW d, NEW e, RemoveDocumentRelation(d, e) PROVE Typed
  BY <1>4, <1>5, <1>11, FewerPairs DEF RemoveDocumentRelation
<1>12. ASSUME NEW f, NEW row, CreateDocumentMetadataField(f, row) \/ UpdateDocumentMetadataField(f, row)
       PROVE  Typed
  BY <1>4, <1>5, <1>12 DEF CreateDocumentMetadataField, UpdateDocumentMetadataField, FieldSaved, Upsert
<1>13. ASSUME NEW f, NEW g, DeleteDocumentMetadataField(f, g) PROVE Typed
  <2> DEFINE others == {p \in DOMAIN relation : relation[p] # f}
  <2>1. relation' = [p \in others |-> relation[p]]
        /\ field' = [h \in DOMAIN field \ {f} |-> field[h]]
    BY <1>13, Zenon DEF DeleteDocumentMetadataField, Restrict
  <2> QED BY <1>4, <2>1 DEF PairsOf, Owners
<1>14. ASSUME NEW j \in Jobs, NEW titled, NEW found, OcrSucceeds(j, titled, found) PROVE Typed
  <2>1. /\ field' = field
        /\ \/ relation' = relation
           \/ /\ OcrRowExists(j)
              /\ \E row : Reconcile(doc', ocr[j].doc, row)
    BY <1>14 DEF OcrSucceeds
  <2>2. OcrRowExists(j) => ocr[j].doc \in Docs'
    BY <1>3 DEF OcrRowExists, Exists
  <2> QED BY <1>4, <1>5, <1>7, <2>1, <2>2
<1>15. ASSUME NEW w, ReconcileNext(w) PROVE Typed
  <2>1. /\ field' = field /\ doc' = doc
        /\ \/ relation' = relation
           \/ \E d, row : Exists(d) /\ relation' = Reconciled(relation, doc, d, row)
    BY <1>15 DEF ReconcileNext, docVars
  <2>2. \A d, row : Exists(d) => PairsOf(Reconciled(relation, doc, d, row), Docs', Owners)
    BY <1>4, <2>1, ReconciledIsPairs DEF Docs, Exists
  <2> QED BY <1>4, <1>5, <2>1, <2>2
<1>16. ASSUME RelationsLeft PROVE Typed
  BY <1>4, <1>5, <1>16, FewerPairs DEF RelationsLeft
<1> HIDE DEF Typed
<1> QED BY <1>6, <1>8, <1>9, <1>10, <1>11, <1>12, <1>13, <1>14, <1>15, <1>16, OnlyTheseTouchLinks

-----------------------------------------------------------------------------
(***************************************************************************)
(* Jobs of boxes have worked on documents, and end with one.               *)
(***************************************************************************)

JobStates == {"queued", "running", "completed", "failed"}

BoxJobRows ==
    [kind : {"link", "layout"}, box : DOMAIN box, below : BOOLEAN, status : JobStates,
     last : Nat, max : {0} \cup Docs, done : SUBSET Docs]

\* A batch is of documents, too.
BoxJobsTyped ==
    /\ \A j \in DOMAIN boxjob : boxjob[j] \in BoxJobRows
    /\ \A w \in JobWorkers : worker[w].pc # "idle" => Ids(worker[w].todo) \subseteq Docs

\* What writes jobs and workers.
LEMMA BoxJobsAreWritten ==
    ASSUME [Next]_vars
    PROVE  \/ UNCHANGED boxJobVars
           \/ \E kind \in {"link", "layout"}, b \in Known, below \in BOOLEAN :
                 CreateBoxJob(kind, b, below)
           \/ \E w \in JobWorkers : \/ \E j \in DOMAIN boxjob : ClaimBoxJob(w, j)
                                    \/ ReconcileNext(w) \/ SkipLayout(w) \/ StartLayout(w)
                                    \/ \E found : EndLayout(w, found)
                                    \/ SaveCursor(w) \/ EndBatch(w) \/ WorkerDies(w)
           \/ \E j \in DOMAIN boxjob : \/ ResumeBoxJob(j)
                                       \/ \E killed : CancelLayout(j, killed)
BY ZenonT(60)
   DEF Next, DocumentsNext, TitleRulesNext, LinksNext, NoticesNext, OcrNext, BoxJobsNext,
       ExportsNext, AccountsNext, vars, boxJobVars, Elsewhere, DocumentsOnly, RulesOnly, LinksOnly, OcrOnly,
       BoxJobsOnly, NoticesOnly, ExportsOnly, AccountsOnly

\* A job goes on.
LEMMA BoxJobIs ==
    ASSUME NEW row \in BoxJobRows
    PROVE  /\ row.last \in Nat /\ row.max \in {0} \cup Docs /\ row.done \subseteq Docs
           /\ row.kind \in {"link", "layout"}
           /\ \A status \in JobStates : [row EXCEPT !.status = status] \in BoxJobRows
           /\ \A last \in Nat : [row EXCEPT !.last = last] \in BoxJobRows
           /\ \A done \in SUBSET Docs : [row EXCEPT !.done = done] \in BoxJobRows
           /\ \A status \in JobStates, done \in SUBSET Docs :
                 [row EXCEPT !.status = status, !.done = done] \in BoxJobRows
           /\ \A status \in JobStates, last \in Nat :
                 [row EXCEPT !.status = status, !.last = last] \in BoxJobRows
<1> USE DEF BoxJobRows
<1>1. /\ row.last \in Nat /\ row.max \in {0} \cup Docs /\ row.done \subseteq Docs
      /\ row.kind \in {"link", "layout"}
  OBVIOUS
<1>2. ASSUME NEW status \in JobStates PROVE [row EXCEPT !.status = status] \in BoxJobRows
  OBVIOUS
<1>3. ASSUME NEW last \in Nat PROVE [row EXCEPT !.last = last] \in BoxJobRows
  OBVIOUS
<1>4. ASSUME NEW done \in SUBSET Docs PROVE [row EXCEPT !.done = done] \in BoxJobRows
  OBVIOUS
<1>5. ASSUME NEW status \in JobStates, NEW done \in SUBSET Docs
      PROVE  [row EXCEPT !.status = status, !.done = done] \in BoxJobRows
  OBVIOUS
<1>6. ASSUME NEW status \in JobStates, NEW last \in Nat
      PROVE  [row EXCEPT !.status = status, !.last = last] \in BoxJobRows
  OBVIOUS
<1> HIDE DEF BoxJobRows
<1> QED BY <1>1, <1>2, <1>3, <1>4, <1>5, <1>6

\* A job changes, a worker, or both.
LEMMA OneBoxJobTyped ==
    ASSUME Shaped, DocsKept, BoxJobsTyped, [Next]_vars,
           \A j \in DOMAIN boxjob' : boxjob'[j] \in BoxJobRows,
           \A w \in JobWorkers : worker'[w].pc # "idle" => Ids(worker'[w].todo) \subseteq Docs
    PROVE  BoxJobsTyped'
<1>1. Docs \subseteq Docs' /\ DOMAIN box \subseteq DOMAIN box'
  BY BoxesStay DEF DocsKept
<1>2. BoxJobRows \subseteq BoxJobRows'
  BY <1>1 DEF BoxJobRows
<1>3. \A w \in JobWorkers : Ids(worker[w].todo)' = Ids(worker'[w].todo)
  BY DEF Ids
<1> QED BY <1>1, <1>2, <1>3 DEF BoxJobsTyped

\* A worker works on its batch, and moves a cursor to one of it.
LEMMA BoxJobsStayTyped ==
    ASSUME Shaped, DocsKept, Honest, BoxJobsTyped, [Next]_vars
    PROVE  BoxJobsTyped'
<1> DEFINE EachTyped == \A j \in DOMAIN boxjob' : boxjob'[j] \in BoxJobRows
           HandsTyped == \A w \in JobWorkers : worker'[w].pc # "idle" => Ids(worker'[w].todo) \subseteq Docs
<1>1. SUFFICES EachTyped /\ HandsTyped
  BY OneBoxJobTyped
<1>2. /\ DOMAIN worker = JobWorkers
      /\ Docs = 1 .. Len(doc) /\ Len(doc) \in Nat
      /\ \A w \in JobWorkers :
            /\ DOMAIN worker[w] = {"pc", "job", "last", "todo", "ocr", "empty"}
            /\ worker[w].pc # "idle" => /\ worker[w].job \in DOMAIN boxjob
                                        /\ BatchHonest(worker[w], boxjob[worker[w].job])
                                        /\ Ids(worker[w].todo) \subseteq Docs
      /\ \A j \in DOMAIN boxjob : boxjob[j] \in BoxJobRows
      /\ IdleWorker.pc = "idle"
  BY DEF Shaped, BoxJobsShaped, WorkerShaped, Honest, DocsShaped, Docs, BoxJobsTyped, IdleWorker
<1>3. boxjob' = boxjob => EachTyped
  BY <1>2
<1>4. worker' = worker => HandsTyped
  BY <1>2
<1>5. ASSUME NEW j \in DOMAIN boxjob, NEW row \in BoxJobRows, boxjob' = [boxjob EXCEPT ![j] = row]
      PROVE  EachTyped
  BY <1>2, <1>5
<1>6. ASSUME NEW w \in JobWorkers, NEW hand, worker' = [worker EXCEPT ![w] = hand],
             hand.pc # "idle" => Ids(hand.todo) \subseteq Docs
      PROVE  HandsTyped
  <2>1. \A v \in JobWorkers : worker'[v] = IF v = w THEN hand ELSE worker[v]
    BY <1>2, <1>6
  <2> QED BY <1>2, <1>6, <2>1
<1>7. ASSUME NEW kind \in {"link", "layout"}, NEW b \in Known, NEW below \in BOOLEAN,
             CreateBoxJob(kind, b, below)
      PROVE  EachTyped /\ HandsTyped
  <2> DEFINE row == NewBoxJob(kind, b, below)
             T == {boxjob[j] : j \in DOMAIN boxjob} \cup {row}
  <2>1. boxjob' = Append(boxjob, row) /\ worker' = worker
    BY <1>7 DEF CreateBoxJob
  <2>2. row \in BoxJobRows
    <3>1. row.max \in {0} \cup Docs
      BY LastInBox DEF Shaped
    <3>2. \A max \in {0} \cup Docs :
             [kind |-> kind, box |-> b, below |-> below, status |-> "queued", last |-> 0,
              max |-> max, done |-> {}] \in BoxJobRows
      BY DEF BoxJobRows, JobStates, Known
    <3>3. PICK max : row = [kind |-> kind, box |-> b, below |-> below, status |-> "queued", last |-> 0,
                            max |-> max, done |-> {}]
      BY DEF NewBoxJob
    <3> HIDE DEF row
    <3>4. row.max = max
      BY <3>3
    <3> QED BY <3>1, <3>2, <3>3, <3>4
  <2>3. boxjob \in Seq(T) /\ row \in T
    BY DEF Shaped, BoxJobsShaped
  <2> HIDE DEF row, T
  <2>4. /\ Len(boxjob') = Len(boxjob) + 1 /\ boxjob' \in Seq(T)
        /\ Len(boxjob) \in Nat /\ DOMAIN boxjob = 1 .. Len(boxjob)
        /\ \A j \in 1 .. Len(boxjob) : boxjob'[j] = boxjob[j]
        /\ boxjob'[Len(boxjob) + 1] = row
    BY <2>1, <2>3, AppendProperties
  <2>5. DOMAIN boxjob' = 1 .. Len(boxjob) + 1
    BY <2>4
  <2>6. EachTyped
    BY <1>2, <2>2, <2>4, <2>5
  <2> QED BY <1>4, <2>1, <2>6
<1>8. ASSUME NEW w \in JobWorkers, NEW j \in DOMAIN boxjob, ClaimBoxJob(w, j)
      PROVE  EachTyped /\ HandsTyped
  <2>1. CASE UNCHANGED <<boxjob, worker>>
    BY <1>3, <1>4, <2>1
  <2>2. CASE ~ UNCHANGED <<boxjob, worker>>
    <3> DEFINE batch == Batch(j)
               passed == Passed(j)
               Seen(d) == [id |-> d, row |-> doc[d], layout |-> HasLayout(d)]
               todo == {Seen(d) : d \in batch}
               hand == [IdleWorker EXCEPT !.pc = "batch", !.job = j, !.last = boxjob[j].last,
                                          !.todo = todo, !.empty = batch = {}]
    <3>1. /\ boxjob' = [boxjob EXCEPT ![j].status = "running", ![j].done = @ \cup passed]
          /\ worker' = [worker EXCEPT ![w] = hand]
      BY <1>8, <2>2, Zenon DEF ClaimBoxJob
    <3>2. boxjob[j] \in BoxJobRows
      BY <1>2
    <3>3. /\ boxjob[j].last \in Nat /\ boxjob[j].max \in {0} \cup Docs /\ boxjob[j].done \subseteq Docs
      BY <3>2, BoxJobIs
    <3>4. passed \subseteq Docs
      BY <1>2, <3>3 DEF Passed
    <3>5. Ids(todo) \subseteq Docs
      <4>1. batch \subseteq Docs
        BY DEF Batch, Remaining, InBox
      <4>2. \A d \in batch : Seen(d).id = d
        OBVIOUS
      <4> HIDE DEF batch, Seen
      <4> QED BY <4>1, <4>2 DEF Ids
    <3>6. hand.todo = todo
      BY DEF IdleWorker
    <3> HIDE DEF passed, todo, hand, batch
    <3> DEFINE row == [boxjob[j] EXCEPT !.status = "running", !.done = boxjob[j].done \cup passed]
    <3>7. boxjob' = [boxjob EXCEPT ![j] = row]
      BY <3>1
    <3>8. "running" \in JobStates /\ boxjob[j].done \cup passed \in SUBSET Docs
      BY <3>3, <3>4 DEF JobStates
    <3>9. row \in BoxJobRows
      BY <3>2, <3>8, BoxJobIs
    <3> HIDE DEF row
    <3> QED BY <1>5, <1>6, <3>1, <3>5, <3>6, <3>7, <3>9
  <2> QED BY <2>1, <2>2
\* The next document is worked on.
<1>9. ASSUME NEW w \in JobWorkers, worker[w].pc # "idle", worker[w].todo # {}, Worked(w)
      PROVE  EachTyped /\ HandsTyped
  <2> DEFINE j == worker[w].job
             n == NextDocument(w).id
             hand == [worker[w] EXCEPT !.pc = "worked"]
  <2>1. j \in DOMAIN boxjob /\ boxjob[j] \in BoxJobRows /\ Ids(worker[w].todo) \subseteq Docs
    BY <1>2, <1>9
  <2>2. n \in Docs
    <3>1. NextDocument(w) \in worker[w].todo
      BY <1>2, <1>9, NextIsFirst DEF BatchHonest
    <3> QED BY <2>1, <3>1 DEF Ids
  <2>3. boxjob[j].done \cup {n} \in SUBSET Docs
    BY <2>1, <2>2, BoxJobIs
  <2> DEFINE row == [boxjob[j] EXCEPT !.done = boxjob[j].done \cup {n}]
  <2>4. /\ boxjob' = [boxjob EXCEPT ![j] = row] /\ worker' = [worker EXCEPT ![w] = hand]
        /\ hand.todo = worker[w].todo
    BY <1>2, <1>9, <2>1 DEF Worked
  <2>5. row \in BoxJobRows
    <3> HIDE DEF n, j
    <3> QED BY <2>1, <2>3, BoxJobIs
  <2> HIDE DEF row, hand, j
  <2> QED BY <1>5, <1>6, <2>1, <2>4, <2>5
<1>10. ASSUME NEW w \in JobWorkers, \/ ReconcileNext(w) \/ SkipLayout(w)
                                   \/ \E found : EndLayout(w, found)
       PROVE  EachTyped /\ HandsTyped
  <2>1. worker[w].pc # "idle" /\ Worked(w)
    BY <1>10 DEF ReconcileNext, SkipLayout, EndLayout
  <2>2. worker[w].todo # {}
    BY <1>2, <1>10 DEF ReconcileNext, SkipLayout, EndLayout, BatchHonest
  <2> QED BY <1>9, <2>1, <2>2
<1>11. ASSUME NEW w \in JobWorkers, StartLayout(w) PROVE EachTyped /\ HandsTyped
  <2> DEFINE hand == [worker[w] EXCEPT !.pc = "layout", !.ocr = Len(ocr) + 1]
  <2>1. worker' = [worker EXCEPT ![w] = hand] /\ boxjob' = boxjob /\ worker[w].pc # "idle"
    BY <1>11 DEF StartLayout
  <2>2. hand.todo = worker[w].todo
    BY <1>2
  <2> HIDE DEF hand
  <2> QED BY <1>2, <1>3, <1>6, <2>1, <2>2
<1>12. ASSUME NEW w \in JobWorkers, SaveCursor(w) PROVE EachTyped /\ HandsTyped
  <2> DEFINE j == worker[w].job
             next == NextDocument(w)
             row == [boxjob[j] EXCEPT !.last = next.id]
             hand == [worker[w] EXCEPT !.pc = "batch", !.last = next.id,
                                       !.todo = @ \ {next}, !.ocr = 0]
  <2>1. /\ j \in DOMAIN boxjob /\ boxjob[j] \in BoxJobRows /\ BatchHonest(worker[w], boxjob[j])
        /\ worker[w].pc = "worked" /\ Ids(worker[w].todo) \subseteq Docs
    BY <1>2, <1>12 DEF SaveCursor
  <2>2. next.id \in Nat
    <3>1. next \in worker[w].todo
      BY <2>1, NextIsFirst DEF BatchHonest
    <3> QED BY <2>1, <3>1 DEF BatchHonest, Ids
  <2>3. /\ boxjob' = [boxjob EXCEPT ![j] = row] /\ worker' = [worker EXCEPT ![w] = hand]
        /\ hand.todo = worker[w].todo \ {next}
    BY <1>2, <1>12, <2>1 DEF SaveCursor, CursorAfter
  <2>4. row \in BoxJobRows
    <3> HIDE DEF next, j
    <3> QED BY <2>1, <2>2, BoxJobIs
  <2> HIDE DEF row, hand, j, next
  <2>5. Ids(hand.todo) \subseteq Docs
    BY <2>1, <2>3 DEF Ids
  <2> QED BY <1>5, <1>6, <2>1, <2>3, <2>4, <2>5
<1>13. ASSUME NEW w \in JobWorkers, EndBatch(w) PROVE EachTyped /\ HandsTyped
  <2> DEFINE j == worker[w].job
             last == IF worker[w].empty /\ boxjob[j].kind = "layout" THEN boxjob[j].max
                     ELSE worker[w].last
             status == IF last < boxjob[j].max THEN "queued" ELSE "completed"
             cursor == IF last = worker[w].last THEN boxjob[j].last ELSE last
             row == [boxjob[j] EXCEPT !.status = status, !.last = cursor]
  <2>1. /\ j \in DOMAIN boxjob /\ boxjob[j] \in BoxJobRows /\ BatchHonest(worker[w], boxjob[j])
    BY <1>2, <1>13 DEF EndBatch
  <2>2. boxjob' = [boxjob EXCEPT ![j] = row] /\ worker' = [worker EXCEPT ![w] = IdleWorker]
    <3>1. /\ boxjob' = [boxjob EXCEPT ![j].status = IF last < boxjob[j].max THEN "queued" ELSE "completed",
                                      ![j].last = IF last = worker[w].last THEN @ ELSE last]
          /\ worker' = [worker EXCEPT ![w] = IdleWorker]
      BY <1>13, Zenon DEF EndBatch
    <3> HIDE DEF last
    <3> QED BY <2>1, <3>1
  <2>3. boxjob[j].last \in Nat /\ boxjob[j].max \in Nat
    <3>1. boxjob[j].last \in Nat /\ boxjob[j].max \in {0} \cup Docs
      BY <2>1, BoxJobIs
    <3> QED BY <1>2, <3>1
  <2>4. cursor \in Nat /\ status \in JobStates
    BY <2>1, <2>3 DEF BatchHonest, JobStates
  <2>5. row \in BoxJobRows
    <3> HIDE DEF cursor, status, j
    <3> QED BY <2>1, <2>4, BoxJobIs
  <2> HIDE DEF row, j
  <2> QED BY <1>2, <1>5, <1>6, <2>1, <2>2, <2>5
<1>14. ASSUME NEW w \in JobWorkers, WorkerDies(w) PROVE EachTyped /\ HandsTyped
  BY <1>2, <1>3, <1>6, <1>14 DEF WorkerDies
<1>15. ASSUME NEW j \in DOMAIN boxjob, NEW status \in JobStates,
              boxjob' = [boxjob EXCEPT ![j].status = status]
       PROVE  EachTyped
  <2>1. [boxjob[j] EXCEPT !.status = status] \in BoxJobRows
    BY <1>2, <1>15, BoxJobIs
  <2> QED BY <1>5, <1>15, <2>1
<1>16. ASSUME NEW j \in DOMAIN boxjob, ResumeBoxJob(j) PROVE EachTyped /\ HandsTyped
  BY <1>4, <1>15, <1>16 DEF ResumeBoxJob, JobStates
<1>17. ASSUME NEW j \in DOMAIN boxjob, NEW killed, CancelLayout(j, killed)
       PROVE  EachTyped /\ HandsTyped
  <2>1. HandsTyped
    BY <1>2, <1>17 DEF CancelLayout
  <2> QED BY <1>15, <1>17, <2>1 DEF CancelLayout, JobStates
<1> HIDE DEF EachTyped, HandsTyped
<1> QED BY <1>3, <1>4, <1>7, <1>8, <1>10, <1>11, <1>12, <1>13, <1>14, <1>16, <1>17,
           BoxJobsAreWritten DEF boxJobVars

-----------------------------------------------------------------------------
(***************************************************************************)
(* Exports are of documents, which have their originals.                   *)
(***************************************************************************)

\* A document that is there has its original.
OriginalsThere == \A d \in Docs : Exists(d) => Original(d) \in DOMAIN file

\* Only an emptied box takes rows of files away, ...
LEMMA FileRowsStay ==
    ASSUME [Next]_vars
    PROVE  \/ \E b : EmptyDocumentSpace(b)
           \/ DOMAIN file \subseteq DOMAIN file'
<1>1. CASE SameFiles
  BY <1>1 DEF SameFiles
<1>2. CASE CreatesDocs
  <2>1. ASSUME NEW docs, NEW rows, Create(docs, rows) PROVE DOMAIN file \subseteq DOMAIN file'
    BY <2>1 DEF Create
  <2>2. \E docs, rows : Create(docs, rows)
    BY <1>2 DEF CreatesDocs, UploadDocument, ImportIntoBox, SplitDocument, MergeDocuments,
                UploadInvoice
  <2> QED BY <2>1, <2>2
<1>3. ASSUME NEW keys, DeleteStorageKeys(keys) \/ PurgeLost(keys) PROVE file' = file
  BY <1>3 DEF DeleteStorageKeys, PurgeLost
<1>4. ASSUME NEW w, OptimizerGoes(w) PROVE DOMAIN file \subseteq DOMAIN file'
  BY <1>4 DEF OptimizerGoes, OptimizeOne, SaveOptimized, ReplaceStorage, DeleteOldKey, OptimizerDies
<1>5. ASSUME NEW j, NEW titled, NEW found, OcrSucceeds(j, titled, found) PROVE file' = file
  BY <1>5 DEF OcrSucceeds
<1>6. ASSUME NEW w, NEW found, EndLayout(w, found) PROVE file' = file
  BY <1>6 DEF EndLayout
<1>7. ASSUME NEW d, StartOfficeConversion(d) \/ \E later : StartUnsent(d, later) PROVE file' = file
  BY <1>7 DEF StartOfficeConversion, StartUnsent
<1>8. ASSUME NEW d, ConversionGoesOn(d) PROVE DOMAIN file \subseteq DOMAIN file'
  BY <1>8 DEF ConversionGoesOn, RunOfficeConversion, SaveDerivative, StoreDerivative,
              ConversionSucceeds, ConversionFails, CancelConversion, docVars, Upsert
<1>9. CASE DocumentsNext
  BY <1>1, <1>2, <1>3, <1>4, <1>9, RequestsTouchFiles
<1>10. CASE OcrNext
  BY <1>1, <1>5, <1>7, <1>8, <1>10, OcrTouchesFiles
<1>11. CASE ~ DocumentsNext /\ ~ OcrNext
  <2>1. \/ TitleRulesNext \/ LinksNext \/ NoticesNext \/ BoxJobsNext \/ ExportsNext
        \/ AccountsNext \/ UNCHANGED vars
    BY <1>11 DEF Next
  <2> QED BY <1>1, <1>2, <1>6, <2>1, OthersTouchFiles
<1> QED BY <1>9, <1>10, <1>11

\* ... and with it the documents.
LEMMA OriginalsStay ==
    ASSUME Shaped, DocsKept, OriginalsThere, [Next]_vars
    PROVE  OriginalsThere'
<1>1. CASE CreatesDocs
  <2>1. FilesCreated
    BY <1>1, FilesComeWithDocs DEF Shaped, CreatedWell
  <2>2. DOMAIN file \subseteq DOMAIN file' /\ \A d \in Docs' \ Docs : Original(d) \in DOMAIN file'
    BY <2>1 DEF FilesCreated, Original
  <2>3. \A d \in Docs : ~ Exists(d) => ~ Exists(d)'
    BY ExistenceKept
  <2> QED BY <2>2, <2>3 DEF OriginalsThere, Original
<1>2. CASE ~ CreatesDocs
  <2>1. DOMAIN doc' = DOMAIN doc
    <3>1. \/ UNCHANGED doc
          \/ \E b, target : DeleteDocumentSpace(b, target)
          \/ \E b : EmptyDocumentSpace(b)
          \/ \E d \in Docs : DeleteDocument(d) \/ Annotate(d)
          \/ \E d \in Docs : \E b, retitled : UpdateDocumentCoreMetadata(d, b, retitled)
          \/ \E d \in Docs : \E values : UpdateDocumentMetadata(d, values)
          \/ \E f, g : DeleteDocumentMetadataField(f, g)
          \/ \E j \in Jobs : \E titled, found : OcrSucceeds(j, titled, found)
          \/ \E w \in JobWorkers : \E found : EndLayout(w, found)
      BY <1>2, OnlyTheseTouchDocs DEF CreatesDocs
    <3>2. ASSUME NEW d, NEW values, UpdateDocumentMetadata(d, values) PROVE DOMAIN doc' = DOMAIN doc
      BY <3>2 DEF UpdateDocumentMetadata, Saved
    <3>3. ASSUME NEW j, NEW titled, NEW found, OcrSucceeds(j, titled, found)
          PROVE  DOMAIN doc' = DOMAIN doc
      BY <3>3 DEF OcrSucceeds
    <3>4. ASSUME NEW f, NEW g, DeleteDocumentMetadataField(f, g) PROVE DOMAIN doc' = DOMAIN doc
      BY <3>4 DEF DeleteDocumentMetadataField, Migrated, Docs
    <3>5. ASSUME NEW w, NEW found, EndLayout(w, found) PROVE DOMAIN doc' = DOMAIN doc
      BY <3>5 DEF EndLayout
    <3>6. ASSUME NEW b, NEW target, DeleteDocumentSpace(b, target) PROVE DOMAIN doc' = DOMAIN doc
      BY <3>6 DEF DeleteDocumentSpace, MovedTo, DeletedIn, Docs
    <3> QED BY <3>1, <3>2, <3>3, <3>4, <3>5, <3>6
            DEF EmptyDocumentSpace, Emptied, DeleteDocument, DocumentsDeleted, DeletedIn, Annotate,
                UpdateDocumentCoreMetadata, CoreSaved, Docs
  <2>2. \A d \in Docs' : d \in Docs /\ (Exists(d)' => Exists(d))
    BY <2>1, ExistenceKept DEF Docs
  <2>3. ASSUME NEW b, EmptyDocumentSpace(b) PROVE OriginalsThere'
    <3> DEFINE inside == {d \in Docs : Exists(d) /\ doc[d].box = b}
    <3>1. /\ doc' = Emptied(inside)
          /\ DOMAIN file' = {q \in DOMAIN file : q[1] \notin inside}
      BY <2>3 DEF EmptyDocumentSpace
    <3>2. \A d \in inside : ~ Exists(d)'
      <4>1. \A d \in inside : doc'[d].status = "purged"
        <5> HIDE DEF inside
        <5>1. inside \subseteq Docs /\ \A d \in Docs : "status" \in DOMAIN doc[d]
          BY DEF inside, Shaped, DocsShaped, RowShaped
        <5> QED BY <3>1, <5>1 DEF Emptied, Docs
      <4> QED BY <4>1 DEF Exists
    <3> HIDE DEF inside
    <3> QED BY <2>2, <3>1, <3>2 DEF OriginalsThere, Original
  <2>4. CASE DOMAIN file \subseteq DOMAIN file'
    BY <2>2, <2>4 DEF OriginalsThere, Original
  <2> QED BY <2>3, <2>4, FileRowsStay
<1> QED BY <1>1, <1>2

\* The first documents have theirs.
LEMMA OriginalsAtFirst == ASSUME Init PROVE OriginalsThere
BY DEF Init, DocumentsInit, OriginalsThere, Original

\* What a run of some documents has read, and what has become of them.
Todos(docs) == UNION {[t -> Nat] : t \in SUBSET docs}
Items(docs) == UNION {[i -> {"exported", "skipped", "missing"}] : i \in SUBSET docs}

RunStates == {"processing", "completed", "failed"}
RunSteps == {"queued", "packing", "done"}

RunRows(docs, ds) ==
    [status : RunStates, docs : {docs}, only : BOOLEAN, step : RunSteps, todo : Todos(docs),
     items : Items(docs), archive : SUBSET ds, zip : SUBSET ds]

\* Runs are of some documents.
RunsTyped == \A r \in DOMAIN run : \E docs \in SUBSET Docs : run[r] \in RunRows(docs, Docs)

\* Such rows are runs.
LEMMA TypedAreRuns ==
    ASSUME NEW r \in DOMAIN run, NEW docs \in SUBSET Docs, run[r] \in RunRows(docs, Docs)
    PROVE  run[r] \in ExportRun(r)
<1> DEFINE row == run[r]
           T == (DOMAIN row.todo) \cap row.docs
           I == (DOMAIN row.items) \cap row.docs
<1>1. row.docs = docs /\ row.todo \in Todos(docs) /\ row.items \in Items(docs)
  BY DEF RunRows
<1>2. row.todo \in [T -> Nat] /\ row.items \in [I -> {"exported", "skipped", "missing"}]
  <2> HIDE DEF row
  <2>1. T = DOMAIN row.todo /\ I = DOMAIN row.items
    BY <1>1 DEF Todos, Items
  <2> HIDE DEF T, I
  <2> QED BY <1>1, <2>1 DEF Todos, Items
<1>3. ExportRun(r) = [status : {"processing", "completed", "failed"}, docs : SUBSET Docs, only : BOOLEAN,
                      step : {"queued", "packing", "done"},
                      todo : [T -> Nat], items : [I -> {"exported", "skipped", "missing"}],
                      archive : SUBSET Docs, zip : SUBSET Docs]
  BY DEF ExportRun
<1>4. row \in RunRows(docs, Docs)
  OBVIOUS
<1> HIDE DEF row, T, I
<1>5. row \in [status : {"processing", "completed", "failed"}, docs : SUBSET Docs, only : BOOLEAN,
               step : {"queued", "packing", "done"},
               todo : [T -> Nat], items : [I -> {"exported", "skipped", "missing"}],
               archive : SUBSET Docs, zip : SUBSET Docs]
  BY <1>2, <1>4 DEF RunRows, RunStates, RunSteps
<1> QED BY <1>3, <1>5 DEF row

\* What a row has.
LEMMA RunHas ==
    ASSUME NEW docs, NEW ds, NEW row \in RunRows(docs, ds)
    PROVE  /\ row.docs = docs /\ row.archive \in SUBSET ds /\ row.step \in RunSteps
           /\ \E t \in SUBSET docs : row.todo \in [t -> Nat]
           /\ \E i \in SUBSET docs : row.items \in [i -> {"exported", "skipped", "missing"}]
<1>1. /\ row.docs = docs /\ row.archive \in SUBSET ds /\ row.step \in RunSteps
      /\ row.todo \in Todos(docs) /\ row.items \in Items(docs)
  BY DEF RunRows
<1> QED BY <1>1 DEF Todos, Items

\* A run goes on.
LEMMA RunGoes ==
    ASSUME NEW docs, NEW ds, NEW row \in RunRows(docs, ds)
    PROVE  /\ \A step \in RunSteps : [row EXCEPT !.step = step] \in RunRows(docs, ds)
           /\ \A step \in RunSteps, todo \in Todos(docs) :
                 [row EXCEPT !.step = step, !.todo = todo] \in RunRows(docs, ds)
           /\ \A step \in RunSteps, status \in RunStates :
                 /\ [row EXCEPT !.step = step, !.status = status] \in RunRows(docs, ds)
                 /\ [row EXCEPT !.status = status, !.step = step] \in RunRows(docs, ds)
           /\ \A step \in RunSteps, status \in RunStates, zip \in SUBSET ds :
                 [row EXCEPT !.step = step, !.status = status, !.zip = zip] \in RunRows(docs, ds)
           /\ \A todo \in Todos(docs), items \in Items(docs), archive \in SUBSET ds :
                 [row EXCEPT !.todo = todo, !.items = items, !.archive = archive] \in RunRows(docs, ds)
           /\ \A items \in Items(docs) : [row EXCEPT !.items = items] \in RunRows(docs, ds)
<1> USE DEF RunRows
<1>2. ASSUME NEW step \in RunSteps PROVE [row EXCEPT !.step = step] \in RunRows(docs, ds)
  OBVIOUS
<1>3. ASSUME NEW step \in RunSteps, NEW todo \in Todos(docs)
      PROVE  [row EXCEPT !.step = step, !.todo = todo] \in RunRows(docs, ds)
  OBVIOUS
<1>4. ASSUME NEW step \in RunSteps, NEW status \in RunStates
      PROVE  [row EXCEPT !.step = step, !.status = status] \in RunRows(docs, ds)
  OBVIOUS
<1>5. ASSUME NEW step \in RunSteps, NEW status \in RunStates
      PROVE  [row EXCEPT !.status = status, !.step = step] \in RunRows(docs, ds)
  OBVIOUS
<1>6. ASSUME NEW step \in RunSteps, NEW status \in RunStates, NEW zip \in SUBSET ds
      PROVE  [row EXCEPT !.step = step, !.status = status, !.zip = zip] \in RunRows(docs, ds)
  OBVIOUS
<1>7. ASSUME NEW todo \in Todos(docs), NEW items \in Items(docs), NEW archive \in SUBSET ds
      PROVE  [row EXCEPT !.todo = todo, !.items = items, !.archive = archive] \in RunRows(docs, ds)
  OBVIOUS
<1>8. ASSUME NEW items \in Items(docs) PROVE [row EXCEPT !.items = items] \in RunRows(docs, ds)
  OBVIOUS
<1> HIDE DEF RunRows
<1> QED BY <1>2, <1>3, <1>4, <1>5, <1>6, <1>7, <1>8

\* What writes runs.
LEMMA RunsAreWritten ==
    ASSUME [Next]_vars
    PROVE  \/ UNCHANGED run
           \/ \E b, below : \E only \in BOOLEAN : CreateExport(b, below, only)
           \/ \E r \in DOMAIN run :
                 \/ StartExport(r)
                 \/ \E d \in Docs : PackDocument(r, d)
                 \/ FinishExport(r) \/ ExportFails(r) \/ ExportDies(r)
                 \/ \E killed : CancelExport(r, killed)
           \/ ItemsLeft
BY DEF Next, DocumentsNext, TitleRulesNext, LinksNext, NoticesNext, OcrNext, BoxJobsNext,
       ExportsNext, AccountsNext, vars, exportVars, Elsewhere, DocumentsOnly, RulesOnly, LinksOnly, OcrOnly,
       BoxJobsOnly, NoticesOnly, AccountsOnly

\* A run reads originals of its documents, and packs what it has read.
LEMMA RunsStayTyped ==
    ASSUME DocsKept, FilesKnown, OriginalsThere, RunsKept, RunsTyped, [Next]_vars
    PROVE  RunsTyped'
<1> DEFINE Typed == \A r \in DOMAIN run' : \E docs \in SUBSET Docs : run'[r] \in RunRows(docs, Docs)
<1>1. SUFFICES Typed
  <2>1. Docs \subseteq Docs'
    BY DEF DocsKept
  <2>2. \A docs : RunRows(docs, Docs) \subseteq RunRows(docs, Docs')
    BY <2>1 DEF RunRows
  <2>3. RunsTyped' <=> \A r \in DOMAIN run' : \E docs \in SUBSET Docs' : run'[r] \in RunRows(docs, Docs')
    BY DEF RunsTyped, RunRows, Todos, Items
  <2> QED BY <2>1, <2>2, <2>3
<1>2. run \in Seq(Runs) /\ \A r \in DOMAIN run : \E docs \in SUBSET Docs : run[r] \in RunRows(docs, Docs)
  BY DEF RunsKept, RunsTyped
<1>3. CASE UNCHANGED run
  BY <1>2, <1>3
<1>4. ASSUME NEW b, NEW below, NEW only \in BOOLEAN, CreateExport(b, below, only) PROVE Typed
  <2> DEFINE docs == Exportable(b, below, only)
             row == NewRun(docs, only)
             all == Runs \cup {row}
  <2>1. run' = Append(run, row)
    BY <1>4 DEF CreateExport
  <2>2. docs \in SUBSET Docs
    BY DEF Exportable, InBox
  <2> HIDE DEF docs
  <2>3. << >> \in Todos(docs) /\ << >> \in Items(docs)
    <3>1. << >> \in [{} -> Nat] /\ << >> \in [{} -> {"exported", "skipped", "missing"}]
      OBVIOUS
    <3>2. {} \in SUBSET docs
      OBVIOUS
    <3> QED BY <3>1, <3>2 DEF Todos, Items
  <2>4. row \in RunRows(docs, Docs)
    BY <2>3 DEF NewRun, RunRows, RunStates, RunSteps
  <2>5. run \in Seq(all) /\ row \in all
    BY <1>2
  <2> HIDE DEF row, all
  <2>6. /\ run' \in Seq(all) /\ Len(run') = Len(run) + 1 /\ Len(run) \in Nat
        /\ DOMAIN run = 1 .. Len(run) /\ run'[Len(run) + 1] = row
        /\ \A s \in 1 .. Len(run) : run'[s] = run[s]
    BY <2>1, <2>5, AppendProperties
  <2>7. DOMAIN run' = 1 .. Len(run) + 1
    BY <2>6
  <2> QED BY <1>2, <2>2, <2>4, <2>6, <2>7
\* A run goes on.
<1>5. ASSUME NEW r \in DOMAIN run, NEW row, NEW docs \in SUBSET Docs, row \in RunRows(docs, Docs),
             run' = [run EXCEPT ![r] = row]
      PROVE  Typed
  BY <1>2, <1>5
<1>6. ASSUME NEW r \in DOMAIN run, StartExport(r) PROVE Typed
  <2>1. PICK docs \in SUBSET Docs : run[r] \in RunRows(docs, Docs)
    BY <1>2
  <2> DEFINE todo == [d \in {e \in docs : Exists(e)} |-> file[<<d, "original">>]]
             row == IF run[r].status = "failed"
                    THEN [run[r] EXCEPT !.step = "done"]
                    ELSE [run[r] EXCEPT !.step = "packing", !.todo = todo]
  <2>2. run' = [run EXCEPT ![r] = row]
    <3>1. run[r].docs = docs
      BY <2>1, RunHas
    <3> QED BY <1>6, <3>1 DEF StartExport
  <2>3. todo \in Todos(docs)
    <3>1. \A d : Exists(d) => file[<<d, "original">>] \in Nat
      BY DEF OriginalsThere, FilesKnown, Original, Exists
    <3>2. todo \in [{e \in docs : Exists(e)} -> Nat]
      BY <3>1
    <3>3. {e \in docs : Exists(e)} \in SUBSET docs
      OBVIOUS
    <3> HIDE DEF todo
    <3> QED BY <3>2, <3>3 DEF Todos
  <2> HIDE DEF todo
  <2>4. row \in RunRows(docs, Docs)
    BY <2>1, <2>3, RunGoes DEF RunSteps
  <2> HIDE DEF row
  <2> QED BY <1>5, <2>2, <2>4
<1>7. ASSUME NEW r \in DOMAIN run, NEW d \in Docs, PackDocument(r, d) PROVE Typed
  <2>1. PICK docs \in SUBSET Docs : run[r] \in RunRows(docs, Docs)
    BY <1>2
  <2>2. CASE ~ Exists(d)
    <3> DEFINE row == [run[r] EXCEPT !.step = "done", !.status = "failed"]
    <3>1. run' = [run EXCEPT ![r] = row]
      BY <1>7, <2>2 DEF PackDocument
    <3>2. row \in RunRows(docs, Docs)
      BY <2>1, RunGoes DEF RunSteps, RunStates
    <3> HIDE DEF row
    <3> QED BY <1>5, <3>1, <3>2
  <2>3. CASE Exists(d)
    <3> DEFINE outcome == Outcome(r, d)
               todo == Restrict(run[r].todo, DOMAIN run[r].todo \ {d})
               items == Upsert(run[r].items, d, outcome)
               archive == IF outcome = "exported" THEN run[r].archive \cup {d} ELSE run[r].archive
               row == [run[r] EXCEPT !.todo = todo, !.items = items, !.archive = archive]
    <3>1. run' = [run EXCEPT ![r] = row] /\ d \in DOMAIN run[r].todo
      BY <1>7, <2>3 DEF PackDocument
    <3>2. outcome \in {"exported", "skipped", "missing"}
      BY DEF Outcome
    <3> HIDE DEF outcome
    <3>3. PICK t \in SUBSET docs : run[r].todo \in [t -> Nat]
      BY <2>1, RunHas
    <3>4. PICK i \in SUBSET docs : run[r].items \in [i -> {"exported", "skipped", "missing"}]
      BY <2>1, RunHas
    <3>5. todo \in [t \ {d} -> Nat] /\ items \in [i \cup {d} -> {"exported", "skipped", "missing"}]
      BY <3>2, <3>3, <3>4 DEF Upsert, Restrict
    <3>6. t \ {d} \in SUBSET docs /\ i \cup {d} \in SUBSET docs
      BY <3>1, <3>3
    <3>7. archive \in SUBSET Docs
      BY <2>1, RunHas
    <3> HIDE DEF todo, items, archive
    <3>8. todo \in Todos(docs) /\ items \in Items(docs)
      BY <3>5, <3>6 DEF Todos, Items
    <3>9. row \in RunRows(docs, Docs)
      BY <2>1, <3>7, <3>8, RunGoes
    <3> HIDE DEF row
    <3> QED BY <1>5, <3>1, <3>9
  <2> QED BY <2>2, <2>3
<1>8. ASSUME NEW r \in DOMAIN run, FinishExport(r) PROVE Typed
  <2>1. PICK docs \in SUBSET Docs : run[r] \in RunRows(docs, Docs)
    BY <1>2
  <2> DEFINE row == [run[r] EXCEPT !.step = "done", !.status = "completed", !.zip = run[r].archive]
  <2>2. run' = [run EXCEPT ![r] = row]
    BY <1>8 DEF FinishExport
  <2>3. row \in RunRows(docs, Docs)
    <3>1. run[r].archive \in SUBSET Docs /\ "done" \in RunSteps /\ "completed" \in RunStates
      BY <2>1, RunHas DEF RunSteps, RunStates
    <3> QED BY <2>1, <3>1, RunGoes
  <2> HIDE DEF row
  <2> QED BY <1>5, <2>2, <2>3
<1>9. ASSUME NEW r \in DOMAIN run, ExportFails(r) \/ ExportDies(r) \/ \E killed : CancelExport(r, killed)
      PROVE  Typed
  <2>1. PICK docs \in SUBSET Docs : run[r] \in RunRows(docs, Docs)
    BY <1>2
  <2>2. run[r].step \in RunSteps /\ "done" \in RunSteps /\ "failed" \in RunStates
    BY <2>1, RunHas DEF RunSteps, RunStates
  <2>3. CASE ExportFails(r)
    <3> DEFINE row == [run[r] EXCEPT !.step = "done", !.status = "failed"]
    <3>1. run' = [run EXCEPT ![r] = row]
      BY <2>3 DEF ExportFails
    <3>2. row \in RunRows(docs, Docs)
      BY <2>1, <2>2, RunGoes
    <3> HIDE DEF row
    <3> QED BY <1>5, <3>1, <3>2
  <2>4. CASE ExportDies(r)
    <3> DEFINE row == [run[r] EXCEPT !.step = "done"]
    <3>1. run' = [run EXCEPT ![r] = row]
      BY <2>4 DEF ExportDies
    <3>2. row \in RunRows(docs, Docs)
      BY <2>1, <2>2, RunGoes
    <3> HIDE DEF row
    <3> QED BY <1>5, <3>1, <3>2
  <2>5. ASSUME NEW killed, CancelExport(r, killed) PROVE Typed
    <3> DEFINE step == IF killed THEN "done" ELSE run[r].step
               row == [run[r] EXCEPT !.status = "failed", !.step = step]
    <3>1. run' = [run EXCEPT ![r] = row]
      BY <2>5 DEF CancelExport
    <3>2. step \in RunSteps
      BY <2>2
    <3> HIDE DEF step
    <3>3. row \in RunRows(docs, Docs)
      BY <2>1, <2>2, <3>2, RunGoes
    <3> HIDE DEF row
    <3> QED BY <1>5, <3>1, <3>3
  <2> QED BY <1>9, <2>3, <2>4, <2>5
<1>10. CASE ItemsLeft
  <2> DEFINE items(r) == [d \in {e \in DOMAIN run[r].items : doc'[e].status # "purged"} |-> run[r].items[d]]
  <2>1. run' = [r \in DOMAIN run |-> [run[r] EXCEPT !.items = items(r)]]
    BY <1>10 DEF ItemsLeft
  <2>2. ASSUME NEW r \in DOMAIN run
        PROVE  \E docs \in SUBSET Docs : [run[r] EXCEPT !.items = items(r)] \in RunRows(docs, Docs)
    <3>1. PICK docs \in SUBSET Docs : run[r] \in RunRows(docs, Docs)
      BY <1>2
    <3>2. PICK i \in SUBSET docs : run[r].items \in [i -> {"exported", "skipped", "missing"}]
      BY <3>1, RunHas
    <3>3. /\ items(r) \in [{e \in i : doc'[e].status # "purged"} -> {"exported", "skipped", "missing"}]
          /\ {e \in i : doc'[e].status # "purged"} \in SUBSET docs
      BY <3>2
    <3> HIDE DEF items
    <3>4. items(r) \in Items(docs)
      BY <3>3 DEF Items
    <3>5. [run[r] EXCEPT !.items = items(r)] \in RunRows(docs, Docs)
      BY <3>1, <3>4, RunGoes
    <3> QED BY <3>5
  <2> HIDE DEF items
  <2> QED BY <2>1, <2>2
<1> HIDE DEF Typed
<1> QED BY <1>3, <1>4, <1>6, <1>7, <1>8, <1>9, <1>10, RunsAreWritten

-----------------------------------------------------------------------------
(***************************************************************************)
(* All rows.                                                               *)
(***************************************************************************)

\* What all this rests on.
Founded ==
    /\ Shaped /\ Tree /\ FilesFit /\ FieldsKnown /\ Counted /\ RebuildShaped /\ Honest
    /\ OriginalsThere

RowsTyped ==
    /\ RulesTyped /\ FieldsTyped /\ AccountsTyped /\ NoticesTyped /\ DocsTyped /\ OcrTyped
    /\ ConversionTyped /\ BoxJobsTyped /\ RunsTyped
    /\ relation \in DocumentRelation

\* It holds at first, ...
LEMMA FoundedAtFirst == ASSUME Init PROVE Founded
<1>1. Counted
  BY DEF Init, DocumentsInit, Counted
<1>2. RebuildShaped
  BY DEF Init, NoticesInit, RebuildShaped, NotRebuilding
<1>3. Honest
  BY DEF Init, BoxJobsInit, Honest, IdleWorker
<1> QED BY <1>1, <1>2, <1>3, ShapedAtFirst, TreeAtFirst, FilesFitAtFirst, FieldsKnownAtFirst,
           OriginalsAtFirst DEF Founded

\* ... and with every step.
LEMMA FoundedStays ==
    ASSUME Founded, [Next]_vars
    PROVE  Founded' /\ DocsKept
BY StaysShaped, TreeStays, FilesStayFit, FieldsStayKnown, CountedStays, RebuildStaysShaped,
   StaysHonest, OriginalsStay DEF Founded

\* The first documents are of their kind, ...
LEMMA DocsTypedAtFirst == ASSUME Init PROVE DocsTyped /\ \A d \in Docs : doc[d].rev \in Nat
<1> DEFINE FirstRows == [status : {"active", "deleted"}, box : DOMAIN FirstBoxes,
                         type : {"pdf", "office"}, title : {"manual", "filename", "ocr", "einvoice"},
                         meta : [ToSet(Fields) -> Values], rev : {0}]
<1>1. doc \in Seq(FirstRows) /\ DOMAIN box = DOMAIN FirstBoxes
  BY LinksAssumption DEF LinksAssumption, Init, DocumentsInit
<1>2. \A row \in FirstRows : row \in Document /\ row.rev \in Nat
  BY <1>1 DEF Document
<1> HIDE DEF FirstRows
<1>3. \A d \in Docs : doc[d] \in FirstRows
  BY <1>1 DEF Docs
<1> QED BY <1>2, <1>3 DEF DocsTyped

\* ... and so is everything else that there is at first.
LEMMA RowsTypedAtFirst == ASSUME Init PROVE RowsTyped
<1>1. bound \in Bounds /\ DOMAIN box = DOMAIN FirstBoxes /\ doc = bound.first
  BY DEF Init, DocumentsInit
<1>2. rule = << >> /\ relation = << >> /\ ocr = << >> /\ conversion = << >> /\ run = << >>
  BY DEF Init, RulesInit, LinksInit, OcrInit, ExportsInit
<1>3. DOMAIN rule = {} /\ DOMAIN ocr = {} /\ DOMAIN conversion = {} /\ DOMAIN run = {}
  BY <1>2
<1>4. RulesTyped /\ OcrTyped /\ ConversionTyped /\ RunsTyped
  BY <1>3 DEF RulesTyped, OcrTyped, ConversionTyped, RunsTyped, Jobs
<1>5. relation \in DocumentRelation
  <2>1. relation \in [{p \in DOMAIN relation : p \subseteq Docs /\ Cardinality(p) = 2} -> Owners]
    BY <1>2, PairsAreRelations DEF PairsOf
  <2> QED BY <2>1 DEF DocumentRelation, Owners
<1>6. FieldsTyped
  <2>1. field = bound.fields
    BY DEF Init, LinksInit
  <2> QED BY <1>1, <2>1, LinksAssumption DEF LinksAssumption, FieldsTyped, DocumentMetadataField
<1>7. BoxJobsTyped
  BY DEF Init, BoxJobsInit, BoxJobsTyped, IdleWorker
<1>8. AccountsTyped
  <2>1. member = bound.members /\ role = bound.roles
    BY DEF Init, AccountsInit
  <2>2. \A m \in DOMAIN member : member[m] \in TenantMembership
    BY <1>1, <2>1, AccountsAssumption DEF AccountsAssumption, TenantMembership
  <2>3. \A r \in DOMAIN role : role[r] \in TenantRole
    <3>1. Docs = DOMAIN bound.first
      BY <1>1 DEF Docs
    <3> QED BY <1>1, <2>1, <3>1, AccountsAssumption DEF AccountsAssumption, TenantRole
  <2> QED BY <2>2, <2>3 DEF AccountsTyped
<1>9. NoticesTyped
  <2>1. /\ index = [d \in Docs |-> [rev |-> doc[d].rev, raced |-> FALSE]]
        /\ rebuild = [p \in Indexers |-> NotRebuilding]
        /\ alarm = bound.alarms /\ match = {} /\ reminder = << >>
    BY DEF Init, NoticesInit
  <2>2. \A a \in DOMAIN alarm : alarm[a] \in DocumentAlarm
    BY <1>1, <2>1, NoticesAssumption DEF NoticesAssumption, DocumentAlarm
  <2>3. \A d \in DOMAIN index : index[d] \in DocumentSearchIndex
    BY <2>1, DocsTypedAtFirst DEF DocumentSearchIndex
  <2>4. \A p \in Indexers : HandTyped(rebuild[p])
    BY <2>1 DEF HandTyped, NotRebuilding
  <2>5. DOMAIN reminder = {} /\ DOMAIN index = Docs
    BY <2>1
  <2> QED BY <2>1, <2>2, <2>3, <2>4, <2>5 DEF NoticesTyped
<1> QED BY <1>4, <1>5, <1>6, <1>7, <1>8, <1>9, DocsTypedAtFirst DEF RowsTyped

\* With what is proved of rules, main roles and runs, rows stay of their kind.
LEMMA RowsStayTyped ==
    ASSUME Founded, RowsTyped, RulesApart, RulesApart', MainRolesFit, RunsKept, [Next]_vars
    PROVE  RowsTyped'
<1> USE DEF Founded, RowsTyped
<1>1. DocsKept /\ Founded'
  BY FoundedStays
<1> HIDE DEF Founded
<1>2. RulesTyped' /\ FieldsTyped' /\ AccountsTyped' /\ ConversionTyped'
  BY <1>1, RulesStayTyped, FieldsStayTyped, AccountsStayTyped, ConversionsStayTyped DEF Founded
<1>3. OcrTyped'
  BY <1>1, OcrStaysTyped DEF Founded
<1>4. DocsTyped'
  <2>1. \A j \in Jobs : ocr[j].seen \subseteq Document
    BY OcrJobIs DEF OcrTyped
  <2> QED BY <1>1, <2>1, DocsStayTyped DEF Founded
<1>5. NoticesTyped'
  <2>1. \A d \in Docs : doc[d].rev \in Nat
    BY DocumentIs DEF DocsTyped
  <2> QED BY <1>1, <2>1, NoticesStayTyped DEF Founded
<1>6. (relation \in DocumentRelation)'
  BY <1>1, RelationsStayTyped DEF Founded
<1>7. BoxJobsTyped'
  BY <1>1, BoxJobsStayTyped DEF Founded
<1>8. RunsTyped'
  BY <1>1, RunsStayTyped DEF Founded, FilesFit
<1> QED BY <1>2, <1>3, <1>4, <1>5, <1>6, <1>7, <1>8

\* Together this is the type invariant of Office.
LEMMA TypedIsTypeOK == Founded /\ RowsTyped => TypeOK
<1> SUFFICES ASSUME Founded, RowsTyped PROVE TypeOK
  OBVIOUS
<1>1. \A b \in Known : box[b] \in DocumentSpace
  BY DEF Founded, Tree, TreeShaped, Known
<1>2. DOMAIN file \subseteq DocumentFile
  BY DEF Founded, FilesFit, FilesKnown
<1>3. /\ \A d \in Docs : doc[d] \in Document
      /\ \A n \in DOMAIN rule : rule[n] \in DocumentTitleRule
      /\ \A f \in DOMAIN field : field[f] \in DocumentMetadataField
      /\ relation \in DocumentRelation
      /\ \A j \in Jobs : ocr[j] \in OcrJob
      /\ \A d \in DOMAIN conversion : conversion[d] \in DocumentOfficeConversionJob
  BY DEF RowsTyped, DocsTyped, RulesTyped, FieldsTyped, OcrTyped, ConversionTyped
<1>4. /\ DOMAIN index \cup DOMAIN reminder \subseteq Docs
      /\ \A d \in DOMAIN index : index[d] \in DocumentSearchIndex
      /\ \A d \in DOMAIN reminder : reminder[d] \in DocumentReminder
      /\ \A a \in DOMAIN alarm : alarm[a] \in DocumentAlarm
      /\ match \subseteq DocumentAlarmMatch
  BY DEF RowsTyped, NoticesTyped
<1>5. \A j \in DOMAIN boxjob : boxjob[j] \in DocumentBoxMetadataLinkJob \cup DocumentBoxOcrLayoutJob
  <2>1. \A d \in Docs : d \in Nat
    BY DEF Founded, Shaped, DocsShaped, Docs
  <2>2. \A row \in BoxJobRows : row.kind \in {"link", "layout"} /\ row \in JobRow(row.kind)
    <3> SUFFICES ASSUME NEW row \in BoxJobRows
                 PROVE  row.kind \in {"link", "layout"} /\ row \in JobRow(row.kind)
      OBVIOUS
    <3>1. /\ row.kind \in {"link", "layout"} /\ row.status \in JobStates
          /\ row.box \in DOMAIN box /\ row.below \in BOOLEAN /\ row.last \in Nat
          /\ (row.max = 0 \/ row.max \in Docs) /\ row.done \in SUBSET Docs
      BY DEF BoxJobRows
    <3>2. row.max \in Nat
      <4>1. row.max = 0 \/ row.max \in Docs
        BY <3>1
      <4> QED BY <2>1, <4>1
    <3>3. row = [kind |-> row.kind, box |-> row.box, below |-> row.below, status |-> row.status,
                 last |-> row.last, max |-> row.max, done |-> row.done]
      BY DEF BoxJobRows
    <3> HIDE DEF BoxJobRows
    <3> QED BY <3>1, <3>2, <3>3 DEF JobRow, JobStates
  <2> QED
    BY <2>2 DEF RowsTyped, BoxJobsTyped, DocumentBoxMetadataLinkJob, DocumentBoxOcrLayoutJob
<1>6. \A r \in DOMAIN run : run[r] \in ExportRun(r)
  BY TypedAreRuns DEF RowsTyped, RunsTyped
<1>7. /\ \A m \in DOMAIN member : member[m] \in TenantMembership
      /\ \A r \in DOMAIN role : role[r] \in TenantRole
  BY DEF RowsTyped, AccountsTyped
<1> QED BY <1>1, <1>2, <1>3, <1>4, <1>5, <1>6, <1>7 DEF TypeOK

\* Whatever requests, callbacks, workers and periodic tasks do, in any order and
\* whoever dies: every row is of its kind and refers to rows there are.
\* Relations are of two documents and made by a person or a field there is; jobs
\* have read rows that are whole; runs have read and packed only what they are
\* of; members have roles there are; and a match goes with its alarm, whichever
\* process is still trying that alarm.
THEOREM OfficeTypeCorrect == Spec => []TypeOK
<1>1. Init => Founded /\ RowsTyped
  BY FoundedAtFirst, RowsTypedAtFirst
<1>2. Founded /\ RowsTyped /\ RulesApart /\ RulesApart' /\ MainRolesFit /\ RunsKept /\ [Next]_vars
      => Founded' /\ RowsTyped'
  BY FoundedStays, RowsStayTyped
<1> QED BY <1>1, <1>2, RulesStayApart, MainRolesStayFit, RunsStayKept, TypedIsTypeOK, PTL DEF Spec

=============================================================================

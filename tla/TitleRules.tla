----------------------------- MODULE TitleRules -----------------------------
(***************************************************************************)
(* The rules for titles: which box has which rule, and which rule holds    *)
(* for a new document and for documents whose titles are refreshed.        *)
(*                                                                         *)
(* Of a strategy with its fallbacks counts where it takes titles from: the *)
(* data of an electronic invoice, the text, both, or neither.              *)
(***************************************************************************)
EXTENDS Documents

CONSTANT Sources \* what strategies take titles from

ASSUME SourcesAssumption == Sources \subseteq SUBSET {"invoice", "text"}

VARIABLE rule \* the rule rows in the order of their ids

DocumentTitleRule == [default : BOOLEAN, boxes : SUBSET DOMAIN box, from : Sources]

\* The strategy without any rule is AUTOMATIC: invoices, and else the text.
Automatic == {"invoice", "text"}

\* Error: a rule that is edited may take the boxes of others.
UsedUnlessEdited(n) ==
    IF n \in DOMAIN rule THEN {} ELSE UNION {rule[m].boxes : m \in DOMAIN rule}

\* boxes that have another rule than the n-th: the form does not offer them,
\* and refuses them
UsedElsewhere(n) == UNION {rule[m].boxes : m \in DOMAIN rule \ {n}}

\* What the form accepts: a rule without boxes is the tenant's default, of
\* which there is one.
RuleValid(n, boxes) ==
    /\ \A b \in boxes : Usable(b) /\ b \notin UsedElsewhere(n)
    /\ boxes = {} => \A m \in DOMAIN rule \ {n} : ~ rule[m].default

\* The form replaces the boxes of the rule: those that are not offered since
\* somebody made them inactive leave it.
RuleSaved(boxes, from) == [default |-> boxes = {}, boxes |-> boxes, from |-> from]

CreateTitleRule(boxes, from) ==
    /\ Request("rules")
    /\ RuleValid(0, boxes)
    /\ rule' = Append(rule, RuleSaved(boxes, from))
    /\ UNCHANGED <<box, doc, file, blob, optimize, purge, pending, bound>>

EditTitleRule(n, boxes, from) ==
    /\ Request("rules")
    /\ RuleValid(n, boxes)
    /\ rule' = [rule EXCEPT ![n] = RuleSaved(boxes, from)]
    /\ UNCHANGED <<box, doc, file, blob, optimize, purge, pending, bound>>

DeleteTitleRule(n) ==
    /\ Request("rules")
    /\ rule' = RemoveAt(rule, n)
    /\ UNCHANGED <<box, doc, file, blob, optimize, purge, pending, bound>>

Defaults == {n \in DOMAIN rule : rule[n].default}
RulesOf(b) == {n \in DOMAIN rule : b \in rule[n].boxes}

\* resolve_document_title_policy, for a new invoice and for a new OCR job: the
\* first rule of the box, or else the default
TitlePolicy(b) ==
    LET own == RulesOf(b)
        rules == IF own # {} THEN own ELSE Defaults
    IN  IF rules = {} THEN Automatic ELSE rule[Min(rules)].from

\* CreateDocumentBoxTitleRefreshJob, for the snapshot of a job: a dictionary
\* by boxes, in which a later rule replaces an earlier one
RefreshPolicy(b) ==
    LET own == RulesOf(b)
    IN  IF own # {} THEN rule[Max(own)].from
        ELSE IF Defaults # {} THEN rule[Min(Defaults)].from
        ELSE Automatic

RulesInit == rule = << >>

(***************************************************************************)
(* Properties.                                                             *)
(***************************************************************************)

\* A document gets the title by the same rule when it is new and when the
\* titles of its box are refreshed, which resolve the rules differently:
\* however rules are edited, and boxes made inactive, deleted and made active
\* again with a rule, no box has two.
TitlesAgree == \A b \in DOMAIN box : TitlePolicy(b) = RefreshPolicy(b)

=============================================================================

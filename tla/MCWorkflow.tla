----------------------------- MODULE MCWorkflow -----------------------------
(***************************************************************************)
(* Instances of Workflow for TLC: an automatic template of the box "in"    *)
(* with three steps, and a manual one for every box whose first step waits *)
(* for a related document and whose second asks that it was reviewed.      *)
(***************************************************************************)
EXTENDS Workflow, TLC

MCBoxes == {"in", "paid"}
MCTemplates == {"review", "match"}
MCAuto == {"review"}
MCSpaces == [t \in MCTemplates |-> IF t = "review" THEN {"in"} ELSE {}]

StepRow(t, k, done) == [template |-> t, kind |-> k, boxes |-> {}, done |-> done, min |-> 1]

MCSteps == 1..5
MCConfig == <<StepRow("review", "task", FALSE), StepRow("review", "metadata", FALSE),
              StepRow("review", "task", FALSE), StepRow("match", "relation", FALSE),
              StepRow("match", "relation", TRUE)>>
Distinct == <<10, 20, 30, 10, 20>>
Tied == <<10, 20, 20, 10, 20>>
EditOrders == {10, 25}

None == [docs |-> 1, changes |-> 2, edits |-> 0, failures |-> 0]

\* two documents whose callbacks run late; two, or one that is moved twice, of
\* which a callback is lost; one and an administrator
MCBounds == {[None EXCEPT !.docs = 2],
             [None EXCEPT !.docs = 2, !.changes = 1, !.failures = 1],
             [None EXCEPT !.failures = 1],
             [None EXCEPT !.changes = 1, !.edits = 2]}
OneDocument == {None}

Symmetric == Permutations(Docs)

=============================================================================

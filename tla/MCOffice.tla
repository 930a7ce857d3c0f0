------------------------------ MODULE MCOffice ------------------------------
(***************************************************************************)
(* Instances of Office for TLC.  The bounds make a sum of situations, each *)
(* small, in which different parts of the program meet: two boxes, one in  *)
(* the other, and a few documents in them.                                 *)
(***************************************************************************)
EXTENDS Office

\* The workers of each kind are interchangeable, and the same model values.
MCSymmetry == Permutations(JobWorkers)

MCFirstBoxes == (1 :> <<"1">>) @@ (2 :> <<"1", "2">>)
MCFields == <<"f1", "f2", "f3">>
MCValues == {"", "x", "y"}
MCRoles == <<"r1", "r2">>
MCSources == {{"invoice", "text"}, {}}

Meta(v, w) == ("f1" :> v) @@ ("f2" :> w) @@ ("f3" :> "")
MCFound == {Meta("", ""), Meta("x", "y")}

Plain(b) == NewDocument(b, "pdf", "filename", Meta("", ""))
With(b, v, w) == NewDocument(b, "pdf", "filename", Meta(v, w))

Linking(b, slug, auto) ==
    [box |-> b, slug |-> slug, propagate |-> TRUE, auto |-> auto, active |-> TRUE]
TwoFields == ("f1" :> Linking(1, "f1", TRUE)) @@ ("f2" :> Linking(2, "f2", TRUE))
SharedSlug == ("f1" :> [Linking(1, "f1", TRUE) EXCEPT !.propagate = FALSE])
              @@ ("f2" :> Linking(2, "f1", TRUE)) @@ ("f3" :> Linking(1, "f3", FALSE))
MCFieldRows == {Linking(1, "f1", TRUE), Linking(1, "f2", TRUE),
                [Linking(1, "f1", FALSE) EXCEPT !.propagate = FALSE]}

Alarm(b, word) == [active |-> TRUE, box |-> b, below |-> TRUE, word |-> word]
TwoAlarms == ("a1" :> Alarm(1, 0)) @@ ("a2" :> [Alarm(0, 1) EXCEPT !.below = FALSE])
MCAlarmRows == {Alarm(2, 0), [Alarm(0, 0) EXCEPT !.active = FALSE]}

RoleOf(boxes, all) == [see |-> TRUE, all |-> all, boxes |-> boxes, active |-> TRUE,
                       system |-> FALSE, sup |-> {}]
MCRoleRows == {RoleOf({1}, FALSE), [RoleOf({}, TRUE) EXCEPT !.active = FALSE]}

None == [first |-> <<Plain(2)>>, fields |-> << >>, alarms |-> << >>,
         members |-> << >>, roles |-> << >>,
         docs |-> 1, keys |-> 1, requests |-> 1, failures |-> 0, does |-> {}]

TreeBounds == [None EXCEPT !.requests = 3, !.does = {"boxes", "remove"}]
FileBounds == [None EXCEPT !.docs = 2, !.keys = 3, !.requests = 3,
                           !.does = {"scan", "empty", "delete", "upload"}]
FileLossBounds == [FileBounds EXCEPT !.docs = 1, !.failures = 1]
LinkBounds == [None EXCEPT !.first = <<With(2, "x", ""), With(2, "", ""), With(1, "x", "")>>,
                           !.fields = TwoFields, !.docs = 4, !.requests = 3,
                           !.does = {"metadata", "relate", "fields", "empty", "core", "upload"}]
OverlapBounds == [None EXCEPT !.first = <<With(2, "x", ""), With(2, "", "x"), With(1, "x", "")>>,
                              !.fields = TwoFields, !.docs = 4, !.requests = 2,
                              !.does = {"metadata", "overlap", "upload", "fields", "relate"}]
SharedBounds == [None EXCEPT !.first = <<With(1, "x", ""), With(1, "x", "")>>, !.docs = 2,
                             !.fields = SharedSlug, !.requests = 3,
                             !.does = {"metadata", "core", "fields"}]
NoticeBounds == [None EXCEPT !.alarms = TwoAlarms, !.docs = 2, !.requests = 2,
                             !.does = {"index", "upload", "import", "annotate", "core", "delete"}]
SplitBounds == [NoticeBounds EXCEPT !.first = <<Plain(2), Plain(2)>>, !.docs = 4,
                                    !.alarms = ("a1" :> Alarm(1, 0)),
                                    !.does = {"index", "split", "core"}]
AlarmBounds == [None EXCEPT !.alarms = TwoAlarms, !.docs = 2, !.requests = 2, !.failures = 1,
                            !.does = {"index", "import", "annotate", "alarms", "empty"}]
CallbackBounds == [None EXCEPT !.alarms = ("a1" :> Alarm(1, 0)), !.docs = 3, !.requests = 2,
                               !.failures = 1, !.does = {"index", "split", "annotate", "empty"}]
UnsentBounds == [CallbackBounds EXCEPT !.docs = 2,
                                       !.does = {"index", "recognize", "upload", "empty"}]
SearchBounds == [None EXCEPT !.fields = TwoFields, !.requests = 3,
                             !.does = {"index", "ocr", "metadata"}]
ReminderBounds == [None EXCEPT !.first = <<Plain(1), Plain(2)>>, !.docs = 2, !.requests = 4,
                               !.failures = 1, !.does = {"remind", "delete"}]
OcrBounds == [None EXCEPT !.first = <<With(2, "", ""), With(1, "", "")>>, !.fields = TwoFields,
                          !.docs = 2, !.requests = 3,
                          !.does = {"ocr", "recognize", "metadata", "core", "cancel"}]
OfficeBounds == [None EXCEPT !.docs = 2, !.requests = 3,
                             !.does = {"recognize", "upload", "ocr", "cancel", "empty"}]
OfficeLossBounds == [OfficeBounds EXCEPT !.requests = 2, !.failures = 1]
LinkJobBounds == [None EXCEPT !.first = <<With(2, "x", ""), With(2, "x", ""), With(1, "", "")>>,
                              !.fields = TwoFields, !.docs = 3, !.requests = 2, !.failures = 1,
                              !.does = {"link", "resume", "metadata", "core", "relate"}]
LayoutBounds == [None EXCEPT !.first = <<Plain(2), Plain(2)>>, !.docs = 2, !.requests = 2,
                             !.does = {"layout", "resume", "cancel", "delete"}]
LayoutLossBounds == [LayoutBounds EXCEPT !.first = <<Plain(2)>>, !.docs = 1, !.failures = 1]
ExportBounds == [None EXCEPT !.first = <<Plain(1), Plain(2)>>, !.docs = 2, !.requests = 3,
                             !.does = {"export", "cancel", "empty"}]
ExportLossBounds == [ExportBounds EXCEPT !.requests = 2, !.failures = 1]
ReplacedBounds == [None EXCEPT !.keys = 2, !.requests = 2, !.does = {"export", "scan"}]
RuleBounds == [None EXCEPT !.requests = 4, !.does = {"rules", "boxes"}]
TitleBounds == [None EXCEPT !.fields = ("f1" :> Linking(1, "f1", FALSE)), !.docs = 2, !.requests = 2,
                            !.does = {"rules", "upload", "ocr", "recognize"}]
AccountBounds == [None EXCEPT !.first = <<Plain(1), Plain(2)>>, !.docs = 2, !.requests = 4,
                              !.roles = ("r1" :> [RoleOf({2}, FALSE) EXCEPT !.sup = {1}]),
                              !.members = ("m" :> [active |-> TRUE, role |-> "r1",
                                                   roles |-> {"r1"}]),
                              !.does = {"accounts", "core", "boxes"}]

MCBounds == {TreeBounds, FileBounds, FileLossBounds, LinkBounds, OverlapBounds, SharedBounds, NoticeBounds, SplitBounds,
             AlarmBounds, CallbackBounds, UnsentBounds, SearchBounds, ReminderBounds, OcrBounds, OfficeBounds,
             OfficeLossBounds, LinkJobBounds, LayoutBounds, LayoutLossBounds,
             ExportBounds, ExportLossBounds, ReplacedBounds, RuleBounds, TitleBounds, AccountBounds}

\* a document is recognized, and its box is emptied
EmptyBounds == {[None EXCEPT !.requests = 2, !.does = {"ocr", "empty"}]}

=============================================================================

---------------------------- MODULE IntakeProofs ----------------------------
(***************************************************************************)
(* Theorems about what comes in: no staged file and no mail is lost,       *)
(* however polls, finalizations, discards and assignments overlap, and     *)
(* jobs, items and replies say what has happened.                          *)
(***************************************************************************)
EXTENDS MailImport, FiniteSetTheorems, SequenceTheorems, WellFoundedInduction, TLAPS

-----------------------------------------------------------------------------
(***************************************************************************)
(* The mailbox, the source, and the polls.                                 *)
(***************************************************************************)

SavedSetting ==
    [action : STRING, unprocessable : STRING, search : STRING, checked : BOOLEAN]

\* A poll or request: where it is and what it has read.
IsPoll(q) ==
    q = [pc |-> q.pc, kind |-> q.kind, target |-> q.target, set |-> q.set, view |-> q.view,
         todo |-> q.todo, mail |-> q.mail, left |-> q.left, page |-> q.page, own |-> q.own,
         failed |-> q.failed, reply |-> q.reply, row |-> q.row, aborted |-> q.aborted]

\* Attachments, each a sequence of pages; the page a poll is at is one of them.
Pages == Seq(Files) \ {<<>>}

AtPage(q) == IF q.left = <<>> THEN q.page = 1 ELSE q.page \in 1..Len(Head(q.left))

\* A poll has a mail in hand, or a request its files.
AtMail == {"import", "create", "dispose", "reply", "send"}

PollFits(q) ==
    /\ IsPoll(q)
    /\ q.pc \in {"idle", "next", "close", "write"} \cup AtMail
    /\ q.kind \in {"mail", "http", "upload"}
    /\ q.left \in Seq(Pages) /\ AtPage(q)
    /\ q.pc = "create" => q.left # <<>>
    /\ q.pc \notin {"import", "create"} => q.left = <<>>
    /\ q.kind = "mail" /\ q.pc # "idle" => q.set \in SavedSetting
    /\ q.kind = "mail" /\ q.pc \in AtMail => q.mail \in Mails /\ q.reply \in Replies
    /\ q.kind # "mail" => q.pc \in {"import", "create"} /\ q.mail = 0

Polling ==
    /\ poll = [p \in Polls |-> poll[p]]
    /\ \A p \in Polls : PollFits(poll[p])

Mailing ==
    /\ bound \in Bounds
    /\ mailbox = [present |-> Present, arrived |-> mailbox.arrived, seen |-> mailbox.seen,
                  deleted |-> mailbox.deleted, moved |-> mailbox.moved]
    /\ mailbox.arrived \in 0..bound.mails
    /\ mailbox.deleted \subseteq Present
    /\ Present \subseteq 1..mailbox.arrived
    /\ mailbox.seen \subseteq Mails
    /\ source \in ImportSource

LEMMA MailsAre == /\ Mails = 1..Len(Attached) /\ Len(Attached) \in Nat /\ 0 \notin Mails
                  /\ \A m \in Mails : Attached[m] \in Seq(Pages)
BY MailAssumption DEF MailAssumption, Mails, Pages

LEMMA ArrivedAreMails == Mailing => 1..mailbox.arrived \subseteq Mails
<1> SUFFICES ASSUME Mailing PROVE 1..mailbox.arrived \subseteq Mails
  OBVIOUS
<1>1. bound.mails \in 0..Len(Attached) /\ mailbox.arrived \in 0..bound.mails
  BY MailAssumption DEF MailAssumption, Mailing
<1>2. mailbox.arrived \in Nat /\ mailbox.arrived <= Len(Attached)
  BY <1>1, MailsAre
<1> QED BY <1>2, MailsAre

LEMMA IdleFits == PollFits(NotPolling)
BY DEF PollFits, IsPoll, NotPolling, AtMail, AtPage

\* The attachments of a poll: the first, its pages, and the others.
LEMMA FirstAttachment ==
    ASSUME NEW left \in Seq(Pages)
    PROVE  /\ left # <<>> => Tail(left) \in Seq(Pages) /\ Head(left) \in Pages
           /\ left # <<>> => Len(Head(left)) \in Nat \ {0} /\ 1 \in 1..Len(Head(left))
<1> SUFFICES ASSUME left # <<>>
             PROVE  /\ Tail(left) \in Seq(Pages) /\ Head(left) \in Pages
                    /\ Len(Head(left)) \in Nat \ {0} /\ 1 \in 1..Len(Head(left))
  OBVIOUS
<1>1. Tail(left) \in Seq(Pages) /\ Head(left) \in Pages
  BY HeadTailProperties
<1>2. PICK a : a = Head(left) /\ a \in Seq(Files) /\ a # <<>>
  BY <1>1 DEF Pages
<1>3. Len(a) \in Nat /\ Len(a) # 0
  BY <1>2, EmptySeq, LenProperties
<1> QED BY <1>1, <1>2, <1>3

LEMMA FirstPage ==
    ASSUME NEW q, q.left \in Seq(Pages), q.page = 1
    PROVE  AtPage(q)
BY FirstAttachment DEF AtPage

\* Every page is a content.
LEMMA PageIsFile ==
    ASSUME Polling, NEW p \in Polls, poll[p].left # <<>>
    PROVE  /\ Attachment(p) \in Pages /\ poll[p].page \in DOMAIN Attachment(p)
           /\ File(p) \in Files
<1>1. poll[p].left \in Seq(Pages) /\ poll[p].page \in 1..Len(Head(poll[p].left))
  BY DEF Polling, PollFits, AtPage
<1>2. PICK a : a = Attachment(p) /\ a \in Pages /\ poll[p].page \in 1..Len(a)
  BY <1>1, FirstAttachment DEF Attachment
<1>3. a \in Seq(Files)
  BY <1>2 DEF Pages
<1>4. poll[p].page \in DOMAIN a /\ a[poll[p].page] \in Files
  BY <1>2, <1>3, LenProperties
<1> QED BY <1>2, <1>4 DEF File

LEMMA SavedIs ==
    ASSUME NEW s, s.action \in STRING, s.unprocessable \in STRING, s.search \in STRING,
           NEW c \in BOOLEAN
    PROVE  Saved(s, c) \in SavedSetting
BY DEF Saved, SavedSetting

\* What becomes of one poll, and of what all share, at a step.
PollMoves(p, new) == poll' = [poll EXCEPT ![p] = new] /\ PollFits(new)

LEMMA OnePollMoves ==
    ASSUME Polling, NEW p \in Polls, NEW new, PollMoves(p, new)
    PROVE  Polling'
BY DEF Polling, PollMoves

LEMMA SharedStays ==
    ASSUME Mailing, UNCHANGED <<mailbox, source, bound>>
    PROVE  Mailing'
BY DEF Mailing, Present

LEMMA NextNumberFits ==
    ASSUME NEW q, PollFits(q), q.kind = "mail", q.pc # "idle", q.left = <<>>
    PROVE  PollFits(NextNumber(q)) /\ PollFits(Abort(q))
<1> DEFINE n == NextNumber(q)
           a == Abort(q)
<1>0. q.page = 1
  BY DEF PollFits, AtPage
<1>1. /\ IsPoll(n) /\ n.pc = "next" /\ n.kind = q.kind /\ n.left = <<>> /\ n.set = q.set
      /\ n.page = q.page
  <2> DEFINE t == q.todo \ {Lowest(q.todo)}
  <2>1. n = [q EXCEPT !.pc = "next", !.todo = t, !.left = <<>>, !.failed = FALSE, !.mail = 0, !.row = 0]
    BY DEF NextNumber
  <2> HIDE DEF t, n
  <2> QED BY <2>1 DEF PollFits, IsPoll
<1>2. /\ IsPoll(a) /\ a.pc = "close" /\ a.kind = q.kind /\ a.left = q.left /\ a.set = q.set
      /\ a.page = q.page
  <2>1. a = [q EXCEPT !.pc = "close", !.aborted = TRUE]
    BY DEF Abort
  <2> HIDE DEF a
  <2> QED BY <2>1 DEF PollFits, IsPoll
<1> HIDE DEF n, a
<1>3. PollFits(n)
  BY <1>0, <1>1 DEF PollFits, AtMail, AtPage
<1>4. PollFits(a)
  BY <1>0, <1>2 DEF PollFits, AtMail, AtPage
<1> QED BY <1>3, <1>4 DEF n, a

\* The fields of a poll that has taken a step.
LEMMA FitsAfter ==
    ASSUME NEW q, PollFits(q), q.pc # "idle",
           NEW n, IsPoll(n), AtPage(n), n.left \in Seq(Pages),
           n.kind = q.kind /\ n.set = q.set /\ n.mail = q.mail /\ n.reply = q.reply,
           n.pc \in {"next", "close", "write"} \cup AtMail,
           n.pc = "create" => n.left # <<>>,
           n.pc \notin {"import", "create"} => n.left = <<>>,
           q.kind # "mail" => n.pc \in {"import", "create"},
           n.pc \in AtMail => q.pc \in AtMail
    PROVE  PollFits(n)
BY DEF PollFits, AtMail

\* What a step does to the polls: nothing, or one poll moves on.
LEMMA BeginFits ==
    ASSUME Polling, Mailing, NEW p \in Polls,
           \/ \E forced \in BOOLEAN : BeginPoll(p, forced)
           \/ \E kind \in {"http", "upload"}, t \in bound.targets :
                 \E n \in 1..Cardinality(Files) : \E files \in [1..n -> Files] :
                    BeginRequest(p, kind, t, files)
    PROVE  \E new : PollMoves(p, new)
<1>1. ASSUME NEW forced, BeginPoll(p, forced)
      PROVE  \E new : PollMoves(p, new)
  <2>1. PICK n : /\ poll' = [poll EXCEPT ![p] = n]
                 /\ \E todo : n = [NotPolling EXCEPT !.pc = "next", !.target = source.target,
                                     !.set = source.set, !.view = Present, !.todo = todo]
    BY <1>1 DEF BeginPoll
  <2>2. source.set \in SavedSetting
    BY DEF Mailing, ImportSource, SavedSetting
  <2>3. /\ IsPoll(n) /\ n.pc = "next" /\ n.kind = "mail" /\ n.left = <<>> /\ n.mail = 0
        /\ n.set = source.set /\ n.page = 1
    BY <2>1 DEF IsPoll, NotPolling
  <2>4. PollFits(n)
    BY <2>2, <2>3 DEF PollFits, AtMail, AtPage
  <2> QED BY <2>1, <2>4 DEF PollMoves
<1>2. ASSUME NEW kind \in {"http", "upload"}, NEW t, NEW k \in 1..Cardinality(Files),
             NEW files \in [1..k -> Files], BeginRequest(p, kind, t, files)
      PROVE  \E new : PollMoves(p, new)
  <2>1. PICK n : /\ poll' = [poll EXCEPT ![p] = n]
                 /\ n = [NotPolling EXCEPT !.pc = "import", !.kind = kind, !.target = t,
                                           !.left = IF kind = "http" THEN <<files>>
                                                    ELSE [i \in DOMAIN files |-> <<files[i]>>]]
    BY <1>2 DEF BeginRequest
  <2>2. PICK left : left = IF kind = "http" THEN <<files>> ELSE [i \in DOMAIN files |-> <<files[i]>>]
    OBVIOUS
  <2>3. k \in Nat /\ k # 0 /\ DOMAIN files = 1..k
    BY FS_CardinalityType, BatchAssumption DEF BatchAssumption
  <2>4. left \in Seq(Pages)
    <3>1. CASE kind = "http"
      <4>1. files \in Seq(Files) /\ files # <<>>
        BY <2>3
      <4> QED BY <2>2, <3>1, <4>1 DEF Pages
    <3>2. CASE kind # "http"
      <4>1. left = [i \in 1..k |-> <<files[i]>>]
        BY <2>2, <2>3, <3>2
      <4>2. \A i \in 1..k : <<files[i]>> \in Pages
        BY DEF Pages
      <4>3. left \in [1..k -> Pages]
        BY <4>1, <4>2
      <4> QED BY <2>3, <4>3
    <3> QED BY <3>1, <3>2
  <2>5. /\ IsPoll(n) /\ n.pc = "import" /\ n.kind = kind /\ n.left = left /\ n.mail = 0
        /\ n.page = 1
    BY <2>1, <2>2 DEF IsPoll, NotPolling
  <2>6. PollFits(n)
    BY <2>4, <2>5, FirstPage DEF PollFits, AtMail
  <2> QED BY <2>1, <2>6 DEF PollMoves
<1> QED BY <1>1, <1>2

\* What AfterAttachment makes of a poll, whatever it has noted as its own.
After(q, result, n) ==
    \/ n = NotPolling /\ result = "failed" /\ q.kind = "upload"
    \/ /\ IsPoll(n) /\ n.pc = "import" /\ n.kind = q.kind /\ n.set = q.set /\ n.view = q.view
       /\ n.todo = q.todo /\ n.mail = q.mail /\ n.reply = q.reply
       /\ \/ /\ result = "imported" /\ q.page < Len(Head(q.left))
             /\ n.left = q.left /\ n.page = q.page + 1 /\ n.failed = q.failed
          \/ /\ ~ (result = "imported" /\ q.page < Len(Head(q.left)))
             /\ n.left = Tail(q.left) /\ n.page = 1
             /\ n.failed = IF result = "failed" THEN TRUE ELSE q.failed

LEMMA AfterIs ==
    ASSUME NEW q, IsPoll(q), NEW result, NEW n, n = AfterAttachment(q, result)
    PROVE  After(q, result, n)
<1> DEFINE more == result = "imported" /\ q.page < Len(Head(q.left))
<1>1. CASE more
  <2>1. n = [q EXCEPT !.pc = "import", !.page = @ + 1]
    BY <1>1 DEF AfterAttachment
  <2>2. /\ IsPoll(n) /\ n.pc = "import" /\ n.kind = q.kind /\ n.set = q.set /\ n.view = q.view
        /\ n.todo = q.todo /\ n.mail = q.mail /\ n.reply = q.reply
        /\ n.left = q.left /\ n.page = q.page + 1 /\ n.failed = q.failed
    BY <2>1 DEF IsPoll
  <2> QED BY <1>1, <2>2 DEF After
<1>2. CASE result = "failed" /\ q.kind = "upload"
  BY <1>2 DEF AfterAttachment, After
<1>3. CASE ~ more /\ ~ (result = "failed" /\ q.kind = "upload")
  <2>1. PICK left : left = Tail(q.left)
    OBVIOUS
  <2>2. PICK m : m = [q EXCEPT !.pc = "import", !.left = left, !.page = 1, !.own = {}]
    OBVIOUS
  <2>3. /\ IsPoll(m) /\ m.pc = "import" /\ m.kind = q.kind /\ m.set = q.set /\ m.view = q.view
        /\ m.todo = q.todo /\ m.mail = q.mail /\ m.reply = q.reply
        /\ m.left = left /\ m.page = 1 /\ m.failed = q.failed
    BY <2>2 DEF IsPoll
  <2>4. m = [q EXCEPT !.pc = "import", !.left = Tail(@), !.page = 1, !.own = {}]
    BY <2>1, <2>2
  <2>5. CASE result = "failed"
    <3>1. n = [m EXCEPT !.failed = TRUE]
      BY <1>3, <2>4, <2>5 DEF AfterAttachment
    <3>2. /\ IsPoll(n) /\ n.pc = "import" /\ n.kind = q.kind /\ n.set = q.set /\ n.view = q.view
          /\ n.todo = q.todo /\ n.mail = q.mail /\ n.reply = q.reply
          /\ n.left = left /\ n.page = 1 /\ n.failed = TRUE
      BY <2>3, <3>1 DEF IsPoll
    <3> QED BY <1>3, <2>1, <2>5, <3>2 DEF After
  <2>6. CASE result # "failed"
    <3>1. n = m
      BY <1>3, <2>4, <2>6 DEF AfterAttachment
    <3> QED BY <1>3, <2>1, <2>3, <2>6, <3>1 DEF After
  <2> QED BY <2>5, <2>6
<1> QED BY <1>1, <1>2, <1>3

LEMMA AfterFits ==
    ASSUME NEW q, PollFits(q), q.pc \in {"import", "create"}, q.left # <<>>, NEW result
    PROVE  PollFits(AfterAttachment(q, result))
<1> DEFINE n == AfterAttachment(q, result)
           pages == Len(Head(q.left))
<1>1. /\ q.pc # "idle" /\ q.pc \in AtMail /\ "import" \in AtMail /\ q.left \in Seq(Pages)
      /\ q.page \in 1..pages /\ pages \in Nat /\ IsPoll(q)
  BY FirstAttachment DEF AtMail, PollFits, AtPage
<1>2. Tail(q.left) \in Seq(Pages)
  BY <1>1, FirstAttachment
<1>3. \/ n = NotPolling
      \/ /\ IsPoll(n) /\ n.pc = "import" /\ n.kind = q.kind /\ n.set = q.set /\ n.mail = q.mail
         /\ n.reply = q.reply
         /\ \/ q.page < pages /\ n.left = q.left /\ n.page = q.page + 1
            \/ n.left = Tail(q.left) /\ n.page = 1
  <2>1. PICK k : k = n /\ After(q, result, k)
    BY <1>1, AfterIs
  <2> HIDE DEF n
  <2>2. \/ k = NotPolling
        \/ /\ IsPoll(k) /\ k.pc = "import" /\ k.kind = q.kind /\ k.set = q.set /\ k.mail = q.mail
           /\ k.reply = q.reply
           /\ \/ q.page < pages /\ k.left = q.left /\ k.page = q.page + 1
              \/ k.left = Tail(q.left) /\ k.page = 1
    BY <2>1 DEF After
  <2> QED BY <2>1, <2>2
<1> HIDE DEF n
<1>4. n = NotPolling => PollFits(n)
  BY IdleFits
<1>5. ASSUME IsPoll(n), n.pc = "import", n.kind = q.kind, n.set = q.set, n.mail = q.mail,
             n.reply = q.reply, q.page < pages, n.left = q.left, n.page = q.page + 1
      PROVE  PollFits(n)
  <2>1. AtPage(n)
    BY <1>1, <1>5 DEF AtPage
  <2> QED BY <1>1, <1>5, <2>1, FitsAfter
<1>6. ASSUME IsPoll(n), n.pc = "import", n.kind = q.kind, n.set = q.set, n.mail = q.mail,
             n.reply = q.reply, n.left = Tail(q.left), n.page = 1
      PROVE  PollFits(n)
  BY <1>1, <1>2, <1>6, FitsAfter, FirstPage
<1> QED BY <1>3, <1>4, <1>5, <1>6 DEF n

LEMMA AttachmentFits ==
    ASSUME Polling, NEW p \in Polls, NEW result, poll[p].pc \in {"import", "create"},
           poll[p].left # <<>>, AttachmentDone(p, result)
    PROVE  \E new : PollMoves(p, new)
<1>1. PollFits(poll[p]) /\ poll' = [poll EXCEPT ![p] = AfterAttachment(poll[p], result)]
  BY DEF Polling, AttachmentDone
<1> QED BY <1>1, AfterFits DEF PollMoves

\* A document or an inbox item is made.
LEMMA MadeFits ==
    ASSUME Polling, NEW p \in Polls, NEW own, NEW q, q = [poll[p] EXCEPT !.own = own],
           poll[p].pc \in {"import", "create"}, poll[p].left # <<>>,
           NEW outcome, NEW good, Made(p, q, outcome, good)
    PROVE  \E new : PollMoves(p, new)
<1> DEFINE o == poll[p]
<1>1. PollFits(o) /\ IsPoll(o)
  BY DEF Polling, PollFits
<1>2. /\ IsPoll(q) /\ q.pc = o.pc /\ q.left = o.left /\ q.page = o.page
      /\ q.kind = o.kind /\ q.set = o.set /\ q.mail = o.mail /\ q.reply = o.reply
  <2> HIDE DEF o
  <2> QED BY <1>1 DEF IsPoll, o
<1>3. PollFits(q)
  BY <1>1, <1>2 DEF PollFits, AtPage
<1>4. PICK result : poll' = [poll EXCEPT ![p] = AfterAttachment(q, result)]
  BY DEF Made
<1> QED BY <1>2, <1>3, <1>4, AfterFits DEF PollMoves

LEMMA FetchFits ==
    ASSUME Polling, Mailing, NEW p \in Polls, FetchMail(p)
    PROVE  \E new : PollMoves(p, new)
<1> DEFINE q == poll[p]
           m == Numbered(q.view, Number(p))
<1>1. PollFits(q) /\ q.pc = "next" /\ q.kind = "mail" /\ q.left = <<>> /\ q.page = 1
  BY DEF Polling, FetchMail, PollFits, AtPage
<1>2. CASE poll' = [poll EXCEPT ![p] = NextNumber(q)] \/ poll' = [poll EXCEPT ![p] = Abort(q)]
  BY <1>1, <1>2, NextNumberFits DEF PollMoves
<1>3. ASSUME NEW pc \in {"dispose", "import"}, NEW r \in Replies, m \in Present,
             pc = "dispose" => Attached[m] = <<>>,
             poll' = [poll EXCEPT ![p].mail = m, ![p].left = Attached[m], ![p].pc = pc, ![p].reply = r]
      PROVE  \E new : PollMoves(p, new)
  <2>1. m \in Mails /\ Attached[m] \in Seq(Pages)
    BY <1>3, ArrivedAreMails, MailsAre DEF Mailing
  <2>2. PICK n : n = [q EXCEPT !.mail = m, !.left = Attached[m], !.pc = pc, !.reply = r]
    OBVIOUS
  <2>3. poll' = [poll EXCEPT ![p] = n]
    BY <1>3, <2>2
  <2> HIDE DEF m, q
  <2>4. /\ IsPoll(n) /\ n.pc = pc /\ n.kind = q.kind /\ n.left = Attached[m] /\ n.set = q.set
        /\ n.mail = m /\ n.reply = r /\ n.page = q.page
    BY <1>1, <2>2 DEF PollFits, IsPoll
  <2>5. AtPage(n)
    BY <1>1, <2>1, <2>4, FirstPage
  <2>6. PollFits(n)
    BY <1>1, <1>3, <2>1, <2>4, <2>5 DEF PollFits, AtMail, m
  <2> QED BY <2>3, <2>6 DEF PollMoves
<1>4. CASE Number(p) <= Cardinality(q.view) /\ m \in Present
  <2> DEFINE none == Attached[m] = <<>>
  <2>1. poll' = [poll EXCEPT ![p].mail = m, ![p].left = Attached[m],
                             ![p].pc = IF none THEN "dispose" ELSE "import",
                             ![p].reply = IF none THEN "unprocessable" ELSE "success"]
    BY <1>4 DEF FetchMail
  <2> HIDE DEF m, q
  <2> QED BY <1>3, <1>4, <2>1 DEF Replies
<1>5. CASE ~ (Number(p) <= Cardinality(q.view) /\ m \in Present)
  <2>1. poll' = [poll EXCEPT ![p] = IF Number(p) <= Cardinality(q.view) THEN NextNumber(@) ELSE Abort(@)]
    BY <1>5 DEF FetchMail
  <2> QED BY <1>2, <2>1
<1> QED BY <1>4, <1>5

\* The steps of a poll that only move it on.
LEMMA MovesOnFit ==
    ASSUME Polling, Mailing, NEW p \in Polls, NEW pc \in {"dispose", "create", "reply", "send", "write"},
           NEW view, NEW row, poll[p].pc # "idle",
           poll[p].kind # "mail" => pc = "create",
           IF pc = "create" THEN poll[p].left # <<>> ELSE poll[p].left = <<>>,
           pc # "write" => poll[p].pc \in AtMail,
           poll' = [poll EXCEPT ![p] = [@ EXCEPT !.pc = pc, !.view = view, !.row = row]]
    PROVE  \E new : PollMoves(p, new)
<1> DEFINE q == poll[p]
<1>1. PollFits(q)
  BY DEF Polling
<1>2. PICK n : n = [q EXCEPT !.pc = pc, !.view = view, !.row = row]
  OBVIOUS
<1>3. poll' = [poll EXCEPT ![p] = n]
  BY <1>2
<1>4. pc \in {"next", "close", "write"} \cup AtMail /\ (pc \in AtMail => q.pc \in AtMail)
  BY DEF AtMail
<1> HIDE DEF q
<1>5. /\ IsPoll(n) /\ n.pc = pc /\ n.left = q.left /\ n.page = q.page
      /\ n.kind = q.kind /\ n.set = q.set /\ n.mail = q.mail /\ n.reply = q.reply
  BY <1>1, <1>2 DEF PollFits, IsPoll
<1>6. n.left \in Seq(Pages) /\ AtPage(n)
  BY <1>1, <1>5 DEF PollFits, AtPage
<1>7. PollFits(n)
  BY <1>1, <1>4, <1>5, <1>6, FitsAfter DEF q
<1> QED BY <1>3, <1>7 DEF PollMoves

\* Disposing of a mail, answering it, and the end of a poll.
LEMMA LaterStepsFit ==
    ASSUME Polling, Mailing, NEW p \in Polls,
           \/ LeaveMail(p) \/ DisposeMail(p)
           \/ \E told \in BOOLEAN : MoveMail(p, told)
           \/ ClaimReply(p) \/ SendReply(p) \/ ReplyFails(p)
           \/ CloseMailbox(p) \/ WritePollState(p) \/ PollDies(p)
    PROVE  \E new : PollMoves(p, new)
<1> DEFINE q == poll[p]
<1>1. PollFits(q)
  BY DEF Polling
<1>2. ASSUME NEW new, poll' = [poll EXCEPT ![p] = new],
             new \in {NotPolling, NextNumber(q), Abort(q)}, q.kind = "mail", q.pc # "idle",
             q.left = <<>>
      PROVE  PollMoves(p, new)
  BY <1>1, <1>2, NextNumberFits, IdleFits DEF PollMoves
<1>3. ASSUME NEW pc \in {"dispose", "create", "reply", "send", "write"}, NEW view, NEW row,
             q.pc # "idle", q.kind = "mail", q.left = <<>>, pc # "create",
             pc # "write" => q.pc \in AtMail,
             poll' = [poll EXCEPT ![p] = [@ EXCEPT !.pc = pc, !.view = view, !.row = row]]
      PROVE  \E new : PollMoves(p, new)
  BY <1>3, MovesOnFit
<1>4. IsPoll(q)
  BY <1>1 DEF PollFits
<1>5. (q.kind # "mail" \/ q.left # <<>>) => q.pc \in {"import", "create"}
  BY <1>1 DEF PollFits
<1>6. CASE LeaveMail(p)
  <2>1. q.kind = "mail" /\ q.pc = "import" /\ q.pc \in AtMail /\ q.left = <<>>
    BY <1>6 DEF LeaveMail, AtMail
  <2>2. poll' = [poll EXCEPT ![p] = [@ EXCEPT !.pc = "dispose"]]
        \/ poll' = [poll EXCEPT ![p] = NextNumber(q)]
    BY <1>6 DEF LeaveMail
  <2>3. [q EXCEPT !.pc = "dispose"] = [q EXCEPT !.pc = "dispose", !.view = q.view, !.row = q.row]
    BY <1>4 DEF IsPoll
  <2>4. CASE poll' = [poll EXCEPT ![p] = [@ EXCEPT !.pc = "dispose"]]
    <3>1. poll' = [poll EXCEPT ![p] = [@ EXCEPT !.pc = "dispose", !.view = q.view, !.row = q.row]]
      BY <2>3, <2>4
    <3> QED BY <1>3, <2>1, <3>1
  <2> QED BY <1>2, <2>1, <2>2, <2>4
<1>7. CASE DisposeMail(p)
  <2>1. q.kind = "mail" /\ q.pc = "dispose" /\ q.pc \in AtMail /\ q.left = <<>>
    BY <1>5, <1>7 DEF DisposeMail, AtMail
  <2>2. poll' = [poll EXCEPT ![p] = [@ EXCEPT !.pc = "reply"]]
    BY <1>7 DEF DisposeMail
  <2>3. [q EXCEPT !.pc = "reply"] = [q EXCEPT !.pc = "reply", !.view = q.view, !.row = q.row]
    BY <1>4 DEF IsPoll
  <2> QED BY <1>3, <2>1, <2>2, <2>3
<1>8. ASSUME NEW told \in BOOLEAN, MoveMail(p, told)
      PROVE  \E new : PollMoves(p, new)
  <2>1. q.kind = "mail" /\ q.pc = "dispose" /\ q.pc \in AtMail /\ q.left = <<>>
    BY <1>5, <1>8 DEF MoveMail, AtMail
  <2>2. PICK view : \/ poll' = [poll EXCEPT ![p] = Abort(q)]
                    \/ poll' = [poll EXCEPT ![p] = [@ EXCEPT !.pc = "reply", !.view = view]]
    BY <1>8 DEF MoveMail
  <2>3. [q EXCEPT !.pc = "reply", !.view = view]
        = [q EXCEPT !.pc = "reply", !.view = view, !.row = q.row]
    BY <1>4 DEF IsPoll
  <2>4. CASE poll' = [poll EXCEPT ![p] = [@ EXCEPT !.pc = "reply", !.view = view]]
    <3>1. poll' = [poll EXCEPT ![p] = [@ EXCEPT !.pc = "reply", !.view = view, !.row = q.row]]
      BY <2>3, <2>4
    <3> QED BY <1>3, <2>1, <3>1
  <2> QED BY <1>2, <2>1, <2>2, <2>4
<1>9. CASE ClaimReply(p)
  <2>1. q.kind = "mail" /\ q.pc = "reply" /\ q.pc \in AtMail /\ q.left = <<>>
    BY <1>5, <1>9 DEF ClaimReply, AtMail
  <2>2. PICK row : \/ poll' = [poll EXCEPT ![p] = NextNumber(q)]
                   \/ poll' = [poll EXCEPT ![p] = [@ EXCEPT !.pc = "send", !.row = row]]
    BY <1>9 DEF ClaimReply
  <2>3. [q EXCEPT !.pc = "send", !.row = row]
        = [q EXCEPT !.pc = "send", !.view = q.view, !.row = row]
    BY <1>4 DEF IsPoll
  <2>4. CASE poll' = [poll EXCEPT ![p] = NextNumber(q)]
    BY <1>2, <2>1, <2>4
  <2>5. CASE poll' = [poll EXCEPT ![p] = [@ EXCEPT !.pc = "send", !.row = row]]
    <3>1. poll' = [poll EXCEPT ![p] = [@ EXCEPT !.pc = "send", !.view = q.view, !.row = row]]
      BY <2>3, <2>5
    <3> QED BY <1>3, <2>1, <3>1
  <2> QED BY <2>2, <2>4, <2>5
<1>10. CASE SendReply(p) \/ ReplyFails(p)
  <2>1. q.kind = "mail" /\ q.pc = "send" /\ q.left = <<>>
    BY <1>5, <1>10 DEF SendReply, ReplyFails
  <2>2. poll' = [poll EXCEPT ![p] = NextNumber(q)] \/ poll' = [poll EXCEPT ![p] = Abort(q)]
    BY <1>10 DEF SendReply, ReplyFails
  <2> QED BY <1>2, <2>1, <2>2
<1>11. CASE CloseMailbox(p)
  <2>1. q.kind = "mail" /\ q.pc # "idle" /\ q.left = <<>>
    BY <1>5, <1>11 DEF CloseMailbox
  <2>2. poll' = [poll EXCEPT ![p] = NotPolling]
        \/ poll' = [poll EXCEPT ![p] = [@ EXCEPT !.pc = "write"]]
    BY <1>11 DEF CloseMailbox
  <2>3. [q EXCEPT !.pc = "write"] = [q EXCEPT !.pc = "write", !.view = q.view, !.row = q.row]
    BY <1>4 DEF IsPoll
  <2>4. CASE poll' = [poll EXCEPT ![p] = [@ EXCEPT !.pc = "write"]]
    <3>1. poll' = [poll EXCEPT ![p] = [@ EXCEPT !.pc = "write", !.view = q.view, !.row = q.row]]
      BY <2>3, <2>4
    <3> QED BY <1>3, <2>1, <3>1
  <2> QED BY <1>2, <2>1, <2>2, <2>4
<1>12. CASE WritePollState(p) \/ PollDies(p)
  <2>1. poll' = [poll EXCEPT ![p] = NotPolling]
    BY <1>12 DEF WritePollState, PollDies
  <2> QED BY <2>1, IdleFits DEF PollMoves
<1> QED BY <1>6, <1>7, <1>8, <1>9, <1>10, <1>11, <1>12

LEMMA PollStepFits ==
    ASSUME Polling, Mailing, NEW p \in Polls, PollStep(p)
    PROVE  \E new : PollMoves(p, new)
<1> DEFINE q == poll[p]
<1>1. PollFits(q)
  BY DEF Polling
<1>2. CASE EndRequest(p)
  BY <1>2, IdleFits DEF EndRequest, PollMoves
<1>3. CASE AttachmentRaises(p)
  <2>1. AttachmentDone(p, "failed") /\ q.pc = "import" /\ q.left # <<>>
    BY <1>3 DEF AttachmentRaises, AtAttachment
  <2> QED BY <2>1, AttachmentFits
<1>4. CASE CheckAttachment(p)
  <2>1. q.pc = "import" /\ q.left # <<>> /\ q.pc # "idle" /\ q.pc \in AtMail
    BY <1>4 DEF CheckAttachment, AtAttachment, AtMail
  <2>2. AttachmentDone(p, "duplicate") \/ poll' = [poll EXCEPT ![p] = [@ EXCEPT !.pc = "create"]]
    BY <1>4 DEF CheckAttachment
  <2>3. [q EXCEPT !.pc = "create"] = [q EXCEPT !.pc = "create", !.view = q.view, !.row = q.row]
    BY <1>1 DEF PollFits, IsPoll
  <2>4. CASE AttachmentDone(p, "duplicate")
    BY <2>1, <2>4, AttachmentFits
  <2>5. CASE poll' = [poll EXCEPT ![p] = [@ EXCEPT !.pc = "create"]]
    BY <2>1, <2>3, <2>5, MovesOnFit
  <2> QED BY <2>2, <2>4, <2>5
<1>5. ASSUME NEW o \in Outcomes, CreateDocument(p, o)
      PROVE  \E new : PollMoves(p, new)
  <2>1. PICK own : Made(p, [q EXCEPT !.own = own], o, "imported") /\ q.pc = "create"
    BY <1>5 DEF CreateDocument
  <2>2. q.left # <<>>
    BY <1>1, <2>1 DEF PollFits
  <2> QED BY <2>1, <2>2, MadeFits
<1>6. ASSUME NEW o \in Outcomes, NEW suggested \in BOOLEAN, StageAttachment(p, suggested, o)
      PROVE  \E new : PollMoves(p, new)
  <2>1. Made(p, q, o, "staged") /\ q.pc = "import" /\ q.left # <<>>
    BY <1>6 DEF StageAttachment, AtAttachment
  <2>2. q = [q EXCEPT !.own = q.own]
    BY <1>1 DEF PollFits, IsPoll
  <2> QED BY <2>1, <2>2, MadeFits
<1> QED BY <1>2, <1>3, <1>4, <1>5, <1>6, BeginFits, FetchFits, LaterStepsFit DEF PollStep

\* Each step moves one poll, or none.
LEMMA PollsMove ==
    ASSUME Polling, Mailing, [Next]_vars
    PROVE  UNCHANGED poll \/ \E p \in Polls : PollStep(p) /\ \E new : PollMoves(p, new)
<1>1. CASE \E p \in Polls : PollStep(p)
  BY <1>1, PollStepFits
<1>2. CASE ~ \E p \in Polls : PollStep(p)
  BY <1>2 DEF Next, People, vars, mailVars, MailArrives, IntervalPasses, EditSource, Edit,
              DeactivateBox, ResetRecipient
<1> QED BY <1>1, <1>2

LEMMA PollingStays == ASSUME Polling, Mailing, [Next]_vars PROVE Polling'
<1>1. CASE UNCHANGED poll
  BY <1>1 DEF Polling
<1> QED BY <1>1, PollsMove, OnePollMoves

\* The mailbox after a step, by its fields.
LEMMA MailboxAfter ==
    ASSUME Mailing, UNCHANGED <<source, bound>>,
           NEW present, NEW arrived \in 0..bound.mails, NEW seen, NEW deleted, NEW moved,
           mailbox' = [present |-> present, arrived |-> arrived, seen |-> seen,
                       deleted |-> deleted, moved |-> moved],
           deleted \subseteq present, present \subseteq 1..arrived, seen \subseteq Mails
    PROVE  Mailing'
BY DEF Mailing, Present

LEMMA OnlyTheseTouchMail ==
    ASSUME [Next]_vars
    PROVE  /\ bound' = bound
           /\ \/ UNCHANGED <<mailbox, source>>
              \/ \E p \in Polls : \/ FetchMail(p) \/ DisposeMail(p) \/ CloseMailbox(p)
                                  \/ WritePollState(p) \/ \E told \in BOOLEAN : MoveMail(p, told)
              \/ MailArrives \/ IntervalPasses \/ DeactivateBox
              \/ \E s \in Settings, a \in BOOLEAN : EditSource(s, a)
<1>1. ASSUME NEW p \in Polls, PollStep(p)
      PROVE  /\ bound' = bound
             /\ \/ UNCHANGED <<mailbox, source>>
                \/ FetchMail(p) \/ DisposeMail(p) \/ CloseMailbox(p)
                \/ WritePollState(p) \/ \E told \in BOOLEAN : MoveMail(p, told)
  BY <1>1 DEF PollStep, batchVars, BeginPoll, BeginRequest, EndRequest, FetchMail,
              AttachmentRaises, CheckAttachment, CreateDocument, StageAttachment, LeaveMail,
              DisposeMail, MoveMail, ClaimReply, SendReply, ReplyFails, CloseMailbox,
              WritePollState, PollDies
<1>2. ASSUME NEW r \in Requests, People(r)
      PROVE  UNCHANGED <<mailbox, source, bound>>
  BY <1>2 DEF People, mailVars, LoadPage, LoadDiscard, LoadItem, Load, SaveItems, AssignItem,
              ListItems, ReadItem, WriteItem, CommitFinalized, ListDiscarded, DropFile,
              SkipDropped, CommitDiscarded, RequestDies
<1>3. ASSUME \E files \in SUBSET Files, t \in BOOLEAN : UploadBatch(files, t) /\ UNCHANGED mailVars
      PROVE  UNCHANGED <<mailbox, source, bound>>
  BY <1>3 DEF UploadBatch, mailVars
<1>4. ASSUME MailArrives \/ IntervalPasses \/ DeactivateBox
             \/ \E s \in Settings, a \in BOOLEAN : EditSource(s, a)
      PROVE  bound' = bound
  BY <1>4 DEF MailArrives, IntervalPasses, DeactivateBox, EditSource, Edit, batchVars
<1>5. ASSUME \E k \in EmailAutoReplyRecipient : ResetRecipient(k)
      PROVE  UNCHANGED <<mailbox, source, bound>>
  BY <1>5 DEF ResetRecipient, Edit, batchVars
<1>6. ASSUME UNCHANGED vars
      PROVE  UNCHANGED <<mailbox, source, bound>>
  BY <1>6 DEF vars, mailVars, batchVars
<1>7. Next \/ UNCHANGED vars
  OBVIOUS
<1> QED BY <1>1, <1>2, <1>3, <1>4, <1>5, <1>6, <1>7 DEF Next

LEMMA MailboxStays ==
    ASSUME Polling, Mailing, NEW p \in Polls, bound' = bound,
           \/ FetchMail(p) \/ DisposeMail(p) \/ CloseMailbox(p)
           \/ \E told \in BOOLEAN : MoveMail(p, told)
    PROVE  Mailing'
<1> DEFINE q == poll[p]
<1>1. PollFits(q) /\ UNCHANGED source /\ mailbox.arrived \in 0..bound.mails
  BY DEF Polling, Mailing, FetchMail, DisposeMail, CloseMailbox, MoveMail
<1>2. /\ mailbox = [present |-> Present, arrived |-> mailbox.arrived, seen |-> mailbox.seen,
                    deleted |-> mailbox.deleted, moved |-> mailbox.moved]
      /\ mailbox.deleted \subseteq Present /\ Present \subseteq 1..mailbox.arrived
      /\ mailbox.seen \subseteq Mails
  BY DEF Mailing
<1>3. ASSUME NEW seen \in SUBSET Mails, NEW deleted \in SUBSET Present, NEW moved,
             mailbox' = [mailbox EXCEPT !.seen = seen, !.deleted = deleted, !.moved = moved]
      PROVE  Mailing'
  <2>1. mailbox' = [present |-> Present, arrived |-> mailbox.arrived, seen |-> seen,
                    deleted |-> deleted, moved |-> moved]
    <3> DEFINE a == mailbox.arrived
               s == mailbox.seen
               d == mailbox.deleted
               v == mailbox.moved
    <3>1. mailbox = [present |-> Present, arrived |-> a, seen |-> s, deleted |-> d, moved |-> v]
      BY <1>2
    <3> HIDE DEF a, s, d, v
    <3>2. mailbox' = [present |-> Present, arrived |-> a, seen |-> seen, deleted |-> deleted, moved |-> moved]
      BY <1>3, <3>1
    <3> QED BY <3>2 DEF a
  <2> QED BY <1>1, <1>2, <2>1, MailboxAfter
<1>4. CASE UNCHANGED mailbox
  BY <1>1, <1>4, SharedStays
<1>5. ASSUME NEW seen \in SUBSET Mails, mailbox' = [mailbox EXCEPT !.seen = seen]
      PROVE  Mailing'
  <2>1. mailbox' = [mailbox EXCEPT !.seen = seen, !.deleted = mailbox.deleted, !.moved = mailbox.moved]
    BY <1>2, <1>5
  <2> QED BY <1>2, <1>3, <2>1
<1>6. CASE FetchMail(p)
  <2> DEFINE m == Numbered(q.view, Number(p))
  <2>1. UNCHANGED mailbox \/ (m \in Present /\ mailbox' = [mailbox EXCEPT !.seen = @ \cup {m}])
    BY <1>6 DEF FetchMail
  <2> HIDE DEF m
  <2>2. m \in Present => mailbox.seen \cup {m} \in SUBSET Mails
    BY <1>2, ArrivedAreMails
  <2> QED BY <1>4, <1>5, <2>1, <2>2
<1>7. CASE DisposeMail(p)
  <2>1. \/ UNCHANGED mailbox
        \/ mailbox' = [mailbox EXCEPT !.seen = @ \cup {Mail(p)}] /\ Mail(p) \in Mails
        \/ mailbox' = [mailbox EXCEPT !.deleted = @ \cup {Mail(p)}] /\ Mail(p) \in Present
    <3>1. Mail(p) \in Mails
      BY <1>1, <1>7 DEF DisposeMail, PollFits, Mail, AtMail
    <3> QED BY <1>7, <3>1 DEF DisposeMail
  <2>2. ASSUME mailbox' = [mailbox EXCEPT !.deleted = @ \cup {Mail(p)}], Mail(p) \in Present
        PROVE  Mailing'
    <3>1. mailbox' = [mailbox EXCEPT !.seen = mailbox.seen, !.deleted = mailbox.deleted \cup {Mail(p)},
                                     !.moved = mailbox.moved]
      BY <1>2, <2>2
    <3>2. mailbox.deleted \cup {Mail(p)} \in SUBSET Present
      BY <1>2, <2>2
    <3> QED BY <1>2, <1>3, <3>1, <3>2
  <2>3. Mail(p) \in Mails => mailbox.seen \cup {Mail(p)} \in SUBSET Mails
    BY <1>2
  <2> QED BY <1>4, <1>5, <2>1, <2>2, <2>3
<1>8. ASSUME NEW told \in BOOLEAN, MoveMail(p, told)
      PROVE  Mailing'
  <2>1. PICK deleted, moved : /\ mailbox' = [mailbox EXCEPT !.moved = moved, !.deleted = deleted]
                              /\ \/ deleted = mailbox.deleted
                                 \/ \E m : deleted = mailbox.deleted \cup ({m} \cap Present)
    BY <1>8 DEF MoveMail
  <2>2. deleted \in SUBSET Present
    BY <1>2, <2>1
  <2>3. mailbox' = [mailbox EXCEPT !.seen = mailbox.seen, !.deleted = deleted, !.moved = moved]
    BY <1>2, <2>1
  <2> QED BY <1>2, <1>3, <2>2, <2>3
<1>9. CASE CloseMailbox(p)
  <2>1. mailbox' = [mailbox EXCEPT !.present = @ \ mailbox.deleted, !.deleted = {}]
    BY <1>9 DEF CloseMailbox, Expunged
  <2>2. mailbox' = [present |-> Present \ mailbox.deleted, arrived |-> mailbox.arrived,
                    seen |-> mailbox.seen, deleted |-> {}, moved |-> mailbox.moved]
    BY <1>2, <2>1 DEF Present
  <2>3. Present \ mailbox.deleted \subseteq 1..mailbox.arrived
    BY <1>2
  <2> QED BY <1>1, <1>2, <2>2, <2>3, MailboxAfter
<1> QED BY <1>6, <1>7, <1>8, <1>9

LEMMA MailingStays == ASSUME Polling, Mailing, [Next]_vars PROVE Mailing'
<1>1. bound' = bound
  BY OnlyTheseTouchMail
<1>2. CASE UNCHANGED <<mailbox, source>>
  BY <1>1, <1>2, SharedStays
<1>3. CASE MailArrives
  <2>1. bound.mails \in 0..Len(Attached) /\ Len(Attached) \in Nat
    BY MailsAre, MailAssumption DEF MailAssumption, Mailing
  <2>2. /\ mailbox.arrived \in 0..bound.mails /\ mailbox.arrived < bound.mails
        /\ UNCHANGED <<source, bound>>
    BY <1>1, <1>3 DEF MailArrives, Mailing
  <2>3. mailbox.arrived + 1 \in 0..bound.mails
    BY <2>1, <2>2
  <2>4. mailbox' = [present |-> Present \cup {mailbox.arrived + 1}, arrived |-> mailbox.arrived + 1,
                    seen |-> mailbox.seen, deleted |-> mailbox.deleted, moved |-> mailbox.moved]
    BY <1>3 DEF MailArrives, Mailing, Present
  <2>5. /\ mailbox.deleted \subseteq Present /\ Present \subseteq 1..mailbox.arrived
        /\ mailbox.seen \subseteq Mails
    BY DEF Mailing
  <2>6. Present \cup {mailbox.arrived + 1} \subseteq 1..(mailbox.arrived + 1)
    <3>1. mailbox.arrived \in Nat
      BY <2>1, <2>2
    <3>2. ASSUME NEW m \in Present
          PROVE  m \in 1..(mailbox.arrived + 1)
      BY <2>5, <3>1
    <3> QED BY <3>1, <3>2
  <2>7. mailbox.deleted \subseteq Present \cup {mailbox.arrived + 1}
    BY <2>5
  <2> QED BY <2>2, <2>3, <2>4, <2>5, <2>6, <2>7, MailboxAfter
<1>4. ASSUME source' \in ImportSource, UNCHANGED mailbox
      PROVE  Mailing'
  BY <1>1, <1>4 DEF Mailing, Present
<1>5. source \in ImportSource
  BY DEF Mailing
<1>6. CASE \E p \in Polls : WritePollState(p)
  <2>1. PICK p \in Polls : WritePollState(p)
    BY <1>6
  <2>2. PollFits(poll[p]) /\ poll[p].pc = "write"
    BY <2>1 DEF Polling, WritePollState
  <2>3. poll[p].set \in SavedSetting
    BY <2>2 DEF PollFits
  <2>4. Saved(poll[p].set, TRUE) \in SavedSetting
    BY <2>3, SavedIs DEF SavedSetting
  <2>5. source' = [source EXCEPT !.set = Saved(poll[p].set, TRUE)] /\ UNCHANGED mailbox
    BY <2>1 DEF WritePollState
  <2>6. source' \in ImportSource
    BY <1>5, <2>4, <2>5 DEF ImportSource, SavedSetting
  <2> QED BY <1>4, <2>5, <2>6
<1>7. CASE \E s \in Settings, a \in BOOLEAN : EditSource(s, a)
  <2>1. PICK s \in Settings, a \in BOOLEAN : EditSource(s, a)
    BY <1>7
  <2>2. s \in Setting
    BY MailAssumption DEF MailAssumption
  <2>3. Saved(s, FALSE) \in SavedSetting
    BY <2>2, SavedIs DEF Setting
  <2>4. source' = [source EXCEPT !.active = a, !.set = Saved(s, FALSE)] /\ UNCHANGED mailbox
    BY <2>1 DEF EditSource, Edit
  <2>5. source' \in ImportSource
    BY <1>5, <2>3, <2>4 DEF ImportSource, SavedSetting
  <2> QED BY <1>4, <2>4, <2>5
<1>8. CASE IntervalPasses \/ DeactivateBox
  <2>1. UNCHANGED mailbox
    BY <1>8 DEF IntervalPasses, DeactivateBox, Edit
  <2>2. source' \in ImportSource
    BY <1>5, <1>8, ZenonT(60) DEF IntervalPasses, DeactivateBox, ImportSource
  <2> QED BY <1>4, <2>1, <2>2
<1> QED BY <1>1, <1>2, <1>3, <1>6, <1>7, <1>8, OnlyTheseTouchMail, MailboxStays

-----------------------------------------------------------------------------
(***************************************************************************)
(* Batches, items, and the requests that work on them.                     *)
(***************************************************************************)

Finalizing == {"item", "imported", "duplicate", "error"}
Waiting == {"idle", "save", "saveAndFinalize", "assign", "list", "discard"}
Dropping == {"drop", "dropped"}
Ended == {"imported", "duplicate"}

\* The rows.
RowsFit ==
    /\ docs \in [Files -> Nat]
    /\ batch \in Seq(DocumentImportBatch)
    /\ item \in Seq(DocumentImportBatchItem)
    /\ blob \subseteq DOMAIN item /\ discarded \subseteq DOMAIN batch
    /\ crashes \in Nat

\* What a request has read, has still to do, and has written.
RequestFits(q) ==
    /\ q.pc \in Waiting \cup Finalizing \cup Dropping
    /\ q.pc # "idle" => q.batch \in DOMAIN batch
    /\ DOMAIN q.seen \cup q.left \cup DOMAIN q.wrote \subseteq ItemsOf(q.batch)
    /\ q.left \cap DOMAIN q.wrote = {}
    /\ q.pc \in Waiting => DOMAIN q.wrote = {} /\ q.left = {}
    /\ q.pc \in {"imported", "duplicate", "error", "dropped"} => q.left # {}
    /\ \A i \in DOMAIN q.wrote :
          q.wrote[i] \in IF q.pc \in Dropping THEN {"skipped"} ELSE Ended \cup {"error"}

\* The documents that the request relies on when it calls an item a duplicate.
DuplicatesKnown(r) ==
    /\ \A i \in DOMAIN request[r].wrote :
          request[r].wrote[i] = "duplicate" => Known(r, item[i].file)
    /\ request[r].pc = "duplicate" => Known(r, item[Lowest(request[r].left)].file)

RequestsFit ==
    /\ request = [r \in Requests |->
                    [pc |-> request[r].pc, batch |-> request[r].batch, seen |-> request[r].seen,
                     left |-> request[r].left, wrote |-> request[r].wrote]]
    /\ \A r \in Requests : RequestFits(request[r]) /\ DuplicatesKnown(r)

\* A request has the item's deleted file in its hands.
InHands(r, i) ==
    \/ i \in DOMAIN request[r].wrote /\ request[r].wrote[i] # "error"
    \/ request[r].pc = "dropped" /\ i = Lowest(request[r].left)

Held(i) == \E r \in Requests : InHands(r, i)

\* Unless a process was killed, every file that is deleted is a document, is in
\* the hands of a request, or its batch was discarded.
FilesAccounted ==
    crashes = 0 =>
        \A i \in DOMAIN item :
            i \notin blob => docs[item[i].file] > 0 \/ item[i].batch \in discarded \/ Held(i)

Batches == RowsFit /\ RequestsFit /\ SaidImported /\ FilesAccounted

\* Rows are never taken away, and an item keeps its content and its batch.
Grows ==
    /\ \A f \in Files : docs'[f] >= docs[f]
    /\ DOMAIN item \subseteq DOMAIN item'
    /\ \A i \in DOMAIN item : item'[i].file = item[i].file /\ item'[i].batch = item[i].batch
    /\ DOMAIN batch \subseteq DOMAIN batch'
    /\ discarded \subseteq discarded'
    /\ crashes' \in Nat /\ crashes <= crashes'

\* The steps of the people.
RequestStep(r) ==
    \/ \E b \in DOMAIN batch : LoadPage(r, b) \/ LoadDiscard(r, b)
    \/ \E i \in DOMAIN item : LoadItem(r, i)
    \/ SaveItems(r) \/ AssignItem(r) \/ ListItems(r) \/ ReadItem(r) \/ WriteItem(r)
    \/ CommitFinalized(r) \/ ListDiscarded(r) \/ DropFile(r) \/ SkipDropped(r)
    \/ CommitDiscarded(r) \/ RequestDies(r)

\* The steps of the polls and of uploads, as far as batches see them.
DocumentMade ==
    /\ \E f \in Files, n \in {0, 1} : docs' = [docs EXCEPT ![f] = @ + n]
    /\ UNCHANGED <<batch, item, blob, discarded, request, crashes>>

PollKilled == crashes' = crashes + 1 /\ UNCHANGED <<docs, batch, item, blob, discarded, request>>

FilesStaged ==
    /\ \E files \in SUBSET Files, suggested \in BOOLEAN : Stage(files, suggested)
    /\ UNCHANGED <<docs, discarded, request, crashes>>

NothingStaged == UNCHANGED <<docs, batch, item, blob, discarded, request, crashes>>

LEMMA OnlyTheseTouchBatches ==
    ASSUME Polling, [Next]_vars
    PROVE  \/ NothingStaged \/ DocumentMade \/ PollKilled \/ FilesStaged
           \/ \E r \in Requests : RequestStep(r)
<1>1. ASSUME NEW p \in Polls, PollStep(p)
      PROVE  NothingStaged \/ DocumentMade \/ PollKilled \/ FilesStaged
  <2>1. poll[p].left # <<>> => File(p) \in Files
    BY PageIsFile
  <2>2. ASSUME NEW o \in Outcomes, CreateDocument(p, o)
        PROVE  DocumentMade
    <3>1. poll[p].pc = "create" /\ poll[p].left # <<>>
      BY <2>2 DEF CreateDocument, Polling, PollFits
    <3>2. docs' = [docs EXCEPT ![File(p)] = @ + (IF o = "undone" THEN 0 ELSE 1)]
      BY <2>2 DEF CreateDocument
    <3>3. UNCHANGED <<batch, item, blob, discarded, request, crashes>>
      BY <2>2 DEF CreateDocument
    <3> QED BY <2>1, <3>1, <3>2, <3>3 DEF DocumentMade
  <2>3. ASSUME NEW o \in Outcomes, NEW suggested \in BOOLEAN, StageAttachment(p, suggested, o)
        PROVE  NothingStaged \/ FilesStaged
    BY <2>1, <2>3 DEF StageAttachment, AtAttachment, FilesStaged, NothingStaged
  <2>4. CASE PollDies(p)
    BY <2>4 DEF PollDies, PollKilled
  <2> QED BY <1>1, <2>2, <2>3, <2>4 DEF PollStep, NothingStaged, batchVars, BeginPoll,
              BeginRequest, EndRequest, FetchMail, AttachmentRaises, CheckAttachment, LeaveMail,
              DisposeMail, MoveMail, ClaimReply, SendReply, ReplyFails, CloseMailbox, WritePollState
<1>2. ASSUME NEW r \in Requests, People(r)
      PROVE  RequestStep(r)
  BY <1>2 DEF People, RequestStep
<1>3. ASSUME NEW files \in SUBSET Files, NEW t \in BOOLEAN, UploadBatch(files, t)
      PROVE  FilesStaged
  BY <1>3 DEF UploadBatch, FilesStaged
<1>4. ASSUME \/ MailArrives \/ IntervalPasses \/ DeactivateBox
             \/ \E s \in Settings, a \in BOOLEAN : EditSource(s, a)
             \/ \E k \in EmailAutoReplyRecipient : ResetRecipient(k)
             \/ UNCHANGED vars
      PROVE  NothingStaged
  BY <1>4 DEF MailArrives, IntervalPasses, DeactivateBox, EditSource, ResetRecipient, Edit,
              batchVars, vars, NothingStaged
<1> QED BY <1>1, <1>2, <1>3, <1>4 DEF Next

\* The order in which files are staged.
LEMMA OrderOfFiles ==
    ASSUME NEW S, IsFiniteSet(S)
    PROVE  /\ Cardinality(S) \in Nat
           /\ SetToSeq(S) \in [1..Cardinality(S) -> S]
<1>1. Cardinality(S) \in Nat /\ ExistsBijection(1..Cardinality(S), S)
  BY FS_CardinalityType
<1>2. PICK f \in [1..Cardinality(S) -> S] : IsInjective(f)
  BY <1>1 DEF ExistsBijection, Bijection, Injection
<1> QED BY <1>1, <1>2 DEF SetToSeq

\* Staging adds a batch, and items with their files.
LEMMA StagedIs ==
    ASSUME RowsFit, NEW files \in SUBSET Files, NEW suggested \in BOOLEAN, Stage(files, suggested)
    PROVE  /\ batch' \in Seq(DocumentImportBatch) /\ DOMAIN batch \subseteq DOMAIN batch'
           /\ item' \in Seq(DocumentImportBatchItem)' /\ DOMAIN item \subseteq DOMAIN item'
           /\ \A i \in DOMAIN item : item'[i] = item[i]
           /\ \A i \in DOMAIN item' \ DOMAIN item : i \in blob' /\ item'[i].status = "staged"
           /\ blob \subseteq blob' /\ blob' \subseteq DOMAIN item'
           /\ \A f \in files : files = {f} => \E i \in DOMAIN item' : item'[i].file = f
<1> DEFINE new == SetToSeq(files)
           c == Cardinality(files)
           n == Len(item)
           row(k) == [batch |-> Len(batch) + 1, file |-> new[k], status |-> "staged",
                      target |-> suggested]
           added == [k \in DOMAIN new |-> row(k)]
           all == DocumentImportBatchItem'
<1>1. c \in Nat /\ new \in [1..c -> files]
  BY OrderOfFiles, FS_Subset, BatchAssumption DEF BatchAssumption
<1>2. batch' = Append(batch, "open") /\ item' = item \o added /\ blob' = blob \cup (n + 1)..(n + c)
  BY DEF Stage
<1>3. batch \in Seq(DocumentImportBatch) /\ "open" \in DocumentImportBatch
  BY DEF RowsFit, DocumentImportBatch
<1>4. /\ Len(batch) \in Nat /\ DOMAIN batch = 1..Len(batch)
      /\ batch' \in Seq(DocumentImportBatch) /\ DOMAIN batch' = 1..(Len(batch) + 1)
  BY <1>2, <1>3, AppendProperties, LenProperties
<1>5. /\ n \in Nat /\ DOMAIN item = 1..n /\ item \in [1..n -> DocumentImportBatchItem]
  BY LenProperties DEF RowsFit
<1>6. DocumentImportBatchItem \subseteq all
  BY <1>4 DEF DocumentImportBatchItem
<1>7. item \in Seq(all)
  BY <1>6, SeqMonotonic DEF RowsFit
<1>8. ASSUME NEW k \in 1..c
      PROVE  row(k) \in all
  <2>1. new[k] \in Files /\ Len(batch) + 1 \in DOMAIN batch'
    BY <1>1, <1>4
  <2> QED BY <2>1 DEF DocumentImportBatchItem
<1>9. added \in Seq(all) /\ Len(added) = c
  <2>1. added = [k \in 1..c |-> row(k)]
    BY <1>1
  <2> HIDE DEF row, all, c, added
  <2>2. added \in [1..c -> all]
    BY <1>8, <2>1
  <2>3. added \in Seq(all)
    BY <1>1, <2>2
  <2>4. DOMAIN added = 1..c /\ Len(added) \in Nat /\ DOMAIN added = 1..Len(added)
    BY <2>2, <2>3, LenProperties
  <2> QED BY <1>1, <2>3, <2>4
<1> HIDE DEF all
<1>10. /\ item' \in Seq(all) /\ Len(item') = n + c
       /\ \A i \in 1..(n + c) : item'[i] = IF i <= n THEN item[i] ELSE added[i - n]
  <2> HIDE DEF added, c
  <2> QED BY <1>2, <1>7, <1>9, ConcatProperties
<1>11. DOMAIN item' = 1..(n + c)
  <2> HIDE DEF c, n
  <2> QED BY <1>10, LenProperties
<1>12. \A i \in DOMAIN item : item'[i] = item[i] /\ i \in DOMAIN item'
  <2> HIDE DEF c, n, added
  <2> QED BY <1>1, <1>5, <1>10, <1>11
<1>13. ASSUME NEW i \in DOMAIN item' \ DOMAIN item
       PROVE  i \in (n + 1)..(n + c) /\ item'[i] = row(i - n)
  <2>1. i \in (n + 1)..(n + c) /\ i - n \in 1..c
    <3> HIDE DEF c, n
    <3> QED BY <1>1, <1>5, <1>11
  <2>2. ~ i <= n /\ i \in 1..(n + c)
    <3> HIDE DEF c, n
    <3> QED BY <1>1, <1>5, <2>1
  <2>3. item'[i] = added[i - n]
    BY <1>10, <2>2
  <2>4. added[i - n] = row(i - n)
    BY <1>1, <2>1
  <2> QED BY <2>1, <2>3, <2>4
<1>14. blob' \subseteq DOMAIN item'
  <2>1. blob \subseteq 1..n
    BY <1>5 DEF RowsFit
  <2> HIDE DEF c, n
  <2> QED BY <1>1, <1>2, <1>5, <1>11, <2>1
<1>15. ASSUME NEW f \in files, files = {f}
       PROVE  \E i \in DOMAIN item' : item'[i].file = f
  <2>1. c = 1
    BY <1>15, FS_Singleton
  <2>2. n + 1 \in DOMAIN item' \ DOMAIN item
    BY <1>5, <1>11, <2>1
  <2>3. item'[n + 1] = row(1)
    <3>1. n + 1 - n = 1
      BY <1>5
    <3> QED BY <1>13, <2>2, <3>1
  <2>4. new[1] = f
    BY <1>1, <1>15, <2>1
  <2> QED BY <2>2, <2>3, <2>4
<1>16. \A i \in DOMAIN item' \ DOMAIN item : i \in blob' /\ item'[i].status = "staged"
  <2> SUFFICES ASSUME NEW i \in DOMAIN item' \ DOMAIN item
               PROVE  i \in blob' /\ item'[i].status = "staged"
    OBVIOUS
  <2>1. i \in (n + 1)..(n + c) /\ item'[i] = row(i - n)
    BY <1>13
  <2>2. i \in blob'
    BY <1>2, <2>1
  <2>3. row(i - n).status = "staged"
    OBVIOUS
  <2> QED BY <2>1, <2>2, <2>3
<1>17. DOMAIN batch \subseteq DOMAIN batch'
  BY <1>4
<1>18. DOMAIN item \subseteq DOMAIN item' /\ \A i \in DOMAIN item : item'[i] = item[i]
  BY <1>12
<1>19. blob \subseteq blob'
  BY <1>2
<1>20. item' \in Seq(DocumentImportBatchItem)'
  BY <1>10 DEF all
<1> HIDE DEF c, n, added, row
<1> QED BY <1>4, <1>14, <1>15, <1>16, <1>17, <1>18, <1>19, <1>20

\* The statuses, and the rows of a sequence.
LEMMA ItemsAre ==
    RowsFit => /\ Assignable \cup Ended = {"staged", "imported", "duplicate", "skipped", "error"}
               /\ \A i \in DOMAIN item : item[i] \in DocumentImportBatchItem
BY LenProperties DEF RowsFit, Assignable, Open, Ended

\* What a save, an assignment and a commit do to the items.
ItemsKept ==
    /\ item' = [i \in DOMAIN item |-> item'[i]]
    /\ \A i \in DOMAIN item : /\ item'[i] \in DocumentImportBatchItem
                              /\ item'[i].file = item[i].file
                              /\ item'[i].batch = item[i].batch

LEMMA SaveKeepsItems ==
    ASSUME RowsFit, NEW r \in Requests, SaveItems(r)
    PROVE  /\ ItemsKept
           /\ \A i \in DOMAIN item :
                 item'[i].status \in Ended => item'[i].status = item[i].status
<1> DEFINE q == request[r]
           mine == {i \in DOMAIN q.seen : q.seen[i] \in Assignable}
           back(i) == IF q.seen[i] = "skipped" THEN "staged" ELSE q.seen[i]
<1>1. PICK skip \in SUBSET mine, assign \in SUBSET mine :
        item' = [i \in DOMAIN item |->
                   IF i \in skip THEN [item[i] EXCEPT !.status = "skipped"]
                   ELSE IF i \in mine
                   THEN [item[i] EXCEPT !.target = i \in assign, !.status = back(i)]
                   ELSE item[i]]
  BY DEF SaveItems
<1>2. ASSUME NEW i \in DOMAIN item
      PROVE  /\ item'[i] \in DocumentImportBatchItem
             /\ item'[i].file = item[i].file /\ item'[i].batch = item[i].batch
             /\ item'[i].status \in Ended => item'[i].status = item[i].status
  <2> DEFINE t == i \in assign
  <2>1. "skipped" \in Assignable /\ "staged" \in Assignable /\ Assignable \cap Ended = {}
    BY DEF Assignable, Open, Ended
  <2>2. CASE i \in skip
    <3>1. PICK x : x = item'[i] /\ x = [item[i] EXCEPT !.status = "skipped"]
      BY <1>1, <2>2
    <3>2. /\ x \in DocumentImportBatchItem
          /\ x.file = item[i].file /\ x.batch = item[i].batch /\ x.status = "skipped"
      BY <2>1, <3>1, ItemsAre DEF DocumentImportBatchItem
    <3> QED BY <2>1, <3>1, <3>2
  <2>3. CASE i \notin skip /\ i \in mine
    <3>1. PICK x, s : x = item'[i] /\ x = [item[i] EXCEPT !.target = t, !.status = s] /\ s = back(i)
      BY <1>1, <2>3
    <3>2. s \in Assignable /\ t \in BOOLEAN
      BY <2>1, <2>3, <3>1
    <3> HIDE DEF t, back
    <3>3. /\ x \in DocumentImportBatchItem
          /\ x.file = item[i].file /\ x.batch = item[i].batch /\ x.status = s
      BY <2>1, <3>1, <3>2, ItemsAre DEF DocumentImportBatchItem
    <3> QED BY <2>1, <3>1, <3>2, <3>3
  <2>4. CASE i \notin skip /\ i \notin mine
    <3>1. item'[i] = item[i]
      BY <1>1, <2>4
    <3> QED BY <3>1, LenProperties DEF RowsFit
  <2> QED BY <2>2, <2>3, <2>4
<1>3. item' = [i \in DOMAIN item |-> item'[i]]
  BY <1>1
<1> QED BY <1>2, <1>3 DEF ItemsKept

LEMMA AssignKeepsItems ==
    ASSUME RowsFit, RequestsFit, NEW r \in Requests, AssignItem(r)
    PROVE  /\ ItemsKept
           /\ \A i \in DOMAIN item :
                 item'[i].status \in Ended => item'[i].status = item[i].status
<1>1. PICK j \in DOMAIN request[r].seen, new \in {"staged", "skipped"}, assign \in BOOLEAN :
        item' = [item EXCEPT ![j].status = new,
                             ![j].target = IF new = "staged" THEN assign ELSE @]
  BY DEF AssignItem
<1>2. j \in DOMAIN item
  BY DEF RequestsFit, RequestFits, ItemsOf
<1>3. item[j] \in DocumentImportBatchItem /\ item[j].target \in BOOLEAN
  <2>1. item[j] \in DocumentImportBatchItem
    BY <1>2, LenProperties DEF RowsFit
  <2> QED BY <2>1 DEF DocumentImportBatchItem
<1>4. PICK t \in BOOLEAN : t = IF new = "staged" THEN assign ELSE item[j].target
  BY <1>3
<1>5. item' = [item EXCEPT ![j] = [item[j] EXCEPT !.target = t, !.status = new]]
  BY <1>1, <1>2, <1>3, <1>4 DEF DocumentImportBatchItem
<1>6. new \in Assignable /\ Assignable \cap Ended = {}
  BY DEF Assignable, Open, Ended
<1>7. ASSUME NEW i \in DOMAIN item
      PROVE  /\ item'[i] \in DocumentImportBatchItem
             /\ item'[i].file = item[i].file /\ item'[i].batch = item[i].batch
             /\ item'[i].status \in Ended => item'[i].status = item[i].status
  <2>1. CASE i = j
    <3>1. PICK x : x = item'[i] /\ x = [item[i] EXCEPT !.target = t, !.status = new]
      BY <1>5, <2>1
    <3>2. /\ x \in DocumentImportBatchItem
          /\ x.file = item[i].file /\ x.batch = item[i].batch /\ x.status = new
      BY <1>6, <3>1, ItemsAre DEF DocumentImportBatchItem
    <3> QED BY <1>6, <3>1, <3>2
  <2>2. CASE i # j
    BY <1>5, <2>2, LenProperties DEF RowsFit
  <2> QED BY <2>1, <2>2
<1>8. item' = [i \in DOMAIN item |-> item'[i]]
  BY <1>5
<1> QED BY <1>7, <1>8 DEF ItemsKept

LEMMA CommitKeepsItems ==
    ASSUME RowsFit, RequestsFit, NEW r \in Requests, item' = Committed(request[r].wrote)
    PROVE  /\ ItemsKept
           /\ \A i \in DOMAIN item :
                 item'[i].status = IF i \in DOMAIN request[r].wrote THEN request[r].wrote[i]
                                                                   ELSE item[i].status
<1> DEFINE w == request[r].wrote
<1>1. \A i \in DOMAIN w : w[i] \in Assignable \cup Ended
  BY DEF RequestsFit, RequestFits, Assignable, Open, Ended
<1>2. item' = [i \in DOMAIN item |-> IF i \in DOMAIN w THEN [item[i] EXCEPT !.status = w[i]]
                                                      ELSE item[i]]
  BY DEF Committed
<1>3. ASSUME NEW i \in DOMAIN item
      PROVE  /\ item'[i] \in DocumentImportBatchItem
             /\ item'[i].file = item[i].file /\ item'[i].batch = item[i].batch
             /\ item'[i].status = IF i \in DOMAIN w THEN w[i] ELSE item[i].status
  <2>1. CASE i \in DOMAIN w
    <3>1. PICK x, s : /\ x = item'[i] /\ x = [item[i] EXCEPT !.status = s]
                      /\ s = w[i] /\ s \in Assignable \cup Ended
      BY <1>1, <1>2, <2>1
    <3>2. /\ x \in DocumentImportBatchItem
          /\ x.file = item[i].file /\ x.batch = item[i].batch /\ x.status = s
      BY <3>1, ItemsAre DEF DocumentImportBatchItem
    <3> HIDE DEF w
    <3> QED BY <2>1, <3>1, <3>2
  <2>2. CASE i \notin DOMAIN w
    BY <1>2, <2>2, LenProperties DEF RowsFit
  <2> QED BY <2>1, <2>2
<1>4. item' = [i \in DOMAIN item |-> item'[i]]
  BY <1>2
<1> QED BY <1>3, <1>4 DEF ItemsKept

\* A step that writes rows, but adds none.
LEMMA RowsRewritten ==
    ASSUME RowsFit, ItemsKept,
           docs' \in [Files -> Nat], \A f \in Files : docs'[f] >= docs[f],
           batch' \in Seq(DocumentImportBatch), DOMAIN batch' = DOMAIN batch,
           blob' \subseteq blob,
           discarded \subseteq discarded', discarded' \subseteq DOMAIN batch,
           crashes' \in Nat, crashes <= crashes'
    PROVE  RowsFit' /\ Grows
<1>1. /\ Len(item) \in Nat /\ DOMAIN item = 1..Len(item)
      /\ item' \in [1..Len(item) -> DocumentImportBatchItem]
  BY LenProperties DEF RowsFit, ItemsKept
<1>2. item' \in Seq(DocumentImportBatchItem)
  BY <1>1
<1>3. DocumentImportBatchItem' = DocumentImportBatchItem
  BY DEF DocumentImportBatchItem
<1>4. RowsFit'
  <2>1. item' \in Seq(DocumentImportBatchItem')
    BY <1>2, <1>3
  <2>2. DOMAIN item' = DOMAIN item
    BY <1>1
  <2> QED BY <2>1, <2>2 DEF RowsFit
<1>5. Grows
  BY <1>1 DEF Grows, ItemsKept
<1> QED BY <1>4, <1>5

LEMMA ItemsUnchanged == RowsFit /\ UNCHANGED item => ItemsKept
<1> SUFFICES ASSUME RowsFit, UNCHANGED item PROVE ItemsKept
  OBVIOUS
<1>1. item = [i \in DOMAIN item |-> item[i]]
  BY LenProperties DEF RowsFit
<1> QED BY <1>1, ItemsAre DEF ItemsKept

LEMMA DocsMade ==
    ASSUME RowsFit, RequestsFit, NEW r \in Requests, NEW f \in Files
    PROVE  LET made == {i \in DOMAIN request[r].wrote :
                          request[r].wrote[i] = "imported" /\ item[i].file = f}
           IN  Cardinality(made) \in Nat /\ (made # {} => Cardinality(made) > 0)
<1> DEFINE made == {i \in DOMAIN request[r].wrote :
                      request[r].wrote[i] = "imported" /\ item[i].file = f}
<1>1. made \subseteq DOMAIN item
  BY DEF RequestsFit, RequestFits, ItemsOf
<1>2. IsFiniteSet(DOMAIN item)
  BY LenProperties, FS_Interval DEF RowsFit
<1> HIDE DEF made
<1>3. IsFiniteSet(made)
  BY <1>1, <1>2, FS_Subset
<1>4. Cardinality(made) \in Nat /\ (Cardinality(made) = 0 <=> made = {})
  BY <1>3, FS_CardinalityType, FS_EmptySet
<1> QED BY <1>4 DEF made

\* A commit adds documents, and completes the batch or leaves it.
LEMMA FinalizedRows ==
    ASSUME RowsFit, RequestsFit, NEW r \in Requests, CommitFinalized(r)
    PROVE  /\ docs' \in [Files -> Nat] /\ \A f \in Files : docs'[f] >= docs[f]
           /\ \A i \in DOMAIN request[r].wrote :
                 request[r].wrote[i] = "imported" => docs'[item[i].file] > 0
           /\ batch' \in Seq(DocumentImportBatch) /\ DOMAIN batch' = DOMAIN batch
<1> DEFINE made(f) == {i \in DOMAIN request[r].wrote :
                         request[r].wrote[i] = "imported" /\ item[i].file = f}
<1>1. docs' = [f \in Files |-> docs[f] + Cardinality(made(f))] /\ docs \in [Files -> Nat]
  BY DEF CommitFinalized, RowsFit
<1>2. \A f \in Files : Cardinality(made(f)) \in Nat /\ (made(f) # {} => Cardinality(made(f)) > 0)
  BY DocsMade
<1>3. ASSUME NEW i \in DOMAIN request[r].wrote, request[r].wrote[i] = "imported"
      PROVE  item[i].file \in Files /\ i \in made(item[i].file)
  <2>1. i \in DOMAIN item
    BY DEF RequestsFit, RequestFits, ItemsOf
  <2> QED BY <1>3, <2>1, ItemsAre DEF DocumentImportBatchItem
<1>4. batch' = batch \/ batch' = [batch EXCEPT ![request[r].batch] = "completed"]
  BY DEF CommitFinalized
<1>5. batch' \in Seq(DocumentImportBatch) /\ DOMAIN batch' = DOMAIN batch
  <2>1. /\ Len(batch) \in Nat /\ DOMAIN batch = 1..Len(batch)
        /\ batch \in [1..Len(batch) -> DocumentImportBatch]
    BY LenProperties DEF RowsFit
  <2>2. batch' \in [1..Len(batch) -> DocumentImportBatch]
    BY <1>4, <2>1 DEF DocumentImportBatch
  <2> QED BY <2>1, <2>2
<1> HIDE DEF made
<1>6. \A f \in Files : docs'[f] = docs[f] + Cardinality(made(f)) /\ docs[f] \in Nat
  BY <1>1
<1>7. docs' \in [Files -> Nat] /\ \A f \in Files : docs'[f] >= docs[f]
  BY <1>1, <1>2, <1>6
<1>8. ASSUME NEW i \in DOMAIN request[r].wrote, request[r].wrote[i] = "imported"
      PROVE  docs'[item[i].file] > 0
  <2>1. item[i].file \in Files /\ made(item[i].file) # {}
    BY <1>3, <1>8
  <2>2. PICK f \in Files : f = item[i].file /\ made(f) # {}
    BY <2>1
  <2> QED BY <1>2, <1>6, <2>2
<1> QED BY <1>5, <1>7, <1>8

\* Whatever a step does, rows stay rows, and nothing goes.
LEMMA RowsStay ==
    ASSUME Polling, RowsFit, RequestsFit, [Next]_vars
    PROVE  RowsFit' /\ Grows
<1>1. docs \in [Files -> Nat] /\ crashes \in Nat /\ blob \subseteq DOMAIN item
      /\ batch \in Seq(DocumentImportBatch) /\ discarded \subseteq DOMAIN batch
  BY DEF RowsFit
<1>2. \A f \in Files : docs[f] >= docs[f]
  BY <1>1
<1>3. CASE NothingStaged
  BY <1>1, <1>2, <1>3, ItemsUnchanged, RowsRewritten DEF NothingStaged
<1>4. CASE DocumentMade
  <2>1. PICK f \in Files, n \in {0, 1} : docs' = [docs EXCEPT ![f] = @ + n]
    BY <1>4 DEF DocumentMade
  <2>2. docs' \in [Files -> Nat] /\ \A g \in Files : docs'[g] >= docs[g]
    BY <1>1, <2>1
  <2> QED BY <1>1, <1>4, <2>2, ItemsUnchanged, RowsRewritten DEF DocumentMade
<1>5. CASE PollKilled
  BY <1>1, <1>2, <1>5, ItemsUnchanged, RowsRewritten DEF PollKilled
<1>6. CASE FilesStaged
  <2>1. PICK files \in SUBSET Files, suggested \in BOOLEAN : Stage(files, suggested)
    BY <1>6 DEF FilesStaged
  <2>2. /\ batch' \in Seq(DocumentImportBatch) /\ DOMAIN batch \subseteq DOMAIN batch'
        /\ item' \in Seq(DocumentImportBatchItem)' /\ DOMAIN item \subseteq DOMAIN item'
        /\ \A i \in DOMAIN item : item'[i] = item[i]
        /\ blob' \subseteq DOMAIN item'
    BY <2>1, StagedIs
  <2>3. UNCHANGED <<docs, discarded, crashes>>
    BY <1>6 DEF FilesStaged
  <2>4. RowsFit'
    BY <1>1, <2>2, <2>3 DEF RowsFit
  <2>5. Grows
    BY <1>1, <1>2, <2>2, <2>3 DEF Grows
  <2> QED BY <2>4, <2>5
<1>7. ASSUME NEW r \in Requests, RequestStep(r)
      PROVE  RowsFit' /\ Grows
  <2>1. CASE UNCHANGED <<docs, batch, item, discarded, crashes>> /\ blob' \subseteq blob
    BY <1>1, <1>2, <2>1, ItemsUnchanged, RowsRewritten
  <2>2. CASE SaveItems(r)
    <3>1. UNCHANGED <<docs, batch, blob, discarded, crashes>>
      BY <2>2 DEF SaveItems
    <3>2. ItemsKept
      BY <2>2, SaveKeepsItems
    <3> QED BY <1>1, <1>2, <3>1, <3>2, RowsRewritten
  <2>3. CASE AssignItem(r)
    <3>1. UNCHANGED <<docs, batch, blob, discarded, crashes>>
      BY <2>3 DEF AssignItem
    <3>2. ItemsKept
      BY <2>3, AssignKeepsItems
    <3> QED BY <1>1, <1>2, <3>1, <3>2, RowsRewritten
  <2>4. CASE CommitFinalized(r)
    <3>1. ItemsKept
      BY <2>4, CommitKeepsItems DEF CommitFinalized
    <3>2. UNCHANGED <<blob, discarded, crashes>>
      BY <2>4 DEF CommitFinalized
    <3> QED BY <1>1, <2>4, <3>1, <3>2, FinalizedRows, RowsRewritten
  <2>5. CASE CommitDiscarded(r)
    <3>1. ItemsKept
      BY <2>5, CommitKeepsItems DEF CommitDiscarded
    <3>2. request[r].batch \in DOMAIN batch
      BY <2>5 DEF CommitDiscarded, RequestsFit, RequestFits
    <3>3. batch' \in Seq(DocumentImportBatch) /\ DOMAIN batch' = DOMAIN batch
      <4>1. /\ Len(batch) \in Nat /\ DOMAIN batch = 1..Len(batch)
            /\ batch \in [1..Len(batch) -> DocumentImportBatch]
        BY LenProperties DEF RowsFit
      <4>2. batch' \in [1..Len(batch) -> DocumentImportBatch]
        BY <2>5, <4>1 DEF DocumentImportBatch, CommitDiscarded
      <4> QED BY <4>1, <4>2
    <3>4. UNCHANGED <<docs, blob, crashes>> /\ discarded' = discarded \cup {request[r].batch}
      BY <2>5 DEF CommitDiscarded
    <3> QED BY <1>1, <1>2, <3>1, <3>2, <3>3, <3>4, RowsRewritten
  <2>6. CASE RequestDies(r)
    BY <1>1, <1>2, <2>6, ItemsUnchanged, RowsRewritten DEF RequestDies
  <2>7. CASE DropFile(r) \/ WriteItem(r)
    BY <2>1, <2>7 DEF DropFile, WriteItem, FilesAfter
  <2> QED BY <1>7, <2>1, <2>2, <2>3, <2>4, <2>5, <2>6, <2>7
          DEF RequestStep, LoadPage, LoadDiscard, LoadItem, Load, ListItems, ReadItem,
              ListDiscarded, SkipDropped
<1> QED BY <1>3, <1>4, <1>5, <1>6, <1>7, OnlyTheseTouchBatches

\* The first of some items is one of them.
LEMMA LowestIsOne ==
    ASSUME NEW S \in SUBSET Nat, S # {}
    PROVE  Lowest(S) \in S
<1> DEFINE R == OpToRel(<, Nat)
<1>1. IsWellFoundedOn(R, Nat)
  BY NatLessThanWellFounded
<1>2. \A x, y \in Nat : x < y => <<x, y>> \in R
  BY DEF OpToRel
<1> HIDE DEF R
<1>3. PICK m \in S : \A x \in S : ~ (<<x, m>> \in R)
  BY <1>1, WFMin
<1>4. \A x \in S : ~ (x < m)
  BY <1>2, <1>3
<1>5. \A x \in S : m <= x
  BY <1>4
<1> QED BY <1>5 DEF Lowest

\* A request that a step leaves alone.
LEMMA SameRequest ==
    ASSUME RowsFit, RowsFit', RequestsFit, Grows, NEW r \in Requests, request'[r] = request[r]
    PROVE  RequestFits(request[r])' /\ DuplicatesKnown(r)'
<1> DEFINE q == request[r]
<1>1. RequestFits(q) /\ DuplicatesKnown(r)
  BY DEF RequestsFit
<1>2. ItemsOf(q.batch) \subseteq ItemsOf(q.batch)'
  BY DEF ItemsOf, Grows
<1>3. RequestFits(request[r])'
  BY <1>1, <1>2 DEF RequestFits, Grows
<1>4. ASSUME NEW i \in DOMAIN item, Known(r, item[i].file)
      PROVE  Known(r, item[i].file)'
  <2>1. item'[i].file = item[i].file /\ item[i].file \in Files
    BY ItemsAre DEF Grows, DocumentImportBatchItem
  <2>2. CASE docs[item[i].file] > 0
    <3>1. docs'[item[i].file] > 0
      <4>1. PICK f \in Files : f = item[i].file
        BY <2>1
      <4>2. docs[f] \in Nat /\ docs'[f] \in Nat
        BY DEF RowsFit
      <4> QED BY <2>2, <4>1, <4>2 DEF Grows
    <3> QED BY <2>1, <3>1 DEF Known
  <2>3. CASE \E j \in DOMAIN q.wrote : q.wrote[j] = "imported" /\ item[j].file = item[i].file
    <3>1. PICK j \in DOMAIN q.wrote : q.wrote[j] = "imported" /\ item[j].file = item[i].file
      BY <2>3
    <3>2. j \in DOMAIN item
      BY <1>1 DEF RequestFits, ItemsOf
    <3>3. item'[j].file = item[j].file
      BY <3>2 DEF Grows
    <3> QED BY <2>1, <3>1, <3>3 DEF Known
  <2> QED BY <1>4, <2>2, <2>3 DEF Known
<1>5. DOMAIN q.wrote \subseteq DOMAIN item /\ q.left \subseteq DOMAIN item
  BY <1>1 DEF RequestFits, ItemsOf
<1>6. q.pc = "duplicate" => Lowest(q.left) \in DOMAIN item
  <2> SUFFICES ASSUME q.pc = "duplicate" PROVE Lowest(q.left) \in DOMAIN item
    OBVIOUS
  <2>1. q.left # {} /\ q.left \in SUBSET Nat
    <3>1. DOMAIN item \subseteq Nat
      BY LenProperties DEF RowsFit
    <3> QED BY <1>1, <1>5, <3>1 DEF RequestFits
  <2> QED BY <1>5, <2>1, LowestIsOne
<1>7. DuplicatesKnown(r)'
  BY <1>1, <1>4, <1>5, <1>6 DEF DuplicatesKnown
<1> QED BY <1>3, <1>7

IsRequest(q) ==
    q = [pc |-> q.pc, batch |-> q.batch, seen |-> q.seen, left |-> q.left, wrote |-> q.wrote]

LEMMA OneRequestChanges ==
    ASSUME RowsFit, RowsFit', RequestsFit, Grows, NEW r \in Requests, NEW new,
           request' = [request EXCEPT ![r] = new], IsRequest(new), RequestFits(new)',
           DuplicatesKnown(r)'
    PROVE  RequestsFit'
<1>1. \A q \in Requests : q # r => request'[q] = request[q]
  BY DEF RequestsFit
<1>2. request'[r] = new
  BY DEF RequestsFit
<1>3. \A q \in Requests : RequestFits(request[q])' /\ DuplicatesKnown(q)'
  BY <1>1, <1>2, SameRequest
<1>4. \A q \in Requests : IsRequest(request'[q])
  BY <1>1, <1>2 DEF RequestsFit, IsRequest
<1>5. request' = [q \in Requests |-> request'[q]]
  BY DEF RequestsFit
<1>6. request' = [q \in Requests |->
                    [pc |-> request'[q].pc, batch |-> request'[q].batch, seen |-> request'[q].seen,
                     left |-> request'[q].left, wrote |-> request'[q].wrote]]
  BY <1>4, <1>5 DEF IsRequest
<1> QED BY <1>3, <1>6 DEF RequestsFit

\* A request that has ended, or begins.
LEMMA IdleRequest ==
    ASSUME RowsFit, RowsFit', RequestsFit, Grows, NEW r \in Requests,
           request' = [request EXCEPT ![r] = Idle]
    PROVE  RequestsFit'
<1>1. DOMAIN <<>> = {}
  OBVIOUS
<1>2. IsRequest(Idle) /\ RequestFits(Idle)'
  BY <1>1 DEF IsRequest, RequestFits, Idle, Waiting
<1>3. request'[r] = Idle
  BY DEF RequestsFit
<1>4. DuplicatesKnown(r)'
  BY <1>1, <1>3 DEF DuplicatesKnown, Idle
<1> QED BY <1>2, <1>4, OneRequestChanges

LEMMA LoadFits ==
    ASSUME RowsFit, RowsFit', RequestsFit, Grows, NEW r \in Requests,
           NEW b \in DOMAIN batch, NEW pc \in {"save", "saveAndFinalize", "assign", "discard"},
           NEW items \in SUBSET ItemsOf(b), Load(r, b, pc, items)
    PROVE  RequestsFit'
<1>0. PICK seen : seen = [i \in items |-> item[i].status]
  OBVIOUS
<1> DEFINE new == [Idle EXCEPT !.pc = pc, !.batch = b, !.seen = seen]
<1>1. request' = [request EXCEPT ![r] = new] /\ UNCHANGED <<docs, batch, item, blob>>
  BY <1>0 DEF Load
<1>2. DOMAIN <<>> = {}
  OBVIOUS
<1>3. /\ IsRequest(new) /\ new.pc = pc /\ new.batch = b /\ DOMAIN new.seen = items
      /\ new.left = {} /\ new.wrote = <<>>
  <2>1. new = [Idle EXCEPT !.pc = pc, !.batch = b, !.seen = seen]
    OBVIOUS
  <2>2. DOMAIN seen = items
    BY <1>0
  <2> HIDE DEF new
  <2> QED BY <2>1, <2>2 DEF IsRequest, Idle
<1> HIDE DEF new
<1>4. RequestFits(new)'
  <2>1. items \subseteq ItemsOf(b)'
    BY <1>1 DEF ItemsOf
  <2> QED BY <1>1, <1>2, <1>3, <2>1 DEF RequestFits, Waiting
<1>5. request'[r] = new
  BY <1>1 DEF RequestsFit
<1>6. DuplicatesKnown(r)'
  BY <1>2, <1>3, <1>5 DEF DuplicatesKnown
<1> QED BY <1>1, <1>3, <1>4, <1>6, OneRequestChanges

\* Before the items are listed nothing is written yet.
LEMMA SaveAndListFit ==
    ASSUME RowsFit, RowsFit', RequestsFit, Grows, NEW r \in Requests, SaveItems(r) \/ ListItems(r)
    PROVE  RequestsFit'
<1> DEFINE q == request[r]
<1>1. /\ IsRequest(q) /\ RequestFits(q) /\ q.pc \in {"save", "saveAndFinalize", "list"}
      /\ DOMAIN q.wrote = {} /\ q.left = {} /\ q.batch \in DOMAIN batch
  BY DEF RequestsFit, IsRequest, RequestFits, SaveItems, ListItems, Waiting
<1>2. PICK b : b = q.batch
  OBVIOUS
<1>3. ItemsOf(b) \subseteq ItemsOf(b)' /\ b \in DOMAIN batch'
  BY <1>1, <1>2 DEF ItemsOf, Grows
<1>4. ASSUME NEW new, request' = [request EXCEPT ![r] = new], IsRequest(new),
             new.pc \in {"list", "item"}, new.batch = b, new.wrote = q.wrote,
             DOMAIN new.seen \cup new.left \subseteq ItemsOf(b), new.pc = "list" => new.left = {}
      PROVE  RequestsFit'
  <2>1. RequestFits(new)'
    BY <1>1, <1>3, <1>4 DEF RequestFits, Waiting, Finalizing, Dropping
  <2>2. request'[r] = new
    BY <1>4 DEF RequestsFit
  <2>3. DuplicatesKnown(r)'
    BY <1>1, <1>4, <2>2 DEF DuplicatesKnown
  <2> QED BY <1>4, <2>1, <2>3, OneRequestChanges
<1>5. CASE SaveItems(r)
  <2>1. \/ request' = [request EXCEPT ![r] = Idle]
        \/ request' = [request EXCEPT ![r] = [q EXCEPT !.pc = "list", !.seen = <<>>]]
    BY <1>5 DEF SaveItems
  <2>2. CASE request' = [request EXCEPT ![r] = [q EXCEPT !.pc = "list", !.seen = <<>>]]
    <3>1. PICK new : new = [q EXCEPT !.pc = "list", !.seen = <<>>]
      OBVIOUS
    <3>2. /\ IsRequest(new) /\ new.pc = "list" /\ new.batch = q.batch /\ new.wrote = q.wrote
          /\ new.seen = <<>> /\ new.left = q.left
      <4> HIDE DEF q
      <4> QED BY <1>1, <3>1 DEF IsRequest
    <3>3. DOMAIN new.seen = {}
      BY <3>2
    <3> QED BY <1>1, <1>2, <1>4, <2>2, <3>1, <3>2, <3>3
  <2> QED BY <2>1, <2>2, IdleRequest
<1>6. CASE ListItems(r)
  <2> DEFINE todo == {i \in ItemsOf(q.batch) : item[i].status \in Open}
  <2>1. PICK new : /\ new = [q EXCEPT !.pc = "item", !.left = todo,
                                       !.seen = [i \in todo |-> item[i].target]]
                   /\ request' = [request EXCEPT ![r] = new]
    BY <1>6 DEF ListItems
  <2>2. todo \subseteq ItemsOf(q.batch)
    OBVIOUS
  <2>3. /\ IsRequest(new) /\ new.pc = "item" /\ new.batch = q.batch /\ new.wrote = q.wrote
        /\ DOMAIN new.seen = todo /\ new.left = todo
    <3> HIDE DEF todo
    <3> QED BY <1>1, <2>1 DEF IsRequest
  <2> HIDE DEF todo
  <2> QED BY <1>2, <1>4, <2>1, <2>2, <2>3
<1> QED BY <1>5, <1>6

LEMMA ReadFits ==
    ASSUME RowsFit, RowsFit', RequestsFit, Grows, NEW r \in Requests, ReadItem(r)
    PROVE  RequestsFit'
<1> DEFINE q == request[r]
           i == Lowest(q.left)
<1>1. IsRequest(q) /\ RequestFits(q) /\ DuplicatesKnown(r) /\ q.pc = "item" /\ q.left # {}
  BY DEF RequestsFit, IsRequest, ReadItem
<1>2. PICK o \in Outcome(r, i) : request' = [request EXCEPT ![r].pc = o]
  BY DEF ReadItem
<1>3. /\ o \in {"imported", "duplicate", "error"}
      /\ o = "duplicate" => Known(r, item[i].file)
  BY <1>2 DEF Outcome
<1>4. PICK new : new = [q EXCEPT !.pc = o] /\ request' = [request EXCEPT ![r] = new]
  BY <1>2
<1>5. /\ IsRequest(new) /\ new.pc = o /\ new.batch = q.batch /\ new.wrote = q.wrote
      /\ new.seen = q.seen /\ new.left = q.left
  BY <1>1, <1>4 DEF IsRequest
<1>6. UNCHANGED <<docs, batch, item>>
  BY DEF ReadItem
<1>7. RequestFits(new)'
  BY <1>1, <1>3, <1>5, <1>6 DEF RequestFits, ItemsOf, Waiting, Finalizing, Dropping
<1>8. request'[r] = new
  BY <1>4 DEF RequestsFit
<1>9. \A f : Known(r, f) => Known(r, f)'
  BY <1>5, <1>6, <1>8 DEF Known
<1>10. DuplicatesKnown(r)'
  BY <1>1, <1>3, <1>5, <1>6, <1>8, <1>9 DEF DuplicatesKnown
<1> QED BY <1>4, <1>5, <1>7, <1>10, OneRequestChanges

LEMMA WriteFits ==
    ASSUME RowsFit, RowsFit', RequestsFit, Grows, NEW r \in Requests, WriteItem(r)
    PROVE  /\ RequestsFit'
           /\ \A i \in DOMAIN request[r].wrote : /\ i \in DOMAIN request'[r].wrote
                                                 /\ request'[r].wrote[i] = request[r].wrote[i]
           /\ blob' # blob => \E i \in DOMAIN request'[r].wrote :
                                 blob' = blob \ {i} /\ request'[r].wrote[i] # "error"
<1> DEFINE q == request[r]
           i == Lowest(q.left)
<1>1. /\ IsRequest(q) /\ RequestFits(q) /\ DuplicatesKnown(r)
      /\ q.pc \in {"imported", "duplicate", "error"} /\ q.left # {}
  <2>1. IsRequest(q) /\ RequestFits(q) /\ DuplicatesKnown(r)
    BY DEF RequestsFit, IsRequest
  <2>2. q.pc \in {"imported", "duplicate", "error"}
    BY DEF WriteItem
  <2> QED BY <2>1, <2>2 DEF RequestFits
<1>2. i \in q.left /\ i \notin DOMAIN q.wrote
  <2>1. q.left \in SUBSET Nat
    BY <1>1, LenProperties DEF RequestFits, ItemsOf, RowsFit
  <2> QED BY <1>1, <2>1, LowestIsOne DEF RequestFits
<1>3. PICK k : k = i
  OBVIOUS
<1>4. PICK w : w = [j \in DOMAIN q.wrote \cup {k} |-> IF j = k THEN q.pc ELSE q.wrote[j]]
  OBVIOUS
<1>5. PICK new : /\ new = [q EXCEPT !.pc = "item", !.left = @ \ {k}, !.wrote = w]
                 /\ request' = [request EXCEPT ![r] = new]
  BY <1>3, <1>4 DEF WriteItem
<1>6. UNCHANGED <<docs, batch, item>> /\ blob' = FilesAfter(k, q.pc)
  BY <1>3 DEF WriteItem
<1>7. /\ IsRequest(new) /\ new.pc = "item" /\ new.batch = q.batch /\ new.wrote = w
      /\ new.seen = q.seen /\ new.left = q.left \ {k}
  BY <1>1, <1>5 DEF IsRequest
<1>8. /\ DOMAIN w = DOMAIN q.wrote \cup {k} /\ w[k] = q.pc /\ k \in q.left /\ k \notin DOMAIN q.wrote
      /\ \A j \in DOMAIN q.wrote : w[j] = q.wrote[j]
  BY <1>2, <1>3, <1>4
<1> HIDE DEF i
<1>9. RequestFits(new)'
  BY <1>1, <1>6, <1>7, <1>8 DEF RequestFits, ItemsOf, Waiting, Finalizing, Dropping, Ended
<1>10. request'[r] = new
  BY <1>5 DEF RequestsFit
<1>11. \A f : Known(r, f) => Known(r, f)'
  BY <1>6, <1>7, <1>8, <1>10 DEF Known
<1>12. q.pc = "duplicate" => Known(r, item[k].file)
  BY <1>1, <1>3 DEF DuplicatesKnown, i
<1>13. DuplicatesKnown(r)'
  BY <1>1, <1>6, <1>7, <1>8, <1>10, <1>11, <1>12 DEF DuplicatesKnown
<1>14. RequestsFit'
  BY <1>5, <1>7, <1>9, <1>13, OneRequestChanges
<1>15. blob' # blob => blob' = blob \ {k} /\ w[k] # "error" /\ k \in DOMAIN w
  BY <1>6, <1>8 DEF FilesAfter
<1> QED BY <1>7, <1>8, <1>10, <1>14, <1>15

LEMMA ListDiscardedFits ==
    ASSUME RowsFit, RowsFit', RequestsFit, Grows, NEW r \in Requests, ListDiscarded(r)
    PROVE  RequestsFit'
<1> DEFINE q == request[r]
           mine == {i \in ItemsOf(q.batch) : item[i].status \in Assignable}
<1>1. IsRequest(q) /\ RequestFits(q) /\ q.pc = "discard"
  BY DEF RequestsFit, IsRequest, ListDiscarded
<1>2. DOMAIN q.wrote = {} /\ q.batch \in DOMAIN batch
  BY <1>1 DEF RequestFits, Waiting
<1>3. PICK new : new = [q EXCEPT !.pc = "drop", !.left = mine] /\ request' = [request EXCEPT ![r] = new]
  BY DEF ListDiscarded
<1>4. UNCHANGED <<docs, batch, item>> /\ mine \subseteq ItemsOf(q.batch)
  BY DEF ListDiscarded
<1> HIDE DEF mine
<1>5. /\ IsRequest(new) /\ new.pc = "drop" /\ new.batch = q.batch /\ new.wrote = q.wrote
      /\ new.seen = q.seen /\ new.left = mine
  BY <1>1, <1>3 DEF IsRequest
<1>6. RequestFits(new)'
  BY <1>1, <1>2, <1>4, <1>5 DEF RequestFits, ItemsOf, Waiting, Dropping
<1>7. request'[r] = new
  BY <1>3 DEF RequestsFit
<1>8. DuplicatesKnown(r)'
  BY <1>2, <1>5, <1>7 DEF DuplicatesKnown
<1> QED BY <1>3, <1>5, <1>6, <1>8, OneRequestChanges

LEMMA DropFits ==
    ASSUME RowsFit, RowsFit', RequestsFit, Grows, NEW r \in Requests, DropFile(r)
    PROVE  /\ RequestsFit'
           /\ request'[r].wrote = request[r].wrote
           /\ \A i \in blob \ blob' : InHands(r, i)'
<1> DEFINE q == request[r]
<1>1. IsRequest(q) /\ RequestFits(q) /\ q.pc = "drop" /\ q.left # {}
  BY DEF RequestsFit, IsRequest, DropFile
<1>2. PICK new : new = [q EXCEPT !.pc = "dropped"] /\ request' = [request EXCEPT ![r] = new]
  BY DEF DropFile
<1>3. UNCHANGED <<docs, batch, item>> /\ blob' = blob \ {Lowest(q.left)}
  BY DEF DropFile
<1>4. /\ IsRequest(new) /\ new.pc = "dropped" /\ new.batch = q.batch /\ new.wrote = q.wrote
      /\ new.seen = q.seen /\ new.left = q.left
  BY <1>1, <1>2 DEF IsRequest
<1>5. RequestFits(new)'
  BY <1>1, <1>3, <1>4 DEF RequestFits, ItemsOf, Waiting, Dropping
<1>6. request'[r] = new
  BY <1>2 DEF RequestsFit
<1>7. \A i \in DOMAIN new.wrote : new.wrote[i] = "skipped"
  BY <1>1, <1>4 DEF RequestFits, Dropping
<1>8. DuplicatesKnown(r)'
  BY <1>4, <1>6, <1>7 DEF DuplicatesKnown
<1>9. RequestsFit'
  BY <1>2, <1>4, <1>5, <1>8, OneRequestChanges
<1> QED BY <1>3, <1>4, <1>6, <1>9 DEF InHands

LEMMA SkipFits ==
    ASSUME RowsFit, RowsFit', RequestsFit, Grows, NEW r \in Requests, SkipDropped(r)
    PROVE  RequestsFit' /\ \A i : InHands(r, i) => InHands(r, i)'
<1> DEFINE q == request[r]
           i == Lowest(q.left)
<1>1. /\ IsRequest(q) /\ RequestFits(q) /\ q.pc = "dropped" /\ q.left # {}
  <2>1. IsRequest(q) /\ RequestFits(q) /\ q.pc = "dropped"
    BY DEF RequestsFit, IsRequest, SkipDropped
  <2> QED BY <2>1 DEF RequestFits
<1>2. i \in q.left /\ i \notin DOMAIN q.wrote
  <2>1. q.left \in SUBSET Nat
    BY <1>1, LenProperties DEF RequestFits, ItemsOf, RowsFit
  <2> QED BY <1>1, <2>1, LowestIsOne DEF RequestFits
<1>3. PICK k : k = i
  OBVIOUS
<1>4. PICK w : w = [j \in DOMAIN q.wrote \cup {k} |-> IF j = k THEN "skipped" ELSE q.wrote[j]]
  OBVIOUS
<1>5. PICK new : /\ new = [q EXCEPT !.pc = "drop", !.left = @ \ {k}, !.wrote = w]
                 /\ request' = [request EXCEPT ![r] = new]
  BY <1>3, <1>4 DEF SkipDropped
<1>6. UNCHANGED <<docs, batch, item>>
  BY DEF SkipDropped
<1>7. /\ IsRequest(new) /\ new.pc = "drop" /\ new.batch = q.batch /\ new.wrote = w
      /\ new.seen = q.seen /\ new.left = q.left \ {k}
  BY <1>1, <1>5 DEF IsRequest
<1>8. /\ DOMAIN w = DOMAIN q.wrote \cup {k} /\ k \in q.left
      /\ \A j \in DOMAIN w : w[j] = "skipped"
  BY <1>1, <1>2, <1>3, <1>4 DEF RequestFits, Dropping
<1>9. \A j \in DOMAIN q.wrote : q.wrote[j] = "skipped"
  BY <1>1 DEF RequestFits, Dropping
<1>10. RequestFits(new)'
  BY <1>1, <1>6, <1>7, <1>8 DEF RequestFits, ItemsOf, Waiting, Dropping
<1>11. request'[r] = new
  BY <1>5 DEF RequestsFit
<1>12. DuplicatesKnown(r)'
  BY <1>7, <1>8, <1>11 DEF DuplicatesKnown
<1>13. RequestsFit'
  BY <1>5, <1>7, <1>10, <1>12, OneRequestChanges
<1>14. ASSUME NEW j, InHands(r, j)
       PROVE  InHands(r, j)'
  <2>1. j \in DOMAIN w
    BY <1>3, <1>8, <1>14 DEF InHands
  <2> QED BY <1>7, <1>8, <1>11, <2>1 DEF InHands
<1> QED BY <1>13, <1>14

LEMMA RequestsStay ==
    ASSUME Polling, RowsFit, RequestsFit, [Next]_vars
    PROVE  RequestsFit'
<1>1. RowsFit' /\ Grows
  BY RowsStay
<1>2. CASE UNCHANGED request
  <2>1. \A r \in Requests : RequestFits(request[r])' /\ DuplicatesKnown(r)'
    BY <1>1, <1>2, SameRequest
  <2> QED BY <1>2, <2>1 DEF RequestsFit
<1>3. ASSUME NEW r \in Requests, RequestStep(r)
      PROVE  RequestsFit'
  <2>1. ASSUME NEW b \in DOMAIN batch, LoadPage(r, b)
        PROVE  RequestsFit'
    BY <1>1, <2>1, LoadFits DEF LoadPage
  <2>2. ASSUME NEW b \in DOMAIN batch, LoadDiscard(r, b)
        PROVE  RequestsFit'
    BY <1>1, <2>2, LoadFits DEF LoadDiscard
  <2>3. ASSUME NEW i \in DOMAIN item, LoadItem(r, i)
        PROVE  RequestsFit'
    <3>1. item[i].batch \in DOMAIN batch /\ {i} \subseteq ItemsOf(item[i].batch)
      BY ItemsAre DEF ItemsOf, DocumentImportBatchItem
    <3>2. Load(r, item[i].batch, "assign", {i})
      BY <2>3 DEF LoadItem
    <3> QED BY <1>1, <3>1, <3>2, LoadFits
  <2>4. CASE SaveItems(r) \/ ListItems(r)
    BY <1>1, <2>4, SaveAndListFit
  <2>5. CASE ReadItem(r)
    BY <1>1, <2>5, ReadFits
  <2>6. CASE WriteItem(r)
    BY <1>1, <2>6, WriteFits
  <2>7. CASE ListDiscarded(r) \/ DropFile(r) \/ SkipDropped(r)
    BY <1>1, <2>7, ListDiscardedFits, DropFits, SkipFits
  <2>8. CASE AssignItem(r) \/ CommitFinalized(r) \/ CommitDiscarded(r) \/ RequestDies(r)
    <3>1. request' = [request EXCEPT ![r] = Idle]
      BY <2>8 DEF AssignItem, CommitFinalized, CommitDiscarded, RequestDies
    <3> QED BY <1>1, <3>1, IdleRequest
  <2> QED BY <1>3, <2>1, <2>2, <2>3, <2>4, <2>5, <2>6, <2>7, <2>8 DEF RequestStep
<1> QED BY <1>2, <1>3, OnlyTheseTouchBatches
        DEF NothingStaged, DocumentMade, PollKilled, FilesStaged

\* Documents do not go away.
LEMMA DocsStay ==
    ASSUME RowsFit, RowsFit', Grows, NEW i \in DOMAIN item, docs[item[i].file] > 0
    PROVE  docs'[item'[i].file] > 0
<1>1. item'[i].file = item[i].file /\ item[i].file \in Files
  BY ItemsAre DEF Grows, DocumentImportBatchItem
<1>2. PICK f \in Files : f = item[i].file
  BY <1>1
<1>3. docs[f] \in Nat /\ docs'[f] \in Nat /\ docs'[f] >= docs[f]
  BY DEF RowsFit, Grows
<1> QED BY <1>1, <1>2, <1>3

\* What a finalization calls imported or a duplicate is a document once it has
\* committed.
LEMMA CommittedIsDocument ==
    ASSUME RowsFit, RowsFit', RequestsFit, Grows, NEW r \in Requests, CommitFinalized(r),
           NEW i \in DOMAIN request[r].wrote, request[r].wrote[i] \in Ended
    PROVE  docs'[item'[i].file] > 0
<1>1. DOMAIN request[r].wrote \subseteq DOMAIN item
  BY DEF RequestsFit, RequestFits, ItemsOf
<1>2. \A j \in DOMAIN request[r].wrote : item'[j].file = item[j].file
  BY <1>1 DEF Grows
<1>3. \A j \in DOMAIN request[r].wrote :
        request[r].wrote[j] = "imported" => docs'[item[j].file] > 0
  BY FinalizedRows
<1>4. CASE request[r].wrote[i] = "imported"
  BY <1>2, <1>3, <1>4
<1>5. CASE request[r].wrote[i] = "duplicate"
  <2>1. Known(r, item[i].file)
    BY <1>5 DEF RequestsFit, DuplicatesKnown
  <2>2. CASE docs[item[i].file] > 0
    BY <1>1, <2>2, DocsStay
  <2>3. CASE \E j \in DOMAIN request[r].wrote :
               request[r].wrote[j] = "imported" /\ item[j].file = item[i].file
    BY <1>2, <1>3, <2>3
  <2> QED BY <2>1, <2>2, <2>3 DEF Known
<1> QED BY <1>4, <1>5 DEF Ended

\* What becomes of the statuses.
LEMMA SaidStays ==
    ASSUME Polling, RowsFit, RequestsFit, SaidImported, [Next]_vars
    PROVE  SaidImported'
<1>1. RowsFit' /\ Grows
  BY RowsStay
<1>2. ASSUME NEW i \in DOMAIN item, item'[i].status \in Ended => item'[i].status = item[i].status
      PROVE  item'[i].status \in Ended => docs'[item'[i].file] > 0
  BY <1>1, <1>2, DocsStay DEF SaidImported, Ended
<1>3. CASE FilesStaged
  <2>1. PICK files \in SUBSET Files, suggested \in BOOLEAN : Stage(files, suggested)
    BY <1>3 DEF FilesStaged
  <2>2. /\ \A i \in DOMAIN item : item'[i] = item[i]
        /\ \A i \in DOMAIN item' \ DOMAIN item : item'[i].status = "staged"
    BY <2>1, StagedIs
  <2> QED BY <1>2, <2>2 DEF SaidImported, Ended
<1>4. CASE DOMAIN item' = DOMAIN item /\ \A i \in DOMAIN item :
             item'[i].status \in Ended => item'[i].status = item[i].status
  BY <1>2, <1>4 DEF SaidImported, Ended
<1>5. ASSUME ItemsKept
      PROVE  DOMAIN item' = DOMAIN item
  BY <1>5 DEF ItemsKept
<1>6. ASSUME NEW r \in Requests, CommitFinalized(r)
      PROVE  SaidImported'
  <2>1. /\ DOMAIN item' = DOMAIN item
        /\ \A i \in DOMAIN item :
              item'[i].status = IF i \in DOMAIN request[r].wrote THEN request[r].wrote[i]
                                                                ELSE item[i].status
    BY <1>5, <1>6, CommitKeepsItems DEF CommitFinalized
  <2>2. ASSUME NEW i \in DOMAIN item, item'[i].status \in Ended
        PROVE  docs'[item'[i].file] > 0
    <3>1. CASE i \in DOMAIN request[r].wrote
      BY <1>1, <1>6, <2>1, <2>2, <3>1, CommittedIsDocument
    <3>2. CASE i \notin DOMAIN request[r].wrote
      BY <1>2, <2>1, <2>2, <3>2
    <3> QED BY <3>1, <3>2
  <2> QED BY <2>1, <2>2 DEF SaidImported, Ended
<1>7. ASSUME NEW r \in Requests, CommitDiscarded(r)
      PROVE  SaidImported'
  <2>1. /\ DOMAIN item' = DOMAIN item
        /\ \A i \in DOMAIN item :
              item'[i].status = IF i \in DOMAIN request[r].wrote THEN request[r].wrote[i]
                                                                ELSE item[i].status
    BY <1>5, <1>7, CommitKeepsItems DEF CommitDiscarded
  <2>2. \A i \in DOMAIN request[r].wrote : request[r].wrote[i] \notin Ended
    BY <1>7 DEF CommitDiscarded, RequestsFit, RequestFits, Ended, Dropping
  <2> QED BY <1>4, <2>1, <2>2
<1>8. ASSUME NEW r \in Requests, SaveItems(r) \/ AssignItem(r)
      PROVE  SaidImported'
  BY <1>4, <1>5, <1>8, SaveKeepsItems, AssignKeepsItems
<1>9. CASE UNCHANGED item
  BY <1>4, <1>9
<1>10. ASSUME NEW r \in Requests, RequestStep(r)
       PROVE  SaidImported'
  BY <1>6, <1>7, <1>8, <1>9, <1>10 DEF RequestStep, LoadPage, LoadDiscard, LoadItem, Load, ListItems,
     ReadItem, WriteItem, ListDiscarded, DropFile, SkipDropped, RequestDies
<1> QED BY <1>3, <1>9, <1>10, OnlyTheseTouchBatches DEF NothingStaged, DocumentMade, PollKilled

\* A request that goes on keeps what it has in its hands, or has committed it.
LEMMA HeldStays ==
    ASSUME Polling, RowsFit, RequestsFit, FilesAccounted, [Next]_vars, crashes' = 0,
           NEW i \in DOMAIN item, Held(i)
    PROVE  docs'[item'[i].file] > 0 \/ item'[i].batch \in discarded' \/ Held(i)'
<1>1. RowsFit' /\ RequestsFit' /\ Grows
  BY RowsStay, RequestsStay
<1>2. PICK r \in Requests : InHands(r, i)
  BY DEF Held
<1>3. crashes = 0
  BY <1>1 DEF Grows, RowsFit
<1>4. ASSUME InHands(r, i)'
      PROVE  Held(i)'
  BY <1>4 DEF Held
<1>5. ASSUME request'[r] = request[r]
      PROVE  InHands(r, i)'
  BY <1>2, <1>5 DEF InHands
<1>6. ASSUME NEW q \in Requests, RequestStep(q)
      PROVE  docs'[item'[i].file] > 0 \/ item'[i].batch \in discarded' \/ Held(i)'
  <2>1. CASE r # q
    <3>1. \E new : request' = [request EXCEPT ![q] = new]
      BY <1>6 DEF RequestStep, LoadPage, LoadDiscard, LoadItem, Load, SaveItems, AssignItem, ListItems,
                  ReadItem, WriteItem, CommitFinalized, ListDiscarded, DropFile, SkipDropped,
                  CommitDiscarded, RequestDies
    <3>2. request'[r] = request[r]
      BY <2>1, <3>1 DEF RequestsFit
    <3> QED BY <1>4, <1>5, <3>2
  <2>2. CASE r = q
    <3>1. request[r].pc \in Finalizing \cup Dropping /\ request[r].pc \notin Waiting
      <4>1. RequestFits(request[r])
        BY DEF RequestsFit
      <4>2. request[r].pc \notin Waiting
        BY <1>2, <4>1 DEF RequestFits, InHands, Waiting
      <4> QED BY <4>1, <4>2 DEF RequestFits
    <3>2. request[r].pc # "dropped" => i \in DOMAIN request[r].wrote /\ request[r].wrote[i] # "error"
      BY <1>2 DEF InHands
    <3>3. CASE CommitFinalized(r)
      <4>1. i \in DOMAIN request[r].wrote /\ request[r].wrote[i] # "error" /\ request[r].pc = "item"
        BY <3>2, <3>3 DEF CommitFinalized
      <4>2. request[r].wrote[i] \in Ended
        BY <4>1 DEF RequestsFit, RequestFits, Dropping
      <4> QED BY <1>1, <3>3, <4>1, <4>2, CommittedIsDocument
    <3>4. CASE CommitDiscarded(r)
      <4>1. i \in DOMAIN request[r].wrote
        BY <3>2, <3>4 DEF CommitDiscarded
      <4>2. item[i].batch = request[r].batch
        BY <4>1 DEF RequestsFit, RequestFits, ItemsOf
      <4> QED BY <1>1, <3>4, <4>2 DEF CommitDiscarded, Grows
    <3>5. CASE ReadItem(r)
      <4>1. \A o : [request[r] EXCEPT !.pc = o].wrote = request[r].wrote
        BY DEF RequestsFit
      <4>2. PICK o : request'[r] = [request[r] EXCEPT !.pc = o]
        BY <3>5 DEF ReadItem, RequestsFit
      <4>3. request[r].pc # "dropped"
        BY <3>5 DEF ReadItem
      <4> QED BY <1>4, <3>2, <4>1, <4>2, <4>3 DEF InHands
    <3>6. CASE WriteItem(r)
      <4>1. request[r].pc # "dropped"
        BY <3>6 DEF WriteItem
      <4> QED BY <1>1, <1>4, <3>2, <3>6, <4>1, WriteFits DEF InHands
    <3>7. CASE DropFile(r)
      <4>1. request[r].pc # "dropped"
        BY <3>7 DEF DropFile
      <4> QED BY <1>1, <1>4, <3>2, <3>7, <4>1, DropFits DEF InHands
    <3>8. CASE SkipDropped(r)
      BY <1>1, <1>2, <1>4, <3>8, SkipFits
    <3>9. ~ RequestDies(r)
      BY <1>3 DEF RequestDies
    <3>10. ASSUME NEW b, NEW pc, NEW items, Load(r, b, pc, items)
           PROVE  FALSE
      BY <3>1, <3>10 DEF Load, Idle, Waiting
    <3>11. ~ (SaveItems(r) \/ AssignItem(r) \/ ListItems(r) \/ ListDiscarded(r))
      BY <3>1 DEF SaveItems, AssignItem, ListItems, ListDiscarded, Waiting
    <3>12. /\ \A b \in DOMAIN batch : ~ LoadPage(r, b) /\ ~ LoadDiscard(r, b)
           /\ \A j \in DOMAIN item : ~ LoadItem(r, j)
      BY <3>10 DEF LoadPage, LoadDiscard, LoadItem
    <3> QED BY <1>6, <2>2, <3>3, <3>4, <3>5, <3>6, <3>7, <3>8, <3>9, <3>11, <3>12 DEF RequestStep
  <2> QED BY <2>1, <2>2
<1>7. CASE UNCHANGED request
  BY <1>4, <1>5, <1>7
<1> QED BY <1>6, <1>7, OnlyTheseTouchBatches
        DEF NothingStaged, DocumentMade, PollKilled, FilesStaged

LEMMA FilesStayAccounted ==
    ASSUME Polling, RowsFit, RequestsFit, FilesAccounted, [Next]_vars
    PROVE  FilesAccounted'
<1>1. RowsFit' /\ RequestsFit' /\ Grows
  BY RowsStay, RequestsStay
<1> SUFFICES ASSUME crashes' = 0, NEW i \in DOMAIN item', i \notin blob'
             PROVE  docs'[item'[i].file] > 0 \/ item'[i].batch \in discarded' \/ Held(i)'
  BY DEF FilesAccounted
<1>2. crashes = 0
  BY <1>1 DEF Grows, RowsFit
<1>3. CASE i \in DOMAIN item /\ i \notin blob
  <2>1. CASE docs[item[i].file] > 0
    BY <1>1, <1>3, <2>1, DocsStay
  <2>2. CASE item[i].batch \in discarded
    BY <1>1, <1>3, <2>2 DEF Grows
  <2>3. CASE Held(i)
    BY <1>3, <2>3, HeldStays
  <2> QED BY <1>2, <1>3, <2>1, <2>2, <2>3 DEF FilesAccounted
<1>4. CASE i \in blob
  <2>1. ASSUME NEW r \in Requests, RequestStep(r)
        PROVE  Held(i)'
    <3>1. CASE WriteItem(r)
      BY <1>1, <1>4, <3>1, WriteFits DEF Held, InHands
    <3>2. CASE DropFile(r)
      BY <1>1, <1>4, <3>2, DropFits DEF Held
    <3> QED BY <1>4, <2>1, <3>1, <3>2 DEF RequestStep, LoadPage, LoadDiscard, LoadItem, Load,
               SaveItems, AssignItem, ListItems, ReadItem, CommitFinalized, ListDiscarded,
               SkipDropped, CommitDiscarded, RequestDies
  <2>2. CASE FilesStaged
    <3>1. blob \subseteq blob'
      BY <2>2, StagedIs DEF FilesStaged
    <3> QED BY <1>4, <3>1
  <2> QED BY <1>4, <2>1, <2>2, OnlyTheseTouchBatches DEF NothingStaged, DocumentMade, PollKilled
<1>5. CASE i \notin DOMAIN item
  <2>1. CASE FilesStaged
    BY <1>5, <2>1, StagedIs DEF FilesStaged
  <2>2. CASE ~ FilesStaged
    <3>1. DOMAIN item' = DOMAIN item
      <4>1. ASSUME NEW r \in Requests, RequestStep(r)
            PROVE  DOMAIN item' = DOMAIN item
        BY <4>1 DEF RequestStep, LoadPage, LoadDiscard, LoadItem, Load, SaveItems, AssignItem,
                    ListItems, ReadItem, WriteItem, CommitFinalized, Committed, ListDiscarded,
                    DropFile, SkipDropped, CommitDiscarded, RequestDies
      <4> QED BY <2>2, <4>1, OnlyTheseTouchBatches DEF NothingStaged, DocumentMade, PollKilled
    <3> QED BY <1>5, <3>1
  <2> QED BY <2>1, <2>2
<1> QED BY <1>3, <1>4, <1>5

-----------------------------------------------------------------------------
(***************************************************************************)
(* The theorems about batches.                                             *)
(***************************************************************************)

Intake == Polling /\ Mailing /\ Batches

LEMMA IntakeAtFirst == ASSUME Init PROVE Intake
<1>1. DOMAIN <<>> = {} /\ IsRequest(Idle)
  BY DEF Idle, IsRequest
<1>2. docs = [f \in Files |-> 0] /\ batch = <<>> /\ item = <<>> /\ blob = {} /\ discarded = {}
      /\ request = [r \in Requests |-> Idle] /\ crashes = 0 /\ bound \in Bounds
  BY DEF Init, BatchInit
<1>3. RowsFit
  BY <1>2, EmptySeq DEF RowsFit
<1>4. RequestsFit
  <2>1. \A r \in Requests : request[r] = Idle
    BY <1>2
  <2>2. RequestFits(Idle)
    BY <1>1 DEF RequestFits, Idle, Waiting
  <2>3. \A r \in Requests : DuplicatesKnown(r)
    BY <1>1, <2>1 DEF DuplicatesKnown, Idle
  <2>4. \A r \in Requests : IsRequest(request[r])
    BY <1>1, <2>1
  <2>5. request = [r \in Requests |-> request[r]]
    BY <1>2
  <2>6. request = [r \in Requests |->
                     [pc |-> request[r].pc, batch |-> request[r].batch, seen |-> request[r].seen,
                      left |-> request[r].left, wrote |-> request[r].wrote]]
    BY <2>4, <2>5 DEF IsRequest
  <2> QED BY <2>1, <2>2, <2>3, <2>6 DEF RequestsFit
<1>5. SaidImported /\ FilesAccounted
  BY <1>1, <1>2 DEF SaidImported, FilesAccounted
<1>6. Polling
  <2>1. poll = [p \in Polls |-> NotPolling]
    BY DEF Init
  <2>2. \A p \in Polls : poll[p] = NotPolling
    BY <2>1
  <2>3. poll = [p \in Polls |-> poll[p]]
    BY <2>1
  <2> QED BY <2>2, <2>3, IdleFits DEF Polling
<1>7. Mailing
  <2>1. mailbox = [present |-> {}, arrived |-> 0, seen |-> {}, deleted |-> {}, moved |-> {}]
    BY DEF Init
  <2>2. 0 \in 0..bound.mails
    BY <1>2, MailsAre, MailAssumption DEF MailAssumption
  <2>3. PICK t \in bound.targets, s \in bound.settings :
          source = [active |-> TRUE, target |-> t, boxActive |-> TRUE, set |-> Saved(s, FALSE)]
    BY DEF Init
  <2>4. t \in {"inbox", "fixed", "rules"} /\ s \in Setting
    BY <1>2, <2>3, MailAssumption DEF MailAssumption
  <2>5. Saved(s, FALSE) \in SavedSetting
    BY <2>4, SavedIs DEF Setting
  <2>6. source \in ImportSource
    BY <2>3, <2>4, <2>5 DEF ImportSource, SavedSetting
  <2> QED BY <1>2, <2>1, <2>2, <2>6 DEF Mailing, Present
<1> QED BY <1>3, <1>4, <1>5, <1>6, <1>7 DEF Intake, Batches

LEMMA IntakeStays == Intake /\ [Next]_vars => Intake'
BY PollingStays, MailingStays, RowsStay, RequestsStay, SaidStays, FilesStayAccounted DEF Intake, Batches

\* What a batch calls imported or a duplicate is a document, whatever finalization
\* was rolled back or overtaken, for any number of requests, files and polls.
THEOREM SaidImportedIsTrue == Spec => []SaidImported
<1>1. Intake => SaidImported
  BY DEF Intake, Batches
<1> QED BY <1>1, IntakeAtFirst, IntakeStays, PTL DEF Spec

\* A staged file is kept until it is a document or its batch was discarded, unless
\* a process was killed or a transaction failed, however requests overlap on old copies of a batch.
THEOREM FilesAlwaysKept == Spec => []FilesKeptUnlessKilled
<1>1. Intake => FilesKeptUnlessKilled
  <2> SUFFICES ASSUME Intake, crashes = 0, NEW i \in DOMAIN item, Lost(i)
               PROVE  item[i].batch \in discarded
    BY DEF FilesKeptUnlessKilled, FilesKept
  <2>1. i \notin blob /\ docs[item[i].file] = 0 /\ ~ InHand(i)
    BY DEF Lost
  <2>2. docs[item[i].file] > 0 \/ item[i].batch \in discarded \/ Held(i)
    BY <2>1 DEF Intake, Batches, FilesAccounted
  <2>3. ~ Held(i)
    BY <2>1 DEF InHand, Held, InHands
  <2> QED BY <2>1, <2>2, <2>3
<1> QED BY <1>1, IntakeAtFirst, IntakeStays, PTL DEF Spec

-----------------------------------------------------------------------------
(***************************************************************************)
(* Jobs and replies.                                                       *)
(***************************************************************************)

Jobs == job \in [Files -> SUBSET ImportJob] /\ JobsTellTruth

\* What a step does to the jobs: nothing, or a job of one content ends, or is
\* left behind in processing.
LEMMA JobsMove ==
    ASSUME Intake, [Next]_vars
    PROVE  \/ UNCHANGED job
           \/ \E f \in Files, s \in ImportJob :
                 /\ job' = [job EXCEPT ![f] = @ \cup {s}]
                 /\ s = "imported" => docs'[f] > 0
                 /\ s = "staged" => \E i \in DOMAIN item' : item'[i].file = f
<1> DEFINE Moved == \E f \in Files, s \in ImportJob :
                      /\ job' = [job EXCEPT ![f] = @ \cup {s}]
                      /\ s = "imported" => docs'[f] > 0
                      /\ s = "staged" => \E i \in DOMAIN item' : item'[i].file = f
<1>1. ASSUME NEW p \in Polls, PollStep(p)
      PROVE  UNCHANGED job \/ Moved
  <2>1. poll[p].left # <<>> => File(p) \in Files
    BY PageIsFile DEF Intake
  <2>2. poll[p].pc = "create" => poll[p].left # <<>>
    BY DEF Intake, Polling, PollFits
  <2>3. ASSUME NEW s \in ImportJob, JobEnds(p, s), File(p) \in Files,
               s = "imported" => docs'[File(p)] > 0,
               s = "staged" => \E i \in DOMAIN item' : item'[i].file = File(p)
        PROVE  UNCHANGED job \/ Moved
    BY <2>3 DEF JobEnds
  <2>4. CASE CheckAttachment(p)
    <3>1. UNCHANGED job \/ (JobEnds(p, "failed") /\ AtAttachment(p))
      BY <2>4 DEF CheckAttachment
    <3> QED BY <2>1, <2>3, <3>1 DEF AtAttachment, ImportJob
  <2>5. ASSUME NEW o \in Outcomes, CreateDocument(p, o)
        PROVE  UNCHANGED job \/ Moved
    <3>1. /\ poll[p].pc = "create" /\ JobEnds(p, JobStatus(o, "imported"))
          /\ docs' = [docs EXCEPT ![File(p)] = @ + (IF o = "undone" THEN 0 ELSE 1)]
      BY <2>5 DEF CreateDocument, Made
    <3>2. File(p) \in Files
      BY <2>1, <2>2, <3>1
    <3>3. JobStatus(o, "imported") = "imported" => docs'[File(p)] > 0
      <4> SUFFICES ASSUME o = "done" PROVE docs'[File(p)] > 0
        BY DEF JobStatus
      <4>1. docs'[File(p)] = docs[File(p)] + 1 /\ docs[File(p)] \in Nat
        BY <3>1, <3>2 DEF Intake, Batches, RowsFit
      <4> QED BY <4>1
    <3>4. JobStatus(o, "imported") \in ImportJob /\ JobStatus(o, "imported") # "staged"
      BY DEF JobStatus, ImportJob
    <3> QED BY <2>3, <3>1, <3>2, <3>3, <3>4
  <2>6. ASSUME NEW o \in Outcomes, NEW suggested \in BOOLEAN, StageAttachment(p, suggested, o)
        PROVE  UNCHANGED job \/ Moved
    <3>1. /\ File(p) \in Files /\ JobEnds(p, JobStatus(o, "staged"))
          /\ o # "undone" => Stage({File(p)}, suggested)
      BY <2>1, <2>6 DEF StageAttachment, AtAttachment, Made
    <3>2. o = "undone" => JobStatus(o, "staged") = "failed"
      BY DEF JobStatus
    <3>3. o # "undone" => \E i \in DOMAIN item' : item'[i].file = File(p)
      BY <3>1, StagedIs DEF Intake, Batches
    <3>4. JobStatus(o, "staged") \in ImportJob /\ JobStatus(o, "staged") # "imported"
      BY DEF JobStatus, ImportJob
    <3> QED BY <2>3, <3>1, <3>2, <3>3, <3>4
  <2>7. CASE PollDies(p)
    BY <2>1, <2>2, <2>7 DEF PollDies, ImportJob
  <2> QED BY <1>1, <2>4, <2>5, <2>6, <2>7 DEF PollStep, BeginPoll, BeginRequest, EndRequest,
              FetchMail, AttachmentRaises, LeaveMail, DisposeMail, MoveMail, ClaimReply,
              SendReply, ReplyFails, CloseMailbox, WritePollState
<1>2. CASE ~ \E p \in Polls : PollStep(p)
  BY <1>2 DEF Next, People, vars, mailVars, MailArrives, IntervalPasses, EditSource, Edit,
              DeactivateBox, ResetRecipient
<1> QED BY <1>1, <1>2

LEMMA JobsStay == ASSUME Intake, Jobs, [Next]_vars PROVE Jobs'
<1>1. RowsFit /\ RowsFit' /\ Grows
  BY RowsStay DEF Intake, Batches
<1>2. ASSUME NEW f \in Files, docs[f] > 0
      PROVE  docs'[f] > 0
  <2>1. docs[f] \in Nat /\ docs'[f] \in Nat /\ docs'[f] >= docs[f]
    BY <1>1 DEF RowsFit, Grows
  <2> QED BY <1>2, <2>1
<1>3. ASSUME NEW f \in Files, \E i \in DOMAIN item : item[i].file = f
      PROVE  \E i \in DOMAIN item' : item'[i].file = f
  BY <1>1, <1>3 DEF Grows
<1>4. CASE UNCHANGED job
  BY <1>2, <1>3, <1>4 DEF Jobs, JobsTellTruth
<1>5. ASSUME NEW f \in Files, NEW s \in ImportJob, job' = [job EXCEPT ![f] = @ \cup {s}],
             s = "imported" => docs'[f] > 0,
             s = "staged" => \E i \in DOMAIN item' : item'[i].file = f
      PROVE  Jobs'
  <2>1. job' \in [Files -> SUBSET ImportJob]
    BY <1>5 DEF Jobs
  <2>2. ASSUME NEW g \in Files
        PROVE  /\ "imported" \in job'[g] => docs'[g] > 0
               /\ "staged" \in job'[g] => \E i \in DOMAIN item' : item'[i].file = g
    BY <1>2, <1>3, <1>5, <2>2 DEF Jobs, JobsTellTruth
  <2> QED BY <2>1, <2>2 DEF Jobs, JobsTellTruth
<1> QED BY <1>4, <1>5, JobsMove

\* What the polls could not tell of is an attachment of a mail, and is not forgotten.
UntoldFits == untold \subseteq Mails \X Seq(Files)

LEMMA UntoldStays ==
    ASSUME Intake, UntoldFits, [Next]_vars
    PROVE  UntoldFits' /\ untold \subseteq untold'
<1>1. ASSUME NEW p \in Polls, AttachmentRaises(p)
      PROVE  UNCHANGED untold \/ \E a \in Mails \X Seq(Files) : untold' = untold \cup {a}
  <2>1. PollFits(poll[p]) /\ poll[p].pc = "import" /\ poll[p].left # <<>>
    BY <1>1 DEF Intake, Polling, AttachmentRaises, AtAttachment
  <2>2. Attachment(p) \in Seq(Files)
    BY <2>1, PageIsFile DEF Intake, Pages
  <2>3. poll[p].kind = "mail" => Mail(p) \in Mails
    BY <2>1 DEF PollFits, AtMail, Mail
  <2>4. untold' = IF poll[p].kind = "mail" THEN untold \cup {<<Mail(p), Attachment(p)>>} ELSE untold
    BY <1>1 DEF AttachmentRaises
  <2> QED BY <2>2, <2>3, <2>4
<1>2. ASSUME NEW p \in Polls, PollStep(p)
      PROVE  UNCHANGED untold \/ AttachmentRaises(p)
  BY <1>2 DEF PollStep, BeginPoll, BeginRequest, EndRequest, FetchMail, CheckAttachment,
              CreateDocument, StageAttachment, LeaveMail, DisposeMail, MoveMail, ClaimReply,
              SendReply, ReplyFails, CloseMailbox, WritePollState, PollDies
<1>3. ASSUME ~ \E p \in Polls : PollStep(p)
      PROVE  UNCHANGED untold
  BY <1>3 DEF Next, People, vars, mailVars, MailArrives, IntervalPasses, EditSource, Edit,
              DeactivateBox, ResetRecipient
<1>4. UNCHANGED untold \/ \E a \in Mails \X Seq(Files) : untold' = untold \cup {a}
  BY <1>1, <1>2, <1>3
<1> QED BY <1>4 DEF UntoldFits

\* The polls that have claimed a row and not yet sent the reply.
Sending(k) == {p \in Polls : poll[p].pc = "send" /\ ReplyKey(p) = k}

Owed(k) == reply.resets[k] + (IF k \in reply.rows THEN 1 ELSE 0)

\* Every reply sent, or about to be, is paid for with a row or a reset.
Answers ==
    /\ reply = [rows |-> reply.rows, sent |-> reply.sent, resets |-> reply.resets]
    /\ reply.rows \subseteq EmailAutoReplyRecipient
    /\ reply.sent \in [EmailAutoReplyRecipient -> Nat]
    /\ reply.resets \in [EmailAutoReplyRecipient -> Nat]
    /\ \A k \in EmailAutoReplyRecipient : reply.sent[k] + Cardinality(Sending(k)) <= Owed(k)

LEMMA SendingIsFinite == \A k : IsFiniteSet(Sending(k)) /\ Cardinality(Sending(k)) \in Nat
<1> SUFFICES ASSUME NEW k PROVE IsFiniteSet(Sending(k)) /\ Cardinality(Sending(k)) \in Nat
  OBVIOUS
<1>1. Sending(k) \subseteq Polls /\ IsFiniteSet(Polls)
  BY MailAssumption DEF Sending, MailAssumption
<1> QED BY <1>1, FS_Subset, FS_CardinalityType

\* Only a poll that claims a row begins to send.
LEMMA OnlyClaimsSend ==
    ASSUME Polling, NEW p \in Polls, PollStep(p), ~ ClaimReply(p)
    PROVE  poll'[p].pc # "send"
<1>1. PollFits(poll[p]) /\ IsPoll(poll[p])
  BY DEF Polling, PollFits
<1>2. ASSUME NEW q, IsPoll(q)
      PROVE  NextNumber(q).pc = "next" /\ Abort(q).pc = "close"
  <2>1. \A t : [q EXCEPT !.pc = "next", !.todo = t, !.left = <<>>, !.failed = FALSE, !.mail = 0, !.row = 0].pc = "next"
    BY <1>2 DEF IsPoll
  <2> QED BY <1>2, <2>1 DEF NextNumber, Abort, IsPoll
<1>3. NotPolling.pc = "idle"
  BY DEF NotPolling
<1>4. CASE \/ \E forced \in BOOLEAN : BeginPoll(p, forced)
           \/ \E kind \in {"http", "upload"}, t \in bound.targets :
                 \E n \in 1..Cardinality(Files) : \E files \in [1..n -> Files] :
                    BeginRequest(p, kind, t, files)
           \/ EndRequest(p) \/ WritePollState(p) \/ PollDies(p)
  <2>1. ASSUME NEW new, poll' = [poll EXCEPT ![p] = new], new.pc # "send"
        PROVE  poll'[p].pc # "send"
    BY <2>1 DEF Polling
  <2>2. ASSUME NEW forced \in BOOLEAN, BeginPoll(p, forced)
        PROVE  poll'[p].pc # "send"
    <3>1. PICK n : /\ poll' = [poll EXCEPT ![p] = n]
                   /\ \E todo : n = [NotPolling EXCEPT !.pc = "next", !.target = source.target,
                                       !.set = source.set, !.view = Present, !.todo = todo]
      BY <2>2 DEF BeginPoll
    <3>2. n.pc = "next"
      BY <3>1 DEF NotPolling
    <3> QED BY <2>1, <3>1, <3>2
  <2>3. ASSUME NEW kind, NEW t, NEW files, BeginRequest(p, kind, t, files)
        PROVE  poll'[p].pc # "send"
    <3>1. PICK n : /\ poll' = [poll EXCEPT ![p] = n]
                   /\ \E left : n = [NotPolling EXCEPT !.pc = "import", !.kind = kind, !.target = t,
                                                       !.left = left]
      BY <2>3 DEF BeginRequest
    <3>2. n.pc = "import"
      BY <3>1 DEF NotPolling
    <3> QED BY <2>1, <3>1, <3>2
  <2>4. ASSUME EndRequest(p) \/ WritePollState(p) \/ PollDies(p)
        PROVE  poll'[p].pc # "send"
    BY <1>3, <2>1, <2>4 DEF EndRequest, WritePollState, PollDies
  <2> QED BY <1>4, <2>2, <2>3, <2>4
<1>5. CASE FetchMail(p)
  BY <1>1, <1>2, <1>5 DEF Polling, FetchMail, IsPoll
<1>6. ASSUME NEW q, IsPoll(q), NEW result, poll' = [poll EXCEPT ![p] = AfterAttachment(q, result)]
      PROVE  poll'[p].pc # "send"
  <2>1. PICK n : n = AfterAttachment(q, result) /\ After(q, result, n)
    BY <1>6, AfterIs
  <2>2. n = NotPolling \/ n.pc = "import"
    BY <2>1 DEF After
  <2>3. poll'[p] = n
    BY <1>6, <2>1 DEF Polling
  <2> QED BY <1>3, <2>2, <2>3
<1>7. CASE \/ AttachmentRaises(p) \/ CheckAttachment(p)
           \/ \E outcome \in Outcomes :
                 CreateDocument(p, outcome) \/ \E suggested \in BOOLEAN : StageAttachment(p, suggested, outcome)
  <2>1. ASSUME NEW result, AttachmentDone(p, result)
        PROVE  poll'[p].pc # "send"
    BY <1>1, <1>6, <2>1 DEF AttachmentDone
  <2>2. CASE poll' = [poll EXCEPT ![p].pc = "create"]
    BY <1>1, <2>2 DEF Polling, IsPoll
  <2>3. CASE AttachmentRaises(p) \/ CheckAttachment(p)
    BY <2>1, <2>2, <2>3 DEF AttachmentRaises, CheckAttachment
  <2>4. ASSUME NEW own, NEW outcome, NEW good, Made(p, [poll[p] EXCEPT !.own = own], outcome, good)
        PROVE  poll'[p].pc # "send"
    <3>1. PICK q, o : q = [o EXCEPT !.own = own] /\ o = poll[p] /\ IsPoll(o)
      BY <1>1
    <3>2. IsPoll(q)
      BY <3>1 DEF IsPoll
    <3>3. \E result : poll' = [poll EXCEPT ![p] = AfterAttachment(q, result)]
      BY <2>4, <3>1 DEF Made
    <3> QED BY <1>6, <3>2, <3>3
  <2>5. ASSUME NEW outcome, NEW suggested, StageAttachment(p, suggested, outcome)
        PROVE  poll'[p].pc # "send"
    <3>1. poll[p] = [poll[p] EXCEPT !.own = poll[p].own] /\ Made(p, poll[p], outcome, "staged")
      BY <1>1, <2>5 DEF StageAttachment, IsPoll
    <3> QED BY <2>4, <3>1
  <2>6. ASSUME NEW outcome, CreateDocument(p, outcome)
        PROVE  poll'[p].pc # "send"
    <3>1. \E own : Made(p, [poll[p] EXCEPT !.own = own], outcome, "imported")
      BY <2>6 DEF CreateDocument
    <3> QED BY <2>4, <3>1
  <2> QED BY <1>7, <2>3, <2>5, <2>6
<1>8. CASE LeaveMail(p) \/ DisposeMail(p) \/ \E told \in BOOLEAN : MoveMail(p, told)
  <2>1. ASSUME NEW told \in BOOLEAN, MoveMail(p, told)
        PROVE  poll'[p].pc # "send"
    <3>1. PICK view : \/ poll' = [poll EXCEPT ![p] = Abort(poll[p])]
                      \/ poll' = [poll EXCEPT ![p] = [@ EXCEPT !.pc = "reply", !.view = view]]
      BY <2>1 DEF MoveMail
    <3> QED BY <1>1, <1>2, <3>1 DEF Polling, IsPoll
  <2>2. ASSUME LeaveMail(p) \/ DisposeMail(p)
        PROVE  poll'[p].pc # "send"
    BY <1>1, <1>2, <2>2 DEF Polling, LeaveMail, DisposeMail, IsPoll
  <2> QED BY <1>8, <2>1, <2>2
<1>9. CASE SendReply(p) \/ ReplyFails(p) \/ CloseMailbox(p)
  BY <1>1, <1>2, <1>3, <1>9 DEF Polling, SendReply, ReplyFails, CloseMailbox, IsPoll
<1> QED BY <1>4, <1>5, <1>7, <1>8, <1>9 DEF PollStep


\* How the number of polls that are sending changes with one poll.
LEMMA SendingAfter ==
    ASSUME Polling, NEW p \in Polls, NEW new, poll' = [poll EXCEPT ![p] = new]
    PROVE  /\ new.pc # "send" =>
                 \A k \in EmailAutoReplyRecipient :
                    Cardinality(Sending(k)') = Cardinality(Sending(k)) - (IF p \in Sending(k) THEN 1 ELSE 0)
           /\ poll[p].pc # "send" =>
                 \A k \in EmailAutoReplyRecipient :
                    Cardinality(Sending(k)') <= Cardinality(Sending(k))
                        + (IF <<Sender[new.mail], new.reply>> = k THEN 1 ELSE 0)
<1>1. poll'[p] = new /\ \A q \in Polls \ {p} : poll'[q] = poll[q]
  BY DEF Polling
<1>2. ASSUME NEW k \in EmailAutoReplyRecipient, new.pc # "send"
      PROVE  Cardinality(Sending(k)') = Cardinality(Sending(k)) - (IF p \in Sending(k) THEN 1 ELSE 0)
  <2>1. Sending(k)' = Sending(k) \ {p}
    BY <1>1, <1>2 DEF Sending, ReplyKey, Mail
  <2>2. IsFiniteSet(Sending(k)) /\ Cardinality(Sending(k)) \in Nat
    BY SendingIsFinite
  <2>3. CASE p \in Sending(k)
    BY <2>1, <2>2, <2>3, FS_RemoveElement
  <2>4. CASE p \notin Sending(k)
    <3>1. Sending(k)' = Sending(k)
      BY <2>1, <2>4
    <3> QED BY <2>2, <2>4, <3>1
  <2> QED BY <2>3, <2>4
<1>3. ASSUME NEW k \in EmailAutoReplyRecipient, poll[p].pc # "send"
      PROVE  Cardinality(Sending(k)') <= Cardinality(Sending(k))
                 + (IF <<Sender[new.mail], new.reply>> = k THEN 1 ELSE 0)
  <2>1. p \notin Sending(k)
    BY <1>3 DEF Sending
  <2>2. CASE <<Sender[new.mail], new.reply>> = k
    <3>1. Sending(k)' \subseteq Sending(k) \cup {p}
      BY <1>1 DEF Sending, ReplyKey, Mail
    <3>2. IsFiniteSet(Sending(k) \cup {p}) /\ Cardinality(Sending(k) \cup {p}) = Cardinality(Sending(k)) + 1
      BY <2>1, SendingIsFinite, FS_AddElement
    <3>3. Cardinality(Sending(k)') <= Cardinality(Sending(k) \cup {p})
      BY <3>1, <3>2, FS_Subset
    <3> QED BY <2>2, <3>2, <3>3
  <2>3. CASE <<Sender[new.mail], new.reply>> # k
    <3>1. Sending(k)' = Sending(k)
      BY <1>1, <1>3, <2>1, <2>3 DEF Sending, ReplyKey, Mail
    <3> QED BY <2>3, <3>1, SendingIsFinite
  <2> QED BY <2>2, <2>3
<1> QED BY <1>2, <1>3

LEMMA AnswersAtFirst == ASSUME Init PROVE Answers
<1>1. /\ reply = [rows |-> {}, sent |-> [k \in EmailAutoReplyRecipient |-> 0],
                  resets |-> [k \in EmailAutoReplyRecipient |-> 0]]
      /\ poll = [p \in Polls |-> NotPolling]
  BY DEF Init
<1>2. ASSUME NEW k \in EmailAutoReplyRecipient
      PROVE  reply.sent[k] + Cardinality(Sending(k)) <= Owed(k)
  <2>1. Sending(k) = {}
    BY <1>1 DEF Sending, NotPolling
  <2>2. Cardinality(Sending(k)) = 0
    BY <2>1, FS_EmptySet
  <2> QED BY <1>1, <2>2 DEF Owed
<1> QED BY <1>1, <1>2 DEF Answers

LEMMA AnswersStay ==
    ASSUME Polling, Mailing, Answers, [Next]_vars
    PROVE  Answers'
<1> DEFINE R == EmailAutoReplyRecipient
<1>1. \A k \in R : /\ reply.sent[k] \in Nat /\ reply.resets[k] \in Nat
                   /\ Cardinality(Sending(k)) \in Nat
                   /\ reply.sent[k] + Cardinality(Sending(k)) <= Owed(k)
  BY SendingIsFinite DEF Answers
<1>2. reply = [rows |-> reply.rows, sent |-> reply.sent, resets |-> reply.resets]
      /\ reply.rows \subseteq R /\ reply.sent \in [R -> Nat] /\ reply.resets \in [R -> Nat]
  BY DEF Answers
<1>3. R' = R
  BY DEF EmailAutoReplyRecipient, Senders
<1>4. ASSUME NEW rows \in SUBSET R, NEW sent \in [R -> Nat], NEW resets \in [R -> Nat],
             reply' = [rows |-> rows, sent |-> sent, resets |-> resets],
             \A k \in R : sent[k] + Cardinality(Sending(k)')
                             <= resets[k] + (IF k \in rows THEN 1 ELSE 0)
      PROVE  Answers'
  BY <1>4 DEF Answers, Owed, EmailAutoReplyRecipient, Senders
<1>5. ASSUME UNCHANGED reply,
             \A k \in R : Cardinality(Sending(k)') \in Nat /\ Cardinality(Sending(k)') <= Cardinality(Sending(k))
      PROVE  Answers'
  <2>1. \A k \in R : reply.sent[k] + Cardinality(Sending(k)') <= Owed(k)
    <3> SUFFICES ASSUME NEW k \in R PROVE reply.sent[k] + Cardinality(Sending(k)') <= Owed(k)
      OBVIOUS
    <3> DEFINE c == Cardinality(Sending(k))
               d == Cardinality(Sending(k)')
    <3>1. c \in Nat /\ d \in Nat /\ d <= c /\ reply.sent[k] \in Nat
          /\ reply.sent[k] + c <= Owed(k) /\ Owed(k) \in Nat
      BY <1>1, <1>5 DEF Owed
    <3> HIDE DEF c, d
    <3> QED BY <3>1 DEF c, d
  <2> QED BY <1>2, <1>4, <1>5, <2>1 DEF Owed
<1>6. CASE UNCHANGED poll
  <2>1. \A k \in R : Sending(k)' = Sending(k)
    BY <1>6 DEF Sending, ReplyKey, Mail
  <2>2. CASE UNCHANGED reply
    BY <1>1, <1>5, <2>1, <2>2
  <2>3. ASSUME NEW k \in R, ResetRecipient(k)
        PROVE  Answers'
    <3>1. k \in reply.rows /\ reply' = [reply EXCEPT !.rows = @ \ {k}, !.resets[k] = @ + 1]
      BY <2>3 DEF ResetRecipient
    <3>2. PICK rows, resets : rows = reply.rows \ {k} /\ resets = [reply.resets EXCEPT ![k] = @ + 1]
      OBVIOUS
    <3>3. reply' = [rows |-> rows, sent |-> reply.sent, resets |-> resets]
      BY <1>2, <3>1, <3>2
    <3>4. rows \in SUBSET R /\ resets \in [R -> Nat]
      BY <1>2, <3>2
    <3>5. \A j \in R : resets[j] + (IF j \in rows THEN 1 ELSE 0) = Owed(j)
      BY <1>1, <1>2, <3>1, <3>2 DEF Owed
    <3> QED BY <1>1, <1>2, <1>4, <2>1, <3>3, <3>4, <3>5
  <2>4. UNCHANGED reply \/ \E k \in R : ResetRecipient(k)
    <3>1. ASSUME NEW p \in Polls, PollStep(p), ~ UNCHANGED reply
          PROVE  FALSE
      <4>1. ClaimReply(p) \/ SendReply(p) \/ ReplyFails(p)
        BY <3>1 DEF PollStep, BeginPoll, BeginRequest, EndRequest, FetchMail, AttachmentRaises,
              CheckAttachment, CreateDocument, StageAttachment, Made, LeaveMail, DisposeMail, MoveMail,
              CloseMailbox, WritePollState, PollDies
      <4>2. poll[p].pc \in {"reply", "send"} /\ PollFits(poll[p])
        BY <4>1 DEF ClaimReply, SendReply, ReplyFails, Polling
      <4>3. NextNumber(poll[p]).pc = "next" /\ Abort(poll[p]).pc = "close"
        BY <4>2 DEF NextNumber, Abort, PollFits, IsPoll
      <4>4. ClaimReply(p) => \E new : poll' = [poll EXCEPT ![p] = new] /\ new.pc # poll[p].pc
        <5> SUFFICES ASSUME ClaimReply(p)
                     PROVE  \E new : poll' = [poll EXCEPT ![p] = new] /\ new.pc # poll[p].pc
          OBVIOUS
        <5>1. poll[p].pc = "reply"
          BY DEF ClaimReply
        <5>2. PICK new, row : /\ poll' = [poll EXCEPT ![p] = new]
                              /\ new = NextNumber(poll[p]) \/ new = [poll[p] EXCEPT !.pc = "send", !.row = row]
          BY DEF ClaimReply
        <5>3. new.pc # "reply"
          BY <4>2, <4>3, <5>2 DEF PollFits, IsPoll
        <5> QED BY <5>1, <5>2, <5>3
      <4>5. SendReply(p) \/ ReplyFails(p) =>
              \E new : poll' = [poll EXCEPT ![p] = new] /\ new.pc # poll[p].pc
        <5> SUFFICES ASSUME SendReply(p) \/ ReplyFails(p)
                     PROVE  \E new : poll' = [poll EXCEPT ![p] = new] /\ new.pc # poll[p].pc
          OBVIOUS
        <5>1. poll[p].pc = "send"
          BY DEF SendReply, ReplyFails
        <5>2. PICK new : /\ poll' = [poll EXCEPT ![p] = new]
                         /\ new = NextNumber(poll[p]) \/ new = Abort(poll[p])
          BY DEF SendReply, ReplyFails
        <5> QED BY <4>3, <5>1, <5>2
      <4>6. PICK new : poll' = [poll EXCEPT ![p] = new] /\ new.pc # poll[p].pc
        BY <4>1, <4>4, <4>5
      <4> QED BY <1>6, <4>6 DEF Polling
    <3> QED BY <3>1 DEF Next, People, vars, mailVars, MailArrives, IntervalPasses, EditSource, Edit,
              DeactivateBox
  <2> QED BY <2>2, <2>3, <2>4
<1>7. ASSUME NEW p \in Polls, PollStep(p), NEW new, PollMoves(p, new)
      PROVE  Answers'
  <2> DEFINE k == ReplyKey(p)
  <2>1. PollFits(poll[p]) /\ poll' = [poll EXCEPT ![p] = new] /\ poll'[p] = new /\ PollFits(new)
    BY <1>7 DEF Polling, PollMoves
  <2>2. poll[p].pc \in {"reply", "send"} => k \in R
    <3> SUFFICES ASSUME poll[p].pc \in {"reply", "send"} PROVE k \in R
      OBVIOUS
    <3>1. poll[p].kind = "mail" /\ poll[p].pc \in AtMail
      BY <2>1 DEF PollFits, AtMail
    <3>2. Mail(p) \in Mails /\ poll[p].reply \in Replies
      BY <2>1, <3>1 DEF PollFits, Mail
    <3> QED BY <3>2 DEF ReplyKey, EmailAutoReplyRecipient, Senders
  <2>3. CASE SendReply(p)
    <3>1. poll[p].pc = "send" /\ reply' = [reply EXCEPT !.sent[k] = @ + 1]
      BY <2>3 DEF SendReply
    <3>2. new.pc # "send"
      BY <1>7, <2>1, <2>3, <3>1, OnlyClaimsSend DEF ClaimReply
    <3>3. PICK sent : sent = [reply.sent EXCEPT ![k] = @ + 1]
      OBVIOUS
    <3>4. reply' = [rows |-> reply.rows, sent |-> sent, resets |-> reply.resets]
      BY <1>2, <3>1, <3>3
    <3>5. \A j \in R : sent[j] + Cardinality(Sending(j)') = reply.sent[j] + Cardinality(Sending(j))
      <4> SUFFICES ASSUME NEW j \in R
                   PROVE  sent[j] + Cardinality(Sending(j)') = reply.sent[j] + Cardinality(Sending(j))
        OBVIOUS
      <4>1. Cardinality(Sending(j)') = Cardinality(Sending(j)) - (IF p \in Sending(j) THEN 1 ELSE 0)
        BY <2>1, <3>2, SendingAfter
      <4>2. p \in Sending(j) <=> j = k
        BY <3>1 DEF Sending
      <4>3. sent[j] = reply.sent[j] + (IF j = k THEN 1 ELSE 0)
        BY <1>1, <1>2, <3>3
      <4>4. PICK c, d : c = Cardinality(Sending(j)) /\ d = Cardinality(Sending(j)')
        OBVIOUS
      <4>5. c \in Nat /\ reply.sent[j] \in Nat /\ d = c - (IF j = k THEN 1 ELSE 0)
        BY <1>1, <4>1, <4>2, <4>4
      <4> QED BY <4>3, <4>4, <4>5
    <3>6. sent \in [R -> Nat]
      BY <1>2, <2>2, <3>1, <3>3
    <3> QED BY <1>1, <1>2, <1>4, <3>4, <3>5, <3>6 DEF Owed
  <2>4. CASE ReplyFails(p)
    <3>1. poll[p].pc = "send" /\ reply' = [reply EXCEPT !.rows = IF OwnRow(p) THEN @ \ {k} ELSE @]
      BY <2>4 DEF ReplyFails
    <3>2. new.pc # "send"
      BY <1>7, <2>1, <2>4, <3>1, OnlyClaimsSend DEF ClaimReply
    <3>3. PICK rows : rows = IF OwnRow(p) THEN reply.rows \ {k} ELSE reply.rows
      OBVIOUS
    <3>4. reply' = [rows |-> rows, sent |-> reply.sent, resets |-> reply.resets]
      BY <1>2, <3>1, <3>3
    <3>5. ASSUME NEW j \in R
          PROVE  reply.sent[j] + Cardinality(Sending(j)')
                     <= reply.resets[j] + (IF j \in rows THEN 1 ELSE 0)
      <4>1. Cardinality(Sending(j)') = Cardinality(Sending(j)) - (IF p \in Sending(j) THEN 1 ELSE 0)
        BY <2>1, <3>2, SendingAfter
      <4>2. p \in Sending(j) <=> j = k
        BY <3>1 DEF Sending
      <4>3. PICK c, d : c = Cardinality(Sending(j)) /\ d = Cardinality(Sending(j)')
        OBVIOUS
      <4>4. /\ c \in Nat /\ reply.sent[j] \in Nat /\ reply.resets[j] \in Nat
            /\ d = c - (IF j = k THEN 1 ELSE 0)
            /\ reply.sent[j] + c <= reply.resets[j] + (IF j \in reply.rows THEN 1 ELSE 0)
        BY <1>1, <4>1, <4>2, <4>3 DEF Owed
      <4>5. j # k => (j \in rows <=> j \in reply.rows)
        BY <3>3
      <4> QED BY <4>3, <4>4, <4>5
    <3> QED BY <1>2, <1>4, <3>3, <3>4, <3>5
  <2>5. CASE ClaimReply(p)
    <3>1. poll[p].pc = "reply" /\ reply' = [reply EXCEPT !.rows = reply.rows \cup {k}]
      BY <2>5 DEF ClaimReply, Claimed
    <3>2. PICK rows : rows = reply.rows \cup {k}
      OBVIOUS
    <3>3. reply' = [rows |-> rows, sent |-> reply.sent, resets |-> reply.resets]
      BY <1>2, <3>1, <3>2
    <3>4. rows \in SUBSET R
      BY <1>2, <2>2, <3>1, <3>2
    <3>5. CASE k \in reply.rows
      <4>1. new.pc # "send"
        <5>1. poll' = [poll EXCEPT ![p] = NextNumber(@)]
          BY <2>5, <3>5 DEF ClaimReply
        <5>2. new = NextNumber(poll[p])
          BY <2>1, <5>1 DEF Polling
        <5> QED BY <2>1, <5>2 DEF NextNumber, PollFits, IsPoll
      <4>2. \A j \in R : Cardinality(Sending(j)') = Cardinality(Sending(j)) - (IF p \in Sending(j) THEN 1 ELSE 0)
        BY <2>1, <4>1, SendingAfter
      <4>3. \A j \in R : p \notin Sending(j)
        BY <3>1 DEF Sending
      <4>4. \A j \in R : Cardinality(Sending(j)') = Cardinality(Sending(j))
        BY <1>1, <4>2, <4>3
      <4>5. rows = reply.rows
        BY <3>2, <3>5
      <4> QED BY <1>1, <1>2, <1>4, <3>3, <4>4, <4>5 DEF Owed
    <3>6. CASE k \notin reply.rows
      <4>1. new.mail = poll[p].mail /\ new.reply = poll[p].reply
        <5>1. PICK row : poll' = [poll EXCEPT ![p] = [@ EXCEPT !.pc = "send", !.row = row]]
          BY <2>5, <3>6 DEF ClaimReply
        <5>2. new = [poll[p] EXCEPT !.pc = "send", !.row = row]
          BY <2>1, <5>1 DEF Polling
        <5> QED BY <2>1, <5>2 DEF PollFits, IsPoll
      <4>2. <<Sender[new.mail], new.reply>> = k
        BY <4>1 DEF ReplyKey, Mail
      <4>3. ASSUME NEW j \in R
            PROVE  reply.sent[j] + Cardinality(Sending(j)')
                     <= reply.resets[j] + (IF j \in rows THEN 1 ELSE 0)
        <5>1. PICK c, d : c = Cardinality(Sending(j)) /\ d = Cardinality(Sending(j)')
          OBVIOUS
        <5>2. d <= c + (IF k = j THEN 1 ELSE 0)
          BY <2>1, <3>1, <4>2, <5>1, SendingAfter
        <5>3. Cardinality(Sending(j)') \in Nat
          <6>1. Sending(j)' \subseteq Polls /\ IsFiniteSet(Polls)
            BY MailAssumption DEF Sending, MailAssumption
          <6> QED BY <6>1, FS_Subset, FS_CardinalityType
        <5>4. /\ c \in Nat /\ d \in Nat /\ reply.sent[j] \in Nat /\ reply.resets[j] \in Nat
              /\ reply.sent[j] + c <= reply.resets[j] + (IF j \in reply.rows THEN 1 ELSE 0)
          BY <1>1, <5>1, <5>3 DEF Owed
        <5>5. (j # k => (j \in rows <=> j \in reply.rows)) /\ (j = k => j \in rows /\ j \notin reply.rows)
          BY <3>2, <3>6
        <5> QED BY <5>1, <5>2, <5>4, <5>5
      <4> QED BY <1>2, <1>4, <3>3, <3>4, <4>3
    <3> QED BY <3>5, <3>6
  <2>6. CASE ~ (SendReply(p) \/ ReplyFails(p) \/ ClaimReply(p))
    <3>1. UNCHANGED reply
      BY <1>7, <2>6 DEF PollStep, BeginPoll, BeginRequest, EndRequest, FetchMail, AttachmentRaises,
              CheckAttachment, CreateDocument, StageAttachment, Made, LeaveMail, DisposeMail, MoveMail,
              CloseMailbox, WritePollState, PollDies
    <3>2. new.pc # "send"
      BY <1>7, <2>1, <2>6, OnlyClaimsSend
    <3>3. ASSUME NEW j \in R
          PROVE  Cardinality(Sending(j)') \in Nat /\ Cardinality(Sending(j)') <= Cardinality(Sending(j))
      <4>1. Cardinality(Sending(j)') = Cardinality(Sending(j)) - (IF p \in Sending(j) THEN 1 ELSE 0)
        BY <2>1, <3>2, SendingAfter
      <4>2. Sending(j)' \subseteq Polls /\ IsFiniteSet(Polls)
        BY MailAssumption DEF Sending, MailAssumption
      <4>3. Cardinality(Sending(j)') \in Nat
        BY <4>2, FS_Subset, FS_CardinalityType
      <4> QED BY <1>1, <4>1, <4>3
    <3> QED BY <1>5, <3>1, <3>3
  <2> QED BY <2>3, <2>4, <2>5, <2>6
<1> QED BY <1>6, <1>7, PollsMove

-----------------------------------------------------------------------------
(***************************************************************************)
(* The theorems about jobs and replies.                                    *)
(***************************************************************************)

\* A job that says imported or staged has its document or inbox item, whatever
\* fails, is undone or is killed meanwhile.
THEOREM JobsAlwaysTellTruth == Spec => []JobsTellTruth
<1>1. Init => Intake /\ Jobs
  BY IntakeAtFirst DEF Init, BatchInit, Jobs, JobsTellTruth
<1>2. Intake /\ Jobs /\ [Next]_vars => (Intake /\ Jobs)'
  BY IntakeStays, JobsStay
<1>3. Jobs => JobsTellTruth
  BY DEF Jobs
<1> QED BY <1>1, <1>2, <1>3, PTL DEF Spec

\* A sender gets a reply of either type once, and once more for each reset,
\* however many polls answer its mails at the same time, or fail to.
THEOREM RepliesAreSentOnce == Spec => []OneReply
<1>1. Init => Intake /\ Answers
  BY IntakeAtFirst, AnswersAtFirst
<1>2. Intake /\ Answers /\ [Next]_vars => (Intake /\ Answers)'
  BY IntakeStays, AnswersStay DEF Intake
<1>3. Answers => OneReply
  <2> SUFFICES ASSUME Answers, NEW k \in EmailAutoReplyRecipient
               PROVE  reply.sent[k] <= 1 + reply.resets[k]
    BY DEF OneReply
  <2>1. PICK c : c = Cardinality(Sending(k))
    OBVIOUS
  <2>2. /\ c \in Nat /\ reply.sent[k] \in Nat /\ reply.resets[k] \in Nat
        /\ reply.sent[k] + c <= reply.resets[k] + (IF k \in reply.rows THEN 1 ELSE 0)
    BY <2>1, SendingIsFinite DEF Answers, Owed
  <2> QED BY <2>2
<1> QED BY <1>1, <1>2, <1>3, PTL DEF Spec

\* Rows, items, jobs, mails and settings are always of their kind.
THEOREM IntakeTypeCorrect == Spec => []TypeOK
<1> DEFINE Inv == Intake /\ Jobs /\ Answers /\ UntoldFits
<1>1. Init => Inv
  BY IntakeAtFirst, AnswersAtFirst DEF Init, BatchInit, Jobs, JobsTellTruth, UntoldFits
<1>2. Inv /\ [Next]_vars => Inv'
  BY IntakeStays, JobsStay, AnswersStay, UntoldStays DEF Intake
<1>3. Inv => TypeOK
  <2> SUFFICES ASSUME Inv PROVE TypeOK
    OBVIOUS
  <2>1. \A r \in Requests : DOMAIN request[r].wrote \subseteq ItemsOf(request[r].batch)
    BY DEF Intake, Batches, RequestsFit, RequestFits
  <2>2. Present \subseteq Mails /\ mailbox.deleted \subseteq Present /\ source \in ImportSource
    BY ArrivedAreMails DEF Intake, Mailing
  <2> QED BY <2>1, <2>2 DEF TypeOK, Intake, Batches, RowsFit, Jobs, Answers, UntoldFits
<1> QED BY <1>1, <1>2, <1>3, PTL DEF Spec


-----------------------------------------------------------------------------
(***************************************************************************)
(* Mails: what a poll has in hand is in the mailbox until its attachments  *)
(* are imported, and people are told of those that are not.                *)
(***************************************************************************)

\* No setting moves mails; there is one poll of the source at a time.
NoMoves ==
    \A s \in Settings \cup UNION {b.settings : b \in Bounds} :
        s.action # "move" /\ s.unprocessable # "move"

OnePoll == \A p, q \in Polls : p = q

\* The attachments that are left are the last ones of the mail; those before.
Rest(left, all) ==
    Len(left) <= Len(all) /\ \A k \in 1..Len(left) : left[k] = all[Len(all) - Len(left) + k]

Before(left, all) == {all[k] : k \in 1..(Len(all) - Len(left))}

\* A job tells of what is missing of the attachment, or it raised before it had one.
Reported(m, a) == <<m, a>> \in untold \/ Told(a)

\* Every attachment of the mail is imported.
Processed(m) == \A k \in DOMAIN Attached[m] : Imported(Attached[m][k])

\* The poll is at the attachments of a mail, or past them.
AtAttachments(q) == q.kind = "mail" /\ q.pc \in {"import", "create"}
PastAttachments(q) == q.kind = "mail" /\ q.pc = "dispose"
InSession(q) == q.kind = "mail" /\ q.pc \in {"next"} \cup AtMail
AtWork(q) == q.kind = "mail" /\ q.pc # "idle"

Handles(q) ==
    /\ AtAttachments(q) =>
          /\ Rest(q.left, Attached[q.mail])
          /\ q.left # <<>> => \A j \in 1..(q.page - 1) : TakenOver(Head(q.left)[j])
          /\ ~ q.failed => \A a \in Before(q.left, Attached[q.mail]) : Imported(a)
    /\ PastAttachments(q) => Processed(q.mail)

Handling == \A p \in Polls : Handles(poll[p])

\* Unless a poll was killed, every attachment that a poll is done with is reported.
TellsAll(q) ==
    AtAttachments(q) => \A a \in Before(q.left, Attached[q.mail]) : Reported(q.mail, a)

Telling ==
    crashes = 0 =>
        /\ \A p \in Polls : TellsAll(poll[p])
        /\ \A m \in mailbox.seen : (\A p \in Polls : ~ Fetched(p, m)) =>
              \A k \in DOMAIN Attached[m] : Reported(m, Attached[m][k])

\* No poll moves a mail; or the number of a poll means the mail it has in hand.
Unmoving(set) == set.action # "move" /\ set.unprocessable # "move"

Unmoved ==
    Unmoving(source.set) /\ \A p \in Polls : AtWork(poll[p]) => Unmoving(poll[p].set)

Means(q) ==
    InSession(q) => /\ q.view \subseteq Present
                    /\ q.pc \in AtMail => q.mail = Numbered(q.view, Lowest(q.todo))

Addressed ==
    /\ NoMoves => Unmoved
    /\ OnePoll => \A p \in Polls : Means(poll[p])

Keeping == (\A m \in mailbox.deleted : Processed(m)) /\ NoMailLost


\* What is before the attachment a poll is at, and what comes next.
LEMMA RestOfTail ==
    ASSUME NEW all \in Seq(Pages), NEW left \in Seq(Pages), left # <<>>, Rest(left, all)
    PROVE  /\ Rest(Tail(left), all)
           /\ \A a \in Before(Tail(left), all) : a \in Before(left, all) \/ a = Head(left)
<1> DEFINE n == Len(all)
           c == Len(left)
           t == Tail(left)
<1>1. n \in Nat /\ c \in Nat /\ c > 0 /\ c <= n /\ \A k \in 1..c : left[k] = all[n - c + k]
  <2>1. n \in Nat /\ c \in Nat /\ c # 0
    BY LenProperties, EmptySeq
  <2> QED BY <2>1 DEF Rest
<1>2. Len(t) = c - 1 /\ \A k \in 1..(c - 1) : t[k] = left[k + 1]
  BY <1>1
<1>3. Head(left) = all[n - c + 1]
  BY <1>1
<1> HIDE DEF n, c, t
<1>4. \A k \in 1..(c - 1) : t[k] = all[n - (c - 1) + k]
  <2> SUFFICES ASSUME NEW k \in 1..(c - 1) PROVE t[k] = all[n - (c - 1) + k]
    OBVIOUS
  <2>1. k + 1 \in 1..c /\ n - c + (k + 1) = n - (c - 1) + k
    BY <1>1
  <2> QED BY <1>1, <1>2, <2>1
<1>5. c - 1 <= n /\ \A k \in 1..(n - (c - 1)) : k \in 1..(n - c) \/ k = n - c + 1
  BY <1>1
<1>6. Rest(t, all)
  BY <1>2, <1>4, <1>5 DEF Rest, n
<1>7. ASSUME NEW a \in Before(t, all)
      PROVE  a \in Before(left, all) \/ a = Head(left)
  <2>1. PICK k \in 1..(n - (c - 1)) : a = all[k]
    BY <1>2 DEF Before, n
  <2> QED BY <1>3, <1>5, <2>1 DEF Before, n, c
<1> QED BY <1>6, <1>7 DEF t

LEMMA RestAtEnds ==
    ASSUME NEW all \in Seq(Pages)
    PROVE  /\ Rest(all, all) /\ Before(all, all) = {}
           /\ \A k \in DOMAIN all : all[k] \in Before(<<>>, all)
<1>1. Len(all) \in Nat /\ DOMAIN all = 1..Len(all) /\ Len(<<>>) = 0
  BY LenProperties
<1> DEFINE n == Len(all)
<1>2. n - n = 0 /\ n - 0 = n /\ \A k \in 1..n : n - n + k = k
  BY <1>1
<1> HIDE DEF n
<1> QED BY <1>1, <1>2 DEF Rest, Before, n

LEMMA BeforeArePages ==
    ASSUME NEW all \in Seq(Pages), NEW left \in Seq(Pages)
    PROVE  Before(left, all) \subseteq Pages
<1>1. Len(all) \in Nat /\ Len(left) \in Nat
  BY LenProperties
<1>2. \A k \in 1..(Len(all) - Len(left)) : all[k] \in Pages
  BY <1>1
<1> QED BY <1>2 DEF Before

\* What has been taken over, and told, stays so.
LEMMA TakenStays ==
    ASSUME Intake, [Next]_vars, NEW f \in Files, TakenOver(f)
    PROVE  TakenOver(f)'
<1>1. RowsFit /\ RowsFit' /\ Grows
  BY RowsStay DEF Intake, Batches
<1>2. CASE docs[f] > 0
  <2>1. docs[f] \in Nat /\ docs'[f] \in Nat /\ docs'[f] >= docs[f]
    BY <1>1 DEF RowsFit, Grows
  <2>2. docs'[f] > 0
    BY <1>2, <2>1
  <2> QED BY <2>2 DEF TakenOver
<1>3. CASE \E i \in DOMAIN item : item[i].file = f
  BY <1>1, <1>3 DEF TakenOver, Grows
<1> QED BY <1>2, <1>3 DEF TakenOver

LEMMA JobsGrow ==
    ASSUME Intake, Jobs, [Next]_vars, NEW f \in Files
    PROVE  job[f] \subseteq job'[f]
BY JobsMove DEF Jobs

LEMMA PagesAre ==
    ASSUME NEW a \in Pages
    PROVE  /\ DOMAIN a = 1..Len(a) /\ Len(a) \in Nat
           /\ \A j \in DOMAIN a : j \in Nat /\ a[j] \in Files
BY LenProperties DEF Pages

LEMMA ImportedStays ==
    ASSUME Intake, Jobs, [Next]_vars, NEW a \in Pages, Imported(a)
    PROVE  Imported(a)'
<1> SUFFICES ASSUME NEW j \in DOMAIN a
             PROVE  TakenOver(a[j])' \/ AfterDuplicate(a, j)'
  BY DEF Imported
<1>1. \A i \in 1..j : a[i] \in Files
  <2> SUFFICES ASSUME NEW i \in 1..j PROVE i \in DOMAIN a
    BY PagesAre
  <2> QED BY PagesAre
<1>2. CASE TakenOver(a[j])
  <2>1. a[j] \in Files
    BY PagesAre
  <2> QED BY <1>2, <2>1, TakenStays
<1>3. CASE AfterDuplicate(a, j)
  <2>1. PICK i \in 1..(j - 1) : TakenOver(a[i]) /\ "failed" \in job[a[i]]
    BY <1>3 DEF AfterDuplicate
  <2>2. i \in 1..j
    BY PagesAre
  <2>3. PICK f \in Files : f = a[i]
    BY <1>1, <2>2
  <2>4. TakenOver(f)' /\ "failed" \in job'[f]
    BY <2>1, <2>3, TakenStays, JobsGrow
  <2> QED BY <2>3, <2>4 DEF AfterDuplicate
<1> QED BY <1>2, <1>3 DEF Imported

LEMMA ReportedStays ==
    ASSUME Intake, Jobs, UntoldFits, [Next]_vars, NEW m, NEW a \in Pages, Reported(m, a)
    PROVE  Reported(m, a)'
<1>1. untold \subseteq untold'
  BY UntoldStays
<1>2. ASSUME Told(a)
      PROVE  Told(a)'
  <2> SUFFICES ASSUME NEW j \in DOMAIN a
               PROVE  TakenOver(a[j])' \/ \E i \in 1..j : "failed" \in job'[a[i]]
    BY DEF Told
  <2>1. CASE TakenOver(a[j])
    <3>1. a[j] \in Files
      BY PagesAre
    <3> QED BY <2>1, <3>1, TakenStays
  <2>2. ASSUME NEW i \in 1..j, "failed" \in job[a[i]]
        PROVE  "failed" \in job'[a[i]]
    <3>1. i \in DOMAIN a
      BY PagesAre
    <3>2. a[i] \in Files
      BY <3>1, PagesAre
    <3> QED BY <2>2, <3>2, JobsGrow
  <2> QED BY <1>2, <2>1, <2>2 DEF Told
<1> QED BY <1>1, <1>2 DEF Reported

LEMMA ImportedIsTold == ASSUME NEW a \in Pages, Imported(a) PROVE Told(a)
<1> SUFFICES ASSUME NEW j \in DOMAIN a
             PROVE  TakenOver(a[j]) \/ \E i \in 1..j : "failed" \in job[a[i]]
  BY DEF Told
<1>1. j \in Nat /\ (TakenOver(a[j]) \/ AfterDuplicate(a, j))
  BY PagesAre DEF Imported
<1>2. \A i \in 1..(j - 1) : i \in 1..j
  BY <1>1
<1> QED BY <1>1, <1>2 DEF AfterDuplicate

LEMMA ProcessedStays ==
    ASSUME Intake, Jobs, [Next]_vars, NEW m \in Mails, Processed(m)
    PROVE  Processed(m)'
<1>1. \A k \in DOMAIN Attached[m] : Attached[m][k] \in Pages
  BY MailsAre, LenProperties
<1> QED BY <1>1, ImportedStays DEF Processed

\* An attachment is imported with its last page or a duplicate one, and told of
\* with one that failed.
LEMMA DoneIsImported ==
    ASSUME Intake, [Next]_vars, NEW a \in Pages, NEW n \in DOMAIN a,
           \A j \in 1..(n - 1) : TakenOver(a[j]), TakenOver(a[n])',
           n = Len(a) \/ "failed" \in job'[a[n]]
    PROVE  Imported(a)' /\ Told(a)'
<1>1. ASSUME NEW j \in DOMAIN a
      PROVE  \/ TakenOver(a[j])'
             \/ n \in 1..(j - 1) /\ n \in 1..j /\ "failed" \in job'[a[n]]
  <2>1. a[j] \in Files /\ j \in 1..Len(a) /\ n \in 1..Len(a) /\ Len(a) \in Nat
    BY PagesAre
  <2>2. CASE j < n
    <3>1. j \in 1..(n - 1)
      BY <2>1, <2>2
    <3> QED BY <2>1, <3>1, TakenStays
  <2>3. CASE j = n
    BY <2>3
  <2>4. CASE j > n
    <3>1. n \in 1..(j - 1) /\ n \in 1..j /\ n # Len(a)
      BY <2>1, <2>4
    <3> QED BY <3>1
  <2> QED BY <2>1, <2>2, <2>3, <2>4
<1> QED BY <1>1 DEF Imported, AfterDuplicate, Told

LEMMA FailedIsTold ==
    ASSUME Intake, [Next]_vars, NEW a \in Pages, NEW n \in DOMAIN a,
           \A j \in 1..(n - 1) : TakenOver(a[j]), "failed" \in job'[a[n]]
    PROVE  Told(a)'
<1>1. ASSUME NEW j \in DOMAIN a
      PROVE  TakenOver(a[j])' \/ n \in 1..j
  <2>1. a[j] \in Files /\ j \in 1..Len(a) /\ n \in 1..Len(a) /\ Len(a) \in Nat
    BY PagesAre
  <2>2. CASE j < n
    <3>1. j \in 1..(n - 1)
      BY <2>1, <2>2
    <3> QED BY <2>1, <3>1, TakenStays
  <2>3. CASE j >= n
    BY <2>1, <2>3
  <2> QED BY <2>1, <2>2, <2>3
<1> QED BY <1>1 DEF Told

-----------------------------------------------------------------------------
(***************************************************************************)
(* What a step does to the mail a poll has in hand.                        *)
(***************************************************************************)

SameSession(q, new) == InSession(q) /\ new.kind = "mail" /\ new.set = q.set

\* It is none of a mailbox; it ends; it begins; it goes on to the next mail.
Elsewhere(q, new) == ~ InSession(q) /\ ~ AtWork(new)
Ends(q, new) ==
    /\ ~ InSession(new) /\ (AtAttachments(q) => crashes' # 0)
    /\ AtWork(new) => AtWork(q) /\ new.set = q.set
Begins(q, new) ==
    ~ AtAttachments(q) /\ new.pc = "next" /\ new.set = source.set /\ new.view = Present
GoesOn(q, new) ==
    SameSession(q, new) /\ new.pc = "next" /\ new.view = q.view /\ (AtAttachments(q) => q.left = <<>>)

\* It fetches a mail.
Fetches(q, new) ==
    /\ SameSession(q, new) /\ q.pc = "next" /\ new.view = q.view /\ new.todo = q.todo
    /\ new.mail = Numbered(q.view, Lowest(q.todo)) /\ new.mail \in Present
    /\ new.left = Attached[new.mail] /\ new.page = q.page
    /\ new.pc = IF new.left = <<>> THEN "dispose" ELSE "import"

\* It keeps the mail in hand, and is done with an attachment, or with the mail.
Holds(q, new) ==
    /\ SameSession(q, new) /\ {q.pc, new.pc} \subseteq AtMail
    /\ new.mail = q.mail /\ new.todo = q.todo

Checks(q, new) ==
    Holds(q, new) /\ AtAttachments(q) /\ new.pc = "create" /\ new.view = q.view /\ new.left = q.left
        /\ new.page = q.page /\ new.failed = q.failed

\* It is at page n of attachment a, and goes on to the next, or is done with a.
AtPageOf(q, new, a, n) ==
    /\ Holds(q, new) /\ AtAttachments(q) /\ new.pc = "import" /\ new.view = q.view
    /\ q.left # <<>> /\ a = Head(q.left) /\ n = q.page

Turns(q, new, a, n) ==
    /\ AtPageOf(q, new, a, n)
    /\ new.left = q.left /\ new.page = n + 1 /\ new.failed = q.failed /\ TakenOver(a[n])'

DoneWith(q, new, a, n, ok) ==
    /\ AtPageOf(q, new, a, n)
    /\ new.left = Tail(q.left) /\ new.page = 1 /\ new.failed = IF ok THEN q.failed ELSE TRUE
    /\ IF ok THEN TakenOver(a[n])' /\ (n = Len(a) \/ "failed" \in job'[a[n]])
       ELSE <<q.mail, a>> \in untold' \/ "failed" \in job'[a[n]]

Passes(q, new) ==
    /\ Holds(q, new) /\ AtAttachments(q) /\ q.left = <<>> /\ ~ q.failed
    /\ new.pc = "dispose" /\ new.view = q.view

Answering(q, new) ==
    /\ Holds(q, new) /\ ~ AtAttachments(q) /\ new.pc \in {"reply", "send"}
    /\ new.view \in {q.view, q.view \cap Present}

MailStep(q, new) ==
    \/ Elsewhere(q, new) \/ Ends(q, new) \/ Begins(q, new) \/ GoesOn(q, new) \/ Fetches(q, new)
    \/ Checks(q, new) \/ Passes(q, new) \/ Answering(q, new)
    \/ \E a \in Pages : \E n \in DOMAIN a :
          Turns(q, new, a, n) \/ \E ok \in BOOLEAN : DoneWith(q, new, a, n, ok)

LEMMA NewPoll ==
    ASSUME Polling, NEW p \in Polls, NEW new, NEW other,
           poll' = [poll EXCEPT ![p] = new], poll' = [poll EXCEPT ![p] = other]
    PROVE  new = other
BY DEF Polling

LEMMA NextNumberIs ==
    ASSUME NEW q, IsPoll(q)
    PROVE  /\ NextNumber(q).pc = "next" /\ NextNumber(q).kind = q.kind
           /\ NextNumber(q).set = q.set /\ NextNumber(q).view = q.view
           /\ Abort(q).pc = "close" /\ Abort(q).kind = q.kind /\ Abort(q).set = q.set
<1>1. PICK t : t = q.todo \ {Lowest(q.todo)}
  OBVIOUS
<1>2. PICK n : n = [q EXCEPT !.pc = "next", !.todo = t, !.left = <<>>, !.failed = FALSE, !.mail = 0, !.row = 0]
  OBVIOUS
<1>3. n.pc = "next" /\ n.kind = q.kind /\ n.set = q.set /\ n.view = q.view
  BY <1>2 DEF IsPoll
<1>4. n = NextNumber(q)
  BY <1>1, <1>2 DEF NextNumber
<1>5. Abort(q).pc = "close" /\ Abort(q).kind = q.kind /\ Abort(q).set = q.set
  BY DEF Abort, IsPoll
<1> QED BY <1>3, <1>4, <1>5

\* A poll that has no mail in hand, and goes on or ends.
LEMMA GoesOnOrEnds ==
    ASSUME NEW q, NEW new, PollFits(q), InSession(q),
           new \in {NextNumber(q), Abort(q)}, AtAttachments(q) => q.left = <<>> /\ new = NextNumber(q)
    PROVE  GoesOn(q, new) \/ Ends(q, new)
BY NextNumberIs DEF PollFits, GoesOn, Ends, SameSession, InSession, AtWork, AtMail

\* ... the beginnings and ends of polls and requests
LEMMA BeginsAndEnds ==
    ASSUME Intake, NEW p \in Polls, NEW new, PollMoves(p, new),
           \/ \E forced \in BOOLEAN : BeginPoll(p, forced)
           \/ \E kind \in {"http", "upload"}, t \in bound.targets :
                 \E n \in 1..Cardinality(Files) : \E files \in [1..n -> Files] :
                    BeginRequest(p, kind, t, files)
           \/ EndRequest(p) \/ CloseMailbox(p) \/ WritePollState(p) \/ PollDies(p)
    PROVE  MailStep(poll[p], new)
<1> DEFINE q == poll[p]
<1>1. PollFits(q) /\ IsPoll(q) /\ Polling
  BY DEF Intake, Polling, PollFits
<1>2. poll' = [poll EXCEPT ![p] = new]
  BY DEF PollMoves
<1>3. ASSUME NEW forced \in BOOLEAN, BeginPoll(p, forced)
      PROVE  MailStep(q, new)
  <2>1. PICK n : /\ poll' = [poll EXCEPT ![p] = n]
                 /\ \E todo : n = [NotPolling EXCEPT !.pc = "next", !.target = source.target,
                                     !.set = source.set, !.view = Present, !.todo = todo]
    BY <1>3 DEF BeginPoll
  <2>2. n.pc = "next" /\ n.set = source.set /\ n.view = Present
    BY <2>1 DEF NotPolling
  <2>3. q.pc = "idle"
    <3>1. q = NotPolling
      BY <1>3 DEF BeginPoll
    <3>2. NotPolling.pc = "idle"
      BY DEF NotPolling
    <3> QED BY <3>1, <3>2
  <2>4. new = n
    BY <1>1, <1>2, <2>1, NewPoll
  <2> QED BY <2>2, <2>3, <2>4 DEF MailStep, Begins, AtAttachments
<1>4. ASSUME NEW kind \in {"http", "upload"}, NEW t, NEW files, BeginRequest(p, kind, t, files)
      PROVE  MailStep(q, new)
  <2>1. PICK n : /\ poll' = [poll EXCEPT ![p] = n]
                 /\ \E left : n = [NotPolling EXCEPT !.pc = "import", !.kind = kind, !.target = t,
                                                     !.left = left]
    BY <1>4 DEF BeginRequest
  <2>2. n.kind # "mail"
    BY <2>1 DEF NotPolling
  <2>3. q.pc = "idle"
    <3>1. q = NotPolling
      BY <1>4 DEF BeginRequest
    <3>2. NotPolling.pc = "idle"
      BY DEF NotPolling
    <3> QED BY <3>1, <3>2
  <2>4. new = n
    BY <1>1, <1>2, <2>1, NewPoll
  <2> QED BY <2>2, <2>3, <2>4 DEF MailStep, Elsewhere, InSession, AtWork, AtMail
<1>5. ASSUME poll' = [poll EXCEPT ![p] = NotPolling], ~ AtAttachments(q) \/ crashes' # 0
      PROVE  MailStep(q, new)
  <2>1. new = NotPolling
    BY <1>1, <1>2, <1>5, NewPoll
  <2> QED BY <1>5, <2>1 DEF MailStep, Ends, InSession, AtWork, NotPolling, AtMail
<1>6. CASE EndRequest(p) \/ WritePollState(p)
  BY <1>5, <1>6 DEF EndRequest, WritePollState, AtAttachments
<1>7. CASE PollDies(p)
  <2>1. crashes \in Nat /\ crashes' = crashes + 1
    BY <1>7 DEF PollDies, Intake, Batches, RowsFit
  <2> QED BY <1>5, <1>7, <2>1 DEF PollDies
<1>8. CASE CloseMailbox(p)
  <2>1. q.pc \in {"close", "next"}
    BY <1>8 DEF CloseMailbox
  <2>2. CASE poll' = [poll EXCEPT ![p] = NotPolling]
    BY <1>5, <2>1, <2>2 DEF AtAttachments
  <2>3. CASE poll' = [poll EXCEPT ![p] = [@ EXCEPT !.pc = "write"]]
    <3>1. PICK n : n = [q EXCEPT !.pc = "write"] /\ poll' = [poll EXCEPT ![p] = n]
      BY <2>3
    <3>2. new = n /\ n.pc = "write" /\ n.kind = q.kind /\ n.set = q.set
      <4>1. new = n
        BY <1>1, <1>2, <3>1, NewPoll
      <4> HIDE DEF q
      <4> QED BY <1>1, <3>1, <4>1 DEF IsPoll
    <3> QED BY <2>1, <3>2 DEF MailStep, Ends, InSession, AtWork, AtAttachments, AtMail
  <2> QED BY <1>8, <2>2, <2>3 DEF CloseMailbox
<1> QED BY <1>3, <1>4, <1>6, <1>7, <1>8

LEMMA FetchesMail ==
    ASSUME Intake, NEW p \in Polls, NEW new, PollMoves(p, new), FetchMail(p)
    PROVE  MailStep(poll[p], new)
<1> DEFINE q == poll[p]
           m == Numbered(q.view, Number(p))
<1>1. PollFits(q) /\ IsPoll(q) /\ Polling /\ q.pc = "next" /\ q.kind = "mail" /\ InSession(q)
  BY DEF Intake, Polling, PollFits, FetchMail, InSession
<1>2. poll' = [poll EXCEPT ![p] = new]
  BY DEF PollMoves
<1>3. CASE Number(p) <= Cardinality(q.view) /\ m \in Present
  <2>1. PICK k : k = m
    OBVIOUS
  <2>2. PICK pc, r : /\ poll' = [poll EXCEPT ![p].mail = k, ![p].left = Attached[k],
                                             ![p].pc = pc, ![p].reply = r]
                     /\ pc = IF Attached[k] = <<>> THEN "dispose" ELSE "import"
    BY <1>3, <2>1 DEF FetchMail
  <2>3. PICK n : /\ n = [q EXCEPT !.mail = k, !.left = Attached[k], !.pc = pc, !.reply = r]
                 /\ poll' = [poll EXCEPT ![p] = n]
    BY <2>2
  <2>4. /\ n.kind = "mail" /\ n.set = q.set /\ n.view = q.view /\ n.todo = q.todo
        /\ n.mail = k /\ n.left = Attached[k] /\ n.page = q.page /\ n.pc = pc
    <3> HIDE DEF q
    <3> QED BY <1>1, <2>3 DEF IsPoll
  <2>5. new = n
    <3> HIDE DEF q, m
    <3> QED BY <1>1, <1>2, <2>3, NewPoll, ZenonT(60)
  <2>6. k = Numbered(q.view, Lowest(q.todo)) /\ k \in Present
    BY <1>3, <2>1 DEF Number
  <2> QED BY <1>1, <2>2, <2>4, <2>5, <2>6 DEF MailStep, Fetches, SameSession
<1>4. CASE ~ (Number(p) <= Cardinality(q.view) /\ m \in Present)
  <2>1. PICK n \in {NextNumber(q), Abort(q)} : poll' = [poll EXCEPT ![p] = n]
    BY <1>4 DEF FetchMail
  <2>2. new = n
    BY <1>1, <1>2, <2>1, NewPoll
  <2> QED BY <1>1, <2>1, <2>2, GoesOnOrEnds DEF MailStep, AtAttachments
<1> QED BY <1>3, <1>4

\* ... an attachment
LEMMA DoneWithAttachment ==
    ASSUME Polling, NEW p \in Polls, NEW new, PollMoves(p, new), NEW own, NEW q, NEW result,
           q = [poll[p] EXCEPT !.own = own], poll' = [poll EXCEPT ![p] = AfterAttachment(q, result)],
           poll[p].pc \in {"import", "create"}, poll[p].left # <<>>,
           NEW f, f = File(p),
           poll[p].kind = "mail" =>
              IF result = "failed" THEN <<Mail(p), Attachment(p)>> \in untold' \/ "failed" \in job'[f]
              ELSE TakenOver(f)' /\ (result = "imported" \/ "failed" \in job'[f])
    PROVE  MailStep(poll[p], new)
<1> DEFINE o == poll[p]
<1>1. PollFits(o) /\ IsPoll(o)
  BY DEF Polling, PollFits
<1>2. /\ IsPoll(q) /\ q.left = o.left /\ q.page = o.page /\ q.kind = o.kind /\ q.set = o.set
      /\ q.view = o.view /\ q.todo = o.todo /\ q.mail = o.mail /\ q.failed = o.failed
  <2>1. q = [o EXCEPT !.own = own]
    OBVIOUS
  <2> HIDE DEF o
  <2> QED BY <1>1, <2>1 DEF IsPoll
<1>3. After(q, result, new)
  <2>1. PICK n : n = AfterAttachment(q, result) /\ poll' = [poll EXCEPT ![p] = n]
    OBVIOUS
  <2>2. new = n
    BY <2>1, NewPoll DEF PollMoves
  <2> QED BY <1>2, <2>1, <2>2, AfterIs
<1>4. CASE o.kind # "mail"
  <2>1. new = NotPolling \/ new.kind = o.kind
    BY <1>2, <1>3 DEF After
  <2>2. NotPolling.pc = "idle"
    BY DEF NotPolling
  <2>3. ~ AtWork(new)
    BY <1>4, <2>1, <2>2 DEF AtWork
  <2>4. ~ InSession(o)
    BY <1>4 DEF InSession
  <2> QED BY <2>3, <2>4 DEF MailStep, Elsewhere
<1>5. CASE o.kind = "mail"
  <2>1. PICK a, n : a = Attachment(p) /\ n = poll[p].page
    OBVIOUS
  <2>2. a \in Pages /\ n \in DOMAIN a /\ f = a[n] /\ a = Head(o.left)
    BY <2>1, PageIsFile DEF File, Attachment
  <2>3. /\ new.pc = "import" /\ new.kind = "mail" /\ new.set = o.set /\ new.view = o.view
        /\ new.todo = o.todo /\ new.mail = o.mail
        /\ \/ result = "imported" /\ n < Len(a) /\ new.left = o.left /\ new.page = n + 1 /\ new.failed = o.failed
           \/ /\ ~ (result = "imported" /\ n < Len(a))
              /\ new.left = Tail(o.left) /\ new.page = 1
              /\ new.failed = IF result = "failed" THEN TRUE ELSE o.failed
    BY <1>2, <1>3, <1>5, <2>1, <2>2 DEF After
  <2>4. AtPageOf(o, new, a, n)
    <3>1. Holds(o, new) /\ AtAttachments(o)
      BY <1>5, <2>3 DEF Holds, SameSession, InSession, AtMail, AtAttachments
    <3> QED BY <2>1, <2>2, <2>3, <3>1 DEF AtPageOf
  <2>5. CASE result = "imported" /\ n < Len(a)
    <3>1. TakenOver(a[n])'
      BY <1>5, <2>2, <2>5
    <3>2. Turns(o, new, a, n)
      BY <2>3, <2>4, <2>5, <3>1 DEF Turns
    <3> QED BY <2>2, <3>2 DEF MailStep
  <2>6. CASE ~ (result = "imported" /\ n < Len(a))
    <3>1. PICK ok \in BOOLEAN : ok = (result # "failed")
      OBVIOUS
    <3>2. new.left = Tail(o.left) /\ new.page = 1 /\ new.failed = IF ok THEN o.failed ELSE TRUE
      BY <2>3, <2>6, <3>1
    <3>3. CASE ok
      <4>1. TakenOver(a[n])' /\ (result = "imported" \/ "failed" \in job'[a[n]])
        BY <1>5, <2>2, <3>1, <3>3
      <4>2. result = "imported" => n = Len(a)
        BY <2>2, <2>6, PagesAre
      <4>3. DoneWith(o, new, a, n, ok)
        BY <2>4, <3>2, <3>3, <4>1, <4>2 DEF DoneWith
      <4> QED BY <2>2, <4>3 DEF MailStep
    <3>4. CASE ~ ok
      <4>1. <<o.mail, a>> \in untold' \/ "failed" \in job'[a[n]]
        BY <1>5, <2>1, <2>2, <3>1, <3>4 DEF Mail
      <4>2. DoneWith(o, new, a, n, ok)
        BY <2>4, <3>2, <3>4, <4>1 DEF DoneWith
      <4> QED BY <2>2, <4>2 DEF MailStep
    <3> QED BY <3>3, <3>4
  <2> QED BY <2>5, <2>6
<1> QED BY <1>4, <1>5

LEMMA AttachmentSteps ==
    ASSUME Intake, Jobs, [Next]_vars, NEW p \in Polls, NEW new, PollMoves(p, new),
           \/ AttachmentRaises(p) \/ CheckAttachment(p)
           \/ \E outcome \in Outcomes :
                 CreateDocument(p, outcome) \/ \E suggested \in BOOLEAN : StageAttachment(p, suggested, outcome)
    PROVE  MailStep(poll[p], new)
<1> DEFINE q == poll[p]
<1>1. PollFits(q) /\ IsPoll(q) /\ Polling /\ RowsFit
  BY DEF Intake, Polling, PollFits, Batches
<1>2. q.pc \in {"import", "create"} /\ q.left # <<>>
  BY <1>1 DEF AttachmentRaises, CheckAttachment, CreateDocument, StageAttachment, AtAttachment,
              PollFits
<1>3. PICK f \in Files : f = File(p)
  BY <1>1, <1>2, PageIsFile
<1>4. ASSUME NEW s, JobEnds(p, s), q.kind = "mail"
      PROVE  s \in job'[f]
  BY <1>3, <1>4 DEF JobEnds, Jobs
<1>5. q = [q EXCEPT !.own = q.own]
  <2> HIDE DEF q
  <2> QED BY <1>1 DEF IsPoll
<1>6. ASSUME NEW result, AttachmentDone(p, result),
             q.kind = "mail" =>
                IF result = "failed" THEN <<Mail(p), Attachment(p)>> \in untold' \/ "failed" \in job'[f]
                ELSE TakenOver(f)' /\ (result = "imported" \/ "failed" \in job'[f])
      PROVE  MailStep(q, new)
  <2>1. poll' = [poll EXCEPT ![p] = AfterAttachment(q, result)]
    BY <1>6 DEF AttachmentDone
  <2> QED BY <1>1, <1>2, <1>3, <1>5, <1>6, <2>1, DoneWithAttachment
<1>7. ASSUME NEW own, NEW o \in Outcomes, NEW good, Made(p, [q EXCEPT !.own = own], o, good),
             o = "done" => TakenOver(f)'
      PROVE  MailStep(q, new)
  <2>1. PICK r, result : /\ r = [q EXCEPT !.own = own]
                         /\ result = IF o = "done" THEN "imported" ELSE "failed"
    OBVIOUS
  <2>2. poll' = [poll EXCEPT ![p] = AfterAttachment(r, result)] /\ JobEnds(p, JobStatus(o, good))
    BY <1>7, <2>1 DEF Made
  <2>3. o # "done" => JobStatus(o, good) = "failed"
    BY DEF JobStatus
  <2>4. q.kind = "mail" =>
           IF result = "failed" THEN <<Mail(p), Attachment(p)>> \in untold' \/ "failed" \in job'[f]
           ELSE TakenOver(f)' /\ (result = "imported" \/ "failed" \in job'[f])
    BY <1>4, <1>7, <2>1, <2>2, <2>3
  <2> QED BY <1>1, <1>2, <1>3, <2>1, <2>2, <2>4, DoneWithAttachment
<1>8. CASE AttachmentRaises(p)
  <2>1. AttachmentDone(p, "failed") /\ (q.kind = "mail" => <<Mail(p), Attachment(p)>> \in untold')
    BY <1>8 DEF AttachmentRaises
  <2> QED BY <1>6, <2>1
<1>9. CASE CheckAttachment(p)
  <2>1. CASE Duplicate(p)
    <3>1. AttachmentDone(p, "duplicate") /\ JobEnds(p, "failed") /\ TakenOver(f)
      BY <1>3, <1>9, <2>1 DEF CheckAttachment, Duplicate, TakenOver
    <3>2. TakenOver(f)'
      BY <3>1, TakenStays
    <3> QED BY <1>4, <1>6, <3>1, <3>2
  <2>2. CASE ~ Duplicate(p)
    <3>1. PICK n : n = [q EXCEPT !.pc = "create"] /\ poll' = [poll EXCEPT ![p] = n]
      BY <1>9, <2>2 DEF CheckAttachment
    <3>2. new = n
      BY <1>1, <3>1, NewPoll DEF PollMoves
    <3>3. /\ n.kind = q.kind /\ n.set = q.set /\ n.view = q.view /\ n.todo = q.todo /\ n.mail = q.mail
          /\ n.pc = "create" /\ n.left = q.left /\ n.page = q.page /\ n.failed = q.failed
      <4> HIDE DEF q
      <4> QED BY <1>1, <3>1 DEF IsPoll
    <3>4. CASE q.kind = "mail"
      <4>1. Holds(q, new) /\ AtAttachments(q)
        BY <1>2, <3>2, <3>3, <3>4 DEF Holds, SameSession, InSession, AtMail, AtAttachments
      <4> QED BY <3>2, <3>3, <4>1 DEF MailStep, Checks
    <3>5. CASE q.kind # "mail"
      BY <3>2, <3>3, <3>5 DEF MailStep, Elsewhere, InSession, AtWork
    <3> QED BY <3>4, <3>5
  <2> QED BY <2>1, <2>2
<1>10. ASSUME NEW o \in Outcomes, CreateDocument(p, o)
       PROVE  MailStep(q, new)
  <2>1. PICK own : Made(p, [q EXCEPT !.own = own], o, "imported")
    BY <1>10 DEF CreateDocument
  <2>2. docs' = [docs EXCEPT ![f] = @ + (IF o = "undone" THEN 0 ELSE 1)]
    BY <1>3, <1>10 DEF CreateDocument
  <2>3. ASSUME o = "done" PROVE TakenOver(f)'
    <3>1. docs'[f] = docs[f] + 1 /\ docs[f] \in Nat
      BY <1>1, <2>2, <2>3 DEF RowsFit
    <3>2. docs'[f] > 0
      BY <3>1
    <3> QED BY <3>2 DEF TakenOver
  <2> QED BY <1>7, <2>1, <2>3
<1>11. ASSUME NEW o \in Outcomes, NEW suggested \in BOOLEAN, StageAttachment(p, suggested, o)
       PROVE  MailStep(q, new)
  <2>1. Made(p, [q EXCEPT !.own = q.own], o, "staged")
    BY <1>5, <1>11 DEF StageAttachment
  <2>2. ASSUME o = "done" PROVE TakenOver(f)'
    <3>1. Stage({f}, suggested)
      BY <1>3, <1>11, <2>2 DEF StageAttachment
    <3>2. \E i \in DOMAIN item' : item'[i].file = f
      BY <1>1, <3>1, StagedIs
    <3> QED BY <3>2 DEF TakenOver
  <2> QED BY <1>7, <2>1, <2>2
<1> QED BY <1>8, <1>9, <1>10, <1>11


\* ... and what is done with the mail after its attachments.
LEMMA LaterSteps ==
    ASSUME Intake, NEW p \in Polls, NEW new, PollMoves(p, new),
           \/ LeaveMail(p) \/ DisposeMail(p) \/ \E told \in BOOLEAN : MoveMail(p, told)
           \/ ClaimReply(p) \/ SendReply(p) \/ ReplyFails(p)
    PROVE  MailStep(poll[p], new)
<1> DEFINE q == poll[p]
<1>1. PollFits(q) /\ IsPoll(q) /\ Polling
  BY DEF Intake, Polling, PollFits
<1>2. poll' = [poll EXCEPT ![p] = new]
  BY DEF PollMoves
<1>3. q.pc \in {"import", "dispose", "reply", "send"} /\ q.kind = "mail" /\ InSession(q)
  <2>1. q.pc \in {"import", "dispose", "reply", "send"} /\ (q.pc = "import" => q.kind = "mail")
    BY DEF LeaveMail, DisposeMail, MoveMail, ClaimReply, SendReply, ReplyFails
  <2> QED BY <1>1, <2>1 DEF PollFits, InSession, AtMail
<1>4. ASSUME NEW n, poll' = [poll EXCEPT ![p] = n], n \in {NextNumber(q), Abort(q)},
             q.pc = "import" => q.left = <<>> /\ n = NextNumber(q)
      PROVE  MailStep(q, new)
  <2>1. new = n
    BY <1>1, <1>2, <1>4, NewPoll
  <2>2. AtAttachments(q) => q.pc = "import"
    BY <1>3 DEF AtAttachments
  <2> QED BY <1>1, <1>3, <1>4, <2>1, <2>2, GoesOnOrEnds DEF MailStep
<1>5. CASE LeaveMail(p)
  <2>1. q.pc = "import" /\ q.left = <<>>
    BY <1>5 DEF LeaveMail
  <2>2. CASE ImportedAll(p)
    <3>1. PICK n : n = [q EXCEPT !.pc = "dispose"] /\ poll' = [poll EXCEPT ![p] = n]
      BY <1>5, <2>2 DEF LeaveMail
    <3>2. new = n
      BY <1>1, <1>2, <3>1, NewPoll
    <3>3. /\ n.kind = q.kind /\ n.set = q.set /\ n.view = q.view /\ n.todo = q.todo /\ n.mail = q.mail
          /\ n.pc = "dispose"
      <4> HIDE DEF q
      <4> QED BY <1>1, <3>1 DEF IsPoll
    <3>4. ~ q.failed
      BY <2>2 DEF ImportedAll
    <3>5. Passes(q, new)
      BY <1>3, <2>1, <3>2, <3>3, <3>4 DEF Passes, Holds, SameSession, AtAttachments, AtMail
    <3> QED BY <3>5 DEF MailStep
  <2>3. CASE ~ ImportedAll(p)
    <3>1. poll' = [poll EXCEPT ![p] = NextNumber(q)]
      BY <1>5, <2>3 DEF LeaveMail
    <3> QED BY <1>4, <2>1, <3>1
  <2> QED BY <2>2, <2>3
<1>6. ASSUME NEW n, poll' = [poll EXCEPT ![p] = n], q.pc \in {"dispose", "reply"},
             NEW pc \in {"reply", "send"}, NEW view \in {q.view, q.view \cap Present}, NEW row,
             n = [q EXCEPT !.pc = pc, !.view = view, !.row = row]
      PROVE  MailStep(q, new)
  <2>1. new = n
    BY <1>1, <1>2, <1>6, NewPoll
  <2>2. /\ n.kind = q.kind /\ n.set = q.set /\ n.view = view /\ n.todo = q.todo /\ n.mail = q.mail
        /\ n.pc = pc
    <3> HIDE DEF q
    <3> QED BY <1>1, <1>6 DEF IsPoll
  <2>3. Answering(q, new)
    BY <1>3, <1>6, <2>1, <2>2 DEF Answering, Holds, SameSession, AtAttachments, AtMail
  <2> QED BY <2>3 DEF MailStep
<1>7. CASE DisposeMail(p)
  <2>1. PICK n : n = [q EXCEPT !.pc = "reply"] /\ poll' = [poll EXCEPT ![p] = n] /\ q.pc = "dispose"
    BY <1>7 DEF DisposeMail
  <2>2. n = [q EXCEPT !.pc = "reply", !.view = q.view, !.row = q.row]
    <3> HIDE DEF q
    <3> QED BY <1>1, <2>1 DEF IsPoll
  <2> QED BY <1>6, <2>1, <2>2
<1>8. ASSUME NEW told \in BOOLEAN, MoveMail(p, told)
      PROVE  MailStep(q, new)
  <2>1. q.pc = "dispose"
    BY <1>8 DEF MoveMail
  <2>2. PICK view \in {q.view, q.view \cap Present} :
          \/ poll' = [poll EXCEPT ![p] = Abort(q)]
          \/ poll' = [poll EXCEPT ![p] = [@ EXCEPT !.pc = "reply", !.view = view]]
    BY <1>8 DEF MoveMail
  <2>3. CASE poll' = [poll EXCEPT ![p] = [@ EXCEPT !.pc = "reply", !.view = view]]
    <3>1. PICK n : n = [q EXCEPT !.pc = "reply", !.view = view] /\ poll' = [poll EXCEPT ![p] = n]
      BY <2>3
    <3>2. n = [q EXCEPT !.pc = "reply", !.view = view, !.row = q.row]
      <4> HIDE DEF q
      <4> QED BY <1>1, <3>1 DEF IsPoll
    <3> QED BY <1>6, <2>1, <3>1, <3>2
  <2> QED BY <1>4, <2>1, <2>2, <2>3
<1>9. CASE ClaimReply(p)
  <2>1. q.pc = "reply"
    BY <1>9 DEF ClaimReply
  <2>2. PICK row : \/ poll' = [poll EXCEPT ![p] = NextNumber(q)]
                   \/ poll' = [poll EXCEPT ![p] = [@ EXCEPT !.pc = "send", !.row = row]]
    BY <1>9 DEF ClaimReply
  <2>3. CASE poll' = [poll EXCEPT ![p] = [@ EXCEPT !.pc = "send", !.row = row]]
    <3>1. PICK n : n = [q EXCEPT !.pc = "send", !.row = row] /\ poll' = [poll EXCEPT ![p] = n]
      BY <2>3
    <3>2. n = [q EXCEPT !.pc = "send", !.view = q.view, !.row = row]
      <4> HIDE DEF q
      <4> QED BY <1>1, <3>1 DEF IsPoll
    <3> QED BY <1>6, <2>1, <3>1, <3>2
  <2> QED BY <1>4, <2>1, <2>2, <2>3
<1>10. CASE SendReply(p) \/ ReplyFails(p)
  <2>1. q.pc = "send"
    BY <1>10 DEF SendReply, ReplyFails
  <2>2. poll' = [poll EXCEPT ![p] = NextNumber(q)] \/ poll' = [poll EXCEPT ![p] = Abort(q)]
    BY <1>10 DEF SendReply, ReplyFails
  <2> QED BY <1>4, <2>1, <2>2
<1> QED BY <1>5, <1>7, <1>8, <1>9, <1>10

\* Each step moves one poll in one of these ways, or none.
LEMMA MailSteps ==
    ASSUME Intake, Jobs, [Next]_vars
    PROVE  \/ UNCHANGED poll
           \/ \E p \in Polls : /\ MailStep(poll[p], poll'[p])
                               /\ \A r \in Polls : r # p => poll'[r] = poll[r]
<1>1. Polling /\ Mailing
  BY DEF Intake
<1>2. ASSUME NEW p \in Polls, PollStep(p), NEW new, PollMoves(p, new)
      PROVE  MailStep(poll[p], poll'[p]) /\ \A r \in Polls : r # p => poll'[r] = poll[r]
  <2>1. poll'[p] = new /\ \A r \in Polls : r # p => poll'[r] = poll[r]
    BY <1>1, <1>2 DEF Polling, PollMoves
  <2>2. MailStep(poll[p], new)
    <3>1. CASE \/ \E forced \in BOOLEAN : BeginPoll(p, forced)
               \/ \E kind \in {"http", "upload"}, t \in bound.targets :
                     \E n \in 1..Cardinality(Files) : \E files \in [1..n -> Files] :
                        BeginRequest(p, kind, t, files)
               \/ EndRequest(p) \/ CloseMailbox(p) \/ WritePollState(p) \/ PollDies(p)
      BY <1>2, <3>1, BeginsAndEnds
    <3>2. CASE FetchMail(p)
      BY <1>2, <3>2, FetchesMail
    <3>3. CASE \/ AttachmentRaises(p) \/ CheckAttachment(p)
               \/ \E outcome \in Outcomes :
                     \/ CreateDocument(p, outcome)
                     \/ \E suggested \in BOOLEAN : StageAttachment(p, suggested, outcome)
      BY <1>2, <3>3, AttachmentSteps
    <3>4. CASE \/ LeaveMail(p) \/ DisposeMail(p) \/ \E told \in BOOLEAN : MoveMail(p, told)
               \/ ClaimReply(p) \/ SendReply(p) \/ ReplyFails(p)
      BY <1>2, <3>4, LaterSteps
    <3> QED BY <1>2, <3>1, <3>2, <3>3, <3>4 DEF PollStep
  <2> QED BY <2>1, <2>2
<1> QED BY <1>1, <1>2, PollsMove

\* The pages before the one a poll is at stay taken over.
LEMMA EarlierPagesStay ==
    ASSUME Intake, [Next]_vars, NEW q, PollFits(q), Handles(q), AtAttachments(q), q.left # <<>>
    PROVE  \A j \in 1..(q.page - 1) : TakenOver(Head(q.left)[j])'
<1> SUFFICES ASSUME NEW j \in 1..(q.page - 1) PROVE TakenOver(Head(q.left)[j])'
  OBVIOUS
<1>1. TakenOver(Head(q.left)[j])
  BY DEF Handles
<1>2. q.left \in Seq(Pages) /\ q.page \in 1..Len(Head(q.left))
  BY DEF PollFits, AtPage
<1>3. PICK a \in Pages : a = Head(q.left)
  BY <1>2, FirstAttachment
<1>4. j \in DOMAIN a
  BY <1>2, <1>3, PagesAre
<1>5. PICK f \in Files : f = a[j]
  BY <1>4, PagesAre
<1> QED BY <1>1, <1>3, <1>5, TakenStays

\* What a mail in hand has come to: all before the attachment the poll is at.
LEMMA HandlesAfter ==
    ASSUME Intake, Jobs, [Next]_vars, NEW q, NEW new, PollFits(q), PollFits(new),
           MailStep(q, new), Handles(q)
    PROVE  Handles(new)'
<1> DEFINE all == Attached[q.mail]
<1>1. AtAttachments(q) => q.mail \in Mails /\ all \in Seq(Pages) /\ q.left \in Seq(Pages)
  BY MailsAre DEF PollFits, AtAttachments, AtMail
<1>2. CASE ~ AtAttachments(new) /\ ~ PastAttachments(new)
  BY <1>2 DEF Handles
<1>3. CASE Fetches(q, new)
  <2>1. new.mail \in Mails
    BY <1>3 DEF PollFits, Fetches, SameSession, AtMail
  <2>2. PICK a \in Seq(Pages) : a = Attached[new.mail]
    BY <2>1, MailsAre
  <2>3. Rest(a, a) /\ Before(a, a) = {} /\ new.left = a
    BY <1>3, <2>2, RestAtEnds DEF Fetches
  <2>4. AtAttachments(new) => Rest(new.left, Attached[new.mail]) /\ Before(new.left, Attached[new.mail]) = {}
    BY <2>2, <2>3
  <2>5. PastAttachments(new) => DOMAIN Attached[new.mail] = {}
    BY <1>3, <2>2, <2>3 DEF Fetches, PastAttachments
  <2>6. new.page = 1
    BY <1>3 DEF Fetches, PollFits, AtPage
  <2>7. \A j \in 1..(new.page - 1) : FALSE
    BY <2>6
  <2> QED BY <2>4, <2>5, <2>7 DEF Handles, Processed
<1>4. CASE Checks(q, new)
  <2>1. /\ new.mail = q.mail /\ new.left = q.left /\ new.page = q.page /\ new.failed = q.failed
        /\ AtAttachments(q) /\ ~ PastAttachments(new)
    BY <1>4 DEF Checks, Holds, PastAttachments
  <2>2. ~ q.failed => \A a \in Before(q.left, all) : Imported(a)'
    <3>1. \A a \in Before(q.left, all) : a \in Pages
      BY <1>1, <2>1, BeforeArePages
    <3> QED BY <2>1, <3>1, ImportedStays DEF Handles
  <2>3. Rest(q.left, all)
    BY <2>1 DEF Handles
  <2>4. q.left # <<>> => \A j \in 1..(q.page - 1) : TakenOver(Head(q.left)[j])'
    BY <2>1, EarlierPagesStay
  <2> QED BY <2>1, <2>2, <2>3, <2>4 DEF Handles
<1>5. ASSUME NEW a \in Pages, NEW n \in DOMAIN a, NEW ok \in BOOLEAN, DoneWith(q, new, a, n, ok)
      PROVE  Handles(new)'
  <2>1. /\ new.mail = q.mail /\ AtAttachments(q) /\ q.left # <<>> /\ a = Head(q.left) /\ n = q.page
        /\ new.left = Tail(q.left) /\ new.page = 1 /\ ~ PastAttachments(new)
    BY <1>5 DEF DoneWith, AtPageOf, Holds, PastAttachments
  <2>2. Rest(q.left, all)
    BY <2>1 DEF Handles
  <2>3. Rest(new.left, all) /\ \A g \in Before(new.left, all) : g \in Before(q.left, all) \/ g = a
    BY <1>1, <2>1, <2>2, RestOfTail
  <2>4. ~ new.failed => \A g \in Before(new.left, all) : Imported(g)'
    <3> SUFFICES ASSUME ~ new.failed, NEW g \in Before(new.left, all)
                 PROVE  Imported(g)'
      OBVIOUS
    <3>1. ok /\ ~ q.failed
      BY <1>5 DEF DoneWith
    <3>2. Imported(a)'
      <4>1. TakenOver(a[n])' /\ (n = Len(a) \/ "failed" \in job'[a[n]])
        BY <1>5, <3>1 DEF DoneWith
      <4>2. \A j \in 1..(n - 1) : TakenOver(a[j])
        BY <2>1 DEF Handles
      <4> QED BY <4>1, <4>2, DoneIsImported
    <3>3. g \in Pages
      BY <1>1, <2>1, BeforeArePages DEF PollFits
    <3>4. g \in Before(q.left, all) => Imported(g)
      BY <2>1, <3>1 DEF Handles
    <3> QED BY <2>3, <3>2, <3>3, <3>4, ImportedStays
  <2>5. \A j \in 1..(new.page - 1) : FALSE
    BY <2>1
  <2> QED BY <2>1, <2>3, <2>4, <2>5 DEF Handles
<1>6. ASSUME NEW a \in Pages, NEW n \in DOMAIN a, Turns(q, new, a, n)
      PROVE  Handles(new)'
  <2>1. /\ new.mail = q.mail /\ AtAttachments(q) /\ q.left # <<>> /\ a = Head(q.left) /\ n = q.page
        /\ new.left = q.left /\ new.page = n + 1 /\ new.failed = q.failed /\ ~ PastAttachments(new)
    BY <1>6 DEF Turns, AtPageOf, Holds, PastAttachments
  <2>2. Rest(q.left, all)
    BY <2>1 DEF Handles
  <2>3. ~ q.failed => \A g \in Before(q.left, all) : Imported(g)'
    <3>1. \A g \in Before(q.left, all) : g \in Pages
      BY <1>1, <2>1, BeforeArePages
    <3> QED BY <2>1, <3>1, ImportedStays DEF Handles
  <2>4. \A j \in 1..(new.page - 1) : TakenOver(a[j])'
    <3> SUFFICES ASSUME NEW j \in 1..(new.page - 1) PROVE TakenOver(a[j])'
      OBVIOUS
    <3>1. n \in Nat /\ (j = n \/ j \in 1..(n - 1))
      BY <2>1, PagesAre
    <3>2. TakenOver(a[n])'
      BY <1>6 DEF Turns
    <3>3. \A k \in 1..(n - 1) : TakenOver(Head(q.left)[k])'
      BY <2>1, EarlierPagesStay
    <3> QED BY <2>1, <3>1, <3>2, <3>3
  <2> QED BY <2>1, <2>2, <2>3, <2>4 DEF Handles
<1>7. CASE Passes(q, new)
  <2>1. /\ new.mail = q.mail /\ AtAttachments(q) /\ q.left = <<>> /\ ~ q.failed
        /\ ~ AtAttachments(new)
    BY <1>7 DEF Passes, Holds, AtAttachments
  <2>2. Processed(q.mail)
    <3>1. \A k \in DOMAIN all : all[k] \in Before(q.left, all)
      BY <1>1, <2>1, RestAtEnds
    <3> QED BY <2>1, <3>1 DEF Handles, Processed
  <2>3. PICK m \in Mails : m = q.mail
    BY <1>1, <2>1
  <2>4. Processed(m)'
    BY <2>2, <2>3, ProcessedStays
  <2> QED BY <2>1, <2>3, <2>4 DEF Handles
<1>8. CASE Elsewhere(q, new) \/ Ends(q, new) \/ Begins(q, new) \/ GoesOn(q, new) \/ Answering(q, new)
  <2>1. ~ AtAttachments(new) /\ ~ PastAttachments(new)
    BY <1>8 DEF Elsewhere, Ends, Begins, GoesOn, Answering, InSession, AtWork, AtAttachments, PastAttachments, AtMail
  <2> QED BY <1>2, <2>1
<1> QED BY <1>3, <1>4, <1>5, <1>6, <1>7, <1>8 DEF MailStep

LEMMA HandlingStays ==
    ASSUME Intake, Jobs, Handling, [Next]_vars
    PROVE  Handling'
<1>1. Polling /\ Polling'
  BY PollingStays DEF Intake
<1>2. ASSUME NEW p \in Polls, poll'[p] = poll[p]
      PROVE  Handles(poll[p])'
  <2>1. PICK q : q = poll[p] /\ PollFits(q) /\ Handles(q)
    BY <1>1 DEF Handling, Polling
  <2>2. AtAttachments(q) => \A a \in Before(q.left, Attached[q.mail]) : a \in Pages
    BY <2>1, MailsAre, BeforeArePages DEF PollFits, AtAttachments, AtMail
  <2>3. AtAttachments(q) => Rest(q.left, Attached[q.mail])
             /\ (~ q.failed => \A a \in Before(q.left, Attached[q.mail]) : Imported(a)')
    BY <2>1, <2>2, ImportedStays DEF Handles
  <2>4. AtAttachments(q) /\ q.left # <<>> => \A j \in 1..(q.page - 1) : TakenOver(Head(q.left)[j])'
    BY <2>1, EarlierPagesStay
  <2>5. PastAttachments(q) => Processed(q.mail)'
    <3> SUFFICES ASSUME PastAttachments(q) PROVE Processed(q.mail)'
      OBVIOUS
    <3>1. PICK m \in Mails : m = q.mail
      BY <2>1 DEF PollFits, PastAttachments, AtMail
    <3>2. Processed(m)
      BY <2>1, <3>1 DEF Handles
    <3>3. Processed(m)'
      BY <3>2, ProcessedStays
    <3> QED BY <3>1, <3>3
  <2>6. Handles(q)'
    BY <2>3, <2>4, <2>5 DEF Handles
  <2> QED BY <1>2, <2>1, <2>6
<1>3. CASE UNCHANGED poll
  BY <1>2, <1>3 DEF Handling
<1>4. ASSUME NEW p \in Polls, MailStep(poll[p], poll'[p]), \A r \in Polls : r # p => poll'[r] = poll[r]
      PROVE  Handling'
  <2>1. PICK q, new : q = poll[p] /\ new = poll'[p]
    OBVIOUS
  <2>2. PollFits(q) /\ PollFits(new) /\ Handles(q) /\ MailStep(q, new)
    <3>1. PollFits(poll'[p])
      BY <1>1 DEF Polling, PollFits, IsPoll, AtMail, SavedSetting
    <3> QED BY <1>1, <1>4, <2>1, <3>1 DEF Polling, Handling
  <2>3. Handles(new)'
    BY <2>2, HandlesAfter
  <2>4. Handles(poll[p])'
    BY <2>1, <2>3
  <2> QED BY <1>2, <1>4, <2>4 DEF Handling
<1> QED BY <1>3, <1>4, MailSteps


-----------------------------------------------------------------------------
(***************************************************************************)
(* What a step does to the mailbox.                                        *)
(***************************************************************************)

LEMMA MailboxSteps ==
    ASSUME Intake, [Next]_vars
    PROVE  /\ Present \subseteq Present' \/ \E p \in Polls : CloseMailbox(p)
           /\ 1..mailbox'.arrived \ Present' \subseteq mailbox.deleted \cup (1..mailbox.arrived \ Present)
           /\ \A m \in mailbox'.deleted \ mailbox.deleted :
                 \E p \in Polls : /\ PastAttachments(poll[p])
                                  /\ m = Mail(p) \/ \E told \in BOOLEAN : MoveMail(p, told)
           /\ \A m \in mailbox'.seen \ mailbox.seen :
                 \E p \in Polls : \/ FetchMail(p) /\ m = Numbered(poll[p].view, Number(p))
                                  \/ PastAttachments(poll[p]) /\ m = Mail(p)
<1> DEFINE Goal ==
             /\ Present \subseteq Present' \/ \E p \in Polls : CloseMailbox(p)
             /\ 1..mailbox'.arrived \ Present' \subseteq mailbox.deleted \cup (1..mailbox.arrived \ Present)
             /\ \A m \in mailbox'.deleted \ mailbox.deleted :
                   \E p \in Polls : /\ PastAttachments(poll[p])
                                    /\ m = Mail(p) \/ \E told \in BOOLEAN : MoveMail(p, told)
             /\ \A m \in mailbox'.seen \ mailbox.seen :
                   \E p \in Polls : \/ FetchMail(p) /\ m = Numbered(poll[p].view, Number(p))
                                    \/ PastAttachments(poll[p]) /\ m = Mail(p)
<1>1. /\ Polling
      /\ mailbox = [present |-> Present, arrived |-> mailbox.arrived, seen |-> mailbox.seen,
                    deleted |-> mailbox.deleted, moved |-> mailbox.moved]
  BY DEF Intake, Mailing
<1>2. ASSUME NEW seen, NEW deleted, NEW moved,
             mailbox' = [mailbox EXCEPT !.seen = seen, !.deleted = deleted, !.moved = moved]
      PROVE  /\ Present' = Present /\ mailbox'.arrived = mailbox.arrived
             /\ mailbox'.seen = seen /\ mailbox'.deleted = deleted
  BY <1>1, <1>2 DEF Present
<1>3. CASE UNCHANGED mailbox
  BY <1>3 DEF Present
<1>4. ASSUME NEW p \in Polls, FetchMail(p)
      PROVE  Goal
  <2> DEFINE m == Numbered(poll[p].view, Number(p))
  <2>1. CASE mailbox' = [mailbox EXCEPT !.seen = @ \cup {m}]
    <3>1. PICK s : s = mailbox.seen \cup {m}
      OBVIOUS
    <3>2. mailbox' = [mailbox EXCEPT !.seen = s, !.deleted = mailbox.deleted, !.moved = mailbox.moved]
      BY <1>1, <2>1, <3>1
    <3>3. /\ Present' = Present /\ mailbox'.arrived = mailbox.arrived
          /\ mailbox'.seen = s /\ mailbox'.deleted = mailbox.deleted
      BY <1>2, <3>2
    <3>4. \A k \in mailbox'.seen \ mailbox.seen : k = m
      BY <3>1, <3>3
    <3> HIDE DEF m
    <3> QED BY <1>4, <3>3, <3>4 DEF m
  <2> QED BY <1>3, <1>4, <2>1 DEF FetchMail
<1>5. ASSUME NEW p \in Polls, DisposeMail(p)
      PROVE  Goal
  <2>1. PastAttachments(poll[p])
    BY <1>1, <1>5 DEF DisposeMail, PastAttachments, Polling, PollFits
  <2>2. PICK s, d : /\ mailbox' = [mailbox EXCEPT !.seen = s, !.deleted = d, !.moved = mailbox.moved]
                    /\ s \in {mailbox.seen, mailbox.seen \cup {Mail(p)}}
                    /\ d \in {mailbox.deleted, mailbox.deleted \cup {Mail(p)}}
    <3> DEFINE M(s, d) == [mailbox EXCEPT !.seen = s, !.deleted = d, !.moved = mailbox.moved]
    <3>1. /\ mailbox = M(mailbox.seen, mailbox.deleted)
          /\ \A s : [mailbox EXCEPT !.seen = s] = M(s, mailbox.deleted)
          /\ \A d : [mailbox EXCEPT !.deleted = d] = M(mailbox.seen, d)
      BY <1>1
    <3>2. \/ mailbox' = mailbox
          \/ \E s : s = mailbox.seen \cup {Mail(p)} /\ mailbox' = [mailbox EXCEPT !.seen = s]
          \/ \E d : d = mailbox.deleted \cup {Mail(p)} /\ mailbox' = [mailbox EXCEPT !.deleted = d]
      BY <1>5 DEF DisposeMail
    <3> HIDE DEF M
    <3>3. \E s, d : /\ mailbox' = M(s, d)
                    /\ s \in {mailbox.seen, mailbox.seen \cup {Mail(p)}}
                    /\ d \in {mailbox.deleted, mailbox.deleted \cup {Mail(p)}}
      BY <3>1, <3>2
    <3> QED BY <3>3 DEF M
  <2>3. /\ Present' = Present /\ mailbox'.arrived = mailbox.arrived
        /\ mailbox'.seen = s /\ mailbox'.deleted = d
    BY <1>2, <2>2
  <2> QED BY <2>1, <2>2, <2>3
<1>6. ASSUME NEW p \in Polls, NEW told \in BOOLEAN, MoveMail(p, told)
      PROVE  Goal
  <2>1. PastAttachments(poll[p])
    BY <1>1, <1>6 DEF MoveMail, PastAttachments, Polling, PollFits
  <2>2. PICK d, v : mailbox' = [mailbox EXCEPT !.moved = v, !.deleted = d]
    BY <1>6 DEF MoveMail
  <2>3. mailbox' = [mailbox EXCEPT !.seen = mailbox.seen, !.deleted = d, !.moved = v]
    BY <1>1, <2>2
  <2>4. /\ Present' = Present /\ mailbox'.arrived = mailbox.arrived
        /\ mailbox'.seen = mailbox.seen
    BY <1>2, <2>3
  <2> QED BY <1>6, <2>1, <2>4
<1>7. ASSUME NEW p \in Polls, CloseMailbox(p)
      PROVE  Goal
  <2>1. mailbox' = [mailbox EXCEPT !.present = @ \ mailbox.deleted, !.deleted = {}]
    BY <1>7 DEF CloseMailbox, Expunged
  <2>2. /\ Present' = Present \ mailbox.deleted /\ mailbox'.arrived = mailbox.arrived
        /\ mailbox'.seen = mailbox.seen /\ mailbox'.deleted = {}
    BY <1>1, <2>1 DEF Present
  <2> QED BY <1>7, <2>2
<1>8. CASE MailArrives
  <2>1. mailbox' = [mailbox EXCEPT !.arrived = @ + 1, !.present = @ \cup {mailbox.arrived + 1}]
    BY <1>8 DEF MailArrives
  <2>2. /\ Present' = Present \cup {mailbox.arrived + 1} /\ mailbox'.arrived = mailbox.arrived + 1
        /\ mailbox'.seen = mailbox.seen /\ mailbox'.deleted = mailbox.deleted
    BY <1>1, <2>1 DEF Present
  <2>3. mailbox.arrived \in Nat
    BY MailAssumption, MailsAre DEF MailAssumption, Intake, Mailing
  <2>4. \A k \in 1..(mailbox.arrived + 1) : k \in 1..mailbox.arrived \/ k = mailbox.arrived + 1
    BY <2>3
  <2>5. 1..mailbox'.arrived \ Present' \subseteq 1..mailbox.arrived \ Present
    BY <2>2, <2>4
  <2> QED BY <2>2, <2>5
<1>9. CASE IntervalPasses \/ DeactivateBox \/ (\E s \in Settings, a \in BOOLEAN : EditSource(s, a))
           \/ \E p \in Polls : WritePollState(p)
  BY <1>3, <1>9 DEF IntervalPasses, DeactivateBox, EditSource, Edit, WritePollState
<1> QED BY <1>3, <1>4, <1>5, <1>6, <1>7, <1>8, <1>9, OnlyTheseTouchMail

-----------------------------------------------------------------------------
(***************************************************************************)
(* No mail is lost if no setting moves mails, or polls do not overlap.     *)
(***************************************************************************)

\* A message number means the mail in hand.
LEMMA MoveMeans ==
    ASSUME Intake, Addressed, NoMoves \/ OnePoll, NEW p \in Polls, NEW told \in BOOLEAN,
           MoveMail(p, told)
    PROVE  mailbox'.deleted \subseteq mailbox.deleted \cup {Mail(p)}
<1> DEFINE q == poll[p]
<1>1. /\ PollFits(q) /\ q.pc = "dispose" /\ q.kind = "mail" /\ MailAction(p) = "move"
      /\ mailbox = [present |-> Present, arrived |-> mailbox.arrived, seen |-> mailbox.seen,
                    deleted |-> mailbox.deleted, moved |-> mailbox.moved]
  BY DEF Intake, Polling, PollFits, Mailing, MoveMail
<1>2. CASE NoMoves
  <2>1. Unmoving(q.set)
    BY <1>1, <1>2 DEF Addressed, Unmoved, AtWork
  <2> QED BY <1>1, <2>1 DEF MailAction, Unmoving
<1>3. CASE OnePoll
  <2>1. q.view \subseteq Present /\ q.mail = Numbered(q.view, Lowest(q.todo))
    BY <1>1, <1>3 DEF Addressed, Means, InSession, AtMail
  <2>2. q.view \cap Present = q.view
    BY <2>1
  <2>3. Numbered(q.view, Number(p)) = Mail(p)
    BY <2>1 DEF Number, Mail
  <2>4. PICK v, d : /\ mailbox' = [mailbox EXCEPT !.moved = v, !.deleted = d]
                    /\ d \in {mailbox.deleted, mailbox.deleted \cup ({Mail(p)} \cap Present)}
    BY <2>2, <2>3 DEF MoveMail
  <2>5. mailbox'.deleted = d
    BY <1>1, <2>4
  <2> QED BY <2>4, <2>5
<1> QED BY <1>2, <1>3

LEMMA KeepingStays ==
    ASSUME Intake, Jobs, Handling, Addressed, NoMoves \/ OnePoll, Keeping, [Next]_vars
    PROVE  Keeping'
<1>1. ASSUME NEW m \in mailbox'.deleted
      PROVE  Processed(m)'
  <2>2. CASE m \in mailbox.deleted
    <3>1. m \in Mails
      BY <2>2, ArrivedAreMails DEF Intake, Mailing
    <3> QED BY <2>2, <3>1, ProcessedStays DEF Keeping
  <2>3. CASE m \notin mailbox.deleted
    <3>1. PICK p \in Polls : /\ PastAttachments(poll[p])
                             /\ m = Mail(p) \/ \E told \in BOOLEAN : MoveMail(p, told)
      BY <1>1, <2>3, MailboxSteps
    <3>2. m = Mail(p)
      BY <1>1, <2>3, <3>1, MoveMeans
    <3>3. Processed(m) /\ m \in Mails
      BY <3>1, <3>2 DEF Handling, Handles, Mail, PastAttachments, AtMail, Intake, Polling, PollFits
    <3> QED BY <3>3, ProcessedStays
  <2> QED BY <2>2, <2>3
<1>2. ASSUME NEW m \in 1..mailbox'.arrived, m \notin Present'
      PROVE  Processed(m)'
  <2>1. m \in mailbox.deleted \cup (1..mailbox.arrived \ Present)
    BY <1>2, MailboxSteps
  <2>2. Processed(m)
    BY <2>1 DEF Keeping, NoMailLost, Processed
  <2>3. m \in Mails
    BY <2>1, ArrivedAreMails DEF Intake, Mailing
  <2> QED BY <2>2, <2>3, ProcessedStays
<1> QED BY <1>1, <1>2 DEF Keeping, NoMailLost, Processed

\* The settings a poll works on do not move mails if none does.
LEMMA UnmovedStays ==
    ASSUME Intake, Jobs, NoMoves, Unmoved, [Next]_vars
    PROVE  Unmoved'
<1>1. Unmoving(source'.set)
  <2>1. CASE source'.set = source.set
    BY <2>1 DEF Unmoved
  <2>2. CASE \E p \in Polls : WritePollState(p)
    <3>1. PICK p \in Polls : WritePollState(p)
      BY <2>2
    <3>2. AtWork(poll[p])
      BY <3>1 DEF WritePollState, AtWork, Intake, Polling, PollFits
    <3>3. source'.set = Saved(poll[p].set, TRUE)
      BY <3>1 DEF WritePollState, Intake, Mailing, ImportSource
    <3> QED BY <3>2, <3>3 DEF Unmoved, Unmoving, Saved
  <2>3. CASE \E s \in Settings, a \in BOOLEAN : EditSource(s, a)
    <3>1. PICK s \in Settings, a \in BOOLEAN : EditSource(s, a)
      BY <2>3
    <3>2. source'.set = Saved(s, FALSE)
      BY <3>1 DEF EditSource, Intake, Mailing, ImportSource
    <3> QED BY <3>1, <3>2 DEF NoMoves, Unmoving, Saved
  <2>4. CASE IntervalPasses
    <3>1. source' = [source EXCEPT !.set.checked = FALSE] /\ source \in ImportSource
      BY <2>4 DEF IntervalPasses, Intake, Mailing
    <3>2. PICK set : set = source.set /\ set \in SavedSetting
      BY <3>1 DEF ImportSource, SavedSetting
    <3>3. source'.set = [set EXCEPT !.checked = FALSE]
      BY <3>1, <3>2 DEF ImportSource
    <3>4. source'.set.action = set.action /\ source'.set.unprocessable = set.unprocessable
      BY <3>2, <3>3 DEF SavedSetting
    <3> QED BY <3>2, <3>4 DEF Unmoved, Unmoving
  <2>5. CASE DeactivateBox
    BY <2>1, <2>5 DEF DeactivateBox, Intake, Mailing, ImportSource
  <2>6. CASE UNCHANGED source
    BY <2>1, <2>6
  <2>7. CASE MailArrives \/ \E p \in Polls : \/ FetchMail(p) \/ DisposeMail(p) \/ CloseMailbox(p)
                                             \/ \E told \in BOOLEAN : MoveMail(p, told)
    BY <2>6, <2>7 DEF MailArrives, FetchMail, DisposeMail, CloseMailbox, MoveMail
  <2> QED BY <2>2, <2>3, <2>4, <2>5, <2>6, <2>7, OnlyTheseTouchMail
<1>2. ASSUME NEW p \in Polls, MailStep(poll[p], poll'[p]), AtWork(poll'[p])
      PROVE  Unmoving(poll'[p].set)
  <2>1. PICK q, new : q = poll[p] /\ new = poll'[p]
    OBVIOUS
  <2>2. \/ new.set = source.set
        \/ AtWork(q) /\ new.set = q.set
    BY <1>2, <2>1
       DEF MailStep, Elsewhere, Ends, Begins, GoesOn, Fetches, Checks, Passes, Answering, Turns,
           DoneWith, AtPageOf, Holds, SameSession, InSession, AtWork, AtMail
  <2> QED BY <2>1, <2>2 DEF Unmoved
<1> QED BY <1>1, <1>2, MailSteps DEF Unmoved

LEMMA MeansStays ==
    ASSUME Intake, Jobs, OnePoll, \A p \in Polls : Means(poll[p]), [Next]_vars
    PROVE  \A p \in Polls : Means(poll[p])'
<1>1. CASE \E p \in Polls : CloseMailbox(p)
  <2>1. PICK p \in Polls : CloseMailbox(p)
    BY <1>1
  <2>2. PollFits(poll[p])
    BY DEF Intake, Polling
  <2>3. poll'[p].pc \in {"idle", "write"}
    BY <2>1, <2>2 DEF CloseMailbox, NotPolling, PollFits, IsPoll, Intake, Polling
  <2>4. \A r \in Polls : r = p
    BY DEF OnePoll
  <2>5. ~ InSession(poll'[p])
    BY <2>3 DEF InSession, AtMail
  <2> QED BY <2>4, <2>5 DEF Means
<1>2. CASE Present \subseteq Present'
  <2>1. ASSUME NEW p \in Polls, poll'[p] = poll[p]
        PROVE  Means(poll[p])'
    BY <1>2, <2>1 DEF Means
  <2>2. ASSUME NEW p \in Polls, MailStep(poll[p], poll'[p])
        PROVE  Means(poll[p])'
    <3>1. PICK q, new : q = poll[p] /\ new = poll'[p] /\ Means(q) /\ MailStep(q, new)
      BY <2>2
    <3>2. \/ ~ InSession(new)
          \/ new.pc = "next" /\ (new.view = Present \/ (InSession(q) /\ new.view = q.view))
          \/ /\ InSession(q) /\ new.view = q.view /\ new.todo = q.todo
             /\ new.mail = Numbered(q.view, Lowest(q.todo))
          \/ /\ InSession(q) /\ q.pc \in AtMail /\ new.mail = q.mail /\ new.todo = q.todo
             /\ new.view \in {q.view, q.view \cap Present}
      <4>1. CASE Elsewhere(q, new) \/ Ends(q, new) \/ Begins(q, new) \/ GoesOn(q, new) \/ Fetches(q, new)
        BY <4>1 DEF Elsewhere, Ends, Begins, GoesOn, Fetches, SameSession, InSession, AtWork, AtMail
      <4>2. CASE Holds(q, new) /\ new.view \in {q.view, q.view \cap Present}
        BY <4>2 DEF Holds, SameSession
      <4>3. Checks(q, new) \/ Passes(q, new) \/ Answering(q, new)
              => Holds(q, new) /\ new.view \in {q.view, q.view \cap Present}
        BY DEF Checks, Passes, Answering
      <4>4. (\E a, n : AtPageOf(q, new, a, n))
              => Holds(q, new) /\ new.view \in {q.view, q.view \cap Present}
        <5> SUFFICES ASSUME NEW a, NEW n, AtPageOf(q, new, a, n)
                     PROVE  Holds(q, new) /\ new.view \in {q.view, q.view \cap Present}
          OBVIOUS
        <5> QED BY DEF AtPageOf
      <4> QED BY <3>1, <4>1, <4>2, <4>3, <4>4 DEF MailStep, Turns, DoneWith
    <3>3. InSession(new) => /\ new.view \subseteq Present'
                            /\ new.pc \in AtMail => new.mail = Numbered(new.view, Lowest(new.todo))
      <4>1. InSession(q) => q.view \subseteq Present /\ q.view \cap Present = q.view
        BY <3>1 DEF Means
      <4>2. InSession(q) /\ q.pc \in AtMail => q.mail = Numbered(q.view, Lowest(q.todo))
        BY <3>1 DEF Means
      <4>3. "next" \notin AtMail
        BY DEF AtMail
      <4> QED BY <1>2, <3>2, <4>1, <4>2, <4>3
    <3> QED BY <3>1, <3>3 DEF Means
  <2> QED BY <2>1, <2>2, MailSteps
<1> QED BY <1>1, <1>2, MailboxSteps

LEMMA AddressedStays ==
    ASSUME Intake, Jobs, Addressed, [Next]_vars
    PROVE  Addressed'
<1>1. ASSUME NoMoves PROVE Unmoved'
  BY <1>1, UnmovedStays DEF Addressed
<1>2. ASSUME OnePoll PROVE \A p \in Polls : Means(poll[p])'
  BY <1>2, MeansStays DEF Addressed
<1>3. NoMoves' = NoMoves /\ OnePoll' = OnePoll
  BY DEF NoMoves, OnePoll
<1> QED BY <1>1, <1>2, <1>3 DEF Addressed

LEMMA MailsAtFirst ==
    ASSUME Init
    PROVE  Jobs /\ UntoldFits /\ Handling /\ Addressed /\ Keeping /\ Telling
<1>1. /\ poll = [p \in Polls |-> NotPolling] /\ job = [f \in Files |-> {}] /\ untold = {}
      /\ mailbox = [present |-> {}, arrived |-> 0, seen |-> {}, deleted |-> {}, moved |-> {}]
      /\ \E t, s : s \in bound.settings /\ bound \in Bounds /\
           source = [active |-> TRUE, target |-> t, boxActive |-> TRUE, set |-> Saved(s, FALSE)]
  BY DEF Init, BatchInit
<1>2. \A p \in Polls : poll[p].pc = "idle"
  BY <1>1 DEF NotPolling
<1>3. Jobs /\ UntoldFits /\ Handling
  BY <1>1, <1>2 DEF Jobs, JobsTellTruth, UntoldFits, Handling, Handles, AtAttachments, PastAttachments
<1>4. Addressed
  <2>1. NoMoves => Unmoving(source.set)
    BY <1>1 DEF NoMoves, Unmoving, Saved
  <2> QED BY <1>2, <2>1 DEF Addressed, Unmoved, AtWork, Means, InSession, AtMail
<1>5. Keeping
  BY <1>1 DEF Keeping, NoMailLost
<1>6. Telling
  BY <1>1, <1>2 DEF Telling, TellsAll, AtAttachments
<1> QED BY <1>3, <1>4, <1>5, <1>6


-----------------------------------------------------------------------------
(***************************************************************************)
(* People are told of every attachment that was not imported.              *)
(***************************************************************************)

\* A poll tells of the attachments it is done with ...
LEMMA TellsAfter ==
    ASSUME Intake, Jobs, UntoldFits, [Next]_vars, NEW q, NEW new, PollFits(q), PollFits(new),
           MailStep(q, new), Handles(q), TellsAll(q)
    PROVE  TellsAll(new)'
<1> SUFFICES ASSUME AtAttachments(new), NEW b \in Before(new.left, Attached[new.mail])
             PROVE  Reported(new.mail, b)'
  BY DEF TellsAll
<1>1. new.mail \in Mails /\ Attached[new.mail] \in Seq(Pages) /\ new.left \in Seq(Pages)
  BY MailsAre DEF PollFits, AtAttachments, AtMail
<1>2. b \in Pages
  BY <1>1, BeforeArePages
<1>3. CASE Fetches(q, new)
  <2>1. new.left = Attached[new.mail]
    BY <1>3 DEF Fetches
  <2> QED BY <1>1, <2>1, RestAtEnds
<1>4. ASSUME AtAttachments(q), new.left = q.left, new.mail = q.mail
      PROVE  Reported(new.mail, b)'
  <2>1. Reported(new.mail, b)
    BY <1>4 DEF TellsAll
  <2> QED BY <1>2, <2>1, ReportedStays
<1>5. CASE Checks(q, new)
  BY <1>4, <1>5 DEF Checks, Holds
<1>6. ASSUME NEW a \in Pages, NEW n \in DOMAIN a, Turns(q, new, a, n)
      PROVE  Reported(new.mail, b)'
  BY <1>4, <1>6 DEF Turns, AtPageOf, Holds
<1>7. ASSUME NEW a \in Pages, NEW n \in DOMAIN a, NEW ok \in BOOLEAN, DoneWith(q, new, a, n, ok)
      PROVE  Reported(new.mail, b)'
  <2>1. /\ AtAttachments(q) /\ q.left # <<>> /\ a = Head(q.left) /\ n = q.page
        /\ new.left = Tail(q.left) /\ new.mail = q.mail
    BY <1>7 DEF DoneWith, AtPageOf, Holds
  <2>2. q.left \in Seq(Pages) /\ Rest(q.left, Attached[q.mail])
    BY <2>1 DEF PollFits, Handles
  <2>3. b \in Before(q.left, Attached[q.mail]) \/ b = a
    BY <1>1, <2>1, <2>2, RestOfTail
  <2>4. b \in Before(q.left, Attached[q.mail]) => Reported(new.mail, b)
    BY <2>1 DEF TellsAll
  <2>5. \A j \in 1..(n - 1) : TakenOver(a[j])
    BY <2>1 DEF Handles
  <2>6. Reported(new.mail, a)'
    <3>1. CASE ok
      <4>1. TakenOver(a[n])' /\ (n = Len(a) \/ "failed" \in job'[a[n]])
        BY <1>7, <3>1 DEF DoneWith
      <4>2. Told(a)'
        BY <2>5, <4>1, DoneIsImported
      <4> QED BY <4>2 DEF Reported
    <3>2. CASE ~ ok
      <4>1. <<new.mail, a>> \in untold' \/ "failed" \in job'[a[n]]
        BY <1>7, <2>1, <3>2 DEF DoneWith
      <4>2. "failed" \in job'[a[n]] => Told(a)'
        BY <2>5, FailedIsTold
      <4> QED BY <4>1, <4>2 DEF Reported
    <3> QED BY <3>1, <3>2
  <2> QED BY <1>2, <2>3, <2>4, <2>6, ReportedStays
<1>8. ~ (Elsewhere(q, new) \/ Ends(q, new) \/ Begins(q, new) \/ GoesOn(q, new) \/ Passes(q, new)
         \/ Answering(q, new))
  BY DEF Elsewhere, Ends, Begins, GoesOn, Passes, Answering, InSession, AtWork, AtAttachments, AtMail
<1> QED BY <1>3, <1>5, <1>6, <1>7, <1>8 DEF MailStep

\* ... and by the time it leaves a mail, of all of them.
LEMMA LeavesTold ==
    ASSUME Intake, Jobs, [Next]_vars, crashes' = 0, NEW q, NEW new, PollFits(q), MailStep(q, new),
           TellsAll(q), AtAttachments(q), ~ (AtAttachments(new) /\ new.mail = q.mail)
    PROVE  \A k \in DOMAIN Attached[q.mail] : Reported(q.mail, Attached[q.mail][k])
<1>1. q.left = <<>>
  BY DEF MailStep, Elsewhere, Ends, Begins, GoesOn, Fetches, Checks, Passes, Answering, Turns,
         DoneWith, AtPageOf, Holds, SameSession, InSession, AtAttachments, AtMail
<1>2. PICK a \in Seq(Pages) : a = Attached[q.mail]
  BY MailsAre DEF PollFits, AtAttachments, AtMail
<1>3. \A k \in DOMAIN a : a[k] \in Before(<<>>, a)
  BY RestAtEnds
<1> QED BY <1>1, <1>2, <1>3 DEF TellsAll

LEMMA TellingStays ==
    ASSUME Intake, Jobs, UntoldFits, Handling, Telling, [Next]_vars
    PROVE  Telling'
<1> SUFFICES ASSUME crashes' = 0
             PROVE  /\ \A p \in Polls : TellsAll(poll[p])'
                    /\ \A m \in mailbox'.seen : (\A p \in Polls : ~ Fetched(p, m)') =>
                          \A k \in DOMAIN Attached[m] : Reported(m, Attached[m][k])'
  BY DEF Telling
<1>1. crashes = 0
  BY RowsStay DEF Intake, Batches, Grows, RowsFit
<1>2. /\ \A p \in Polls : PollFits(poll[p]) /\ PollFits(poll'[p]) /\ Handles(poll[p]) /\ TellsAll(poll[p])
      /\ mailbox.seen \subseteq Mails
  <2>1. \A p \in Polls : PollFits(poll[p])'
    BY IntakeStays DEF Intake, Polling
  <2>2. \A p \in Polls : PollFits(poll'[p])
    BY <2>1 DEF PollFits, IsPoll, AtMail, AtPage, SavedSetting
  <2> QED BY <1>1, <2>2 DEF Intake, Polling, Mailing, Handling, Telling
<1>3. ASSUME NEW p \in Polls
      PROVE  TellsAll(poll[p])'
  <2>1. CASE poll'[p] = poll[p]
    <3>1. PICK q : q = poll[p] /\ PollFits(q) /\ TellsAll(q)
      BY <1>2
    <3>2. AtAttachments(q) => \A a \in Before(q.left, Attached[q.mail]) : a \in Pages
      BY <3>1, MailsAre, BeforeArePages DEF PollFits, AtAttachments, AtMail
    <3>3. TellsAll(q)'
      BY <3>1, <3>2, ReportedStays DEF TellsAll
    <3> QED BY <2>1, <3>1, <3>3
  <2>2. CASE MailStep(poll[p], poll'[p])
    <3>1. PICK q, new : q = poll[p] /\ new = poll'[p]
      OBVIOUS
    <3>2. TellsAll(new)'
      BY <1>2, <2>2, <3>1, TellsAfter
    <3> QED BY <3>1, <3>2
  <2> QED BY <2>1, <2>2, MailSteps
<1>4. ASSUME NEW m \in mailbox'.seen, \A p \in Polls : ~ Fetched(p, m)'
      PROVE  \A k \in DOMAIN Attached[m] : Reported(m, Attached[m][k])'
  <2>1. ASSUME m \in Mails, \A k \in DOMAIN Attached[m] : Reported(m, Attached[m][k])
        PROVE  \A k \in DOMAIN Attached[m] : Reported(m, Attached[m][k])'
    <3>1. \A k \in DOMAIN Attached[m] : Attached[m][k] \in Pages
      BY <2>1, MailsAre, LenProperties
    <3> QED BY <2>1, <3>1, ReportedStays
  <2>2. CASE m \notin mailbox.seen
    <3>1. PICK p \in Polls : \/ FetchMail(p) /\ m = Numbered(poll[p].view, Number(p))
                             \/ PastAttachments(poll[p]) /\ m = Mail(p)
      BY <1>4, <2>2, MailboxSteps
    <3>2. CASE PastAttachments(poll[p]) /\ m = Mail(p)
      <4>1. m \in Mails /\ Processed(m)
        BY <1>2, <3>2 DEF Handles, PollFits, PastAttachments, AtMail, Mail
      <4>2. \A k \in DOMAIN Attached[m] : Attached[m][k] \in Pages
        BY <4>1, MailsAre, LenProperties
      <4>3. \A k \in DOMAIN Attached[m] : Reported(m, Attached[m][k])
        BY <4>1, <4>2, ImportedIsTold DEF Processed, Reported
      <4> QED BY <2>1, <4>1, <4>3
    <3>3. CASE FetchMail(p) /\ m = Numbered(poll[p].view, Number(p))
      <4>1. mailbox' # mailbox
        BY <1>4, <2>2
      <4>2. PICK pc, r : /\ poll' = [poll EXCEPT ![p].mail = m, ![p].left = Attached[m],
                                                 ![p].pc = pc, ![p].reply = r]
                         /\ pc = IF Attached[m] = <<>> THEN "dispose" ELSE "import"
        BY <3>3, <4>1 DEF FetchMail
      <4>3. poll'[p].pc = pc /\ poll'[p].mail = m
        <5>1. PICK n : /\ n = [poll[p] EXCEPT !.mail = m, !.left = Attached[m], !.pc = pc, !.reply = r]
                       /\ poll' = [poll EXCEPT ![p] = n]
          BY <4>2
        <5>2. poll'[p] = n
          BY <5>1 DEF Intake, Polling
        <5>3. IsPoll(poll[p])
          BY <1>2 DEF PollFits
        <5>4. PICK q, a : q = poll[p] /\ a = Attached[m]
          OBVIOUS
        <5>5. n = [q EXCEPT !.mail = m, !.left = a, !.pc = pc, !.reply = r] /\ IsPoll(q)
          BY <5>1, <5>3, <5>4
        <5>6. n.pc = pc /\ n.mail = m
          BY <5>5 DEF IsPoll
        <5> QED BY <5>2, <5>6
      <4>4. Attached[m] = <<>>
        BY <1>4, <4>2, <4>3 DEF Fetched, Mail
      <4> QED BY <4>4
    <3> QED BY <3>1, <3>2, <3>3
  <2>3. CASE m \in mailbox.seen
    <3>1. m \in Mails
      BY <1>2, <2>3
    <3>2. CASE \A p \in Polls : ~ Fetched(p, m)
      BY <1>1, <2>1, <2>3, <3>1, <3>2 DEF Telling
    <3>3. ASSUME NEW p \in Polls, Fetched(p, m)
          PROVE  \A k \in DOMAIN Attached[m] : Reported(m, Attached[m][k])
      <4>1. AtAttachments(poll[p]) /\ poll[p].mail = m
        BY <1>2, <3>1, <3>3, MailsAre DEF Fetched, Mail, AtAttachments, PollFits
      <4>2. ~ (AtAttachments(poll'[p]) /\ poll'[p].mail = m)
        BY <1>4 DEF Fetched, Mail, AtAttachments
      <4>3. poll'[p] # poll[p]
        BY <4>1, <4>2
      <4>4. MailStep(poll[p], poll'[p])
        BY <4>3, MailSteps
      <4> QED BY <1>2, <4>1, <4>2, <4>4, LeavesTold
    <3> QED BY <2>1, <3>1, <3>2, <3>3
  <2> QED BY <2>2, <2>3
<1> QED BY <1>3, <1>4

-----------------------------------------------------------------------------
(***************************************************************************)
(* The theorems about mails.                                               *)
(***************************************************************************)

\* If no setting moves mails, or polls of the source do not overlap, a mail
\* leaves the mailbox only after every importable attachment of it, and every page
\* where a PDF is split, has become a document or an inbox item, but for the pages
\* that follow a duplicate one, which the code gives up, whatever fails, is killed or
\* works on old settings.  Without the hypothesis the run moved_mail refutes it.
THEOREM MailsAreKept == ASSUME NoMoves \/ OnePoll PROVE Spec => []NoMailLost
<1> DEFINE Inv == Intake /\ Jobs /\ Handling /\ Addressed /\ Keeping
<1>1. Init => Inv
  BY IntakeAtFirst, MailsAtFirst
<1>2. Inv /\ [Next]_vars => Inv'
  BY IntakeStays, JobsStay, HandlingStays, AddressedStays, KeepingStays
<1>3. Inv => NoMailLost
  BY DEF Keeping
<1> QED BY <1>1, <1>2, <1>3, PTL DEF Spec

\* SEARCH UNSEEN does not find a mail again once FETCH has set \Seen.  So an
\* attachment of it that was not imported, or not wholly, has a failed job that tells
\* people, unless a poll was killed, or the import raised before it had a job.
THEOREM FailuresAreTold == Spec => []FailureTold
<1> DEFINE Inv == Intake /\ Jobs /\ UntoldFits /\ Handling /\ Telling
<1>1. Init => Inv
  BY IntakeAtFirst, MailsAtFirst
<1>2. Inv /\ [Next]_vars => Inv'
  BY IntakeStays, JobsStay, UntoldStays, HandlingStays, TellingStays
<1>3. Inv => FailureTold
  BY DEF Telling, FailureTold, Reported
<1> QED BY <1>1, <1>2, <1>3, PTL DEF Spec


=============================================================================

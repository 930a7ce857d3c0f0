------------------------- MODULE LeasedBoxJobProofs -------------------------
(***************************************************************************)
(* What LeasedBoxJob guarantees for every set of documents, workers and    *)
(* tokens, every batch size and every lease: type correctness, that a      *)
(* finished job stays finished, that an open job is in somebody's hands    *)
(* unless a process died and, when a lease is longer than the task limit,  *)
(* that one batch runs at a time and the cursor never goes back, no        *)
(* document is passed over, and the job implements BoxSweep.               *)
(***************************************************************************)
EXTENDS LeasedBoxJob, TLAPS, FiniteSetTheorems, WellFoundedInduction

-----------------------------------------------------------------------------
(***************************************************************************)
(* Facts about the operators.                                              *)
(***************************************************************************)

\* Every batch of ids has a largest one, so max(document_ids) is a document.
LEMMA LargestExists ==
    ASSUME NEW S \in SUBSET Docs, S # {}
    PROVE  \E m \in S : \A x \in S : x <= m
<1> DEFINE HasMax(A) == \E m \in A : \A x \in A : x <= m
           Bad == {A \in FiniteSubsetsOf(Docs) : A # {} /\ ~ HasMax(A)}
<1>1. Docs \subseteq Nat /\ IsFiniteSet(Docs)
  BY ConstantsAssumption DEF ConstantsAssumption
<1>2. S \in FiniteSubsetsOf(Docs)
  BY <1>1, FS_Subset DEF FiniteSubsetsOf
<1>3. Bad = {}
  <2>1. SUFFICES ASSUME Bad # {} PROVE FALSE
    OBVIOUS
  <2>2. IsWellFoundedOn(StrictSubsetOrdering(Docs), FiniteSubsetsOf(Docs))
    BY FS_StrictSubsetOrderingWellFounded
  <2>3. Bad \subseteq FiniteSubsetsOf(Docs)
    OBVIOUS
  <2>4. PICK A \in Bad : \A B \in Bad : ~ (<<B, A>> \in StrictSubsetOrdering(Docs))
    <3> HIDE DEF Bad
    <3> QED BY <2>1, <2>2, <2>3, WFMin
  <2>5. A \subseteq Docs /\ A # {} /\ ~ HasMax(A) /\ IsFiniteSet(A)
    BY DEF FiniteSubsetsOf
  <2>6. PICK d \in A : TRUE
    BY <2>5
  <2> DEFINE B == A \ {d}
  <2>7. B \in FiniteSubsetsOf(Docs)
    BY <2>5, <1>1, FS_Subset DEF FiniteSubsetsOf
  <2>8. <<B, A>> \in StrictSubsetOrdering(Docs)
    BY <2>5, <2>6 DEF StrictSubsetOrdering
  <2>9. B \notin Bad
    BY <2>4, <2>8
  <2>10. CASE B = {}
    <3>1. \A x \in A : x = d
      BY <2>10
    <3>2. d \in Nat
      BY <2>5, <2>6, <1>1
    <3>3. HasMax(A)
      BY <3>1, <3>2, <2>6
    <3> QED BY <3>3, <2>5
  <2>11. CASE B # {}
    <3>1. PICK m \in B : \A x \in B : x <= m
      BY <2>7, <2>9, <2>11
    <3>2. m \in Nat /\ d \in Nat /\ A \subseteq Nat
      BY <2>5, <2>6, <1>1
    <3>3. CASE m <= d
      <4>1. \A x \in A : x <= d
        BY <3>1, <3>2, <3>3
      <4> QED BY <4>1, <2>5, <2>6
    <3>4. CASE d <= m
      <4>1. \A x \in A : x <= m
        BY <3>1, <3>2, <3>4
      <4> QED BY <4>1, <2>5
    <3> QED BY <3>2, <3>3, <3>4
  <2> QED BY <2>10, <2>11
<1> QED BY <1>2, <1>3

LEMMA SmallestExists ==
    ASSUME NEW S \in SUBSET Docs, S # {}
    PROVE  MinOf(S) \in S
<1>1. S \subseteq Nat
  BY ConstantsAssumption DEF ConstantsAssumption
<1>2. PICK m \in S : \A x \in S : ~ (<<x, m>> \in OpToRel(<, Nat))
  BY <1>1, NatLessThanWellFounded, WFMin
<1>3. \A x, y \in Nat : x < y => <<x, y>> \in OpToRel(<, Nat)
  BY DEF OpToRel
<1>4. \A x \in S : ~ (x < m)
  BY <1>1, <1>2, <1>3
<1>5. \A x \in S : m <= x
  BY <1>1, <1>4
<1> QED BY <1>5 DEF MinOf

LEMMA MaxOfIsLargest ==
    ASSUME NEW S \in SUBSET Docs, S # {}
    PROVE  MaxOf(S) \in S /\ \A x \in S : x <= MaxOf(S)
BY LargestExists DEF MaxOf

\* A batch is cut from the documents ahead of the cursor.
LEMMA NextIdsAhead ==
    ASSUME NEW row \in Row, box \subseteq Docs
    PROVE  NextIds(row) \subseteq {d \in Docs : row.last < d}
BY DEF NextIds

LEMMA CardinalityIsNat ==
    ASSUME NEW S \in SUBSET Docs
    PROVE  Cardinality(S) \in Nat
BY ConstantsAssumption, FS_Subset, FS_CardinalityType DEF ConstantsAssumption

\* What the writes of the row keep in shape.
LEMMA RowWrites ==
    ASSUME NEW row \in Row
    PROVE  /\ \A t \in Tokens : Claimed(row, t) \in Row
           /\ \A s \in Finished : Ended(row, s) \in Row
           /\ Older(row) \in Row
           /\ Kept(row) \in Row
           /\ \A t \in Tokens, snap \in Row : Restored(row, t, snap) \in Row
<1>1. Lease \in Nat /\ StaleAfter \in Nat
  BY ConstantsAssumption DEF ConstantsAssumption
<1>2. \A n \in Nat : Less(n) \in Nat
  BY DEF Less
<1>3. \A t \in Tokens : Claimed(row, t) \in Row
  BY <1>1 DEF Row, Claimed, Statuses, Open
<1>4. \A s \in Finished : Ended(row, s) \in Row
  BY DEF Row, Ended, Statuses
<1>5. Older(row) \in Row
  <2> DEFINE l == Less(row.lease)
             a == IF row.age < StaleAfter THEN row.age + 1 ELSE row.age
  <2>1. l \in Nat /\ a \in Nat
    BY <1>1, <1>2 DEF Row
  <2>2. Older(row) = [row EXCEPT !.lease = l, !.age = a]
    BY DEF Older
  <2> HIDE DEF l, a
  <2> QED BY <2>1, <2>2 DEF Row
<1>6. Kept(row) \in Row
  BY DEF Row, Kept, NoJob
<1>7. \A t \in Tokens, snap \in Row : Restored(row, t, snap) \in Row
  BY DEF Row, Restored
<1> QED BY <1>3, <1>4, <1>5, <1>6, <1>7

-----------------------------------------------------------------------------
(***************************************************************************)
(* Type correctness.  A step of a worker is typed from the batch it holds: *)
(* the cursor is set to a document because a batch has a largest id.       *)
(***************************************************************************)

Task == [pc : WorkerPCs, token : Tokens \cup {NoToken}, left : Nat, status : Statuses,
         processed : Nat, ids : SUBSET Docs, todo : SUBSET Docs]

Resume == [pc : {"idle", "found", "claimed"}, token : Tokens \cup {NoToken}, snap : Row]

ClaimsHoldTokens ==
    \A r \in Resumers : resumer[r].pc = "claimed" => resumer[r].token \in Tokens

LEMMA IdleIsTyped == IdleWorker \in Task /\ NoJob \in Row /\ IdleResumer \in Resume
<1>1. NoJob \in Row
  BY DEF NoJob, Row, Statuses
<1>2. IdleWorker \in Task
  BY DEF IdleWorker, Task, WorkerPCs, Statuses
<1>3. IdleResumer \in Resume
  BY <1>1 DEF IdleResumer, Resume
<1> QED BY <1>1, <1>2, <1>3

\* TypeOK with the record sets named.
LEMMA TypeOKParts ==
    TypeOK <=> /\ job \in Row
               /\ box \subseteq Docs /\ created \subseteq Docs /\ stayed \subseteq Docs
               /\ visited \subseteq Docs
               /\ worker \in [Workers -> Task]
               /\ plain \in Nat /\ queue \subseteq Tokens
               /\ resumer \in [Resumers -> Resume] /\ ClaimsHoldTokens
               /\ faults \in Nat /\ wrong \subseteq Faults
BY DEF TypeOK, Task, Resume, ClaimsHoldTokens

LEMMA TypeOKInit == Init => TypeOK
<1> SUFFICES ASSUME Init PROVE TypeOK
  OBVIOUS
<1> QED BY IdleIsTyped, TypeOKParts DEF Init, ClaimsHoldTokens, IdleResumer

LEMMA TypeOKStep == TypeOK /\ [Next]_vars => TypeOK'
<1> SUFFICES ASSUME TypeOK, [Next]_vars PROVE TypeOK'
  OBVIOUS
<1>a. /\ job \in Row
      /\ box \subseteq Docs /\ created \subseteq Docs /\ stayed \subseteq Docs
      /\ visited \subseteq Docs
      /\ worker \in [Workers -> Task]
      /\ plain \in Nat /\ queue \subseteq Tokens
      /\ resumer \in [Resumers -> Resume] /\ ClaimsHoldTokens
      /\ faults \in Nat /\ wrong \subseteq Faults
  BY TypeOKParts
<1>b. /\ job' \in Row
      /\ box' \subseteq Docs /\ created' \subseteq Docs /\ stayed' \subseteq Docs
      /\ visited' \subseteq Docs
      /\ worker' \in [Workers -> Task]
      /\ plain' \in Nat /\ queue' \subseteq Tokens
      /\ resumer' \in [Resumers -> Resume] /\ ClaimsHoldTokens'
      /\ faults' \in Nat /\ wrong' \subseteq Faults
      => TypeOK'
  BY DEF TypeOK, Task, Resume, ClaimsHoldTokens
<1>e. resumer' = resumer => resumer' \in [Resumers -> Resume] /\ ClaimsHoldTokens'
  BY <1>a DEF ClaimsHoldTokens
<1>c. \A w \in Workers : Finish(w) => worker' \in [Workers -> Task]
  BY <1>a, IdleIsTyped DEF Finish
<1>d. Fresh \subseteq Tokens
  BY DEF Fresh
<1>f. \A kind \in Faults : Fault(kind) => faults' \in Nat /\ wrong' \subseteq Faults
  BY <1>a DEF Fault
<1>g. {"death", "create", "task", "web", "beat"} = Faults
  BY DEF Faults, Resumers
<1>1. CASE Create
  <2>1. Cardinality(box) \in Nat
    BY <1>a, CardinalityIsNat
  <2>2. (IF box = {} THEN 0 ELSE MaxOf(box)) \in Nat
    BY <1>a, MaxOfIsLargest, ConstantsAssumption DEF ConstantsAssumption
  <2>3. job' \in Row
    <3> DEFINE m == IF box = {} THEN 0 ELSE MaxOf(box)
    <3>1. job' = [NoJob EXCEPT !.status = "queued", !.total = Cardinality(box), !.max = m]
      BY <1>1 DEF Create
    <3>2. m \in Nat
      BY <2>2
    <3> HIDE DEF m
    <3> QED BY <3>1, <3>2, <2>1, IdleIsTyped DEF Row, Statuses, Open
  <2>4. faults' \in Nat /\ wrong' \subseteq Faults
    BY <1>1, <1>a, <1>f, <1>g DEF Create
  <2> QED BY <1>1, <1>a, <1>b, <1>e, <2>3, <2>4 DEF Create
<1>2. CASE \E d \in Docs : LeaveBox(d) \/ EnterBox(d)
  BY <1>2, <1>a, <1>b, <1>e DEF LeaveBox, EnterBox
<1>3. ASSUME NEW w \in Workers, NEW t \in Tokens, Claim(w, t)
      PROVE  job' \in Row /\ worker' \in [Workers -> Task]
  <2>1. [IdleWorker EXCEPT !.pc = "claimed", !.token = t, !.left = TaskLimit] \in Task
    BY IdleIsTyped, ConstantsAssumption DEF Task, WorkerPCs, ConstantsAssumption
  <2> QED BY <1>3, <1>a, <2>1, RowWrites DEF Claim
<1>4. ASSUME NEW w \in Workers, ReceivePlain(w) \/ ReceiveToken(w)
      PROVE  TypeOK'
  BY <1>4, <1>3, <1>a, <1>b, <1>e, <1>d DEF ReceivePlain, ReceiveToken
<1>5. ASSUME NEW w \in Workers, LoadBatch(w) PROVE TypeOK'
  <2>1. NextIds(job) \subseteq Docs
    BY <1>a, NextIdsAhead
  <2>2. job' \in Row
    BY <1>5, <1>a DEF LoadBatch, Row, Statuses, Open
  <2>3. worker' \in [Workers -> Task]
    <3> DEFINE n == NextIds(job)
               p == job.processed
    <3>1. worker' = [worker EXCEPT ![w].pc = "batch", ![w].processed = p,
                                   ![w].ids = n, ![w].todo = n]
      BY <1>5 DEF LoadBatch
    <3>2. n \subseteq Docs /\ p \in Nat
      BY <1>a, <2>1 DEF Row
    <3> HIDE DEF n, p
    <3> DEFINE u == [worker[w] EXCEPT !.pc = "batch", !.processed = p, !.ids = n, !.todo = n]
    <3>3. u \in Task
      BY <3>2, <1>a DEF Task, WorkerPCs
    <3>4. worker' = [worker EXCEPT ![w] = u]
      BY <3>1, <1>a DEF Task
    <3> HIDE DEF u
    <3> QED BY <3>3, <3>4, <1>a
  <2> QED BY <1>5, <1>a, <1>b, <1>e, <2>2, <2>3 DEF LoadBatch
<1>6. ASSUME NEW w \in Workers, LoadStale(w) \/ Refresh(w) PROVE TypeOK'
  <2>1. worker' \in [Workers -> Task]
    BY <1>6, <1>a DEF LoadStale, Refresh, Task, WorkerPCs, Row
  <2> QED BY <1>6, <1>a, <1>b, <1>e, <2>1 DEF LoadStale, Refresh
<1>7. ASSUME NEW w \in Workers, CompleteEmpty(w) \/ CompleteCounted(w) \/ BatchFails(w)
      PROVE  TypeOK'
  <2>1. job' \in Row
    BY <1>7, <1>a, RowWrites DEF CompleteEmpty, CompleteCounted, BatchFails, Finished
  <2> QED BY <1>7, <1>a, <1>b, <1>e, <1>c, <2>1 DEF CompleteEmpty, CompleteCounted, BatchFails
<1>8. ASSUME NEW w \in Workers, VisitDocument(w) PROVE TypeOK'
  <2>1. worker[w].todo \subseteq Docs /\ worker[w].todo # {}
    BY <1>8, <1>a DEF VisitDocument, Task
  <2>2. PICK d \in Docs \cup {MinOf(worker[w].todo)} :
            /\ visited' = visited \cup {d}
            /\ worker' = [worker EXCEPT ![w].todo = @ \ {d}]
            /\ d = MinOf(worker[w].todo)
    BY <1>8 DEF VisitDocument
  <2>3. worker' \in [Workers -> Task]
    BY <2>1, <2>2, <1>a DEF Task
  <2>4. d \in Docs
    BY <2>1, <2>2, SmallestExists DEF MinOf
  <2> QED BY <1>8, <1>a, <1>b, <1>e, <2>2, <2>3, <2>4 DEF VisitDocument
<1>9. ASSUME NEW w \in Workers, StoreProgress(w) PROVE TypeOK'
  <2>1. worker[w].ids \in SUBSET Docs /\ worker[w].ids # {} /\ worker[w].processed \in Nat
    BY <1>9, <1>a DEF StoreProgress, Task
  <2>2. MaxOf(worker[w].ids) \in Nat /\ Cardinality(worker[w].ids) \in Nat
    BY <2>1, MaxOfIsLargest, CardinalityIsNat, ConstantsAssumption DEF ConstantsAssumption
  <2>3. job' \in Row
    <3> DEFINE m == MaxOf(worker[w].ids)
               p == worker[w].processed + Cardinality(worker[w].ids)
    <3>1. job' = [job EXCEPT !.processed = p, !.last = m, !.age = 0]
      BY <1>9 DEF StoreProgress
    <3>2. m \in Nat /\ p \in Nat
      BY <2>1, <2>2
    <3> HIDE DEF m, p
    <3> QED BY <3>1, <3>2, <1>a DEF Row
  <2>4. worker' \in [Workers -> Task]
    BY <1>9, <1>a DEF StoreProgress, Task, WorkerPCs
  <2> QED BY <1>9, <1>a, <1>b, <1>e, <2>3, <2>4 DEF StoreProgress
<1>10. ASSUME NEW w \in Workers, ReleaseLease(w) PROVE TypeOK'
  <2>1. job' \in Row
    BY <1>10, <1>a DEF ReleaseLease, Row
  <2>2. worker' \in [Workers -> Task]
    BY <1>10, <1>a DEF ReleaseLease, Task, WorkerPCs
  <2> QED BY <1>10, <1>a, <1>b, <1>e, <2>1, <2>2 DEF ReleaseLease
<1>11. ASSUME NEW w \in Workers, Continue(w) PROVE TypeOK'
  <2>1. plain' \in Nat
    BY <1>11, <1>a DEF Continue
  <2> QED BY <1>11, <1>a, <1>b, <1>e, <1>c, <2>1 DEF Continue
<1>12. ASSUME NEW w \in Workers, WorkerDies(w) \/ ContinueUnsent(w) PROVE TypeOK'
  BY <1>12, <1>a, <1>b, <1>e, <1>c, <1>f, <1>g DEF WorkerDies, ContinueUnsent
<1>13. CASE MessageLost
  BY <1>13, <1>a, <1>b, <1>e, <1>f, <1>g DEF MessageLost
<1>14. ASSUME NEW r \in Resumers, FindResumable(r) PROVE TypeOK'
  <2>1. resumer' \in [Resumers -> Resume]
    BY <1>14, <1>a, RowWrites, IdleIsTyped DEF FindResumable, Resume
  <2>2. ClaimsHoldTokens'
    BY <1>14, <1>a DEF FindResumable, Resume, ClaimsHoldTokens
  <2> QED BY <1>14, <1>a, <1>b, <1>e, <2>1, <2>2 DEF FindResumable
<1>c2. \A r \in Resumers :
          resumer' = [resumer EXCEPT ![r] = IdleResumer] =>
            resumer' \in [Resumers -> Resume] /\ ClaimsHoldTokens'
  BY <1>a, IdleIsTyped DEF Resume, ClaimsHoldTokens, IdleResumer
<1>15. ASSUME NEW r \in Resumers, ResumeClaim(r) PROVE TypeOK'
  <2>1. PICK t \in Fresh : \/ /\ job' = Claimed(job, t)
                              /\ resumer' = [resumer EXCEPT ![r].pc = "claimed", ![r].token = t]
                           \/ /\ resumer' = [resumer EXCEPT ![r] = IdleResumer]
                              /\ job' = job
    BY <1>15 DEF ResumeClaim
  <2>2. job' \in Row
    BY <2>1, <1>a, <1>d, RowWrites
  <2>3. resumer' \in [Resumers -> Resume] /\ ClaimsHoldTokens'
    <3>1. CASE resumer' = [resumer EXCEPT ![r].pc = "claimed", ![r].token = t]
      BY <3>1, <1>a, <1>d, ZenonT(60) DEF Resume, ClaimsHoldTokens
    <3> QED BY <3>1, <2>1, <1>c2
  <2> QED BY <1>15, <1>a, <1>b, <1>e, <2>2, <2>3 DEF ResumeClaim
<1>16. ASSUME NEW r \in Resumers, ResumeQueued(r) PROVE TypeOK'
  <2>1. queue' \subseteq Tokens
    BY <1>16, <1>a DEF ResumeQueued, ClaimsHoldTokens
  <2> QED BY <1>16, <1>a, <1>b, <1>e, <1>c2, <2>1 DEF ResumeQueued
<1>17. CASE ResumeUndone
  <2>1. "web" \in Resumers
    BY DEF Resumers
  <2>2. job' \in Row
    BY <1>17, <1>a, <2>1, RowWrites DEF ResumeUndone, ClaimsHoldTokens, Resume
  <2>3. resumer' \in [Resumers -> Resume] /\ ClaimsHoldTokens'
    BY <1>17, <1>c2, <2>1 DEF ResumeUndone
  <2> QED BY <1>17, <1>a, <1>b, <1>f, <1>g, <2>2, <2>3 DEF ResumeUndone
<1>18. ASSUME NEW r \in Resumers, ResumerDies(r) \/ ResumeUnsent(r) PROVE TypeOK'
  <2>1. resumer' \in [Resumers -> Resume] /\ ClaimsHoldTokens'
    BY <1>18, <1>c2 DEF ResumerDies, ResumeUnsent
  <2> QED BY <1>18, <1>a, <1>b, <1>f, <1>g, <2>1 DEF ResumerDies, ResumeUnsent
<1>19. CASE Cancel
  <2>1. job' \in Row
    BY <1>19, <1>a, RowWrites DEF Cancel, Finished
  <2> QED BY <1>19, <1>a, <1>b, <1>e, <2>1 DEF Cancel, ClaimsHoldTokens
<1>20. CASE Tick
  <2>1. job' \in Row
    BY <1>20, <1>a, RowWrites DEF Tick
  <2>2. worker' \in [Workers -> Task]
    <3>1. \A n \in Nat : Less(n) \in Nat
      BY DEF Less
    <3>2. \A w \in Workers : worker'[w] = [worker[w] EXCEPT !.left = Less(worker[w].left)]
      BY <1>20 DEF Tick
    <3>3. ASSUME NEW w \in Workers PROVE worker'[w] \in Task
      <4> DEFINE l == Less(worker[w].left)
      <4>1. worker[w] \in Task
        BY <1>a
      <4>2. l \in Nat
        BY <3>1, <4>1 DEF Task
      <4>3. worker'[w] = [worker[w] EXCEPT !.left = l]
        BY <3>2
      <4> HIDE DEF l
      <4> QED BY <4>1, <4>2, <4>3 DEF Task
    <3> QED BY <3>3, <1>20 DEF Tick
  <2>3. resumer' \in [Resumers -> Resume] /\ ClaimsHoldTokens'
    <3>1. \A r \in Resumers : \/ resumer'[r] = resumer[r]
                              \/ resumer'[r] = [resumer[r] EXCEPT !.snap = Older(resumer[r].snap)]
      BY <1>20 DEF Tick
    <3>2. \A r \in Resumers : /\ resumer'[r] \in Resume
                              /\ resumer'[r].pc = resumer[r].pc
                              /\ resumer'[r].token = resumer[r].token
      <4> TAKE r \in Resumers
      <4>1. resumer[r] \in Resume /\ Older(resumer[r].snap) \in Row
        BY <1>a, RowWrites DEF Resume
      <4> QED BY <3>1, <4>1 DEF Resume
    <3>3. resumer' = [r \in Resumers |-> resumer'[r]]
      BY <1>20 DEF Tick
    <3> QED BY <3>2, <3>3, <1>a DEF ClaimsHoldTokens
  <2> QED BY <1>20, <1>a, <1>b, <1>e, <2>1, <2>2, <2>3 DEF Tick
<1>21. CASE UNCHANGED vars
  BY <1>21, <1>a, <1>b, <1>e DEF vars, ClaimsHoldTokens
<1> QED BY <1>1, <1>2, <1>4, <1>5, <1>6, <1>7, <1>8, <1>9, <1>10, <1>11, <1>12, <1>13,
          <1>14, <1>15, <1>16, <1>17, <1>18, <1>19, <1>20, <1>21
       DEF Next, TaskStep, ResumeStep

\* The row, the tasks and the messages are always of their kind, for every
\* value of the constants.
THEOREM TypeCorrect == Spec => []TypeOK
BY TypeOKInit, TypeOKStep, PTL DEF Spec

-----------------------------------------------------------------------------
(***************************************************************************)
(* One batch at a time.  SingleRunner is not inductive: that a second      *)
(* claim fails follows from the first worker's lease, which outlives the   *)
(* worker because TaskLimit < Lease and both lose a minute per Tick, and   *)
(* from the tokens, which nobody but the claimant can present.             *)
(***************************************************************************)

\* The worker inside a batch holds the row's lease for longer than it may live.
RunnerHoldsLease ==
    \A w \in Workers : Running(w) =>
        \/ job.status \in Finished
        \/ job.token = worker[w].token /\ worker[w].left < job.lease

Claiming(r) == resumer[r].pc = "claimed"

\* Nobody else can present that worker's token.
RunnerTokenIsPrivate ==
    \A w \in Workers : Running(w) =>
        /\ worker[w].token \in Tokens \ queue
        /\ \A r \in Resumers : Claiming(r) => resumer[r].token # worker[w].token

\* Nor the token a resume has claimed with and not sent yet.
ClaimTokenIsPrivate ==
    \A r \in Resumers : Claiming(r) =>
        /\ resumer[r].token \in Tokens \ queue
        /\ \A s \in Resumers : Claiming(s) /\ s # r => resumer[s].token # resumer[r].token

\* Only a running job carries a token, in the row and in what a request read.
LeasedIsRunning ==
    /\ job.token # NoToken => job.status = "running"
    /\ resumer["web"].pc # "idle" =>
        /\ resumer["web"].snap.status \in Open
        /\ resumer["web"].snap.token # NoToken => resumer["web"].snap.status = "running"

LeaseInv ==
    /\ SingleRunner
    /\ RunnerHoldsLease
    /\ RunnerTokenIsPrivate
    /\ ClaimTokenIsPrivate
    /\ LeasedIsRunning

LEMMA LeaseInvInit == Init => LeaseInv
<1> SUFFICES ASSUME Init PROVE LeaseInv
  OBVIOUS
<1>1. \A w \in Workers : ~ Running(w)
  BY DEF Init, Running, IdleWorker
<1>2. \A r \in Resumers : resumer[r].pc = "idle"
  BY DEF Init, IdleResumer
<1>3. job.token = NoToken /\ "web" \in Resumers
  BY DEF Init, NoJob, Resumers
<1> QED BY <1>1, <1>2, <1>3 DEF LeaseInv, SingleRunner, RunnerHoldsLease,
          RunnerTokenIsPrivate, ClaimTokenIsPrivate, LeasedIsRunning, Claiming

\* A step that starts no batch and claims nothing: runners keep what they hold
\* or stop, messages and claims are only used up.
NoNewHolder ==
    /\ \A w \in Workers : Running(w)' =>
          /\ Running(w)
          /\ worker'[w].token = worker[w].token /\ worker'[w].left = worker[w].left
    /\ queue' \subseteq queue
    /\ \A r \in Resumers : Claiming(r)' =>
          Claiming(r) /\ resumer'[r].token = resumer[r].token

\* Such a step keeps the invariant if it leaves the lease alone, ends the job,
\* or clears the lease of a job that nobody runs any more.
LEMMA QuietStep ==
    ASSUME LeaseInv, NoNewHolder,
           \/ job'.token = job.token /\ job'.lease = job.lease /\ job'.status = job.status
           \/ job'.status \in Finished /\ job'.token = NoToken
           \/ (\A w \in Workers : ~ Running(w)') /\ (job'.token # NoToken => job'.status = "running"),
           resumer'["web"].pc # "idle" =>
              /\ resumer'["web"].snap.status \in Open
              /\ resumer'["web"].snap.token # NoToken => resumer'["web"].snap.status = "running"
    PROVE  LeaseInv'
<1>1. SingleRunner'
  BY DEF LeaseInv, NoNewHolder, SingleRunner
<1>2. RunnerHoldsLease'
  BY DEF LeaseInv, NoNewHolder, RunnerHoldsLease
<1>3. RunnerTokenIsPrivate'
  BY DEF LeaseInv, NoNewHolder, RunnerTokenIsPrivate
<1>4. ClaimTokenIsPrivate'
  BY DEF LeaseInv, NoNewHolder, ClaimTokenIsPrivate
<1>5. LeasedIsRunning'
  BY DEF LeaseInv, NoNewHolder, LeasedIsRunning
<1> QED BY <1>1, <1>2, <1>3, <1>4, <1>5 DEF LeaseInv

\* Who may claim finds no batch in progress, unless the token is the runner's.
LEMMA ClaimFindsNoRunner ==
    ASSUME TypeOK, LeaseInv, NEW t \in Tokens, MayClaim(job, t),
           NEW v \in Workers, Running(v)
    PROVE  t = worker[v].token
<1>1. worker[v].token \in Tokens /\ worker[v].left \in Nat /\ job.lease \in Nat
  BY DEF TypeOK, LeaseInv, RunnerTokenIsPrivate, Row
<1>2. job.token = worker[v].token /\ worker[v].left < job.lease
  BY DEF LeaseInv, RunnerHoldsLease, MayClaim, Open, Finished
<1>3. job.token # NoToken
  BY <1>1, <1>2, ConstantsAssumption DEF ConstantsAssumption
<1>4. job.lease > 0
  BY <1>1, <1>2
<1> QED BY <1>2, <1>3, <1>4 DEF MayClaim, LeaseRuns

\* A worker's claim: its token is in no queue, so no batch was in progress,
\* and the new lease outlives the worker.
LEMMA ClaimKeepsLeaseInv ==
    ASSUME TaskLimit < Lease, TypeOK, LeaseInv, NEW w \in Workers, NEW t \in Tokens,
           Claim(w, t), MayClaim(job, t), queue' \subseteq queue, t \notin queue',
           UNCHANGED resumer,
           \A v \in Workers : Running(v) => worker[v].token # t,
           \A r \in Resumers : Claiming(r) => resumer[r].token # t
    PROVE  LeaseInv'
<1>1. \A v \in Workers : ~ Running(v)
  BY ClaimFindsNoRunner
<1>2. /\ worker' = [worker EXCEPT ![w] = worker'[w]]
      /\ worker'[w].pc = "claimed" /\ worker'[w].token = t /\ worker'[w].left = TaskLimit
  <2> DEFINE u == [IdleWorker EXCEPT !.pc = "claimed", !.token = t, !.left = TaskLimit]
  <2>1. worker' = [worker EXCEPT ![w] = u] /\ worker \in [Workers -> Task]
    BY TypeOKParts DEF Claim
  <2>2. u.pc = "claimed" /\ u.token = t /\ u.left = TaskLimit
    BY DEF IdleWorker
  <2> HIDE DEF u
  <2> QED BY <2>1, <2>2
<1>3. \A v \in Workers : Running(v)' => v = w
  BY <1>1, <1>2 DEF Running, TypeOK
<1>4. job'.status = "running" /\ job'.token = t /\ job'.lease = Lease
  BY DEF Claim, Claimed, TypeOK, Row
<1>5. SingleRunner'
  BY <1>3 DEF SingleRunner
<1>6. RunnerHoldsLease'
  BY <1>2, <1>3, <1>4 DEF RunnerHoldsLease
<1>7. RunnerTokenIsPrivate'
  BY <1>2, <1>3 DEF RunnerTokenIsPrivate, Claiming
<1>8. ClaimTokenIsPrivate'
  BY DEF LeaseInv, ClaimTokenIsPrivate, Claiming
<1>9. LeasedIsRunning'
  BY <1>4 DEF LeaseInv, LeasedIsRunning
<1> QED BY <1>5, <1>6, <1>7, <1>8, <1>9 DEF LeaseInv

\* A fresh token is nobody's.
LEMMA FreshIsNew ==
    ASSUME NEW t \in Fresh
    PROVE  /\ t \in Tokens \ queue
           /\ \A v \in Workers : worker[v].token # t
           /\ \A r \in Resumers : resumer[r].token # t
BY DEF Fresh, InUse

LEMMA LeaseInvStep ==
    ASSUME TaskLimit < Lease, TypeOK, LeaseInv, [Next]_vars
    PROVE  LeaseInv'
<1>a. /\ worker \in [Workers -> Task] /\ resumer \in [Resumers -> Resume] /\ job \in Row
      /\ NoToken \notin Tokens /\ "web" \in Resumers
  BY TypeOKParts, ConstantsAssumption DEF ConstantsAssumption, Resumers
<1>b. UNCHANGED resumer =>
        /\ \A r \in Resumers : Claiming(r)' => Claiming(r) /\ resumer'[r].token = resumer[r].token
        /\ resumer'["web"].pc # "idle" =>
              /\ resumer'["web"].snap.status \in Open
              /\ resumer'["web"].snap.token # NoToken => resumer'["web"].snap.status = "running"
  BY DEF Claiming, LeaseInv, LeasedIsRunning
<1>c. UNCHANGED worker => \A w \in Workers : Running(w)' =>
         Running(w) /\ worker'[w].token = worker[w].token /\ worker'[w].left = worker[w].left
  BY DEF Running
<1>d. \A w \in Workers : Finish(w) =>
         /\ ~ Running(w)'
         /\ \A v \in Workers : Running(v)' =>
              Running(v) /\ worker'[v].token = worker[v].token /\ worker'[v].left = worker[v].left
  BY <1>a DEF Finish, Running, IdleWorker
<1>e. \A s \in Finished : job' = Ended(job, s) => job'.status \in Finished /\ job'.token = NoToken
  BY <1>a DEF Ended, Row
<1>f. \A w \in Workers : Running(w) => \/ job.status \in Finished
                                       \/ job.status = "running" /\ job.token \in Tokens
  BY <1>a DEF LeaseInv, RunnerHoldsLease, RunnerTokenIsPrivate, LeasedIsRunning
<1>1. CASE Create
  <2>1. \A w \in Workers : ~ Running(w)
    BY <1>1, <1>f DEF Create, Finished
  <2>2. job'.token = NoToken
    BY <1>1 DEF Create, NoJob
  <2>3. NoNewHolder
    BY <1>1, <1>b, <1>c DEF Create, NoNewHolder
  <2>4. \A w \in Workers : ~ Running(w)'
    BY <2>1, <1>1 DEF Create, Running
  <2> QED BY <1>1, <1>b, <2>2, <2>3, <2>4, QuietStep DEF Create
<1>2. CASE \E d \in Docs : LeaveBox(d) \/ EnterBox(d)
  <2>1. UNCHANGED <<job, worker, queue, resumer>>
    BY <1>2 DEF LeaveBox, EnterBox
  <2> QED BY <2>1, <1>b, <1>c, QuietStep DEF NoNewHolder
<1>3. ASSUME NEW w \in Workers, ReceivePlain(w) PROVE LeaseInv'
  <2>1. PICK t \in Fresh : Claim(w, t)
    BY <1>3 DEF ReceivePlain
  <2>2. CASE MayClaim(job, t)
    BY <1>3, <2>1, <2>2, FreshIsNew, ClaimKeepsLeaseInv DEF ReceivePlain
  <2>3. CASE ~ MayClaim(job, t)
    BY <1>3, <2>1, <2>3, <1>b, <1>c, QuietStep DEF ReceivePlain, Claim, NoNewHolder
  <2> QED BY <2>2, <2>3
<1>4. ASSUME NEW w \in Workers, ReceiveToken(w) PROVE LeaseInv'
  <2>1. PICK t \in queue : queue' = queue \ {t} /\ Claim(w, t)
    BY <1>4 DEF ReceiveToken
  <2>2. t \in Tokens /\ UNCHANGED resumer
    BY <1>4 DEF TypeOK, ReceiveToken
  <2>3. CASE MayClaim(job, t)
    <3>1. \A v \in Workers : Running(v) => worker[v].token # t
      BY DEF LeaseInv, RunnerTokenIsPrivate
    <3>2. \A r \in Resumers : Claiming(r) => resumer[r].token # t
      BY DEF LeaseInv, ClaimTokenIsPrivate
    <3> QED BY <2>1, <2>2, <2>3, <3>1, <3>2, ClaimKeepsLeaseInv
  <2>4. CASE ~ MayClaim(job, t)
    BY <2>1, <2>2, <2>4, <1>b, <1>c, QuietStep DEF Claim, NoNewHolder
  <2> QED BY <2>3, <2>4
<1>5. ASSUME NEW w \in Workers,
             LoadBatch(w) \/ LoadStale(w) \/ VisitDocument(w) \/ StoreProgress(w) \/ Refresh(w)
      PROVE  LeaseInv'
  <2>1. UNCHANGED <<queue, resumer>>
    BY <1>5 DEF LoadBatch, LoadStale, VisitDocument, StoreProgress, Refresh
  <2>2. \A v \in Workers : Running(v)' =>
           Running(v) /\ worker'[v].token = worker[v].token /\ worker'[v].left = worker[v].left
    BY <1>5, <1>a DEF LoadBatch, LoadStale, VisitDocument, StoreProgress, Refresh, Running, Task
  <2>3. job'.token = job.token /\ job'.lease = job.lease /\ job'.status = job.status
    <3>1. CASE LoadBatch(w)
      <4>1. job.status = "running"
        BY <3>1, <1>f DEF LoadBatch, Running, Open, Finished
      <4> QED BY <3>1, <4>1, <1>a DEF LoadBatch, Row
    <3>2. CASE StoreProgress(w)
      BY <3>2, <1>a DEF StoreProgress, Row
    <3> QED BY <1>5, <3>1, <3>2 DEF LoadStale, VisitDocument, Refresh
  <2> QED BY <2>1, <2>2, <2>3, <1>b, QuietStep DEF NoNewHolder
<1>6. ASSUME NEW w \in Workers, CompleteEmpty(w) \/ CompleteCounted(w) \/ BatchFails(w)
      PROVE  LeaseInv'
  <2>1. UNCHANGED <<queue, resumer>> /\ Finish(w)
    BY <1>6 DEF CompleteEmpty, CompleteCounted, BatchFails
  <2>2. job'.status \in Finished /\ job'.token = NoToken
    BY <1>6, <1>e DEF CompleteEmpty, CompleteCounted, BatchFails, Finished
  <2> QED BY <2>1, <2>2, <1>b, <1>d, QuietStep DEF NoNewHolder
<1>7. ASSUME NEW w \in Workers, ReleaseLease(w) PROVE LeaseInv'
  <2>1. UNCHANGED <<queue, resumer>> /\ job'.token = NoToken
    BY <1>7, <1>a DEF ReleaseLease, Row
  <2>2. \A v \in Workers : v # w => worker'[v] = worker[v]
    BY <1>7, <1>a DEF ReleaseLease
  <2>3. ~ Running(w)' /\ Running(w)
    BY <1>7, <1>a DEF ReleaseLease, Running, Task
  <2>4. \A v \in Workers : ~ Running(v)'
    BY <2>2, <2>3 DEF LeaseInv, SingleRunner, Running
  <2> QED BY <2>1, <2>4, <1>b, QuietStep DEF NoNewHolder
<1>8. ASSUME NEW w \in Workers, Continue(w) \/ WorkerDies(w) \/ ContinueUnsent(w) PROVE LeaseInv'
  <2>1. UNCHANGED <<job, queue, resumer>> /\ Finish(w)
    BY <1>8 DEF Continue, WorkerDies, ContinueUnsent
  <2> QED BY <2>1, <1>b, <1>d, QuietStep DEF NoNewHolder
<1>9. CASE MessageLost
  <2>1. UNCHANGED <<job, worker, resumer>> /\ queue' \subseteq queue
    BY <1>9 DEF MessageLost
  <2> QED BY <2>1, <1>b, <1>c, QuietStep DEF NoNewHolder
<1>10. ASSUME NEW r \in Resumers, FindResumable(r) PROVE LeaseInv'
  <2>1. UNCHANGED <<job, worker, queue>>
    BY <1>10 DEF FindResumable
  <2>2. \A s \in Resumers : Claiming(s)' =>
            Claiming(s) /\ resumer'[s].token = resumer[s].token
    BY <1>10, <1>a DEF FindResumable, Claiming, Resume
  <2>3. CASE r = "web"
    <3>1. resumer'["web"].snap = Kept(job)
      BY <1>10, <2>3, <1>a DEF FindResumable, Resume
    <3>2. Kept(job).status = job.status /\ Kept(job).token = job.token
      BY DEF Kept, NoJob
    <3>3. job.status \in Open
      BY <1>10 DEF FindResumable, Resumable
    <3> QED BY <2>1, <2>2, <3>1, <3>2, <3>3, <1>c, QuietStep
           DEF NoNewHolder, LeaseInv, LeasedIsRunning
  <2>4. CASE r # "web"
    <3>1. resumer'["web"] = resumer["web"]
      BY <1>10, <2>4, <1>a DEF FindResumable
    <3> QED BY <2>1, <2>2, <3>1, <1>c, QuietStep DEF NoNewHolder, LeaseInv, LeasedIsRunning
  <2> QED BY <2>3, <2>4
<1>g. ASSUME NEW r \in Resumers, resumer' = [resumer EXCEPT ![r] = IdleResumer]
      PROVE  /\ \A s \in Resumers : Claiming(s)' =>
                  s # r /\ Claiming(s) /\ resumer'[s].token = resumer[s].token
             /\ resumer'["web"].pc # "idle" =>
                  /\ resumer'["web"].snap.status \in Open
                  /\ resumer'["web"].snap.token # NoToken => resumer'["web"].snap.status = "running"
  BY <1>g, <1>a DEF Claiming, IdleResumer, LeaseInv, LeasedIsRunning
<1>11. ASSUME NEW r \in Resumers, ResumeClaim(r) PROVE LeaseInv'
  <2>0. UNCHANGED <<worker, queue>>
    BY <1>11 DEF ResumeClaim
  <2>1. PICK t \in Fresh :
           IF MayClaim(job, t)
           THEN /\ job' = Claimed(job, t)
                /\ resumer' = [resumer EXCEPT ![r].pc = "claimed", ![r].token = t]
           ELSE /\ resumer' = [resumer EXCEPT ![r] = IdleResumer]
                /\ UNCHANGED job
    BY <1>11 DEF ResumeClaim
  <2>2. CASE ~ MayClaim(job, t)
    BY <2>0, <2>1, <2>2, <1>c, <1>g, QuietStep DEF NoNewHolder
  <2>3. CASE MayClaim(job, t)
    <3>1. \A v \in Workers : ~ Running(v) /\ ~ Running(v)'
      BY <2>0, <2>3, FreshIsNew, ClaimFindsNoRunner DEF Running
    <3>2. job'.status = "running"
      BY <2>1, <2>3, <1>a DEF Claimed, Row
    <3>3. /\ resumer'[r].token = t
          /\ \A s \in Resumers : s # r => resumer'[s] = resumer[s]
      BY <2>1, <2>3, <1>a DEF Resume
    <3>4. \/ /\ resumer["web"].pc # "idle"
             /\ resumer'["web"].snap = resumer["web"].snap
          \/ resumer'["web"] = resumer["web"]
      BY <1>11, <2>1, <2>3, <1>a DEF Resume, ResumeClaim
    <3>5. ClaimTokenIsPrivate'
      BY <2>0, <3>3, FreshIsNew DEF LeaseInv, ClaimTokenIsPrivate, Claiming
    <3>6. LeasedIsRunning'
      BY <3>2, <3>4 DEF LeaseInv, LeasedIsRunning
    <3> QED BY <3>1, <3>5, <3>6
           DEF LeaseInv, SingleRunner, RunnerHoldsLease, RunnerTokenIsPrivate
  <2> QED BY <2>2, <2>3
<1>12. ASSUME NEW r \in Resumers, ResumeQueued(r) PROVE LeaseInv'
  <2>1. /\ UNCHANGED <<job, worker>> /\ Claiming(r)
        /\ queue' = queue \cup {resumer[r].token}
        /\ resumer' = [resumer EXCEPT ![r] = IdleResumer]
    BY <1>12, SMTT(30) DEF ResumeQueued, Claiming
  <2>2. SingleRunner' /\ RunnerHoldsLease'
    BY <2>1 DEF LeaseInv, SingleRunner, RunnerHoldsLease, Running
  <2>3. RunnerTokenIsPrivate'
    BY <2>1, <1>g, ZenonT(60) DEF LeaseInv, RunnerTokenIsPrivate, Running
  <2>4. ClaimTokenIsPrivate'
    <3>1. \A s \in Resumers : Claiming(s)' =>
             s # r /\ Claiming(s) /\ resumer'[s].token = resumer[s].token
      BY <2>1, <1>g
    <3>2. \A s \in Resumers : Claiming(s) /\ s # r => resumer[s].token # resumer[r].token
      BY <2>1 DEF LeaseInv, ClaimTokenIsPrivate
    <3>3. \A s \in Resumers : Claiming(s)' => resumer'[s].token \in Tokens \ queue'
      BY <2>1, <3>1, <3>2 DEF LeaseInv, ClaimTokenIsPrivate
    <3>4. \A s, q \in Resumers : Claiming(s)' /\ Claiming(q)' /\ s # q =>
             resumer'[s].token # resumer'[q].token
      BY <3>1 DEF LeaseInv, ClaimTokenIsPrivate
    <3> QED BY <3>3, <3>4 DEF ClaimTokenIsPrivate
  <2>5. LeasedIsRunning'
    BY <2>1, <1>g DEF LeaseInv, LeasedIsRunning
  <2> QED BY <2>2, <2>3, <2>4, <2>5 DEF LeaseInv
<1>13. CASE ResumeUndone
  <2> DEFINE t == resumer["web"].token
  <2>1. /\ UNCHANGED <<worker, queue>> /\ Claiming("web")
        /\ job' = Restored(job, t, resumer["web"].snap)
        /\ resumer' = [resumer EXCEPT !["web"] = IdleResumer]
    BY <1>13 DEF ResumeUndone, Claiming
  <2>2. CASE job.token = t
    <3>1. t \in Tokens /\ job.status = "running"
      BY <2>1, <2>2, <1>a DEF LeaseInv, ClaimTokenIsPrivate, LeasedIsRunning
    <3>2. \A w \in Workers : ~ Running(w)
      BY <2>1, <2>2, <3>1, <1>a
         DEF LeaseInv, RunnerHoldsLease, RunnerTokenIsPrivate, Finished
    <3>3. \A w \in Workers : ~ Running(w)'
      BY <3>2, <2>1 DEF Running
    <3>4. /\ job'.token = resumer["web"].snap.token
          /\ job'.status = resumer["web"].snap.status
      BY <2>1, <2>2, <1>a DEF Restored, Row
    <3>5. job'.token # NoToken => job'.status = "running"
      BY <2>1, <3>4 DEF LeaseInv, LeasedIsRunning, Claiming
    <3> QED BY <2>1, <3>3, <3>5, <1>a, <1>g, QuietStep DEF NoNewHolder
  <2>3. CASE job.token # t
    <3>1. UNCHANGED job
      BY <2>1, <2>3 DEF Restored
    <3> QED BY <2>1, <3>1, <1>a, <1>c, <1>g, QuietStep DEF NoNewHolder
  <2> QED BY <2>2, <2>3
<1>14. ASSUME NEW r \in Resumers, ResumerDies(r) \/ ResumeUnsent(r) PROVE LeaseInv'
  <2>1. UNCHANGED <<job, worker, queue>> /\ resumer' = [resumer EXCEPT ![r] = IdleResumer]
    BY <1>14 DEF ResumerDies, ResumeUnsent
  <2> QED BY <2>1, <1>c, <1>g, QuietStep DEF NoNewHolder
<1>15. CASE Cancel
  <2>1. UNCHANGED <<worker, queue, resumer>>
    BY <1>15 DEF Cancel
  <2>2. job'.status \in Finished /\ job'.token = NoToken
    BY <1>15, <1>e DEF Cancel, Finished
  <2> QED BY <2>1, <2>2, <1>b, <1>c, QuietStep DEF NoNewHolder
<1>16. CASE Tick
  <2>1. /\ UNCHANGED queue
        /\ job'.status = job.status /\ job'.token = job.token /\ job'.lease = Less(job.lease)
    BY <1>16, <1>a DEF Tick, Older, Row
  <2>2. \A w \in Workers : /\ worker'[w].pc = worker[w].pc /\ worker'[w].token = worker[w].token
                           /\ worker'[w].left = Less(worker[w].left)
                           /\ Running(w) => worker[w].left > 0
    BY <1>16, <1>a DEF Tick, Task, Running, Busy
  <2>3. \A r \in Resumers : /\ resumer'[r].pc = resumer[r].pc
                            /\ resumer'[r].token = resumer[r].token
                            /\ resumer'[r].snap.status = resumer[r].snap.status
                            /\ resumer'[r].snap.token = resumer[r].snap.token
    BY <1>16, <1>a DEF Tick, Resume, Older, Row
  <2>4. SingleRunner' /\ RunnerTokenIsPrivate'
    BY <2>1, <2>2, <2>3 DEF LeaseInv, SingleRunner, RunnerTokenIsPrivate, Running, Claiming
  <2>5. RunnerHoldsLease'
    <3>1. \A w \in Workers : worker[w].left \in Nat
      BY <1>a DEF Task
    <3>2. job.lease \in Nat
      BY <1>a DEF Row
    <3>3. \A m, n \in Nat : m > 0 /\ m < n => Less(m) < Less(n)
      BY DEF Less
    <3> QED BY <2>1, <2>2, <3>1, <3>2, <3>3 DEF LeaseInv, RunnerHoldsLease, Running
  <2>6. ClaimTokenIsPrivate' /\ LeasedIsRunning'
    BY <2>1, <2>3, <1>a DEF LeaseInv, ClaimTokenIsPrivate, LeasedIsRunning, Claiming
  <2> QED BY <2>4, <2>5, <2>6 DEF LeaseInv
<1>17. CASE UNCHANGED vars
  <2>1. UNCHANGED <<job, worker, queue, resumer>>
    BY <1>17 DEF vars
  <2> QED BY <2>1, <1>b, <1>c, QuietStep DEF NoNewHolder
<1> QED BY <1>1, <1>2, <1>3, <1>4, <1>5, <1>6, <1>7, <1>8, <1>9, <1>10, <1>11, <1>12,
          <1>13, <1>14, <1>15, <1>16, <1>17
       DEF Next, TaskStep, ResumeStep

\* Under deploy/README.md's rule (a lease longer than the task time limit) two
\* workers never run a batch of one job at once, however many workers, resumes,
\* duplicated messages, faults and cancellations there are.
THEOREM OneBatchAtATime ==
    ASSUME TaskLimit < Lease
    PROVE  Spec => []SingleRunner
<1>1. Init => TypeOK /\ LeaseInv
  BY TypeOKInit, LeaseInvInit
<1>2. TypeOK /\ LeaseInv /\ [Next]_vars => (TypeOK /\ LeaseInv)'
  BY TypeOKStep, LeaseInvStep
<1>3. LeaseInv => SingleRunner
  BY DEF LeaseInv
<1> QED BY <1>1, <1>2, <1>3, PTL DEF Spec

-----------------------------------------------------------------------------
(***************************************************************************)
(* A finished job stays finished, and the cursor never goes back.          *)
(***************************************************************************)

\* All that a step can do to the row.
RowStep ==
    \/ UNCHANGED job
    \/ /\ job.status = "absent"
       /\ job'.status = "queued" /\ job'.token = NoToken /\ job'.last = 0 /\ job'.processed = 0
    \/ \E t \in Tokens : MayClaim(job, t) /\ job' = Claimed(job, t)
    \/ job.status \in Open /\ job' = [job EXCEPT !.status = "running"]
    \/ \E s \in Finished : job' = Ended(job, s)
    \/ \E w \in Workers : StoreProgress(w)
    \/ job' = [job EXCEPT !.token = NoToken, !.lease = 0, !.age = 0]
    \/ /\ resumer["web"].pc = "claimed"
       /\ job' = Restored(job, resumer["web"].token, resumer["web"].snap)
    \/ job.status \in Open /\ job' = Older(job)

LEMMA StepsOfTheRow ==
    ASSUME TypeOK, [Next]_vars
    PROVE  RowStep
<1>1. Fresh \subseteq Tokens /\ queue \subseteq Tokens
  BY DEF Fresh, TypeOK
<1>2. CASE Create
  BY <1>2 DEF Create, RowStep, NoJob
<1>3. CASE \E d \in Docs : LeaveBox(d) \/ EnterBox(d)
  BY <1>3 DEF LeaveBox, EnterBox, RowStep
<1>4. ASSUME NEW w \in Workers, TaskStep(w) \/ BatchFails(w) \/ WorkerDies(w) \/ ContinueUnsent(w)
      PROVE  RowStep
  <2>1. CASE ReceivePlain(w) \/ ReceiveToken(w)
    BY <2>1, <1>1 DEF ReceivePlain, ReceiveToken, Claim, RowStep
  <2>2. CASE LoadBatch(w)
    BY <2>2 DEF LoadBatch, RowStep
  <2>3. CASE CompleteEmpty(w) \/ CompleteCounted(w) \/ BatchFails(w)
    BY <2>3 DEF CompleteEmpty, CompleteCounted, BatchFails, RowStep, Finished
  <2>4. CASE LoadStale(w) \/ VisitDocument(w) \/ Refresh(w) \/ Continue(w) \/ WorkerDies(w) \/ ContinueUnsent(w)
    BY <2>4 DEF LoadStale, VisitDocument, Refresh, Continue, WorkerDies, ContinueUnsent, RowStep
  <2>5. CASE StoreProgress(w)
    BY <2>5 DEF RowStep
  <2>6. CASE ReleaseLease(w)
    BY <2>6 DEF ReleaseLease, RowStep
  <2> QED BY <1>4, <2>1, <2>2, <2>3, <2>4, <2>5, <2>6 DEF TaskStep
<1>5. CASE MessageLost
  BY <1>5 DEF MessageLost, RowStep
<1>6. ASSUME NEW r \in Resumers, ResumeStep(r) \/ ResumerDies(r) \/ ResumeUnsent(r) PROVE RowStep
  BY <1>6, <1>1 DEF ResumeStep, FindResumable, ResumeClaim, ResumeQueued, ResumerDies, ResumeUnsent, RowStep
<1>7. CASE ResumeUndone
  BY <1>7 DEF ResumeUndone, RowStep
<1>8. CASE Cancel
  BY <1>8 DEF Cancel, RowStep, Finished
<1>9. CASE Tick
  BY <1>9 DEF Tick, RowStep
<1>10. CASE UNCHANGED vars
  BY <1>10 DEF vars, RowStep
<1> QED BY <1>2, <1>3, <1>4, <1>5, <1>6, <1>7, <1>8, <1>9, <1>10 DEF Next

\* What a resume request read is a job that was open.
LEMMA StepsOfTheSnapshot ==
    ASSUME TypeOK, LeasedIsRunning, [Next]_vars, resumer'["web"].pc # "idle"
    PROVE  /\ resumer'["web"].snap.status \in Open
           /\ resumer'["web"].snap.token # NoToken => resumer'["web"].snap.status = "running"
<1>a. /\ resumer \in [Resumers -> Resume] /\ job \in Row /\ "web" \in Resumers
  BY TypeOKParts DEF Resumers
<1>1. CASE resumer'["web"].snap = resumer["web"].snap /\ resumer["web"].pc # "idle"
  BY <1>1 DEF LeasedIsRunning
<1>2. ASSUME NEW r \in Resumers, resumer' = [resumer EXCEPT ![r] = IdleResumer]
      PROVE  resumer'["web"].snap = resumer["web"].snap /\ resumer["web"].pc # "idle"
  BY <1>2, <1>a DEF IdleResumer
<1>3. ASSUME NEW r \in Resumers, FindResumable(r) PROVE r = "web" \/ resumer'["web"] = resumer["web"]
  BY <1>3, <1>a DEF FindResumable
<1>4. CASE FindResumable("web")
  <2>1. resumer'["web"].snap = Kept(job) /\ job.status \in Open
    BY <1>4, <1>a DEF FindResumable, Resumable, Resume
  <2>2. Kept(job).status = job.status /\ Kept(job).token = job.token
    BY DEF Kept, NoJob
  <2> QED BY <2>1, <2>2 DEF LeasedIsRunning
<1>5. ASSUME NEW r \in Resumers, ResumeClaim(r)
      PROVE  resumer'["web"].snap = resumer["web"].snap /\ resumer["web"].pc # "idle"
  BY <1>5, <1>2, <1>a DEF ResumeClaim, Resume
<1>6. CASE Tick
  BY <1>6, <1>a, ZenonT(60) DEF Tick, Older, Row, Resume, LeasedIsRunning
<1>7. ASSUME NEW r \in Resumers, ResumeQueued(r) \/ ResumerDies(r) \/ ResumeUnsent(r) \/ ResumeUndone
      PROVE  \E q \in Resumers : resumer' = [resumer EXCEPT ![q] = IdleResumer]
  BY <1>7, <1>a DEF ResumeQueued, ResumerDies, ResumeUnsent, ResumeUndone
<1>8. ASSUME NEW w \in Workers, TaskStep(w) \/ BatchFails(w) \/ WorkerDies(w) \/ ContinueUnsent(w)
      PROVE  UNCHANGED resumer
  BY <1>8 DEF TaskStep, ReceivePlain, ReceiveToken, LoadBatch, LoadStale, CompleteEmpty,
     VisitDocument, StoreProgress, Refresh, CompleteCounted, ReleaseLease, Continue,
     BatchFails, WorkerDies, ContinueUnsent
<1>9. CASE Create \/ (\E d \in Docs : LeaveBox(d) \/ EnterBox(d)) \/ MessageLost \/ Cancel
           \/ UNCHANGED vars
  <2>1. UNCHANGED resumer
    BY <1>9 DEF Create, LeaveBox, EnterBox, MessageLost, Cancel, vars
  <2> QED BY <2>1, <1>1
<1> QED BY <1>1, <1>2, <1>3, <1>4, <1>5, <1>6, <1>7, <1>8, <1>9, <1>a DEF Next, ResumeStep

LEMMA LeasedIsRunningStep ==
    ASSUME TypeOK, LeasedIsRunning, [Next]_vars
    PROVE  LeasedIsRunning'
<1>a. job \in Row /\ resumer \in [Resumers -> Resume] /\ "web" \in Resumers
  BY TypeOKParts DEF Resumers
<1>1. job'.token # NoToken => job'.status = "running"
  <2>1. RowStep
    BY StepsOfTheRow
  <2>2. CASE \E w \in Workers : StoreProgress(w)
    BY <2>2, <1>a DEF StoreProgress, Row, LeasedIsRunning
  <2>3. CASE /\ resumer["web"].pc = "claimed"
             /\ job' = Restored(job, resumer["web"].token, resumer["web"].snap)
    BY <2>3, <1>a DEF Restored, Row, LeasedIsRunning
  <2>4. CASE job' = Older(job)
    BY <2>4, <1>a DEF Older, Row, LeasedIsRunning
  <2> QED BY <2>1, <2>2, <2>3, <2>4, <1>a DEF RowStep, Claimed, Ended, Row, LeasedIsRunning
<1> QED BY <1>1, StepsOfTheSnapshot DEF LeasedIsRunning

\* Without any assumption on the lease: what opens a job is a claim, which a
\* finished job refuses, or a restore, which needs the restoring request's own
\* token in the row, and only a running row has one.
LEMMA NoRevivalStep ==
    ASSUME TypeOK, LeasedIsRunning, [Next]_vars, job.status \in Finished
    PROVE  job'.status \in Finished
<1>a. job \in Row /\ resumer \in [Resumers -> Resume] /\ "web" \in Resumers
  BY TypeOKParts DEF Resumers
<1>b. job.status # "running" /\ job.status \notin Open /\ job.status # "absent"
  BY DEF Finished, Open
<1>1. RowStep
  BY StepsOfTheRow
<1>2. CASE \E w \in Workers : StoreProgress(w)
  BY <1>2, <1>a DEF StoreProgress, Row
<1>3. CASE /\ resumer["web"].pc = "claimed"
           /\ job' = Restored(job, resumer["web"].token, resumer["web"].snap)
  <2>1. resumer["web"].token \in Tokens
    BY <1>3, <1>a DEF TypeOK
  <2>2. job.token = NoToken
    BY <1>b DEF LeasedIsRunning
  <2> QED BY <1>3, <2>1, <2>2, ConstantsAssumption DEF Restored, ConstantsAssumption
<1>4. CASE \E t \in Tokens : MayClaim(job, t) /\ job' = Claimed(job, t)
  BY <1>4, <1>b DEF MayClaim
<1>5. CASE \E s \in Finished : job' = Ended(job, s)
  BY <1>5, <1>a DEF Ended, Row
<1>6. CASE job' = [job EXCEPT !.token = NoToken, !.lease = 0, !.age = 0]
  BY <1>6, <1>a DEF Row
<1> QED BY <1>1, <1>2, <1>3, <1>4, <1>5, <1>6, <1>b DEF RowStep

\* A finished job is never opened again, whatever the lease is set to.
THEOREM FinishedIsFinal == Spec => NoRevival
<1>1. Init => TypeOK /\ LeasedIsRunning
  BY TypeOKInit, LeaseInvInit DEF LeaseInv
<1>2. TypeOK /\ LeasedIsRunning /\ [Next]_vars => (TypeOK /\ LeasedIsRunning)'
  BY TypeOKStep, LeasedIsRunningStep
<1>3. TypeOK /\ LeasedIsRunning /\ [Next]_vars
        => [job.status \in Finished => job'.status \in Finished]_vars
  BY NoRevivalStep
<1> QED BY <1>1, <1>2, <1>3, PTL DEF Spec, NoRevival

\* What a batch is about to write is ahead of what the row holds.
CursorInv ==
    /\ job.status = "absent" => job.last = 0 /\ job.processed = 0
    /\ \A w \in Workers : worker[w].pc = "batch" =>
          /\ worker[w].ids \subseteq {d \in Docs : job.last < d}
          /\ worker[w].processed = job.processed

LEMMA CursorInvInit == Init => CursorInv
BY DEF Init, CursorInv, NoJob, IdleWorker

\* A batch that stores its progress moves the cursor on; nobody else moves it.
LEMMA CursorStep ==
    ASSUME TypeOK, LeaseInv, CursorInv, [Next]_vars
    PROVE  job'.last >= job.last /\ job'.processed >= job.processed
<1>a. /\ job \in Row /\ resumer \in [Resumers -> Resume] /\ worker \in [Workers -> Task]
      /\ "web" \in Resumers /\ job.last \in Nat /\ job.processed \in Nat
  BY TypeOKParts DEF Resumers, Row
<1>1. RowStep
  BY StepsOfTheRow
<1>2. ASSUME NEW w \in Workers, StoreProgress(w)
      PROVE  job'.last >= job.last /\ job'.processed >= job.processed
  <2>1. /\ worker[w].ids \in SUBSET Docs /\ worker[w].ids # {}
        /\ \A d \in worker[w].ids : job.last < d
        /\ worker[w].processed = job.processed
    BY <1>2, <1>a DEF StoreProgress, CursorInv, Task
  <2> DEFINE m == MaxOf(worker[w].ids)
             c == Cardinality(worker[w].ids)
  <2>2. m \in Nat /\ job.last < m /\ c \in Nat
    BY <2>1, MaxOfIsLargest, CardinalityIsNat, ConstantsAssumption DEF ConstantsAssumption
  <2>3. job' = [job EXCEPT !.processed = worker[w].processed + c, !.last = m, !.age = 0]
    BY <1>2 DEF StoreProgress
  <2>4. job'.last = m /\ job'.processed = job.processed + c
    <3> HIDE DEF m, c
    <3> QED BY <2>1, <2>3, <1>a DEF Row
  <2> HIDE DEF m, c
  <2> QED BY <2>2, <2>4, <1>a
<1>3. CASE job.status = "absent" /\ job'.last = 0 /\ job'.processed = 0
  BY <1>3 DEF CursorInv
<1>4. CASE job'.last = job.last /\ job'.processed = job.processed
  BY <1>4, <1>a
<1>5. CASE job' = Restored(job, resumer["web"].token, resumer["web"].snap)
  BY <1>5, <1>4, <1>a DEF Restored, Row
<1>6. CASE job' = Older(job)
  BY <1>6, <1>4, <1>a DEF Older, Row
<1>7. CASE \E s \in Finished : job' = Ended(job, s)
  BY <1>7, <1>4, <1>a DEF Ended, Row
<1>8. CASE \E t \in Tokens : job' = Claimed(job, t)
  BY <1>8, <1>4, <1>a DEF Claimed, Row
<1>9. CASE \/ job' = [job EXCEPT !.token = NoToken, !.lease = 0, !.age = 0]
           \/ job' = [job EXCEPT !.status = "running"]
  BY <1>9, <1>4, <1>a DEF Row
<1> QED BY <1>1, <1>2, <1>3, <1>4, <1>5, <1>6, <1>7, <1>8, <1>9 DEF RowStep

\* A worker enters its batch by LoadBatch only, and while it is there the row's
\* cursor stands still: another batch would be a second runner.
LEMMA CursorInvStep ==
    ASSUME TypeOK, LeaseInv, CursorInv, [Next]_vars
    PROVE  CursorInv'
<1>a. /\ job \in Row /\ resumer \in [Resumers -> Resume] /\ worker \in [Workers -> Task]
      /\ "web" \in Resumers /\ box \subseteq Docs
  BY TypeOKParts DEF Resumers
<1>1. RowStep
  BY StepsOfTheRow
<1>2. ASSUME job'.last = job.last, job'.processed = job.processed,
             job'.status = "absent" => job.status = "absent",
             \A w \in Workers : worker'[w].pc = "batch" =>
                \/ /\ worker[w].pc = "batch"
                   /\ worker'[w].ids = worker[w].ids
                   /\ worker'[w].processed = worker[w].processed
                \/ LoadBatch(w)
      PROVE  CursorInv'
  <2>1. ASSUME NEW w \in Workers, LoadBatch(w)
        PROVE  /\ worker'[w].ids \subseteq {d \in Docs : job.last < d}
               /\ worker'[w].processed = job.processed
    BY <2>1, <1>a, NextIdsAhead DEF LoadBatch, Task
  <2> QED BY <1>2, <2>1 DEF CursorInv
<1>3. ASSUME NEW w \in Workers, StoreProgress(w) PROVE CursorInv'
  <2>1. \A v \in Workers : worker[v].pc = "batch" => v = w
    BY <1>3 DEF StoreProgress, LeaseInv, SingleRunner, Running
  <2>2. \A v \in Workers : worker'[v].pc # "batch"
    BY <2>1, <1>3, <1>a DEF StoreProgress, Task
  <2>3. job.status # "absent"
    <3>1. Running(w)
      BY <1>3 DEF StoreProgress, Running
    <3>2. job.status \in Finished \/ job.token = worker[w].token
      BY <3>1 DEF LeaseInv, RunnerHoldsLease
    <3>3. worker[w].token # NoToken
      BY <3>1, ConstantsAssumption DEF LeaseInv, RunnerTokenIsPrivate, ConstantsAssumption
    <3> QED BY <3>2, <3>3 DEF LeaseInv, LeasedIsRunning, Finished
  <2>4. job'.status = job.status
    BY <1>3, <1>a DEF StoreProgress, Row
  <2> QED BY <2>2, <2>3, <2>4 DEF CursorInv
<1>4. \/ \E w \in Workers : StoreProgress(w)
      \/ \A w \in Workers : worker'[w].pc = "batch" =>
                \/ /\ worker[w].pc = "batch"
                   /\ worker'[w].ids = worker[w].ids
                   /\ worker'[w].processed = worker[w].processed
                \/ LoadBatch(w)
  <2> DEFINE BatchKept(w) == worker'[w].pc = "batch" =>
                \/ /\ worker[w].pc = "batch"
                   /\ worker'[w].ids = worker[w].ids
                   /\ worker'[w].processed = worker[w].processed
                \/ LoadBatch(w)
  <2>1. ASSUME UNCHANGED worker, NEW v \in Workers PROVE BatchKept(v)
    BY <2>1
  <2>2. ASSUME NEW w \in Workers, NEW v \in Workers, Finish(w) PROVE BatchKept(v)
    BY <2>2, <1>a DEF Finish, IdleWorker
  <2>3. ASSUME NEW w \in Workers, NEW v \in Workers, NEW t \in Tokens, Claim(w, t)
        PROVE  BatchKept(v)
    <3> DEFINE u == [IdleWorker EXCEPT !.pc = "claimed", !.token = t, !.left = TaskLimit]
    <3>1. worker' = [worker EXCEPT ![w] = u] \/ UNCHANGED worker
      BY <2>3 DEF Claim
    <3>2. u.pc = "claimed"
      BY DEF IdleWorker
    <3> HIDE DEF u
    <3> QED BY <3>1, <3>2, <2>1, <1>a
  <2>4. ASSUME NEW w \in Workers, NEW v \in Workers,
               LoadBatch(w) \/ LoadStale(w) \/ VisitDocument(w) \/ Refresh(w) \/ ReleaseLease(w)
        PROVE  BatchKept(v)
    <3>1. v # w => worker'[v] = worker[v]
      BY <2>4, <1>a DEF LoadBatch, LoadStale, VisitDocument, Refresh, ReleaseLease
    <3>2. CASE LoadStale(w) \/ Refresh(w) \/ ReleaseLease(w)
      BY <3>1, <3>2, <1>a DEF LoadStale, Refresh, ReleaseLease, Task
    <3>3. CASE VisitDocument(w)
      BY <3>1, <3>3, <1>a DEF VisitDocument, Task
    <3> QED BY <2>4, <3>1, <3>2, <3>3
  <2>5. ASSUME Tick, NEW v \in Workers PROVE BatchKept(v)
    BY <2>5, <1>a DEF Tick, Task
  <2>6. Fresh \subseteq Tokens /\ queue \subseteq Tokens
    BY DEF Fresh, TypeOK
  <2>7. ASSUME NEW w \in Workers, NEW v \in Workers,
               TaskStep(w) \/ BatchFails(w) \/ WorkerDies(w) \/ ContinueUnsent(w), ~ StoreProgress(w)
        PROVE  BatchKept(v)
    <3>1. CASE ReceivePlain(w) \/ ReceiveToken(w)
      BY <3>1, <2>3, <2>6 DEF ReceivePlain, ReceiveToken
    <3>2. CASE CompleteEmpty(w) \/ CompleteCounted(w) \/ Continue(w) \/ BatchFails(w) \/ WorkerDies(w) \/ ContinueUnsent(w)
      BY <3>2, <2>2 DEF CompleteEmpty, CompleteCounted, Continue, BatchFails, WorkerDies, ContinueUnsent
    <3> QED BY <2>7, <3>1, <3>2, <2>4 DEF TaskStep
  <2>8. ASSUME NEW v \in Workers,
               \/ Create \/ (\E d \in Docs : LeaveBox(d) \/ EnterBox(d)) \/ MessageLost
               \/ \E r \in Resumers : ResumeStep(r) \/ ResumerDies(r) \/ ResumeUnsent(r)
               \/ ResumeUndone \/ Cancel \/ UNCHANGED vars
        PROVE  BatchKept(v)
    <3>1. UNCHANGED worker
      BY <2>8 DEF Create, LeaveBox, EnterBox, MessageLost, ResumeStep, FindResumable, ResumeClaim,
         ResumeQueued, ResumerDies, ResumeUnsent, ResumeUndone, Cancel, vars
    <3> QED BY <3>1, <2>1
  <2> HIDE DEF BatchKept
  <2>9. (\E w \in Workers : StoreProgress(w)) \/ \A v \in Workers : BatchKept(v)
    BY <2>5, <2>7, <2>8 DEF Next
  <2> QED BY <2>9 DEF BatchKept
<1>5. \/ \E w \in Workers : StoreProgress(w)
      \/ job.status = "absent" /\ job'.last = 0 /\ job'.processed = 0 /\ job'.status # "absent"
      \/ /\ job'.last = job.last /\ job'.processed = job.processed
         /\ job'.status = "absent" => job.status = "absent"
  <2>1. CASE /\ resumer["web"].pc = "claimed"
             /\ job' = Restored(job, resumer["web"].token, resumer["web"].snap)
    BY <2>1, <1>a DEF Restored, Row, LeaseInv, LeasedIsRunning, Open
  <2>2. CASE \E s \in Finished : job' = Ended(job, s)
    BY <2>2, <1>a DEF Ended, Row, Finished
  <2>3. CASE \E t \in Tokens : job' = Claimed(job, t)
    BY <2>3, <1>a DEF Claimed, Row
  <2>4. CASE job' = Older(job)
    BY <2>4, <1>a DEF Older, Row
  <2>5. CASE \/ job' = [job EXCEPT !.token = NoToken, !.lease = 0, !.age = 0]
             \/ job' = [job EXCEPT !.status = "running"]
    BY <2>5, <1>a DEF Row
  <2> QED BY <1>1, <2>1, <2>2, <2>3, <2>4, <2>5 DEF RowStep
<1> QED BY <1>2, <1>3, <1>4, <1>5 DEF CursorInv

\* With a lease longer than the task limit the counter and the cursor that a
\* resumed batch starts from never go back: no document is counted twice.
THEOREM CursorNeverGoesBack ==
    ASSUME TaskLimit < Lease
    PROVE  Spec => ProgressMonotone
<1>1. Init => TypeOK /\ LeaseInv /\ CursorInv
  BY TypeOKInit, LeaseInvInit, CursorInvInit
<1>2. TypeOK /\ LeaseInv /\ CursorInv /\ [Next]_vars => (TypeOK /\ LeaseInv /\ CursorInv)'
  BY TypeOKStep, LeaseInvStep, CursorInvStep
<1>3. TypeOK /\ LeaseInv /\ CursorInv /\ [Next]_vars
        => [job'.last >= job.last /\ job'.processed >= job.processed]_vars
  BY CursorStep
<1> QED BY <1>1, <1>2, <1>3, PTL DEF Spec, ProgressMonotone

-----------------------------------------------------------------------------
(***************************************************************************)
(* The last message is never dropped.  OpenJobInHand is not inductive: the *)
(* token in the row has to be somebody's even after its lease ran out, for *)
(* a superseded worker may come along then and find it changed; and a row  *)
(* without a token needs a message, or a worker that is bound to send one. *)
(***************************************************************************)

\* Who may still present the token in the row: a worker before the end of its
\* batch, a queued message, a resume that has claimed.
TokenIsHeld ==
    \/ \E w \in Workers : Running(w) /\ worker[w].token = job.token
    \/ job.token \in queue
    \/ \E r \in Resumers : Claiming(r) /\ resumer[r].token = job.token

\* A worker that is about to queue the next message.
WillContinue(w) ==
    /\ worker[w].pc = "return"
    /\ worker[w].status = "running"
    /\ worker[w].processed < job.total

BusyMeansStarted ==
    \A w \in Workers : Busy(w) => job.status \in {"running"} \cup Finished

ClosingSawRunning ==
    \A w \in Workers : worker[w].pc = "closing" =>
        worker[w].status = "running" \/ job.status \in Finished

InHand ==
    job.status \in Open =>
        IF job.token # NoToken
        THEN TokenIsHeld
        ELSE plain > 0 \/ \E w \in Workers : WillContinue(w)

HandInv == wrong = {} => BusyMeansStarted /\ ClosingSawRunning /\ InHand

LEMMA HandInvInit == Init => HandInv
<1> SUFFICES ASSUME Init PROVE HandInv
  OBVIOUS
<1>1. \A w \in Workers : worker[w].pc = "idle"
  BY DEF Init, IdleWorker
<1>2. job.status = "absent"
  BY DEF Init, NoJob
<1> QED BY <1>1, <1>2 DEF HandInv, BusyMeansStarted, ClosingSawRunning, InHand, Busy, Open

\* A claim that succeeds puts the token it claims with into the row.
LEMMA ClaimKeepsHand ==
    ASSUME TypeOK, BusyMeansStarted, ClosingSawRunning, NEW w \in Workers, NEW t \in Tokens,
           Claim(w, t), MayClaim(job, t)
    PROVE  BusyMeansStarted' /\ ClosingSawRunning' /\ InHand'
<1>a. worker \in [Workers -> Task] /\ job \in Row
  BY TypeOKParts
<1> DEFINE u == [IdleWorker EXCEPT !.pc = "claimed", !.token = t, !.left = TaskLimit]
<1>1. worker' = [worker EXCEPT ![w] = u] /\ job' = Claimed(job, t)
  BY DEF Claim
<1>2. u.pc = "claimed" /\ u.token = t
  BY DEF IdleWorker
<1> HIDE DEF u
<1>3. job'.status = "running" /\ job'.token = t
  BY <1>1, <1>a DEF Claimed, Row
<1>4. job.status \notin Finished
  BY DEF MayClaim, Open, Finished
<1>5. worker'[w] = u /\ \A v \in Workers : v # w => worker'[v] = worker[v]
  BY <1>1, <1>a
<1>6. ClosingSawRunning'
  BY <1>2, <1>4, <1>5 DEF ClosingSawRunning
<1>7. TokenIsHeld'
  BY <1>2, <1>3, <1>5 DEF TokenIsHeld, Running
<1>8. t # NoToken
  BY ConstantsAssumption DEF ConstantsAssumption
<1> QED BY <1>3, <1>6, <1>7, <1>8 DEF BusyMeansStarted, InHand

\* What a step may do without touching the row's token or its holders.
LEMMA HandStaysPut ==
    ASSUME BusyMeansStarted, ClosingSawRunning, InHand,
           job'.token = job.token, job'.total = job.total,
           job'.status \in {job.status, "running"},
           job.status \in Finished => job'.status \in Finished,
           job'.status \in Open => job.status \in Open,
           plain <= plain', plain \in Nat, plain' \in Nat, queue \subseteq queue',
           \A r \in Resumers : Claiming(r) =>
              \/ Claiming(r)' /\ resumer'[r].token = resumer[r].token
              \/ resumer[r].token \in queue',
           \A w \in Workers : /\ Busy(w)' => Busy(w)
                              /\ Running(w) => Running(w)' /\ worker'[w].token = worker[w].token
                              /\ WillContinue(w) => WillContinue(w)' \/ plain' > 0
                              /\ worker'[w].pc = "closing" =>
                                    \/ worker[w].pc = "closing" /\ worker'[w].status = worker[w].status
                                    \/ worker'[w].status = "running"
                                    \/ job.status \in Finished
    PROVE  BusyMeansStarted' /\ ClosingSawRunning' /\ InHand'
<1>1. BusyMeansStarted'
  BY DEF BusyMeansStarted
<1>2. ClosingSawRunning'
  BY DEF ClosingSawRunning
<1>3. job.status \in Open /\ job.token # NoToken => TokenIsHeld'
  BY DEF InHand, TokenIsHeld
<1>4. job.status \in Open /\ job.token = NoToken =>
         plain' > 0 \/ \E w \in Workers : WillContinue(w)'
  BY DEF InHand
<1>5. InHand'
  BY <1>3, <1>4 DEF InHand
<1> QED BY <1>1, <1>2, <1>5

LEMMA HandInvStep ==
    ASSUME TypeOK, LeasedIsRunning, HandInv, [Next]_vars
    PROVE  HandInv'
<1> SUFFICES ASSUME wrong' = {} PROVE BusyMeansStarted' /\ ClosingSawRunning' /\ InHand'
  BY DEF HandInv
<1>a. /\ job \in Row /\ worker \in [Workers -> Task] /\ resumer \in [Resumers -> Resume]
      /\ plain \in Nat /\ queue \subseteq Tokens /\ ClaimsHoldTokens /\ faults \in Nat /\ wrong \subseteq Faults
      /\ NoToken \notin Tokens /\ Fresh \subseteq Tokens
  BY TypeOKParts, ConstantsAssumption DEF ConstantsAssumption, Fresh
<1>b. wrong = {} => BusyMeansStarted /\ ClosingSawRunning /\ InHand
  BY DEF HandInv
<1>c. ASSUME wrong = {}, job' = job, worker' = worker,
             plain <= plain', plain' \in Nat, queue \subseteq queue',
             \A r \in Resumers : Claiming(r) =>
                \/ Claiming(r)' /\ resumer'[r].token = resumer[r].token
                \/ resumer[r].token \in queue'
      PROVE  BusyMeansStarted' /\ ClosingSawRunning' /\ InHand'
  <2>1. \A w \in Workers : /\ Busy(w)' => Busy(w)
                           /\ Running(w) => Running(w)' /\ worker'[w].token = worker[w].token
                           /\ WillContinue(w) => WillContinue(w)'
    BY <1>c DEF Busy, Running, WillContinue
  <2> QED BY <1>a, <1>b, <1>c, <2>1, HandStaysPut
<1>d. ASSUME wrong = {}, job'.status \in Finished
      PROVE  BusyMeansStarted' /\ ClosingSawRunning' /\ InHand'
  BY <1>d DEF BusyMeansStarted, ClosingSawRunning, InHand, Finished, Open
<1>e. \A kind \in Faults : ~ Fault(kind)
  BY DEF Fault
<1>f. UNCHANGED resumer => \A r \in Resumers : Claiming(r) =>
                              Claiming(r)' /\ resumer'[r].token = resumer[r].token
  BY DEF Claiming
<1>1. CASE Create
  <2>1. wrong = {} /\ plain' = 1 /\ worker' = worker /\ job.status = "absent"
        /\ job'.status = "queued" /\ job'.token = NoToken
    BY <1>1, <1>a, <1>e DEF Create, NoJob, Faults
  <2>2. \A w \in Workers : worker[w].pc = "idle"
    BY <2>1, <1>b DEF BusyMeansStarted, Busy, Finished
  <2> QED BY <2>1, <2>2 DEF BusyMeansStarted, ClosingSawRunning, InHand, Busy, Open
<1>2. CASE \E d \in Docs : LeaveBox(d) \/ EnterBox(d)
  <2>1. UNCHANGED <<job, worker, plain, queue, resumer, wrong>>
    BY <1>2 DEF LeaveBox, EnterBox
  <2> QED BY <2>1, <1>a, <1>c, <1>f
<1>3. ASSUME NEW w \in Workers, ReceivePlain(w)
      PROVE  BusyMeansStarted' /\ ClosingSawRunning' /\ InHand'
  <2>1. PICK t \in Fresh : Claim(w, t)
    BY <1>3 DEF ReceivePlain
  <2>2. wrong = {} /\ UNCHANGED <<queue, resumer>>
    BY <1>3 DEF ReceivePlain
  <2>3. CASE MayClaim(job, t)
    BY <2>1, <2>2, <2>3, <1>a, <1>b, ClaimKeepsHand
  <2>4. CASE ~ MayClaim(job, t)
    <3>1. job' = job /\ worker' = worker
      BY <2>1, <2>4 DEF Claim
    <3>2. job.status \in Open => job.token # NoToken
      BY <2>4 DEF MayClaim, LeaseRuns
    <3> QED BY <1>b, <2>2, <3>1, <3>2
           DEF BusyMeansStarted, ClosingSawRunning, InHand, TokenIsHeld, Busy, Running, Claiming
  <2> QED BY <2>3, <2>4
<1>4. ASSUME NEW w \in Workers, ReceiveToken(w)
      PROVE  BusyMeansStarted' /\ ClosingSawRunning' /\ InHand'
  <2>1. PICK t \in queue : queue' = queue \ {t} /\ Claim(w, t)
    BY <1>4 DEF ReceiveToken
  <2>2. wrong = {} /\ UNCHANGED <<plain, resumer>> /\ t \in Tokens
    BY <1>4, <1>a DEF ReceiveToken
  <2>3. CASE MayClaim(job, t)
    BY <2>1, <2>2, <2>3, <1>b, ClaimKeepsHand
  <2>4. CASE ~ MayClaim(job, t)
    <3>1. job' = job /\ worker' = worker
      BY <2>1, <2>4 DEF Claim
    <3>2. job.status \in Open => job.token # NoToken /\ job.token # t
      BY <2>4 DEF MayClaim, LeaseRuns
    <3> QED BY <1>b, <2>1, <2>2, <3>1, <3>2
           DEF BusyMeansStarted, ClosingSawRunning, InHand, TokenIsHeld, Busy, Running, Claiming
  <2> QED BY <2>3, <2>4
<1>5. ASSUME NEW w \in Workers, LoadBatch(w) \/ VisitDocument(w) \/ StoreProgress(w) \/ Refresh(w)
      PROVE  BusyMeansStarted' /\ ClosingSawRunning' /\ InHand'
  <2>1. UNCHANGED <<plain, queue, resumer, wrong>>
    BY <1>5 DEF LoadBatch, VisitDocument, StoreProgress, Refresh
  <2>2. /\ job'.token = job.token /\ job'.total = job.total
        /\ job'.status \in {job.status, "running"}
        /\ job.status \in Finished => job'.status \in Finished
        /\ job'.status \in Open => job.status \in Open
    <3>1. CASE LoadBatch(w)
      BY <3>1, <1>a DEF LoadBatch, Row, Open, Finished
    <3>2. CASE StoreProgress(w)
      BY <3>2, <1>a DEF StoreProgress, Row
    <3> QED BY <1>5, <3>1, <3>2 DEF VisitDocument, Refresh
  <2>3. \A v \in Workers : v # w => worker'[v] = worker[v]
    BY <1>5, <1>a DEF LoadBatch, VisitDocument, StoreProgress, Refresh
  <2>4. Running(w) /\ Running(w)' /\ worker'[w].token = worker[w].token
    BY <1>5, <1>a DEF LoadBatch, VisitDocument, StoreProgress, Refresh, Running, Task
  <2>5. worker'[w].pc = "closing" => worker'[w].status = job.status
    BY <1>5, <1>a DEF LoadBatch, VisitDocument, StoreProgress, Refresh, Task
  <2>6. job.status \in {"running"} \cup Finished
    BY <1>b, <2>1, <2>4 DEF BusyMeansStarted, Busy, Running
  <2>7. \A v \in Workers : /\ Busy(v)' => Busy(v)
                           /\ Running(v) => Running(v)' /\ worker'[v].token = worker[v].token
                           /\ WillContinue(v) => WillContinue(v)'
                           /\ worker'[v].pc = "closing" =>
                                 \/ worker[v].pc = "closing" /\ worker'[v].status = worker[v].status
                                 \/ worker'[v].status = "running"
                                 \/ job.status \in Finished
    <3>1. Busy(w) /\ ~ WillContinue(w)
      BY <2>4 DEF Busy, Running, WillContinue
    <3> QED BY <2>2, <2>3, <2>4, <2>5, <2>6, <3>1 DEF Busy, Running, WillContinue
  <2> QED BY <2>1, <2>2, <2>7, <1>a, <1>b, <1>f, HandStaysPut
\* A superseded worker is not the one that holds the row's token.
<1>6. ASSUME NEW w \in Workers, LoadStale(w)
      PROVE  BusyMeansStarted' /\ ClosingSawRunning' /\ InHand'
  <2>1. UNCHANGED <<job, plain, queue, resumer, wrong>>
    BY <1>6 DEF LoadStale
  <2>2. \A v \in Workers : v # w => worker'[v] = worker[v]
    BY <1>6, <1>a DEF LoadStale
  <2>3. worker[w].pc = "claimed" /\ worker'[w].pc = "return"
    BY <1>6, <1>a DEF LoadStale, Task
  <2>4. CASE job.status \in Finished
    BY <2>1, <2>4, <1>d
  <2>5. CASE job.status \notin Finished
    <3>1. job.token # worker[w].token /\ job.status = "running"
      BY <1>6, <1>b, <2>1, <2>3, <2>5 DEF LoadStale, BusyMeansStarted, Busy
    <3>2. BusyMeansStarted' /\ ClosingSawRunning'
      BY <1>b, <2>1, <2>2, <2>3, <3>1 DEF BusyMeansStarted, ClosingSawRunning
    <3>3. job.token # NoToken => TokenIsHeld'
      <4>1. job.token # NoToken => TokenIsHeld
        BY <1>b, <2>1, <3>1 DEF InHand, Open
      <4> QED BY <4>1, <2>1, <2>2, <3>1 DEF TokenIsHeld, Running, Claiming
    <3>4. job.token = NoToken => plain > 0 \/ \E v \in Workers : WillContinue(v)'
      <4>1. job.token = NoToken => plain > 0 \/ \E v \in Workers : WillContinue(v)
        BY <1>b, <2>1, <3>1 DEF InHand, Open
      <4>2. ~ WillContinue(w)
        BY <2>3 DEF WillContinue
      <4> QED BY <4>1, <4>2, <2>1, <2>2 DEF WillContinue
    <3> QED BY <2>1, <3>2, <3>3, <3>4 DEF InHand
  <2> QED BY <2>4, <2>5
<1>7. ASSUME NEW w \in Workers, CompleteEmpty(w) \/ CompleteCounted(w) \/ BatchFails(w)
      PROVE  BusyMeansStarted' /\ ClosingSawRunning' /\ InHand'
  <2>1. wrong = {} /\ job'.status \in Finished
    BY <1>7, <1>a DEF CompleteEmpty, CompleteCounted, BatchFails, Ended, Finished, Row
  <2> QED BY <2>1, <1>d
\* Who takes the token out of an open row sends the next message.
<1>8. ASSUME NEW w \in Workers, ReleaseLease(w)
      PROVE  BusyMeansStarted' /\ ClosingSawRunning' /\ InHand'
  <2>1. /\ wrong = {} /\ job'.token = NoToken /\ job'.total = job.total /\ job'.status = job.status
        /\ worker[w].pc = "closing" /\ worker[w].processed < job.total
    BY <1>8, <1>a DEF ReleaseLease, Row
  <2>2. \A v \in Workers : v # w => worker'[v] = worker[v]
    BY <1>8, <1>a DEF ReleaseLease
  <2>3. /\ worker'[w].pc = "return" /\ worker'[w].status = worker[w].status
        /\ worker'[w].processed = worker[w].processed
    BY <1>8, <1>a DEF ReleaseLease, Task
  <2>4. worker[w].status = "running" \/ job.status \in Finished
    BY <1>b, <2>1 DEF ClosingSawRunning
  <2>5. CASE job.status \in Finished
    BY <2>1, <2>5, <1>d
  <2>6. CASE job.status \notin Finished
    <3>1. WillContinue(w)'
      BY <2>1, <2>3, <2>4, <2>6 DEF WillContinue
    <3>2. BusyMeansStarted' /\ ClosingSawRunning'
      BY <1>b, <2>1, <2>2, <2>3 DEF BusyMeansStarted, ClosingSawRunning, Busy
    <3> QED BY <2>1, <3>1, <3>2 DEF InHand
  <2> QED BY <2>5, <2>6
<1>9. ASSUME NEW w \in Workers, Continue(w)
      PROVE  BusyMeansStarted' /\ ClosingSawRunning' /\ InHand'
  <2>1. UNCHANGED <<job, queue, resumer, wrong>> /\ worker' = [worker EXCEPT ![w] = IdleWorker]
    BY <1>9 DEF Continue, Finish
  <2>2. worker[w].pc = "return"
    BY <1>9 DEF Continue
  <2>3. plain' \in Nat /\ plain <= plain' /\ (WillContinue(w) => plain' > 0)
    BY <1>9, <1>a DEF Continue, WillContinue
  <2>4. worker'[w].pc = "idle" /\ \A v \in Workers : v # w => worker'[v] = worker[v]
    BY <2>1, <1>a DEF IdleWorker
  <2>5. \A v \in Workers : /\ Busy(v)' => Busy(v)
                           /\ Running(v) => Running(v)' /\ worker'[v].token = worker[v].token
                           /\ WillContinue(v) => WillContinue(v)' \/ plain' > 0
                           /\ worker'[v].pc = "closing" =>
                                 worker[v].pc = "closing" /\ worker'[v].status = worker[v].status
    BY <2>1, <2>2, <2>3, <2>4 DEF Busy, Running, WillContinue
  <2> QED BY <2>1, <2>3, <2>5, <1>a, <1>b, <1>f, HandStaysPut
<1>10. ASSUME \/ \E w \in Workers : WorkerDies(w) \/ ContinueUnsent(w)
              \/ \E r \in Resumers : ResumerDies(r) \/ ResumeUnsent(r)
              \/ MessageLost \/ ResumeUndone
       PROVE  FALSE
  BY <1>10, <1>e DEF WorkerDies, ContinueUnsent, MessageLost, ResumeUndone, ResumerDies,
     ResumeUnsent, Faults, Resumers
<1>11. ASSUME NEW r \in Resumers, FindResumable(r)
       PROVE  BusyMeansStarted' /\ ClosingSawRunning' /\ InHand'
  <2>1. UNCHANGED <<job, worker, plain, queue, wrong>> /\ ~ Claiming(r)
    BY <1>11 DEF FindResumable, Claiming
  <2>2. \A s \in Resumers : s # r => resumer'[s] = resumer[s]
    BY <1>11, <1>a DEF FindResumable
  <2>3. \A s \in Resumers : Claiming(s) => Claiming(s)' /\ resumer'[s].token = resumer[s].token
    BY <2>1, <2>2 DEF Claiming
  <2> QED BY <2>1, <2>3, <1>a, <1>c
<1>12. ASSUME NEW r \in Resumers, ResumeClaim(r)
       PROVE  BusyMeansStarted' /\ ClosingSawRunning' /\ InHand'
  <2>0. UNCHANGED <<worker, plain, queue, wrong>> /\ resumer[r].pc = "found"
    BY <1>12 DEF ResumeClaim
  <2>1. PICK t \in Fresh :
           IF MayClaim(job, t)
           THEN /\ job' = Claimed(job, t)
                /\ resumer' = [resumer EXCEPT ![r].pc = "claimed", ![r].token = t]
           ELSE /\ resumer' = [resumer EXCEPT ![r] = IdleResumer]
                /\ UNCHANGED job
    BY <1>12 DEF ResumeClaim
  <2>2. CASE ~ MayClaim(job, t)
    <3>1. job' = job /\ \A s \in Resumers : s # r => resumer'[s] = resumer[s]
      BY <2>1, <2>2, <1>a
    <3>2. \A s \in Resumers : Claiming(s) => Claiming(s)' /\ resumer'[s].token = resumer[s].token
      BY <2>0, <3>1 DEF Claiming
    <3> QED BY <2>0, <3>1, <3>2, <1>a, <1>c
  <2>3. CASE MayClaim(job, t)
    <3>1. job'.status = "running" /\ job'.token = t /\ job'.token # NoToken
      BY <2>1, <2>3, <1>a DEF Claimed, Row
    <3>2. Claiming(r)' /\ resumer'[r].token = t
      BY <2>1, <2>3, <1>a DEF Claiming, Resume
    <3>3. job.status \notin Finished
      BY <2>3 DEF MayClaim, Open, Finished
    <3> QED BY <1>b, <2>0, <3>1, <3>2, <3>3
           DEF BusyMeansStarted, ClosingSawRunning, InHand, TokenIsHeld
  <2> QED BY <2>2, <2>3
<1>13. ASSUME NEW r \in Resumers, ResumeQueued(r)
       PROVE  BusyMeansStarted' /\ ClosingSawRunning' /\ InHand'
  <2>1. UNCHANGED <<job, worker, plain, wrong>> /\ queue' = queue \cup {resumer[r].token}
    BY <1>13 DEF ResumeQueued
  <2>2. \A s \in Resumers : s # r => resumer'[s] = resumer[s]
    BY <1>13, <1>a DEF ResumeQueued
  <2>3. \A s \in Resumers : Claiming(s) =>
           \/ Claiming(s)' /\ resumer'[s].token = resumer[s].token
           \/ resumer[s].token \in queue'
    BY <2>1, <2>2 DEF Claiming
  <2> QED BY <2>1, <2>3, <1>a, <1>c
<1>14. CASE Tick
  <2>1. UNCHANGED <<plain, queue, wrong>>
    BY <1>14 DEF Tick
  <2>2. job'.status = job.status /\ job'.token = job.token /\ job'.total = job.total
    BY <1>14, <1>a DEF Tick, Older, Row
  <2>3. \A w \in Workers : /\ worker'[w].pc = worker[w].pc /\ worker'[w].token = worker[w].token
                           /\ worker'[w].status = worker[w].status
                           /\ worker'[w].processed = worker[w].processed
    BY <1>14, <1>a DEF Tick, Task
  <2>4. \A r \in Resumers : /\ resumer'[r].pc = resumer[r].pc
                            /\ resumer'[r].token = resumer[r].token
    BY <1>14, <1>a DEF Tick, Resume
  <2>5. \A v \in Workers : /\ Busy(v)' => Busy(v)
                           /\ Running(v) => Running(v)' /\ worker'[v].token = worker[v].token
                           /\ WillContinue(v) => WillContinue(v)' \/ plain' > 0
                           /\ worker'[v].pc = "closing" =>
                                 \/ worker[v].pc = "closing" /\ worker'[v].status = worker[v].status
                                 \/ worker'[v].status = "running"
                                 \/ job.status \in Finished
    BY <2>2, <2>3 DEF Busy, Running, WillContinue
  <2>6. \A r \in Resumers : Claiming(r) =>
           \/ Claiming(r)' /\ resumer'[r].token = resumer[r].token
           \/ resumer[r].token \in queue'
    BY <2>4 DEF Claiming
  <2>7. wrong = {}
    BY <2>1
  <2>8. BusyMeansStarted /\ ClosingSawRunning /\ InHand
    BY <2>7, <1>b
  <2>9. plain <= plain' /\ plain \in Nat /\ plain' \in Nat /\ queue \subseteq queue'
    BY <2>1, <1>a
  <2>10. /\ job'.status \in {job.status, "running"}
         /\ job.status \in Finished => job'.status \in Finished
         /\ job'.status \in Open => job.status \in Open
    BY <2>2
  <2>11. job'.token = job.token /\ job'.total = job.total
    BY <2>2
  <2> QED BY <2>5, <2>6, <2>8, <2>9, <2>10, <2>11, HandStaysPut
<1>15. CASE UNCHANGED vars
  <2>1. UNCHANGED <<job, worker, plain, queue, resumer, wrong>>
    BY <1>15 DEF vars
  <2> QED BY <2>1, <1>a, <1>c, <1>f
<1>16. CASE Cancel
  <2>1. wrong = {} /\ job'.status \in Finished
    BY <1>16, <1>a DEF Cancel, Ended, Finished, Row
  <2> QED BY <2>1, <1>d
<1> QED BY <1>1, <1>2, <1>3, <1>4, <1>5, <1>6, <1>7, <1>8, <1>9, <1>10, <1>11, <1>12,
          <1>13, <1>14, <1>15, <1>16
       DEF Next, TaskStep, ResumeStep

\* Whatever the lease is set to, and however many messages and resumes there
\* are: while processes live and the broker takes every message, an open job has
\* a message, a worker or a resume left that takes it on.
THEOREM OpenJobAlwaysInHand == Spec => []OpenJobInHand
<1>1. Init => TypeOK /\ LeasedIsRunning /\ HandInv
  BY TypeOKInit, LeaseInvInit, HandInvInit DEF LeaseInv
<1>2. TypeOK /\ LeasedIsRunning /\ HandInv /\ [Next]_vars
        => (TypeOK /\ LeasedIsRunning /\ HandInv)'
  BY TypeOKStep, LeasedIsRunningStep, HandInvStep
<1>3. HandInv => OpenJobInHand
  BY DEF HandInv, InHand, TokenIsHeld, WillContinue, OpenJobInHand, Busy, Running, Claiming
<1> QED BY <1>1, <1>2, <1>3, PTL DEF Spec

-----------------------------------------------------------------------------
(***************************************************************************)
(* A lease that runs is held, also where the settings page had to undo its *)
(* claim: what it puts back is a row that could be resumed, whose lease    *)
(* had run out when the page read it, and still has.                       *)
(***************************************************************************)

SnapRanOut ==
    resumer["web"].pc # "idle" => ~ LeaseRuns(resumer["web"].snap)

HeldInv ==
    /\ SnapRanOut
    /\ LeaseRuns(job) /\ wrong \cap {"death", "beat"} = {} => TokenIsHeld

LEMMA HeldInvInit == Init => HeldInv
BY DEF Init, HeldInv, SnapRanOut, LeaseRuns, NoJob, IdleResumer, Resumers

LEMMA SnapRanOutStep ==
    ASSUME TypeOK, SnapRanOut, [Next]_vars
    PROVE  SnapRanOut'
<1> SUFFICES ASSUME resumer'["web"].pc # "idle" PROVE ~ LeaseRuns(resumer'["web"].snap)
  BY DEF SnapRanOut, LeaseRuns
<1>a. resumer \in [Resumers -> Resume] /\ job \in Row /\ "web" \in Resumers
  BY TypeOKParts DEF Resumers
<1>1. CASE resumer'["web"].snap = resumer["web"].snap /\ resumer["web"].pc # "idle"
  BY <1>1 DEF SnapRanOut
<1>2. ASSUME NEW r \in Resumers, resumer' = [resumer EXCEPT ![r] = IdleResumer]
      PROVE  resumer'["web"].snap = resumer["web"].snap /\ resumer["web"].pc # "idle"
  BY <1>2, <1>a DEF IdleResumer
<1>3. ASSUME NEW r \in Resumers, FindResumable(r) PROVE r = "web" \/ resumer'["web"] = resumer["web"]
  BY <1>3, <1>a DEF FindResumable
<1>4. CASE FindResumable("web")
  <2>1. resumer'["web"].snap = Kept(job) /\ (job.token # NoToken => job.lease = 0)
    BY <1>4, <1>a DEF FindResumable, Resumable, Resume
  <2>2. Kept(job).lease = job.lease /\ Kept(job).token = job.token
    BY DEF Kept, NoJob
  <2> QED BY <2>1, <2>2 DEF LeaseRuns
<1>5. ASSUME NEW r \in Resumers, ResumeClaim(r)
      PROVE  resumer'["web"].snap = resumer["web"].snap /\ resumer["web"].pc # "idle"
  BY <1>5, <1>2, <1>a DEF ResumeClaim, Resume
<1>6. CASE Tick
  <2>1. /\ resumer'["web"].pc = resumer["web"].pc
        /\ resumer'["web"].snap \in {resumer["web"].snap, Older(resumer["web"].snap)}
    BY <1>6, <1>a DEF Tick, Resume
  <2>2. resumer["web"].snap \in Row /\ ~ LeaseRuns(resumer["web"].snap)
    BY <2>1, <1>a DEF SnapRanOut, Resume
  <2>3. \A row \in Row : Older(row).token = row.token /\ Older(row).lease = Less(row.lease)
    BY DEF Older, Row
  <2>4. \A n \in Nat : Less(n) > 0 => n > 0
    BY DEF Less
  <2>5. \A row \in Row : LeaseRuns(Older(row)) => LeaseRuns(row)
    BY <2>3, <2>4 DEF LeaseRuns, Row
  <2> QED BY <2>1, <2>2, <2>5
<1>7. ASSUME NEW r \in Resumers,
             ResumeQueued(r) \/ ResumerDies(r) \/ ResumeUnsent(r) \/ ResumeUndone
      PROVE  \E q \in Resumers : resumer' = [resumer EXCEPT ![q] = IdleResumer]
  BY <1>7, <1>a DEF ResumeQueued, ResumerDies, ResumeUnsent, ResumeUndone
<1>8. ASSUME NEW w \in Workers, TaskStep(w) \/ BatchFails(w) \/ WorkerDies(w) \/ ContinueUnsent(w)
      PROVE  UNCHANGED resumer
  BY <1>8 DEF TaskStep, ReceivePlain, ReceiveToken, LoadBatch, LoadStale, CompleteEmpty,
     VisitDocument, StoreProgress, Refresh, CompleteCounted, ReleaseLease, Continue,
     BatchFails, WorkerDies, ContinueUnsent
<1>9. CASE Create \/ (\E d \in Docs : LeaveBox(d) \/ EnterBox(d)) \/ MessageLost \/ Cancel
           \/ UNCHANGED vars
  <2>1. UNCHANGED resumer
    BY <1>9 DEF Create, LeaveBox, EnterBox, MessageLost, Cancel, vars
  <2> QED BY <2>1, <1>1
<1> QED BY <1>1, <1>2, <1>3, <1>4, <1>5, <1>6, <1>7, <1>8, <1>9, <1>a DEF Next, ResumeStep

\* Who holds the token in the row keeps it, or gives it to a message.
LEMMA HeldStaysHeld ==
    ASSUME TokenIsHeld, job'.token = job.token,
           job.token \in queue => job.token \in queue',
           \A w \in Workers : Running(w) /\ worker[w].token = job.token =>
              Running(w)' /\ worker'[w].token = worker[w].token,
           \A r \in Resumers : Claiming(r) /\ resumer[r].token = job.token =>
              \/ Claiming(r)' /\ resumer'[r].token = resumer[r].token
              \/ resumer[r].token \in queue'
    PROVE  TokenIsHeld'
BY DEF TokenIsHeld

LEMMA HeldInvStep ==
    ASSUME TypeOK, LeasedIsRunning, HeldInv, [Next]_vars
    PROVE  HeldInv'
<1> SUFFICES ASSUME LeaseRuns(job)', wrong' \cap {"death", "beat"} = {} PROVE TokenIsHeld'
  BY SnapRanOutStep DEF HeldInv
<1>a. /\ job \in Row /\ worker \in [Workers -> Task] /\ resumer \in [Resumers -> Resume]
      /\ queue \subseteq Tokens /\ Fresh \subseteq Tokens /\ "web" \in Resumers
  BY TypeOKParts DEF Fresh, Resumers
<1>b. LeaseRuns(job) /\ (wrong' = wrong \/ \E kind \in Faults : Fault(kind)) => TokenIsHeld
  BY DEF HeldInv, Fault
<1>c. ~ Fault("death") /\ ~ Fault("beat")
  BY DEF Fault
<1>d. job'.token # NoToken
  BY DEF LeaseRuns
<1>e. LeaseRuns(job) => job.status = "running"
  BY DEF LeaseRuns, LeasedIsRunning
<1>f. ASSUME UNCHANGED <<job, worker, queue, wrong>>,
             \A r \in Resumers : Claiming(r) =>
                \/ Claiming(r)' /\ resumer'[r].token = resumer[r].token
                \/ resumer[r].token \in queue'
      PROVE  TokenIsHeld'
  <2>1. TokenIsHeld
    BY <1>f, <1>b DEF LeaseRuns
  <2> QED BY <1>f, <2>1, HeldStaysHeld DEF Running
<1>g. UNCHANGED resumer => \A r \in Resumers : Claiming(r) =>
                              Claiming(r)' /\ resumer'[r].token = resumer[r].token
  BY DEF Claiming
<1>h. \A w \in Workers : \A t \in Tokens : Claim(w, t) /\ MayClaim(job, t) => TokenIsHeld'
  <2> SUFFICES ASSUME NEW w \in Workers, NEW t \in Tokens, Claim(w, t), MayClaim(job, t)
               PROVE  TokenIsHeld'
    OBVIOUS
  <2> DEFINE u == [IdleWorker EXCEPT !.pc = "claimed", !.token = t, !.left = TaskLimit]
  <2>1. worker' = [worker EXCEPT ![w] = u] /\ job' = Claimed(job, t)
    BY DEF Claim
  <2>2. u.pc = "claimed" /\ u.token = t
    BY DEF IdleWorker
  <2> HIDE DEF u
  <2>3. job'.token = t
    BY <2>1, <1>a DEF Claimed, Row
  <2>4. worker'[w] = u
    BY <2>1, <1>a
  <2> QED BY <2>2, <2>3, <2>4 DEF TokenIsHeld, Running
<1>1. CASE Create
  BY <1>1, <1>d DEF Create, NoJob
<1>2. CASE \E d \in Docs : LeaveBox(d) \/ EnterBox(d)
  <2>1. UNCHANGED <<job, worker, queue, resumer, wrong>>
    BY <1>2 DEF LeaveBox, EnterBox
  <2> QED BY <2>1, <1>f, <1>g
<1>3. ASSUME NEW w \in Workers, ReceivePlain(w) PROVE TokenIsHeld'
  <2>1. PICK t \in Fresh : Claim(w, t)
    BY <1>3 DEF ReceivePlain
  <2>2. CASE MayClaim(job, t)
    BY <2>1, <2>2, <1>a, <1>h
  <2>3. CASE ~ MayClaim(job, t)
    <3>1. UNCHANGED <<job, worker, queue, resumer, wrong>>
      BY <2>1, <2>3, <1>3 DEF Claim, ReceivePlain
    <3> QED BY <3>1, <1>f, <1>g
  <2> QED BY <2>2, <2>3
<1>4. ASSUME NEW w \in Workers, ReceiveToken(w) PROVE TokenIsHeld'
  <2>1. PICK t \in queue : queue' = queue \ {t} /\ Claim(w, t)
    BY <1>4 DEF ReceiveToken
  <2>2. CASE MayClaim(job, t)
    BY <2>1, <2>2, <1>a, <1>h
  <2>3. CASE ~ MayClaim(job, t)
    <3>1. UNCHANGED <<job, worker, resumer, wrong>>
      BY <2>1, <2>3, <1>4 DEF Claim, ReceiveToken
    <3>2. LeaseRuns(job) /\ TokenIsHeld
      BY <3>1, <1>b DEF LeaseRuns
    <3>3. job.token # t
      BY <2>3, <3>2, <1>e DEF MayClaim, Open
    <3>4. job.token \in queue => job.token \in queue'
      BY <2>1, <3>3
    <3> QED BY <3>1, <3>2, <3>4, <1>g, HeldStaysHeld DEF Running
  <2> QED BY <2>2, <2>3
<1>5. ASSUME NEW w \in Workers, LoadBatch(w) \/ VisitDocument(w) \/ StoreProgress(w) \/ Refresh(w)
      PROVE  TokenIsHeld'
  <2>1. UNCHANGED <<queue, resumer, wrong>>
    BY <1>5 DEF LoadBatch, VisitDocument, StoreProgress, Refresh
  <2>2. job'.token = job.token /\ job'.lease = job.lease
    <3>1. CASE LoadBatch(w)
      BY <3>1, <1>a DEF LoadBatch, Row
    <3>2. CASE StoreProgress(w)
      BY <3>2, <1>a DEF StoreProgress, Row
    <3> QED BY <1>5, <3>1, <3>2 DEF VisitDocument, Refresh
  <2>3. \A v \in Workers : v # w => worker'[v] = worker[v]
    BY <1>5, <1>a DEF LoadBatch, VisitDocument, StoreProgress, Refresh
  <2>4. Running(w)' /\ worker'[w].token = worker[w].token
    BY <1>5, <1>a DEF LoadBatch, VisitDocument, StoreProgress, Refresh, Running, Task
  <2>5. TokenIsHeld
    BY <2>1, <2>2, <1>b DEF LeaseRuns
  <2>6. \A v \in Workers : Running(v) => Running(v)' /\ worker'[v].token = worker[v].token
    BY <2>3, <2>4 DEF Running
  <2> QED BY <2>1, <2>2, <2>5, <2>6, <1>g, HeldStaysHeld
\* A superseded worker is not the one that holds the row's token, and a worker
\* at the end of its task has given it up.
<1>6. ASSUME NEW w \in Workers, LoadStale(w) \/ Continue(w) \/ ContinueUnsent(w)
      PROVE  TokenIsHeld'
  <2>1. UNCHANGED <<job, queue, resumer>> /\ (wrong' = wrong \/ Fault("task"))
    BY <1>6 DEF LoadStale, Continue, ContinueUnsent
  <2>2. LeaseRuns(job) /\ TokenIsHeld
    BY <2>1, <1>b DEF LeaseRuns, Faults
  <2>3. \A v \in Workers : v # w => worker'[v] = worker[v]
    BY <1>6, <1>a DEF LoadStale, Continue, ContinueUnsent, Finish
  <2>4. ~ (Running(w) /\ worker[w].token = job.token)
    BY <1>6, <2>2, <1>e DEF LoadStale, Continue, ContinueUnsent, Running, Finished
  <2>5. \A v \in Workers : Running(v) /\ worker[v].token = job.token =>
           Running(v)' /\ worker'[v].token = worker[v].token
    BY <2>3, <2>4 DEF Running
  <2> QED BY <2>1, <2>2, <2>5, <1>g, HeldStaysHeld
<1>7. ASSUME NEW w \in Workers,
             CompleteEmpty(w) \/ CompleteCounted(w) \/ BatchFails(w) \/ ReleaseLease(w)
      PROVE  TokenIsHeld'
  BY <1>7, <1>a, <1>d DEF CompleteEmpty, CompleteCounted, BatchFails, ReleaseLease, Ended, Row
<1>8. ASSUME \/ \E w \in Workers : WorkerDies(w)
             \/ \E r \in Resumers : ResumerDies(r) \/ ResumeUnsent(r)
             \/ MessageLost
      PROVE  FALSE
  BY <1>8, <1>c DEF WorkerDies, ResumerDies, ResumeUnsent, MessageLost
<1>9. ASSUME NEW r \in Resumers, FindResumable(r) PROVE TokenIsHeld'
  <2>1. UNCHANGED <<job, worker, queue, wrong>> /\ ~ Claiming(r)
    BY <1>9 DEF FindResumable, Claiming
  <2>2. \A s \in Resumers : s # r => resumer'[s] = resumer[s]
    BY <1>9, <1>a DEF FindResumable
  <2>3. \A s \in Resumers : Claiming(s) => Claiming(s)' /\ resumer'[s].token = resumer[s].token
    BY <2>1, <2>2 DEF Claiming
  <2> QED BY <2>1, <2>3, <1>f
<1>10. ASSUME NEW r \in Resumers, ResumeClaim(r) PROVE TokenIsHeld'
  <2>0. UNCHANGED <<worker, queue, wrong>> /\ resumer[r].pc = "found"
    BY <1>10 DEF ResumeClaim
  <2>1. PICK t \in Fresh :
           IF MayClaim(job, t)
           THEN /\ job' = Claimed(job, t)
                /\ resumer' = [resumer EXCEPT ![r].pc = "claimed", ![r].token = t]
           ELSE /\ resumer' = [resumer EXCEPT ![r] = IdleResumer]
                /\ UNCHANGED job
    BY <1>10 DEF ResumeClaim
  <2>2. CASE MayClaim(job, t)
    <3>1. job'.token = t
      BY <2>1, <2>2, <1>a DEF Claimed, Row
    <3>2. Claiming(r)' /\ resumer'[r].token = t
      BY <2>1, <2>2, <1>a DEF Claiming, Resume
    <3> QED BY <3>1, <3>2 DEF TokenIsHeld
  <2>3. CASE ~ MayClaim(job, t)
    <3>1. job' = job /\ \A s \in Resumers : s # r => resumer'[s] = resumer[s]
      BY <2>1, <2>3, <1>a
    <3>2. \A s \in Resumers : Claiming(s) => Claiming(s)' /\ resumer'[s].token = resumer[s].token
      BY <2>0, <3>1 DEF Claiming
    <3> QED BY <2>0, <3>1, <3>2, <1>f
  <2> QED BY <2>2, <2>3
<1>11. ASSUME NEW r \in Resumers, ResumeQueued(r) PROVE TokenIsHeld'
  <2>1. UNCHANGED <<job, worker, wrong>> /\ queue' = queue \cup {resumer[r].token}
    BY <1>11 DEF ResumeQueued
  <2>2. \A s \in Resumers : s # r => resumer'[s] = resumer[s]
    BY <1>11, <1>a DEF ResumeQueued
  <2>3. \A s \in Resumers : Claiming(s) =>
           \/ Claiming(s)' /\ resumer'[s].token = resumer[s].token
           \/ resumer[s].token \in queue'
    BY <2>1, <2>2 DEF Claiming
  <2>4. TokenIsHeld
    BY <2>1, <1>b DEF LeaseRuns
  <2> QED BY <2>1, <2>3, <2>4, HeldStaysHeld DEF Running
\* What the settings page puts back is no running lease; and if somebody else
\* has claimed since, the page's own token was not the one in the row.
<1>12. CASE ResumeUndone
  <2> DEFINE t == resumer["web"].token
  <2>1. /\ UNCHANGED <<worker, queue>> /\ Claiming("web") /\ Fault("web")
        /\ job' = Restored(job, t, resumer["web"].snap)
        /\ resumer' = [resumer EXCEPT !["web"] = IdleResumer]
    BY <1>12 DEF ResumeUndone, Claiming
  <2>2. CASE job.token = t
    <3>1. job'.token = resumer["web"].snap.token /\ job'.lease = resumer["web"].snap.lease
      BY <2>1, <2>2, <1>a DEF Restored, Row
    <3> QED BY <2>1, <3>1 DEF HeldInv, SnapRanOut, LeaseRuns, Claiming
  <2>3. CASE job.token # t
    <3>1. job' = job
      BY <2>1, <2>3 DEF Restored
    <3>2. TokenIsHeld
      BY <2>1, <3>1, <1>b DEF LeaseRuns, Faults, Resumers
    <3>3. \A s \in Resumers : s # "web" => resumer'[s] = resumer[s]
      BY <2>1, <1>a
    <3>4. \A s \in Resumers : Claiming(s) /\ resumer[s].token = job.token =>
             Claiming(s)' /\ resumer'[s].token = resumer[s].token
      BY <2>3, <3>3 DEF Claiming
    <3> QED BY <2>1, <3>1, <3>2, <3>4, HeldStaysHeld DEF Running
  <2> QED BY <2>2, <2>3
<1>13. CASE Cancel
  BY <1>13, <1>a, <1>d DEF Cancel, Ended, Row
<1>14. CASE Tick
  <2>1. UNCHANGED <<queue, wrong>>
    BY <1>14 DEF Tick
  <2>2. job'.token = job.token /\ job'.lease = Less(job.lease) /\ job.lease \in Nat
    BY <1>14, <1>a DEF Tick, Older, Row
  <2>3. LeaseRuns(job)
    BY <2>2 DEF LeaseRuns, Less
  <2>4. \A w \in Workers : worker'[w].pc = worker[w].pc /\ worker'[w].token = worker[w].token
    BY <1>14, <1>a DEF Tick, Task
  <2>5. \A r \in Resumers : resumer'[r].pc = resumer[r].pc /\ resumer'[r].token = resumer[r].token
    BY <1>14, <1>a DEF Tick, Resume
  <2>6. TokenIsHeld
    BY <2>1, <2>3, <1>b
  <2>7. \A w \in Workers : Running(w) => Running(w)' /\ worker'[w].token = worker[w].token
    BY <2>4 DEF Running
  <2>8. \A r \in Resumers : Claiming(r) => Claiming(r)' /\ resumer'[r].token = resumer[r].token
    BY <2>5 DEF Claiming
  <2> QED BY <2>1, <2>2, <2>6, <2>7, <2>8, HeldStaysHeld
<1>15. CASE UNCHANGED vars
  <2>1. UNCHANGED <<job, worker, queue, resumer, wrong>>
    BY <1>15 DEF vars
  <2> QED BY <2>1, <1>f, <1>g
<1> QED BY <1>1, <1>2, <1>3, <1>4, <1>5, <1>6, <1>7, <1>8, <1>9, <1>10, <1>11, <1>12,
          <1>13, <1>14, <1>15
       DEF Next, TaskStep, ResumeStep

\* Whatever the lease is set to: while processes live and Beat's own messages are
\* taken, the token of a lease that runs is in somebody's hands, also when other
\* messages are refused and the settings page undoes its claims.
THEOREM LeaseAlwaysHeld == Spec => []LeaseHasHolder
<1>1. Init => TypeOK /\ LeasedIsRunning /\ HeldInv
  BY TypeOKInit, LeaseInvInit, HeldInvInit DEF LeaseInv
<1>2. TypeOK /\ LeasedIsRunning /\ HeldInv /\ [Next]_vars
        => (TypeOK /\ LeasedIsRunning /\ HeldInv)'
  BY TypeOKStep, LeasedIsRunningStep, HeldInvStep
<1>3. HeldInv => LeaseHasHolder
  BY DEF HeldInv, TokenIsHeld, LeaseHasHolder
<1> QED BY <1>1, <1>2, <1>3, PTL DEF Spec

-----------------------------------------------------------------------------
(***************************************************************************)
(* No document is passed over.                                             *)
(***************************************************************************)

\* Up to the cursor, and up to the end of every batch but for what it still
\* has to do, there is no document that stayed and was not visited.
SweepInv ==
    /\ stayed \subseteq box
    /\ \A d \in stayed : d <= job.last => d \in visited
    /\ \A w \in Workers : worker[w].pc = "batch" =>
          /\ worker[w].todo \subseteq worker[w].ids
          /\ worker[w].ids \subseteq visited \cup worker[w].todo
          /\ \A d \in stayed, e \in worker[w].ids :
                job.last < d /\ d <= e => d \in worker[w].ids

LEMMA SweepInvInit == Init => SweepInv
BY DEF Init, SweepInv, IdleWorker

\* A batch has no gap: it is cut from the lowest ids ahead of the cursor.
LEMMA BatchHasNoGap ==
    ASSUME NEW row \in Row, box \subseteq Docs, NEW e \in NextIds(row), NEW d \in box,
           row.last < d, d <= e
    PROVE  d \in NextIds(row)
<1> DEFINE ahead == {x \in box : row.last < x /\ x <= row.max}
           below(y) == {x \in ahead : x < y}
<1>1. /\ Docs \subseteq Nat /\ IsFiniteSet(Docs) /\ BatchSize \in Nat
      /\ row.last \in Nat /\ row.max \in Nat
  BY ConstantsAssumption DEF ConstantsAssumption, Row
<1>2. e \in ahead /\ Cardinality(below(e)) < BatchSize
  BY DEF NextIds
<1>3. d \in ahead
  BY <1>1, <1>2
<1>4. ahead \subseteq Nat /\ d \in Nat /\ e \in Nat
  BY <1>1, <1>3, <1>2
<1>5. below(d) \subseteq below(e)
  BY <1>4
<1>6. IsFiniteSet(below(e))
  BY <1>1, FS_Subset
<1>7. Cardinality(below(d)) <= Cardinality(below(e))
  BY <1>5, <1>6, FS_Subset
<1>8. Cardinality(below(d)) \in Nat /\ Cardinality(below(e)) \in Nat
  BY <1>1, CardinalityIsNat
<1>9. Cardinality(below(d)) < BatchSize
  <2> HIDE DEF below
  <2> QED BY <1>1, <1>2, <1>7, <1>8
<1> QED BY <1>3, <1>9 DEF NextIds

\* Only the end of a batch moves the cursor.
LEMMA CursorMoves ==
    ASSUME TypeOK, LeaseInv, CursorInv, [Next]_vars
    PROVE  (\E w \in Workers : StoreProgress(w)) \/ job'.last = job.last
<1>a. job \in Row /\ resumer \in [Resumers -> Resume] /\ "web" \in Resumers
  BY TypeOKParts DEF Resumers
<1>1. RowStep
  BY StepsOfTheRow
<1>2. CASE job.status = "absent" /\ job'.last = 0
  BY <1>2 DEF CursorInv
<1>3. CASE job' = Restored(job, resumer["web"].token, resumer["web"].snap)
  BY <1>3, <1>a DEF Restored, Row
<1>4. CASE job' = Older(job)
  BY <1>4, <1>a DEF Older, Row
<1>5. CASE \E s \in Finished : job' = Ended(job, s)
  BY <1>5, <1>a DEF Ended, Row
<1>6. CASE \E t \in Tokens : job' = Claimed(job, t)
  BY <1>6, <1>a DEF Claimed, Row
<1>7. CASE \/ job' = [job EXCEPT !.token = NoToken, !.lease = 0, !.age = 0]
           \/ job' = [job EXCEPT !.status = "running"]
  BY <1>7, <1>a DEF Row
<1> QED BY <1>1, <1>2, <1>3, <1>4, <1>5, <1>6, <1>7 DEF RowStep

\* A step that neither begins a batch nor works on one.
LEMMA SweepKept ==
    ASSUME SweepInv, job'.last = job.last, UNCHANGED visited,
           stayed' \subseteq stayed, stayed' \subseteq box',
           \A w \in Workers : worker'[w].pc = "batch" =>
              /\ worker[w].pc = "batch"
              /\ worker'[w].ids = worker[w].ids /\ worker'[w].todo = worker[w].todo
    PROVE  SweepInv'
BY DEF SweepInv

\* Before the job exists nobody is at work on it.
LEMMA NobodyEarly ==
    ASSUME LeaseInv, job.status = "absent", NEW w \in Workers
    PROVE  ~ Running(w)
<1> SUFFICES ASSUME Running(w) PROVE FALSE
  OBVIOUS
<1>1. job.token = worker[w].token /\ worker[w].token \in Tokens
  BY DEF LeaseInv, RunnerHoldsLease, RunnerTokenIsPrivate, Finished
<1> QED BY <1>1, ConstantsAssumption DEF LeaseInv, LeasedIsRunning, ConstantsAssumption

\* What the tasks of other workers, messages and time do to the batches.
LEMMA BatchesKept ==
    ASSUME TypeOK, [Next]_vars,
           \A w \in Workers : ~ LoadBatch(w) /\ ~ VisitDocument(w) /\ ~ StoreProgress(w)
    PROVE  \A w \in Workers : worker'[w].pc = "batch" =>
              /\ worker[w].pc = "batch"
              /\ worker'[w].ids = worker[w].ids /\ worker'[w].todo = worker[w].todo
<1> DEFINE Kept1(v) == worker'[v].pc = "batch" =>
              /\ worker[v].pc = "batch"
              /\ worker'[v].ids = worker[v].ids /\ worker'[v].todo = worker[v].todo
<1>a. worker \in [Workers -> Task] /\ Fresh \subseteq Tokens /\ queue \subseteq Tokens
  BY TypeOKParts DEF Fresh, TypeOK
<1>1. ASSUME UNCHANGED worker, NEW v \in Workers PROVE Kept1(v)
  BY <1>1
<1>2. ASSUME NEW w \in Workers, NEW v \in Workers, Finish(w) PROVE Kept1(v)
  BY <1>2, <1>a DEF Finish, IdleWorker
<1>3. ASSUME NEW w \in Workers, NEW v \in Workers, NEW t \in Tokens, Claim(w, t)
      PROVE  Kept1(v)
  <2> DEFINE u == [IdleWorker EXCEPT !.pc = "claimed", !.token = t, !.left = TaskLimit]
  <2>1. worker' = [worker EXCEPT ![w] = u] \/ UNCHANGED worker
    BY <1>3 DEF Claim
  <2>2. u.pc = "claimed"
    BY DEF IdleWorker
  <2> HIDE DEF u
  <2> QED BY <2>1, <2>2, <1>1, <1>a
<1>4. ASSUME NEW w \in Workers, NEW v \in Workers, LoadStale(w) \/ Refresh(w) \/ ReleaseLease(w)
      PROVE  Kept1(v)
  BY <1>4, <1>a DEF LoadStale, Refresh, ReleaseLease, Task
<1>5. ASSUME Tick, NEW v \in Workers PROVE Kept1(v)
  BY <1>5, <1>a DEF Tick, Task
<1>6. ASSUME NEW w \in Workers, NEW v \in Workers, TaskStep(w) \/ BatchFails(w) \/ WorkerDies(w) \/ ContinueUnsent(w)
      PROVE  Kept1(v)
  <2>1. CASE ReceivePlain(w) \/ ReceiveToken(w)
    BY <2>1, <1>3, <1>a DEF ReceivePlain, ReceiveToken
  <2>2. CASE CompleteEmpty(w) \/ CompleteCounted(w) \/ Continue(w) \/ BatchFails(w) \/ WorkerDies(w) \/ ContinueUnsent(w)
    BY <2>2, <1>2 DEF CompleteEmpty, CompleteCounted, Continue, BatchFails, WorkerDies, ContinueUnsent
  <2> QED BY <1>6, <2>1, <2>2, <1>4 DEF TaskStep
<1>7. ASSUME NEW v \in Workers,
             \/ Create \/ (\E d \in Docs : LeaveBox(d) \/ EnterBox(d)) \/ MessageLost
             \/ \E r \in Resumers : ResumeStep(r) \/ ResumerDies(r) \/ ResumeUnsent(r)
             \/ ResumeUndone \/ Cancel \/ UNCHANGED vars
      PROVE  Kept1(v)
  BY <1>7, <1>1 DEF Create, LeaveBox, EnterBox, MessageLost, ResumeStep, FindResumable,
     ResumeClaim, ResumeQueued, ResumerDies, ResumeUnsent, ResumeUndone, Cancel, vars
<1> HIDE DEF Kept1
<1>8. \A v \in Workers : Kept1(v)
  BY <1>5, <1>6, <1>7 DEF Next
<1> QED BY <1>8 DEF Kept1

LEMMA SweepInvStep ==
    ASSUME TypeOK, LeaseInv, CursorInv, SweepInv, [Next]_vars
    PROVE  SweepInv'
<1>a. /\ job \in Row /\ worker \in [Workers -> Task] /\ box \subseteq Docs
      /\ stayed \subseteq box /\ Docs \subseteq Nat \ {0} /\ job.last \in Nat
  BY TypeOKParts, ConstantsAssumption DEF SweepInv, ConstantsAssumption, Row, TypeOK
<1>1. CASE Create
  <2>1. \A w \in Workers : worker[w].pc # "batch"
    BY <1>1, NobodyEarly DEF Create, Running
  <2>2. job'.last = 0 /\ stayed' = box /\ UNCHANGED <<box, visited, worker>>
    BY <1>1 DEF Create, NoJob
  <2>3. \A d \in box : ~ (d <= 0)
    BY <1>a
  <2> QED BY <2>1, <2>2, <2>3 DEF SweepInv
<1>2. ASSUME NEW w \in Workers, LoadBatch(w) PROVE SweepInv'
  <2>1. /\ UNCHANGED <<box, stayed, visited>> /\ job'.last = job.last
        /\ worker'[w].ids = NextIds(job) /\ worker'[w].todo = NextIds(job)
        /\ \A v \in Workers : v # w => worker'[v] = worker[v]
    BY <1>2, <1>a DEF LoadBatch, Row, Task
  <2>2. \A d \in stayed, e \in NextIds(job) : job.last < d /\ d <= e => d \in NextIds(job)
    BY <1>a, BatchHasNoGap
  <2> QED BY <2>1, <2>2 DEF SweepInv
<1>3. ASSUME NEW w \in Workers, VisitDocument(w) PROVE SweepInv'
  <2> DEFINE d == MinOf(worker[w].todo)
  <2>1. /\ UNCHANGED <<job, box, stayed>> /\ visited' = visited \cup {d}
        /\ worker'[w].ids = worker[w].ids /\ worker'[w].todo = worker[w].todo \ {d}
        /\ worker[w].pc = "batch"
        /\ \A v \in Workers : v # w => worker'[v] = worker[v]
    BY <1>3, <1>a DEF VisitDocument, Task
  <2> HIDE DEF d
  <2> QED BY <2>1 DEF SweepInv
<1>4. ASSUME NEW w \in Workers, StoreProgress(w) PROVE SweepInv'
  <2> DEFINE m == MaxOf(worker[w].ids)
  <2>1. /\ worker[w].pc = "batch" /\ worker[w].ids \in SUBSET Docs /\ worker[w].ids # {}
        /\ worker[w].todo = {} /\ UNCHANGED <<box, stayed, visited>> /\ job'.last = m
    BY <1>4, <1>a DEF StoreProgress, Task, Row
  <2>2. m \in worker[w].ids /\ m \in Nat
    BY <2>1, MaxOfIsLargest, <1>a
  <2>3. worker[w].ids \subseteq visited
    BY <2>1 DEF SweepInv
  <2>4. \A d \in stayed : d <= m => d \in visited
    <3>1. ASSUME NEW d \in stayed, d <= m PROVE d \in visited
      <4>1. d \in Nat
        BY <1>a
      <4>2. CASE d <= job.last
        BY <4>2 DEF SweepInv
      <4>3. CASE job.last < d
        BY <4>3, <3>1, <2>1, <2>2, <2>3 DEF SweepInv
      <4> QED BY <4>1, <4>2, <4>3, <1>a
    <3> QED BY <3>1
  <2>5. \A v \in Workers : worker'[v].pc # "batch"
    <3>1. \A v \in Workers : worker[v].pc = "batch" => v = w
      BY <2>1 DEF LeaseInv, SingleRunner, Running
    <3> QED BY <3>1, <1>4, <1>a DEF StoreProgress, Task
  <2> HIDE DEF m
  <2> QED BY <2>1, <2>4, <2>5 DEF SweepInv
<1>5. CASE /\ ~ Create
           /\ \A w \in Workers : ~ LoadBatch(w) /\ ~ VisitDocument(w) /\ ~ StoreProgress(w)
  <2>1. job'.last = job.last
    BY <1>5, CursorMoves
  <2>2. UNCHANGED visited /\ stayed' \subseteq stayed /\ stayed' \subseteq box'
    <3>1. ASSUME NEW d \in Docs, LeaveBox(d) \/ EnterBox(d)
          PROVE  UNCHANGED visited /\ stayed' \subseteq stayed /\ stayed' \subseteq box'
      BY <3>1, <1>a DEF LeaveBox, EnterBox
    <3>2. ASSUME UNCHANGED <<box, stayed, visited>>
          PROVE  UNCHANGED visited /\ stayed' \subseteq stayed /\ stayed' \subseteq box'
      BY <3>2, <1>a
    <3>3. ASSUME NEW w \in Workers, TaskStep(w) \/ BatchFails(w) \/ WorkerDies(w) \/ ContinueUnsent(w)
          PROVE  UNCHANGED <<box, stayed, visited>>
      BY <3>3, <1>5 DEF TaskStep, ReceivePlain, ReceiveToken, LoadStale, CompleteEmpty,
         Refresh, CompleteCounted, ReleaseLease, Continue, BatchFails, WorkerDies, ContinueUnsent
    <3>4. ASSUME \/ MessageLost \/ ResumeUndone \/ Cancel \/ Tick \/ UNCHANGED vars
                 \/ \E r \in Resumers : ResumeStep(r) \/ ResumerDies(r) \/ ResumeUnsent(r)
          PROVE  UNCHANGED <<box, stayed, visited>>
      BY <3>4 DEF MessageLost, ResumeUndone, Cancel, Tick, vars, ResumeStep,
         FindResumable, ResumeClaim, ResumeQueued, ResumerDies, ResumeUnsent
    <3> QED BY <1>5, <3>1, <3>2, <3>3, <3>4 DEF Next
  <2> QED BY <1>5, <2>1, <2>2, BatchesKept, SweepKept
<1> QED BY <1>1, <1>2, <1>3, <1>4, <1>5

-----------------------------------------------------------------------------
(***************************************************************************)
(* The refinement, one abstract action for each that is not a stutter.     *)
(***************************************************************************)

SweepVars == <<Phase(job.status), {w \in Workers : Running(w)}, job.last, visited, stayed>>

\* Who works is the same if nobody enters or leaves the steps of a batch.
LEMMA SameSweeper ==
    ASSUME \A v \in Workers : Running(v)' <=> Running(v)
    PROVE  {w \in Workers : Running(w)}' = {w \in Workers : Running(w)}
OBVIOUS

\* A claim: the job is open, and nobody else is at work.
LEMMA ClaimTakes ==
    ASSUME TypeOK, LeaseInv, NEW w \in Workers, NEW t \in Tokens, Claim(w, t),
           \A v \in Workers : Running(v) => worker[v].token # t,
           UNCHANGED <<visited, stayed>>
    PROVE  Sweep!Take(w) \/ UNCHANGED SweepVars
<1>a. job \in Row /\ worker \in [Workers -> Task]
  BY TypeOKParts
<1>1. CASE MayClaim(job, t)
  <2> DEFINE u == [IdleWorker EXCEPT !.pc = "claimed", !.token = t, !.left = TaskLimit]
  <2>1. \A v \in Workers : ~ Running(v)
    BY <1>1, ClaimFindsNoRunner
  <2>2. worker' = [worker EXCEPT ![w] = u] /\ job' = Claimed(job, t)
    BY <1>1 DEF Claim
  <2>3. u.pc = "claimed"
    BY DEF IdleWorker
  <2> HIDE DEF u
  <2>4. \A v \in Workers : Running(v)' <=> v = w
    BY <2>1, <2>2, <2>3, <1>a DEF Running
  <2>5. {v \in Workers : Running(v)} = {} /\ {v \in Workers : Running(v)}' = {w}
    BY <2>1, <2>4
  <2>6. job.status \in Open /\ job'.status = "running" /\ job'.last = job.last
    BY <1>1, <2>2, <1>a DEF MayClaim, Claimed, Row
  <2>7. Phase(job.status) = "open" /\ Phase(job.status)' = "open"
    BY <2>6 DEF Phase, Open
  <2> QED BY <2>5, <2>6, <2>7 DEF Sweep!Take
<1>2. CASE ~ MayClaim(job, t)
  <2>1. UNCHANGED <<job, worker>>
    BY <1>2 DEF Claim
  <2> QED BY <2>1 DEF SweepVars, Running
<1> QED BY <1>1, <1>2

\* A worker leaves its batch: nobody works on, and the job may have ended.
LEMMA LeavingDrops ==
    ASSUME TypeOK, LeaseInv, NEW w \in Workers, Running(w),
           \A v \in Workers : v # w => worker'[v] = worker[v],
           ~ Running(w)', UNCHANGED <<visited, stayed>>, job'.last = job.last,
           job'.status = job.status \/ job'.status \in Finished
    PROVE  Sweep!Drop
<1>1. \A v \in Workers : Running(v) <=> v = w
  BY DEF LeaseInv, SingleRunner
<1>2. \A v \in Workers : ~ Running(v)'
  BY <1>1 DEF Running
<1>3. {v \in Workers : Running(v)} # {} /\ {v \in Workers : Running(v)}' = {}
  BY <1>1, <1>2
<1>4. Phase(job.status)' \in {Phase(job.status), "ended"}
  BY DEF Phase, Finished, Open
<1> QED BY <1>3, <1>4 DEF Sweep!Drop

\* Every step of the job is a step of the sweep, or none.
LEMMA SweepStep ==
    ASSUME TypeOK, LeaseInv, CursorInv, SweepInv, [Next]_vars
    PROVE  Sweep!Next \/ UNCHANGED SweepVars
<1>a. /\ job \in Row /\ worker \in [Workers -> Task] /\ resumer \in [Resumers -> Resume]
      /\ Fresh \subseteq Tokens /\ "web" \in Resumers
      /\ box \subseteq Docs /\ stayed \subseteq Docs /\ Docs \subseteq Nat \ {0}
      /\ job.last \in Nat
  BY TypeOKParts, ConstantsAssumption DEF Fresh, Resumers, TypeOK, ConstantsAssumption, Row
<1>b. UNCHANGED worker => {w \in Workers : Running(w)}' = {w \in Workers : Running(w)}
  BY DEF Running
<1>1. CASE Create
  <2>1. /\ Phase(job.status) = "none" /\ Phase(job.status)' = "open"
    BY <1>1 DEF Create, Phase, NoJob, Open
  <2>2. stayed' \in SUBSET Docs /\ UNCHANGED <<visited, worker>>
    BY <1>1, <1>a DEF Create
  <2>3. job'.last = job.last
    BY <1>1 DEF Create, NoJob, CursorInv
  <2>4. Sweep!Begin
    BY <2>1, <2>2, <2>3, <1>b DEF Sweep!Begin
  <2> QED BY <2>4 DEF Sweep!Next
<1>2. ASSUME NEW d \in Docs, LeaveBox(d) PROVE Sweep!Next
  <2>1. Sweep!Leave(d)
    BY <1>2, <1>b DEF LeaveBox, Sweep!Leave, Phase, Open
  <2> QED BY <2>1 DEF Sweep!Next
<1>3. ASSUME NEW d \in Docs, EnterBox(d) PROVE UNCHANGED SweepVars
  BY <1>3, <1>b DEF EnterBox, SweepVars
<1>4. ASSUME NEW w \in Workers, TaskStep(w) \/ BatchFails(w) \/ WorkerDies(w) \/ ContinueUnsent(w)
      PROVE  Sweep!Next \/ UNCHANGED SweepVars
  <2>1. CASE ReceivePlain(w)
    <3>1. PICK t \in Fresh : Claim(w, t)
      BY <2>1 DEF ReceivePlain
    <3>2. t \in Tokens /\ \A v \in Workers : Running(v) => worker[v].token # t
      BY <3>1, FreshIsNew, <1>a
    <3>3. Sweep!Take(w) \/ UNCHANGED SweepVars
      BY <2>1, <3>1, <3>2, ClaimTakes DEF ReceivePlain
    <3> QED BY <3>3 DEF Sweep!Next
  <2>2. CASE ReceiveToken(w)
    <3>1. PICK t \in queue : Claim(w, t)
      BY <2>2 DEF ReceiveToken
    <3>2. t \in Tokens /\ \A v \in Workers : Running(v) => worker[v].token # t
      BY <3>1 DEF TypeOK, LeaseInv, RunnerTokenIsPrivate
    <3>3. Sweep!Take(w) \/ UNCHANGED SweepVars
      BY <2>2, <3>1, <3>2, ClaimTakes DEF ReceiveToken
    <3> QED BY <3>3 DEF Sweep!Next
  <2>3. CASE LoadBatch(w)
    <3>1. /\ UNCHANGED <<visited, stayed>> /\ job'.last = job.last
          /\ job.status \in Open /\ job'.status = "running"
      BY <2>3, <1>a DEF LoadBatch, Row
    <3>2. \A v \in Workers : Running(v)' <=> Running(v)
      BY <2>3, <1>a DEF LoadBatch, Running, Task
    <3>3. Phase(job.status)' = Phase(job.status)
      BY <3>1 DEF Phase, Open
    <3> QED BY <3>1, <3>2, <3>3, SameSweeper DEF SweepVars
  <2>4. CASE LoadStale(w)
    <3>1. Running(w) /\ ~ Running(w)'
      BY <2>4, <1>a DEF LoadStale, Running, Task
    <3>2. \A v \in Workers : v # w => worker'[v] = worker[v]
      BY <2>4, <1>a DEF LoadStale
    <3>3. Sweep!Drop
      BY <2>4, <3>1, <3>2, LeavingDrops DEF LoadStale
    <3> QED BY <3>3 DEF Sweep!Next
  <2>5. CASE CompleteEmpty(w) \/ CompleteCounted(w) \/ BatchFails(w)
    <3>1. PICK s \in Finished : job' = Ended(job, s)
      BY <2>5 DEF CompleteEmpty, CompleteCounted, BatchFails, Finished
    <3>2. job'.status \in Finished /\ job'.last = job.last
      BY <3>1, <1>a DEF Ended, Row
    <3>3. Running(w) /\ Finish(w) /\ UNCHANGED <<visited, stayed>>
      BY <2>5 DEF CompleteEmpty, CompleteCounted, BatchFails, Running
    <3>4. ~ Running(w)' /\ \A v \in Workers : v # w => worker'[v] = worker[v]
      BY <3>3, <1>a DEF Finish, Running, IdleWorker
    <3>5. Sweep!Drop
      BY <3>2, <3>3, <3>4, LeavingDrops
    <3> QED BY <3>5 DEF Sweep!Next
  <2>6. CASE VisitDocument(w)
    <3> DEFINE d == MinOf(worker[w].todo)
    <3>1. /\ worker[w].pc = "batch" /\ worker[w].todo \in SUBSET Docs /\ worker[w].todo # {}
          /\ visited' = visited \cup {d} /\ UNCHANGED <<job, stayed>>
      BY <2>6, <1>a DEF VisitDocument, Task
    <3>2. d \in worker[w].todo
      BY <3>1, SmallestExists
    <3>3. d \in Docs /\ job.last < d
      BY <3>1, <3>2 DEF SweepInv, CursorInv
    <3>4. \A v \in Workers : Running(v)' <=> Running(v)
      BY <2>6, <1>a DEF VisitDocument, Running, Task
    <3>5. {v \in Workers : Running(v)} # {}
      BY <3>1 DEF Running
    <3> HIDE DEF d
    <3>6. Sweep!Visit(d)
      BY <3>1, <3>3, <3>4, <3>5, SameSweeper DEF Sweep!Visit
    <3> QED BY <3>3, <3>6 DEF Sweep!Next
  <2>7. CASE StoreProgress(w)
    <3> DEFINE m == MaxOf(worker[w].ids)
    <3>1. /\ worker[w].pc = "batch" /\ worker[w].ids \in SUBSET Docs /\ worker[w].ids # {}
          /\ UNCHANGED <<visited, stayed>> /\ job'.last = m /\ job'.status = job.status
      BY <2>7, <1>a DEF StoreProgress, Task, Row
    <3>2. m \in worker[w].ids /\ m \in Docs
      BY <3>1, MaxOfIsLargest
    <3>3. job.last < m
      BY <3>1, <3>2 DEF CursorInv
    <3>4. \A d \in stayed : d <= m => d \in visited
      <4>1. SweepInv'
        BY SweepInvStep
      <4> QED BY <4>1, <3>1 DEF SweepInv
    <3>5. \A v \in Workers : Running(v)' <=> Running(v)
      BY <2>7, <1>a DEF StoreProgress, Running, Task
    <3>6. {v \in Workers : Running(v)} # {}
      BY <3>1 DEF Running
    <3> HIDE DEF m
    <3>7. Sweep!Advance(m)
      BY <3>1, <3>3, <3>4, <3>5, <3>6, SameSweeper DEF Sweep!Advance
    <3> QED BY <3>2, <3>7 DEF Sweep!Next
  <2>8. CASE Refresh(w)
    <3>1. \A v \in Workers : Running(v)' <=> Running(v)
      BY <2>8, <1>a DEF Refresh, Running, Task
    <3> QED BY <2>8, <3>1, SameSweeper DEF Refresh, SweepVars
  <2>9. CASE ReleaseLease(w)
    <3>1. /\ job'.status = job.status /\ job'.last = job.last /\ UNCHANGED <<visited, stayed>>
      BY <2>9, <1>a DEF ReleaseLease, Row
    <3>2. Running(w) /\ ~ Running(w)' /\ \A v \in Workers : v # w => worker'[v] = worker[v]
      BY <2>9, <1>a DEF ReleaseLease, Running, Task
    <3>3. Sweep!Drop
      BY <3>1, <3>2, LeavingDrops
    <3> QED BY <3>3 DEF Sweep!Next
  <2>10. CASE Continue(w) \/ WorkerDies(w) \/ ContinueUnsent(w)
    <3>1. Finish(w) /\ UNCHANGED <<job, visited, stayed>>
      BY <2>10 DEF Continue, WorkerDies, ContinueUnsent
    <3>2. ~ Running(w)' /\ \A v \in Workers : v # w => worker'[v] = worker[v]
      BY <3>1, <1>a DEF Finish, Running, IdleWorker
    <3>3. CASE Running(w)
      <4>1. Sweep!Drop
        BY <3>1, <3>2, <3>3, LeavingDrops
      <4> QED BY <4>1 DEF Sweep!Next
    <3>4. CASE ~ Running(w)
      <4>1. \A v \in Workers : Running(v)' <=> Running(v)
        BY <3>2, <3>4 DEF Running
      <4> QED BY <3>1, <4>1, SameSweeper DEF SweepVars
    <3> QED BY <3>3, <3>4
  <2> QED BY <1>4, <2>1, <2>2, <2>3, <2>4, <2>5, <2>6, <2>7, <2>8, <2>9, <2>10 DEF TaskStep
<1>5. CASE MessageLost
  BY <1>5, <1>b DEF MessageLost, SweepVars
<1>6. ASSUME NEW r \in Resumers, ResumeStep(r) \/ ResumerDies(r) \/ ResumeUnsent(r)
      PROVE  UNCHANGED SweepVars
  <2>1. UNCHANGED <<worker, visited, stayed>>
    BY <1>6 DEF ResumeStep, FindResumable, ResumeClaim, ResumeQueued, ResumerDies, ResumeUnsent
  <2>2. UNCHANGED job \/ \E t \in Tokens : MayClaim(job, t) /\ job' = Claimed(job, t)
    BY <1>6, <1>a DEF ResumeStep, FindResumable, ResumeClaim, ResumeQueued, ResumerDies, ResumeUnsent
  <2>3. Phase(job.status)' = Phase(job.status) /\ job'.last = job.last
    BY <2>2, <1>a DEF MayClaim, Claimed, Row, Phase, Open
  <2> QED BY <2>1, <2>3, <1>b DEF SweepVars
<1>7. CASE ResumeUndone
  <2>1. /\ UNCHANGED <<worker, visited, stayed>> /\ resumer["web"].pc = "claimed"
        /\ job' = Restored(job, resumer["web"].token, resumer["web"].snap)
    BY <1>7 DEF ResumeUndone
  <2>2. resumer["web"].token \in Tokens
    BY <2>1, <1>a DEF TypeOK
  <2>3. job'.last = job.last /\ (job' = job \/ (job.status \in Open /\ job'.status \in Open))
    BY <2>1, <2>2, <1>a, ConstantsAssumption
       DEF Restored, Row, LeaseInv, LeasedIsRunning, ConstantsAssumption, Open
  <2>4. Phase(job.status)' = Phase(job.status)
    BY <2>3 DEF Phase, Open
  <2> QED BY <2>1, <2>3, <2>4, <1>b DEF SweepVars
<1>8. CASE Cancel
  <2>1. /\ UNCHANGED <<worker, visited, stayed>> /\ job.status # "absent"
        /\ job'.status = "failed" /\ job'.last = job.last
    BY <1>8, <1>a DEF Cancel, Ended, Row
  <2>2. Phase(job.status) # "none" /\ Phase(job.status)' = "ended"
    BY <2>1 DEF Phase, Open
  <2>3. Sweep!End
    BY <2>1, <2>2, <1>b DEF Sweep!End
  <2> QED BY <2>3 DEF Sweep!Next
<1>9. CASE Tick
  <2>1. \A v \in Workers : Running(v)' <=> Running(v)
    BY <1>9, <1>a DEF Tick, Running, Task
  <2>2. job'.status = job.status /\ job'.last = job.last /\ UNCHANGED <<visited, stayed>>
    BY <1>9, <1>a DEF Tick, Older, Row
  <2> QED BY <2>1, <2>2, SameSweeper DEF SweepVars
<1>10. CASE UNCHANGED vars
  BY <1>10, <1>b DEF vars, SweepVars
<1> QED BY <1>1, <1>2, <1>3, <1>4, <1>5, <1>6, <1>7, <1>8, <1>9, <1>10 DEF Next

LEMMA SweepBegins == Init => Sweep!Init
<1> SUFFICES ASSUME Init PROVE Sweep!Init
  OBVIOUS
<1>1. {w \in Workers : Running(w)} = {}
  BY DEF Init, Running, IdleWorker
<1> QED BY <1>1 DEF Init, Sweep!Init, NoJob, Phase

\* With a lease longer than the task limit the job with its messages, leases,
\* faults, resumes and cancellations is one sweep over the box.
THEOREM JobIsOneSweep ==
    ASSUME TaskLimit < Lease
    PROVE  Spec => JobSweeps
<1>1. Init => Sweep!Init /\ TypeOK /\ LeaseInv /\ CursorInv /\ SweepInv
  BY SweepBegins, TypeOKInit, LeaseInvInit, CursorInvInit, SweepInvInit
<1>2. TypeOK /\ LeaseInv /\ CursorInv /\ SweepInv /\ [Next]_vars
        => (TypeOK /\ LeaseInv /\ CursorInv /\ SweepInv)'
  BY TypeOKStep, LeaseInvStep, CursorInvStep, SweepInvStep
<1>3. TypeOK /\ LeaseInv /\ CursorInv /\ SweepInv /\ [Next]_vars
        => [Sweep!Next]_(Sweep!vars)
  BY SweepStep DEF SweepVars, Sweep!vars
<1> QED BY <1>1, <1>2, <1>3, PTL DEF Spec, JobSweeps, Sweep!Spec

-----------------------------------------------------------------------------
(***************************************************************************)
(* A completed job.  It may complete for two reasons: no id is left ahead  *)
(* of the cursor, or the counter has reached the total.  The first needs   *)
(* that no id of the beginning lies above max_document_id, the second that *)
(* no document is counted twice.                                           *)
(***************************************************************************)

\* What lies behind the cursor and was worked on.
Through == {d \in visited : d <= job.last}

CoverInv ==
    /\ CompletedMeansCovered
    /\ job.total = Cardinality(created)
    /\ stayed \subseteq created
    /\ \A d \in created : d <= job.max
    /\ job.processed <= Cardinality(Through)
    /\ \A w \in Workers :
          /\ worker[w].pc = "closing" => worker[w].processed <= Cardinality(Through)
          /\ worker[w].pc = "batch" /\ worker[w].ids = {} => \A d \in stayed : d <= job.last

LEMMA CoverInvInit == Init => CoverInv
<1> SUFFICES ASSUME Init PROVE CoverInv
  OBVIOUS
<1>1. Through = {}
  BY DEF Init, Through
<1>2. Cardinality({}) = 0
  BY FS_EmptySet
<1> QED BY <1>1, <1>2 DEF Init, CoverInv, CompletedMeansCovered, NoJob, IdleWorker

\* A step that stores nothing, reads nothing and completes nothing.
LEMMA CoverKept ==
    ASSUME CoverInv, UNCHANGED <<visited, created>>, stayed' \subseteq stayed,
           job'.total = job.total, job'.processed = job.processed,
           job'.last = job.last, job'.max = job.max,
           job'.status = "completed" => job.status = "completed",
           \A w \in Workers :
              /\ worker'[w].pc = "closing" =>
                    worker[w].pc = "closing" /\ worker'[w].processed = worker[w].processed
              /\ worker'[w].pc = "batch" =>
                    worker[w].pc = "batch" /\ worker'[w].ids = worker[w].ids
    PROVE  CoverInv'
<1>1. Through' = Through
  BY DEF Through
<1> QED BY <1>1 DEF CoverInv, CompletedMeansCovered

\* What was worked on behind the cursor is a finite set of documents.
LEMMA ThroughIsFinite ==
    ASSUME TypeOK
    PROVE  /\ Through \subseteq visited /\ visited \subseteq Docs
           /\ IsFiniteSet(visited) /\ IsFiniteSet(Through)
           /\ Cardinality(Through) \in Nat /\ Cardinality(Through) <= Cardinality(visited)
           /\ Cardinality(visited) \in Nat
<1>1. visited \subseteq Docs /\ Through \subseteq visited /\ IsFiniteSet(Docs)
  BY ConstantsAssumption DEF ConstantsAssumption, TypeOK, Through
<1>2. IsFiniteSet(visited)
  BY <1>1, FS_Subset
<1> QED BY <1>1, <1>2, FS_Subset, FS_CardinalityType

\* A batch without ids: the box has nothing ahead of the cursor.
LEMMA EmptyBatchMeansNothingAhead ==
    ASSUME NEW row \in Row, box \subseteq Docs, NextIds(row) = {}, NEW d \in box, row.last < d
    PROVE  ~ (d <= row.max)
<1> DEFINE ahead == {x \in box : row.last < x /\ x <= row.max}
<1> SUFFICES ASSUME d <= row.max PROVE FALSE
  OBVIOUS
<1>1. Docs \subseteq Nat /\ IsFiniteSet(Docs) /\ BatchSize \in Nat \ {0}
  BY ConstantsAssumption DEF ConstantsAssumption
<1>2. d \in ahead /\ ahead \in SUBSET Docs
  OBVIOUS
<1>3. PICK m \in ahead : \A x \in ahead : m <= x
  <2> HIDE DEF ahead
  <2>1. PICK m \in ahead : \A x \in ahead : ~ (<<x, m>> \in OpToRel(<, Nat))
    BY <1>1, <1>2, NatLessThanWellFounded, WFMin
  <2>2. \A x, y \in Nat : x < y => <<x, y>> \in OpToRel(<, Nat)
    BY DEF OpToRel
  <2>3. \A x \in ahead : ~ (x < m)
    BY <1>1, <1>2, <2>1, <2>2
  <2> QED BY <1>1, <1>2, <2>3
<1>4. {x \in ahead : x < m} = {}
  <2>1. ahead \subseteq Nat
    BY <1>1, <1>2
  <2> HIDE DEF ahead
  <2>2. ASSUME NEW x \in ahead, x < m PROVE FALSE
    <3>1. x \in Nat /\ m \in Nat /\ m <= x
      BY <2>1, <1>3
    <3> QED BY <2>2, <3>1
  <2> QED BY <2>2
<1>5. Cardinality({x \in ahead : x < m}) = 0
  BY <1>4, FS_EmptySet
<1>6. m \in NextIds(row)
  <2>1. Cardinality({x \in ahead : x < m}) < BatchSize
    BY <1>1, <1>5
  <2> QED BY <1>3, <2>1 DEF NextIds
<1> QED BY <1>6

\* A batch that stores its progress counts only what it has worked on, and
\* nothing that was counted before.
LEMMA StoringCounts ==
    ASSUME TypeOK, LeaseInv, CursorInv, SweepInv, CoverInv,
           NEW w \in Workers, StoreProgress(w)
    PROVE  CoverInv'
<1> DEFINE ids == worker[w].ids
           m == MaxOf(ids)
           c == Cardinality(ids)
<1>a. job \in Row /\ worker \in [Workers -> Task] /\ Docs \subseteq Nat /\ IsFiniteSet(Docs)
  BY TypeOKParts, ConstantsAssumption DEF ConstantsAssumption
<1>b. job.last \in Nat /\ job.processed \in Nat
  BY <1>a DEF Row
<1>1. /\ worker[w].pc = "batch" /\ ids \in SUBSET Docs /\ ids # {} /\ worker[w].todo = {}
      /\ UNCHANGED <<visited, created, stayed>>
  BY <1>a DEF StoreProgress, Task
<1>2. /\ ids \subseteq visited /\ worker[w].processed = job.processed
      /\ \A d \in ids : job.last < d
  BY <1>1 DEF SweepInv, CursorInv
<1>3. m \in ids /\ m \in Nat /\ \A d \in ids : d <= m
  BY <1>1, <1>a, MaxOfIsLargest
<1>4. IsFiniteSet(ids) /\ c \in Nat
  BY <1>1, <1>a, FS_Subset, CardinalityIsNat
<1>5. /\ job'.processed = job.processed + c /\ job'.last = m /\ job'.total = job.total
      /\ job'.max = job.max /\ job'.status = job.status
  <2>1. job' = [job EXCEPT !.processed = job.processed + c, !.last = m, !.age = 0]
    BY <1>2 DEF StoreProgress
  <2> HIDE DEF m, c
  <2> QED BY <2>1, <1>a DEF Row
<1> HIDE DEF ids
<1>6. IsFiniteSet(visited) /\ visited \subseteq Docs /\ Through \subseteq visited
      /\ IsFiniteSet(Through) /\ Cardinality(Through) \in Nat
  BY ThroughIsFinite
<1>7. Cardinality(Through \cup ids) = Cardinality(Through) + c
  <2>1. Through \cap ids = {}
    <3>1. ASSUME NEW d \in Through, d \in ids PROVE FALSE
      <4>1. d \in Nat /\ job.last < d /\ d <= job.last
        BY <3>1, <1>1, <1>2, <1>a DEF Through
      <4> QED BY <4>1, <1>b
    <3> QED BY <3>1
  <2>2. Cardinality(Through \cap ids) = 0
    BY <2>1, FS_EmptySet
  <2>3. Cardinality(Through \cup ids) = Cardinality(Through) + c - Cardinality(Through \cap ids)
    BY <1>4, <1>6, FS_Union
  <2> HIDE DEF c
  <2> QED BY <2>2, <2>3, <1>4, <1>6
<1>8. Through' = {d \in visited : d <= m}
  BY <1>1, <1>5 DEF Through
<1>9. Through \cup ids \subseteq Through'
  <2>1. ASSUME NEW d \in Through PROVE d <= m
    <3>1. d \in Nat /\ d <= job.last /\ job.last < m
      BY <2>1, <1>6, <1>a, <1>2, <1>3 DEF Through
    <3> HIDE DEF m
    <3> QED BY <3>1, <1>3, <1>b
  <2> QED BY <2>1, <1>2, <1>3, <1>6, <1>8
<1>10. Cardinality(Through) + c <= Cardinality(Through') /\ Cardinality(Through') \in Nat
  <2>1. IsFiniteSet(Through')
    BY <1>6, <1>8, FS_Subset
  <2>2. Cardinality(Through \cup ids) <= Cardinality(Through')
    BY <2>1, <1>9, FS_Subset
  <2> QED BY <2>1, <2>2, <1>7, FS_CardinalityType
<1>11. job'.processed <= Cardinality(Through')
  <2>1. job.processed <= Cardinality(Through)
    BY DEF CoverInv
  <2> HIDE DEF c
  <2> QED BY <2>1, <1>5, <1>10, <1>4, <1>6, <1>b
<1>12. \A v \in Workers : worker'[v].pc \notin {"closing", "batch"}
  <2>1. \A v \in Workers : worker[v].pc \in {"closing", "batch"} => v = w
    BY <1>1 DEF LeaseInv, SingleRunner, Running
  <2> QED BY <2>1, <1>a DEF StoreProgress, Task
<1>13. CompletedMeansCovered'
  BY <1>1, <1>5 DEF CoverInv, CompletedMeansCovered
<1>14. job'.total = Cardinality(created') /\ stayed' \subseteq created'
       /\ \A d \in created' : d <= job'.max
  BY <1>1, <1>5 DEF CoverInv
<1> QED BY <1>11, <1>12, <1>13, <1>14 DEF CoverInv

\* What a completion writes, once it is known that everything was visited.
LEMMA CompletionKeepsCover ==
    ASSUME TypeOK, CoverInv, NEW w \in Workers, Finish(w), job' = Ended(job, "completed"),
           UNCHANGED <<visited, created, stayed>>,
           visited \subseteq created => stayed \subseteq visited
    PROVE  CoverInv'
<1>a. job \in Row /\ worker \in [Workers -> Task]
  BY TypeOKParts
<1>1. /\ job'.total = job.total /\ job'.processed = job.processed
      /\ job'.last = job.last /\ job'.max = job.max
  BY <1>a DEF Ended, Row
<1>2. Through' = Through
  BY <1>1 DEF Through
<1>3. worker'[w].pc = "idle" /\ \A v \in Workers : v # w => worker'[v] = worker[v]
  BY <1>a DEF Finish, IdleWorker
<1>4. CompletedMeansCovered'
  BY DEF CompletedMeansCovered
<1>5. \A v \in Workers :
          /\ worker'[v].pc = "closing" => worker'[v].processed <= Cardinality(Through)
          /\ worker'[v].pc = "batch" /\ worker'[v].ids = {} => \A d \in stayed : d <= job.last
  BY <1>3 DEF CoverInv
<1> QED BY <1>1, <1>2, <1>4, <1>5 DEF CoverInv

\* Steps that leave the counters alone, and complete nothing.
LEMMA OtherStepsOfTheRow ==
    ASSUME TypeOK, LeaseInv, [Next]_vars, ~ Create,
           \A w \in Workers : ~ StoreProgress(w) /\ ~ CompleteEmpty(w) /\ ~ CompleteCounted(w)
    PROVE  /\ job'.total = job.total /\ job'.processed = job.processed
           /\ job'.last = job.last /\ job'.max = job.max
           /\ job'.status = "completed" => job.status = "completed"
<1> DEFINE Same == /\ job'.total = job.total /\ job'.processed = job.processed
                   /\ job'.last = job.last /\ job'.max = job.max
                   /\ job'.status = "completed" => job.status = "completed"
<1>a. /\ job \in Row /\ resumer \in [Resumers -> Resume] /\ "web" \in Resumers
      /\ Fresh \subseteq Tokens /\ queue \subseteq Tokens
  BY TypeOKParts DEF Resumers, Fresh, TypeOK
<1>1. ASSUME UNCHANGED job PROVE Same
  BY <1>1
<1>2. ASSUME NEW t \in Tokens, job' = Claimed(job, t) PROVE Same
  BY <1>2, <1>a DEF Claimed, Row
<1>3. ASSUME job' = Ended(job, "failed") PROVE Same
  BY <1>3, <1>a DEF Ended, Row
<1>4. ASSUME NEW w \in Workers, TaskStep(w) \/ BatchFails(w) \/ WorkerDies(w) \/ ContinueUnsent(w) PROVE Same
  <2>1. CASE ReceivePlain(w) \/ ReceiveToken(w)
    BY <2>1, <1>1, <1>2, <1>a DEF ReceivePlain, ReceiveToken, Claim
  <2>2. CASE LoadBatch(w)
    BY <2>2, <1>a DEF LoadBatch, Row
  <2>3. CASE LoadStale(w) \/ VisitDocument(w) \/ Refresh(w) \/ Continue(w) \/ WorkerDies(w) \/ ContinueUnsent(w)
    BY <2>3 DEF LoadStale, VisitDocument, Refresh, Continue, WorkerDies, ContinueUnsent
  <2>4. CASE ReleaseLease(w)
    BY <2>4, <1>a DEF ReleaseLease, Row
  <2>5. CASE BatchFails(w)
    BY <2>5, <1>3 DEF BatchFails
  <2> QED BY <1>4, <2>1, <2>2, <2>3, <2>4, <2>5 DEF TaskStep
<1>5. ASSUME NEW r \in Resumers, ResumeStep(r) \/ ResumerDies(r) \/ ResumeUnsent(r) PROVE Same
  BY <1>5, <1>1, <1>2, <1>a DEF ResumeStep, FindResumable, ResumeClaim, ResumeQueued, ResumerDies, ResumeUnsent
<1>6. ASSUME ResumeUndone PROVE Same
  <2>1. /\ job' = Restored(job, resumer["web"].token, resumer["web"].snap)
        /\ resumer["web"].snap.status \in Open
    BY <1>6, <1>a DEF ResumeUndone, LeaseInv, LeasedIsRunning
  <2> QED BY <2>1, <1>a DEF Restored, Row, Open
<1>7. ASSUME Cancel PROVE Same
  BY <1>7, <1>3 DEF Cancel
<1>8. ASSUME Tick PROVE Same
  BY <1>8, <1>a DEF Tick, Older, Row
<1>9. ASSUME (\E d \in Docs : LeaveBox(d) \/ EnterBox(d)) \/ MessageLost \/ UNCHANGED vars
      PROVE  Same
  BY <1>9 DEF LeaveBox, EnterBox, MessageLost, vars
<1> HIDE DEF Same
<1>10. Same
  BY <1>4, <1>5, <1>6, <1>7, <1>8, <1>9 DEF Next
<1> QED BY <1>10 DEF Same

\* Who enters a batch or its closing reads the row.
LEMMA ClosingKept ==
    ASSUME TypeOK, [Next]_vars, \A w \in Workers : ~ Refresh(w)
    PROVE  \A v \in Workers : worker'[v].pc = "closing" =>
              worker[v].pc = "closing" /\ worker'[v].processed = worker[v].processed
<1> DEFINE Kept2(v) == worker'[v].pc = "closing" =>
              worker[v].pc = "closing" /\ worker'[v].processed = worker[v].processed
<1>a. worker \in [Workers -> Task] /\ Fresh \subseteq Tokens /\ queue \subseteq Tokens
  BY TypeOKParts DEF Fresh, TypeOK
<1>1. ASSUME UNCHANGED worker, NEW v \in Workers PROVE Kept2(v)
  BY <1>1
<1>2. ASSUME NEW w \in Workers, NEW v \in Workers, Finish(w) PROVE Kept2(v)
  BY <1>2, <1>a DEF Finish, IdleWorker
<1>3. ASSUME NEW w \in Workers, NEW v \in Workers, NEW t \in Tokens, Claim(w, t)
      PROVE  Kept2(v)
  <2> DEFINE u == [IdleWorker EXCEPT !.pc = "claimed", !.token = t, !.left = TaskLimit]
  <2>1. worker' = [worker EXCEPT ![w] = u] \/ UNCHANGED worker
    BY <1>3 DEF Claim
  <2>2. u.pc = "claimed"
    BY DEF IdleWorker
  <2> HIDE DEF u
  <2> QED BY <2>1, <2>2, <1>1, <1>a
<1>4. ASSUME NEW w \in Workers, NEW v \in Workers,
             LoadBatch(w) \/ LoadStale(w) \/ VisitDocument(w) \/ ReleaseLease(w)
      PROVE  Kept2(v)
  <2>1. v # w => worker'[v] = worker[v]
    BY <1>4, <1>a DEF LoadBatch, LoadStale, VisitDocument, ReleaseLease
  <2>2. worker'[w].pc # "closing"
    BY <1>4, <1>a DEF LoadBatch, LoadStale, VisitDocument, ReleaseLease, Task
  <2> QED BY <2>1, <2>2
<1>5. ASSUME NEW w \in Workers, NEW v \in Workers, StoreProgress(w) PROVE Kept2(v)
  BY <1>5, <1>a DEF StoreProgress, Task
<1>6. ASSUME Tick, NEW v \in Workers PROVE Kept2(v)
  BY <1>6, <1>a DEF Tick, Task
<1>7. ASSUME NEW w \in Workers, NEW v \in Workers, TaskStep(w) \/ BatchFails(w) \/ WorkerDies(w) \/ ContinueUnsent(w)
      PROVE  Kept2(v)
  <2>1. CASE ReceivePlain(w) \/ ReceiveToken(w)
    BY <2>1, <1>3, <1>a DEF ReceivePlain, ReceiveToken
  <2>2. CASE CompleteEmpty(w) \/ CompleteCounted(w) \/ Continue(w) \/ BatchFails(w) \/ WorkerDies(w) \/ ContinueUnsent(w)
    BY <2>2, <1>2 DEF CompleteEmpty, CompleteCounted, Continue, BatchFails, WorkerDies, ContinueUnsent
  <2> QED BY <1>7, <2>1, <2>2, <1>4, <1>5 DEF TaskStep
<1>8. ASSUME NEW v \in Workers,
             \/ Create \/ (\E d \in Docs : LeaveBox(d) \/ EnterBox(d)) \/ MessageLost
             \/ \E r \in Resumers : ResumeStep(r) \/ ResumerDies(r) \/ ResumeUnsent(r)
             \/ ResumeUndone \/ Cancel \/ UNCHANGED vars
      PROVE  Kept2(v)
  BY <1>8, <1>1 DEF Create, LeaveBox, EnterBox, MessageLost, ResumeStep, FindResumable,
     ResumeClaim, ResumeQueued, ResumerDies, ResumeUnsent, ResumeUndone, Cancel, vars
<1> HIDE DEF Kept2
<1>9. \A v \in Workers : Kept2(v)
  BY <1>6, <1>7, <1>8 DEF Next
<1> QED BY <1>9 DEF Kept2

LEMMA CoverInvStep ==
    ASSUME TypeOK, LeaseInv, CursorInv, SweepInv, CoverInv, [Next]_vars
    PROVE  CoverInv'
<1>a. /\ job \in Row /\ worker \in [Workers -> Task]
      /\ box \subseteq Docs /\ created \subseteq Docs /\ stayed \subseteq box
      /\ Docs \subseteq Nat \ {0} /\ IsFiniteSet(Docs) /\ visited \subseteq Docs
  BY TypeOKParts, ConstantsAssumption DEF SweepInv, ConstantsAssumption
<1>b. job.last \in Nat /\ job.max \in Nat /\ job.total \in Nat /\ job.processed \in Nat
  BY <1>a DEF Row
<1>1. CASE Create
  <2>1. \A w \in Workers : worker'[w].pc \notin {"batch", "closing"}
    BY <1>1, NobodyEarly DEF Create, Running
  <2> DEFINE top == IF box = {} THEN 0 ELSE MaxOf(box)
  <2>2. /\ job'.status = "queued" /\ job'.total = Cardinality(box) /\ job'.processed = 0
        /\ job'.max = top /\ created' = box /\ stayed' = box /\ visited' = visited
        /\ job'.last = 0
    BY <1>1 DEF Create, NoJob
  <2>3. \A d \in box : d <= top
    BY <1>a, MaxOfIsLargest
  <2> HIDE DEF top
  <2>4. Cardinality(Through') \in Nat
    BY <2>2, <1>a, CardinalityIsNat DEF Through
  <2>5. CompletedMeansCovered'
    BY <2>2 DEF CompletedMeansCovered
  <2>6. 0 <= Cardinality(Through')
    BY <2>4
  <2> QED BY <2>1, <2>2, <2>3, <2>5, <2>6 DEF CoverInv
<1>2. ASSUME NEW w \in Workers, LoadBatch(w) PROVE CoverInv'
  <2>1. /\ UNCHANGED <<box, created, stayed, visited>> /\ job'.last = job.last
        /\ job'.total = job.total /\ job'.processed = job.processed /\ job'.max = job.max
        /\ job'.status = "running"
        /\ worker'[w].pc = "batch" /\ worker'[w].ids = NextIds(job)
        /\ \A v \in Workers : v # w => worker'[v] = worker[v]
    BY <1>2, <1>a DEF LoadBatch, Row, Task
  <2>2. NextIds(job) = {} => \A d \in stayed : d <= job.last
    <3>1. ASSUME NextIds(job) = {}, NEW d \in stayed PROVE d <= job.last
      <4>1. d \in box /\ d \in Nat /\ d <= job.max
        BY <1>a DEF CoverInv
      <4>2. ~ (job.last < d)
        BY <3>1, <4>1, <1>a, EmptyBatchMeansNothingAhead
      <4> QED BY <4>1, <4>2, <1>b
    <3> QED BY <3>1
  <2>3. Through' = Through
    BY <2>1 DEF Through
  <2>4. CompletedMeansCovered'
    BY <2>1 DEF CompletedMeansCovered
  <2>5. \A v \in Workers :
          /\ worker'[v].pc = "closing" => worker'[v].processed <= Cardinality(Through)
          /\ worker'[v].pc = "batch" /\ worker'[v].ids = {} => \A d \in stayed : d <= job.last
    BY <2>1, <2>2 DEF CoverInv
  <2> QED BY <2>1, <2>3, <2>4, <2>5 DEF CoverInv
<1>3. ASSUME NEW w \in Workers, VisitDocument(w) PROVE CoverInv'
  <2> DEFINE d == MinOf(worker[w].todo)
  <2>1. /\ UNCHANGED <<job, created, stayed>> /\ visited' = visited \cup {d}
        /\ \A v \in Workers : /\ worker'[v].pc = worker[v].pc /\ worker'[v].ids = worker[v].ids
                              /\ worker'[v].processed = worker[v].processed
        /\ worker[w].todo # {} /\ worker[w].todo \in SUBSET Docs
    BY <1>3, <1>a DEF VisitDocument, Task
  <2>2. d \in Docs
    BY <2>1, SmallestExists
  <2> HIDE DEF d
  <2>3. Through \subseteq Through' /\ Through' \subseteq Docs
    BY <2>1, <2>2, <1>a DEF Through
  <2>4. Cardinality(Through) <= Cardinality(Through') /\ Cardinality(Through) \in Nat
        /\ Cardinality(Through') \in Nat
    BY <2>3, <1>a, FS_Subset, FS_CardinalityType
  <2>5. job'.processed <= Cardinality(Through')
    BY <2>1, <2>4, <1>b DEF CoverInv
  <2>6. ASSUME NEW v \in Workers, worker'[v].pc = "closing"
        PROVE  worker'[v].processed <= Cardinality(Through')
    <3>1. worker[v].processed <= Cardinality(Through) /\ worker[v].processed \in Nat
      BY <2>1, <2>6, <1>a DEF CoverInv, Task
    <3> QED BY <3>1, <2>1, <2>4
  <2>7. CompletedMeansCovered'
    BY <2>1 DEF CoverInv, CompletedMeansCovered
  <2> QED BY <2>1, <2>5, <2>6, <2>7 DEF CoverInv
<1>4. ASSUME NEW w \in Workers, StoreProgress(w) PROVE CoverInv'
  BY <1>4, StoringCounts
<1>5. ASSUME NEW w \in Workers, Refresh(w) PROVE CoverInv'
  <2>1. /\ UNCHANGED <<job, created, stayed, visited>>
        /\ worker'[w].pc = "closing" /\ worker'[w].processed = job.processed
        /\ \A v \in Workers : v # w => worker'[v] = worker[v]
    BY <1>5, <1>a DEF Refresh, Task
  <2>2. Through' = Through
    BY <2>1 DEF Through
  <2>3. CompletedMeansCovered'
    BY <2>1 DEF CoverInv, CompletedMeansCovered
  <2>4. \A v \in Workers :
          /\ worker'[v].pc = "closing" => worker'[v].processed <= Cardinality(Through)
          /\ worker'[v].pc = "batch" /\ worker'[v].ids = {} => \A d \in stayed : d <= job.last
    BY <2>1 DEF CoverInv
  <2> QED BY <2>1, <2>2, <2>3, <2>4 DEF CoverInv
<1>6. ASSUME NEW w \in Workers, CompleteEmpty(w) PROVE CoverInv'
  <2>1. \A d \in stayed : d <= job.last
    BY <1>6 DEF CompleteEmpty, CoverInv
  <2>2. stayed \subseteq visited
    BY <2>1 DEF SweepInv
  <2> QED BY <1>6, <2>2, CompletionKeepsCover DEF CompleteEmpty
<1>7. ASSUME NEW w \in Workers, CompleteCounted(w) PROVE CoverInv'
  <2>1. Cardinality(created) <= Cardinality(visited)
    <3>1. /\ job.total <= worker[w].processed /\ worker[w].processed <= Cardinality(Through)
          /\ worker[w].processed \in Nat /\ job.total = Cardinality(created)
      BY <1>7, <1>a DEF CompleteCounted, CoverInv, Task
    <3>2. /\ Cardinality(Through) <= Cardinality(visited)
          /\ Cardinality(Through) \in Nat /\ Cardinality(visited) \in Nat
      BY ThroughIsFinite
    <3> QED BY <3>1, <3>2, <1>b
  <2>2. ASSUME visited \subseteq created PROVE stayed \subseteq visited
    <3>1. IsFiniteSet(created) /\ stayed \subseteq created
      BY <1>a, FS_Subset DEF CoverInv
    <3>2. Cardinality(visited) <= Cardinality(created)
      BY <2>2, <3>1, FS_Subset
    <3>3. Cardinality(visited) \in Nat /\ Cardinality(created) \in Nat
      BY <1>a, CardinalityIsNat
    <3>4. Cardinality(created) = Cardinality(visited)
      BY <2>1, <3>2, <3>3
    <3>5. created = visited
      BY <2>2, <3>1, <3>4, FS_Subset
    <3> QED BY <3>1, <3>5
  <2> QED BY <1>7, <2>2, CompletionKeepsCover DEF CompleteCounted
<1>8. CASE /\ ~ Create
           /\ \A w \in Workers : /\ ~ LoadBatch(w) /\ ~ VisitDocument(w) /\ ~ StoreProgress(w)
                                 /\ ~ Refresh(w) /\ ~ CompleteEmpty(w) /\ ~ CompleteCounted(w)
  <2>1. /\ job'.total = job.total /\ job'.processed = job.processed
        /\ job'.last = job.last /\ job'.max = job.max
        /\ job'.status = "completed" => job.status = "completed"
    BY <1>8, OtherStepsOfTheRow
  <2>2. UNCHANGED <<visited, created>> /\ stayed' \subseteq stayed
    <3>1. ASSUME NEW w \in Workers, TaskStep(w) \/ BatchFails(w) \/ WorkerDies(w) \/ ContinueUnsent(w)
          PROVE  UNCHANGED <<visited, created, stayed>>
      BY <3>1, <1>8 DEF TaskStep, ReceivePlain, ReceiveToken, LoadStale,
         ReleaseLease, Continue, BatchFails, WorkerDies, ContinueUnsent
    <3>2. ASSUME NEW d \in Docs, LeaveBox(d) \/ EnterBox(d)
          PROVE  UNCHANGED <<visited, created>> /\ stayed' \subseteq stayed
      BY <3>2 DEF LeaveBox, EnterBox
    <3>3. ASSUME \/ MessageLost \/ ResumeUndone \/ Cancel \/ Tick \/ UNCHANGED vars
                 \/ \E r \in Resumers : ResumeStep(r) \/ ResumerDies(r) \/ ResumeUnsent(r)
          PROVE  UNCHANGED <<visited, created, stayed>>
      BY <3>3 DEF MessageLost, ResumeUndone, Cancel, Tick, vars, ResumeStep,
         FindResumable, ResumeClaim, ResumeQueued, ResumerDies, ResumeUnsent
    <3> QED BY <1>8, <3>1, <3>2, <3>3 DEF Next
  <2>3. \A w \in Workers :
           /\ worker'[w].pc = "closing" =>
                 worker[w].pc = "closing" /\ worker'[w].processed = worker[w].processed
           /\ worker'[w].pc = "batch" =>
                 worker[w].pc = "batch" /\ worker'[w].ids = worker[w].ids
    BY <1>8, ClosingKept, BatchesKept
  <2> QED BY <2>1, <2>2, <2>3, CoverKept
<1> QED BY <1>1, <1>2, <1>3, <1>4, <1>5, <1>6, <1>7, <1>8

\* A job that says completed has worked on every document that was in its box
\* all along, unless documents that came later were counted in their place.
THEOREM CompletedCoversTheBox ==
    ASSUME TaskLimit < Lease
    PROVE  Spec => []CompletedMeansCovered
<1>1. Init => TypeOK /\ LeaseInv /\ CursorInv /\ SweepInv /\ CoverInv
  BY TypeOKInit, LeaseInvInit, CursorInvInit, SweepInvInit, CoverInvInit
<1>2. TypeOK /\ LeaseInv /\ CursorInv /\ SweepInv /\ CoverInv /\ [Next]_vars
        => (TypeOK /\ LeaseInv /\ CursorInv /\ SweepInv /\ CoverInv)'
  BY TypeOKStep, LeaseInvStep, CursorInvStep, SweepInvStep, CoverInvStep
<1>3. CoverInv => CompletedMeansCovered
  BY DEF CoverInv
<1> QED BY <1>1, <1>2, <1>3, PTL DEF Spec

=============================================================================

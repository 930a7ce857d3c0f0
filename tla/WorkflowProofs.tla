--------------------------- MODULE WorkflowProofs ---------------------------
(***************************************************************************)
(* Theorems about the workflow engine, for any documents, boxes, templates *)
(* and steps, however they are edited: its rows refer only to rows that    *)
(* exist, a running instance waits for one task, what is finished stays so *)
(* and what runs moves forward; automatic templates start, and once;       *)
(* waiting tasks wait for something; no ordinary step is left out; and,    *)
(* where no callback is overtaken, workflows run where they are meant to.  *)
(*                                                                         *)
(* What a request writes is a pair of instance and task rows; the proofs   *)
(* are about such pairs, and a request is one or two changes of them.      *)
(***************************************************************************)
EXTENDS Workflow, TLAPS, FiniteSetTheorems, WellFoundedInduction

-----------------------------------------------------------------------------
(***************************************************************************)
(* Numbers of rows.                                                        *)
(***************************************************************************)

\* The rows with the first two components of t: instances of a template for a
\* document, or tasks of an instance for a step.
Same(T, t) == {u \in T : u[1] = t[1] /\ u[2] = t[2]}

\* Rows are numbered as they come, and none is deleted.
Numbered(T) == \A t \in T : t[3] \in Nat /\ t[3] <= Cardinality(Same(T, t))

LEMMA SameCounts ==
    ASSUME NEW T, IsFiniteSet(T), NEW t
    PROVE  IsFiniteSet(Same(T, t)) /\ Cardinality(Same(T, t)) \in Nat
<1>1. Same(T, t) \subseteq T
  BY DEF Same
<1> QED BY <1>1, FS_Subset, FS_CardinalityType

\* The next number is nobody's ...
LEMMA NextNumberIsNew ==
    ASSUME NEW T, IsFiniteSet(T), Numbered(T), NEW t, t[3] = 1 + Cardinality(Same(T, t))
    PROVE  t \notin T
BY SameCounts DEF Numbered

\* ... and rows that take it keep the numbers in order.
LEMMA NumbersGrow ==
    ASSUME NEW T, IsFiniteSet(T), Numbered(T), NEW N, IsFiniteSet(N),
           \A t \in N : t[3] = 1 + Cardinality(Same(T, t))
    PROVE  Numbered(T \cup N)
<1>1. IsFiniteSet(T \cup N)
  BY FS_Union
<1>2. ASSUME NEW t \in T PROVE t[3] \in Nat /\ t[3] <= Cardinality(Same(T \cup N, t))
  <2>1. Same(T, t) \subseteq Same(T \cup N, t)
    BY DEF Same
  <2>2. Cardinality(Same(T, t)) <= Cardinality(Same(T \cup N, t))
    BY <1>1, <2>1, SameCounts, FS_Subset
  <2> QED BY <1>1, <2>2, SameCounts DEF Numbered
<1>3. ASSUME NEW t \in N PROVE t[3] \in Nat /\ t[3] <= Cardinality(Same(T \cup N, t))
  <2>1. t \notin T
    BY <1>3, NextNumberIsNew
  <2>2. Same(T, t) \cup {t} \subseteq Same(T \cup N, t) /\ t \notin Same(T, t)
    BY <1>3, <2>1 DEF Same
  <2>3. Cardinality(Same(T, t) \cup {t}) = Cardinality(Same(T, t)) + 1
    BY <2>2, SameCounts, FS_AddElement
  <2>4. Cardinality(Same(T, t) \cup {t}) <= Cardinality(Same(T \cup N, t))
    BY <1>1, <2>2, SameCounts, FS_Subset
  <2> QED BY <1>1, <1>3, <2>3, <2>4, SameCounts
<1> QED BY <1>2, <1>3 DEF Numbered

-----------------------------------------------------------------------------
(***************************************************************************)
(* Steps and their order.                                                  *)
(***************************************************************************)

OrderOK == DOMAIN order \subseteq Steps /\ order \in [DOMAIN order -> Nat]

LEMMA LeastExists ==
    ASSUME NEW S \in SUBSET Nat, S # {}
    PROVE  \E m \in S : \A x \in S : m <= x
<1>1. PICK m \in S : \A x \in S : ~ (<<x, m>> \in OpToRel(<, Nat))
  BY NatLessThanWellFounded, WFMin
<1>2. \A x, y \in Nat : x < y => <<x, y>> \in OpToRel(<, Nat)
  BY DEF OpToRel
<1>3. \A x \in S : ~ (x < m)
  BY <1>1, <1>2
<1>4. \A x \in S : m <= x
  BY <1>3
<1> QED BY <1>4

\* order_by("sort_order", "id").first() of some steps is one of them.
LEMMA FirstOfExists ==
    ASSUME OrderOK, NEW S \in SUBSET DOMAIN order, S # {}
    PROVE  /\ FirstOf(S) \in S
           /\ \A u \in S : \/ order[FirstOf(S)] < order[u]
                           \/ order[FirstOf(S)] = order[u] /\ FirstOf(S) <= u
<1>1. \A s \in S : order[s] \in Nat /\ s \in Nat
  BY ConstantsAssumption DEF OrderOK, ConstantsAssumption
<1> DEFINE R == {order[s] : s \in S}
<1>2. PICK m \in R : \A x \in R : m <= x
  <2>1. R \subseteq Nat /\ R # {}
    BY <1>1
  <2> HIDE DEF R
  <2> QED BY <2>1, LeastExists
<1> DEFINE A == {s \in S : order[s] = m}
<1>3. PICK f \in A : \A x \in A : f <= x
  <2>1. A \subseteq Nat /\ A # {}
    BY <1>1, <1>2
  <2> HIDE DEF A
  <2> QED BY <2>1, LeastExists
<1>4. f \in S /\ \A u \in S : order[f] < order[u] \/ (order[f] = order[u] /\ f <= u)
  <2>1. f \in S /\ order[f] = m /\ m \in Nat
    BY <1>1, <1>3
  <2>2. ASSUME NEW u \in S PROVE order[f] < order[u] \/ (order[f] = order[u] /\ f <= u)
    <3>1. m <= order[u] /\ order[u] \in Nat
      BY <1>1, <1>2
    <3>2. CASE order[u] = m
      BY <2>1, <3>2, <1>3
    <3>3. CASE order[u] # m
      BY <2>1, <3>1, <3>3
    <3> QED BY <3>2, <3>3
  <2> QED BY <2>1, <2>2
<1> QED BY <1>4 DEF FirstOf

LEMMA StepsAreIds ==
    ASSUME OrderOK, NEW s \in DOMAIN order
    PROVE  /\ s \in Nat /\ s # NoStep /\ s \in Steps /\ order[s] \in Nat
           /\ Later(s) \subseteq DOMAIN order /\ Path(s) \subseteq DOMAIN order
           /\ Config[s].template \in Templates /\ Config[s].kind \in Kinds
           /\ Config[s].done \in BOOLEAN /\ Config[s].min \in Nat
<1>1. s \in Steps /\ s \in Nat /\ NoStep \notin Steps /\ order[s] \in Nat
  BY ConstantsAssumption DEF OrderOK, ConstantsAssumption
<1>2. Config[s] \in [template : Templates, kind : Kinds,
                     boxes : SUBSET Boxes, done : BOOLEAN, min : Nat]
  BY <1>1, ConstantsAssumption DEF ConstantsAssumption
<1>3. Later(s) \subseteq DOMAIN order
  BY DEF Later, StepsOf
<1>4. Path(s) \subseteq DOMAIN order
  BY <1>3 DEF Path
<1> QED BY <1>1, <1>2, <1>3, <1>4

\* Where an instance goes on from s: to a later step of the same template ...
LEMMA NextStepIsLater ==
    ASSUME OrderOK, NEW s \in DOMAIN order, NextStep(s) # NoStep
    PROVE  /\ NextStep(s) \in DOMAIN order
           /\ Config[NextStep(s)].template = Config[s].template
           /\ order[s] < order[NextStep(s)]
<1>1. Later(s) \subseteq DOMAIN order
  BY StepsAreIds
<1>2. Later(s) # {}
  BY DEF NextStep, FirstOf
<1>3. NextStep(s) \in Later(s)
  BY <1>1, <1>2, FirstOfExists DEF NextStep
<1> QED BY <1>1, <1>3, StepsAreIds DEF Later, StepsOf

\* ... and it stops at one that is not satisfied, on the way from there.
LEMMA LandingIsOnThePath ==
    ASSUME OrderOK, NEW s \in DOMAIN order, NEW d, NEW rel, NEW inst,
           Landing(s, d, rel, inst) # NoStep
    PROVE  /\ Landing(s, d, rel, inst) \in Path(s)
           /\ Landing(s, d, rel, inst) \in DOMAIN order
           /\ Config[Landing(s, d, rel, inst)].template = Config[s].template
           /\ order[s] <= order[Landing(s, d, rel, inst)]
           /\ ~ Satisfied(Landing(s, d, rel, inst), d, rel, inst)
<1> DEFINE W == {u \in Path(s) : ~ Satisfied(u, d, rel, inst)}
           l == Landing(s, d, rel, inst)
<1>1. Path(s) \subseteq DOMAIN order /\ s # NoStep
  BY StepsAreIds
<1>2. l = FirstOf(W)
  BY <1>1 DEF Landing
<1>3. W # {}
  BY <1>2 DEF FirstOf
<1>4. l \in W
  <2>1. W \in SUBSET DOMAIN order
    BY <1>1
  <2> HIDE DEF W, l
  <2> QED BY <1>2, <1>3, <2>1, FirstOfExists
<1>5. l \in Path(s) /\ ~ Satisfied(l, d, rel, inst)
  BY <1>4
<1> HIDE DEF W, l
<1>6. l = s \/ l \in Later(s)
  BY <1>5 DEF Path
<1>7. order[s] \in Nat /\ order[l] \in Nat
  BY <1>1, <1>5, StepsAreIds
<1>8. Config[l].template = Config[s].template /\ order[s] <= order[l]
  BY <1>6, <1>7 DEF Later, StepsOf
<1> QED BY <1>1, <1>5, <1>8 DEF l

-----------------------------------------------------------------------------
(***************************************************************************)
(* Rows.  S is the set of the steps that exist.                            *)
(***************************************************************************)

InstanceRow(S) == [status : {"running", "completed", "cancelled"}, current : S \cup {NoStep}]

OpenOf(db, i) == {t \in DOMAIN db.task : t[1] = i /\ db.task[t] = "open"}

InstancesTyped(db, S) ==
    /\ IsFiniteSet(DOMAIN db.instance) /\ DOMAIN db.instance \subseteq InstanceIds
    /\ db.instance \in [DOMAIN db.instance -> InstanceRow(S)]

TasksTyped(db, S) ==
    /\ IsFiniteSet(DOMAIN db.task)
    /\ DOMAIN db.task \subseteq (DOMAIN db.instance) \X S \X Nat
    /\ db.task \in [DOMAIN db.task -> {"open", "completed", "cancelled"}]
    /\ \A t \in DOMAIN db.task : Config[t[2]].template = t[1][1]

WaitsForOne(db) ==
    \A i \in DOMAIN db.instance :
        IF db.instance[i].status = "running"
        THEN \E t \in OpenOf(db, i) : OpenOf(db, i) = {t} /\ t[2] = db.instance[i].current
        ELSE OpenOf(db, i) = {} /\ db.instance[i].current = NoStep

Sound(db, S) ==
    /\ db = [instance |-> db.instance, task |-> db.task]
    /\ InstancesTyped(db, S) /\ TasksTyped(db, S)
    /\ Numbered(DOMAIN db.instance) /\ Numbered(DOMAIN db.task)
    /\ WaitsForOne(db)

\* The engine takes the instances D one step on: those there are have their
\* open task completed, the new ones begin with the first step.
Target(db, i, rel) ==
    Landing(IF i \in DOMAIN db.instance THEN NextStep(db.instance[i].current)
                                        ELSE FirstOf(StepsOf(i[1])),
            i[2], rel, db.instance)

Stepped(db, D, rel) ==
    Advance(db, [i \in D |-> Target(db, i, rel)],
            {t \in DOMAIN db.task : t[1] \in D /\ db.task[t] = "open"})

Steppable(db, D) ==
    /\ IsFiniteSet(D) /\ D \subseteq InstanceIds
    /\ \A i \in D : IF i \in DOMAIN db.instance
                    THEN db.instance[i].status = "running"
                    ELSE i[3] = 1 + Cardinality(Same(DOMAIN db.instance, i))

\* Where an instance goes is a step of its own template, and a later one.
LEMMA TargetFits ==
    ASSUME OrderOK, NEW db, Sound(db, DOMAIN order), NEW D, Steppable(db, D), NEW i \in D, NEW rel,
           Target(db, i, rel) # NoStep
    PROVE  /\ Target(db, i, rel) \in DOMAIN order
           /\ Config[Target(db, i, rel)].template = i[1]
           /\ ~ Satisfied(Target(db, i, rel), i[2], rel, db.instance)
           /\ i \in DOMAIN db.instance =>
                /\ db.instance[i].current \in DOMAIN order
                /\ order[db.instance[i].current] < order[Target(db, i, rel)]
<1> DEFINE c == db.instance[i].current
<1>1. CASE i \in DOMAIN db.instance
  <2>1. PICK t \in OpenOf(db, i) : t[2] = c
    BY <1>1 DEF Steppable, Sound, WaitsForOne
  <2>2. t \in (DOMAIN db.instance) \X (DOMAIN order) \X Nat /\ t[1] = i /\ Config[t[2]].template = t[1][1]
    BY <2>1 DEF OpenOf, Sound, TasksTyped
  <2>3. c \in DOMAIN order /\ Config[c].template = i[1]
    BY <2>1, <2>2
  <2> DEFINE n == NextStep(c)
             l == Target(db, i, rel)
  <2>4. l = Landing(n, i[2], rel, db.instance)
    BY <1>1 DEF Target
  <2>5. n # NoStep
    BY <2>4 DEF Landing
  <2> HIDE DEF c
  <2>6. n \in DOMAIN order /\ Config[n].template = i[1] /\ order[c] < order[n]
    BY <2>3, <2>5, NextStepIsLater
  <2> HIDE DEF n, l
  <2>7. /\ l \in DOMAIN order /\ Config[l].template = i[1]
        /\ order[n] <= order[l]
        /\ ~ Satisfied(l, i[2], rel, db.instance)
    BY <2>4, <2>6, LandingIsOnThePath DEF l
  <2>8. order[c] < order[l]
    BY <2>3, <2>6, <2>7, StepsAreIds
  <2> QED BY <2>3, <2>7, <2>8 DEF l, c
<1>2. CASE i \notin DOMAIN db.instance
  <2> DEFINE f == FirstOf(StepsOf(i[1]))
             l == Target(db, i, rel)
  <2>1. l = Landing(f, i[2], rel, db.instance)
    BY <1>2 DEF Target
  <2>2. f # NoStep
    BY <2>1 DEF Landing
  <2>3. StepsOf(i[1]) # {} /\ StepsOf(i[1]) \in SUBSET DOMAIN order
    BY <2>2 DEF FirstOf, StepsOf
  <2>4. f \in StepsOf(i[1])
    BY <2>3, FirstOfExists
  <2>5. f \in DOMAIN order /\ Config[f].template = i[1]
    BY <2>4 DEF StepsOf
  <2> HIDE DEF f, l
  <2>6. /\ l \in DOMAIN order /\ Config[l].template = i[1]
        /\ ~ Satisfied(l, i[2], rel, db.instance)
    BY <2>1, <2>5, LandingIsOnThePath DEF l
  <2> QED BY <1>2, <2>6 DEF l
<1> QED BY <1>1, <1>2

LEMMA ImageIsFinite ==
    ASSUME NEW D, IsFiniteSet(D), NEW f, f = [x \in D |-> f[x]]
    PROVE  IsFiniteSet({f[x] : x \in D})
<1> DEFINE T == {f[x] : x \in D}
<1>1. f \in Surjection(D, T)
  BY DEF Surjection
<1> HIDE DEF T
<1>2. IsFiniteSet(T)
  BY <1>1, FS_Surjection
<1> QED BY <1>2 DEF T

\* The tasks that are created: one for each instance that does not finish.
NewTasks(db, D, rel) ==
    {NewTask(i, Target(db, i, rel), db.task) : i \in {j \in D : Target(db, j, rel) # NoStep}}

LEMMA NewTasksFit ==
    ASSUME OrderOK, NEW db, Sound(db, DOMAIN order), NEW D, Steppable(db, D), NEW rel
    PROVE  /\ IsFiniteSet(NewTasks(db, D, rel))
           /\ \A t \in NewTasks(db, D, rel) :
                 /\ t[1] \in D /\ t[2] = Target(db, t[1], rel) /\ t[2] # NoStep
                 /\ t[3] = 1 + Cardinality(Same(DOMAIN db.task, t))
                 /\ t = NewTask(t[1], t[2], db.task)
                 /\ t \in D \X (DOMAIN order) \X Nat
                 /\ Config[t[2]].template = t[1][1]
                 /\ ~ Satisfied(t[2], t[1][2], rel, db.instance)
                 /\ t \notin DOMAIN db.task
           /\ \A i \in D : Target(db, i, rel) # NoStep =>
                 NewTask(i, Target(db, i, rel), db.task) \in NewTasks(db, D, rel)
<1> DEFINE G == {j \in D : Target(db, j, rel) # NoStep}
           f == [i \in G |-> NewTask(i, Target(db, i, rel), db.task)]
<1>1. IsFiniteSet(G)
  BY FS_Subset DEF Steppable
<1>2. NewTasks(db, D, rel) = {f[i] : i \in G}
  BY DEF NewTasks
<1>3. f = [i \in G |-> f[i]]
  OBVIOUS
<1>4. IsFiniteSet(NewTasks(db, D, rel))
  <2> HIDE DEF G, f
  <2> QED BY <1>1, <1>2, <1>3, ImageIsFinite
<1>5. ASSUME NEW t \in NewTasks(db, D, rel)
      PROVE  /\ t[1] \in D /\ t[2] = Target(db, t[1], rel) /\ t[2] # NoStep
             /\ t[3] = 1 + Cardinality(Same(DOMAIN db.task, t))
             /\ t = NewTask(t[1], t[2], db.task)
             /\ t \in D \X (DOMAIN order) \X Nat
             /\ Config[t[2]].template = t[1][1]
             /\ ~ Satisfied(t[2], t[1][2], rel, db.instance)
             /\ t \notin DOMAIN db.task
  <2>1. PICK i \in D : t = NewTask(i, Target(db, i, rel), db.task) /\ Target(db, i, rel) # NoStep
    BY DEF NewTasks
  <2> DEFINE s == Target(db, i, rel)
  <2>2. s \in DOMAIN order /\ Config[s].template = i[1] /\ ~ Satisfied(s, i[2], rel, db.instance)
    BY <2>1, TargetFits
  <2>3. t = NewTask(i, s, db.task)
    BY <2>1
  <2>4. t[1] = i /\ t[2] = s
    <3> HIDE DEF s
    <3> QED BY <2>3 DEF NewTask
  <2>5. Same(DOMAIN db.task, t) = {u \in DOMAIN db.task : u[1] = i /\ u[2] = s}
    <3> HIDE DEF s
    <3> QED BY <2>4 DEF Same
  <2> DEFINE n == 1 + Cardinality(Same(DOMAIN db.task, t))
  <2>6. t = <<i, s, n>>
    <3> HIDE DEF s
    <3> QED BY <2>3, <2>5 DEF NewTask
  <2>7. n \in Nat
    BY SameCounts DEF Sound, TasksTyped
  <2>8. t[3] = n
    <3> HIDE DEF s, n
    <3> QED BY <2>6
  <2>9. t \notin DOMAIN db.task
    BY <2>8, NextNumberIsNew DEF Sound, TasksTyped
  <2>10. t \in D \X (DOMAIN order) \X Nat
    <3> HIDE DEF s, n
    <3> QED BY <2>2, <2>6, <2>7
  <2> QED BY <2>1, <2>2, <2>3, <2>4, <2>8, <2>9, <2>10
<1>6. \A i \in D : Target(db, i, rel) # NoStep =>
         NewTask(i, Target(db, i, rel), db.task) \in NewTasks(db, D, rel)
  BY DEF NewTasks
<1> QED BY <1>4, <1>5, <1>6


\* What a step of the engine leaves behind.
LeftByStep(db, D, rel, e) ==
    /\ e = [instance |-> e.instance, task |-> e.task]
    /\ DOMAIN e.instance = DOMAIN db.instance \cup D
    /\ e.instance = [i \in DOMAIN e.instance |-> e.instance[i]]
    /\ \A i \in DOMAIN db.instance \ D : e.instance[i] = db.instance[i]
    /\ \A i \in D :
          e.instance[i] = IF Target(db, i, rel) = NoStep
                          THEN [status |-> "completed", current |-> NoStep]
                          ELSE [status |-> "running", current |-> Target(db, i, rel)]
    /\ DOMAIN e.task = DOMAIN db.task \cup NewTasks(db, D, rel)
    /\ e.task = [t \in DOMAIN e.task |-> e.task[t]]
    /\ \A t \in NewTasks(db, D, rel) : e.task[t] = "open"
    /\ \A t \in DOMAIN db.task :
          e.task[t] = IF t[1] \in D /\ db.task[t] = "open" THEN "completed" ELSE db.task[t]

LEMMA SteppedRows ==
    ASSUME OrderOK, NEW db, Sound(db, DOMAIN order), NEW D, Steppable(db, D), NEW rel,
           NEW e, e = Stepped(db, D, rel)
    PROVE  LeftByStep(db, D, rel, e)
<1> DEFINE target == [i \in D |-> Target(db, i, rel)]
           done == {t \in DOMAIN db.task : t[1] \in D /\ db.task[t] = "open"}
           new == {NewTask(i, target[i], db.task) : i \in {j \in DOMAIN target : target[j] # NoStep}}
           ins == [i \in DOMAIN db.instance \cup DOMAIN target |->
                     IF i \notin DOMAIN target THEN db.instance[i]
                     ELSE Advanced(IF i \in DOMAIN db.instance
                                   THEN db.instance[i] ELSE NewRow, target[i])]
           tas == [t \in DOMAIN db.task \cup new |->
                     IF t \in new THEN "open"
                     ELSE IF t \in done THEN "completed" ELSE db.task[t]]
<1>1. e = [instance |-> ins, task |-> tas]
  BY DEF Stepped, Advance
<1>2. new = NewTasks(db, D, rel)
  BY DEF NewTasks
<1>3. e.instance = ins /\ e.task = tas /\ e = [instance |-> e.instance, task |-> e.task]
  <2> HIDE DEF ins, tas
  <2> QED BY <1>1
<1>4. /\ DOMAIN e.instance = DOMAIN db.instance \cup D
      /\ e.instance = [i \in DOMAIN e.instance |-> e.instance[i]]
      /\ \A i \in DOMAIN db.instance \ D : e.instance[i] = db.instance[i]
  BY <1>3
<1>5. /\ DOMAIN e.task = DOMAIN db.task \cup NewTasks(db, D, rel)
      /\ e.task = [t \in DOMAIN e.task |-> e.task[t]]
      /\ \A t \in NewTasks(db, D, rel) : e.task[t] = "open"
      /\ \A t \in DOMAIN db.task :
            t \notin NewTasks(db, D, rel) =>
              e.task[t] = IF t[1] \in D /\ db.task[t] = "open" THEN "completed" ELSE db.task[t]
  <2> HIDE DEF new
  <2> QED BY <1>2, <1>3
<1>6. \A t \in DOMAIN db.task : t \notin NewTasks(db, D, rel)
  BY NewTasksFit
<1>7. ASSUME NEW i \in D
      PROVE  e.instance[i] = IF Target(db, i, rel) = NoStep
                             THEN [status |-> "completed", current |-> NoStep]
                             ELSE [status |-> "running", current |-> Target(db, i, rel)]
  <2> DEFINE row == IF i \in DOMAIN db.instance THEN db.instance[i] ELSE NewRow
             s == Target(db, i, rel)
  <2>1. e.instance[i] = Advanced(row, s)
    BY <1>3
  <2>2. row \in [status : {"running", "completed", "cancelled"}, current : DOMAIN order \cup {NoStep}]
    BY DEF Sound, InstancesTyped, InstanceRow, NewRow
  <2>3. row.status = "running"
    BY DEF Steppable, NewRow
  <2> HIDE DEF row, s
  <2>4. [row EXCEPT !.current = s] = [status |-> "running", current |-> s]
    BY <2>2, <2>3
  <2>5. e.instance[i] = IF s = NoStep THEN [status |-> "completed", current |-> NoStep]
                                      ELSE [status |-> "running", current |-> s]
    BY <2>1, <2>4 DEF Advanced
  <2> QED BY <2>5 DEF s
<1> HIDE DEF ins, tas, new, done, target
<1> QED BY <1>3, <1>4, <1>5, <1>6, <1>7 DEF LeftByStep

\* The engine keeps its rows sound: in particular an instance that it takes on
\* waits for the new task alone, or for none if it is done.
LEMMA SteppedSound ==
    ASSUME OrderOK, NEW db, Sound(db, DOMAIN order), NEW D, Steppable(db, D), NEW rel,
           NEW e, e = Stepped(db, D, rel)
    PROVE  Sound(e, DOMAIN order)
<1> DEFINE N == NewTasks(db, D, rel)
           I == DOMAIN db.instance
           T == DOMAIN db.task
<1>1. LeftByStep(db, D, rel, e)
  BY SteppedRows
<1> USE DEF LeftByStep
<1>2. /\ IsFiniteSet(N)
      /\ \A t \in N : /\ t[1] \in D /\ t[2] = Target(db, t[1], rel) /\ t[2] # NoStep
                      /\ t[3] = 1 + Cardinality(Same(T, t))
                      /\ t = NewTask(t[1], t[2], db.task)
                      /\ t \in D \X (DOMAIN order) \X Nat
                      /\ Config[t[2]].template = t[1][1]
                      /\ t \notin T
      /\ \A i \in D : Target(db, i, rel) # NoStep => NewTask(i, Target(db, i, rel), db.task) \in N
  BY NewTasksFit
<1>3. /\ IsFiniteSet(D) /\ D \subseteq InstanceIds
      /\ \A i \in D : IF i \in I THEN db.instance[i].status = "running"
                                 ELSE i[3] = 1 + Cardinality(Same(I, i))
  BY DEF Steppable
<1>4. \A i \in D : Target(db, i, rel) \in DOMAIN order \cup {NoStep}
  BY TargetFits
<1>5. InstancesTyped(db, DOMAIN order) /\ TasksTyped(db, DOMAIN order)
      /\ Numbered(I) /\ Numbered(T) /\ WaitsForOne(db)
  BY DEF Sound
<1>6. InstancesTyped(e, DOMAIN order)
  <2>1. IsFiniteSet(I \cup D)
    BY <1>3, <1>5, FS_Union DEF InstancesTyped
  <2>2. ASSUME NEW i \in I \cup D PROVE e.instance[i] \in InstanceRow(DOMAIN order)
    <3>1. CASE i \in I \ D
      BY <1>1, <1>5, <3>1 DEF InstancesTyped
    <3>2. CASE i \in D
      <4> DEFINE s == Target(db, i, rel)
      <4>1. s \in DOMAIN order \cup {NoStep}
        BY <1>4, <3>2
      <4>2. \/ e.instance[i] = [status |-> "completed", current |-> NoStep]
            \/ e.instance[i] = [status |-> "running", current |-> s]
        BY <1>1, <3>2
      <4> HIDE DEF s
      <4> QED BY <4>1, <4>2 DEF InstanceRow
    <3> QED BY <3>1, <3>2
  <2> QED BY <1>1, <1>3, <1>5, <2>1, <2>2 DEF InstancesTyped
<1>7. TasksTyped(e, DOMAIN order)
  <2>1. IsFiniteSet(T \cup N)
    BY <1>2, <1>5, FS_Union DEF TasksTyped
  <2>2. T \cup N \subseteq (I \cup D) \X (DOMAIN order) \X Nat
    BY <1>2, <1>5 DEF TasksTyped
  <2>3. \A t \in T \cup N : e.task[t] \in {"open", "completed", "cancelled"}
    BY <1>1, <1>5 DEF TasksTyped
  <2>4. \A t \in T \cup N : Config[t[2]].template = t[1][1]
    BY <1>2, <1>5 DEF TasksTyped
  <2>5. e.task \in [T \cup N -> {"open", "completed", "cancelled"}]
    BY <1>1, <2>3
  <2> QED BY <1>1, <2>1, <2>2, <2>4, <2>5 DEF TasksTyped
<1>8. Numbered(I \cup D)
  <2>1. \A i \in D \ I : i[3] = 1 + Cardinality(Same(I, i))
    BY <1>3
  <2>2. IsFiniteSet(I) /\ IsFiniteSet(D \ I)
    BY <1>3, <1>5, FS_Subset DEF InstancesTyped
  <2>3. I \cup (D \ I) = I \cup D
    OBVIOUS
  <2>4. Numbered(I \cup (D \ I))
    <3> DEFINE J == D \ I
    <3> HIDE DEF J, I
    <3> QED BY <1>5, <2>1, <2>2, NumbersGrow DEF J
  <2> QED BY <2>3, <2>4
<1>9. Numbered(T \cup N)
  <2>1. IsFiniteSet(T)
    BY <1>5 DEF TasksTyped
  <2> QED BY <1>2, <1>5, <2>1, NumbersGrow
<1>10. WaitsForOne(e)
  <2>1. ASSUME NEW i \in I \ D PROVE OpenOf(e, i) = OpenOf(db, i)
    <3>1. \A t \in N : t[1] # i
      BY <1>2, <2>1
    <3> QED BY <1>1, <2>1, <3>1 DEF OpenOf
  <2>2. ASSUME NEW i \in D, NEW t PROVE t \in OpenOf(e, i) <=> t \in N /\ t[1] = i
    <3>1. t \in T => e.task[t] # "open" \/ t[1] # i
      BY <1>1, <2>2
    <3> QED BY <1>1, <1>2, <3>1 DEF OpenOf
  <2>3. ASSUME NEW i \in D, Target(db, i, rel) = NoStep
        PROVE  OpenOf(e, i) = {}
    BY <1>2, <2>2, <2>3
  <2>4. ASSUME NEW i \in D, Target(db, i, rel) # NoStep
        PROVE  \E t \in OpenOf(e, i) : OpenOf(e, i) = {t} /\ t[2] = Target(db, i, rel)
    <3> DEFINE s == Target(db, i, rel)
               u == NewTask(i, s, db.task)
    <3>1. u \in N /\ u[1] = i /\ u[2] = s
      BY <1>2, <2>4 DEF NewTask
    <3>2. \A t \in N : t[1] = i => t = u
      BY <1>2
    <3> HIDE DEF s, u
    <3>3. u \in OpenOf(e, i) /\ OpenOf(e, i) = {u}
      BY <2>2, <3>1, <3>2
    <3> QED BY <3>1, <3>3 DEF s
  <2>5. ASSUME NEW i \in I \ D
        PROVE  IF e.instance[i].status = "running"
               THEN \E t \in OpenOf(e, i) : OpenOf(e, i) = {t} /\ t[2] = e.instance[i].current
               ELSE OpenOf(e, i) = {} /\ e.instance[i].current = NoStep
    BY <1>1, <1>5, <2>1 DEF WaitsForOne
  <2>6. ASSUME NEW i \in D
        PROVE  IF e.instance[i].status = "running"
               THEN \E t \in OpenOf(e, i) : OpenOf(e, i) = {t} /\ t[2] = e.instance[i].current
               ELSE OpenOf(e, i) = {} /\ e.instance[i].current = NoStep
    <3>1. CASE Target(db, i, rel) = NoStep
      <4>1. e.instance[i] = [status |-> "completed", current |-> NoStep]
        BY <1>1, <3>1
      <4> QED BY <4>1, <3>1, <2>3
    <3>2. CASE Target(db, i, rel) # NoStep
      <4> DEFINE s == Target(db, i, rel)
      <4>2. e.instance[i] = [status |-> "running", current |-> s]
        BY <1>1, <3>2
      <4>1. e.instance[i].status = "running" /\ e.instance[i].current = s
        <5> HIDE DEF s
        <5> QED BY <4>2
      <4> QED BY <4>1, <3>2, <2>4
    <3> QED BY <3>1, <3>2
  <2> QED BY <1>1, <2>5, <2>6 DEF WaitsForOne
<1> QED BY <1>1, <1>6, <1>7, <1>8, <1>9, <1>10 DEF Sound


\* What has ended stays, and nothing is forgotten.
Preserved(db, e) ==
    /\ DOMAIN db.instance \subseteq DOMAIN e.instance
    /\ DOMAIN db.task \subseteq DOMAIN e.task
    /\ \A i \in DOMAIN db.instance :
          db.instance[i].status # "running" => e.instance[i] = db.instance[i]
    /\ \A t \in DOMAIN db.task : db.task[t] # "open" => e.task[t] = db.task[t]

\* An instance that goes to another step goes to a later one.
Forward(db, e) ==
    \A i \in DOMAIN db.instance :
        LET old == db.instance[i].current  new == e.instance[i].current
        IN  old # NoStep /\ new \notin {old, NoStep} => order[old] < order[new]

LEMMA SteppedPreserves ==
    ASSUME OrderOK, NEW db, Sound(db, DOMAIN order), NEW D, Steppable(db, D), NEW rel,
           NEW e, e = Stepped(db, D, rel)
    PROVE  Preserved(db, e) /\ Forward(db, e)
<1>1. LeftByStep(db, D, rel, e)
  BY SteppedRows
<1> USE DEF LeftByStep
<1>2. Preserved(db, e)
  BY <1>1 DEF Preserved, Steppable
<1>3. ASSUME NEW i \in DOMAIN db.instance, i \in D,
             db.instance[i].current # NoStep, e.instance[i].current # NoStep
      PROVE  order[db.instance[i].current] < order[e.instance[i].current]
  <2> DEFINE s == Target(db, i, rel)
  <2>1. \/ e.instance[i] = [status |-> "completed", current |-> NoStep]
        \/ s # NoStep /\ e.instance[i] = [status |-> "running", current |-> s]
    BY <1>1, <1>3
  <2>2. s # NoStep /\ e.instance[i].current = s
    <3> HIDE DEF s
    <3> QED BY <1>3, <2>1
  <2> QED BY <1>3, <2>2, TargetFits
<1> QED BY <1>1, <1>2, <1>3 DEF Forward

\* What a cancellation leaves behind.
LeftByCancel(d, e) ==
    /\ e = [instance |-> e.instance, task |-> e.task]
    /\ DOMAIN e.instance = DOMAIN instance
    /\ e.instance = [i \in DOMAIN e.instance |-> e.instance[i]]
    /\ \A i \in DOMAIN instance :
          e.instance[i] = IF i[2] = d /\ instance[i].status = "running"
                          THEN [status |-> "cancelled", current |-> NoStep]
                          ELSE instance[i]
    /\ DOMAIN e.task = DOMAIN task
    /\ e.task = [t \in DOMAIN e.task |-> e.task[t]]
    /\ \A t \in DOMAIN task :
          e.task[t] = IF /\ t[1] \in DOMAIN instance /\ t[1][2] = d
                         /\ instance[t[1]].status = "running" /\ task[t] = "open"
                      THEN "cancelled" ELSE task[t]

LEMMA CancelledRows ==
    ASSUME NEW d, NEW e, e = Cancelled(d)
    PROVE  LeftByCancel(d, e)
<1> DEFINE stopped == {i \in InstancesOf(d) : instance[i].status = "running"}
           ins == [i \in DOMAIN instance |->
                     IF i \in stopped THEN [status |-> "cancelled", current |-> NoStep]
                                      ELSE instance[i]]
           tas == [t \in DOMAIN task |->
                     IF t[1] \in stopped /\ task[t] = "open" THEN "cancelled" ELSE task[t]]
<1>1. e = [instance |-> ins, task |-> tas]
  BY DEF Cancelled
<1>2. e.instance = ins /\ e.task = tas /\ e = [instance |-> e.instance, task |-> e.task]
  <2> HIDE DEF ins, tas
  <2> QED BY <1>1
<1>3. \A i : i \in stopped <=> i \in DOMAIN instance /\ i[2] = d /\ instance[i].status = "running"
  BY DEF InstancesOf
<1> HIDE DEF stopped
<1> QED BY <1>2, <1>3 DEF LeftByCancel

LEMMA CancelledSound ==
    ASSUME NEW S, Sound(Rows, S), NEW d, NEW e, e = Cancelled(d)
    PROVE  Sound(e, S) /\ Preserved(Rows, e)
<1>1. LeftByCancel(d, e)
  BY CancelledRows
<1> USE DEF LeftByCancel
<1>2. Rows.instance = instance /\ Rows.task = task
  BY DEF Rows
<1>3. /\ InstancesTyped(Rows, S) /\ TasksTyped(Rows, S)
      /\ Numbered(DOMAIN instance) /\ Numbered(DOMAIN task) /\ WaitsForOne(Rows)
  BY <1>2 DEF Sound
<1>4. InstancesTyped(e, S)
  BY <1>1, <1>2, <1>3 DEF InstancesTyped, InstanceRow
<1>5. TasksTyped(e, S)
  BY <1>1, <1>2, <1>3 DEF TasksTyped
<1>6. WaitsForOne(e)
  <2>1. ASSUME NEW i \in DOMAIN instance, i[2] = d, instance[i].status = "running"
        PROVE  OpenOf(e, i) = {} /\ e.instance[i].current = NoStep /\ e.instance[i].status = "cancelled"
    BY <1>1, <2>1 DEF OpenOf
  <2>2. ASSUME NEW i \in DOMAIN instance, ~ (i[2] = d /\ instance[i].status = "running")
        PROVE  OpenOf(e, i) = OpenOf(Rows, i) /\ e.instance[i] = instance[i]
    BY <1>1, <1>2, <2>2 DEF OpenOf
  <2> QED BY <1>1, <1>2, <1>3, <2>1, <2>2 DEF WaitsForOne
<1>7. Preserved(Rows, e)
  BY <1>1, <1>2 DEF Preserved
<1> QED BY <1>1, <1>3, <1>4, <1>5, <1>6, <1>7 DEF Sound

-----------------------------------------------------------------------------
(***************************************************************************)
(* What the requests write is a step of the engine.                        *)
(***************************************************************************)

\* A new relation takes the instances of d on whose open tasks it satisfies.
MetBy(d, rel, db) ==
    {t \in DOMAIN db.task : /\ t[1][2] = d /\ db.task[t] = "open"
                            /\ Config[t[2]].kind = "relation"
                            /\ RelationMet(t[2], d, rel, db.instance)}

TakenOn(d, rel, db) == {t[1] : t \in MetBy(d, rel, db)}

LEMMA RefreshedIsStepped ==
    ASSUME OrderOK, NEW db, Sound(db, DOMAIN order), NEW d, NEW rel
    PROVE  LET D == TakenOn(d, rel, db)
           IN  /\ Refreshed(d, rel, db) = Stepped(db, D, rel)
               /\ Steppable(db, D)
               /\ \A i \in D : i \in DOMAIN db.instance /\ i[2] = d
<1> DEFINE D == TakenOn(d, rel, db)
           met == MetBy(d, rel, db)
           step(i) == (CHOOSE t \in met : t[1] = i)[2]
<1>1. /\ InstancesTyped(db, DOMAIN order) /\ TasksTyped(db, DOMAIN order) /\ WaitsForOne(db)
  BY DEF Sound
<1>2. \A t \in met : t \in DOMAIN db.task /\ t[1] \in DOMAIN db.instance /\ t \in OpenOf(db, t[1])
  BY <1>1 DEF MetBy, TasksTyped, OpenOf
<1>3. \A i \in D : /\ i \in DOMAIN db.instance /\ i[2] = d
                   /\ db.instance[i].status = "running"
                   /\ \E t \in met : t[1] = i /\ OpenOf(db, i) = {t} /\ t[2] = db.instance[i].current
  <2> TAKE i \in D
  <2>1. PICK t \in met : t[1] = i
    BY DEF TakenOn
  <2>2. i \in DOMAIN db.instance /\ t \in OpenOf(db, i) /\ i[2] = d
    BY <1>2, <2>1 DEF MetBy
  <2>3. /\ db.instance[i].status = "running"
        /\ \E u \in OpenOf(db, i) : OpenOf(db, i) = {u} /\ u[2] = db.instance[i].current
    BY <1>1, <2>2 DEF WaitsForOne
  <2> QED BY <2>1, <2>2, <2>3
<1>4. IsFiniteSet(D)
  <2> DEFINE f == [t \in met |-> t[1]]
  <2>1. IsFiniteSet(met)
    BY <1>1, FS_Subset DEF TasksTyped, MetBy
  <2>2. f = [t \in met |-> f[t]] /\ D = {f[t] : t \in met}
    BY DEF TakenOn
  <2> HIDE DEF f, met, D
  <2> QED BY <2>1, <2>2, ImageIsFinite
<1>5. Steppable(db, D)
  BY <1>1, <1>3, <1>4 DEF Steppable, InstancesTyped
<1>6. \A i \in D : step(i) = db.instance[i].current
  <2> TAKE i \in D
  <2>1. PICK t \in met : t[1] = i /\ OpenOf(db, i) = {t} /\ t[2] = db.instance[i].current
    BY <1>3
  <2>2. \A u \in met : u[1] = i => u = t
    BY <1>2, <2>1
  <2>3. (CHOOSE u \in met : u[1] = i) = t
    BY <2>1, <2>2
  <2> QED BY <2>1, <2>3
<1>7. [i \in D |-> Landing(NextStep(step(i)), d, rel, db.instance)] = [i \in D |-> Target(db, i, rel)]
  <2>1. ASSUME NEW i \in D
        PROVE  Landing(NextStep(step(i)), d, rel, db.instance) = Target(db, i, rel)
    <3>1. step(i) = db.instance[i].current /\ i \in DOMAIN db.instance /\ i[2] = d
      BY <1>3, <1>6
    <3> HIDE DEF step
    <3> QED BY <3>1 DEF Target
  <2> HIDE DEF step, D
  <2> QED BY <2>1
<1>8. met = {t \in DOMAIN db.task : t[1] \in D /\ db.task[t] = "open"}
  <2>1. ASSUME NEW t \in DOMAIN db.task, t[1] \in D, db.task[t] = "open" PROVE t \in met
    BY <1>3, <2>1 DEF OpenOf
  <2>2. ASSUME NEW t \in met PROVE t \in DOMAIN db.task /\ t[1] \in D /\ db.task[t] = "open"
    BY DEF TakenOn, MetBy
  <2> HIDE DEF met, D
  <2> QED BY <2>1, <2>2
<1>9. Refreshed(d, rel, db) =
         Advance(db, [i \in D |-> Landing(NextStep(step(i)), d, rel, db.instance)], met)
  BY DEF Refreshed, TakenOn, MetBy
<1>10. Refreshed(d, rel, db) = Stepped(db, D, rel)
  <2> HIDE DEF D, step, met
  <2> QED BY <1>7, <1>8, <1>9 DEF Stepped
<1> QED BY <1>3, <1>5, <1>10


\* New instances for d, one of each template in ts.
OneOfEach(ts, d, D) ==
    /\ \A i \in D : i \notin DOMAIN instance /\ i[2] = d /\ i[1] \in ts
    /\ \A t \in ts : \E i \in D : i[1] = t
    /\ \A i, j \in D : i[1] = j[1] => i = j

\* A request or a callback starts templates, each with an instance of its own.
LEMMA StartedIsStepped ==
    ASSUME OrderOK, Sound(Rows, DOMAIN order), NEW ts \in SUBSET Templates, NEW d \in Docs
    PROVE  \E D : /\ Started(ts, d) = Stepped(Rows, D, related)
                  /\ Steppable(Rows, D)
                  /\ OneOfEach(ts, d, D)
<1> DEFINE number(t) == 1 + Cardinality({i \in InstancesOf(d) : i[1] = t})
           D == {<<t, d, number(t)>> : t \in ts}
           I == DOMAIN instance
<1>1. /\ InstancesTyped(Rows, DOMAIN order) /\ TasksTyped(Rows, DOMAIN order) /\ Numbered(I)
      /\ Rows.instance = instance /\ Rows.task = task
  BY DEF Sound, Rows
<1>2. IsFiniteSet(I)
  BY <1>1 DEF InstancesTyped
<1>3. \A t \in ts : {i \in InstancesOf(d) : i[1] = t} = Same(I, <<t, d, number(t)>>)
  BY DEF InstancesOf, Same
<1>4. ASSUME NEW i \in D
      PROVE  /\ i[2] = d /\ i[1] \in ts /\ i = <<i[1], d, number(i[1])>>
             /\ i[3] = 1 + Cardinality(Same(I, i))
             /\ i \in InstanceIds /\ i \notin I
  <2>1. PICK t \in ts : i = <<t, d, number(t)>>
    BY DEF D
  <2> HIDE DEF number
  <2>2. i[1] = t /\ i[2] = d /\ i[3] = number(t)
    BY <2>1
  <2>3. Same(I, i) = Same(I, <<t, d, number(t)>>)
    BY <2>1
  <2>4. i[3] = 1 + Cardinality(Same(I, i))
    BY <2>2, <2>3, <1>3 DEF number
  <2>5. i[3] \in Nat
    BY <1>2, <2>4, SameCounts
  <2>6. i \in InstanceIds
    BY <2>1, <2>2, <2>5 DEF InstanceIds
  <2>7. i \notin I
    BY <1>1, <1>2, <2>4, NextNumberIsNew
  <2> QED BY <2>1, <2>2, <2>4, <2>6, <2>7
<1>5. IsFiniteSet(D)
  <2> DEFINE f == [t \in ts |-> <<t, d, number(t)>>]
  <2>1. IsFiniteSet(ts)
    BY ConstantsAssumption, FS_Subset DEF ConstantsAssumption
  <2>2. f = [t \in ts |-> f[t]] /\ D = {f[t] : t \in ts}
    OBVIOUS
  <2> HIDE DEF f, D
  <2> QED BY <2>1, <2>2, ImageIsFinite
<1>6. Steppable(Rows, D)
  BY <1>1, <1>4, <1>5 DEF Steppable
<1>7. \A t \in ts : \E i \in D : i[1] = t
  <2> TAKE t \in ts
  <2>1. <<t, d, number(t)>> \in D
    OBVIOUS
  <2> HIDE DEF D, number
  <2>2. <<t, d, number(t)>>[1] = t
    OBVIOUS
  <2> QED BY <2>1, <2>2
<1>8. \A i, j \in D : i[1] = j[1] => i = j
  <2> HIDE DEF D, number
  <2> QED BY <1>4
<1>9. [i \in D |-> Landing(FirstOf(StepsOf(i[1])), d, related, instance)]
         = [i \in D |-> Target(Rows, i, related)]
  <2> HIDE DEF D, number
  <2>1. \A i \in D : Landing(FirstOf(StepsOf(i[1])), d, related, instance) = Target(Rows, i, related)
    BY <1>1, <1>4 DEF Target
  <2> QED BY <2>1
<1>10. {t \in DOMAIN task : t[1] \in D /\ task[t] = "open"} = {}
  <2> HIDE DEF D, number
  <2>1. \A t \in DOMAIN task : t[1] \in I
    BY <1>1 DEF TasksTyped
  <2> QED BY <1>4, <2>1
<1>11. Started(ts, d) =
          Advance(Rows, [i \in D |-> Landing(FirstOf(StepsOf(i[1])), d, related, instance)], {})
  BY DEF Started
<1>12. Started(ts, d) = Stepped(Rows, D, related)
  <2> HIDE DEF D, number
  <2> QED BY <1>1, <1>9, <1>10, <1>11 DEF Stepped
<1> HIDE DEF D, number
<1> QED BY <1>4, <1>6, <1>7, <1>8, <1>12 DEF OneOfEach

\* Completing a task takes its instance on.
LEMMA CompletedIsStepped ==
    ASSUME OrderOK, Sound(Rows, DOMAIN order), NEW t \in DOMAIN task, task[t] = "open"
    PROVE  /\ Advance(Rows, [j \in {t[1]} |-> Landing(NextStep(t[2]), t[1][2], related, instance)],
                      {t}) = Stepped(Rows, {t[1]}, related)
           /\ Steppable(Rows, {t[1]})
           /\ t[1] \in DOMAIN instance /\ instance[t[1]].current = t[2]
<1> DEFINE i == t[1]
<1>1. /\ InstancesTyped(Rows, DOMAIN order) /\ TasksTyped(Rows, DOMAIN order) /\ WaitsForOne(Rows)
      /\ Rows.instance = instance /\ Rows.task = task
  BY DEF Sound, Rows
<1>2. i \in DOMAIN instance /\ t \in OpenOf(Rows, i)
  BY <1>1 DEF TasksTyped, OpenOf
<1>3. instance[i].status = "running" /\ OpenOf(Rows, i) = {t} /\ t[2] = instance[i].current
  BY <1>1, <1>2 DEF WaitsForOne
<1>4. Steppable(Rows, {i})
  <2>1. IsFiniteSet({i})
    BY FS_Singleton
  <2> QED BY <1>1, <1>2, <1>3, <2>1 DEF Steppable, InstancesTyped
<1>5. {u \in DOMAIN task : u[1] \in {i} /\ task[u] = "open"} = {t}
  BY <1>1, <1>3 DEF OpenOf
<1>6. [j \in {i} |-> Landing(NextStep(t[2]), i[2], related, instance)]
         = [j \in {i} |-> Target(Rows, j, related)]
  <2>1. Landing(NextStep(t[2]), i[2], related, instance) = Target(Rows, i, related)
    BY <1>1, <1>2, <1>3 DEF Target
  <2> QED BY <2>1
<1>7. Advance(Rows, [j \in {i} |-> Landing(NextStep(t[2]), i[2], related, instance)], {t})
         = Stepped(Rows, {i}, related)
  BY <1>1, <1>5, <1>6 DEF Stepped
<1> QED BY <1>2, <1>3, <1>4, <1>7


\* A new relation of two documents takes on the instances of one, then of the
\* other.
LEMMA RefreshedTwice ==
    ASSUME OrderOK, Sound(Rows, DOMAIN order), NEW d, NEW f, d # f, NEW rel
    PROVE  \E C, D, c, e :
              /\ e = Refreshed(f, rel, Refreshed(d, rel, Rows))
              /\ C = TakenOn(d, rel, Rows) /\ Steppable(Rows, C) /\ c = Stepped(Rows, C, rel)
              /\ \A i \in C : i \in DOMAIN instance /\ i[2] = d
              /\ Sound(c, DOMAIN order)
              /\ D = TakenOn(f, rel, c) /\ Steppable(c, D) /\ e = Stepped(c, D, rel)
              /\ \A i \in D : i \in DOMAIN instance /\ i[2] = f
<1>1. PICK C : C = TakenOn(d, rel, Rows)
  OBVIOUS
<1>2. PICK c : c = Stepped(Rows, C, rel)
  OBVIOUS
<1>3. /\ Refreshed(d, rel, Rows) = c /\ Steppable(Rows, C)
      /\ \A i \in C : i \in DOMAIN instance /\ i[2] = d
  BY <1>1, <1>2, RefreshedIsStepped DEF Rows
<1>4. Sound(c, DOMAIN order) /\ DOMAIN c.instance = DOMAIN instance
  <2>1. LeftByStep(Rows, C, rel, c)
    BY <1>2, <1>3, SteppedRows
  <2>2. Sound(c, DOMAIN order)
    BY <1>2, <1>3, SteppedSound
  <2> QED BY <1>3, <2>1, <2>2 DEF LeftByStep, Rows
<1>5. PICK D : D = TakenOn(f, rel, c)
  OBVIOUS
<1>6. PICK e : e = Stepped(c, D, rel)
  OBVIOUS
<1>7. /\ Refreshed(f, rel, c) = e /\ Steppable(c, D)
      /\ \A i \in D : i \in DOMAIN instance /\ i[2] = f
  BY <1>4, <1>5, <1>6, RefreshedIsStepped
<1> QED BY <1>1, <1>2, <1>3, <1>4, <1>5, <1>6, <1>7

\* All that a step of the system can do to the rows of the engine.
EngineStep(D, rel) ==
    /\ Steppable(Rows, D) /\ Write(Stepped(Rows, D, rel)) /\ UNCHANGED order

CancelStep(d) == Write(Cancelled(d)) /\ UNCHANGED order

RelationStep(d, f) ==
    /\ d # f
    /\ Write(Refreshed(f, related', Refreshed(d, related', Rows))) /\ UNCHANGED order

LEMMA StepsOfTheEngine ==
    ASSUME OrderOK, Sound(Rows, DOMAIN order), [Next]_vars
    PROVE  \/ UNCHANGED <<instance, task>> /\ (UNCHANGED order \/ EditSteps)
           \/ \E D : EngineStep(D, related)
           \/ \E d \in Docs : CancelStep(d)
           \/ \E d, f \in Docs : RelationStep(d, f)
<1>1. ASSUME NEW d \in Docs, NEW b \in Boxes, StartMatching(d, b)
      PROVE  \E D : EngineStep(D, related)
  <2>1. MissingWorkflows(d, b) \in SUBSET Templates
    BY ConstantsAssumption DEF MissingWorkflows, ConstantsAssumption
  <2>2. PICK ts \in SUBSET Templates : ts = MissingWorkflows(d, b)
    BY <2>1
  <2>3. PICK D : Started(ts, d) = Stepped(Rows, D, related) /\ Steppable(Rows, D)
    BY StartedIsStepped
  <2> QED BY <1>1, <2>2, <2>3 DEF StartMatching, EngineStep
<1>2. ASSUME NEW d \in Docs, NEW t \in Templates, StartWorkflow(t, d)
      PROVE  \E D : EngineStep(D, related)
  BY <1>2, StartedIsStepped DEF StartWorkflow, EngineStep
<1>3. ASSUME NEW d \in Docs, NEW b \in Boxes, Move(d, b) \/ DeleteDocument(d)
      PROVE  CancelStep(d)
  BY <1>3 DEF Move, DeleteDocument, CancelStep
<1>4. ASSUME NEW d \in Docs, DeleteDocument(d) PROVE CancelStep(d)
  BY <1>4 DEF DeleteDocument, CancelStep
<1>5. ASSUME NEW d \in Docs, NEW f \in Docs, AddRelation(d, f) PROVE RelationStep(d, f)
  BY <1>5 DEF AddRelation, RelationStep
<1>6. ASSUME NEW t \in DOMAIN task, CompleteTask(t)
      PROVE  \E D : EngineStep(D, related)
  BY <1>6, CompletedIsStepped DEF CompleteTask, EngineStep
<1>7. ASSUME NEW d \in Docs, NEW b \in Boxes, NEW auto, StartDropped(d, b) \/ Upload(d, b, auto)
      PROVE  UNCHANGED <<instance, task, order>>
  BY <1>7 DEF StartDropped, Upload
<1>8. ASSUME NEW d \in Docs, SetMetadata(d) PROVE UNCHANGED <<instance, task, order>>
  BY <1>8 DEF SetMetadata
<1>9. ASSUME NEW pair, RemoveRelation(pair) PROVE UNCHANGED <<instance, task, order>>
  BY <1>9 DEF RemoveRelation
<1>10. EditSteps => UNCHANGED <<instance, task>>
  BY DEF EditSteps, CreateStep, SetSortOrder, DeleteStep, ReorderSteps, Edit
<1>11. UNCHANGED vars => UNCHANGED <<instance, task, order>>
  BY DEF vars
<1> QED BY <1>1, <1>2, <1>3, <1>4, <1>5, <1>6, <1>7, <1>8, <1>9, <1>10, <1>11
       DEF Next, Callback, DocumentRequest

-----------------------------------------------------------------------------
(***************************************************************************)
(* The inductive invariant of the rows.                                    *)
(***************************************************************************)

RowsInv == OrderOK /\ Sound(Rows, DOMAIN order)

LEMMA SoundLater ==
    ASSUME NEW e, NEW S, Sound(e, S), Write(e), DOMAIN order' = S
    PROVE  Sound(Rows, DOMAIN order)'
<1>1. e = [instance |-> instance', task |-> task']
  BY DEF Sound, Write
<1>2. Rows' = e
  BY <1>1 DEF Rows
<1> QED BY <1>2

\* Steps with tasks, or with an instance that waits, are not deleted.
LEMMA EditKeepsRows ==
    ASSUME RowsInv, EditSteps
    PROVE  RowsInv'
<1>1. /\ OrderOK /\ Sound(Rows, DOMAIN order) /\ instance' = instance /\ task' = task
      /\ Rows' = Rows /\ Rows.instance = instance /\ Rows.task = task
  BY DEF RowsInv, EditSteps, CreateStep, SetSortOrder, DeleteStep, ReorderSteps, Edit, Rows
<1>2. /\ SortOrders \subseteq Nat /\ Steps \subseteq Nat
  BY ConstantsAssumption DEF ConstantsAssumption
<1>3. /\ InstancesTyped(Rows, DOMAIN order) /\ TasksTyped(Rows, DOMAIN order)
  BY <1>1 DEF Sound
<1>4. ASSUME InstancesTyped(Rows, DOMAIN order'), TasksTyped(Rows, DOMAIN order')
      PROVE  Sound(Rows, DOMAIN order)'
  <2>1. Sound(Rows, DOMAIN order')
    BY <1>1, <1>4 DEF Sound
  <2> QED BY <1>1, <2>1
<1>5. ASSUME NEW s \in Steps, NEW n \in SortOrders, CreateStep(s, n) PROVE RowsInv'
  <2>1. /\ order' = [u \in DOMAIN order \cup {s} |-> IF u = s THEN n ELSE order[u]]
        /\ DOMAIN order' = DOMAIN order \cup {s}
    BY <1>5 DEF CreateStep
  <2>2. OrderOK'
    BY <1>1, <1>2, <2>1 DEF OrderOK
  <2>3. InstancesTyped(Rows, DOMAIN order')
    BY <1>3, <2>1 DEF InstancesTyped, InstanceRow
  <2>4. TasksTyped(Rows, DOMAIN order')
    BY <1>3, <2>1 DEF TasksTyped
  <2> QED BY <1>4, <2>2, <2>3, <2>4 DEF RowsInv
<1>6. ASSUME NEW s \in DOMAIN order, NEW n \in SortOrders, SetSortOrder(s, n) PROVE RowsInv'
  <2>1. order' = [order EXCEPT ![s] = n]
    BY <1>6 DEF SetSortOrder
  <2>2. OrderOK' /\ DOMAIN order' = DOMAIN order
    BY <1>1, <1>2, <2>1 DEF OrderOK
  <2> QED BY <1>3, <1>4, <2>2 DEF RowsInv
<1>7. ASSUME NEW t \in Templates, ReorderSteps(t) PROVE RowsInv'
  <2>1. PICK place \in [StepsOf(t) -> 1..Cardinality(StepsOf(t))] :
            order' = [s \in DOMAIN order |-> IF s \in StepsOf(t) THEN 10 * place[s] ELSE order[s]]
    BY <1>7 DEF ReorderSteps
  <2>2. \A s \in StepsOf(t) : 10 * place[s] \in Nat
    BY <2>1
  <2>3. OrderOK' /\ DOMAIN order' = DOMAIN order
    BY <1>1, <2>1, <2>2 DEF OrderOK
  <2> QED BY <1>3, <1>4, <2>3 DEF RowsInv
<1>8. ASSUME NEW s \in DOMAIN order, DeleteStep(s) PROVE RowsInv'
  <2>1. /\ order' = [u \in DOMAIN order \ {s} |-> order[u]]
        /\ DOMAIN order' = DOMAIN order \ {s}
        /\ \A t \in DOMAIN task : t[2] # s
        /\ \A i \in DOMAIN instance : instance[i].current # s
    BY <1>8 DEF DeleteStep
  <2>2. OrderOK'
    BY <1>1, <2>1 DEF OrderOK
  <2>3. InstancesTyped(Rows, DOMAIN order')
    BY <1>1, <1>3, <2>1 DEF InstancesTyped, InstanceRow
  <2>4. TasksTyped(Rows, DOMAIN order')
    BY <1>1, <1>3, <2>1 DEF TasksTyped
  <2> QED BY <1>4, <2>2, <2>3, <2>4 DEF RowsInv
<1> QED BY <1>5, <1>6, <1>7, <1>8 DEF EditSteps

LEMMA RowsInvInit == Init => RowsInv
<1> SUFFICES ASSUME Init PROVE RowsInv
  OBVIOUS
<1>1. OrderOK
  BY ConstantsAssumption DEF Init, OrderOK, ConstantsAssumption
<1>2. Rows.instance = << >> /\ Rows.task = << >> /\ DOMAIN << >> = {}
  BY DEF Init, Rows
<1>3. Rows = [instance |-> Rows.instance, task |-> Rows.task]
  BY DEF Rows
<1>4. IsFiniteSet({})
  BY FS_EmptySet
<1>5. << >> = [x \in {} |-> x]
  OBVIOUS
<1>6. InstancesTyped(Rows, DOMAIN order) /\ TasksTyped(Rows, DOMAIN order)
  BY <1>2, <1>4, <1>5 DEF InstancesTyped, TasksTyped
<1> QED BY <1>1, <1>2, <1>3, <1>6 DEF RowsInv, Sound, Numbered, WaitsForOne

LEMMA RowsInvStep ==
    ASSUME RowsInv, [Next]_vars
    PROVE  RowsInv'
<1>1. OrderOK /\ Sound(Rows, DOMAIN order)
  BY DEF RowsInv
<1>2. ASSUME UNCHANGED <<instance, task, order>> PROVE RowsInv'
  BY <1>1, <1>2 DEF RowsInv, OrderOK, Rows
<1>3. ASSUME NEW D, EngineStep(D, related) PROVE RowsInv'
  <2>1. PICK e : e = Stepped(Rows, D, related)
    OBVIOUS
  <2>2. Sound(e, DOMAIN order) /\ Write(e) /\ order' = order
    BY <1>1, <1>3, <2>1, SteppedSound DEF EngineStep
  <2> QED BY <1>1, <2>2, SoundLater DEF RowsInv, OrderOK
<1>4. ASSUME NEW d, CancelStep(d) PROVE RowsInv'
  <2>1. PICK e : e = Cancelled(d)
    OBVIOUS
  <2>2. Sound(e, DOMAIN order) /\ Write(e) /\ order' = order
    BY <1>1, <1>4, <2>1, CancelledSound DEF CancelStep
  <2> QED BY <1>1, <2>2, SoundLater DEF RowsInv, OrderOK
<1>5. ASSUME NEW d, NEW f, RelationStep(d, f) PROVE RowsInv'
  <2>1. PICK rel : rel = related'
    OBVIOUS
  <2>2. PICK C, D, c, e :
          /\ e = Refreshed(f, rel, Refreshed(d, rel, Rows))
          /\ Sound(c, DOMAIN order) /\ Steppable(c, D) /\ e = Stepped(c, D, rel)
    BY <1>1, <1>5, RefreshedTwice DEF RelationStep
  <2>3. Sound(e, DOMAIN order) /\ Write(e) /\ order' = order
    BY <1>1, <1>5, <2>1, <2>2, SteppedSound DEF RelationStep
  <2> QED BY <1>1, <2>3, SoundLater DEF RowsInv, OrderOK
<1> QED BY <1>1, <1>2, <1>3, <1>4, <1>5, StepsOfTheEngine, EditKeepsRows

\* A running instance waits for one task, that of its step; a finished one for
\* none: however documents and steps change, for any templates.
THEOREM OneTaskIsOpen == Spec => []OneOpenTask
<1>1. RowsInv => OneOpenTask
  BY DEF RowsInv, Sound, WaitsForOne, OneOpenTask, OpenOf, OpenTasks, Rows
<1> QED BY <1>1, RowsInvInit, RowsInvStep, PTL DEF Spec

-----------------------------------------------------------------------------
(***************************************************************************)
(* Type correctness.                                                       *)
(***************************************************************************)

DocumentRow == [status : {"none", "active", "deleted"}, box : Boxes,
                filled : BOOLEAN, auto : BOOLEAN]

OthersTyped ==
    /\ doc \in [Docs -> DocumentRow]
    /\ related \subseteq SUBSET Docs
    /\ pending \in [Docs \X Boxes -> Nat]
    /\ missed \subseteq Docs \X Boxes
    /\ changes \in Nat /\ edits \in Nat /\ failures \in Nat
    /\ bound \in Bounds

LEMMA OthersTypedInit == Init => OthersTyped
<1> SUFFICES ASSUME Init PROVE OthersTyped
  OBVIOUS
<1>1. NoDoc \in DocumentRow
  BY ConstantsAssumption DEF NoDoc, DocumentRow, ConstantsAssumption
<1> QED BY <1>1 DEF Init, OthersTyped

LEMMA OthersTypedStep ==
    ASSUME OthersTyped, [Next]_vars
    PROVE  OthersTyped'
<1> USE DEF OthersTyped
<1>1. ASSUME NEW d \in Docs, NEW b \in Boxes, StartMatching(d, b) \/ StartDropped(d, b)
      PROVE  OthersTyped'
  <2>1. /\ pending[<<d, b>>] > 0 /\ <<d, b>> \in Docs \X Boxes
        /\ pending' = [pending EXCEPT ![<<d, b>>] = @ - 1]
        /\ UNCHANGED <<doc, related, changes, edits, bound>>
        /\ failures' = failures \/ failures' = failures + 1
        /\ missed' = missed \ {<<d, b>>} \/ missed' = missed \cup {<<d, b>>}
    BY <1>1 DEF StartMatching, StartDropped
  <2>2. pending[<<d, b>>] - 1 \in Nat
    BY <2>1
  <2>3. pending' \in [Docs \X Boxes -> Nat]
    BY <2>1, <2>2
  <2> QED BY <2>1, <2>3
<1>2. ASSUME NEW d \in Docs, NEW b \in Boxes, NEW auto \in BOOLEAN, Upload(d, b, auto)
      PROVE  OthersTyped'
  <2>1. /\ doc' = [doc EXCEPT ![d] = [status |-> "active", box |-> b,
                                     filled |-> FALSE, auto |-> auto]]
        /\ pending' = [pending EXCEPT ![<<d, b>>] = IF auto THEN @ + 1 ELSE @]
        /\ UNCHANGED <<related, missed, changes, edits, failures, bound>>
        /\ <<d, b>> \in Docs \X Boxes
    BY <1>2 DEF Upload
  <2>2. [status |-> "active", box |-> b, filled |-> FALSE, auto |-> auto] \in DocumentRow
    BY DEF DocumentRow
  <2> QED BY <2>1, <2>2
<1>3. ASSUME NEW d \in Docs, NEW b \in Boxes, Move(d, b) PROVE OthersTyped'
  <2>1. /\ doc' = [doc EXCEPT ![d].box = b, ![d].auto = TRUE]
        /\ pending' = [pending EXCEPT ![<<d, b>>] = @ + 1]
        /\ changes' = changes + 1
        /\ UNCHANGED <<related, missed, edits, failures, bound>>
        /\ <<d, b>> \in Docs \X Boxes
    BY <1>3 DEF Move
  <2>2. doc' \in [Docs -> DocumentRow]
    BY <2>1, ZenonT(60) DEF DocumentRow
  <2> QED BY <2>1, <2>2
<1>4. ASSUME NEW d \in Docs, DeleteDocument(d) \/ SetMetadata(d) PROVE OthersTyped'
  <2>1. doc' \in [Docs -> DocumentRow]
    <3>1. CASE DeleteDocument(d)
      BY <3>1 DEF DeleteDocument, DocumentRow
    <3>2. CASE SetMetadata(d)
      <4> DEFINE v == ~ doc[d].filled
      <4>1. v \in BOOLEAN /\ doc' = [doc EXCEPT ![d].filled = v]
        BY <3>2 DEF SetMetadata
      <4> HIDE DEF v
      <4> QED BY <4>1 DEF DocumentRow
    <3> QED BY <1>4, <3>1, <3>2
  <2> QED BY <1>4, <2>1 DEF DeleteDocument, SetMetadata
<1>5. ASSUME NEW d \in Docs, NEW f \in Docs, AddRelation(d, f) PROVE OthersTyped'
  BY <1>5 DEF AddRelation
<1>6. ASSUME NEW pair, RemoveRelation(pair) PROVE OthersTyped'
  BY <1>6 DEF RemoveRelation
<1>7. ASSUME NEW d, NEW t, StartWorkflow(t, d) PROVE OthersTyped'
  BY <1>7 DEF StartWorkflow
<1>8. ASSUME NEW t, CompleteTask(t) PROVE OthersTyped'
  BY <1>8 DEF CompleteTask
<1>9. ASSUME EditSteps PROVE OthersTyped'
  <2>1. Edit
    BY <1>9 DEF EditSteps, CreateStep, SetSortOrder, DeleteStep, ReorderSteps
  <2> QED BY <2>1 DEF Edit
<1>10. UNCHANGED vars => OthersTyped'
  BY DEF vars
<1> QED BY <1>1, <1>2, <1>3, <1>4, <1>5, <1>6, <1>7, <1>8, <1>9, <1>10
       DEF Next, Callback, DocumentRequest

\* Rows are of their kind and refer only to rows that exist: a step with tasks,
\* or with an instance that waits at it, outlives every edit of the template.
THEOREM TypeCorrect == Spec => []TypeOK
<1>1. RowsInv /\ OthersTyped => TypeOK
  BY DEF RowsInv, OthersTyped, OrderOK, Sound, InstancesTyped, TasksTyped, Rows, TypeOK,
         InstanceRow, DocumentRow, WorkflowStep, WorkflowInstance, WorkflowTask
<1> QED BY <1>1, RowsInvInit, RowsInvStep, OthersTypedInit, OthersTypedStep, PTL DEF Spec

-----------------------------------------------------------------------------
(***************************************************************************)
(* History: what is finished stays, and what runs moves forward.           *)
(***************************************************************************)

LEMMA StepsPreserve ==
    ASSUME RowsInv, [Next]_vars
    PROVE  \E e : Write(e) /\ Preserved(Rows, e) /\ Forward(Rows, e)
<1>1. OrderOK /\ Sound(Rows, DOMAIN order) /\ Rows.instance = instance /\ Rows.task = task
  BY DEF RowsInv, Rows
<1>2. ASSUME UNCHANGED <<instance, task>>
      PROVE  Write(Rows) /\ Preserved(Rows, Rows) /\ Forward(Rows, Rows)
  BY <1>1, <1>2 DEF Write, Preserved, Forward
<1>3. ASSUME NEW D, EngineStep(D, related)
      PROVE  \E e : Write(e) /\ Preserved(Rows, e) /\ Forward(Rows, e)
  BY <1>1, <1>3, SteppedPreserves DEF EngineStep
<1>4. ASSUME NEW d, CancelStep(d)
      PROVE  \E e : Write(e) /\ Preserved(Rows, e) /\ Forward(Rows, e)
  <2>1. PICK e : e = Cancelled(d)
    OBVIOUS
  <2>2. Preserved(Rows, e) /\ LeftByCancel(d, e)
    BY <1>1, <2>1, CancelledSound, CancelledRows
  <2>3. Forward(Rows, e)
    BY <1>1, <2>2 DEF Forward, LeftByCancel
  <2> QED BY <1>4, <2>1, <2>2, <2>3 DEF CancelStep
<1>5. ASSUME NEW d, NEW f, RelationStep(d, f)
      PROVE  \E e : Write(e) /\ Preserved(Rows, e) /\ Forward(Rows, e)
  <2>1. PICK rel : rel = related'
    OBVIOUS
  <2>2. PICK C, D, c, e :
          /\ e = Refreshed(f, rel, Refreshed(d, rel, Rows))
          /\ Steppable(Rows, C) /\ c = Stepped(Rows, C, rel)
          /\ \A i \in C : i \in DOMAIN instance /\ i[2] = d
          /\ Sound(c, DOMAIN order)
          /\ Steppable(c, D) /\ e = Stepped(c, D, rel)
          /\ \A i \in D : i \in DOMAIN instance /\ i[2] = f
    BY <1>1, <1>5, RefreshedTwice DEF RelationStep
  <2>3. /\ Preserved(Rows, c) /\ Forward(Rows, c) /\ Preserved(c, e) /\ Forward(c, e)
        /\ LeftByStep(Rows, C, rel, c) /\ LeftByStep(c, D, rel, e)
    BY <1>1, <2>2, SteppedPreserves, SteppedRows
  <2>4. Preserved(Rows, e)
    BY <1>1, <2>3 DEF Preserved
  <2>5. \A i \in DOMAIN instance : \/ c.instance[i] = instance[i]
                                   \/ e.instance[i] = c.instance[i]
    <3>1. \A i \in DOMAIN instance : i \notin C \/ i \notin D
      BY <1>5, <2>2 DEF RelationStep
    <3>2. DOMAIN instance \subseteq DOMAIN c.instance
      BY <1>1, <2>3 DEF Preserved
    <3> QED BY <1>1, <2>3, <3>1, <3>2 DEF LeftByStep
  <2>6. Forward(Rows, e)
    <3>1. DOMAIN instance \subseteq DOMAIN c.instance
      BY <1>1, <2>3 DEF Preserved
    <3> QED BY <1>1, <2>3, <2>5, <3>1 DEF Forward
  <2>7. Write(e)
    BY <1>5, <2>1, <2>2 DEF RelationStep
  <2> QED BY <2>4, <2>6, <2>7
<1> QED BY <1>2, <1>3, <1>4, <1>5, StepsOfTheEngine DEF RowsInv

\* No request changes a finished instance or a task that was completed or
\* cancelled, and no new row takes the number of one.
THEOREM HistoryStaysFinal == Spec => HistoryIsFinal
<1>1. RowsInv /\ [Next]_vars =>
        [/\ \A i \in DOMAIN instance :
               instance[i].status # "running" => instance'[i] = instance[i]
         /\ \A t \in DOMAIN task : task[t] # "open" => task'[t] = task[t]]_vars
  BY StepsPreserve DEF Write, Preserved, Rows
<1> QED BY <1>1, RowsInvInit, RowsInvStep, PTL DEF Spec, HistoryIsFinal

\* A running instance goes only to steps that come later in the order the steps
\* have at the time, whoever reorders them and whatever completes them.
THEOREM OnlyForward == Spec => ForwardOnly
<1>1. RowsInv /\ [Next]_vars =>
        [\A i \in DOMAIN instance :
            LET old == instance[i].current  new == instance'[i].current
            IN  old # NoStep /\ new \notin {old, NoStep} => order[old] < order[new]]_vars
  BY StepsPreserve DEF Write, Forward, Rows
<1> QED BY <1>1, RowsInvInit, RowsInvStep, PTL DEF Spec, ForwardOnly

-----------------------------------------------------------------------------
(***************************************************************************)
(* Which instances there are.  Some begin, some go on and may complete,    *)
(* and those of one document are cancelled.                                *)
(***************************************************************************)

Begun(ts, d) ==
    \E D : /\ DOMAIN instance' = DOMAIN instance \cup D
           /\ OneOfEach(ts, d, D)
           /\ \A i \in DOMAIN instance : instance'[i] = instance[i]
           /\ \A i \in D : instance'[i].status # "cancelled"

GoneOn ==
    /\ DOMAIN instance' = DOMAIN instance
    /\ \A i \in DOMAIN instance :
          /\ instance'[i].status = "cancelled" <=> instance[i].status = "cancelled"
          /\ instance'[i].status = "running" => instance[i].status = "running"

StoppedFor(d) ==
    /\ DOMAIN instance' = DOMAIN instance
    /\ \A i \in DOMAIN instance :
          instance'[i].status = IF i[2] = d /\ instance[i].status = "running"
                                THEN "cancelled" ELSE instance[i].status

LEMMA StartedBegins ==
    ASSUME RowsInv, NEW ts \in SUBSET Templates, NEW d \in Docs, Write(Started(ts, d))
    PROVE  Begun(ts, d)
<1>0. OrderOK /\ Sound(Rows, DOMAIN order)
  BY DEF RowsInv
<1>1. Rows.instance = instance
  BY DEF Rows
<1>2. PICK D : /\ Started(ts, d) = Stepped(Rows, D, related)
               /\ Steppable(Rows, D)
               /\ OneOfEach(ts, d, D)
  BY <1>0, StartedIsStepped
<1>3. PICK e : e = Stepped(Rows, D, related)
  OBVIOUS
<1>4. LeftByStep(Rows, D, related, e) /\ instance' = e.instance
  BY <1>0, <1>2, <1>3, SteppedRows DEF Write
<1>5. ASSUME NEW i \in D PROVE e.instance[i].status # "cancelled"
  <2> DEFINE s == Target(Rows, i, related)
  <2>1. \/ e.instance[i] = [status |-> "completed", current |-> NoStep]
        \/ e.instance[i] = [status |-> "running", current |-> s]
    BY <1>4 DEF LeftByStep
  <2> HIDE DEF s
  <2> QED BY <2>1
<1>6. /\ DOMAIN instance' = DOMAIN instance \cup D
      /\ \A i \in DOMAIN instance \ D : instance'[i] = instance[i]
  BY <1>1, <1>4 DEF LeftByStep
<1> QED BY <1>2, <1>4, <1>5, <1>6 DEF Begun, OneOfEach

\* The engine takes on only instances that run.
LEMMA SteppedGoesOn ==
    ASSUME OrderOK, NEW db, Sound(db, DOMAIN order), NEW D, Steppable(db, D), NEW rel,
           NEW e, e = Stepped(db, D, rel), D \subseteq DOMAIN db.instance
    PROVE  /\ DOMAIN e.instance = DOMAIN db.instance
           /\ \A i \in DOMAIN db.instance :
                 /\ e.instance[i].status = "cancelled" <=> db.instance[i].status = "cancelled"
                 /\ e.instance[i].status = "running" => db.instance[i].status = "running"
<1>1. LeftByStep(db, D, rel, e)
  BY SteppedRows
<1>2. ASSUME NEW i \in D PROVE e.instance[i].status # "cancelled"
  <2> DEFINE s == Target(db, i, rel)
  <2>1. \/ e.instance[i] = [status |-> "completed", current |-> NoStep]
        \/ e.instance[i] = [status |-> "running", current |-> s]
    BY <1>1 DEF LeftByStep
  <2> HIDE DEF s
  <2> QED BY <2>1
<1>3. \A i \in D : db.instance[i].status = "running"
  BY DEF Steppable
<1> QED BY <1>1, <1>2, <1>3 DEF LeftByStep

LEMMA CompletedGoesOn ==
    ASSUME RowsInv, NEW t \in DOMAIN task, CompleteTask(t)
    PROVE  GoneOn
<1>1. OrderOK /\ Sound(Rows, DOMAIN order) /\ Rows.instance = instance
  BY DEF RowsInv, Rows
<1>2. PICK D : /\ Write(Stepped(Rows, D, related)) /\ Steppable(Rows, D)
               /\ D \subseteq DOMAIN Rows.instance
  BY <1>1, CompletedIsStepped DEF CompleteTask
<1>3. PICK e : e = Stepped(Rows, D, related)
  OBVIOUS
<1>4. instance' = e.instance
  BY <1>2, <1>3 DEF Write
<1> QED BY <1>1, <1>2, <1>3, <1>4, SteppedGoesOn DEF GoneOn

LEMMA RelatedGoesOn ==
    ASSUME RowsInv, NEW d, NEW f, AddRelation(d, f)
    PROVE  GoneOn
<1>1. OrderOK /\ Sound(Rows, DOMAIN order) /\ Rows.instance = instance
  BY DEF RowsInv, Rows
<1>2. PICK rel : rel = related'
  OBVIOUS
<1>3. d # f /\ Write(Refreshed(f, rel, Refreshed(d, rel, Rows)))
  BY <1>2 DEF AddRelation
<1>4. PICK C, D, c, e :
          /\ e = Refreshed(f, rel, Refreshed(d, rel, Rows))
          /\ Steppable(Rows, C) /\ c = Stepped(Rows, C, rel)
          /\ \A i \in C : i \in DOMAIN instance /\ i[2] = d
          /\ Sound(c, DOMAIN order)
          /\ Steppable(c, D) /\ e = Stepped(c, D, rel)
          /\ \A i \in D : i \in DOMAIN instance /\ i[2] = f
  BY <1>1, <1>3, RefreshedTwice
<1>5. /\ DOMAIN c.instance = DOMAIN instance
      /\ \A i \in DOMAIN instance :
            /\ c.instance[i].status = "cancelled" <=> instance[i].status = "cancelled"
            /\ c.instance[i].status = "running" => instance[i].status = "running"
  BY <1>1, <1>4, SteppedGoesOn
<1>6. /\ DOMAIN e.instance = DOMAIN c.instance
      /\ \A i \in DOMAIN c.instance :
            /\ e.instance[i].status = "cancelled" <=> c.instance[i].status = "cancelled"
            /\ e.instance[i].status = "running" => c.instance[i].status = "running"
  <2>1. D \subseteq DOMAIN c.instance
    BY <1>4, <1>5
  <2> QED BY <1>1, <1>4, <2>1, SteppedGoesOn
<1>7. instance' = e.instance
  BY <1>3, <1>4 DEF Write
<1> QED BY <1>5, <1>6, <1>7 DEF GoneOn

LEMMA CancelledStops ==
    ASSUME NEW d, Write(Cancelled(d))
    PROVE  StoppedFor(d)
<1>1. PICK e : e = Cancelled(d)
  OBVIOUS
<1>2. LeftByCancel(d, e) /\ instance' = e.instance
  BY <1>1, CancelledRows DEF Write
<1>3. \A i \in DOMAIN instance :
         IF i[2] = d /\ instance[i].status = "running"
         THEN e.instance[i] = [status |-> "cancelled", current |-> NoStep]
         ELSE e.instance[i] = instance[i]
  BY <1>2 DEF LeftByCancel
<1>4. \A i \in DOMAIN instance :
         IF i[2] = d /\ instance[i].status = "running"
         THEN e.instance[i].status = "cancelled"
         ELSE e.instance[i].status = instance[i].status
  BY <1>3
<1> QED BY <1>2, <1>4 DEF StoppedFor, LeftByCancel

LEMMA CallbackBegins ==
    ASSUME RowsInv, NEW d \in Docs, NEW b \in Boxes, StartMatching(d, b)
    PROVE  Begun(MissingWorkflows(d, b), d)
<1>1. MissingWorkflows(d, b) \in SUBSET Templates
  BY ConstantsAssumption DEF ConstantsAssumption, MissingWorkflows
<1> QED BY <1>1, StartedBegins DEF StartMatching

\* The steps of the system, as far as they begin, go on with or stop instances.
LEMMA StepsOnInstances ==
    ASSUME RowsInv, [Next]_vars
    PROVE  \/ UNCHANGED instance
           \/ \E d \in Docs, b \in Boxes :
                 StartMatching(d, b) /\ Begun(MissingWorkflows(d, b), d)
           \/ \E d \in Docs, t \in Templates : StartWorkflow(t, d) /\ Begun({t}, d)
           \/ GoneOn /\ UNCHANGED <<doc, pending, missed, bound>>
           \/ \E d \in Docs, b \in Boxes : (Move(d, b) \/ DeleteDocument(d)) /\ StoppedFor(d)
<1>1. ASSUME NEW d \in Docs, NEW b \in Boxes, StartMatching(d, b)
      PROVE  Begun(MissingWorkflows(d, b), d)
  BY <1>1, CallbackBegins
<1>2. ASSUME NEW d \in Docs, NEW t \in Templates, StartWorkflow(t, d)
      PROVE  Begun({t}, d)
  BY <1>2, StartedBegins DEF StartWorkflow
<1>3. ASSUME NEW d \in Docs, NEW b \in Boxes, Move(d, b) \/ DeleteDocument(d)
      PROVE  StoppedFor(d)
  BY <1>3, CancelledStops DEF Move, DeleteDocument
<1>4. ASSUME NEW d \in Docs, DeleteDocument(d)
      PROVE  \E b \in Boxes : (Move(d, b) \/ DeleteDocument(d)) /\ StoppedFor(d)
  BY <1>4, CancelledStops, ConstantsAssumption DEF DeleteDocument, ConstantsAssumption
<1>5. ASSUME NEW d \in Docs, NEW f \in Docs, AddRelation(d, f)
      PROVE  GoneOn /\ UNCHANGED <<doc, pending, missed, bound>>
  BY <1>5, RelatedGoesOn DEF AddRelation
<1>6. ASSUME NEW t \in DOMAIN task, CompleteTask(t)
      PROVE  GoneOn /\ UNCHANGED <<doc, pending, missed, bound>>
  BY <1>6, CompletedGoesOn DEF CompleteTask
<1>7. ASSUME NEW d \in Docs, NEW b \in Boxes, NEW auto, StartDropped(d, b) \/ Upload(d, b, auto)
      PROVE  UNCHANGED instance
  BY <1>7 DEF StartDropped, Upload
<1>8. ASSUME NEW d \in Docs, SetMetadata(d) PROVE UNCHANGED instance
  BY <1>8 DEF SetMetadata
<1>9. ASSUME NEW pair, RemoveRelation(pair) PROVE UNCHANGED instance
  BY <1>9 DEF RemoveRelation
<1>10. EditSteps => UNCHANGED instance
  BY DEF EditSteps, CreateStep, SetSortOrder, DeleteStep, ReorderSteps, Edit
<1>11. UNCHANGED vars => UNCHANGED instance
  BY DEF vars
<1> QED BY <1>1, <1>2, <1>3, <1>4, <1>5, <1>6, <1>7, <1>8, <1>9, <1>10, <1>11
       DEF Next, Callback, DocumentRequest

\* However often a document leaves a box and comes back, and whatever callbacks
\* overlap with requests, an automatic template has one instance for it that
\* was not cancelled.
THEOREM AutomaticOnce == Spec => []OneAutomaticRun
<1>1. Init => OneAutomaticRun
  BY DEF Init, OneAutomaticRun
<1>2. ASSUME RowsInv, OneAutomaticRun, [Next]_vars PROVE OneAutomaticRun'
  <2> USE DEF OneAutomaticRun
  <2>1. ASSUME NEW ts, NEW d, Begun(ts, d),
               \A t \in ts : t \in Automatic =>
                  \A i \in InstancesOf(d) : i[1] = t => instance[i].status = "cancelled"
        PROVE  OneAutomaticRun'
    BY <1>2, <2>1 DEF Begun, OneOfEach, InstancesOf
  <2>2. ASSUME NEW d \in Docs, NEW b \in Boxes,
               StartMatching(d, b), Begun(MissingWorkflows(d, b), d)
        PROVE  OneAutomaticRun'
    BY <2>1, <2>2 DEF MissingWorkflows
  <2>3. ASSUME NEW d \in Docs, NEW t \in Templates, StartWorkflow(t, d), Begun({t}, d)
        PROVE  OneAutomaticRun'
    BY <2>1, <2>3 DEF StartWorkflow
  <2>4. GoneOn => OneAutomaticRun'
    BY <1>2 DEF GoneOn
  <2>5. ASSUME NEW d, StoppedFor(d) PROVE OneAutomaticRun'
    BY <1>2, <2>5 DEF StoppedFor
  <2>6. UNCHANGED instance => OneAutomaticRun'
    BY <1>2
  <2> QED BY <1>2, <2>2, <2>3, <2>4, <2>5, <2>6, StepsOnInstances
<1> QED BY <1>1, <1>2, RowsInvInit, RowsInvStep, PTL DEF Spec

-----------------------------------------------------------------------------
(***************************************************************************)
(* Automatic starts: what a document is owed it has, unless a callback     *)
(* still owes it or was lost.                                              *)
(***************************************************************************)

Runs(t, d) == \E i \in InstancesOf(d) : i[1] = t /\ instance[i].status # "cancelled"

\* Documents d in D are as they were, and so are the callbacks for them.
Unmoved(D) ==
    \A d \in D : /\ doc'[d].status = doc[d].status /\ doc'[d].auto = doc[d].auto
                 /\ doc'[d].box = doc[d].box
                 /\ \A b \in Boxes : /\ pending'[<<d, b>>] = pending[<<d, b>>]
                                     /\ <<d, b>> \in missed => <<d, b>> \in missed'

\* What AutoStarted says of d in the next state.
Owed(d) ==
    /\ Active(d)' /\ doc'[d].auto /\ pending'[<<d, doc'[d].box>>] = 0
    /\ <<d, doc'[d].box>> \notin missed'
    => \A t \in Automatic : Applies(t, doc'[d].box) => Runs(t, d)'

LEMMA OwedStill ==
    ASSUME OthersTyped, AutoStarted, NEW d \in Docs, Unmoved({d}),
           \A t \in Automatic : Runs(t, d) => Runs(t, d)'
    PROVE  Owed(d)
<1> USE DEF Owed
<1>1. doc[d].box \in Boxes
  BY DEF OthersTyped, DocumentRow
<1> QED BY <1>1 DEF AutoStarted, Unmoved, Active, Runs

\* An instance that is not cancelled stays, except where its document leaves.
LEMMA RunsStay ==
    ASSUME NEW d, NEW t, Runs(t, d),
           \/ UNCHANGED instance \/ GoneOn
           \/ \E ts, e : Begun(ts, e)
           \/ \E e : e # d /\ StoppedFor(e)
    PROVE  Runs(t, d)'
<1>1. PICK i \in DOMAIN instance : i[2] = d /\ i[1] = t /\ instance[i].status # "cancelled"
  BY DEF Runs, InstancesOf
<1>2. i \in DOMAIN instance' /\ instance'[i].status # "cancelled"
  BY <1>1 DEF GoneOn, Begun, StoppedFor
<1> QED BY <1>1, <1>2 DEF Runs, InstancesOf

LEMMA OwedStep ==
    ASSUME RowsInv, OthersTyped, AutoStarted, [Next]_vars
    PROVE  AutoStarted'
<1>1. SUFFICES ASSUME NEW d \in Docs PROVE Owed(d)
  BY DEF AutoStarted, Owed, Active, Runs
<1> USE DEF Owed
<1>2. /\ doc[d].box \in Boxes
      /\ \A p \in Docs \X Boxes : pending[p] \in Nat
      /\ doc \in [Docs -> DocumentRow]
      /\ pending \in [Docs \X Boxes -> Nat]
  BY DEF OthersTyped, DocumentRow
<1>3. ASSUME UNCHANGED <<doc, pending, missed>>, UNCHANGED instance \/ GoneOn
      PROVE  Owed(d)
  BY <1>3, OwedStill, RunsStay DEF Unmoved
<1>4. ASSUME NEW c \in Docs, NEW b \in Boxes, StartMatching(c, b),
             Begun(MissingWorkflows(c, b), c)
      PROVE  Owed(d)
  <2>1. /\ UNCHANGED doc /\ pending' = [pending EXCEPT ![<<c, b>>] = @ - 1]
        /\ missed' = missed \ {<<c, b>>}
    BY <1>4 DEF StartMatching
  <2>2. CASE d = c /\ doc[d].box = b
    <3>1. ASSUME NEW t \in Automatic, Applies(t, b) PROVE Runs(t, d)'
      <4>1. CASE t \in MissingWorkflows(c, b)
        BY <1>4, <2>2, <4>1 DEF Begun, OneOfEach, Runs, InstancesOf
      <4>2. CASE t \notin MissingWorkflows(c, b)
        <5>1. Runs(t, d)
          BY <2>2, <3>1, <4>2 DEF MissingWorkflows, Runs
        <5> QED BY <1>4, <5>1, RunsStay
      <4> QED BY <4>1, <4>2
    <3> QED BY <2>1, <2>2, <3>1
  <2>3. CASE ~ (d = c /\ doc[d].box = b)
    <3>1. <<d, doc[d].box>> # <<c, b>>
      BY <2>3
    <3>2. pending'[<<d, doc[d].box>>] = pending[<<d, doc[d].box>>]
      BY <1>2, <2>1, <3>1
    <3>3. \A t \in Automatic : Runs(t, d) => Runs(t, d)'
      BY <1>4, RunsStay
    <3>4. <<d, doc[d].box>> \in missed => <<d, doc[d].box>> \in missed'
      BY <2>1, <3>1
    <3> QED BY <2>1, <3>2, <3>3, <3>4 DEF AutoStarted, Active, Runs
  <2> QED BY <2>2, <2>3
<1>5. ASSUME NEW c \in Docs, NEW b \in Boxes, StartDropped(c, b) PROVE Owed(d)
  <2>1. /\ UNCHANGED <<doc, instance>> /\ pending' = [pending EXCEPT ![<<c, b>>] = @ - 1]
        /\ missed' = missed \cup {<<c, b>>}
    BY <1>5 DEF StartDropped
  <2>2. CASE <<d, doc[d].box>> = <<c, b>>
    BY <2>1, <2>2
  <2>3. CASE <<d, doc[d].box>> # <<c, b>>
    <3>1. pending'[<<d, doc[d].box>>] = pending[<<d, doc[d].box>>]
      BY <1>2, <2>1, <2>3
    <3>2. \A t \in Automatic : Runs(t, d) => Runs(t, d)'
      BY <2>1, RunsStay
    <3> QED BY <2>1, <3>1, <3>2 DEF AutoStarted, Active, Runs
  <2> QED BY <2>2, <2>3
<1>6. ASSUME NEW c \in Docs, NEW b \in Boxes, NEW auto \in BOOLEAN, Upload(c, b, auto)
      PROVE  Owed(d)
  <2>1. /\ doc' = [doc EXCEPT ![c] = [status |-> "active", box |-> b,
                                     filled |-> FALSE, auto |-> auto]]
        /\ pending' = [pending EXCEPT ![<<c, b>>] = IF auto THEN @ + 1 ELSE @]
        /\ UNCHANGED <<instance, missed>>
    BY <1>6 DEF Upload
  <2>2. CASE d = c
    <3>1. doc'[d].box = b /\ doc'[d].auto = auto
      BY <1>2, <2>1, <2>2
    <3>2. auto => pending'[<<d, b>>] # 0
      BY <1>2, <2>1, <2>2
    <3> QED BY <3>1, <3>2
  <2>3. CASE d # c
    <3>1. Unmoved({d})
      BY <1>2, <2>1, <2>3 DEF Unmoved
    <3> QED BY <2>1, <3>1, OwedStill, RunsStay
  <2> QED BY <2>2, <2>3
<1>7. ASSUME NEW c \in Docs, NEW b \in Boxes, Move(c, b), StoppedFor(c) PROVE Owed(d)
  <2>1. /\ doc' = [doc EXCEPT ![c].box = b, ![c].auto = TRUE]
        /\ pending' = [pending EXCEPT ![<<c, b>>] = @ + 1]
        /\ UNCHANGED missed
    BY <1>7 DEF Move
  <2>2. CASE d = c
    <3>1. doc'[d].box = b
      BY <1>2, <2>1, <2>2 DEF DocumentRow
    <3>2. pending'[<<d, b>>] # 0
      BY <1>2, <2>1, <2>2
    <3> QED BY <3>1, <3>2
  <2>3. CASE d # c
    <3>1. Unmoved({d})
      BY <1>2, <2>1, <2>3 DEF Unmoved
    <3>2. \A t \in Automatic : Runs(t, d) => Runs(t, d)'
      BY <1>7, <2>3, RunsStay
    <3> QED BY <2>1, <3>1, <3>2, OwedStill
  <2> QED BY <2>2, <2>3
<1>8. ASSUME NEW c \in Docs, DeleteDocument(c), StoppedFor(c) PROVE Owed(d)
  <2>1. doc' = [doc EXCEPT ![c].status = "deleted"] /\ UNCHANGED <<pending, missed>>
    BY <1>8 DEF DeleteDocument
  <2>2. CASE d = c
    <3>1. doc'[d].status = "deleted"
      BY <1>2, <2>1, <2>2 DEF DocumentRow
    <3> QED BY <3>1 DEF Active
  <2>3. CASE d # c
    <3>1. Unmoved({d})
      BY <1>2, <2>1, <2>3 DEF Unmoved
    <3>2. \A t \in Automatic : Runs(t, d) => Runs(t, d)'
      BY <1>8, <2>3, RunsStay
    <3> QED BY <2>1, <3>1, <3>2, OwedStill
  <2> QED BY <2>2, <2>3
<1>9. ASSUME NEW c \in Docs, SetMetadata(c) PROVE Owed(d)
  <2> DEFINE v == ~ doc[c].filled
  <2>1. doc' = [doc EXCEPT ![c].filled = v] /\ UNCHANGED <<instance, pending, missed>>
    BY <1>9 DEF SetMetadata
  <2> HIDE DEF v
  <2>2. Unmoved({d})
    BY <1>2, <2>1 DEF Unmoved, DocumentRow
  <2> QED BY <2>1, <2>2, OwedStill, RunsStay
<1>10. ASSUME NEW c \in Docs, NEW t \in Templates, StartWorkflow(t, c), Begun({t}, c) PROVE Owed(d)
  <2>1. UNCHANGED <<doc, pending, missed>>
    BY <1>10 DEF StartWorkflow
  <2>2. \A u \in Automatic : Runs(u, d) => Runs(u, d)'
    BY <1>10, RunsStay
  <2> QED BY <2>1, <2>2, OwedStill DEF Unmoved
<1>11. ASSUME NEW pair, RemoveRelation(pair) PROVE UNCHANGED <<doc, pending, missed, instance>>
  BY <1>11 DEF RemoveRelation
<1>12. EditSteps => UNCHANGED <<doc, pending, missed, instance>>
  BY DEF EditSteps, CreateStep, SetSortOrder, DeleteStep, ReorderSteps, Edit
<1>13. UNCHANGED vars => UNCHANGED <<doc, pending, missed, instance>>
  BY DEF vars
<1>14. ASSUME NEW c \in Docs, NEW f \in Docs, AddRelation(c, f) PROVE Owed(d)
  BY <1>3, <1>14, RelatedGoesOn DEF AddRelation
<1>15. ASSUME NEW t \in DOMAIN task, CompleteTask(t) PROVE Owed(d)
  BY <1>3, <1>15, CompletedGoesOn DEF CompleteTask
<1> HIDE DEF Owed
<1>16. ASSUME NEW c \in Docs, NEW b \in Boxes, StartMatching(c, b) \/ StartDropped(c, b)
       PROVE  Owed(d)
  <2>1. StartMatching(c, b) => Begun(MissingWorkflows(c, b), c)
    BY CallbackBegins
  <2> QED BY <1>4, <1>5, <1>16, <2>1
<1>17. ASSUME NEW c \in Docs, DocumentRequest(c) PROVE Owed(d)
  <2>1. \A b \in Boxes : Move(c, b) => StoppedFor(c)
    BY CancelledStops DEF Move
  <2>2. DeleteDocument(c) => StoppedFor(c)
    BY CancelledStops DEF DeleteDocument
  <2>3. \A t \in Templates : StartWorkflow(t, c) => Begun({t}, c)
    BY StartedBegins DEF StartWorkflow
  <2> QED BY <1>6, <1>7, <1>8, <1>9, <1>10, <1>14, <1>17, <2>1, <2>2, <2>3 DEF DocumentRequest
<1> QED BY <1>3, <1>11, <1>12, <1>13, <1>15, <1>16, <1>17 DEF Next, Callback

\* A document whose last arrival starts workflows gets every automatic template
\* that names its box, whatever callback runs late or is lost for another box or
\* document, unless the callback of that arrival was itself lost.
THEOREM AutomaticStarts == Spec => []AutoStarted
<1>1. Init => AutoStarted
  BY DEF Init, AutoStarted, Active, NoDoc
<1> QED BY <1>1, OwedStep, RowsInvInit, RowsInvStep, OthersTypedInit, OthersTypedStep, PTL DEF Spec

-----------------------------------------------------------------------------
(***************************************************************************)
(* Where workflows run: what may leave one where it does not belong.       *)
(***************************************************************************)

\* A callback that comes too late for its document.
Overtaken(d, b) == StartMatching(d, b) /\ ~ (Active(d) /\ doc[d].box = b)

\* No instance comes to run where it does not belong.
NoneMisplaced == Misplaced' \subseteq Misplaced

\* Instances that ran before are misplaced by nothing that leaves the documents
\* they fit on where they are.
LEMMA NoneWhereStaying ==
    ASSUME RowsInv, UNCHANGED instance \/ GoneOn,
           \A d \in Docs : Active(d) => Active(d)' /\ doc'[d].box = doc[d].box
    PROVE  NoneMisplaced
<1>1. \A i \in DOMAIN instance : i[2] \in Docs
  BY DEF RowsInv, Sound, InstancesTyped, InstanceIds, Rows
<1> QED BY <1>1 DEF NoneMisplaced, Misplaced, GoneOn, Active

LEMMA NoneWhereFitting ==
    ASSUME NEW d \in Docs, NEW ts, Begun(ts, d), UNCHANGED doc,
           Active(d), \A t \in ts : Applies(t, doc[d].box)
    PROVE  NoneMisplaced
<1>1. PICK D : /\ DOMAIN instance' = DOMAIN instance \cup D
               /\ \A i \in DOMAIN instance : instance'[i] = instance[i]
               /\ \A i \in D : i[2] = d /\ i[1] \in ts
  BY DEF Begun, OneOfEach
<1> QED BY <1>1 DEF NoneMisplaced, Misplaced, Active

\* A move or a deletion stops what runs on its document, and leaves the others.
LEMMA NoneWhereStopped ==
    ASSUME RowsInv, NEW d \in Docs, StoppedFor(d), \A c \in Docs : c # d => doc'[c] = doc[c]
    PROVE  NoneMisplaced
<1>1. \A i \in DOMAIN instance : i[2] \in Docs
  BY DEF RowsInv, Sound, InstancesTyped, InstanceIds, Rows
<1> QED BY <1>1 DEF NoneMisplaced, Misplaced, StoppedFor, Active

LEMMA MisplacedStep ==
    ASSUME RowsInv, OthersTyped, [Next]_vars
    PROVE  \A i \in Misplaced' \ Misplaced : \E b \in Boxes : Overtaken(i[2], b)
<1> DEFINE Fine == \A i \in Misplaced' \ Misplaced : \E b \in Boxes : Overtaken(i[2], b)
<1>1. doc \in [Docs -> DocumentRow]
  BY DEF OthersTyped
<1>2. NoneMisplaced => Fine
  BY DEF NoneMisplaced
<1>3. ASSUME UNCHANGED doc, UNCHANGED instance \/ GoneOn PROVE NoneMisplaced
  BY <1>3, NoneWhereStaying DEF Active
<1>4. ASSUME NEW d \in Docs, NEW b \in Boxes, StartMatching(d, b),
             Begun(MissingWorkflows(d, b), d)
      PROVE  Fine
  <2>1. UNCHANGED doc
    BY <1>4 DEF StartMatching
  <2>2. CASE Active(d) /\ doc[d].box = b
    <3>1. \A t \in MissingWorkflows(d, b) : Applies(t, doc[d].box)
      BY <2>2 DEF MissingWorkflows
    <3>2. NoneMisplaced
      BY <1>4, <2>1, <2>2, <3>1, NoneWhereFitting
    <3> QED BY <1>2, <3>2
  <2>3. CASE ~ (Active(d) /\ doc[d].box = b)
    <3>1. Overtaken(d, b)
      BY <1>4, <2>3 DEF Overtaken
    <3>2. PICK D : /\ DOMAIN instance' = DOMAIN instance \cup D
                   /\ \A i \in DOMAIN instance : instance'[i] = instance[i]
                   /\ \A i \in D : i[2] = d
      BY <1>4 DEF Begun, OneOfEach
    <3>3. \A i \in Misplaced' \ Misplaced : i[2] = d
      BY <2>1, <3>2 DEF Misplaced, Active
    <3> QED BY <3>1, <3>3
  <2> QED BY <2>2, <2>3
<1>5. ASSUME NEW d \in Docs, NEW b \in Boxes, StartDropped(d, b) PROVE NoneMisplaced
  BY <1>3, <1>5 DEF StartDropped
<1>6. ASSUME NEW d \in Docs, NEW b \in Boxes, NEW auto \in BOOLEAN, Upload(d, b, auto)
      PROVE  NoneMisplaced
  <2>1. /\ doc' = [doc EXCEPT ![d] = [status |-> "active", box |-> b,
                                     filled |-> FALSE, auto |-> auto]]
        /\ UNCHANGED instance /\ doc[d].status = "none"
    BY <1>6 DEF Upload
  <2>2. \A c \in Docs : c # d => doc'[c] = doc[c]
    BY <1>1, <2>1
  <2> QED BY <2>1, <2>2, NoneWhereStaying DEF Active
<1>7. ASSUME NEW d \in Docs, NEW b \in Boxes, Move(d, b) PROVE NoneMisplaced
  <2>1. StoppedFor(d) /\ doc' = [doc EXCEPT ![d].box = b, ![d].auto = TRUE]
    BY <1>7, CancelledStops DEF Move
  <2>2. \A c \in Docs : c # d => doc'[c] = doc[c]
    BY <1>1, <2>1
  <2> QED BY <2>1, <2>2, NoneWhereStopped
<1>8. ASSUME NEW d \in Docs, DeleteDocument(d) PROVE NoneMisplaced
  <2>1. StoppedFor(d) /\ doc' = [doc EXCEPT ![d].status = "deleted"]
    BY <1>8, CancelledStops DEF DeleteDocument
  <2>2. \A c \in Docs : c # d => doc'[c] = doc[c]
    BY <1>1, <2>1
  <2> QED BY <2>1, <2>2, NoneWhereStopped
<1>9. ASSUME NEW d \in Docs, SetMetadata(d) PROVE NoneMisplaced
  <2> DEFINE v == ~ doc[d].filled
  <2>1. doc' = [doc EXCEPT ![d].filled = v] /\ UNCHANGED instance
    BY <1>9 DEF SetMetadata
  <2> HIDE DEF v
  <2>2. \A c \in Docs : Active(c) => Active(c)' /\ doc'[c].box = doc[c].box
    BY <1>1, <2>1 DEF Active, DocumentRow
  <2> QED BY <2>1, <2>2, NoneWhereStaying
<1>10. ASSUME NEW d \in Docs, NEW t \in Templates, StartWorkflow(t, d) PROVE NoneMisplaced
  <2>1. Begun({t}, d)
    BY <1>10, StartedBegins DEF StartWorkflow
  <2>2. UNCHANGED doc /\ Active(d) /\ Applies(t, doc[d].box)
    BY <1>10 DEF StartWorkflow
  <2> QED BY <2>1, <2>2, NoneWhereFitting
<1>11. ASSUME NEW pair, RemoveRelation(pair) PROVE UNCHANGED <<doc, instance>>
  BY <1>11 DEF RemoveRelation
<1>12. EditSteps => UNCHANGED <<doc, instance>>
  BY DEF EditSteps, CreateStep, SetSortOrder, DeleteStep, ReorderSteps, Edit
<1>13. UNCHANGED vars => UNCHANGED <<doc, instance>>
  BY DEF vars
<1>14. ASSUME NEW d \in Docs, NEW f \in Docs, AddRelation(d, f) PROVE NoneMisplaced
  BY <1>3, <1>14, RelatedGoesOn DEF AddRelation
<1>15. ASSUME NEW t \in DOMAIN task, CompleteTask(t) PROVE NoneMisplaced
  BY <1>3, <1>15, CompletedGoesOn DEF CompleteTask
<1> HIDE DEF Fine
<1>16. ASSUME NEW d \in Docs, NEW b \in Boxes, StartMatching(d, b) PROVE Fine
  BY <1>4, <1>16, CallbackBegins
<1>17. ASSUME NEW d \in Docs, DocumentRequest(d) PROVE NoneMisplaced
  BY <1>6, <1>7, <1>8, <1>9, <1>10, <1>14, <1>17 DEF DocumentRequest
<1>18. Fine
  BY <1>2, <1>3, <1>5, <1>11, <1>12, <1>13, <1>15, <1>16, <1>17 DEF Next, Callback
<1> QED BY <1>18 DEF Fine

\* The one way for a workflow to run on a deleted document, or in a box that its
\* template is not meant for, is a callback that a move or a deletion overtook:
\* moving, deleting, starting by hand and every callback in time leave none.
THEOREM WorkflowsFit == Spec => RunningFits
<1>1. ASSUME RowsInv, OthersTyped, [Next]_vars
      PROVE  [\A i \in Misplaced' \ Misplaced :
                \E b \in Boxes : StartMatching(i[2], b) /\ ~ (Active(i[2]) /\ doc[i[2]].box = b)]_vars
  BY <1>1, MisplacedStep DEF Overtaken
<1> QED BY <1>1, RowsInvInit, RowsInvStep, OthersTypedInit, OthersTypedStep, PTL DEF Spec, RunningFits

-----------------------------------------------------------------------------
(***************************************************************************)
(* Tasks that wait for related documents.                                  *)
(***************************************************************************)

\* A step that asks for related documents of any box, whatever their workflows.
Asks(s) == Config[s].kind = "relation" /\ Config[s].boxes = {} /\ ~ Config[s].done

Near(d, rel) == {e \in Docs \ {d} : {d, e} \in rel /\ Active(e)}

Enough(s, d, rel) == Cardinality(Near(d, rel)) >= Config[s].min

LEMMA AskingIsMet ==
    ASSUME NEW s, Asks(s), NEW d, NEW rel, NEW inst
    PROVE  RelationMet(s, d, rel, inst) <=> Enough(s, d, rel)
<1>1. RelatedFor(s, d, rel, inst) = Near(d, rel)
  BY DEF RelatedFor, Near, Asks
<1> QED BY <1>1 DEF RelationMet, Enough

\* The tasks of documents outside X wait for something.
TasksWait(db, rel, X) ==
    \A t \in DOMAIN db.task : t[1][2] \notin X /\ db.task[t] = "open" /\ Asks(t[2]) =>
                                 ~ Enough(t[2], t[1][2], rel)

\* A new task is one for a step that is not satisfied.
LEMMA SteppedWaits ==
    ASSUME OrderOK, NEW db, Sound(db, DOMAIN order), NEW D, Steppable(db, D), NEW rel, NEW X,
           \A t \in DOMAIN db.task :
              t[1] \notin D /\ t[1][2] \notin X /\ db.task[t] = "open" /\ Asks(t[2]) =>
                 ~ Enough(t[2], t[1][2], rel),
           NEW e, e = Stepped(db, D, rel)
    PROVE  TasksWait(e, rel, X)
<1>1. LeftByStep(db, D, rel, e)
  BY SteppedRows
<1>2. ASSUME NEW t \in DOMAIN e.task, t[1][2] \notin X, e.task[t] = "open", Asks(t[2])
      PROVE  ~ Enough(t[2], t[1][2], rel)
  <2>1. CASE t \in NewTasks(db, D, rel)
    <3>1. ~ Satisfied(t[2], t[1][2], rel, db.instance)
      BY <2>1, NewTasksFit
    <3>2. ~ RelationMet(t[2], t[1][2], rel, db.instance)
      BY <1>2, <3>1 DEF Satisfied, Asks
    <3> QED BY <1>2, <3>2, AskingIsMet
  <2>2. CASE t \in DOMAIN db.task
    BY <1>1, <1>2, <2>2 DEF LeftByStep
  <2> QED BY <1>1, <1>2, <2>1, <2>2 DEF LeftByStep
<1> QED BY <1>2 DEF TasksWait

\* A relation is of documents that were uploaded.
RelatedExist == \A p \in related : \A d \in p : d \in Docs /\ doc[d].status # "none"

WaitInv == RelatedExist /\ TasksWait(Rows, related, {})

LEMMA FewerIsLess ==
    ASSUME NEW N \in SUBSET Docs, NEW M \in SUBSET N
    PROVE  /\ Cardinality(M) \in Nat /\ Cardinality(N) \in Nat
           /\ Cardinality(M) <= Cardinality(N)
<1>1. IsFiniteSet(N)
  BY FS_Subset, ConstantsAssumption DEF ConstantsAssumption
<1>2. IsFiniteSet(M) /\ Cardinality(M) <= Cardinality(N)
  BY <1>1, FS_Subset
<1> QED BY <1>1, <1>2, FS_CardinalityType

\* Documents that were waited for do not appear, nor tasks that wait.
LEMMA WaitsStill ==
    ASSUME RowsInv, WaitInv,
           DOMAIN task' \subseteq DOMAIN task,
           \A t \in DOMAIN task' : task'[t] = "open" => task[t] = "open",
           \A d, e \in Docs : {d, e} \in related' /\ Active(e)' => {d, e} \in related /\ Active(e)
    PROVE  TasksWait(Rows, related, {})'
<1>1. TasksTyped(Rows, DOMAIN order) /\ Rows.instance = instance /\ Rows.task = task
      /\ InstancesTyped(Rows, DOMAIN order) /\ DOMAIN order \subseteq Steps
  BY DEF RowsInv, Sound, Rows, OrderOK
<1>2. Rows'.task = task'
  BY DEF Rows
<1>3. SUFFICES ASSUME NEW t \in DOMAIN task', task'[t] = "open", Asks(t[2]),
                      Enough(t[2], t[1][2], related)'
               PROVE  FALSE
  BY <1>2 DEF TasksWait, Asks
<1>4. PICK d : d = t[1][2]
  OBVIOUS
<1>5. PICK s : s = t[2]
  OBVIOUS
<1>6. t \in DOMAIN task /\ task[t] = "open" /\ t[1] \in InstanceIds /\ s \in Steps
  BY <1>1, <1>3, <1>5 DEF TasksTyped, InstancesTyped
<1>7. d \in Docs
  BY <1>4, <1>6 DEF InstanceIds
<1>8. ~ Enough(s, d, related)
  BY <1>1, <1>3, <1>4, <1>5, <1>6 DEF WaitInv, TasksWait
<1>9. PICK N : N = Near(d, related)
  OBVIOUS
<1>10. PICK M : M = Near(d, related)'
  OBVIOUS
<1>11. N \in SUBSET Docs /\ M \in SUBSET N
  BY <1>7, <1>9, <1>10 DEF Near
<1>12. Config[s].min \in Nat
  BY <1>6, ConstantsAssumption DEF ConstantsAssumption
<1>13. Cardinality(M) >= Config[s].min /\ ~ (Cardinality(N) >= Config[s].min)
  BY <1>3, <1>4, <1>5, <1>8, <1>9, <1>10 DEF Enough
<1> QED BY <1>11, <1>12, <1>13, FewerIsLess

LEMMA StartedWaits ==
    ASSUME RowsInv, WaitInv, NEW D, EngineStep(D, related), UNCHANGED <<doc, related>>
    PROVE  WaitInv'
<1>1. PICK e : e = Stepped(Rows, D, related)
  OBVIOUS
<1>2. Rows' = e
  <2>1. LeftByStep(Rows, D, related, e) /\ Write(e)
    BY <1>1, SteppedRows DEF RowsInv, EngineStep
  <2> QED BY <2>1 DEF LeftByStep, Write, Rows
<1>3. TasksWait(e, related, {})
  <2>1. \A t \in DOMAIN Rows.task :
           t[1] \notin D /\ t[1][2] \notin {} /\ Rows.task[t] = "open" /\ Asks(t[2]) =>
              ~ Enough(t[2], t[1][2], related)
    BY DEF WaitInv, TasksWait
  <2> QED BY <1>1, <2>1, SteppedWaits DEF RowsInv, EngineStep
<1>4. TasksWait(Rows, related, {})'
  BY <1>2, <1>3 DEF TasksWait, Enough, Near, Active
<1> QED BY <1>4 DEF WaitInv, RelatedExist

\* A new relation of d and f takes on every task of either that it satisfies,
\* and is nothing to the others.
LEMMA RelatedWaits ==
    ASSUME RowsInv, WaitInv, NEW d \in Docs, NEW f \in Docs, AddRelation(d, f)
    PROVE  WaitInv'
<1>1. OrderOK /\ Sound(Rows, DOMAIN order) /\ UNCHANGED doc
  BY DEF RowsInv, AddRelation
<1>2. PICK rel : rel = related'
  OBVIOUS
<1>3. d # f /\ Write(Refreshed(f, rel, Refreshed(d, rel, Rows))) /\ rel = related \cup {{d, f}}
  BY <1>2 DEF AddRelation
<1>4. PICK C, D, c, e :
          /\ e = Refreshed(f, rel, Refreshed(d, rel, Rows))
          /\ C = TakenOn(d, rel, Rows) /\ Steppable(Rows, C) /\ c = Stepped(Rows, C, rel)
          /\ \A i \in C : i \in DOMAIN instance /\ i[2] = d
          /\ Sound(c, DOMAIN order)
          /\ D = TakenOn(f, rel, c) /\ Steppable(c, D) /\ e = Stepped(c, D, rel)
          /\ \A i \in D : i \in DOMAIN instance /\ i[2] = f
  BY <1>1, <1>3, RefreshedTwice
<1>5. ASSUME NEW db, NEW x, NEW t \in DOMAIN db.task, t[1][2] = x, t[1] \notin TakenOn(x, rel, db),
             db.task[t] = "open", Asks(t[2])
      PROVE  ~ Enough(t[2], t[1][2], rel)
  <2>1. t \notin MetBy(x, rel, db)
    BY <1>5 DEF TakenOn
  <2>2. ~ RelationMet(t[2], x, rel, db.instance)
    BY <1>5, <2>1 DEF MetBy, Asks
  <2> QED BY <1>5, <2>2, AskingIsMet
<1>6. ASSUME NEW s, NEW x, x \notin {d, f} PROVE Enough(s, x, rel) <=> Enough(s, x, related)
  <2>1. Near(x, rel) = Near(x, related)
    BY <1>3, <1>6 DEF Near
  <2> QED BY <2>1 DEF Enough
<1>7. TasksWait(c, rel, {f})
  <2>1. ASSUME NEW t \in DOMAIN Rows.task, t[1] \notin C, t[1][2] \notin {f},
               Rows.task[t] = "open", Asks(t[2])
        PROVE  ~ Enough(t[2], t[1][2], rel)
    <3>1. CASE t[1][2] = d
      BY <1>4, <1>5, <2>1, <3>1
    <3>2. CASE t[1][2] # d
      BY <1>6, <2>1, <3>2 DEF WaitInv, TasksWait
    <3> QED BY <3>1, <3>2
  <2> QED BY <1>1, <1>4, <2>1, SteppedWaits
<1>8. TasksWait(e, rel, {})
  <2>1. ASSUME NEW t \in DOMAIN c.task, t[1] \notin D, t[1][2] \notin {},
               c.task[t] = "open", Asks(t[2])
        PROVE  ~ Enough(t[2], t[1][2], rel)
    <3>1. CASE t[1][2] = f
      BY <1>4, <1>5, <2>1, <3>1
    <3>2. CASE t[1][2] # f
      BY <1>7, <2>1, <3>2 DEF TasksWait
    <3> QED BY <3>1, <3>2
  <2> QED BY <1>1, <1>4, <2>1, SteppedWaits
<1>9. Rows' = e
  <2>1. LeftByStep(c, D, rel, e) /\ Write(e)
    BY <1>1, <1>3, <1>4, SteppedRows
  <2> QED BY <2>1 DEF LeftByStep, Write, Rows
<1>10. TasksWait(Rows, related, {})'
  BY <1>1, <1>2, <1>8, <1>9 DEF TasksWait, Enough, Near, Active
<1>11. RelatedExist'
  <2>1. Active(d) /\ Active(f)
    BY DEF AddRelation
  <2> QED BY <1>1, <1>2, <1>3, <2>1 DEF WaitInv, RelatedExist, Active
<1> QED BY <1>10, <1>11 DEF WaitInv

LEMMA WaitStep ==
    ASSUME RowsInv, OthersTyped, WaitInv, [Next]_vars
    PROVE  WaitInv'
<1>1. doc \in [Docs -> DocumentRow] /\ RelatedExist
  BY DEF OthersTyped, WaitInv
<1>2. ASSUME UNCHANGED task, related' \subseteq related, UNCHANGED doc
      PROVE  WaitInv'
  <2>1. TasksWait(Rows, related, {})'
    BY <1>2, WaitsStill DEF Active
  <2> QED BY <1>1, <1>2, <2>1 DEF WaitInv, RelatedExist
<1>3. ASSUME NEW d \in Docs, NEW b \in Boxes, StartMatching(d, b) PROVE WaitInv'
  <2>1. \E D : EngineStep(D, related)
    <3>1. MissingWorkflows(d, b) \in SUBSET Templates
      BY ConstantsAssumption DEF MissingWorkflows, ConstantsAssumption
    <3>2. PICK ts \in SUBSET Templates : ts = MissingWorkflows(d, b)
      BY <3>1
    <3>3. PICK D : Started(ts, d) = Stepped(Rows, D, related) /\ Steppable(Rows, D)
      BY StartedIsStepped DEF RowsInv
    <3> QED BY <1>3, <3>2, <3>3 DEF StartMatching, EngineStep
  <2> QED BY <1>3, <2>1, StartedWaits DEF StartMatching
<1>4. ASSUME NEW d \in Docs, NEW t \in Templates, StartWorkflow(t, d) PROVE WaitInv'
  <2>1. \E D : EngineStep(D, related)
    BY <1>4, StartedIsStepped DEF StartWorkflow, EngineStep, RowsInv
  <2> QED BY <1>4, <2>1, StartedWaits DEF StartWorkflow
<1>5. ASSUME NEW t \in DOMAIN task, CompleteTask(t) PROVE WaitInv'
  <2>1. \E D : EngineStep(D, related)
    BY <1>5, CompletedIsStepped DEF CompleteTask, EngineStep, RowsInv
  <2> QED BY <1>5, <2>1, StartedWaits DEF CompleteTask
<1>6. ASSUME NEW d \in Docs, NEW b \in Boxes, NEW auto \in BOOLEAN, Upload(d, b, auto)
      PROVE  WaitInv'
  <2>1. /\ doc' = [doc EXCEPT ![d] = [status |-> "active", box |-> b,
                                     filled |-> FALSE, auto |-> auto]]
        /\ UNCHANGED <<related, task>> /\ doc[d].status = "none"
    BY <1>6 DEF Upload
  <2>2. \A c \in Docs : c # d => doc'[c] = doc[c]
    BY <1>1, <2>1
  <2>3. \A c, e \in Docs : {c, e} \in related => e # d /\ c # d
    BY <1>1, <2>1 DEF RelatedExist
  <2>4. TasksWait(Rows, related, {})'
    BY <2>1, <2>2, <2>3, WaitsStill DEF Active
  <2>5. RelatedExist'
    BY <1>1, <2>1, <2>2 DEF RelatedExist
  <2> QED BY <2>4, <2>5 DEF WaitInv
<1>7. ASSUME NEW d \in Docs, NEW b \in Boxes, Move(d, b) \/ DeleteDocument(d) PROVE WaitInv'
  <2>1. /\ \/ doc' = [doc EXCEPT ![d].box = b, ![d].auto = TRUE]
           \/ doc' = [doc EXCEPT ![d].status = "deleted"]
        /\ UNCHANGED related /\ Write(Cancelled(d))
    BY <1>7 DEF Move, DeleteDocument
  <2>2. \A c \in Docs : /\ doc'[c].status = "none" => doc[c].status = "none"
                        /\ doc'[c].status = "active" => doc[c].status = "active"
    BY <1>1, <2>1 DEF DocumentRow
  <2>3. PICK e : e = Cancelled(d)
    OBVIOUS
  <2>4. LeftByCancel(d, e) /\ task' = e.task
    BY <2>1, <2>3, CancelledRows DEF Write
  <2>5. DOMAIN task' \subseteq DOMAIN task /\ \A t \in DOMAIN task' : task'[t] = "open" => task[t] = "open"
    BY <2>4 DEF LeftByCancel
  <2>6. TasksWait(Rows, related, {})'
    BY <2>1, <2>2, <2>5, WaitsStill DEF Active
  <2>7. RelatedExist'
    BY <1>1, <2>1, <2>2 DEF RelatedExist
  <2> QED BY <2>6, <2>7 DEF WaitInv
<1>8. ASSUME NEW d \in Docs, SetMetadata(d) PROVE WaitInv'
  <2> DEFINE v == ~ doc[d].filled
  <2>1. doc' = [doc EXCEPT ![d].filled = v] /\ UNCHANGED <<related, task>>
    BY <1>8 DEF SetMetadata
  <2> HIDE DEF v
  <2>2. \A c \in Docs : doc'[c].status = doc[c].status
    BY <1>1, <2>1 DEF DocumentRow
  <2>3. TasksWait(Rows, related, {})'
    BY <2>1, <2>2, WaitsStill DEF Active
  <2>4. RelatedExist'
    BY <1>1, <2>1, <2>2 DEF RelatedExist
  <2> QED BY <2>3, <2>4 DEF WaitInv
<1>9. ASSUME NEW pair, RemoveRelation(pair) PROVE WaitInv'
  BY <1>2, <1>9 DEF RemoveRelation
<1>10. ASSUME NEW d \in Docs, NEW b \in Boxes, StartDropped(d, b) PROVE WaitInv'
  BY <1>2, <1>10 DEF StartDropped
<1>11. EditSteps => UNCHANGED <<task, related, doc>>
  BY DEF EditSteps, CreateStep, SetSortOrder, DeleteStep, ReorderSteps, Edit
<1>12. UNCHANGED vars => UNCHANGED <<task, related, doc>>
  BY DEF vars
<1>13. UNCHANGED <<task, related, doc>> => WaitInv'
  BY <1>2
<1>14. \A d, f \in Docs : AddRelation(d, f) => WaitInv'
  BY RelatedWaits
<1>15. ASSUME NEW d \in Docs, DocumentRequest(d) PROVE WaitInv'
  <2>1. DeleteDocument(d) => WaitInv'
    BY <1>7, ConstantsAssumption DEF ConstantsAssumption
  <2> QED BY <1>4, <1>6, <1>7, <1>8, <1>14, <1>15, <2>1 DEF DocumentRequest
<1> QED BY <1>3, <1>5, <1>9, <1>10, <1>11, <1>12, <1>13, <1>15 DEF Next, Callback

\* A task that waits for related documents does not go on waiting once there
\* are enough, whoever relates, uploads or deletes documents and advances
\* workflows in which order.
THEOREM WaitingIsForSomething == Spec => []RelationTasksWait
<1>1. Init => WaitInv
  BY DEF Init, WaitInv, RelatedExist, TasksWait, Rows
<1>2. WaitInv => RelationTasksWait
  BY AskingIsMet DEF WaitInv, TasksWait, Rows, RelationTasksWait, Asks
<1> QED BY <1>1, <1>2, WaitStep, RowsInvInit, RowsInvStep, OthersTypedInit, OthersTypedStep,
           PTL DEF Spec

-----------------------------------------------------------------------------
(***************************************************************************)
(* The steps that a workflow goes through.                                 *)
(***************************************************************************)

\* No two steps of a template share a sort_order.
Untied ==
    \A s, u \in DOMAIN order :
        s # u /\ Config[s].template = Config[u].template => order[s] # order[u]

\* Without ties the engine does not go past an ordinary step.
LEMMA NoTaskIsPassed ==
    ASSUME OrderOK, Untied, NEW s \in DOMAIN order, NEW v \in StepsOf(Config[s].template),
           order[s] <= order[v], Config[v].kind = "task", NEW d, NEW rel, NEW inst
    PROVE  /\ Landing(s, d, rel, inst) # NoStep
           /\ order[Landing(s, d, rel, inst)] <= order[v]
<1> DEFINE W == {u \in Path(s) : ~ Satisfied(u, d, rel, inst)}
<1>1. /\ s # NoStep /\ order[s] \in Nat /\ Path(s) \subseteq DOMAIN order
      /\ Later(s) \subseteq DOMAIN order
      /\ v \in DOMAIN order /\ v \in Nat /\ order[v] \in Nat
      /\ Config[v].template = Config[s].template
  BY StepsAreIds DEF StepsOf
<1>2. v \in Path(s)
  <2>1. CASE v = s
    BY <2>1 DEF Path
  <2>2. CASE v # s
    <3>1. v \in Later(s)
      BY <1>1, <2>2 DEF Untied, Later
    <3>2. \A w \in Later(s) : order[w] = order[v] => w = v
      BY <1>1 DEF Untied, Later, StepsOf
    <3> QED BY <1>1, <3>1, <3>2 DEF Path
  <2> QED BY <2>1, <2>2
<1>3. v \in W
  BY <1>2 DEF Satisfied
<1>4. Landing(s, d, rel, inst) = FirstOf(W)
  BY <1>1 DEF Landing
<1>5. W \in SUBSET DOMAIN order
  BY <1>1
<1> HIDE DEF W
<1>6. FirstOf(W) \in DOMAIN order /\ (order[FirstOf(W)] < order[v] \/ order[FirstOf(W)] = order[v])
  BY <1>3, <1>5, FirstOfExists
<1>7. FirstOf(W) # NoStep /\ order[FirstOf(W)] \in Nat
  BY <1>6, StepsAreIds
<1> QED BY <1>1, <1>4, <1>6, <1>7

Done(db, i, s) ==
    \E t \in DOMAIN db.task : t[1] = i /\ t[2] = s /\ db.task[t] = "completed"

\* Each ordinary step that an instance has behind it was done.
ChecksDone(db) ==
    \A i \in DOMAIN db.instance : \A s \in StepsOf(i[1]) :
        /\ Config[s].kind = "task"
        /\ \/ db.instance[i].status = "completed"
           \/ db.instance[i].status = "running" /\ order[s] < order[db.instance[i].current]
        => Done(db, i, s)

\* Where an instance that is taken on comes from: with no ordinary step left
\* out before it goes on.
LEMMA TargetPassesNone ==
    ASSUME OrderOK, Untied, NEW db, Sound(db, DOMAIN order), NEW D, Steppable(db, D), NEW rel,
           NEW i \in D, NEW s \in StepsOf(i[1]), Config[s].kind = "task",
           i \in DOMAIN db.instance =>
              /\ db.instance[i].current \in DOMAIN order
              /\ Config[db.instance[i].current].template = i[1]
              /\ order[db.instance[i].current] < order[s]
    PROVE  Target(db, i, rel) # NoStep /\ order[Target(db, i, rel)] <= order[s]
<1> DEFINE c == db.instance[i].current
           S == IF i \in DOMAIN db.instance THEN Later(c) ELSE StepsOf(i[1])
<1>1. s \in S /\ S \in SUBSET DOMAIN order /\ S \subseteq StepsOf(i[1])
  BY DEF Later, StepsOf
<1>2. Target(db, i, rel) = Landing(FirstOf(S), i[2], rel, db.instance)
  BY DEF Target, NextStep
<1> HIDE DEF S
<1>3. PICK q : q = FirstOf(S)
  OBVIOUS
<1>4. q \in S /\ (order[q] < order[s] \/ order[q] = order[s])
  BY <1>1, <1>3, FirstOfExists
<1>5. q \in DOMAIN order /\ Config[q].template = i[1]
  BY <1>1, <1>4 DEF StepsOf
<1>6. order[q] \in Nat /\ order[s] \in Nat
  BY <1>1, <1>5, StepsAreIds
<1>7. order[q] <= order[s] /\ s \in StepsOf(Config[q].template)
  BY <1>4, <1>5, <1>6
<1> QED BY <1>2, <1>3, <1>5, <1>7, NoTaskIsPassed

LEMMA SteppedChecks ==
    ASSUME OrderOK, Untied, NEW db, Sound(db, DOMAIN order), NEW D, Steppable(db, D), NEW rel,
           ChecksDone(db), NEW e, e = Stepped(db, D, rel)
    PROVE  ChecksDone(e)
<1>1. LeftByStep(db, D, rel, e)
  BY SteppedRows
<1>2. ASSUME NEW i, NEW s, Done(db, i, s) PROVE Done(e, i, s)
  BY <1>1, <1>2 DEF Done, LeftByStep
<1>3. SUFFICES ASSUME NEW i \in DOMAIN e.instance, NEW s \in StepsOf(i[1]), Config[s].kind = "task",
                      \/ e.instance[i].status = "completed"
                      \/ e.instance[i].status = "running" /\ order[s] < order[e.instance[i].current]
               PROVE  Done(e, i, s)
  BY DEF ChecksDone
<1>4. CASE i \notin D
  <2>1. i \in DOMAIN db.instance /\ e.instance[i] = db.instance[i]
    BY <1>1, <1>4 DEF LeftByStep
  <2> QED BY <1>2, <1>3, <2>1 DEF ChecksDone
<1>5. CASE i \in D
  <2> DEFINE x == Target(db, i, rel)
             c == db.instance[i].current
  <2>1. x = NoStep \/ order[s] < order[x]
    <3>1. e.instance[i] = IF x = NoStep THEN [status |-> "completed", current |-> NoStep]
                          ELSE [status |-> "running", current |-> x]
      BY <1>1, <1>5 DEF LeftByStep
    <3> HIDE DEF x
    <3> QED BY <1>3, <3>1
  <2>2. s \in DOMAIN order /\ order[s] \in Nat /\ Config[s].template = i[1]
    BY StepsAreIds DEF StepsOf
  <2>3. ~ (x # NoStep /\ order[x] <= order[s])
    <3>1. ASSUME x # NoStep, order[x] <= order[s] PROVE FALSE
      <4>1. order[x] \in Nat
        BY <1>5, <3>1, TargetFits, StepsAreIds
      <4> HIDE DEF x
      <4> QED BY <2>1, <2>2, <3>1, <4>1
    <3> QED BY <3>1
  <2>4. CASE i \notin DOMAIN db.instance
    BY <1>3, <1>5, <2>3, <2>4, TargetPassesNone
  <2>5. CASE i \in DOMAIN db.instance
    <3>1. db.instance[i].status = "running"
      BY <1>5, <2>5 DEF Steppable
    <3>2. PICK t \in OpenOf(db, i) : t[2] = c
      BY <2>5, <3>1 DEF Sound, WaitsForOne
    <3>3. /\ t \in DOMAIN db.task /\ t[1] = i /\ db.task[t] = "open"
          /\ c \in DOMAIN order /\ Config[c].template = i[1]
      BY <3>2 DEF OpenOf, Sound, TasksTyped
    <3>4. Done(e, i, c)
      BY <1>1, <1>5, <3>2, <3>3 DEF Done, LeftByStep
    <3>5. order[c] \in Nat
      BY <3>3, StepsAreIds
    <3> HIDE DEF c
    <3>6. CASE s = c
      BY <3>4, <3>6
    <3>7. CASE order[s] < order[c]
      BY <1>2, <1>3, <2>5, <3>1, <3>7 DEF ChecksDone, c
    <3>8. CASE s # c /\ ~ (order[s] < order[c])
      <4>1. order[c] < order[s]
        BY <2>2, <3>3, <3>5, <3>8 DEF Untied
      <4> QED BY <1>3, <1>5, <2>3, <3>3, <4>1, TargetPassesNone DEF c
    <3> QED BY <3>6, <3>7, <3>8
  <2> QED BY <2>4, <2>5
<1> QED BY <1>4, <1>5

LEMMA CancelledChecks ==
    ASSUME ChecksDone(Rows), NEW d, NEW e, e = Cancelled(d)
    PROVE  ChecksDone(e)
<1>1. LeftByCancel(d, e) /\ Rows.instance = instance /\ Rows.task = task
  BY CancelledRows DEF Rows
<1>2. ASSUME NEW i, NEW s, Done(Rows, i, s) PROVE Done(e, i, s)
  BY <1>1, <1>2 DEF Done, LeftByCancel
<1>3. ASSUME NEW i \in DOMAIN instance, e.instance[i].status \in {"completed", "running"}
      PROVE  e.instance[i] = instance[i]
  <2>1. CASE i[2] = d /\ instance[i].status = "running"
    <3>1. e.instance[i] = [status |-> "cancelled", current |-> NoStep]
      BY <1>1, <2>1 DEF LeftByCancel
    <3> QED BY <1>3, <3>1
  <2>2. CASE ~ (i[2] = d /\ instance[i].status = "running")
    BY <1>1, <2>2 DEF LeftByCancel
  <2> QED BY <2>1, <2>2
<1>4. DOMAIN e.instance = DOMAIN instance
  BY <1>1 DEF LeftByCancel
<1> QED BY <1>1, <1>2, <1>3, <1>4 DEF ChecksDone

\* As long as nobody edits the steps ...
UneditedInv == edits = 0 => order = FirstOrder /\ ChecksDone(Rows)

LEMMA EditsCount ==
    ASSUME [Next]_vars
    PROVE  (EditSteps /\ edits' = edits + 1) \/ edits' = edits
<1>1. ASSUME EditSteps PROVE edits' = edits + 1
  BY <1>1 DEF EditSteps, CreateStep, SetSortOrder, DeleteStep, ReorderSteps, Edit
<1>2. ASSUME Callback PROVE edits' = edits
  BY <1>2 DEF Callback, StartMatching, StartDropped
<1>3. ASSUME NEW d, DocumentRequest(d) PROVE edits' = edits
  BY <1>3 DEF DocumentRequest, Move, Upload, DeleteDocument, SetMetadata, AddRelation, StartWorkflow
<1>4. ASSUME NEW pair, RemoveRelation(pair) PROVE edits' = edits
  BY <1>4 DEF RemoveRelation
<1>5. ASSUME NEW t, CompleteTask(t) PROVE edits' = edits
  BY <1>5 DEF CompleteTask
<1> QED BY <1>1, <1>2, <1>3, <1>4, <1>5 DEF Next, vars

\* The templates begin without ties, which the code does not demand.
NoTies ==
    \A s, u \in DOMAIN FirstOrder :
        s # u /\ Config[s].template = Config[u].template => FirstOrder[s] # FirstOrder[u]

LEMMA UneditedStep ==
    ASSUME NoTies, RowsInv, OthersTyped, UneditedInv, [Next]_vars
    PROVE  UneditedInv'
<1>1. SUFFICES ASSUME edits' = 0 PROVE (order = FirstOrder /\ ChecksDone(Rows))'
  BY DEF UneditedInv
<1>2. edits = 0 /\ ~ (EditSteps /\ edits' = edits + 1)
  BY <1>1, EditsCount DEF OthersTyped
<1>3. order = FirstOrder /\ ChecksDone(Rows) /\ OrderOK /\ Sound(Rows, DOMAIN order)
  BY <1>2 DEF UneditedInv, RowsInv
<1>4. Untied
  BY <1>3 DEF Untied, NoTies
<1>5. ~ EditSteps
  BY <1>1, <1>2 DEF EditSteps, CreateStep, SetSortOrder, DeleteStep, ReorderSteps, Edit
<1>6. ASSUME NEW e, ChecksDone(e), e = [instance |-> instance', task |-> task'], order' = order
      PROVE  (order = FirstOrder /\ ChecksDone(Rows))'
  <2>1. Rows' = e
    BY <1>6 DEF Rows
  <2> QED BY <1>3, <1>6, <2>1 DEF ChecksDone, Done, StepsOf
<1>7. ASSUME UNCHANGED <<instance, task, order>> PROVE (order = FirstOrder /\ ChecksDone(Rows))'
  BY <1>3, <1>6, <1>7 DEF Rows
<1>8. ASSUME NEW D, EngineStep(D, related) PROVE (order = FirstOrder /\ ChecksDone(Rows))'
  <2>1. PICK e : e = Stepped(Rows, D, related)
    OBVIOUS
  <2>2. LeftByStep(Rows, D, related, e) /\ ChecksDone(e) /\ Write(e) /\ order' = order
    BY <1>3, <1>4, <1>8, <2>1, SteppedRows, SteppedChecks DEF EngineStep
  <2> QED BY <1>6, <2>2 DEF Write, LeftByStep
<1>9. ASSUME NEW d, CancelStep(d) PROVE (order = FirstOrder /\ ChecksDone(Rows))'
  <2>1. PICK e : e = Cancelled(d)
    OBVIOUS
  <2>2. LeftByCancel(d, e) /\ ChecksDone(e) /\ Write(e) /\ order' = order
    BY <1>3, <1>9, <2>1, CancelledRows, CancelledChecks DEF CancelStep
  <2> QED BY <1>6, <2>2 DEF Write, LeftByCancel
<1>10. ASSUME NEW d, NEW f, RelationStep(d, f) PROVE (order = FirstOrder /\ ChecksDone(Rows))'
  <2>1. PICK rel : rel = related'
    OBVIOUS
  <2>2. d # f /\ Write(Refreshed(f, rel, Refreshed(d, rel, Rows))) /\ order' = order
    BY <1>10, <2>1 DEF RelationStep
  <2>3. PICK C, D, c, e :
          /\ e = Refreshed(f, rel, Refreshed(d, rel, Rows))
          /\ Steppable(Rows, C) /\ c = Stepped(Rows, C, rel)
          /\ Sound(c, DOMAIN order)
          /\ Steppable(c, D) /\ e = Stepped(c, D, rel)
    BY <1>3, <2>2, RefreshedTwice
  <2>4. ChecksDone(c)
    BY <1>3, <1>4, <2>3, SteppedChecks
  <2>5. ChecksDone(e) /\ LeftByStep(c, D, rel, e)
    BY <1>3, <1>4, <2>3, <2>4, SteppedChecks, SteppedRows
  <2> QED BY <1>6, <2>2, <2>3, <2>5 DEF Write, LeftByStep
<1> QED BY <1>3, <1>5, <1>7, <1>8, <1>9, <1>10, StepsOfTheEngine

\* A completed workflow has gone through each of its ordinary steps, if no two
\* steps of its template have the same sort_order.  The code allows them to, and
\* then a step is left out: TiedSteps.cfg shows it.
THEOREM NothingLeftOut == ASSUME NoTies PROVE Spec => []EveryStepDone
<1>1. Init => UneditedInv
  BY DEF Init, UneditedInv, ChecksDone, Rows
<1>2. UneditedInv => EveryStepDone
  BY DEF UneditedInv, ChecksDone, Done, Rows, EveryStepDone
<1>3. RowsInv /\ OthersTyped /\ UneditedInv /\ [Next]_vars => UneditedInv'
  BY UneditedStep
<1> QED BY <1>1, <1>2, <1>3, RowsInvInit, RowsInvStep, OthersTypedInit, OthersTypedStep,
           PTL DEF Spec

-----------------------------------------------------------------------------
(***************************************************************************)
(* The engine implements WorkflowRuns.                                     *)
(***************************************************************************)

\* Of the steps with the same sort_order only the first counts.
Counts(s) == \A u \in StepsOf(Config[s].template) : order[u] = order[s] => s <= u

\* The steps that an instance has before it.
Ahead(db, i) == IF i \in DOMAIN db.instance THEN Later(db.instance[i].current) ELSE StepsOf(i[1])

\* They are steps of the template of the instance.
LEMMA AheadIs ==
    ASSUME OrderOK, NEW db, Sound(db, DOMAIN order), NEW D, Steppable(db, D), NEW i \in D
    PROVE  /\ Ahead(db, i) \in SUBSET DOMAIN order
           /\ \A s \in Ahead(db, i) : /\ Config[s].template = i[1]
                                      /\ Later(s) \subseteq Ahead(db, i)
                                      /\ \A u \in StepsOf(i[1]) : order[u] = order[s] => u \in Ahead(db, i)
           /\ \A rel : Target(db, i, rel) = Landing(FirstOf(Ahead(db, i)), i[2], rel, db.instance)
<1>1. CASE i \in DOMAIN db.instance
  <2> DEFINE c == db.instance[i].current
  <2>1. PICK t \in OpenOf(db, i) : t[2] = c
    BY <1>1 DEF Steppable, Sound, WaitsForOne
  <2>2. t \in (DOMAIN db.instance) \X (DOMAIN order) \X Nat /\ t[1] = i /\ Config[t[2]].template = t[1][1]
    BY <2>1 DEF OpenOf, Sound, TasksTyped
  <2>3. c \in DOMAIN order /\ Config[c].template = i[1]
    BY <2>1, <2>2
  <2>4. Ahead(db, i) = Later(c) /\ \A rel : Target(db, i, rel) = Landing(FirstOf(Later(c)), i[2], rel, db.instance)
    BY <1>1 DEF Ahead, Target, NextStep
  <2> HIDE DEF c
  <2>5. \A s \in DOMAIN order : order[s] \in Nat
    BY DEF OrderOK
  <2>6. Later(c) = {u \in DOMAIN order : Config[u].template = i[1] /\ order[u] > order[c]}
    BY <2>3 DEF Later, StepsOf
  <2>7. \A s \in Later(c) : Later(s) \subseteq Later(c)
    BY <2>3, <2>5, <2>6 DEF Later, StepsOf
  <2> QED BY <2>4, <2>6, <2>7 DEF StepsOf
<1>2. CASE i \notin DOMAIN db.instance
  <2>1. Ahead(db, i) = StepsOf(i[1])
        /\ \A rel : Target(db, i, rel) = Landing(FirstOf(StepsOf(i[1])), i[2], rel, db.instance)
    BY <1>2 DEF Ahead, Target
  <2> QED BY <2>1 DEF Later, StepsOf
<1> QED BY <1>1, <1>2

\* An instance passes over nothing but steps that are satisfied.
LEMMA PassedAreSatisfied ==
    ASSUME OrderOK, NEW db, Sound(db, DOMAIN order), NEW D, Steppable(db, D), NEW i \in D, NEW rel,
           NEW t, t = Target(db, i, rel), NEW u \in Ahead(db, i), Counts(u),
           t = NoStep \/ order[u] < order[t]
    PROVE  Satisfied(u, i[2], rel, db.instance)
<1> SUFFICES ASSUME ~ Satisfied(u, i[2], rel, db.instance) PROVE FALSE
  OBVIOUS
<1>1. PICK S : /\ S = Ahead(db, i) /\ S \in SUBSET DOMAIN order
               /\ t = Landing(FirstOf(S), i[2], rel, db.instance)
               /\ \A s \in S : Config[s].template = i[1] /\ Later(s) \subseteq S
  BY AheadIs
<1>2. PICK q : q = FirstOf(S)
  OBVIOUS
<1>3. q \in S /\ (order[q] < order[u] \/ (order[q] = order[u] /\ q <= u))
  BY <1>1, <1>2, FirstOfExists
<1>4. /\ q \in DOMAIN order /\ u \in DOMAIN order /\ q # NoStep
      /\ order[q] \in Nat /\ order[u] \in Nat /\ q \in Nat /\ u \in Nat
      /\ Path(q) \subseteq DOMAIN order
  BY <1>1, <1>3, StepsAreIds
<1>5. Config[q].template = Config[u].template
  BY <1>1, <1>3
<1>6. u \in Path(q)
  <2>1. CASE order[q] = order[u]
    <3>1. q \in StepsOf(Config[u].template)
      BY <1>4, <1>5 DEF StepsOf
    <3>2. u <= q
      BY <2>1, <3>1 DEF Counts
    <3>3. u = q
      BY <1>3, <1>4, <2>1, <3>2
    <3> QED BY <3>3 DEF Path
  <2>2. CASE order[q] < order[u]
    <3>1. u \in Later(q)
      BY <1>4, <1>5, <2>2 DEF Later, StepsOf
    <3>2. \A v \in Later(q) : order[v] = order[u] => u <= v
      BY <1>5 DEF Counts, Later
    <3> QED BY <3>1, <3>2 DEF Path
  <2> QED BY <1>3, <2>1, <2>2
<1> DEFINE W == {v \in Path(q) : ~ Satisfied(v, i[2], rel, db.instance)}
<1>7. u \in W /\ W \in SUBSET DOMAIN order /\ t = FirstOf(W)
  BY <1>1, <1>2, <1>4, <1>6 DEF Landing
<1> HIDE DEF W
<1>8. t \in DOMAIN order /\ (order[t] < order[u] \/ order[t] = order[u])
  BY <1>7, FirstOfExists
<1>9. t # NoStep /\ order[t] \in Nat
  BY <1>8, StepsAreIds
<1> QED BY <1>4, <1>8, <1>9

\* What is satisfied stays so while workflows go on: they only end.
LEMMA SatisfiedStays ==
    ASSUME NEW db, NEW e, Preserved(db, e), NEW s \in DOMAIN order, OrderOK, NEW d, NEW rel,
           Satisfied(s, d, rel, db.instance)
    PROVE  Satisfied(s, d, rel, e.instance)
<1>1. \A x : WorkflowDone(x, db.instance) => WorkflowDone(x, e.instance)
  BY DEF WorkflowDone, Preserved
<1>2. RelatedFor(s, d, rel, db.instance) \subseteq RelatedFor(s, d, rel, e.instance)
  BY <1>1 DEF RelatedFor
<1>3. IsFiniteSet(RelatedFor(s, d, rel, e.instance))
  BY ConstantsAssumption, FS_Subset DEF ConstantsAssumption, RelatedFor
<1>4. /\ Cardinality(RelatedFor(s, d, rel, db.instance)) <= Cardinality(RelatedFor(s, d, rel, e.instance))
      /\ Cardinality(RelatedFor(s, d, rel, db.instance)) \in Nat
      /\ Cardinality(RelatedFor(s, d, rel, e.instance)) \in Nat
  BY <1>2, <1>3, FS_Subset, FS_CardinalityType
<1>5. RelationMet(s, d, rel, db.instance) => RelationMet(s, d, rel, e.instance)
  BY <1>4, StepsAreIds DEF RelationMet
<1> QED BY <1>5 DEF Satisfied

Settled(i, s, rel, inst) == Config[s].kind # "task" /\ Satisfied(s, i[2], rel, inst)

\* The instance leaves a step that is settled, or that a person confirms ...
Leaves(db, i, rel, inst) ==
    i \in DOMAIN db.instance =>
        /\ db.instance[i].status = "running"
        /\ \/ Config[db.instance[i].current].kind = "task"
           \/ Settled(i, db.instance[i].current, rel, inst)

\* ... and comes to another past settled ones.
Comes(db, e, i, rel, inst) ==
    \E s \in Ahead(db, i) \cup {NoStep} :
        /\ \A u \in Ahead(db, i) :
              Counts(u) /\ (s = NoStep \/ order[u] < order[s]) => Settled(i, u, rel, inst)
        /\ e.instance[i] = [status |-> IF s = NoStep THEN "completed" ELSE "running",
                            current |-> s]

\* Where the engine goes on, an instance comes to where it may.
LEMMA SteppedComes ==
    ASSUME OrderOK, NEW db, Sound(db, DOMAIN order), NEW D, Steppable(db, D), NEW rel,
           NEW e, e = Stepped(db, D, rel), NEW f, Preserved(db, f), NEW i \in D
    PROVE  Comes(db, e, i, rel, f.instance)
<1>1. PICK t : t = Target(db, i, rel)
  OBVIOUS
<1>2. e.instance[i] = [status |-> IF t = NoStep THEN "completed" ELSE "running", current |-> t]
  <2>1. e.instance[i] = IF t = NoStep THEN [status |-> "completed", current |-> NoStep]
                                      ELSE [status |-> "running", current |-> t]
    <3>1. LeftByStep(db, D, rel, e)
      BY SteppedRows
    <3> QED BY <1>1, <3>1 DEF LeftByStep
  <2> QED BY <2>1
<1>3. PICK S : S = Ahead(db, i) /\ S \in SUBSET DOMAIN order
  BY AheadIs
<1>4. t = NoStep \/ t \in S
  <2>1. PICK q : q = FirstOf(S)
    OBVIOUS
  <2>2. t = Landing(q, i[2], rel, db.instance)
    BY <1>1, <1>3, <2>1, AheadIs
  <2>3. CASE q = NoStep
    BY <2>2, <2>3 DEF Landing
  <2>4. CASE q # NoStep /\ t # NoStep
    <3>1. S # {}
      BY <2>1, <2>4 DEF FirstOf
    <3>2. q \in S
      BY <1>3, <2>1, <3>1, FirstOfExists
    <3>3. t \in Path(q)
      BY <1>3, <2>2, <2>4, <3>2, LandingIsOnThePath
    <3>4. Later(q) \subseteq S
      BY <1>3, <3>2, AheadIs
    <3> QED BY <3>2, <3>3, <3>4 DEF Path
  <2> QED BY <2>3, <2>4
<1>5. ASSUME NEW u \in S, Counts(u), t = NoStep \/ order[u] < order[t]
      PROVE  Settled(i, u, rel, f.instance)
  <2>1. Satisfied(u, i[2], rel, db.instance)
    BY <1>1, <1>3, <1>5, PassedAreSatisfied
  <2>2. Satisfied(u, i[2], rel, f.instance)
    BY <1>3, <2>1, SatisfiedStays
  <2> QED BY <2>2 DEF Settled, Satisfied
<1> QED BY <1>2, <1>3, <1>4, <1>5 DEF Comes

\* What the engine writes while the documents stay as they are.
Walked(e, rel) ==
    /\ DOMAIN instance \subseteq DOMAIN e.instance
    /\ \A i \in DOMAIN e.instance :
          \/ i \in DOMAIN instance /\ e.instance[i] = instance[i]
          \/ Leaves(Rows, i, rel, e.instance) /\ Comes(Rows, e, i, rel, e.instance)

\* The instances of D may be taken on: nobody's demand is passed over.
Asked(db, D, rel) ==
    \A i \in D : i \in DOMAIN db.instance =>
        \/ Config[db.instance[i].current].kind = "task"
        \/ Satisfied(db.instance[i].current, i[2], rel, db.instance)

\* Where the engine asks, an instance leaves what it may.
LEMMA AskedLeaves ==
    ASSUME OrderOK, NEW db, Sound(db, DOMAIN order), NEW D, Steppable(db, D), NEW rel,
           Asked(db, D, rel), NEW f, Preserved(db, f), NEW i \in D
    PROVE  Leaves(db, i, rel, f.instance)
<1> SUFFICES ASSUME i \in DOMAIN db.instance
             PROVE  /\ db.instance[i].status = "running"
                    /\ \/ Config[db.instance[i].current].kind = "task"
                       \/ Settled(i, db.instance[i].current, rel, f.instance)
  BY DEF Leaves
<1>1. db.instance[i].status = "running"
  BY DEF Steppable
<1>2. PICK t \in OpenOf(db, i) : t[2] = db.instance[i].current
  BY <1>1 DEF Sound, WaitsForOne
<1>3. db.instance[i].current \in DOMAIN order
  BY <1>2 DEF OpenOf, Sound, TasksTyped
<1>4. PICK c : c = db.instance[i].current
  OBVIOUS
<1>5. CASE Config[c].kind # "task"
  <2>1. Satisfied(c, i[2], rel, db.instance)
    BY <1>4, <1>5 DEF Asked
  <2>2. Satisfied(c, i[2], rel, f.instance)
    BY <1>3, <1>4, <2>1, SatisfiedStays
  <2> QED BY <1>1, <1>4, <1>5, <2>2 DEF Settled
<1> QED BY <1>1, <1>4, <1>5

\* A relation step takes on only those that it satisfies.
LEMMA RefreshedIsAsked ==
    ASSUME OrderOK, NEW db, Sound(db, DOMAIN order), NEW d, NEW rel
    PROVE  Asked(db, TakenOn(d, rel, db), rel)
<1> SUFFICES ASSUME NEW i \in TakenOn(d, rel, db), i \in DOMAIN db.instance
             PROVE  Satisfied(db.instance[i].current, i[2], rel, db.instance)
  BY DEF Asked
<1>1. PICK t \in MetBy(d, rel, db) : t[1] = i
  BY DEF TakenOn
<1>2. t \in OpenOf(db, i) /\ i[2] = d
  BY <1>1 DEF MetBy, OpenOf
<1>3. t[2] = db.instance[i].current
  BY <1>2 DEF Sound, WaitsForOne
<1> QED BY <1>1, <1>2, <1>3 DEF MetBy, Satisfied

\* A step of the engine walks.
LEMMA EngineWalks ==
    ASSUME OrderOK, Sound(Rows, DOMAIN order), NEW D, Steppable(Rows, D), NEW rel,
           Asked(Rows, D, rel), NEW e, e = Stepped(Rows, D, rel)
    PROVE  Walked(e, rel)
<1>1. Preserved(Rows, e) /\ LeftByStep(Rows, D, rel, e) /\ Rows.instance = instance
  BY SteppedPreserves, SteppedRows DEF Rows
<1>2. \A i \in D : Leaves(Rows, i, rel, e.instance) /\ Comes(Rows, e, i, rel, e.instance)
  BY <1>1, AskedLeaves, SteppedComes
<1> QED BY <1>1, <1>2 DEF Walked, LeftByStep

\* A change of relations is a step of the engine for each of two documents.
LEMMA RelationWalks ==
    ASSUME OrderOK, Sound(Rows, DOMAIN order), NEW d, NEW f, d # f, NEW rel,
           NEW g, g = Refreshed(f, rel, Refreshed(d, rel, Rows))
    PROVE  g = [instance |-> g.instance, task |-> g.task] /\ Walked(g, rel)
<1>1. PICK C, D, c, e :
        /\ e = g
        /\ C = TakenOn(d, rel, Rows) /\ Steppable(Rows, C) /\ c = Stepped(Rows, C, rel)
        /\ \A i \in C : i \in DOMAIN instance /\ i[2] = d
        /\ Sound(c, DOMAIN order)
        /\ D = TakenOn(f, rel, c) /\ Steppable(c, D) /\ e = Stepped(c, D, rel)
        /\ \A i \in D : i \in DOMAIN instance /\ i[2] = f
  BY RefreshedTwice
<1>2. /\ Preserved(Rows, c) /\ Preserved(c, e) /\ Rows.instance = instance /\ Rows.task = task
      /\ LeftByStep(Rows, C, rel, c) /\ LeftByStep(c, D, rel, e)
  BY <1>1, SteppedPreserves, SteppedRows DEF Rows
<1>3. Preserved(Rows, e)
  BY <1>2 DEF Preserved
<1>4. DOMAIN c.instance = DOMAIN instance /\ DOMAIN e.instance = DOMAIN instance
  BY <1>1, <1>2 DEF LeftByStep
<1>5. \A i \in DOMAIN instance : i \notin C => c.instance[i] = instance[i]
  BY <1>2 DEF LeftByStep
<1>6. \A i \in DOMAIN instance : i \notin D => e.instance[i] = c.instance[i]
  BY <1>2, <1>4 DEF LeftByStep
<1>7. ASSUME NEW i \in C PROVE Leaves(Rows, i, rel, e.instance) /\ Comes(Rows, e, i, rel, e.instance)
  <2>1. e.instance[i] = c.instance[i]
    BY <1>1, <1>6
  <2>2. Asked(Rows, C, rel)
    BY <1>1, RefreshedIsAsked
  <2>3. Leaves(Rows, i, rel, e.instance)
    BY <1>1, <1>3, <2>2, AskedLeaves
  <2>4. Comes(Rows, c, i, rel, e.instance)
    BY <1>1, <1>3, SteppedComes
  <2> QED BY <2>1, <2>3, <2>4 DEF Comes
<1>8. ASSUME NEW i \in D PROVE Leaves(Rows, i, rel, e.instance) /\ Comes(Rows, e, i, rel, e.instance)
  <2>1. c.instance[i] = instance[i] /\ i \in DOMAIN instance
    BY <1>1, <1>5
  <2>2. Asked(c, D, rel)
    BY <1>1, RefreshedIsAsked
  <2>3. Leaves(c, i, rel, e.instance)
    BY <1>1, <1>2, <2>2, AskedLeaves
  <2>4. Comes(c, e, i, rel, e.instance)
    BY <1>1, <1>2, SteppedComes
  <2>5. Ahead(c, i) = Ahead(Rows, i)
    BY <1>2, <1>4, <2>1 DEF Ahead
  <2> QED BY <1>2, <1>4, <2>1, <2>3, <2>4, <2>5 DEF Leaves, Comes
<1>9. Walked(e, rel)
  BY <1>4, <1>5, <1>6, <1>7, <1>8 DEF Walked
<1> QED BY <1>1, <1>2, <1>9 DEF LeftByStep

\* All that a step of the system can do to the instances.
LEMMA StepsWalk ==
    ASSUME OrderOK, Sound(Rows, DOMAIN order), [Next]_vars
    PROVE  \/ UNCHANGED instance /\ (UNCHANGED order \/ EditSteps)
           \/ \E e : Write(e) /\ Walked(e, related') /\ UNCHANGED <<doc, order>>
           \/ \E d \in Docs : CancelStep(d)
<1>1. ASSUME NEW d \in Docs, NEW ts \in SUBSET Templates, Write(Started(ts, d)),
             UNCHANGED <<doc, related, order>>
      PROVE  \E e : Write(e) /\ Walked(e, related') /\ UNCHANGED <<doc, order>>
  <2>1. PICK D : Started(ts, d) = Stepped(Rows, D, related) /\ Steppable(Rows, D) /\ OneOfEach(ts, d, D)
    BY StartedIsStepped
  <2>2. Asked(Rows, D, related)
    BY <2>1 DEF Asked, OneOfEach, Rows
  <2> QED BY <1>1, <2>1, <2>2, EngineWalks
<1>2. ASSUME NEW d \in Docs, NEW b \in Boxes, StartMatching(d, b)
      PROVE  \E e : Write(e) /\ Walked(e, related') /\ UNCHANGED <<doc, order>>
  <2>1. MissingWorkflows(d, b) \in SUBSET Templates
    BY ConstantsAssumption DEF MissingWorkflows, ConstantsAssumption
  <2> QED BY <1>1, <1>2, <2>1 DEF StartMatching
<1>3. ASSUME NEW d \in Docs, NEW t \in Templates, StartWorkflow(t, d)
      PROVE  \E e : Write(e) /\ Walked(e, related') /\ UNCHANGED <<doc, order>>
  BY <1>1, <1>3 DEF StartWorkflow
<1>4. ASSUME NEW t \in DOMAIN task, CompleteTask(t)
      PROVE  \E e : Write(e) /\ Walked(e, related') /\ UNCHANGED <<doc, order>>
  <2>1. /\ task[t] = "open" /\ UNCHANGED <<doc, related, order>>
        /\ Config[t[2]].kind # "task" => Satisfied(t[2], t[1][2], related, instance)
        /\ Write(Advance(Rows, [j \in {t[1]} |-> Landing(NextStep(t[2]), t[1][2], related, instance)], {t}))
    BY <1>4 DEF CompleteTask
  <2>2. /\ Write(Stepped(Rows, {t[1]}, related))
        /\ Steppable(Rows, {t[1]})
        /\ instance[t[1]].current = t[2]
    BY <2>1, CompletedIsStepped
  <2>3. Asked(Rows, {t[1]}, related)
    BY <2>1, <2>2 DEF Asked, Rows
  <2> QED BY <2>1, <2>2, <2>3, EngineWalks
<1>5. ASSUME NEW d \in Docs, NEW f \in Docs, AddRelation(d, f)
      PROVE  \E e : Write(e) /\ Walked(e, related') /\ UNCHANGED <<doc, order>>
  <2>1. PICK rel, e : rel = related' /\ e = Refreshed(f, rel, Refreshed(d, rel, Rows))
    OBVIOUS
  <2>2. d # f /\ Write(e) /\ UNCHANGED <<doc, order>>
    BY <1>5, <2>1 DEF AddRelation
  <2> QED BY <2>1, <2>2, RelationWalks
<1>6. ASSUME NEW d \in Docs, NEW b \in Boxes, Move(d, b) \/ DeleteDocument(d)
      PROVE  CancelStep(d)
  BY <1>6 DEF Move, DeleteDocument, CancelStep
<1>7. ASSUME NEW d \in Docs, DeleteDocument(d) PROVE CancelStep(d)
  BY <1>7 DEF DeleteDocument, CancelStep
<1>8. ASSUME NEW d \in Docs, NEW b \in Boxes, NEW auto, StartDropped(d, b) \/ Upload(d, b, auto)
      PROVE  UNCHANGED <<instance, order>>
  BY <1>8 DEF StartDropped, Upload
<1>9. ASSUME NEW d \in Docs, SetMetadata(d) PROVE UNCHANGED <<instance, order>>
  BY <1>9 DEF SetMetadata
<1>10. ASSUME NEW pair, RemoveRelation(pair) PROVE UNCHANGED <<instance, order>>
  BY <1>10 DEF RemoveRelation
<1>11. EditSteps => UNCHANGED instance
  BY DEF EditSteps, CreateStep, SetSortOrder, DeleteStep, ReorderSteps, Edit
<1>12. UNCHANGED vars => UNCHANGED <<instance, order>>
  BY DEF vars
<1> QED BY <1>2, <1>3, <1>4, <1>5, <1>6, <1>7, <1>8, <1>9, <1>10, <1>11, <1>12
       DEF Next, Callback, DocumentRequest

\* The engine implements the abstract specification: whatever happens, each run
\* stays, begins, goes on, or is cancelled as it promises.
THEOREM EngineImplementsRuns == Spec => RunsWalk
<1>1. Init => Walk!Init
  BY DEF Init, Walk!Init
<1>2. ASSUME RowsInv, [Next]_vars PROVE [Walk!Next]_Walk!vars
  <2>1. OrderOK /\ Sound(Rows, DOMAIN order) /\ Rows.instance = instance
    BY <1>2 DEF RowsInv, Rows
  <2>2. CASE UNCHANGED instance /\ (UNCHANGED order \/ EditSteps)
    <3>1. RowsInv'
      BY <1>2, RowsInvStep
    <3>2. \A i \in DOMAIN instance : instance[i].status = "running" => instance[i].current \in DOMAIN order'
      <4>1. Sound(Rows, DOMAIN order)' /\ (Rows.instance)' = instance
        BY <2>2, <3>1 DEF RowsInv, Rows
      <4>2. WaitsForOne(Rows)' /\ TasksTyped(Rows, DOMAIN order)'
        BY <4>1 DEF Sound
      <4>3. ASSUME NEW i \in DOMAIN instance, instance[i].status = "running"
            PROVE  instance[i].current \in DOMAIN order'
        <5>1. PICK t \in OpenOf(Rows, i)' : t[2] = instance[i].current
          BY <4>1, <4>2, <4>3 DEF WaitsForOne
        <5> QED BY <4>2, <5>1 DEF OpenOf, TasksTyped
      <4> QED BY <4>3
    <3> QED BY <2>2, <3>2 DEF Walk!Next, Walk!EditSteps
  <2>3. ASSUME NEW e, Write(e), Walked(e, related'), UNCHANGED <<doc, order>> PROVE Walk!Next
    <3>1. instance' = e.instance
      BY <2>3 DEF Write
    <3>2. ASSUME NEW i \in DOMAIN instance', NEW s \in DOMAIN order, Settled(i, s, related', instance')
          PROVE  Walk!Given(i, s)
      BY <2>3, <3>2 DEF Walk!Given, Settled, Satisfied, RelationMet, RelatedFor, Active, WorkflowDone
    <3>3. \A s : Walk!Counts(s) <=> Counts(s)
      BY DEF Walk!Counts, Counts, Walk!StepsOf, StepsOf
    <3>4. ASSUME NEW i \in DOMAIN instance', NEW S \in SUBSET DOMAIN order, S = Ahead(Rows, i),
                 Comes(Rows, e, i, related', e.instance)
          PROVE  Walk!Arrive(i, S)
      <4>1. PICK s \in S \cup {NoStep} :
              /\ \A u \in S : Counts(u) /\ (s = NoStep \/ order[u] < order[s]) =>
                              Settled(i, u, related', instance')
              /\ instance'[i] = [status |-> IF s = NoStep THEN "completed" ELSE "running", current |-> s]
        BY <3>1, <3>4 DEF Comes
      <4>2. \A u \in S : Walk!Counts(u) /\ (s = NoStep \/ order[u] < order[s]) => Walk!Given(i, u)
        BY <3>2, <3>3, <4>1
      <4> QED BY <4>1, <4>2 DEF Walk!Arrive
    <3>5. ASSUME NEW i \in DOMAIN instance', i \notin DOMAIN instance,
                 Comes(Rows, e, i, related', e.instance)
          PROVE  Walk!Begin(i)
      <4>1. Ahead(Rows, i) = Walk!StepsOf(i[1]) /\ Walk!StepsOf(i[1]) \in SUBSET DOMAIN order
        BY <2>1, <3>5 DEF Ahead, Walk!StepsOf, StepsOf
      <4> QED BY <3>4, <3>5, <4>1 DEF Walk!Begin
    <3>6. ASSUME NEW i \in DOMAIN instance', i \in DOMAIN instance,
                 Leaves(Rows, i, related', e.instance), Comes(Rows, e, i, related', e.instance)
          PROVE  Walk!GoOn(i)
      <4>1. Ahead(Rows, i) = Walk!Later(instance[i].current)
            /\ Walk!Later(instance[i].current) \in SUBSET DOMAIN order
        BY <2>1, <3>6 DEF Ahead, Walk!Later, Later, Walk!StepsOf, StepsOf
      <4>2. instance[i].status = "running"
            /\ (Config[instance[i].current].kind = "task"
                  \/ Settled(i, instance[i].current, related', instance'))
        BY <2>1, <3>1, <3>6 DEF Leaves
      <4>3. instance[i].current \in DOMAIN order
        <5>1. WaitsForOne(Rows) /\ TasksTyped(Rows, DOMAIN order)
          BY <2>1 DEF Sound
        <5>2. PICK t \in OpenOf(Rows, i) : t[2] = instance[i].current
          BY <2>1, <3>6, <4>2, <5>1 DEF WaitsForOne
        <5> QED BY <5>1, <5>2 DEF OpenOf, TasksTyped
      <4>4. Config[instance[i].current].kind = "task" \/ Walk!Given(i, instance[i].current)
        BY <3>2, <4>2, <4>3
      <4> QED BY <3>4, <3>6, <4>1, <4>2, <4>4 DEF Walk!GoOn
    <3>7. \A i \in DOMAIN instance' : Walk!Begin(i) \/ Walk!GoOn(i) \/ Walk!Cancel(i) \/ Walk!Stay(i)
      BY <2>3, <3>1, <3>5, <3>6 DEF Walked, Walk!Stay
    <3>8. DOMAIN instance \subseteq DOMAIN instance' /\ UNCHANGED order
      BY <2>3, <3>1 DEF Walked
    <3> QED BY <3>7, <3>8 DEF Walk!Next, Walk!Proceed
  <2>4. ASSUME NEW d, CancelStep(d) PROVE Walk!Next
    <3>1. LeftByCancel(d, Cancelled(d)) /\ instance' = Cancelled(d).instance /\ UNCHANGED order
      BY <2>4, CancelledRows DEF CancelStep, Write
    <3>2. DOMAIN instance' = DOMAIN instance
      BY <3>1 DEF LeftByCancel
    <3>3. \A i \in DOMAIN instance' : Walk!Cancel(i) \/ Walk!Stay(i)
      BY <3>1 DEF LeftByCancel, Walk!Cancel, Walk!Stay
    <3> QED BY <3>1, <3>2, <3>3 DEF Walk!Next, Walk!Proceed
  <2> QED BY <1>2, <2>1, <2>2, <2>3, <2>4, StepsWalk
<1> QED BY <1>1, <1>2, RowsInvInit, RowsInvStep, PTL DEF Spec, RunsWalk, Walk!Spec

=============================================================================

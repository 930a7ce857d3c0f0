---------------------------- MODULE WorkflowRuns ----------------------------
(***************************************************************************)
(* What the workflow engine promises, without tasks, requests, callbacks   *)
(* and boxes: a run walks through the steps of its template in their       *)
(* order.  It stays at a step until a person confirms it, or until what    *)
(* the step asks for is there; on its way it passes over nothing but steps *)
(* that have what they ask for; what has ended is not taken up again.      *)
(* People edit the steps and fill in or take away what they ask for.       *)
(***************************************************************************)
EXTENDS Naturals

CONSTANTS
    Config,  \* per step: its template and its kind
    NoStep   \* where a run is that has ended

VARIABLES
    order,   \* sort_order of the steps that exist
    met,     \* per run: the steps whose demand is met
    run      \* per run, which is <<template, document, number>>: where it is

vars == <<order, met, run>>

StepsOf(t) == {s \in DOMAIN order : Config[s].template = t}
Later(s) == {u \in StepsOf(Config[s].template) : order[u] > order[s]}

\* Of the steps with the same sort_order only the first counts.
Counts(s) == \A u \in StepsOf(Config[s].template) : order[u] = order[s] => s <= u

\* A step that is a task for a person demands nothing that could be met.
Given(i, s) == Config[s].kind # "task" /\ s \in met'[i]

\* A run comes to s, or to its end, past the steps of S that are before it.
Arrive(i, S) ==
    \E s \in S \cup {NoStep} :
        /\ \A u \in S : Counts(u) /\ (s = NoStep \/ order[u] < order[s]) => Given(i, u)
        /\ run'[i] = [status |-> IF s = NoStep THEN "completed" ELSE "running", current |-> s]

Begin(i) ==
    /\ i \notin DOMAIN run
    /\ Arrive(i, StepsOf(i[1]))

GoOn(i) ==
    /\ i \in DOMAIN run /\ run[i].status = "running"
    /\ Config[run[i].current].kind = "task" \/ Given(i, run[i].current)
    /\ Arrive(i, Later(run[i].current))

Cancel(i) ==
    /\ i \in DOMAIN run /\ run[i].status = "running"
    /\ run'[i] = [status |-> "cancelled", current |-> NoStep]

Stay(i) == i \in DOMAIN run /\ run'[i] = run[i]

\* No step is deleted under a run that waits at it.
EditSteps ==
    /\ \A i \in DOMAIN run : run[i].status = "running" => run[i].current \in DOMAIN order'
    /\ UNCHANGED run

Proceed ==
    /\ DOMAIN run \subseteq DOMAIN run'
    /\ \A i \in DOMAIN run' : Begin(i) \/ GoOn(i) \/ Cancel(i) \/ Stay(i)
    /\ UNCHANGED order

Init ==
    /\ run = << >>
    /\ met = << >>

Next == EditSteps \/ Proceed

Spec == Init /\ [][Next]_vars

=============================================================================

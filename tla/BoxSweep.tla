------------------------------ MODULE BoxSweep ------------------------------
(***************************************************************************)
(* What a maintenance job promises of the box it was created for, without  *)
(* messages, leases and time: one sweeper at a time passes over the        *)
(* documents by their ids, the cursor moves forward and never past a       *)
(* document that was not visited, and what has ended is not taken up.      *)
(***************************************************************************)
EXTENDS Naturals

CONSTANTS
    Docs,    \* document ids
    Workers  \* who may sweep

VARIABLES
    phase,   \* "none", "open" or "ended"
    sweeper, \* the worker that sweeps, if there is one
    cursor,  \* no document up to here is looked at again
    seen,    \* the documents that were visited
    here     \* the documents that have been in the box all the time

vars == <<phase, sweeper, cursor, seen, here>>

Begin ==
    /\ phase = "none"
    /\ phase' = "open"
    /\ here' \in SUBSET Docs
    /\ UNCHANGED <<sweeper, cursor, seen>>

Leave(d) ==
    /\ phase = "open"
    /\ here' = here \ {d}
    /\ UNCHANGED <<phase, sweeper, cursor, seen>>

Take(w) ==
    /\ phase = "open"
    /\ sweeper = {}
    /\ sweeper' = {w}
    /\ UNCHANGED <<phase, cursor, seen, here>>

\* A document is visited again only if the cursor did not get there.
Visit(d) ==
    /\ sweeper # {}
    /\ cursor < d
    /\ seen' = seen \cup {d}
    /\ UNCHANGED <<phase, sweeper, cursor, here>>

Advance(d) ==
    /\ sweeper # {}
    /\ cursor < d
    /\ \A e \in here : e <= d => e \in seen
    /\ cursor' = d
    /\ UNCHANGED <<phase, sweeper, seen, here>>

\* The sweeper is done, has failed or died.
Drop ==
    /\ sweeper # {}
    /\ sweeper' = {}
    /\ phase' \in {phase, "ended"}
    /\ UNCHANGED <<cursor, seen, here>>

\* Somebody else ends the job: a sweeper may still be at its last batch.
End ==
    /\ phase # "none"
    /\ phase' = "ended"
    /\ UNCHANGED <<sweeper, cursor, seen, here>>

Init ==
    /\ phase = "none"
    /\ sweeper = {}
    /\ cursor = 0
    /\ seen = {}
    /\ here = {}

Next ==
    \/ Begin
    \/ \E d \in Docs : Leave(d) \/ Visit(d) \/ Advance(d)
    \/ \E w \in Workers : Take(w)
    \/ Drop
    \/ End

Spec == Init /\ [][Next]_vars

=============================================================================

--------------------------- MODULE MCLeasedBoxJob ---------------------------
(***************************************************************************)
(* Small instances of LeasedBoxJob for TLC.                                *)
(***************************************************************************)
EXTENDS LeasedBoxJob, TLC

\* Worker processes are interchangeable, and so are the random tokens.
Symmetric == Permutations(Workers) \cup Permutations(Tokens)

\* The job of a box with documents that nobody moves or deletes meanwhile: its
\* last batch is not an empty one.
StillSpec ==
    /\ Init /\ box # {}
    /\ [][Next /\ UNCHANGED box]_vars

=============================================================================

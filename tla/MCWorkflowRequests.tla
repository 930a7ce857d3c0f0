------------------------- MODULE MCWorkflowRequests -------------------------
(***************************************************************************)
(* Small instances of WorkflowRequests for TLC.                            *)
(***************************************************************************)
EXTENDS WorkflowRequests, TLC

\* Requests are interchangeable.
Symmetric == Permutations(Requests)

=============================================================================

------------------------- MODULE MCWorkflowRequests --------------------------
(***************************************************************************)
(* WorkflowRequests for TLC.                                               *)
(***************************************************************************)
EXTENDS WorkflowRequests, TLC

\* Requests are interchangeable: they differ by what Arrive lets them ask.
\* Sound for invariants and action properties only.
Interchangeable == Permutations(Requests)
=============================================================================

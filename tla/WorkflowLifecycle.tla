-------------------------- MODULE WorkflowLifecycle --------------------------
(***************************************************************************)
(* The tables a workflow lives by: the status machine of                   *)
(* app/workflows/lifecycle.py, the approval rules of                       *)
(* app/approvals/lifecycle.py and the order in which the runtime of        *)
(* app/runtime/service.py drives a workflow through its statuses.          *)
(* There is no state here; the modules that keep a workflow extend it.     *)
(***************************************************************************)
EXTENDS Naturals, Sequences

Statuses == {"CREATED", "PLANNING", "RETRIEVING", "CALCULATING",
             "CHECKING_COMPLIANCE", "VALIDATING", "WAITING_APPROVAL",
             "APPROVED", "REJECTED", "GENERATING_EMAIL", "COMPLETED",
             "FAILED", "CANCELLED"}

TerminalStatuses == {"COMPLETED", "FAILED", "CANCELLED", "REJECTED"}

\* ALLOWED_WORKFLOW_TRANSITIONS: the successors of each status.
AllowedTransitions ==
    [s \in Statuses |->
        CASE s = "CREATED"             -> {"PLANNING", "CANCELLED"}
          [] s = "PLANNING"            -> {"RETRIEVING", "FAILED", "CANCELLED"}
          [] s = "RETRIEVING"          -> {"CALCULATING", "FAILED", "CANCELLED"}
          [] s = "CALCULATING"         -> {"CHECKING_COMPLIANCE", "FAILED",
                                           "CANCELLED"}
          [] s = "CHECKING_COMPLIANCE" -> {"VALIDATING", "FAILED", "CANCELLED"}
          [] s = "VALIDATING"          -> {"WAITING_APPROVAL", "FAILED",
                                           "CANCELLED"}
          [] s = "WAITING_APPROVAL"    -> {"APPROVED", "REJECTED", "CANCELLED"}
          [] s = "APPROVED"            -> {"GENERATING_EMAIL"}
          [] s = "GENERATING_EMAIL"    -> {"COMPLETED", "FAILED"}
          [] OTHER                     -> {}]

\* Mutant of CanTransition: the table is not asked.
AllowsAnything(from, to) == to # from

CanTransition(from, to) == to \in AllowedTransitions[from]

-----------------------------------------------------------------------------
(***************************************************************************)
(* Approval rules.  A record is written for every accepted decision; the   *)
(* history of a workflow is the sequence of its records.                   *)
(***************************************************************************)
FinalDecisions == {"approve", "reject"}
Decisions == FinalDecisions \cup {"request_changes"}

\* The final records of a history (has_final_approval_decision asks for one).
Finals(history) ==
    {history[i] : i \in {j \in DOMAIN history :
                            history[j].decision \in FinalDecisions}}

\* The status a final decision moves the workflow to.
DecisionStatus(decision) ==
    IF decision = "approve" THEN "APPROVED" ELSE "REJECTED"

\* Mutant of MayDecide: the status alone decides.
DecidesOnStatus(decision, status, history) == status = "WAITING_APPROVAL"

\* validate_approval_decision_allowed, with submit_approval_decision's own
\* duplicate check in front of it.
MayDecide(decision, status, history) ==
    /\ status = "WAITING_APPROVAL"
    /\ decision \in FinalDecisions => Finals(history) = {}

\* Mutant of MayResume: the status alone decides.
ResumesOnStatus(status, history) == status = "APPROVED"

\* validate_resume_allowed.
MayResume(status, history) ==
    /\ status = "APPROVED"
    /\ \E i \in DOMAIN history : history[i].decision = "approve"

-----------------------------------------------------------------------------
(***************************************************************************)
(* The runtime enters one status per stage: planner, retrieval, quotation, *)
(* compliance, validation, approval.  StageAfter is the status of the      *)
(* stage that follows the one whose status is s.                           *)
(***************************************************************************)
FirstStage == "PLANNING"
LastStage  == "WAITING_APPROVAL"

StageAfter ==
    [s \in {"PLANNING", "RETRIEVING", "CALCULATING", "CHECKING_COMPLIANCE",
            "VALIDATING"} |->
        CASE s = "PLANNING"            -> "RETRIEVING"
          [] s = "RETRIEVING"          -> "CALCULATING"
          [] s = "CALCULATING"         -> "CHECKING_COMPLIANCE"
          [] s = "CHECKING_COMPLIANCE" -> "VALIDATING"
          [] s = "VALIDATING"          -> "WAITING_APPROVAL"]

\* How far along the lifecycle a status is; every allowed transition climbs.
Rank ==
    [s \in Statuses |->
        CASE s = "CREATED"             -> 0
          [] s = "PLANNING"            -> 1
          [] s = "RETRIEVING"          -> 2
          [] s = "CALCULATING"         -> 3
          [] s = "CHECKING_COMPLIANCE" -> 4
          [] s = "VALIDATING"          -> 5
          [] s = "WAITING_APPROVAL"    -> 6
          [] s = "APPROVED"            -> 7
          [] s = "GENERATING_EMAIL"    -> 8
          [] OTHER                     -> 9]
=============================================================================

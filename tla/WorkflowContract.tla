-------------------------- MODULE WorkflowContract ---------------------------
(***************************************************************************)
(* What the workflow API promises about one workflow, whatever its         *)
(* requests do inside: its status follows the lifecycle, it accepts at     *)
(* most one final approval decision, and it completes a resume only with   *)
(* an approval on file.  A run and a resume are one step each: they commit *)
(* at their end or not at all.  A client with full access may replace the  *)
(* final records on file by any others; the status and the decisions that  *)
(* were accepted are out of its reach.                                     *)
(***************************************************************************)
EXTENDS WorkflowLifecycle

CONSTANT Requests     \* the API requests a workflow may receive

VARIABLES status,     \* the committed lifecycle status
          finals,     \* the final approval records on file
          accepted    \* the final decisions that were accepted

vars == <<status, finals, accepted>>

FinalRecords == [by : Requests, decision : FinalDecisions]

Init == /\ status = "CREATED"
        /\ finals = {}
        /\ accepted = {}

\* A run takes a fresh workflow to its approval gate, with a new history.
Run == /\ status = "CREATED"
       /\ status' = LastStage
       /\ finals' = {}
       /\ UNCHANGED accepted

\* A reviewer closes the approval gate.
Decide(record) == /\ status = "WAITING_APPROVAL"
                  /\ finals = {}
                  /\ status' = DecisionStatus(record.decision)
                  /\ finals' = {record}
                  /\ accepted' = accepted \cup {record}

\* An approved workflow is resumed to its end.
Resume == /\ status = "APPROVED"
          /\ \E record \in finals : record.decision = "approve"
          /\ status' = "COMPLETED"
          /\ UNCHANGED <<finals, accepted>>

\* A manager moves the status by hand.
Move(to) == /\ CanTransition(status, to)
            /\ status' = to
            /\ UNCHANGED <<finals, accepted>>

\* A client replaces the state payload, and the records in it.
Patch == /\ finals' \in SUBSET FinalRecords
         /\ UNCHANGED <<status, accepted>>

Next == \/ Run
        \/ \E record \in FinalRecords : Decide(record)
        \/ Resume
        \/ \E to \in Statuses : Move(to)
        \/ Patch

Spec == Init /\ [][Next]_vars

-----------------------------------------------------------------------------
TypeOK == /\ status \in Statuses
          /\ finals \in SUBSET FinalRecords
          /\ accepted \in SUBSET FinalRecords

\* At most one final decision is ever accepted, also when a client has removed
\* the record of the first (approvals/service.py,
\* DuplicateFinalApprovalDecisionError).
OneFinalDecision == \A a, b \in accepted : a = b

\* A final decision keeps its effect, whatever records are put in its place: a
\* rejected workflow stays rejected and an approved one only goes on through
\* email generation (workflows/lifecycle.py, ALLOWED_WORKFLOW_TRANSITIONS).
DecisionTakesEffect ==
    \A record \in accepted :
        status \in IF record.decision = "reject"
                   THEN {"REJECTED"}
                   ELSE {"APPROVED", "GENERATING_EMAIL", "COMPLETED", "FAILED"}

\* The status never leaves a terminal status and never moves backwards
\* (workflows/lifecycle.py, TERMINAL_WORKFLOW_STATUSES).
StatusOnlyClimbs ==
    [][ /\ status \in TerminalStatuses => status' = status
        /\ status' # status => Rank[status] < Rank[status'] ]_vars

\* A step that moves the status leaves the final records alone, clears them, or
\* files the one decision ever accepted; records of any other origin only come
\* with a PATCH, which moves nothing (approvals/service.py,
\* submit_approval_decision).
RecordsFollowDecisions ==
    [][status' # status => finals' \in {finals, {}, accepted'}]_vars
=============================================================================

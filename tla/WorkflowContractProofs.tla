----------------------- MODULE WorkflowContractProofs ------------------------
(***************************************************************************)
(* What follows from the promises of WorkflowContract, for every set of    *)
(* requests.  The records on file prove nothing, a client may replace      *)
(* them; what keeps a second decision out is the status.  An accepted      *)
(* decision is behind a status that never returns to WAITING_APPROVAL, so  *)
(* the two properties of the decisions are inductive together.             *)
(***************************************************************************)
EXTENDS WorkflowContract, TLAPS

\* Every allowed transition leaves a status that is not terminal and climbs.
LEMMA TransitionsClimb ==
    ASSUME NEW from \in Statuses, NEW to \in Statuses, CanTransition(from, to)
    PROVE  /\ from \notin TerminalStatuses
           /\ Rank[from] < Rank[to]
<1>1. /\ Rank["CREATED"] = 0 /\ Rank["PLANNING"] = 1
      /\ Rank["RETRIEVING"] = 2 /\ Rank["CALCULATING"] = 3
      /\ Rank["CHECKING_COMPLIANCE"] = 4 /\ Rank["VALIDATING"] = 5
      /\ Rank["WAITING_APPROVAL"] = 6 /\ Rank["APPROVED"] = 7
      /\ Rank["GENERATING_EMAIL"] = 8
      /\ \A s \in TerminalStatuses : Rank[s] = 9
  BY DEF Rank, Statuses, TerminalStatuses
<1>2. /\ AllowedTransitions["CREATED"] = {"PLANNING", "CANCELLED"}
      /\ AllowedTransitions["PLANNING"] = {"RETRIEVING", "FAILED", "CANCELLED"}
      /\ AllowedTransitions["RETRIEVING"] =
            {"CALCULATING", "FAILED", "CANCELLED"}
      /\ AllowedTransitions["CALCULATING"] =
            {"CHECKING_COMPLIANCE", "FAILED", "CANCELLED"}
      /\ AllowedTransitions["CHECKING_COMPLIANCE"] =
            {"VALIDATING", "FAILED", "CANCELLED"}
      /\ AllowedTransitions["VALIDATING"] =
            {"WAITING_APPROVAL", "FAILED", "CANCELLED"}
      /\ AllowedTransitions["WAITING_APPROVAL"] =
            {"APPROVED", "REJECTED", "CANCELLED"}
      /\ AllowedTransitions["APPROVED"] = {"GENERATING_EMAIL"}
      /\ AllowedTransitions["GENERATING_EMAIL"] = {"COMPLETED", "FAILED"}
      /\ \A s \in TerminalStatuses : AllowedTransitions[s] = {}
  BY DEF AllowedTransitions, Statuses, TerminalStatuses
<1>3. from \in {"CREATED", "PLANNING", "RETRIEVING", "CALCULATING",
                "CHECKING_COMPLIANCE", "VALIDATING", "WAITING_APPROVAL",
                "APPROVED", "GENERATING_EMAIL"} \cup TerminalStatuses
  BY DEF Statuses, TerminalStatuses
<1> QED
  BY <1>1, <1>2, <1>3 DEF CanTransition, TerminalStatuses

Inv == TypeOK /\ OneFinalDecision /\ DecisionTakesEffect

LEMMA InitInv == Init => Inv
BY DEF Init, Inv, TypeOK, OneFinalDecision, DecisionTakesEffect, Statuses

\* While the approval gate is open no decision has been accepted.
LEMMA OpenGate ==
    ASSUME DecisionTakesEffect, status = "WAITING_APPROVAL",
           accepted \in SUBSET FinalRecords
    PROVE  accepted = {}
<1> SUFFICES ASSUME NEW record \in accepted PROVE FALSE
  OBVIOUS
<1>1. status \in IF record.decision = "reject"
                 THEN {"REJECTED"}
                 ELSE {"APPROVED", "GENERATING_EMAIL", "COMPLETED", "FAILED"}
  BY DEF DecisionTakesEffect
<1> QED
  BY <1>1

LEMMA StepInv == Inv /\ [Next]_vars => Inv'
<1> SUFFICES ASSUME Inv, [Next]_vars PROVE Inv'
  OBVIOUS
<1> USE DEF Inv, TypeOK, OneFinalDecision, DecisionTakesEffect
<1>1. CASE Run
  BY <1>1 DEF Run, LastStage, Statuses
<1>2. ASSUME NEW record \in FinalRecords, Decide(record) PROVE Inv'
  <2>1. record.decision \in FinalDecisions
    BY DEF FinalRecords
  <2>2. accepted' = {record} /\ finals' = {record}
    BY <1>2, OpenGate DEF Decide
  <2>3. status' = IF record.decision = "approve" THEN "APPROVED" ELSE "REJECTED"
    BY <1>2 DEF Decide, DecisionStatus
  <2> QED
    BY <2>1, <2>2, <2>3 DEF FinalDecisions, Statuses
<1>3. CASE Resume
  BY <1>3 DEF Resume, Statuses
<1>4. ASSUME NEW to \in Statuses, Move(to) PROVE Inv'
  <2>1. status = "REJECTED" => FALSE
    BY <1>4 DEF Move, CanTransition, AllowedTransitions
  <2>2. status = "APPROVED" => to = "GENERATING_EMAIL"
    BY <1>4 DEF Move, CanTransition, AllowedTransitions
  <2>3. status = "GENERATING_EMAIL" => to \in {"COMPLETED", "FAILED"}
    BY <1>4 DEF Move, CanTransition, AllowedTransitions
  <2>4. status \notin {"COMPLETED", "FAILED"}
    BY <1>4, TransitionsClimb DEF Move, TerminalStatuses
  <2> QED
    BY <1>4, <2>1, <2>2, <2>3, <2>4 DEF Move
<1>5. CASE Patch
  BY <1>5 DEF Patch
<1>6. CASE UNCHANGED vars
  BY <1>6 DEF vars
<1> QED
  BY <1>1, <1>2, <1>3, <1>4, <1>5, <1>6 DEF Next

\* At most one final decision is ever accepted, and it keeps its effect, also
\* when clients drop, forge or replace the records of the history
\* (approvals/service.py, workflows/lifecycle.py).
THEOREM DecisionsHold == Spec => [](OneFinalDecision /\ DecisionTakesEffect)
<1>1. Inv => OneFinalDecision /\ DecisionTakesEffect
  BY DEF Inv
<1> QED
  BY InitInv, StepInv, <1>1, PTL DEF Spec

\* A status leaves no terminal status and never moves backwards
\* (workflows/lifecycle.py, ALLOWED_WORKFLOW_TRANSITIONS).
THEOREM Climbs == Spec => StatusOnlyClimbs
<1> DEFINE Up == /\ status \in TerminalStatuses => status' = status
                 /\ status' # status => Rank[status] < Rank[status']
<1>1. ASSUME Inv, [Next]_vars PROVE [Up]_vars
  <2>1. ASSUME NEW to \in Statuses, CanTransition(status, to), status' = to
        PROVE  Up
    BY <1>1, <2>1, TransitionsClimb DEF Inv, TypeOK
  <2>2. CASE Run
    <3>1. Rank["CREATED"] = 0 /\ Rank["WAITING_APPROVAL"] = 6
      BY DEF Rank, Statuses
    <3> QED
      BY <2>2, <3>1 DEF Run, LastStage, TerminalStatuses
  <2>3. ASSUME NEW record \in FinalRecords, Decide(record) PROVE Up
    <3>1. CanTransition(status, DecisionStatus(record.decision))
      BY <2>3 DEF Decide, CanTransition, DecisionStatus, AllowedTransitions,
                  Statuses
    <3>2. DecisionStatus(record.decision) \in Statuses
      BY DEF DecisionStatus, Statuses
    <3> QED
      BY <2>1, <2>3, <3>1, <3>2 DEF Decide
  <2>4. CASE Resume
    <3>1. Rank["APPROVED"] = 7 /\ Rank["COMPLETED"] = 9
      BY DEF Rank, Statuses
    <3> QED
      BY <2>4, <3>1 DEF Resume, TerminalStatuses
  <2>5. ASSUME NEW to \in Statuses, Move(to) PROVE Up
    BY <2>1, <2>5 DEF Move
  <2>6. CASE Patch
    BY <2>6 DEF Patch
  <2> QED
    BY <1>1, <2>2, <2>3, <2>4, <2>5, <2>6 DEF Next
<1> QED
  BY InitInv, StepInv, <1>1, PTL DEF Spec, StatusOnlyClimbs

\* A step that moves the status leaves the final records alone, clears them, or
\* files the one decision ever accepted: records of any other origin come with
\* a PATCH alone (approvals/service.py, submit_approval_decision).
THEOREM RecordsFollow == Spec => RecordsFollowDecisions
<1> DEFINE Follow == status' # status => finals' \in {finals, {}, accepted'}
<1>1. ASSUME Inv, [Next]_vars PROVE [Follow]_vars
  <2>1. ASSUME NEW record \in FinalRecords, Decide(record) PROVE Follow
    <3>1. accepted = {}
      BY <1>1, <2>1, OpenGate DEF Inv, TypeOK, Decide
    <3> QED
      BY <2>1, <3>1 DEF Decide
  <2>2. CASE Run \/ Resume \/ (\E to \in Statuses : Move(to)) \/ Patch
    BY <2>2 DEF Run, Resume, Move, Patch
  <2> QED
    BY <1>1, <2>1, <2>2 DEF Next
<1> QED
  BY InitInv, StepInv, <1>1, PTL DEF Spec, RecordsFollowDecisions
=============================================================================

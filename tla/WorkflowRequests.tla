-------------------------- MODULE WorkflowRequests ---------------------------
(***************************************************************************)
(* Concurrent API requests on one workflow row.                            *)
(*                                                                         *)
(* Every mutating endpoint of app/api/v1/workflows.py runs in a database   *)
(* session of its own, reads the row without locking it, writes it with    *)
(* flushes, and commits once, at the end, when nothing was raised.  A      *)
(* session that is closed without a commit is rolled back.  PostgreSQL     *)
(* runs the sessions READ COMMITTED: a SELECT sees the committed row, the  *)
(* first flushed UPDATE takes the row lock until the end of the            *)
(* transaction, and an UPDATE that waited for the lock overwrites what the *)
(* previous owner committed, column by column.                             *)
(*                                                                         *)
(* session.get returns the object the session already holds when it is     *)
(* still alive.  The identity map is weak, but Workflow.audit_logs and     *)
(* AuditLog.workflow load each other, so the object dies only when the     *)
(* cyclic collector runs: a repeated get may return the old object or read *)
(* the row again, and Loads allows both.                                   *)
(*                                                                         *)
(* The columns status and state_payload are what the requests write; of    *)
(* the payload we keep the approval history.  A request that finds there   *)
(* what it cannot read raises, which Abort and RejectPayload stand for.    *)
(* Workflow events are published to Redis as they are appended, so         *)
(* "emitted" survives a rollback.                                          *)
(***************************************************************************)
EXTENDS WorkflowLifecycle, FiniteSets

CONSTANTS
    Requests,        \* the API requests; each is sent once
    Kinds,           \* the endpoints and decisions they may address
    ManualTargets,   \* the statuses POST /transition may ask for
    MaxRecords,      \* bound: the approval records a PATCH makes up
    MaxInFlight      \* how many requests the server works on at a time

AllKinds == {"run", "resume", "transition", "patch"} \cup Decisions

ASSUME KindsAssumption  == Kinds \subseteq AllKinds
ASSUME TargetAssumption == ManualTargets \subseteq Statuses
ASSUME RecordsAssumption == MaxRecords \in Nat

VARIABLES
    row,        \* the committed workflow row
    audit,      \* the committed status transitions, oldest first
    lock,       \* the session that holds the row lock, in a set of at most one
    pc,         \* where a request is
    kind,       \* what a request asks for
    goal,       \* the status its next transition call asks for
    mem,        \* the Workflow object of its session, pending values included
    view,       \* the WorkflowState it works from
    trail,      \* the status transitions its session has audited
    emitted     \* the types of the events it has appended, hence published

shared  == <<row, audit, lock>>
session == <<kind, goal, mem, view, trail>>
vars    == <<shared, pc, session, emitted>>

\* An approval record, and the request that put it into the payload.
Records == [by : Requests, decision : Decisions]
Rows    == [status : Statuses, history : Seq(Records)]
Changes == [old : Statuses, new : Statuses]

\* The row as create_workflow commits it.
NewRow == [status |-> "CREATED", history |-> <<>>]

InFlight == {"read", "announce", "recheck", "flush", "stage", "failing",
             "unwind", "commit"}
Ended    == {"committed", "aborted"}
Places   == {"idle"} \cup InFlight \cup Ended

EventTypes == {"runtime.started", "runtime.failed", "runtime.waiting",
               "node.started", "node.completed", "node.failed",
               "resume.requested", "resume.failed", "resumed",
               "decision.approve", "decision.reject",
               "decision.request_changes"}

DecisionEvent(decision) ==
    CASE decision = "approve" -> "decision.approve"
      [] decision = "reject"  -> "decision.reject"
      [] OTHER                -> "decision.request_changes"

Init ==
    /\ row     = NewRow
    /\ audit   = <<>>
    /\ lock    = {}
    /\ pc      = [r \in Requests |-> "idle"]
    /\ kind    = [r \in Requests |-> "none"]
    /\ goal    = [r \in Requests |-> "CREATED"]
    /\ mem     = [r \in Requests |-> NewRow]
    /\ view    = [r \in Requests |-> NewRow]
    /\ trail   = [r \in Requests |-> <<>>]
    /\ emitted = [r \in Requests |-> {}]

-----------------------------------------------------------------------------
\* What session.get may return to r before its first flush.
Loads(r) == IF pc[r] = "read" THEN {row} ELSE {row, mem[r]}

Goto(r, place) == pc' = [pc EXCEPT ![r] = place]
Emit(r, types) == emitted' = [emitted EXCEPT ![r] = @ \cup types]

\* Mutant of Written: an UPDATE that names every column.
WritesEveryColumn(r) == mem[r]

\* The row r leaves behind: both columns after a transition, only the payload
\* after update_workflow_state alone.
Written(r) ==
    IF kind[r] \in {"patch", "request_changes"}
    THEN [row EXCEPT !.history = mem[r].history]
    ELSE mem[r]

\* Mutant of TakeLock: an UPDATE that does not wait.
TakesLockAnyway(r) == lock' = lock \cup {r}

\* The first UPDATE a session flushes waits for the row lock and takes it.
TakeLock(r) == lock = {} /\ lock' = {r}

\* update_workflow_state accepts a state that carries the status of the row; of
\* the payload it compares nothing.
StateMatches(m, state) == state.status = m.status

\* Mutant of Assign: the audited old status is read after the assignment.
AssignsBeforeAudit(r, m, to) ==
    /\ mem'   = [mem EXCEPT ![r] = [m EXCEPT !.status = to]]
    /\ trail' = [trail EXCEPT ![r] = Append(@, [old |-> to, new |-> to])]

\* WorkflowService.transition_workflow_status up to its first flush: the
\* object m of session r gets the requested status and the audit entry.
Assign(r, m, to) ==
    /\ mem'   = [mem EXCEPT ![r] = [m EXCEPT !.status = to]]
    /\ trail' = [trail EXCEPT ![r] = Append(@, [old |-> m.status, new |-> to])]

\* WorkflowService.update_workflow_state up to its first flush: the payload of
\* the object m of session r is replaced whole by that of the state.
UpdateState(r, m, state) ==
    \/ /\ StateMatches(m, state)
       /\ mem' = [mem EXCEPT ![r] = [m EXCEPT !.history = state.history]]
       /\ Goto(r, "flush")
    \/ /\ ~StateMatches(m, state)
       /\ mem' = [mem EXCEPT ![r] = m]
       /\ Goto(r, "unwind")

\* Mutant of Close: the connection goes back to the pool inside its transaction.
CloseKeepsLock(r, outcome) ==
    /\ Goto(r, outcome)
    /\ goal'  = [goal EXCEPT ![r] = "CREATED"]
    /\ mem'   = [mem EXCEPT ![r] = NewRow]
    /\ view'  = [view EXCEPT ![r] = NewRow]
    /\ trail' = [trail EXCEPT ![r] = <<>>]
    /\ UNCHANGED <<kind, emitted, lock>>

\* The session ends: its objects go, its row lock is released.
Close(r, outcome) ==
    /\ Goto(r, outcome)
    /\ lock'  = lock \ {r}
    /\ goal'  = [goal EXCEPT ![r] = "CREATED"]
    /\ mem'   = [mem EXCEPT ![r] = NewRow]
    /\ view'  = [view EXCEPT ![r] = NewRow]
    /\ trail' = [trail EXCEPT ![r] = <<>>]
    /\ UNCHANGED <<kind, emitted>>

-----------------------------------------------------------------------------
(***************************************************************************)
(* Arrival.                                                                *)
(***************************************************************************)

ServerIsFree == Cardinality({r \in Requests : pc[r] \in InFlight}) < MaxInFlight

Submit(r, k, to) ==
    /\ pc[r] = "idle"
    /\ ServerIsFree
    /\ Goto(r, "read")
    /\ kind' = [kind EXCEPT ![r] = k]
    /\ goal' = [goal EXCEPT ![r] = to]
    /\ UNCHANGED <<shared, mem, view, trail, emitted>>

Arrive(r) ==
    \/ "patch" \in Kinds /\ Submit(r, "patch", "CREATED")
    \/ \E to \in ManualTargets :
          "transition" \in Kinds /\ Submit(r, "transition", to)
    \/ "run" \in Kinds /\ Submit(r, "run", FirstStage)
    \/ "resume" \in Kinds /\ Submit(r, "resume", "GENERATING_EMAIL")
    \/ \E d \in Kinds \cap FinalDecisions : Submit(r, d, DecisionStatus(d))
    \/ "request_changes" \in Kinds
          /\ Submit(r, "request_changes", "WAITING_APPROVAL")

-----------------------------------------------------------------------------
(***************************************************************************)
(* Reads and checks, before the session holds the row lock.                *)
(***************************************************************************)

\* submit_approval_decision: read the state, check the decision.
ReadForDecision(r) ==
    /\ pc[r] = "read"
    /\ kind[r] \in Decisions
    /\ mem'  = [mem EXCEPT ![r] = row]
    /\ view' = [view EXCEPT ![r] = row]
    /\ \/ /\ MayDecide(kind[r], row.status, row.history)
          /\ Goto(r, "recheck")
       \/ /\ ~MayDecide(kind[r], row.status, row.history)
          /\ Goto(r, "unwind")
    /\ UNCHANGED <<shared, kind, goal, trail, emitted>>

\* run_workflow: read the state; anything but CREATED appends a failure event
\* and is refused.
ReadForRun(r) ==
    /\ pc[r] = "read"
    /\ kind[r] = "run"
    /\ mem'  = [mem EXCEPT ![r] = row]
    /\ view' = [view EXCEPT ![r] = row]
    /\ \/ /\ row.status = "CREATED"
          /\ Goto(r, "announce")
          /\ UNCHANGED emitted
       \/ /\ row.status # "CREATED"
          /\ Goto(r, "unwind")
          /\ Emit(r, {"runtime.failed"})
    /\ UNCHANGED <<shared, kind, goal, trail>>

\* resume_workflow_after_approval: read the state and its approval records.
ReadForResume(r) ==
    /\ pc[r] = "read"
    /\ kind[r] = "resume"
    /\ mem'  = [mem EXCEPT ![r] = row]
    /\ view' = [view EXCEPT ![r] = row]
    /\ \/ /\ MayResume(row.status, row.history)
          /\ Goto(r, "announce")
          /\ UNCHANGED emitted
       \/ /\ ~MayResume(row.status, row.history)
          /\ Goto(r, "unwind")
          /\ Emit(r, {"resume.failed"})
    /\ UNCHANGED <<shared, kind, goal, trail>>

\* The first event of a run or a resume; append_event gets the row again.
Announce(r) ==
    /\ pc[r] = "announce"
    /\ \E m \in Loads(r) : mem' = [mem EXCEPT ![r] = m]
    /\ Emit(r, {IF kind[r] = "run" THEN "runtime.started"
                                   ELSE "resume.requested"})
    /\ Goto(r, "recheck")
    /\ UNCHANGED <<shared, kind, goal, view, trail>>

\* workflow_state_to_runtime_state finds a runtime stage it does not know in the
\* payload: a run appends a failure event and is refused, a resume raises.
RejectPayload(r) ==
    /\ \/ /\ pc[r] = "recheck" /\ kind[r] = "run"
          /\ Emit(r, {"runtime.failed"})
       \/ /\ pc[r] = "stage" /\ kind[r] = "resume"
          /\ UNCHANGED emitted
    /\ Goto(r, "unwind")
    /\ UNCHANGED <<shared, session>>

CallsTransition(r) ==
    \/ pc[r] = "read" /\ kind[r] = "transition"
    \/ pc[r] = "recheck" /\ kind[r] \in FinalDecisions \cup {"run", "resume"}

\* transition_workflow_status: get the row again, validate, assign.  A run
\* catches the error and goes on to its failure handler.
CallTransition(r) ==
    /\ CallsTransition(r)
    /\ \E m \in Loads(r) :
          \/ /\ CanTransition(m.status, goal[r])
             /\ Assign(r, m, goal[r])
             /\ Goto(r, "flush")
          \/ /\ ~CanTransition(m.status, goal[r])
             /\ mem' = [mem EXCEPT ![r] = m]
             /\ Goto(r, IF kind[r] = "run" THEN "failing" ELSE "unwind")
             /\ UNCHANGED trail
    /\ UNCHANGED <<shared, kind, goal, view, emitted>>

\* The records a client may put into a PATCH: any that a committed request has
\* left in the row, and any it makes up.
KnownRecords(r) ==
    {c \in Records :
        \/ c.by = r
        \/ pc[c.by] = "committed" /\ kind[c.by] \in {c.decision, "patch"}}

\* The state a client sends with a PATCH: any status, and the approval history
\* of the row as it is or any other one, also none.
ClientStates(r) ==
    [status  : Statuses,
     history : {row.history}
                 \cup UNION {[1..n -> KnownRecords(r)] : n \in 0..MaxRecords}]

\* PATCH /state hands the client's state to update_workflow_state.
PatchState(r) ==
    /\ pc[r] = "read"
    /\ kind[r] = "patch"
    /\ \E state \in ClientStates(r) : UpdateState(r, row, state)
    /\ UNCHANGED <<shared, kind, goal, view, trail, emitted>>

\* A change request hands it the state it read, with its own record.
RequestChanges(r) ==
    /\ pc[r] = "recheck"
    /\ kind[r] = "request_changes"
    /\ \E m \in Loads(r) :
          UpdateState(r, m,
              [view[r] EXCEPT !.history =
                           Append(@, [by |-> r, decision |-> kind[r]])])
    /\ UNCHANGED <<shared, kind, goal, view, trail, emitted>>

-----------------------------------------------------------------------------
(***************************************************************************)
(* Writes, under the row lock.                                             *)
(***************************************************************************)

\* The first UPDATE waits for the row lock.  A decision then writes its record
\* after those it read and appends its event; a run and a resume go on.
Flush(r) ==
    /\ pc[r] = "flush"
    /\ TakeLock(r)
    /\ IF kind[r] \in FinalDecisions
       THEN mem' = [mem EXCEPT ![r].history =
                      Append(view[r].history, [by |-> r, decision |-> kind[r]])]
       ELSE UNCHANGED mem
    /\ IF kind[r] \in Decisions
       THEN Emit(r, {DecisionEvent(kind[r])})
       ELSE UNCHANGED emitted
    /\ Goto(r, IF kind[r] \in {"run", "resume"} THEN "stage" ELSE "commit")
    /\ UNCHANGED <<row, audit, kind, goal, view, trail>>

\* One stage of a run: its handler answers, then the next stage is entered; the
\* last one stores the runtime's state, approval section included.
RunStage(r) ==
    /\ pc[r] = "stage"
    /\ kind[r] = "run"
    /\ \/ /\ mem[r].status # LastStage
          /\ Assign(r, mem[r], StageAfter[mem[r].status])
          /\ Emit(r, {"node.started", "node.completed"})
          /\ UNCHANGED pc
       \/ /\ mem[r].status = LastStage
          /\ mem' = [mem EXCEPT ![r].history = <<>>]
          /\ Emit(r, {"node.started", "node.completed", "runtime.waiting"})
          /\ Goto(r, "commit")
          /\ UNCHANGED trail
    /\ UNCHANGED <<shared, kind, goal, view>>

\* The email stage of a resume, up to COMPLETED.
EmailStage(r) ==
    /\ pc[r] = "stage"
    /\ kind[r] = "resume"
    /\ Assign(r, mem[r], "COMPLETED")
    /\ Emit(r, {"node.started", "node.completed", "resumed"})
    /\ Goto(r, "commit")
    /\ UNCHANGED <<shared, kind, goal, view>>

\* A stage handler raises (provider error, invalid output, validation).
StageFails(r) ==
    /\ pc[r] = "stage"
    /\ Emit(r, {"node.started"})
    /\ Goto(r, "failing")
    /\ UNCHANGED <<shared, session>>

\* _handle_runtime_failure: failure events, FAILED where the lifecycle allows
\* it, the error in the payload; then the error is raised again.  When the very
\* first transition was refused the handler reads the row anew, and without a
\* legal step to FAILED its update_workflow_state raises a mismatch.
HandleFailure(r) ==
    /\ pc[r] = "failing"
    /\ Goto(r, "unwind")
    /\ Emit(r, {"node.failed", "runtime.failed"}
                  \cup IF kind[r] = "resume" THEN {"resume.failed"} ELSE {})
    /\ \/ /\ lock = {r}
          /\ IF CanTransition(mem[r].status, "FAILED")
             THEN Assign(r, mem[r], "FAILED")
             ELSE UNCHANGED <<mem, trail>>
          /\ UNCHANGED lock
       \/ /\ lock # {r}
          /\ \E m \in Loads(r) :
                \/ /\ CanTransition(m.status, "FAILED")
                   /\ TakeLock(r)
                   /\ Assign(r, m, "FAILED")
                \/ /\ ~CanTransition(m.status, "FAILED")
                   /\ mem' = [mem EXCEPT ![r] = m]
                   /\ UNCHANGED <<lock, trail>>
    /\ UNCHANGED <<row, audit, kind, goal, view>>

-----------------------------------------------------------------------------
(***************************************************************************)
(* Ends.                                                                   *)
(***************************************************************************)

\* The endpoint commits.
Commit(r) ==
    /\ pc[r] = "commit"
    /\ row'   = Written(r)
    /\ audit' = audit \o trail[r]
    /\ Close(r, "committed")

\* Mutant of Unwind: the failed run commits what its handler wrote.
UnwindCommits(r) ==
    /\ pc[r] = "unwind"
    /\ row'   = IF lock = {r} THEN Written(r) ELSE row
    /\ audit' = IF lock = {r} THEN audit \o trail[r] ELSE audit
    /\ Close(r, "aborted")

\* An exception reached the endpoint: the session is closed uncommitted.
Unwind(r) ==
    /\ pc[r] = "unwind"
    /\ Close(r, "aborted")
    /\ UNCHANGED <<row, audit>>

\* Mutant of Abort: the session is committed when it is closed.
AbortCommits(r) ==
    /\ pc[r] \in InFlight \ {"unwind"}
    /\ row'   = IF lock = {r} THEN Written(r) ELSE row
    /\ audit' = IF lock = {r} THEN audit \o trail[r] ELSE audit
    /\ Close(r, "aborted")

\* The client disconnects, the connection breaks or the server dies.
Abort(r) ==
    /\ pc[r] \in InFlight \ {"unwind"}
    /\ Close(r, "aborted")
    /\ UNCHANGED <<row, audit>>

Work(r) ==
    \/ ReadForDecision(r) \/ ReadForRun(r) \/ ReadForResume(r)
    \/ Announce(r) \/ RejectPayload(r)
    \/ CallTransition(r) \/ PatchState(r) \/ RequestChanges(r)
    \/ Flush(r) \/ RunStage(r) \/ EmailStage(r) \/ StageFails(r)
    \/ HandleFailure(r) \/ Commit(r) \/ Unwind(r)

Next == \E r \in Requests : Arrive(r) \/ Work(r) \/ Abort(r)

Spec == Init /\ [][Next]_vars

\* The event loop resumes every request whose await is ready, and PostgreSQL
\* grants a free row lock to a waiter.  Nothing obliges a request to arrive or
\* to break.
FairSpec == Spec /\ \A r \in Requests : WF_vars(Work(r))

-----------------------------------------------------------------------------
(***************************************************************************)
(* Properties.                                                             *)
(***************************************************************************)

\* Every variable stays in its set.
TypeOK ==
    /\ row \in Rows
    /\ audit \in Seq(Changes)
    /\ lock \in SUBSET Requests
    /\ \A a, b \in lock : a = b
    /\ pc \in [Requests -> Places]
    /\ kind \in [Requests -> AllKinds \cup {"none"}]
    /\ goal \in [Requests -> Statuses]
    /\ mem \in [Requests -> Rows]
    /\ view \in [Requests -> Rows]
    /\ trail \in [Requests -> Seq(Changes)]
    /\ emitted \in [Requests -> SUBSET EventTypes]

\* No record of a request that was rolled back, or that may still be, is ever
\* on file, be it a decision's or a PATCH's: sessions neither read nor keep
\* uncommitted writes (db/session.py, get_db_session; api/v1/workflows.py, one
\* commit at the end).
HistoryIsCommitted ==
    \A i \in DOMAIN row.history : pc[row.history[i].by] = "committed"

\* The newest audited transition names the status of the row, also when
\* requests overwrite each other: the audit entry is written in the
\* transaction of the status (workflows/service.py, transition_workflow_status).
AuditNamesStatus ==
    row.status = IF audit = <<>> THEN "CREATED" ELSE audit[Len(audit)].new

\* The statuses inside a run or a resume, and FAILED, are only ever committed
\* by a manual transition: a run commits at its approval gate, a resume at
\* COMPLETED, or neither commits (api/v1/workflows.py, run_workflow).
RuntimeIsAtomic ==
    row.status \in Statuses \ {"CREATED", "WAITING_APPROVAL", "APPROVED",
                               "REJECTED", "COMPLETED"}
        => \E r \in Requests : kind[r] = "transition" /\ pc[r] = "committed"

\* A request the server has taken up ends: nobody waits for the row lock for
\* ever, whatever breaks (db/session.py, the session closes with the request).
EveryRequestEnds ==
    \A r \in Requests : pc[r] = "read" ~> pc[r] \in Ended

\* No request is at work.
Quiet == \A r \in Requests : pc[r] \notin InFlight

\* A workflow that has ended stays ended for whatever arrives afterwards, in any
\* interleaving: only a request that was already at work when the terminal
\* status was committed may still overwrite it (workflows/lifecycle.py,
\* TERMINAL_WORKFLOW_STATUSES).
EndsForGood ==
    [](Quiet /\ row.status \in TerminalStatuses
           => [](row.status \in TerminalStatuses))

\* The audited transitions form one path from CREATED to the status of the row
\* (workflows/audit.py, audit_workflow_status_transitioned).
AuditIsAPath ==
    /\ AuditNamesStatus
    /\ \A i \in DOMAIN audit :
          /\ CanTransition(audit[i].old, audit[i].new)
          /\ audit[i].old = IF i = 1 THEN "CREATED" ELSE audit[i - 1].new

\* A request of this kind has been committed.
Committed(k) == \E r \in Requests : kind[r] = k /\ pc[r] = "committed"

\* A resume writes its email only after a reviewer has approved, or after a
\* client has PATCHed an approval record into the row and a manager has moved
\* its status by hand: either of them alone leads past the gate in no
\* interleaving (approvals/lifecycle.py, get_resume_allowed_after_decision).
ResumesAreApproved ==
    Committed("resume") =>
        \/ Committed("approve")
        \/ Committed("patch") /\ Committed("transition")

\* The final decisions the API has accepted, whatever became of their records.
Accepted ==
    {c \in [by : Requests, decision : FinalDecisions] :
        kind[c.by] = c.decision /\ pc[c.by] = "committed"}

\* Requests that do not overlap keep the promises of the API.
Contract == INSTANCE WorkflowContract
                WITH status <- row.status, finals <- Finals(row.history),
                     accepted <- Accepted
ContractSpec == Contract!Spec

\* At most one final decision is accepted for a workflow
\* (.ai/specs/SPEC-012-human-approval-and-resume/spec.md, "Approval service
\* logic should prevent: duplicate final approval decisions").
OneDecisionAccepted ==
    \A q, r \in Requests :
        /\ {pc[q], pc[r]} = {"committed"}
        /\ {kind[q], kind[r]} \subseteq FinalDecisions
        => q = r

\* A run or a resume that fails in a stage leaves its failure behind
\* (.ai/specs/SPEC-006-langgraph-runtime/spec.md, "Runtime failures should be
\* explicit and persisted").
FailureIsPersisted ==
    \A r \in Requests :
        "node.failed" \in emitted[r] => pc[r] # "aborted"
=============================================================================

----------------------- MODULE WorkflowRequestsProofs ------------------------
(***************************************************************************)
(* What holds of WorkflowRequests for every set of requests, every choice  *)
(* of endpoints and manual targets, and any number of requests in flight.  *)
(*                                                                         *)
(* Five invariants are proved: TypeOK, HistoryIsCommitted,                 *)
(* AuditNamesStatus, RuntimeIsAtomic and ResumesAreApproved.  None but the *)
(* first is inductive: each speaks of the committed row, which a Commit    *)
(* copies from a session, or of the requests that committed.  IInv adds    *)
(* what a session knows on the way to its commit: the status its object    *)
(* carries (Plans), the audit trail it has written (Trails), whose records *)
(* its objects hold (Copies), which requests wrote them (Sources), and     *)
(* that a resume at work has its approval (Approvals).  The second half is *)
(* about requests that do not overlap.                                     *)
(***************************************************************************)
EXTENDS WorkflowRequests, FiniteSetTheorems, TLAPS

PayloadKinds == {"patch", "request_changes"}

\* The status the object of a request carries where the request is: the one
\* it asked for once that is assigned, and at the commit the one the endpoint
\* is for.
PlanOf(r) ==
    /\ pc[r] # "idle" => kind[r] \in AllKinds
    /\ pc[r] \in InFlight =>
          /\ kind[r] \in FinalDecisions => goal[r] = DecisionStatus(kind[r])
          /\ kind[r] = "run" => goal[r] = FirstStage
    /\ pc[r] = "flush" /\ kind[r] \notin PayloadKinds
          => mem[r].status = goal[r]
    /\ pc[r] = "stage" =>
          /\ kind[r] \in {"run", "resume"}
          /\ kind[r] = "run" =>
                mem[r].status \in DOMAIN StageAfter \cup {LastStage}
    /\ pc[r] = "commit" =>
          /\ kind[r] \in FinalDecisions => mem[r].status = goal[r]
          /\ kind[r] = "run" => mem[r].status = LastStage
          /\ kind[r] = "resume" => mem[r].status = "COMPLETED"

\* A session audits nothing before its transition call, and from then on its
\* newest entry names the status of its object.
TrailOf(r) ==
    /\ pc[r] \in {"idle", "read", "announce", "recheck"} => trail[r] = <<>>
    /\ pc[r] \in {"flush", "stage", "commit"} =>
          IF kind[r] \in PayloadKinds
          THEN trail[r] = <<>>
          ELSE /\ trail[r] # <<>>
               /\ trail[r][Len(trail[r])].new = mem[r].status

\* Whose records a history holds.
AllCommitted(history) ==
    \A i \in DOMAIN history : pc[history[i].by] = "committed"
OwnOrCommitted(history, r) ==
    \A i \in DOMAIN history :
        history[i].by = r \/ pc[history[i].by] = "committed"

\* The records a session holds are committed ones and its own.
CopiesOf(r) == /\ AllCommitted(view[r].history)
               /\ OwnOrCommitted(mem[r].history, r)

\* A record comes from a request for the decision it names, or from a PATCH.
Sourced(history) ==
    \A i \in DOMAIN history :
        /\ pc[history[i].by] # "idle"
        /\ kind[history[i].by] \in {history[i].decision, "patch"}

\* What must have been committed for a resume to get past its checks.
Backed == \/ Committed("approve")
          \/ Committed("patch") /\ Committed("transition")

\* A resume that has passed its checks is backed.
ApprovalOf(r) ==
    kind[r] = "resume" /\ pc[r] \in {"announce", "recheck", "flush", "stage",
                                     "commit", "committed"}
        => Backed

Plans     == \A r \in Requests : PlanOf(r)
Trails    == \A r \in Requests : TrailOf(r)
Copies    == \A r \in Requests : CopiesOf(r)
Sources   == /\ Sourced(row.history)
             /\ \A r \in Requests : /\ Sourced(view[r].history)
                                    /\ Sourced(mem[r].history)
Approvals == \A r \in Requests : ApprovalOf(r)

\* An approved workflow was approved by a reviewer or moved by hand.
GateWasPassed ==
    row.status = "APPROVED" => Committed("approve") \/ Committed("transition")

IInv == /\ TypeOK
        /\ Plans
        /\ Trails
        /\ Copies
        /\ Sources
        /\ Approvals
        /\ GateWasPassed
        /\ HistoryIsCommitted
        /\ AuditNamesStatus
        /\ RuntimeIsAtomic

-----------------------------------------------------------------------------
(***************************************************************************)
(* The lifecycle tables.                                                   *)
(***************************************************************************)

\* Every status a request may be sent for, or a stage may enter, is one.
LEMMA TablesTyped ==
    /\ \A s \in DOMAIN StageAfter :
          StageAfter[s] \in DOMAIN StageAfter \cup {LastStage}
    /\ DOMAIN StageAfter \subseteq Statuses
    /\ \A d \in Decisions : DecisionStatus(d) \in {"APPROVED", "REJECTED"}
    /\ {FirstStage, LastStage, "APPROVED", "REJECTED", "GENERATING_EMAIL",
        "COMPLETED", "FAILED", "CREATED"} \subseteq Statuses
BY DEF StageAfter, LastStage, FirstStage, Statuses, DecisionStatus

\* The row of a fresh workflow is a row.
LEMMA NewRowTyped == NewRow \in Rows /\ NewRow.history = <<>>
BY DEF NewRow, Rows, Statuses

\* A transition call keeps the object and the trail in their sets.
LEMMA AssignTyped ==
    ASSUME TypeOK, NEW r \in Requests, NEW m \in Rows, NEW to \in Statuses,
           Assign(r, m, to)
    PROVE  /\ mem' \in [Requests -> Rows]
           /\ trail' \in [Requests -> Seq(Changes)]
<1>1. [m EXCEPT !.status = to] \in Rows
  BY DEF Rows
<1>2. [old |-> m.status, new |-> to] \in Changes
  BY DEF Rows, Changes
<1>3. Append(trail[r], [old |-> m.status, new |-> to]) \in Seq(Changes)
  BY <1>2 DEF TypeOK
<1> QED
  BY <1>1, <1>3 DEF Assign, TypeOK

\* A session that closes leaves every variable it touches in its set.
LEMMA CloseTyped ==
    ASSUME TypeOK, NEW r \in Requests, NEW outcome \in Places,
           Close(r, outcome)
    PROVE  /\ lock' \in SUBSET Requests
           /\ \A a, b \in lock' : a = b
           /\ pc' \in [Requests -> Places]
           /\ kind' \in [Requests -> AllKinds \cup {"none"}]
           /\ goal' \in [Requests -> Statuses]
           /\ mem' \in [Requests -> Rows]
           /\ view' \in [Requests -> Rows]
           /\ trail' \in [Requests -> Seq(Changes)]
           /\ emitted' \in [Requests -> SUBSET EventTypes]
<1>1. "CREATED" \in Statuses
  BY TablesTyped
<1>2. <<>> \in Seq(Changes)
  OBVIOUS
<1> QED
  BY <1>1, <1>2, NewRowTyped DEF Close, Goto, TypeOK

\* A row keeps its set when its history is replaced.
LEMMA RowTyped ==
    ASSUME NEW m \in Rows, NEW h \in Seq(Records)
    PROVE  /\ m.status \in Statuses
           /\ m.history \in Seq(Records)
           /\ [m EXCEPT !.history = h] \in Rows
           /\ [m EXCEPT !.history = h].history = h
           /\ [m EXCEPT !.history = h].status = m.status
BY DEF Rows

\* Appending events keeps the event types in their set.
LEMMA EmitTyped ==
    ASSUME TypeOK, NEW r \in Requests, NEW types \in SUBSET EventTypes,
           Emit(r, types)
    PROVE  emitted' \in [Requests -> SUBSET EventTypes]
<1>1. emitted[r] \cup types \in SUBSET EventTypes
  BY DEF TypeOK
<1> QED
  BY <1>1 DEF Emit, TypeOK

-----------------------------------------------------------------------------
(***************************************************************************)
(* Every step keeps the types.                                             *)
(***************************************************************************)

\* What a session may load is a row.
LEMMA LoadsTyped ==
    ASSUME TypeOK, NEW r \in Requests
    PROVE  Loads(r) \subseteq Rows
BY DEF TypeOK, Loads

LEMMA WrittenTyped ==
    ASSUME TypeOK, NEW r \in Requests
    PROVE  Written(r) \in Rows
<1>1. mem[r] \in Rows /\ row \in Rows
  BY DEF TypeOK
<1>2. [row EXCEPT !.history = mem[r].history] \in Rows
  BY <1>1, RowTyped DEF Rows
<1> QED
  BY <1>1, <1>2 DEF Written

\* What a client may send: a status, and the records of the row or records it
\* knows or makes up.
LEMMA ClientStateTyped ==
    ASSUME TypeOK, NEW r \in Requests, NEW state \in ClientStates(r)
    PROVE  /\ state.history \in Seq(Records)
           /\ \/ state.history = row.history
              \/ \A i \in DOMAIN state.history :
                    state.history[i] \in KnownRecords(r)
<1>1. row.history \in Seq(Records)
  BY DEF TypeOK, Rows
<1>2. CASE state.history = row.history
  BY <1>1, <1>2
<1>3. CASE state.history # row.history
  <2>1. PICK n \in 0..MaxRecords : state.history \in [1..n -> KnownRecords(r)]
    BY <1>3 DEF ClientStates
  <2>2. n \in Nat
    BY <2>1, RecordsAssumption
  <2>3. KnownRecords(r) \subseteq Records
    BY DEF KnownRecords
  <2>4. state.history \in [1..n -> Records]
    BY <2>1, <2>3
  <2>5. state.history \in Seq(Records)
    BY <2>2, <2>4
  <2>6. DOMAIN state.history = 1..n
    BY <2>1
  <2> QED
    BY <2>1, <2>5, <2>6
<1> QED
  BY <1>2, <1>3

LEMMA ArriveKeepsTypes ==
    ASSUME IInv, NEW r \in Requests, Arrive(r)
    PROVE  TypeOK'
<1> USE DEF IInv, TypeOK, Goto, shared, session
<1>1. ASSUME NEW k \in AllKinds, NEW to \in Statuses, Submit(r, k, to)
      PROVE  TypeOK'
  BY <1>1 DEF Submit, Places, InFlight, Ended
<1>2. ManualTargets \subseteq Statuses
  BY TargetAssumption
<1>3. {"CREATED", FirstStage, "GENERATING_EMAIL", "WAITING_APPROVAL"}
         \subseteq Statuses
  BY TablesTyped DEF LastStage
<1>4. \A d \in FinalDecisions : DecisionStatus(d) \in Statuses
  BY TablesTyped DEF Decisions
<1>5. {"patch", "transition", "run", "resume", "request_changes"}
         \subseteq AllKinds
  BY DEF AllKinds, Decisions
<1>6. FinalDecisions \subseteq AllKinds
  BY DEF AllKinds, Decisions
<1>7. \E k \in AllKinds, to \in Statuses : Submit(r, k, to)
  BY <1>2, <1>3, <1>4, <1>5, <1>6 DEF Arrive
<1> QED
  BY <1>1, <1>7

\* A request's own record is one.
LEMMA RecordTyped ==
    ASSUME IInv, NEW r \in Requests, kind[r] \in Decisions
    PROVE  Append(view[r].history, [by |-> r, decision |-> kind[r]])
                \in Seq(Records)
<1>1. view[r].history \in Seq(Records)
  BY DEF IInv, TypeOK, Rows
<1>2. [by |-> r, decision |-> kind[r]] \in Records
  BY DEF Records
<1> QED
  BY <1>1, <1>2

\* update_workflow_state keeps the object a row.
LEMMA UpdateTyped ==
    ASSUME TypeOK, NEW r \in Requests, NEW m \in Rows, NEW state,
           state.history \in Seq(Records), UpdateState(r, m, state)
    PROVE  /\ mem' \in [Requests -> Rows]
           /\ pc' \in [Requests -> Places]
<1>1. [m EXCEPT !.history = state.history] \in Rows
  BY RowTyped
<1>2. mem' \in [Requests -> Rows]
  BY <1>1 DEF UpdateState, TypeOK
<1>3. pc' \in [Requests -> Places]
  BY DEF UpdateState, Goto, TypeOK, Places, InFlight
<1> QED
  BY <1>2, <1>3

\* The history of the object is then its own or that of the state.
LEMMA UpdateTakes ==
    ASSUME TypeOK, NEW r \in Requests, NEW m \in Rows, NEW state,
           state.history \in Seq(Records), UpdateState(r, m, state)
    PROVE  /\ mem'[r].history \in {m.history, state.history}
           /\ pc'[r] = "flush" => mem'[r].history = state.history
<1> DEFINE new == [m EXCEPT !.history = state.history]
<1>1. new.history = state.history
  BY RowTyped
<1> HIDE DEF new
<1>2. \/ mem'[r] = new
      \/ mem'[r] = m /\ pc'[r] = "unwind"
  BY DEF UpdateState, Goto, TypeOK, new
<1> QED
  BY <1>1, <1>2

LEMMA PayloadCallsKeepTypes ==
    ASSUME IInv, NEW r \in Requests, PatchState(r) \/ RequestChanges(r)
    PROVE  TypeOK'
<1>1. TypeOK /\ row \in Rows /\ view[r] \in Rows
  BY DEF IInv, TypeOK
<1>2. CASE PatchState(r)
  <2>1. mem' \in [Requests -> Rows] /\ pc' \in [Requests -> Places]
    BY <1>1, <1>2, UpdateTyped, ClientStateTyped DEF PatchState
  <2> QED
    BY <1>1, <1>2, <2>1 DEF PatchState, TypeOK, shared
<1>3. CASE RequestChanges(r)
  <2> DEFINE h == Append(view[r].history, [by |-> r, decision |-> kind[r]])
  <2>1. h \in Seq(Records)
    BY <1>3, RecordTyped DEF RequestChanges, Decisions
  <2>2. PICK m \in Loads(r) : UpdateState(r, m, [view[r] EXCEPT !.history = h])
    BY <1>1, <1>3 DEF RequestChanges, Rows
  <2> HIDE DEF h
  <2>3. [view[r] EXCEPT !.history = h].history = h
    BY <1>1, <2>1, RowTyped
  <2>4. m \in Rows
    BY <1>1, LoadsTyped
  <2>5. mem' \in [Requests -> Rows] /\ pc' \in [Requests -> Places]
    BY <1>1, <2>1, <2>2, <2>3, <2>4, UpdateTyped
  <2> QED
    BY <1>1, <1>3, <2>5 DEF RequestChanges, TypeOK, shared
<1> QED
  BY <1>2, <1>3

LEMMA WorkKeepsTypes ==
    ASSUME IInv, NEW r \in Requests, Work(r)
    PROVE  TypeOK'
<1> USE DEF IInv, TypeOK, Goto, shared, session
<1>1. CASE ReadForDecision(r)
  BY <1>1 DEF ReadForDecision, Places, InFlight
<1>2. CASE ReadForRun(r)
  <2>1. emitted' \in [Requests -> SUBSET EventTypes]
    BY <1>2, EmitTyped DEF ReadForRun, EventTypes
  <2> QED
    BY <1>2, <2>1 DEF ReadForRun, Places, InFlight
<1>3. CASE ReadForResume(r)
  <2>1. emitted' \in [Requests -> SUBSET EventTypes]
    BY <1>3, EmitTyped DEF ReadForResume, EventTypes
  <2> QED
    BY <1>3, <2>1 DEF ReadForResume, Places, InFlight
<1>4. CASE Announce(r)
  BY <1>4, LoadsTyped DEF Announce, Emit, Places, InFlight, EventTypes
<1>5. CASE CallTransition(r)
  <2>1. PICK m \in Loads(r) :
           \/ /\ CanTransition(m.status, goal[r])
              /\ Assign(r, m, goal[r])
              /\ Goto(r, "flush")
           \/ /\ ~CanTransition(m.status, goal[r])
              /\ mem' = [mem EXCEPT ![r] = m]
              /\ Goto(r, IF kind[r] = "run" THEN "failing" ELSE "unwind")
              /\ UNCHANGED trail
    BY <1>5 DEF CallTransition
  <2>2. m \in Rows
    BY LoadsTyped
  <2>3. mem' \in [Requests -> Rows] /\ trail' \in [Requests -> Seq(Changes)]
    BY <2>1, <2>2, AssignTyped, ZenonT(40)
  <2>4. pc' \in [Requests -> Places]
    BY <2>1 DEF Places, InFlight
  <2> QED
    BY <1>5, <2>3, <2>4 DEF CallTransition
<1>6. CASE PatchState(r) \/ RequestChanges(r)
  BY <1>6, PayloadCallsKeepTypes
<1>7. CASE Flush(r)
  <2>1. mem' \in [Requests -> Rows]
    <3>1. CASE kind[r] \in FinalDecisions
      <4>1. Append(view[r].history, [by |-> r, decision |-> kind[r]])
                \in Seq(Records)
        BY <3>1, RecordTyped DEF Decisions
      <4>2. [mem[r] EXCEPT !.history =
                Append(view[r].history, [by |-> r, decision |-> kind[r]])]
              \in Rows
        BY <4>1 DEF Rows
      <4> QED
        BY <1>7, <3>1, <4>2 DEF Flush
    <3>2. CASE kind[r] \notin FinalDecisions
      BY <1>7, <3>2 DEF Flush
    <3> QED
      BY <3>1, <3>2
  <2>2. emitted' \in [Requests -> SUBSET EventTypes]
    <3>1. {DecisionEvent(kind[r])} \subseteq EventTypes
      BY DEF DecisionEvent, EventTypes
    <3> QED
      BY <1>7, <3>1, EmitTyped DEF Flush
  <2>3. pc' \in [Requests -> Places]
    BY <1>7 DEF Flush, Places, InFlight
  <2> QED
    BY <1>7, <2>1, <2>2, <2>3 DEF Flush, TakeLock
<1>8. CASE RunStage(r)
  <2>1. CASE mem[r].status # LastStage
    <3>1. StageAfter[mem[r].status] \in Statuses
      BY <1>8, <2>1, TablesTyped DEF RunStage, Plans, PlanOf
    <3>2. Assign(r, mem[r], StageAfter[mem[r].status])
      BY <1>8, <2>1 DEF RunStage
    <3>3. mem' \in [Requests -> Rows] /\ trail' \in [Requests -> Seq(Changes)]
      BY <3>1, <3>2, AssignTyped
    <3>4. emitted' \in [Requests -> SUBSET EventTypes]
      BY <1>8, <2>1, EmitTyped DEF RunStage, EventTypes
    <3> QED
      BY <1>8, <2>1, <3>3, <3>4 DEF RunStage
  <2>2. CASE mem[r].status = LastStage
    <3>1. mem' \in [Requests -> Rows]
      <4>1. [mem[r] EXCEPT !.history = <<>>] \in Rows
        <5>1. <<>> \in Seq(Records)
          OBVIOUS
        <5> QED
          BY <5>1, RowTyped
      <4>2. mem' = [mem EXCEPT ![r] = [mem[r] EXCEPT !.history = <<>>]]
        BY <1>8, <2>2 DEF RunStage
      <4> QED
        BY <4>1, <4>2
    <3>2. emitted' \in [Requests -> SUBSET EventTypes]
      BY <1>8, <2>2, EmitTyped DEF RunStage, EventTypes
    <3> QED
      BY <1>8, <2>2, <3>1, <3>2 DEF RunStage, Places, InFlight
  <2> QED
    BY <2>1, <2>2
<1>9. CASE EmailStage(r)
  <2>1. mem' \in [Requests -> Rows] /\ trail' \in [Requests -> Seq(Changes)]
    BY <1>9, AssignTyped, TablesTyped DEF EmailStage
  <2>2. emitted' \in [Requests -> SUBSET EventTypes]
    BY <1>9, EmitTyped DEF EmailStage, EventTypes
  <2> QED
    BY <1>9, <2>1, <2>2 DEF EmailStage, Places, InFlight
<1>10. CASE StageFails(r)
  BY <1>10 DEF StageFails, Emit, EventTypes, Places, InFlight
<1>11. CASE HandleFailure(r)
  <2>1. /\ mem' \in [Requests -> Rows]
        /\ trail' \in [Requests -> Seq(Changes)]
    BY <1>11, AssignTyped, LoadsTyped, TablesTyped DEF HandleFailure
  <2>2. lock' \in SUBSET Requests /\ \A a, b \in lock' : a = b
    BY <1>11 DEF HandleFailure, TakeLock
  <2>3. emitted' \in [Requests -> SUBSET EventTypes]
    BY <1>11 DEF HandleFailure, Emit, EventTypes
  <2> QED
    BY <1>11, <2>1, <2>2, <2>3 DEF HandleFailure, Places, InFlight
<1>12. CASE Commit(r)
  <2>1. row' \in Rows
    BY <1>12, WrittenTyped DEF Commit
  <2>2. audit' \in Seq(Changes)
    BY <1>12 DEF Commit
  <2> QED
    BY <1>12, <2>1, <2>2, CloseTyped DEF Commit, Places, Ended
<1>13. CASE Unwind(r)
  BY <1>13, CloseTyped DEF Unwind, Places, Ended
<1>14. CASE RejectPayload(r)
  <2>1. emitted' \in [Requests -> SUBSET EventTypes]
    BY <1>14, EmitTyped DEF RejectPayload, EventTypes
  <2> QED
    BY <1>14, <2>1 DEF RejectPayload, Places, InFlight
<1> QED
  BY <1>1, <1>2, <1>3, <1>4, <1>5, <1>6, <1>7, <1>8, <1>9, <1>10, <1>11,
     <1>12, <1>13, <1>14 DEF Work

LEMMA AbortKeepsTypes ==
    ASSUME IInv, NEW r \in Requests, Abort(r)
    PROVE  TypeOK'
BY CloseTyped DEF IInv, Abort, Places, Ended, TypeOK

-----------------------------------------------------------------------------
(***************************************************************************)
(* Every step keeps what the sessions know.                                *)
(***************************************************************************)

Step(r) == Arrive(r) \/ Work(r) \/ Abort(r)

\* A step of one request leaves the session of every other one alone.
LEMMA OthersUnchanged ==
    ASSUME TypeOK, NEW r \in Requests, Step(r),
           NEW s \in Requests, s # r
    PROVE  /\ pc'[s] = pc[s]
           /\ kind'[s] = kind[s]
           /\ goal'[s] = goal[s]
           /\ mem'[s] = mem[s]
           /\ view'[s] = view[s]
           /\ trail'[s] = trail[s]
<1> USE DEF TypeOK, Goto, session
<1>1. CASE Arrive(r)
  BY <1>1 DEF Arrive, Submit
<1>2. CASE Work(r)
  <2>1. CASE \/ ReadForDecision(r) \/ ReadForRun(r) \/ ReadForResume(r)
             \/ Announce(r) \/ RejectPayload(r)
    BY <2>1 DEF ReadForDecision, ReadForRun, ReadForResume, Announce,
             RejectPayload
  <2>2. CASE CallTransition(r)
    BY <2>2 DEF CallTransition, Assign
  <2>3. CASE PatchState(r) \/ RequestChanges(r)
    BY <2>3 DEF PatchState, RequestChanges, UpdateState
  <2>4. CASE Flush(r)
    BY <2>4 DEF Flush
  <2>5. CASE RunStage(r) \/ EmailStage(r) \/ StageFails(r)
    BY <2>5 DEF RunStage, EmailStage, StageFails, Assign
  <2>6. CASE HandleFailure(r)
    BY <2>6 DEF HandleFailure, Assign
  <2>7. CASE Commit(r) \/ Unwind(r)
    BY <2>7 DEF Commit, Unwind, Close
  <2> QED
    BY <1>2, <2>1, <2>2, <2>3, <2>4, <2>5, <2>6, <2>7 DEF Work
<1>3. CASE Abort(r)
  BY <1>3 DEF Abort, Close
<1> QED
  BY <1>1, <1>2, <1>3 DEF Step

\* A request that has committed takes no step, and a step never undoes a commit.
LEMMA CommittedStays ==
    ASSUME TypeOK, NEW r \in Requests, Step(r),
           NEW s \in Requests, pc[s] = "committed"
    PROVE  s # r /\ pc'[s] = "committed"
<1>1. pc[r] # "committed"
  BY DEF Step, Arrive, Submit, Work, ReadForDecision,
         ReadForRun, ReadForResume, Announce, RejectPayload, CallTransition,
         CallsTransition,
         PatchState, RequestChanges, Flush, RunStage, EmailStage, StageFails,
         HandleFailure, Commit, Unwind, Abort, InFlight
<1> QED
  BY <1>1, OthersUnchanged

\* The newest entry of an extended sequence.
LEMMA LastOfAppend ==
    ASSUME NEW S, NEW q \in Seq(S), NEW e \in S
    PROVE  /\ Append(q, e) # <<>>
           /\ Append(q, e)[Len(Append(q, e))] = e
OBVIOUS

\* An audit entry is the newest of its session's trail.
LEMMA NewestEntry ==
    ASSUME TypeOK, NEW r \in Requests, NEW c \in Changes,
           trail' = [trail EXCEPT ![r] = Append(@, c)]
    PROVE  /\ trail'[r] # <<>>
           /\ trail'[r][Len(trail'[r])] = c
<1>1. trail[r] \in Seq(Changes)
  BY DEF TypeOK
<1>2. trail'[r] = Append(trail[r], c)
  BY DEF TypeOK
<1>3. /\ Append(trail[r], c) # <<>>
      /\ Append(trail[r], c)[Len(Append(trail[r], c))] = c
  BY <1>1, LastOfAppend
<1> QED
  BY <1>2, <1>3

\* A transition call gives the object the status it asks for.
LEMMA AssignStatus ==
    ASSUME TypeOK, NEW r \in Requests, NEW m \in Rows, NEW to,
           Assign(r, m, to)
    PROVE  mem'[r].status = to
<1>1. [m EXCEPT !.status = to].status = to
  BY DEF Rows
<1> QED
  BY <1>1 DEF Assign, TypeOK

\* Writing the payload leaves the status of an object alone.
LEMMA PayloadKeepsStatus ==
    ASSUME NEW m \in Rows, NEW h
    PROVE  [m EXCEPT !.history = h].status = m.status
BY DEF Rows

LEMMA FlushKeepsStatus ==
    ASSUME TypeOK, NEW r \in Requests, Flush(r)
    PROVE  mem'[r].status = mem[r].status
<1>1. mem[r] \in Rows
  BY DEF TypeOK
<1>2. mem'[r] \in
         {mem[r],
          [mem[r] EXCEPT !.history =
              Append(view[r].history, [by |-> r, decision |-> kind[r]])]}
  BY DEF Flush, TypeOK
<1> QED
  BY <1>1, <1>2, PayloadKeepsStatus, ZenonT(40)

LEMMA LastStageKeepsStatus ==
    ASSUME TypeOK, NEW r \in Requests, RunStage(r), mem[r].status = LastStage
    PROVE  mem'[r].status = LastStage
<1>1. mem[r] \in Rows
  BY DEF TypeOK
<1>2. mem'[r] = [mem[r] EXCEPT !.history = <<>>]
  BY DEF RunStage, TypeOK
<1> QED
  BY <1>1, <1>2, PayloadKeepsStatus

LEMMA PlanKept ==
    ASSUME IInv, NEW r \in Requests, Step(r)
    PROVE  PlanOf(r)'
<1> USE DEF IInv, TypeOK, Plans, PlanOf, Goto, session, PayloadKinds
<1>1. CASE Submit(r, "patch", "CREATED")
  BY <1>1 DEF Submit, AllKinds, FinalDecisions
<1>2. CASE \E to \in ManualTargets :
              "transition" \in Kinds /\ Submit(r, "transition", to)
  BY <1>2 DEF Submit, AllKinds, FinalDecisions
<1>3. CASE Submit(r, "run", FirstStage)
  BY <1>3 DEF Submit, AllKinds, FinalDecisions
<1>4. CASE Submit(r, "resume", "GENERATING_EMAIL")
  BY <1>4 DEF Submit, AllKinds, FinalDecisions
<1>5. CASE \E d \in Kinds \cap FinalDecisions : Submit(r, d, DecisionStatus(d))
  BY <1>5 DEF Submit, AllKinds, Decisions, FinalDecisions
<1>6. CASE Submit(r, "request_changes", "WAITING_APPROVAL")
  BY <1>6 DEF Submit, AllKinds, Decisions, FinalDecisions
<1>7. CASE \/ ReadForDecision(r) \/ ReadForRun(r) \/ ReadForResume(r)
           \/ Announce(r) \/ RejectPayload(r)
  BY <1>7 DEF ReadForDecision, ReadForRun, ReadForResume, Announce,
             RejectPayload, InFlight
<1>8. CASE CallTransition(r)
  <2>1. pc[r] \in InFlight
    BY <1>8 DEF CallTransition, CallsTransition, InFlight
  <2>2. pc'[r] = "flush" => mem'[r].status = goal[r]
    BY <1>8, AssignStatus, LoadsTyped DEF CallTransition
  <2>3. /\ pc'[r] \in {"flush", "failing", "unwind"}
        /\ kind' = kind /\ goal' = goal
    BY <1>8 DEF CallTransition
  <2> QED
    BY <2>1, <2>2, <2>3 DEF InFlight
<1>9. CASE PatchState(r) \/ RequestChanges(r)
  BY <1>9 DEF PatchState, RequestChanges, UpdateState, InFlight,
               FinalDecisions
<1>10. CASE Flush(r)
  <2>1. mem'[r].status = mem[r].status
    BY <1>10, FlushKeepsStatus
  <2>2. goal[r] = FirstStage /\ kind[r] = "run" =>
           mem[r].status \in DOMAIN StageAfter
    BY <1>10 DEF Flush, StageAfter, FirstStage
  <2> QED
    BY <1>10, <2>1, <2>2 DEF Flush, InFlight, FinalDecisions
<1>11. CASE RunStage(r)
  <2>1. CASE mem[r].status # LastStage
    <3>1. mem'[r].status \in DOMAIN StageAfter \cup {LastStage}
      BY <1>11, <2>1, TablesTyped, AssignStatus DEF RunStage
    <3> QED
      BY <1>11, <2>1, <3>1 DEF RunStage, InFlight
  <2>2. CASE mem[r].status = LastStage
    BY <1>11, <2>2, LastStageKeepsStatus DEF RunStage, InFlight, FinalDecisions
  <2> QED
    BY <2>1, <2>2
<1>12. CASE EmailStage(r)
  <2>1. mem'[r].status = "COMPLETED"
    BY <1>12, AssignStatus DEF EmailStage
  <2> QED
    BY <1>12, <2>1 DEF EmailStage, InFlight, FinalDecisions
<1>13. CASE StageFails(r)
  BY <1>13 DEF StageFails, InFlight
<1>14. CASE HandleFailure(r)
  BY <1>14 DEF HandleFailure, InFlight
<1>15. CASE Commit(r) \/ Unwind(r) \/ Abort(r)
  BY <1>15 DEF Commit, Unwind, Abort, Close, InFlight
<1> QED
  BY <1>1, <1>2, <1>3, <1>4, <1>5, <1>6, <1>7, <1>8, <1>9, <1>10,
     <1>11, <1>12, <1>13, <1>14, <1>15 DEF Step, Arrive, Work

LEMMA TrailKept ==
    ASSUME IInv, NEW r \in Requests, Step(r)
    PROVE  TrailOf(r)'
<1> USE DEF IInv, TypeOK, Trails, TrailOf, Goto, session, PayloadKinds
<1>1. CASE Arrive(r)
  BY <1>1 DEF Arrive, Submit
<1>2. CASE \/ ReadForDecision(r) \/ ReadForRun(r) \/ ReadForResume(r)
           \/ Announce(r) \/ RejectPayload(r)
  BY <1>2 DEF ReadForDecision, ReadForRun, ReadForResume, Announce,
             RejectPayload
<1>3. ASSUME NEW m \in Rows, NEW to \in Statuses, Assign(r, m, to)
      PROVE  /\ trail'[r] # <<>>
             /\ trail'[r][Len(trail'[r])].new = mem'[r].status
  <2>1. [old |-> m.status, new |-> to] \in Changes
    BY DEF Changes, Rows
  <2>2. trail' = [trail EXCEPT ![r] =
                     Append(@, [old |-> m.status, new |-> to])]
    BY <1>3 DEF Assign
  <2>3. mem'[r].status = to
    BY <1>3, AssignStatus
  <2>4. /\ trail'[r] # <<>>
        /\ trail'[r][Len(trail'[r])] = [old |-> m.status, new |-> to]
    BY <2>1, <2>2, NewestEntry
  <2> QED
    BY <2>3, <2>4
<1>4. CASE CallTransition(r)
  <2>1. kind[r] \notin PayloadKinds
    BY <1>4 DEF CallTransition, CallsTransition, FinalDecisions
  <2>2. goal[r] \in Statuses /\ Loads(r) \subseteq Rows
    BY LoadsTyped
  <2> QED
    BY <1>3, <1>4, <2>1, <2>2 DEF CallTransition
<1>5. CASE PatchState(r) \/ RequestChanges(r)
  BY <1>5 DEF PatchState, RequestChanges, UpdateState
<1>6. CASE Flush(r)
  <2>1. mem'[r].status = mem[r].status
    BY <1>6, FlushKeepsStatus
  <2> QED
    BY <1>6, <2>1 DEF Flush
<1>7. CASE RunStage(r)
  <2>1. CASE mem[r].status # LastStage
    <3>1. mem[r] \in Rows /\ StageAfter[mem[r].status] \in Statuses
      BY <1>7, <2>1, TablesTyped DEF RunStage, Plans, PlanOf
    <3> QED
      BY <1>3, <1>7, <2>1, <3>1 DEF RunStage
  <2>2. CASE mem[r].status = LastStage
    <3>1. mem'[r].status = mem[r].status
      BY <1>7, <2>2, LastStageKeepsStatus
    <3> QED
      BY <1>7, <2>2, <3>1 DEF RunStage
  <2> QED
    BY <2>1, <2>2
<1>8. CASE EmailStage(r)
  <2>1. mem[r] \in Rows /\ "COMPLETED" \in Statuses
    BY TablesTyped
  <2> QED
    BY <1>3, <1>8, <2>1 DEF EmailStage
<1>9. CASE StageFails(r)
  BY <1>9 DEF StageFails
<1>10. CASE HandleFailure(r)
  BY <1>10 DEF HandleFailure
<1>11. CASE Commit(r) \/ Unwind(r) \/ Abort(r)
  BY <1>11 DEF Commit, Unwind, Abort, Close
<1> QED
  BY <1>1, <1>2, <1>4, <1>5, <1>6, <1>7, <1>8, <1>9, <1>10, <1>11
     DEF Step, Work

\* Committed records stay committed.
LEMMA RecordsStayCommitted ==
    ASSUME TypeOK, NEW r \in Requests, Step(r),
           NEW s \in Requests, NEW h \in Seq(Records)
    PROVE  /\ AllCommitted(h) =>
                 \A i \in DOMAIN h : pc'[h[i].by] = "committed"
           /\ OwnOrCommitted(h, s) =>
                 \A i \in DOMAIN h : h[i].by = s \/ pc'[h[i].by] = "committed"
<1>1. \A i \in DOMAIN h : h[i].by \in Requests
  <2>1. \A i \in DOMAIN h : h[i] \in Records
    OBVIOUS
  <2> QED
    BY <2>1 DEF Records
<1> QED
  BY <1>1, CommittedStays DEF AllCommitted, OwnOrCommitted

\* A session that appends its own record to committed ones.
LEMMA OwnRecordAppended ==
    ASSUME NEW r \in Requests, NEW h \in Seq(Records), NEW c \in Records,
           c.by = r, AllCommitted(h)
    PROVE  OwnOrCommitted(Append(h, c), r)
BY DEF AllCommitted, OwnOrCommitted

\* What the view and the object of the stepping session may hold after the step.
LEMMA HistoriesHeld ==
    ASSUME IInv, NEW r \in Requests, Step(r)
    PROVE  /\ view'[r].history \in {row.history, view[r].history, <<>>}
           /\ \/ mem'[r].history \in
                    {row.history, mem[r].history, view[r].history, <<>>}
              \/ /\ kind[r] \in Decisions /\ pc[r] # "idle"
                 /\ mem'[r].history =
                       Append(view[r].history,
                              [by |-> r, decision |-> kind[r]])
              \/ /\ kind[r] = "patch" /\ pc[r] # "idle"
                 /\ mem'[r].history \in Seq(Records)
                 /\ \A i \in DOMAIN mem'[r].history :
                       mem'[r].history[i] \in KnownRecords(r)
<1> USE DEF IInv, TypeOK, Goto, session
<1>1. CASE Arrive(r)
  BY <1>1 DEF Arrive, Submit
<1>2. ASSUME NEW m \in Rows, NEW to, Assign(r, m, to)
      PROVE  mem'[r].history = m.history
  BY <1>2 DEF Assign, Rows
<1>3. CASE \/ ReadForDecision(r) \/ ReadForRun(r) \/ ReadForResume(r)
           \/ Announce(r) \/ RejectPayload(r)
  BY <1>3 DEF ReadForDecision, ReadForRun, ReadForResume, Announce,
             RejectPayload, Loads
<1>4. CASE CallTransition(r)
  BY <1>2, <1>4, LoadsTyped DEF CallTransition, Loads
<1>5. CASE PatchState(r)
  <2>1. PICK state \in ClientStates(r) : UpdateState(r, row, state)
    BY <1>5 DEF PatchState
  <2>2. /\ state.history \in Seq(Records)
        /\ \/ state.history = row.history
           \/ \A i \in DOMAIN state.history :
                 state.history[i] \in KnownRecords(r)
    BY ClientStateTyped
  <2>3. mem'[r].history \in {row.history, state.history}
    BY <2>1, <2>2, UpdateTakes
  <2>4. /\ kind[r] = "patch" /\ pc[r] # "idle" /\ view' = view
    BY <1>5 DEF PatchState
  <2> QED
    BY <2>2, <2>3, <2>4
<1>6. CASE RequestChanges(r)
  <2> DEFINE h == Append(view[r].history, [by |-> r, decision |-> kind[r]])
             state == [view[r] EXCEPT !.history = h]
  <2>1. h \in Seq(Records)
    BY <1>6, RecordTyped DEF RequestChanges, Decisions
  <2>2. PICK m \in Loads(r) : UpdateState(r, m, state)
    BY <1>6 DEF RequestChanges, Rows
  <2>3. /\ kind[r] \in Decisions /\ pc[r] # "idle" /\ view' = view
    BY <1>6 DEF RequestChanges, Decisions
  <2> HIDE DEF h
  <2>4. state.history = h
    BY <2>1, RowTyped
  <2> HIDE DEF state
  <2>5. m \in Rows /\ m \in {row, mem[r]}
    BY LoadsTyped DEF Loads
  <2>6. mem'[r].history \in {m.history, h}
    BY <2>1, <2>2, <2>4, <2>5, UpdateTakes
  <2> QED
    BY <2>3, <2>5, <2>6 DEF h
<1>7. CASE Flush(r)
  <2>1. CASE kind[r] \in FinalDecisions
    <3>1. mem'[r] =
             [mem[r] EXCEPT !.history =
                 Append(view[r].history, [by |-> r, decision |-> kind[r]])]
      BY <1>7, <2>1 DEF Flush
    <3>2. mem'[r].history =
             Append(view[r].history, [by |-> r, decision |-> kind[r]])
      BY <3>1 DEF Rows
    <3> QED
      BY <1>7, <2>1, <3>2 DEF Flush, Decisions
  <2>2. CASE kind[r] \notin FinalDecisions
    BY <1>7, <2>2 DEF Flush
  <2> QED
    BY <2>1, <2>2
<1>8. CASE RunStage(r)
  <2>1. CASE mem[r].status # LastStage
    BY <1>2, <1>8, <2>1 DEF RunStage
  <2>2. CASE mem[r].status = LastStage
    <3>1. mem'[r] = [mem[r] EXCEPT !.history = <<>>]
      BY <1>8, <2>2 DEF RunStage
    <3>2. mem'[r].history = <<>>
      BY <3>1 DEF Rows
    <3> QED
      BY <1>8, <2>2, <3>2 DEF RunStage
  <2> QED
    BY <2>1, <2>2
<1>9. CASE EmailStage(r)
  BY <1>2, <1>9 DEF EmailStage
<1>10. CASE StageFails(r)
  BY <1>10 DEF StageFails
<1>11. CASE HandleFailure(r)
  BY <1>2, <1>11, LoadsTyped DEF HandleFailure, Loads
<1>12. CASE Commit(r) \/ Unwind(r) \/ Abort(r)
  BY <1>12, NewRowTyped DEF Commit, Unwind, Abort, Close
<1> QED
  BY <1>1, <1>3, <1>4, <1>5, <1>6, <1>7, <1>8, <1>9, <1>10, <1>11, <1>12
     DEF Step, Work

LEMMA CopiesKept ==
    ASSUME IInv, NEW r \in Requests, Step(r), NEW s \in Requests
    PROVE  CopiesOf(s)'
<1>1. /\ TypeOK
      /\ row.history \in Seq(Records) /\ AllCommitted(row.history)
      /\ view[s].history \in Seq(Records) /\ AllCommitted(view[s].history)
      /\ mem[s].history \in Seq(Records) /\ OwnOrCommitted(mem[s].history, s)
  BY DEF IInv, TypeOK, Rows, HistoryIsCommitted, AllCommitted, Copies, CopiesOf
<1>2. /\ <<>> \in Seq(Records)
      /\ AllCommitted(<<>>)
      /\ OwnOrCommitted(<<>>, s)
  BY DEF AllCommitted, OwnOrCommitted
<1>3. \A h \in Seq(Records) :
         /\ AllCommitted(h) =>
               \A i \in DOMAIN h : pc'[h[i].by] = "committed"
         /\ OwnOrCommitted(h, s) =>
               \A i \in DOMAIN h : h[i].by = s \/ pc'[h[i].by] = "committed"
  BY <1>1, RecordsStayCommitted
<1>4. \A h : AllCommitted(h) => OwnOrCommitted(h, s)
  BY DEF AllCommitted, OwnOrCommitted
<1>5. CASE s # r
  <2>1. view'[s] = view[s] /\ mem'[s] = mem[s]
    BY <1>1, <1>5, OthersUnchanged
  <2> QED
    BY <1>1, <1>3, <2>1, ZenonT(40) DEF CopiesOf, AllCommitted, OwnOrCommitted
<1>6. CASE s = r
  <2>1. /\ view'[s].history \in Seq(Records)
        /\ AllCommitted(view'[s].history)
    BY <1>1, <1>2, <1>6, HistoriesHeld
  <2>2. /\ mem'[s].history \in Seq(Records)
        /\ OwnOrCommitted(mem'[s].history, s)
    <3>1. CASE mem'[s].history \in
                 {row.history, mem[s].history, view[s].history, <<>>}
      BY <1>1, <1>2, <1>4, <3>1
    <3>2. CASE /\ kind[s] \in Decisions
               /\ mem'[s].history =
                     Append(view[s].history, [by |-> s, decision |-> kind[s]])
      <4>1. [by |-> s, decision |-> kind[s]] \in Records
        BY <3>2 DEF Records
      <4> QED
        BY <1>1, <3>2, <4>1, OwnRecordAppended
    <3>3. CASE /\ mem'[s].history \in Seq(Records)
               /\ \A i \in DOMAIN mem'[s].history :
                     mem'[s].history[i] \in KnownRecords(s)
      BY <3>3 DEF KnownRecords, OwnOrCommitted
    <3> QED
      BY <1>6, <3>1, <3>2, <3>3, HistoriesHeld
  <2> QED
    BY <1>3, <2>1, <2>2 DEF CopiesOf, AllCommitted, OwnOrCommitted
<1> QED
  BY <1>5, <1>6

\* A request that has arrived keeps its kind.
LEMMA KindsStay ==
    ASSUME TypeOK, NEW r \in Requests, Step(r),
           NEW s \in Requests, pc[s] # "idle"
    PROVE  pc'[s] # "idle" /\ kind'[s] = kind[s]
<1> USE DEF TypeOK, Goto, session
<1>1. CASE s # r
  BY <1>1, OthersUnchanged
<1>2. CASE s = r /\ Arrive(r)
  BY <1>2 DEF Arrive, Submit
<1>3. CASE s = r /\ Work(r)
  BY <1>3 DEF Work, ReadForDecision, ReadForRun, ReadForResume, Announce,
         RejectPayload, CallTransition, PatchState, RequestChanges,
         UpdateState, Flush, RunStage, EmailStage, StageFails, HandleFailure,
         Commit, Unwind, Close
<1>4. CASE s = r /\ Abort(r)
  BY <1>4 DEF Abort, Close
<1> QED
  BY <1>1, <1>2, <1>3, <1>4 DEF Step

\* So a record keeps its source.
LEMMA SourcesStay ==
    ASSUME TypeOK, NEW r \in Requests, Step(r), NEW h \in Seq(Records),
           Sourced(h)
    PROVE  \A i \in DOMAIN h : /\ pc'[h[i].by] # "idle"
                               /\ kind'[h[i].by] \in {h[i].decision, "patch"}
<1>1. \A i \in DOMAIN h : h[i].by \in Requests
  <2>1. \A i \in DOMAIN h : h[i] \in Records
    OBVIOUS
  <2> QED
    BY <2>1 DEF Records
<1> QED
  BY <1>1, KindsStay DEF Sourced

LEMMA SourcesHeld ==
    ASSUME IInv, NEW r \in Requests, Step(r), NEW s \in Requests
    PROVE  Sourced(view[s].history)' /\ Sourced(mem[s].history)'
<1>1. /\ TypeOK
      /\ row.history \in Seq(Records) /\ Sourced(row.history)
      /\ view[s].history \in Seq(Records) /\ Sourced(view[s].history)
      /\ mem[s].history \in Seq(Records) /\ Sourced(mem[s].history)
  BY DEF IInv, TypeOK, Rows, Sources
<1>2. <<>> \in Seq(Records) /\ Sourced(<<>>)
  BY DEF Sourced
<1>3. \A h \in Seq(Records) : Sourced(h) =>
         \A i \in DOMAIN h : /\ pc'[h[i].by] # "idle"
                             /\ kind'[h[i].by] \in {h[i].decision, "patch"}
  BY <1>1, SourcesStay
<1>4. CASE s # r
  <2>1. view'[s] = view[s] /\ mem'[s] = mem[s]
    BY <1>1, <1>4, OthersUnchanged
  <2> QED
    BY <1>1, <1>3, <2>1, ZenonT(40) DEF Sourced
<1>5. CASE s = r
  <2>1. view'[s].history \in Seq(Records) /\ Sourced(view'[s].history)
    BY <1>1, <1>2, <1>5, HistoriesHeld
  <2>2. mem'[s].history \in Seq(Records) /\ Sourced(mem'[s].history)
    <3>1. CASE mem'[s].history \in
                 {row.history, mem[s].history, view[s].history, <<>>}
      BY <1>1, <1>2, <3>1
    <3>2. CASE /\ kind[s] \in Decisions /\ pc[s] # "idle"
               /\ mem'[s].history =
                     Append(view[s].history, [by |-> s, decision |-> kind[s]])
      <4> DEFINE c == [by |-> s, decision |-> kind[s]]
      <4>1. c \in Records /\ c.by = s /\ c.decision = kind[s]
        BY <3>2 DEF Records
      <4> HIDE DEF c
      <4>2. /\ Append(view[s].history, c) \in Seq(Records)
            /\ Sourced(Append(view[s].history, c))
        BY <1>1, <3>2, <4>1 DEF Sourced
      <4> QED
        BY <3>2, <4>2 DEF c
    <3>3. CASE /\ kind[s] = "patch" /\ pc[s] # "idle"
               /\ mem'[s].history \in Seq(Records)
               /\ \A i \in DOMAIN mem'[s].history :
                     mem'[s].history[i] \in KnownRecords(s)
      BY <3>3 DEF KnownRecords, Sourced
    <3> QED
      BY <1>5, <3>1, <3>2, <3>3, HistoriesHeld
  <2> QED
    BY <1>3, <2>1, <2>2, ZenonT(40) DEF Sourced
<1> QED
  BY <1>4, <1>5

-----------------------------------------------------------------------------
(***************************************************************************)
(* The committed row changes by a Commit alone.                            *)
(***************************************************************************)

LEMMA OnlyCommitWrites ==
    ASSUME NEW r \in Requests, Step(r)
    PROVE  Commit(r) \/ UNCHANGED <<row, audit>>
BY DEF Step, Arrive, Submit, Work, ReadForDecision,
       ReadForRun, ReadForResume, Announce, RejectPayload, CallTransition,
       PatchState, RequestChanges, Flush, RunStage, EmailStage, StageFails,
       HandleFailure, Unwind, Abort,
       shared

\* The records a Commit leaves in the row are those of its object.
LEMMA CommittedHistory ==
    ASSUME IInv, NEW r \in Requests, Commit(r)
    PROVE  row'.history = mem[r].history
<1>1. row \in Rows /\ mem[r].history \in Seq(Records)
  BY DEF IInv, TypeOK, Rows
<1>2. [row EXCEPT !.history = mem[r].history].history = mem[r].history
  BY <1>1, RowTyped
<1> QED
  BY <1>2 DEF Commit, Written

LEMMA HistoryKept ==
    ASSUME IInv, NEW r \in Requests, Step(r)
    PROVE  HistoryIsCommitted'
<1>1. TypeOK /\ AllCommitted(row.history) /\ OwnOrCommitted(mem[r].history, r)
  BY DEF IInv, HistoryIsCommitted, AllCommitted, Copies, CopiesOf
<1>2. row.history \in Seq(Records) /\ mem[r].history \in Seq(Records)
  BY <1>1 DEF TypeOK, Rows
<1>3. CASE UNCHANGED row
  BY <1>1, <1>2, <1>3, RecordsStayCommitted DEF HistoryIsCommitted
<1>4. CASE Commit(r)
  <2>1. row'.history = mem[r].history
    BY <1>4, CommittedHistory
  <2>2. pc'[r] = "committed"
    BY <1>1, <1>4 DEF Commit, Close, Goto, TypeOK
  <2>3. \A i \in DOMAIN mem[r].history :
           pc'[mem[r].history[i].by] = "committed"
    BY <1>1, <1>2, <2>2, RecordsStayCommitted
  <2> QED
    BY <2>1, <2>3 DEF HistoryIsCommitted
<1> QED
  BY <1>3, <1>4, OnlyCommitWrites

\* The last element of a concatenation.
LEMMA LastOfConcat ==
    ASSUME NEW S, NEW p \in Seq(S), NEW q \in Seq(S)
    PROVE  /\ q = <<>> => p \o q = p
           /\ q # <<>> => /\ p \o q # <<>>
                          /\ (p \o q)[Len(p \o q)] = q[Len(q)]
OBVIOUS

\* The status a Commit leaves in the row.
LEMMA CommittedStatus ==
    ASSUME IInv, NEW r \in Requests, Commit(r)
    PROVE  row'.status =
              IF kind[r] \in PayloadKinds THEN row.status ELSE mem[r].status
<1>1. row \in Rows
  BY DEF IInv, TypeOK
<1>2. [row EXCEPT !.history = mem[r].history].status = row.status
  BY <1>1, PayloadKeepsStatus
<1> QED
  BY <1>2 DEF Commit, Written, PayloadKinds

LEMMA AuditKept ==
    ASSUME IInv, NEW r \in Requests, Step(r)
    PROVE  AuditNamesStatus'
<1>1. CASE UNCHANGED <<row, audit>>
  BY <1>1 DEF IInv, AuditNamesStatus
<1>2. CASE Commit(r)
  <2>1. audit \in Seq(Changes) /\ trail[r] \in Seq(Changes)
    BY DEF IInv, TypeOK
  <2>2. audit' = audit \o trail[r]
    BY <1>2 DEF Commit
  <2>3. IF kind[r] \in PayloadKinds
        THEN trail[r] = <<>>
        ELSE /\ trail[r] # <<>>
             /\ trail[r][Len(trail[r])].new = mem[r].status
    BY <1>2 DEF Commit, IInv, Trails, TrailOf
  <2>4. row.status = IF audit = <<>> THEN "CREATED" ELSE audit[Len(audit)].new
    BY DEF IInv, AuditNamesStatus
  <2>5. CASE kind[r] \in PayloadKinds
    <3>1. audit' = audit
      BY <2>1, <2>2, <2>3, <2>5, LastOfConcat
    <3> QED
      BY <1>2, <2>4, <2>5, <3>1, CommittedStatus DEF AuditNamesStatus
  <2>6. CASE kind[r] \notin PayloadKinds
    <3>1. audit' # <<>> /\ audit'[Len(audit')] = trail[r][Len(trail[r])]
      BY <2>1, <2>2, <2>3, <2>6, LastOfConcat
    <3> QED
      BY <1>2, <2>3, <2>6, <3>1, CommittedStatus DEF AuditNamesStatus
  <2> QED
    BY <2>5, <2>6
<1> QED
  BY <1>1, <1>2, OnlyCommitWrites

LEMMA AtomicKept ==
    ASSUME IInv, NEW r \in Requests, Step(r)
    PROVE  RuntimeIsAtomic'
<1> DEFINE Ends == {"CREATED", "WAITING_APPROVAL", "APPROVED", "REJECTED",
                    "COMPLETED"}
<1>1. TypeOK /\ RuntimeIsAtomic
  BY DEF IInv
<1>2. ASSUME row'.status = row.status
      PROVE  RuntimeIsAtomic'
  <2>1. ASSUME NEW q \in Requests, kind[q] = "transition", pc[q] = "committed"
        PROVE  kind'[q] = "transition" /\ pc'[q] = "committed"
    BY <1>1, <2>1, CommittedStays, OthersUnchanged
  <2> QED
    BY <1>1, <1>2, <2>1 DEF RuntimeIsAtomic
<1>3. CASE Commit(r)
  <2>1. PlanOf(r) /\ pc[r] = "commit"
    BY <1>3 DEF IInv, Plans, Commit
  <2>2. CASE kind[r] \in PayloadKinds
    BY <1>2, <1>3, <2>2, CommittedStatus
  <2>3. CASE kind[r] \in FinalDecisions
    <3>1. mem[r].status = DecisionStatus(kind[r])
      BY <2>1, <2>3 DEF PlanOf, InFlight
    <3>2. mem[r].status \in Ends
      BY <2>3, <3>1, TablesTyped DEF Decisions
    <3> QED
      BY <1>3, <2>3, <3>2, CommittedStatus
         DEF RuntimeIsAtomic, FinalDecisions, PayloadKinds
  <2>4. CASE kind[r] \in {"run", "resume"}
    <3>1. mem[r].status \in Ends
      BY <2>1, <2>4 DEF PlanOf, LastStage
    <3> QED
      BY <1>3, <2>4, <3>1, CommittedStatus DEF RuntimeIsAtomic, PayloadKinds
  <2>5. CASE kind[r] = "transition"
    <3>1. kind'[r] = "transition" /\ pc'[r] = "committed"
      BY <1>1, <1>3, <2>5 DEF Commit, Close, Goto, TypeOK
    <3> QED
      BY <3>1 DEF RuntimeIsAtomic
  <2> QED
    BY <2>1, <2>2, <2>3, <2>4, <2>5
       DEF PlanOf, AllKinds, Decisions, PayloadKinds
<1> QED
  BY <1>2, <1>3, OnlyCommitWrites

LEMMA SourcesKept ==
    ASSUME IInv, NEW r \in Requests, Step(r)
    PROVE  Sources'
<1>1. /\ TypeOK
      /\ row.history \in Seq(Records) /\ Sourced(row.history)
      /\ mem[r].history \in Seq(Records) /\ Sourced(mem[r].history)
  BY DEF IInv, TypeOK, Rows, Sources
<1>2. row'.history \in {row.history, mem[r].history}
  BY OnlyCommitWrites, CommittedHistory
<1>3. Sourced(row.history)'
  BY <1>1, <1>2, SourcesStay DEF Sourced
<1> QED
  BY <1>3, SourcesHeld DEF Sources

\* What has been committed stays committed.
LEMMA CommittedStill ==
    ASSUME TypeOK, NEW r \in Requests, Step(r), NEW k, Committed(k)
    PROVE  Committed(k)'
<1>1. PICK q \in Requests : kind[q] = k /\ pc[q] = "committed"
  BY DEF Committed
<1>2. kind'[q] = k /\ pc'[q] = "committed"
  BY <1>1, CommittedStays, OthersUnchanged
<1> QED
  BY <1>2 DEF Committed

\* A Commit adds its endpoint to what has been committed.
LEMMA CommitCounts ==
    ASSUME TypeOK, NEW r \in Requests, Commit(r), NEW k, kind[r] = k
    PROVE  Committed(k)'
<1>1. pc'[r] = "committed" /\ kind'[r] = k
  BY DEF Commit, Close, Goto, TypeOK
<1> QED
  BY <1>1 DEF Committed

\* The status APPROVED comes from a decision or from a manual transition.
LEMMA GateKept ==
    ASSUME IInv, NEW r \in Requests, Step(r)
    PROVE  GateWasPassed'
<1>1. TypeOK /\ GateWasPassed
  BY DEF IInv
<1>2. ASSUME row'.status = row.status
      PROVE  GateWasPassed'
  <2>1. ASSUME Committed("approve") \/ Committed("transition")
        PROVE  Committed("approve")' \/ Committed("transition")'
    BY <1>1, <2>1, CommittedStill
  <2> QED
    BY <1>1, <1>2, <2>1, Zenon DEF GateWasPassed
<1>3. CASE Commit(r)
  <2>1. PlanOf(r) /\ pc[r] = "commit"
    BY <1>3 DEF IInv, Plans, Commit
  <2>2. CASE kind[r] \in PayloadKinds
    BY <1>2, <1>3, <2>2, CommittedStatus
  <2>3. CASE kind[r] \in {"approve", "transition"}
    <3>1. Committed("approve")' \/ Committed("transition")'
      BY <1>1, <1>3, <2>3, CommitCounts
    <3> QED
      BY <3>1 DEF GateWasPassed
  <2>4. CASE kind[r] \in {"reject", "run", "resume"}
    <3>1. mem[r].status # "APPROVED"
      BY <2>1, <2>4 DEF PlanOf, LastStage, FinalDecisions, DecisionStatus,
                        InFlight
    <3>2. row'.status = mem[r].status
      BY <1>3, <2>4, CommittedStatus DEF PayloadKinds
    <3> QED
      BY <3>1, <3>2 DEF GateWasPassed
  <2> QED
    BY <2>1, <2>2, <2>3, <2>4
       DEF PlanOf, AllKinds, Decisions, FinalDecisions, PayloadKinds
<1> QED
  BY <1>2, <1>3, OnlyCommitWrites

\* A resume passes its checks only when it is backed: the status it reads comes
\* from a decision or a manual transition, the approval record from a decision
\* or a PATCH.
LEMMA PassIsBacked ==
    ASSUME IInv, MayResume(row.status, row.history)
    PROVE  Backed
<1>1. PICK i \in DOMAIN row.history : row.history[i].decision = "approve"
  BY DEF MayResume
<1>2. row.history[i].by \in Requests
  <2>1. row.history \in Seq(Records)
    BY DEF IInv, TypeOK, Rows
  <2>2. row.history[i] \in Records
    BY <2>1
  <2> QED
    BY <2>2 DEF Records
<1>3. pc[row.history[i].by] = "committed"
  BY DEF IInv, HistoryIsCommitted
<1>4. kind[row.history[i].by] \in {"approve", "patch"}
  BY <1>1 DEF IInv, Sources, Sourced
<1>5. Committed("approve") \/ Committed("patch")
  BY <1>2, <1>3, <1>4 DEF Committed
<1>6. Committed("approve") \/ Committed("transition")
  BY DEF IInv, GateWasPassed, MayResume
<1> QED
  BY <1>5, <1>6 DEF Backed

LEMMA ApprovalsKept ==
    ASSUME IInv, NEW r \in Requests, Step(r)
    PROVE  Approvals'
<1> DEFINE Passed == {"announce", "recheck", "flush", "stage", "commit",
                      "committed"}
<1>1. TypeOK /\ Approvals
  BY DEF IInv
<1>2. Backed => Backed'
  BY <1>1, CommittedStill DEF Backed
<1> SUFFICES ASSUME NEW s \in Requests, kind'[s] = "resume", pc'[s] \in Passed
             PROVE  Backed'
  BY DEF Approvals, ApprovalOf
<1>3. CASE kind[s] = "resume" /\ pc[s] \in Passed
  BY <1>1, <1>2, <1>3 DEF Approvals, ApprovalOf
<1>4. CASE ~(kind[s] = "resume" /\ pc[s] \in Passed)
  <2>1. s = r
    BY <1>1, <1>4, OthersUnchanged
  <2>2. ReadForResume(r) /\ MayResume(row.status, row.history)
    <3> USE DEF TypeOK, Goto, session
    <3>1. CASE Arrive(r)
      BY <1>1, <2>1, <3>1 DEF Arrive, Submit
    <3>2. CASE ReadForResume(r)
      BY <1>1, <2>1, <3>2 DEF ReadForResume
    <3>3. CASE Work(r) /\ ~ReadForResume(r)
      BY <1>1, <1>4, <2>1, <3>3 DEF Work, ReadForDecision, ReadForRun,
         Announce, RejectPayload, CallTransition, CallsTransition, PatchState,
         RequestChanges, UpdateState, Flush, RunStage, EmailStage, StageFails,
         HandleFailure, Commit, Unwind, Close, Decisions, FinalDecisions
    <3>4. CASE Abort(r)
      BY <1>1, <2>1, <3>4 DEF Abort, Close
    <3> QED
      BY <3>1, <3>2, <3>3, <3>4 DEF Step
  <2> QED
    BY <1>2, <2>2, PassIsBacked
<1> QED
  BY <1>3, <1>4

-----------------------------------------------------------------------------
(***************************************************************************)
(* The invariant, and the theorems.                                        *)
(***************************************************************************)

LEMMA InitInv == Init => IInv
<1> SUFFICES ASSUME Init PROVE IInv
  OBVIOUS
<1>1. TypeOK
  <2>1. "CREATED" \in Statuses /\ "idle" \in Places
    BY DEF Statuses, Places
  <2>2. <<>> \in Seq(Changes)
    OBVIOUS
  <2> QED
    BY <2>1, <2>2, NewRowTyped DEF Init, TypeOK
<1>2. Plans
  BY DEF Init, Plans, PlanOf, InFlight
<1>3. Trails
  BY DEF Init, Trails, TrailOf
<1>4. Copies
  BY NewRowTyped DEF Init, Copies, CopiesOf, AllCommitted, OwnOrCommitted
<1>5. HistoryIsCommitted
  BY NewRowTyped DEF Init, HistoryIsCommitted
<1>6. AuditNamesStatus
  BY DEF Init, AuditNamesStatus, NewRow
<1>7. RuntimeIsAtomic
  BY DEF Init, RuntimeIsAtomic, NewRow
<1>8. Sources
  BY NewRowTyped DEF Init, Sources, Sourced
<1>9. Approvals /\ GateWasPassed
  BY DEF Init, Approvals, ApprovalOf, GateWasPassed, NewRow
<1> QED
  BY <1>1, <1>2, <1>3, <1>4, <1>5, <1>6, <1>7, <1>8, <1>9 DEF IInv

LEMMA StepInv == IInv /\ [Next]_vars => IInv'
<1> SUFFICES ASSUME IInv, [Next]_vars PROVE IInv'
  OBVIOUS
<1>1. CASE UNCHANGED vars
  BY <1>1 DEF vars, shared, session, IInv, TypeOK, Plans, PlanOf, Trails,
              TrailOf, Copies, CopiesOf, AllCommitted, OwnOrCommitted,
              Sources, Sourced, Approvals, ApprovalOf, GateWasPassed, Backed,
              Committed, HistoryIsCommitted, AuditNamesStatus, RuntimeIsAtomic
<1>2. ASSUME NEW r \in Requests, Step(r) PROVE IInv'
  <2>1. TypeOK /\ Plans /\ Trails
    BY DEF IInv
  <2>2. TypeOK'
    BY <1>2, ArriveKeepsTypes, WorkKeepsTypes, AbortKeepsTypes DEF Step
  <2>3. Plans'
    <3>1. ASSUME NEW s \in Requests PROVE PlanOf(s)'
      <4>1. CASE s = r
        BY <1>2, <4>1, PlanKept
      <4>2. CASE s # r
        BY <1>2, <2>1, <4>2, OthersUnchanged DEF Plans, PlanOf
      <4> QED
        BY <4>1, <4>2
    <3> QED
      BY <3>1 DEF Plans
  <2>4. Trails'
    <3>1. ASSUME NEW s \in Requests PROVE TrailOf(s)'
      <4>1. CASE s = r
        BY <1>2, <4>1, TrailKept
      <4>2. CASE s # r
        BY <1>2, <2>1, <4>2, OthersUnchanged DEF Trails, TrailOf
      <4> QED
        BY <4>1, <4>2
    <3> QED
      BY <3>1 DEF Trails
  <2>5. Copies'
    BY <1>2, CopiesKept DEF Copies
  <2>6. HistoryIsCommitted' /\ AuditNamesStatus' /\ RuntimeIsAtomic'
    BY <1>2, HistoryKept, AuditKept, AtomicKept
  <2>7. Sources' /\ Approvals' /\ GateWasPassed'
    BY <1>2, SourcesKept, ApprovalsKept, GateKept
  <2> QED
    BY <2>2, <2>3, <2>4, <2>5, <2>6, <2>7 DEF IInv
<1> QED
  BY <1>1, <1>2 DEF Next, Step

\* Every variable stays in its set, and the row lock has at most one owner,
\* however many requests run on a workflow (db/session.py).
THEOREM Typing == Spec => []TypeOK
<1>1. IInv => TypeOK
  BY DEF IInv
<1> QED
  BY InitInv, StepInv, <1>1, PTL DEF Spec

\* An approval record in the committed row was written by a request that
\* committed, whatever is rolled back beside it (api/v1/workflows.py).
THEOREM RecordsAreCommitted == Spec => []HistoryIsCommitted
<1>1. IInv => HistoryIsCommitted
  BY DEF IInv
<1> QED
  BY InitInv, StepInv, <1>1, PTL DEF Spec

\* The newest audited transition names the committed status, also when
\* requests overwrite each other (workflows/service.py).
THEOREM AuditFollowsStatus == Spec => []AuditNamesStatus
<1>1. IInv => AuditNamesStatus
  BY DEF IInv
<1> QED
  BY InitInv, StepInv, <1>1, PTL DEF Spec

\* Unless a manual transition was committed, the committed status is never one
\* inside a run or a resume, nor FAILED (api/v1/workflows.py, run_workflow).
THEOREM RunsAreAtomic == Spec => []RuntimeIsAtomic
<1>1. IInv => RuntimeIsAtomic
  BY DEF IInv
<1> QED
  BY InitInv, StepInv, <1>1, PTL DEF Spec

\* A resume is only committed after a reviewer's approval, or after a PATCHed
\* record and a manual transition together, whatever the other requests do
\* meanwhile (approvals/lifecycle.py, get_resume_allowed_after_decision).
THEOREM ResumesHaveApproval == Spec => []ResumesAreApproved
<1>1. IInv => ResumesAreApproved
  BY DEF IInv, Approvals, ApprovalOf, Backed, Committed, ResumesAreApproved
<1> QED
  BY InitInv, StepInv, <1>1, PTL DEF Spec

-----------------------------------------------------------------------------
(***************************************************************************)
(* A workflow that has ended.  A request that reads a terminal status is   *)
(* refused, or is a PATCH, which leaves the status alone.                  *)
(***************************************************************************)

\* Where a request can be that has read no status but a terminal one.
Harmless(r) ==
    /\ pc[r] \notin {"announce", "recheck", "stage", "failing"}
    /\ pc[r] \in {"flush", "commit"} => kind[r] = "patch"

HasEnded == /\ row.status \in TerminalStatuses
            /\ \A r \in Requests : Harmless(r)

\* Nothing passes the checks of an endpoint but a PATCH.
LEMMA TerminalRefuses ==
    ASSUME row.status \in TerminalStatuses
    PROVE  /\ \A to : ~CanTransition(row.status, to)
           /\ \A d : ~MayDecide(d, row.status, row.history)
           /\ ~MayResume(row.status, row.history)
           /\ row.status # "CREATED"
BY DEF TerminalStatuses, CanTransition, AllowedTransitions, Statuses,
       MayDecide, MayResume

LEMMA StaysHarmless ==
    ASSUME TypeOK, HasEnded, NEW r \in Requests, Step(r)
    PROVE  Harmless(r)'
<1>1. Harmless(r) /\ row.status \in TerminalStatuses
  BY DEF HasEnded
<1> USE DEF Harmless, TypeOK, Goto, session
<1>2. CASE Arrive(r)
  BY <1>2 DEF Arrive, Submit
<1>3. CASE Work(r)
  <2>1. CASE ReadForDecision(r) \/ ReadForRun(r) \/ ReadForResume(r)
    BY <1>1, <2>1, TerminalRefuses
    DEF ReadForDecision, ReadForRun, ReadForResume
  <2>2. CASE CallTransition(r)
    BY <1>1, <2>2, TerminalRefuses DEF CallTransition, CallsTransition, Loads
  <2>3. CASE PatchState(r)
    BY <1>1, <2>3 DEF PatchState, UpdateState
  <2>4. CASE Flush(r)
    BY <1>1, <2>4 DEF Flush
  <2>5. CASE Commit(r) \/ Unwind(r)
    BY <2>5 DEF Commit, Unwind, Close
  <2>6. CASE \/ Announce(r) \/ RejectPayload(r) \/ RequestChanges(r)
             \/ RunStage(r) \/ EmailStage(r) \/ StageFails(r)
             \/ HandleFailure(r)
    BY <1>1, <2>6 DEF Announce, RejectPayload, RequestChanges, RunStage,
                      EmailStage, StageFails, HandleFailure
  <2> QED
    BY <1>3, <2>1, <2>2, <2>3, <2>4, <2>5, <2>6 DEF Work
<1>4. CASE Abort(r)
  BY <1>4 DEF Abort, Close
<1> QED
  BY <1>2, <1>3, <1>4 DEF Step

LEMMA EndIsKept == IInv /\ HasEnded /\ [Next]_vars => HasEnded'
<1> SUFFICES ASSUME IInv, HasEnded, [Next]_vars PROVE HasEnded'
  OBVIOUS
<1>1. TypeOK
  BY DEF IInv
<1>2. CASE UNCHANGED vars
  BY <1>2 DEF vars, shared, session, HasEnded, Harmless
<1>3. ASSUME NEW r \in Requests, Step(r) PROVE HasEnded'
  <2>1. row'.status = row.status
    <3>1. CASE Commit(r)
      <4>1. kind[r] \in PayloadKinds
        BY <3>1 DEF HasEnded, Harmless, Commit, PayloadKinds
      <4> QED
        BY <3>1, <4>1, CommittedStatus
    <3> QED
      BY <1>3, <3>1, OnlyCommitWrites
  <2>2. ASSUME NEW s \in Requests PROVE Harmless(s)'
    <3>1. CASE s = r
      BY <1>1, <1>3, <3>1, StaysHarmless
    <3>2. CASE s # r
      BY <1>1, <1>3, <3>2, OthersUnchanged DEF HasEnded, Harmless
    <3> QED
      BY <3>1, <3>2
  <2> QED
    BY <2>1, <2>2 DEF HasEnded
<1> QED
  BY <1>2, <1>3 DEF Next, Step

\* A workflow that is at a terminal status while no request is at work has
\* ended for good, however the requests that arrive afterwards overlap
\* (workflows/lifecycle.py, TERMINAL_WORKFLOW_STATUSES).
THEOREM EndsStay == Spec => EndsForGood
<1>1. Quiet /\ row.status \in TerminalStatuses => HasEnded
  BY DEF Quiet, HasEnded, Harmless, InFlight
<1>2. HasEnded => row.status \in TerminalStatuses
  BY DEF HasEnded
<1> QED
  BY InitInv, StepInv, EndIsKept, <1>1, <1>2, PTL DEF Spec, EndsForGood

-----------------------------------------------------------------------------
(***************************************************************************)
(* Requests that do not overlap.                                           *)
(*                                                                         *)
(* With MaxInFlight = 1 a request reads, works and commits before the next *)
(* one is taken up.  Then the audit log is one path, and every behaviour   *)
(* is one of WorkflowContract, for every set of requests, every choice of  *)
(* endpoints and manual targets, and whatever records clients PATCH into   *)
(* the row.  The run of two decisions shows that the hypothesis is needed: *)
(* when they overlap both are accepted.                                    *)
(*                                                                         *)
(* The invariant is about the one request in flight: what the row, which   *)
(* nobody else can change, allows it (PermitOf), and how its object        *)
(* differs from the row (ObjectOf).                                        *)
(***************************************************************************)

\* A sequence of transitions, each legal, that starts at s.
PathFrom(s, path) ==
    \A i \in DOMAIN path :
       /\ CanTransition(path[i].old, path[i].new)
       /\ path[i].old = IF i = 1 THEN s ELSE path[i - 1].new

OneInFlight ==
    \A q, r \in Requests :
        pc[q] \in InFlight /\ pc[r] \in InFlight => q = r

\* What was checked when the request read the row still holds of it.
PermitOf(r) ==
    pc[r] \in {"announce", "recheck", "flush", "stage", "commit"} =>
       /\ kind[r] = "run" => row.status = "CREATED"
       /\ kind[r] = "resume" => MayResume(row.status, row.history)
       /\ kind[r] \in Decisions =>
             MayDecide(kind[r], row.status, row.history)
       /\ kind[r] = "transition" /\ pc[r] \in {"flush", "commit"} =>
             CanTransition(row.status, mem[r].status)

\* The requests that leave the final records of the row as they are.
KeeperKinds == {"transition", "resume", "request_changes"}

\* The object is the row until it is written.  At the commit it has the final
\* records of the row, none after a run, and its own alone after a decision;
\* a PATCH may leave any.
ObjectOf(r) ==
    /\ pc[r] \in {"announce", "recheck"} => mem[r] = row /\ view[r] = row
    /\ pc[r] = "flush" /\ kind[r] \in FinalDecisions => view[r] = row
    /\ pc[r] \in {"flush", "stage", "commit"} =>
          /\ PathFrom(row.status, trail[r])
          /\ kind[r] \in KeeperKinds =>
                Finals(mem[r].history) = Finals(row.history)
    /\ pc[r] = "commit" =>
          /\ kind[r] = "run" => Finals(mem[r].history) = {}
          /\ kind[r] \in FinalDecisions =>
                Finals(mem[r].history) = {[by |-> r, decision |-> kind[r]]}
    /\ kind[r] = "resume" =>
          /\ pc[r] \in InFlight => goal[r] = "GENERATING_EMAIL"
          /\ pc[r] = "stage" => mem[r].status = "GENERATING_EMAIL"

Permits == \A r \in Requests : PermitOf(r)
Objects == \A r \in Requests : ObjectOf(r)

SerialInv == /\ IInv
             /\ OneInFlight
             /\ Permits
             /\ Objects
             /\ PathFrom("CREATED", audit)

-----------------------------------------------------------------------------
(***************************************************************************)
(* Histories and paths.                                                    *)
(***************************************************************************)

\* The final records of an extended history.
LEMMA FinalsOfAppend ==
    ASSUME NEW h \in Seq(Records), NEW c \in Records
    PROVE  Finals(Append(h, c)) =
              IF c.decision \in FinalDecisions
              THEN Finals(h) \cup {c} ELSE Finals(h)
<1> DEFINE a == Append(h, c)
<1>1. /\ Len(h) \in Nat
      /\ DOMAIN h = 1..Len(h)
      /\ DOMAIN a = 1..(Len(h) + 1)
      /\ a[Len(h) + 1] = c
      /\ \A i \in 1..Len(h) : a[i] = h[i]
  OBVIOUS
<1> HIDE DEF a
<1>2. DOMAIN a = DOMAIN h \cup {Len(h) + 1}
  BY <1>1
<1>3. Finals(a) = {a[i] : i \in {j \in DOMAIN a :
                                    a[j].decision \in FinalDecisions}}
  BY DEF Finals
<1>4. ASSUME NEW x
      PROVE  x \in Finals(a) <=>
                x \in Finals(h) \/ (c.decision \in FinalDecisions /\ x = c)
  <2>1. x \in Finals(a) <=>
           \E i \in DOMAIN h \cup {Len(h) + 1} :
              a[i].decision \in FinalDecisions /\ x = a[i]
    BY <1>2, <1>3
  <2>2. x \in Finals(h) <=>
           \E i \in DOMAIN h : h[i].decision \in FinalDecisions /\ x = h[i]
    BY DEF Finals
  <2> QED
    BY <1>1, <2>1, <2>2
<1>5. Finals(a) = IF c.decision \in FinalDecisions
                  THEN Finals(h) \cup {c} ELSE Finals(h)
  BY <1>4
<1> QED
  BY <1>5 DEF a

\* No history, no final record.
LEMMA FinalsOfEmpty == Finals(<<>>) = {}
BY DEF Finals

\* An approval among the records is one among the final records.
LEMMA ApprovalIsFinal ==
    ASSUME NEW h \in Seq(Records)
    PROVE  (\E i \in DOMAIN h : h[i].decision = "approve") <=>
           (\E c \in Finals(h) : c.decision = "approve")
BY DEF Finals, FinalDecisions

\* The final records of a history are final records.
LEMMA FinalsTyped ==
    ASSUME NEW h \in Seq(Records)
    PROVE  Finals(h) \in SUBSET [by : Requests, decision : FinalDecisions]
<1> SUFFICES ASSUME NEW i \in DOMAIN h, h[i].decision \in FinalDecisions
             PROVE  h[i] \in [by : Requests, decision : FinalDecisions]
  BY DEF Finals
<1>1. h[i] \in Records
  OBVIOUS
<1> QED
  BY <1>1 DEF Records

\* A path goes on with a legal transition from where it ends.
LEMMA PathGrows ==
    ASSUME NEW s \in Statuses, NEW p \in Seq(Changes), NEW c \in Changes,
           PathFrom(s, p),
           CanTransition(c.old, c.new),
           c.old = IF p = <<>> THEN s ELSE p[Len(p)].new
    PROVE  PathFrom(s, Append(p, c))
<1> DEFINE a == Append(p, c)
<1>1. /\ Len(p) \in Nat
      /\ DOMAIN p = 1..Len(p)
      /\ DOMAIN a = 1..(Len(p) + 1)
      /\ a[Len(p) + 1] = c
      /\ \A i \in 1..Len(p) : a[i] = p[i]
      /\ p = <<>> <=> Len(p) = 0
  OBVIOUS
<1> HIDE DEF a
<1>2. ASSUME NEW i \in DOMAIN a
      PROVE  /\ CanTransition(a[i].old, a[i].new)
             /\ a[i].old = IF i = 1 THEN s ELSE a[i - 1].new
  <2>1. CASE i \in 1..Len(p)
    <3>1. i # 1 => i - 1 \in 1..Len(p)
      BY <1>1, <2>1
    <3> QED
      BY <1>1, <2>1, <3>1 DEF PathFrom
  <2>2. CASE i = Len(p) + 1
    BY <1>1, <2>2
  <2> QED
    BY <1>1, <1>2, <2>1, <2>2
<1>3. PathFrom(s, a)
  BY <1>2 DEF PathFrom
<1> QED
  BY <1>3 DEF a

\* A path goes on with a path from where it ends.
LEMMA PathsJoin ==
    ASSUME NEW s \in Statuses, NEW p \in Seq(Changes), NEW q \in Seq(Changes),
           PathFrom(s, p),
           PathFrom(IF p = <<>> THEN s ELSE p[Len(p)].new, q)
    PROVE  PathFrom(s, p \o q)
<1> DEFINE a == p \o q
<1>1. /\ Len(p) \in Nat /\ Len(q) \in Nat
      /\ DOMAIN p = 1..Len(p) /\ DOMAIN q = 1..Len(q)
      /\ DOMAIN a = 1..(Len(p) + Len(q))
      /\ \A i \in 1..Len(p) : a[i] = p[i]
      /\ \A i \in 1..Len(q) : a[Len(p) + i] = q[i]
      /\ p = <<>> <=> Len(p) = 0
  OBVIOUS
<1> HIDE DEF a
<1>2. ASSUME NEW i \in DOMAIN a
      PROVE  /\ CanTransition(a[i].old, a[i].new)
             /\ a[i].old = IF i = 1 THEN s ELSE a[i - 1].new
  <2>1. CASE i \in 1..Len(p)
    <3>1. i # 1 => i - 1 \in 1..Len(p)
      BY <1>1, <2>1
    <3> QED
      BY <1>1, <2>1, <3>1 DEF PathFrom
  <2>2. CASE i \notin 1..Len(p)
    <3>1. PICK j \in 1..Len(q) : i = Len(p) + j
      <4>1. i - Len(p) \in 1..Len(q) /\ i = Len(p) + (i - Len(p))
        BY <1>1, <2>2
      <4> QED
        BY <4>1
    <3>2. a[i] = q[j] /\ j \in DOMAIN q
      BY <1>1, <3>1
    <3>3. CASE j = 1
      <4>1. q[1].old = IF p = <<>> THEN s ELSE p[Len(p)].new
        BY <1>1, <3>2, <3>3 DEF PathFrom
      <4>2. Len(p) # 0 => a[i - 1] = p[Len(p)] /\ i # 1
        BY <1>1, <3>1, <3>3
      <4> QED
        BY <1>1, <3>1, <3>2, <3>3, <4>1, <4>2 DEF PathFrom
    <3>4. CASE j # 1
      <4>1. j - 1 \in 1..Len(q) /\ i # 1 /\ i - 1 = Len(p) + (j - 1)
        BY <1>1, <3>1, <3>4
      <4>2. a[i - 1] = q[j - 1]
        BY <1>1, <4>1
      <4> QED
        BY <3>2, <3>4, <4>1, <4>2 DEF PathFrom
    <3> QED
      BY <3>3, <3>4
  <2> QED
    BY <2>1, <2>2
<1>3. PathFrom(s, a)
  BY <1>2 DEF PathFrom
<1> QED
  BY <1>3 DEF a

\* A sequence without transitions is a path.
LEMMA EmptyPath == \A s : PathFrom(s, <<>>)
BY DEF PathFrom

\* The legal transitions that runs and resumes are made of, and failures.
LEMMA StageTransitions ==
    /\ CanTransition("CREATED", FirstStage)
    /\ \A s \in DOMAIN StageAfter : CanTransition(s, StageAfter[s])
    /\ CanTransition("APPROVED", "GENERATING_EMAIL")
    /\ CanTransition("GENERATING_EMAIL", "COMPLETED")
BY DEF CanTransition, AllowedTransitions, Statuses, StageAfter, FirstStage

-----------------------------------------------------------------------------
(***************************************************************************)
(* What a request in flight may rely on.                                   *)
(***************************************************************************)

\* The theorems about the contract, of this row.
Promise == INSTANCE WorkflowContractProofs
               WITH status <- row.status, finals <- Finals(row.history),
                    accepted <- Accepted

\* The contract of the refinement is the one the theorems are about.
LEMMA SameContract == Contract!Spec => Promise!Spec
<1>1. Contract!Init => Promise!Init
  BY DEF Contract!Init, Promise!Init
<1>2. [Contract!Next]_(Contract!vars) => [Promise!Next]_(Promise!vars)
  BY DEF Contract!Next, Promise!Next, Contract!vars, Promise!vars,
         Contract!Run, Promise!Run, Contract!Decide, Promise!Decide,
         Contract!Resume, Promise!Resume, Contract!Move, Promise!Move,
         Contract!Patch, Promise!Patch,
         Contract!FinalRecords, Promise!FinalRecords,
         Contract!LastStage, Promise!LastStage,
         Contract!FinalDecisions, Promise!FinalDecisions,
         Contract!DecisionStatus, Promise!DecisionStatus,
         Contract!Statuses, Promise!Statuses,
         Contract!CanTransition, Promise!CanTransition,
         Contract!AllowedTransitions, Promise!AllowedTransitions
<1> QED
  BY <1>1, <1>2, PTL DEF Contract!Spec, Promise!Spec

-----------------------------------------------------------------------------
(***************************************************************************)
(* Steps.                                                                  *)
(***************************************************************************)

\* A request that takes a step other than its arrival is in flight.
LEMMA WorkersInFlight ==
    ASSUME NEW r \in Requests, Work(r) \/ Abort(r)
    PROVE  pc[r] \in InFlight
BY DEF Work, ReadForDecision, ReadForRun, ReadForResume, Announce,
       RejectPayload, CallTransition, CallsTransition, PatchState,
       RequestChanges, Flush,
       RunStage, EmailStage, StageFails, HandleFailure, Commit, Unwind, Abort,
       InFlight

\* An arrival leaves the row alone, and takes the server only when it is free.
LEMMA ArrivalFindsFree ==
    ASSUME TypeOK, NEW r \in Requests, Arrive(r)
    PROVE  /\ UNCHANGED <<row, audit>>
           /\ pc[r] \notin InFlight
           /\ pc'[r] = "read"
           /\ ServerIsFree
BY DEF Arrive, Submit, Goto, TypeOK, shared, InFlight

\* With one request in flight the server is not free.
LEMMA BusyServer ==
    ASSUME MaxInFlight = 1, OneInFlight, ServerIsFree, NEW q \in Requests
    PROVE  pc[q] \notin InFlight
<1> SUFFICES ASSUME pc[q] \in InFlight PROVE FALSE
  OBVIOUS
<1>1. {r \in Requests : pc[r] \in InFlight} = {q}
  BY DEF OneInFlight
<1>2. Cardinality({q}) = 1
  BY FS_Singleton
<1> QED
  BY <1>1, <1>2 DEF ServerIsFree

LEMMA OneStaysInFlight ==
    ASSUME MaxInFlight = 1, SerialInv, NEW r \in Requests, Step(r)
    PROVE  OneInFlight'
<1> SUFFICES ASSUME NEW p \in Requests, NEW q \in Requests,
                    pc'[p] \in InFlight, pc'[q] \in InFlight
             PROVE  p = q
  BY DEF OneInFlight
<1>1. TypeOK /\ OneInFlight
  BY DEF SerialInv, IInv
<1>2. \A s \in Requests : s # r => pc'[s] = pc[s]
  BY <1>1, OthersUnchanged
<1>3. CASE Arrive(r)
  <2>1. \A s \in Requests : pc[s] \notin InFlight
    BY <1>1, <1>3, ArrivalFindsFree, BusyServer
  <2> QED
    BY <1>1, <1>2, <2>1 DEF OneInFlight
<1>4. CASE Work(r) \/ Abort(r)
  BY <1>1, <1>2, <1>4, WorkersInFlight DEF OneInFlight
<1> QED
  BY <1>3, <1>4 DEF Step

\* While a request is in flight nobody else commits.
LEMMA RowIsHeld ==
    ASSUME SerialInv, NEW r \in Requests, Step(r),
           NEW s \in Requests, s # r, pc[s] \in InFlight
    PROVE  UNCHANGED <<row, audit>>
<1>1. CASE Commit(r)
  BY <1>1 DEF SerialInv, OneInFlight, Commit, InFlight
<1> QED
  BY <1>1, OnlyCommitWrites

\* So what a request in flight relies on survives the steps of the others.
LEMMA OthersKeep ==
    ASSUME SerialInv, NEW r \in Requests, Step(r),
           NEW s \in Requests, s # r
    PROVE  PermitOf(s)' /\ ObjectOf(s)'
<1>1. /\ TypeOK /\ PermitOf(s) /\ ObjectOf(s)
  BY DEF SerialInv, IInv, Permits, Objects
<1>2. /\ pc'[s] = pc[s] /\ kind'[s] = kind[s] /\ goal'[s] = goal[s]
      /\ mem'[s] = mem[s] /\ view'[s] = view[s] /\ trail'[s] = trail[s]
  BY <1>1, OthersUnchanged
<1>3. CASE pc[s] \in InFlight
  <2>1. row' = row
    BY <1>3, RowIsHeld
  <2> QED
    BY <1>1, <1>2, <2>1 DEF PermitOf, ObjectOf
<1>4. CASE pc[s] \notin InFlight
  BY <1>1, <1>2, <1>4 DEF PermitOf, ObjectOf, InFlight
<1> QED
  BY <1>3, <1>4

\* A transition call changes the status of the object alone and makes the trail
\* one step longer.
LEMMA AssignExtends ==
    ASSUME TypeOK, NEW r \in Requests, NEW m \in Rows, NEW to \in Statuses,
           Assign(r, m, to),
           CanTransition(m.status, to),
           PathFrom(row.status, trail[r]),
           m.status = IF trail[r] = <<>> THEN row.status
                      ELSE trail[r][Len(trail[r])].new
    PROVE  /\ mem'[r].status = to
           /\ mem'[r].history = m.history
           /\ PathFrom(row.status, trail'[r])
<1>1. mem'[r] = [m EXCEPT !.status = to]
  BY DEF Assign, TypeOK
<1>2. /\ mem'[r].status = to
      /\ mem'[r].history = m.history
  BY <1>1 DEF Rows
<1> DEFINE c == [old |-> m.status, new |-> to]
<1>3. trail'[r] = Append(trail[r], c)
  BY DEF Assign, TypeOK
<1>4. c \in Changes /\ c.old = m.status /\ c.new = to
  BY DEF Changes, Rows
<1>5. row.status \in Statuses /\ trail[r] \in Seq(Changes)
  BY DEF TypeOK, Rows
<1> HIDE DEF c
<1>6. PathFrom(row.status, Append(trail[r], c))
  BY <1>4, <1>5, PathGrows
<1> QED
  BY <1>2, <1>3, <1>6

\* A final decision at the open gate is the only final record it leaves.
LEMMA DecisionIsAlone ==
    ASSUME NEW r \in Requests, NEW d \in FinalDecisions, row \in Rows,
           MayDecide(d, row.status, row.history)
    PROVE  /\ Append(row.history, [by |-> r, decision |-> d]) \in Seq(Records)
           /\ Finals(Append(row.history, [by |-> r, decision |-> d]))
                 = {[by |-> r, decision |-> d]}
<1>1. Finals(row.history) = {} /\ row.history \in Seq(Records)
  BY DEF MayDecide, Rows
<1>2. [by |-> r, decision |-> d] \in Records
  BY DEF Records, Decisions
<1> QED
  BY <1>1, <1>2, FinalsOfAppend

\* What the steps before the first write leave behind.
LEMMA ReadersKeep ==
    ASSUME SerialInv, NEW r \in Requests,
           \/ ReadForDecision(r) \/ ReadForRun(r) \/ ReadForResume(r)
           \/ Announce(r) \/ RejectPayload(r)
    PROVE  PermitOf(r)' /\ ObjectOf(r)'
<1> USE DEF SerialInv, IInv, TypeOK, Goto, shared, session, Permits, Objects,
            PermitOf, ObjectOf
<1>1. CASE ReadForDecision(r)
  BY <1>1 DEF ReadForDecision, Decisions, FinalDecisions
<1>2. CASE ReadForRun(r)
  BY <1>2 DEF ReadForRun, Decisions, FinalDecisions, InFlight
<1>3. CASE ReadForResume(r)
  BY <1>3 DEF ReadForResume, Decisions, FinalDecisions, InFlight
<1>4. CASE Announce(r)
  BY <1>4, ZenonT(40) DEF Announce, Loads, InFlight
<1>5. CASE RejectPayload(r)
  BY <1>5 DEF RejectPayload, InFlight
<1> QED
  BY <1>1, <1>2, <1>3, <1>4, <1>5

\* An accepted transition call moves a copy of the row.
LEMMA CallKeeps ==
    ASSUME SerialInv, NEW r \in Requests, CallTransition(r)
    PROVE  PermitOf(r)' /\ ObjectOf(r)'
<1> USE DEF Goto
<1>1. /\ TypeOK /\ row \in Rows /\ goal[r] \in Statuses
      /\ PermitOf(r) /\ ObjectOf(r)
      /\ pc[r] \in {"read", "recheck"}
      /\ pc[r] = "recheck" => mem[r] = row /\ view[r] = row
  BY DEF SerialInv, IInv, TypeOK, Permits, Objects, ObjectOf,
         CallTransition, CallsTransition
<1>2. /\ UNCHANGED <<row, kind, goal, view>>
      /\ Loads(r) = {row}
  BY <1>1 DEF CallTransition, shared, Loads
<1>3. CASE pc'[r] # "flush"
  <2>1. pc'[r] \in {"failing", "unwind"}
    BY <1>1, <1>3 DEF CallTransition, TypeOK
  <2>2. kind[r] = "resume" => goal[r] = "GENERATING_EMAIL"
    BY <1>1 DEF ObjectOf, InFlight
  <2> QED
    BY <1>2, <2>1, <2>2 DEF PermitOf, ObjectOf
<1>4. CASE pc'[r] = "flush"
  <2>1. CanTransition(row.status, goal[r]) /\ Assign(r, row, goal[r])
    BY <1>1, <1>2, <1>4 DEF CallTransition, TypeOK
  <2>2. trail[r] = <<>>
    BY <1>1 DEF SerialInv, IInv, Trails, TrailOf
  <2>3. PathFrom(row.status, trail[r])
    BY <2>2, EmptyPath
  <2>4. /\ mem'[r].status = goal[r]
        /\ mem'[r].history = row.history
        /\ PathFrom(row.status, trail'[r])
    BY <1>1, <2>1, <2>2, <2>3, AssignExtends
  <2>5. PermitOf(r)'
    BY <1>1, <1>2, <2>1, <2>4
       DEF CallTransition, CallsTransition, PermitOf, Decisions, FinalDecisions
  <2>6. kind[r] = "resume" => goal[r] = "GENERATING_EMAIL"
    BY <1>1 DEF ObjectOf, InFlight
  <2>7. kind[r] \in FinalDecisions => view[r] = row
    BY <1>1 DEF CallTransition, CallsTransition, FinalDecisions
  <2>8. ObjectOf(r)'
    BY <1>2, <1>4, <2>4, <2>6, <2>7 DEF ObjectOf
  <2> QED
    BY <2>5, <2>8
<1> QED
  BY <1>3, <1>4

\* A change request adds a record that is not final; a PATCH promises nothing of
\* the records, and neither of them a transition.
LEMMA UpdateKeeps ==
    ASSUME SerialInv, NEW r \in Requests, PatchState(r) \/ RequestChanges(r)
    PROVE  PermitOf(r)' /\ ObjectOf(r)'
<1> USE DEF Goto
<1>1. /\ TypeOK /\ row \in Rows /\ PermitOf(r) /\ ObjectOf(r)
  BY DEF SerialInv, IInv, TypeOK, Permits, Objects
<1>2. /\ UNCHANGED <<row, kind, goal, view, trail>>
      /\ pc'[r] \in {"flush", "unwind"}
  BY <1>1 DEF PatchState, RequestChanges, UpdateState, shared, TypeOK
<1>3. PathFrom(row.status, trail[r])
  <2>1. trail[r] = <<>>
    BY DEF SerialInv, IInv, Trails, TrailOf, PatchState, RequestChanges
  <2> QED
    BY <2>1, EmptyPath
<1>4. CASE PatchState(r)
  <2>1. kind[r] = "patch"
    BY <1>4 DEF PatchState
  <2> QED
    BY <1>2, <1>3, <2>1
       DEF PermitOf, ObjectOf, KeeperKinds, Decisions, FinalDecisions
<1>5. CASE RequestChanges(r)
  <2> DEFINE c == [by |-> r, decision |-> kind[r]]
             h == Append(row.history, c)
             state == [row EXCEPT !.history = h]
  <2>1. /\ kind[r] = "request_changes" /\ pc[r] = "recheck"
        /\ mem[r] = row /\ view[r] = row
    BY <1>1, <1>5 DEF RequestChanges, ObjectOf
  <2>2. c \in Records /\ c.decision \notin FinalDecisions
    BY <2>1 DEF Records, Decisions, FinalDecisions
  <2>3. row.history \in Seq(Records)
    BY <1>1 DEF Rows
  <2> HIDE DEF c
  <2>4. h \in Seq(Records) /\ Finals(h) = Finals(row.history)
    BY <2>2, <2>3, FinalsOfAppend
  <2>5. UpdateState(r, row, state)
    BY <1>1, <1>5, <2>1 DEF RequestChanges, Loads, Rows, c
  <2> HIDE DEF h
  <2>6. state.history = h
    BY <1>1, <2>4, RowTyped
  <2> HIDE DEF state
  <2>7. pc'[r] = "flush" => mem'[r].history = h
    BY <1>1, <2>4, <2>5, <2>6, UpdateTakes
  <2> QED
    BY <1>1, <1>2, <1>3, <2>1, <2>4, <2>7
       DEF PermitOf, ObjectOf, KeeperKinds, Decisions, FinalDecisions
<1> QED
  BY <1>4, <1>5

\* The first write of a decision puts its record after those of the row.
LEMMA FlushKeeps ==
    ASSUME SerialInv, NEW r \in Requests, Flush(r)
    PROVE  PermitOf(r)' /\ ObjectOf(r)'
<1> USE DEF Goto
<1>1. /\ TypeOK /\ row \in Rows /\ mem[r] \in Rows
      /\ PermitOf(r) /\ ObjectOf(r)
      /\ pc[r] = "flush" /\ PlanOf(r)
  BY DEF SerialInv, IInv, TypeOK, Permits, Objects, Plans, Flush
<1>2. UNCHANGED <<row, kind, goal, view, trail>>
  BY DEF Flush
<1>3. mem'[r].status = mem[r].status
  BY <1>1, FlushKeepsStatus
<1>4. CASE kind[r] \in FinalDecisions
  <2> DEFINE c == [by |-> r, decision |-> kind[r]]
             h == Append(row.history, c)
  <2>1. /\ view[r] = row
        /\ MayDecide(kind[r], row.status, row.history)
    BY <1>1, <1>4 DEF ObjectOf, PermitOf, Decisions
  <2>2. h \in Seq(Records) /\ Finals(h) = {c}
    BY <1>1, <1>4, <2>1, DecisionIsAlone
  <2>3. mem'[r] = [mem[r] EXCEPT !.history = h]
    BY <1>1, <1>4, <2>1 DEF Flush, TypeOK
  <2>4. /\ pc'[r] = "commit" /\ pc[r] \in InFlight
    BY <1>1, <1>4 DEF Flush, TypeOK, FinalDecisions, InFlight
  <2> HIDE DEF h, c
  <2>5. mem'[r].history = h
    BY <1>1, <2>2, <2>3, RowTyped
  <2>6. PathFrom(row.status, trail[r])
    BY <1>1 DEF ObjectOf
  <2>7. PermitOf(r)'
    BY <1>1, <1>2, <1>3, <1>4, <2>4 DEF PermitOf, FinalDecisions
  <2>8. ObjectOf(r)'
    BY <1>1, <1>2, <1>4, <2>2, <2>4, <2>5, <2>6
       DEF ObjectOf, FinalDecisions, KeeperKinds, c
  <2> QED
    BY <2>7, <2>8
<1>5. CASE kind[r] \notin FinalDecisions
  <2>1. mem' = mem
    BY <1>5 DEF Flush
  <2>2. /\ pc'[r] \in {"stage", "commit"}
        /\ pc'[r] = "commit" => kind[r] # "run"
    BY <1>1 DEF Flush, TypeOK
  <2>3. PermitOf(r)'
    BY <1>1, <1>2, <2>1, <2>2 DEF PermitOf
  <2>4. kind[r] = "resume" => mem[r].status = "GENERATING_EMAIL"
    BY <1>1 DEF PlanOf, ObjectOf, PayloadKinds, InFlight
  <2>5. ObjectOf(r)'
    BY <1>1, <1>2, <1>5, <2>1, <2>2, <2>4 DEF ObjectOf, InFlight
  <2> QED
    BY <2>3, <2>5
<1> QED
  BY <1>4, <1>5

\* Every stage goes on along the lifecycle; the last one clears the history.
LEMMA RunStageKeeps ==
    ASSUME SerialInv, NEW r \in Requests, RunStage(r)
    PROVE  PermitOf(r)' /\ ObjectOf(r)'
<1> USE DEF Goto
<1>1. /\ TypeOK /\ row \in Rows /\ mem[r] \in Rows
      /\ PermitOf(r) /\ ObjectOf(r)
      /\ pc[r] = "stage" /\ kind[r] = "run" /\ PlanOf(r) /\ TrailOf(r)
  BY DEF SerialInv, IInv, TypeOK, Permits, Objects, Plans, Trails, RunStage
<1>2. UNCHANGED <<row, kind, goal, view>>
  BY DEF RunStage, shared
<1>3. PathFrom(row.status, trail[r]) /\ row.status = "CREATED"
  BY <1>1 DEF ObjectOf, PermitOf
<1>4. PermitOf(r)'
  BY <1>1, <1>2, <1>3 DEF PermitOf, Decisions, FinalDecisions
<1>5. CASE mem[r].status # LastStage
  <2> DEFINE to == StageAfter[mem[r].status]
  <2>1. to \in Statuses /\ CanTransition(mem[r].status, to)
    BY <1>1, <1>5, TablesTyped, StageTransitions DEF PlanOf
  <2>2. Assign(r, mem[r], to) /\ pc' = pc
    BY <1>1, <1>5 DEF RunStage
  <2>3. trail[r] # <<>> /\ trail[r][Len(trail[r])].new = mem[r].status
    BY <1>1 DEF TrailOf, PayloadKinds
  <2> HIDE DEF to
  <2>4. /\ mem'[r].history = mem[r].history
        /\ PathFrom(row.status, trail'[r])
    BY <1>1, <1>3, <2>1, <2>2, <2>3, AssignExtends
  <2> QED
    BY <1>1, <1>2, <1>4, <2>2, <2>4 DEF ObjectOf, KeeperKinds, FinalDecisions
<1>6. CASE mem[r].status = LastStage
  <2>1. /\ mem'[r] = [mem[r] EXCEPT !.history = <<>>]
        /\ pc'[r] = "commit" /\ trail' = trail
    BY <1>1, <1>6 DEF RunStage, TypeOK
  <2>2. mem'[r].history = <<>>
    BY <1>1, <2>1 DEF Rows
  <2> QED
    BY <1>1, <1>2, <1>3, <1>4, <2>1, <2>2, FinalsOfEmpty
       DEF ObjectOf, KeeperKinds, FinalDecisions
<1> QED
  BY <1>5, <1>6

\* A resume ends at COMPLETED with the final records of the row.
LEMMA EmailKeeps ==
    ASSUME SerialInv, NEW r \in Requests, EmailStage(r)
    PROVE  PermitOf(r)' /\ ObjectOf(r)'
<1> USE DEF Goto
<1>1. /\ TypeOK /\ row \in Rows /\ mem[r] \in Rows
      /\ row.status \in Statuses /\ trail[r] \in Seq(Changes)
      /\ PermitOf(r) /\ ObjectOf(r)
      /\ pc[r] = "stage" /\ kind[r] = "resume" /\ TrailOf(r)
  BY DEF SerialInv, IInv, TypeOK, Permits, Objects, Trails, EmailStage, Rows
<1>2. UNCHANGED <<row, kind, goal, view>>
  BY DEF EmailStage, shared
<1>3. /\ MayResume(row.status, row.history)
      /\ mem[r].status = "GENERATING_EMAIL"
      /\ Finals(mem[r].history) = Finals(row.history)
      /\ PathFrom(row.status, trail[r])
  BY <1>1 DEF ObjectOf, PermitOf, KeeperKinds, InFlight
<1>4. PermitOf(r)'
  <2>1. kind[r] \notin Decisions
    BY <1>1 DEF Decisions, FinalDecisions
  <2> QED
    BY <1>1, <1>2, <1>3, <2>1 DEF PermitOf
<1>5. Assign(r, mem[r], "COMPLETED") /\ pc'[r] = "commit"
  BY <1>1 DEF EmailStage, TypeOK
<1>6. /\ "COMPLETED" \in Statuses
      /\ CanTransition(mem[r].status, "COMPLETED")
      /\ trail[r] # <<>> /\ mem[r].status = trail[r][Len(trail[r])].new
  BY <1>1, <1>3, TablesTyped, StageTransitions DEF TrailOf, PayloadKinds
<1>7. /\ mem'[r].history = mem[r].history
      /\ PathFrom(row.status, trail'[r])
  BY <1>1, <1>3, <1>5, <1>6, AssignExtends
<1> QED
  BY <1>1, <1>2, <1>3, <1>4, <1>5, <1>7
     DEF ObjectOf, KeeperKinds, FinalDecisions, InFlight

\* Arrivals promise nothing yet, and a request that fails or ends no more.
LEMMA OtherStepsKeep ==
    ASSUME SerialInv, NEW r \in Requests,
           \/ Arrive(r) \/ StageFails(r) \/ HandleFailure(r)
           \/ Commit(r) \/ Unwind(r) \/ Abort(r)
    PROVE  PermitOf(r)' /\ ObjectOf(r)'
<1>1. TypeOK /\ ObjectOf(r)
  BY DEF SerialInv, IInv, Objects
<1>2. CASE Arrive(r)
  <2>1. pc'[r] = "read"
    BY <1>1, <1>2, ArrivalFindsFree
  <2>2. kind'[r] = "resume" => goal'[r] = "GENERATING_EMAIL"
    BY <1>1, <1>2 DEF Arrive, Submit, FinalDecisions, Goto, TypeOK
  <2> QED
    BY <2>1, <2>2 DEF PermitOf, ObjectOf, InFlight
<1>3. CASE StageFails(r) \/ HandleFailure(r)
  BY <1>1, <1>3 DEF StageFails, HandleFailure, Goto, TypeOK, shared, session,
                    PermitOf, ObjectOf, InFlight
<1>4. CASE Commit(r) \/ Unwind(r) \/ Abort(r)
  BY <1>1, <1>4 DEF Commit, Unwind, Abort, Close, Goto, TypeOK,
                    PermitOf, ObjectOf, InFlight
<1> QED
  BY <1>2, <1>3, <1>4

LEMMA SessionsKeep ==
    ASSUME SerialInv, NEW r \in Requests, Step(r)
    PROVE  Permits' /\ Objects'
<1>1. PermitOf(r)' /\ ObjectOf(r)'
  BY ReadersKeep, CallKeeps, UpdateKeeps, FlushKeeps, RunStageKeeps,
     EmailKeeps, OtherStepsKeep DEF Step, Work
<1>2. \A s \in Requests : s # r => PermitOf(s)' /\ ObjectOf(s)'
  BY OthersKeep
<1> QED
  BY <1>1, <1>2 DEF Permits, Objects

-----------------------------------------------------------------------------
(***************************************************************************)
(* A Commit is a step of the contract.                                     *)
(***************************************************************************)

\* What each endpoint does to the status and to the final records.
LEMMA CommitKinds ==
    ASSUME SerialInv, NEW r \in Requests, Commit(r)
    PROVE  /\ kind[r] \in AllKinds
           /\ kind[r] \in PayloadKinds =>
                 row'.status = row.status
           /\ kind[r] = "transition" =>
                 CanTransition(row.status, row'.status)
           /\ kind[r] = "run" =>
                 row.status = "CREATED" /\ row'.status = LastStage
           /\ kind[r] = "resume" =>
                 /\ MayResume(row.status, row.history)
                 /\ row'.status = "COMPLETED"
           /\ kind[r] \in FinalDecisions =>
                 /\ MayDecide(kind[r], row.status, row.history)
                 /\ row'.status = DecisionStatus(kind[r])
           /\ kind[r] \in KeeperKinds =>
                 Finals(row'.history) = Finals(row.history)
           /\ kind[r] = "run" => Finals(row'.history) = {}
           /\ kind[r] \in FinalDecisions =>
                 Finals(row'.history) = {[by |-> r, decision |-> kind[r]]}
           /\ PathFrom(row.status, trail[r])
<1>1. pc[r] = "commit" /\ PlanOf(r) /\ PermitOf(r) /\ ObjectOf(r)
  BY DEF SerialInv, IInv, Plans, Permits, Objects, Commit
<1>2. kind[r] \in AllKinds
  BY <1>1 DEF PlanOf
<1>3. /\ kind[r] \in {"transition", "run", "resume"} \cup FinalDecisions
            => kind[r] \notin PayloadKinds
      /\ kind[r] \in FinalDecisions => kind[r] \in Decisions
  BY DEF PayloadKinds, FinalDecisions, Decisions
<1>4. /\ row'.status = IF kind[r] \in PayloadKinds
                       THEN row.status ELSE mem[r].status
      /\ row'.history = mem[r].history
  BY CommittedStatus, CommittedHistory DEF SerialInv
<1>5. PathFrom(row.status, trail[r])
  BY <1>1 DEF ObjectOf
<1>6. /\ kind[r] \in KeeperKinds =>
            Finals(row'.history) = Finals(row.history)
      /\ kind[r] = "run" => Finals(row'.history) = {}
      /\ kind[r] \in FinalDecisions =>
            Finals(row'.history) = {[by |-> r, decision |-> kind[r]]}
  BY <1>1, <1>4 DEF ObjectOf
<1>7. kind[r] \in FinalDecisions => mem[r].status = DecisionStatus(kind[r])
  BY <1>1 DEF PlanOf, InFlight
<1> QED
  BY <1>1, <1>2, <1>3, <1>4, <1>5, <1>6, <1>7 DEF PermitOf, PlanOf

\* A request is committed by its Commit alone.
LEMMA OnlyCommitCommits ==
    ASSUME TypeOK, NEW r \in Requests, Step(r), ~Commit(r)
    PROVE  pc[r] # "committed" /\ pc'[r] # "committed"
<1> USE DEF TypeOK, Goto, session
<1>1. pc[r] # "committed"
  BY CommittedStays
<1>2. CASE Arrive(r)
  BY <1>1, <1>2 DEF Arrive, Submit
<1>3. CASE Work(r)
  BY <1>1, <1>3 DEF Work, ReadForDecision, ReadForRun, ReadForResume, Announce,
         RejectPayload, CallTransition, PatchState, RequestChanges,
         UpdateState, Flush, RunStage, EmailStage, StageFails, HandleFailure,
         Unwind, Close
<1>4. CASE Abort(r)
  BY <1>1, <1>4 DEF Abort, Close
<1> QED
  BY <1>1, <1>2, <1>3, <1>4 DEF Step

\* The accepted decisions grow by the Commit of a final decision alone.
LEMMA AcceptedSteps ==
    ASSUME TypeOK, NEW r \in Requests, Step(r)
    PROVE  Accepted' = IF Commit(r) /\ kind[r] \in FinalDecisions
                       THEN Accepted \cup {[by |-> r, decision |-> kind[r]]}
                       ELSE Accepted
<1> DEFINE All == [by : Requests, decision : FinalDecisions]
           Is(c) == kind[c.by] = c.decision /\ pc[c.by] = "committed"
           Own == [by |-> r, decision |-> kind[r]]
<1>1. /\ Accepted = {c \in All : Is(c)}
      /\ Accepted' = {c \in All : Is(c)'}
  BY DEF Accepted
<1>2. ASSUME NEW c \in All, c.by # r PROVE Is(c)' <=> Is(c)
  BY <1>2, OthersUnchanged
<1>3. CASE ~Commit(r)
  <2>1. ASSUME NEW c \in All, c.by = r PROVE ~Is(c) /\ ~Is(c)'
    BY <1>3, <2>1, OnlyCommitCommits
  <2>2. Accepted' = Accepted
    BY <1>1, <1>2, <2>1
  <2> QED
    BY <1>3, <2>2
<1>4. CASE Commit(r)
  <2>1. pc'[r] = "committed" /\ kind'[r] = kind[r] /\ pc[r] # "committed"
    BY <1>4 DEF Commit, Close, Goto, TypeOK
  <2>2. ASSUME NEW c \in All, c.by = r
        PROVE  ~Is(c) /\ (Is(c)' <=> c.decision = kind[r])
    BY <2>1, <2>2
  <2>3. CASE kind[r] \in FinalDecisions
    <3>1. Own \in All /\ Own.by = r /\ Own.decision = kind[r]
      BY <2>3
    <3>2. ASSUME NEW c \in All, c.by = r, c.decision = kind[r] PROVE c = Own
      BY <3>2
    <3> HIDE DEF Own, All, Is
    <3>3. Accepted' = Accepted \cup {Own}
      BY <1>1, <1>2, <2>2, <3>1, <3>2
    <3> QED
      BY <1>4, <2>3, <3>3 DEF Own
  <2>4. CASE kind[r] \notin FinalDecisions
    <3>1. \A c \in All : c.by = r => ~Is(c) /\ ~Is(c)'
      BY <2>2, <2>4
    <3>2. Accepted' = Accepted
      BY <1>1, <1>2, <3>1
    <3> QED
      BY <2>4, <3>2
  <2> QED
    BY <2>3, <2>4
<1> QED
  BY <1>3, <1>4

\* A Commit is the step of WorkflowContract named after its endpoint.
LEMMA CommitImplements ==
    ASSUME SerialInv, NEW r \in Requests, Commit(r)
    PROVE  [Contract!Next]_(Contract!vars)
<1> USE CommitKinds
<1>1. TypeOK /\ row \in Rows /\ row' \in Rows
  <2>1. TypeOK /\ IInv
    BY DEF SerialInv, IInv
  <2>2. TypeOK'
    BY <2>1, WorkKeepsTypes DEF Work
  <2> QED
    BY <2>1, <2>2 DEF TypeOK
<1>2. Accepted' = IF kind[r] \in FinalDecisions
                   THEN Accepted \cup {[by |-> r, decision |-> kind[r]]}
                   ELSE Accepted
  BY <1>1, AcceptedSteps DEF Step, Work
<1>3. CASE kind[r] = "patch"
  <2>1. kind[r] \notin FinalDecisions /\ row'.history \in Seq(Records)
    BY <1>1, <1>3 DEF FinalDecisions, Rows
  <2>2. Finals(row'.history) \in SUBSET Contract!FinalRecords
    BY <2>1, FinalsTyped DEF Contract!FinalRecords, Contract!FinalDecisions,
                             FinalDecisions
  <2>3. Contract!Patch
    BY <1>2, <1>3, <2>1, <2>2 DEF Contract!Patch, PayloadKinds
  <2> QED
    BY <2>3 DEF Contract!Next
<1>4. CASE kind[r] = "request_changes"
  <2>1. kind[r] \notin FinalDecisions
    BY <1>4 DEF FinalDecisions
  <2> QED
    BY <1>2, <1>4, <2>1 DEF Contract!vars, PayloadKinds, KeeperKinds
<1>5. CASE kind[r] = "transition"
  <2>1. kind[r] \notin FinalDecisions /\ row'.status \in Statuses
    BY <1>1, <1>5 DEF FinalDecisions, Rows
  <2>2. Contract!Move(row'.status)
    BY <1>2, <1>5, <2>1
       DEF Contract!Move, Contract!CanTransition, CanTransition,
           Contract!AllowedTransitions, AllowedTransitions,
           Contract!Statuses, Statuses, KeeperKinds
  <2> QED
    BY <2>1, <2>2 DEF Contract!Next, Contract!Statuses, Statuses
<1>6. CASE kind[r] = "run"
  <2>1. Contract!Run
    BY <1>2, <1>6 DEF Contract!Run, Contract!LastStage, LastStage,
                      FinalDecisions
  <2> QED
    BY <2>1 DEF Contract!Next
<1>7. CASE kind[r] = "resume"
  <2>1. \E c \in Finals(row.history) : c.decision = "approve"
    <3>1. row.history \in Seq(Records)
      BY <1>1 DEF Rows
    <3> QED
      BY <1>7, <3>1, ApprovalIsFinal DEF MayResume
  <2>2. Contract!Resume
    BY <1>2, <1>7, <2>1 DEF Contract!Resume, MayResume, FinalDecisions,
                            KeeperKinds
  <2> QED
    BY <2>2 DEF Contract!Next
<1>8. CASE kind[r] \in FinalDecisions
  <2> DEFINE c == [by |-> r, decision |-> kind[r]]
  <2>1. c \in Contract!FinalRecords /\ c.decision = kind[r]
    BY <1>8 DEF Contract!FinalRecords, Contract!FinalDecisions, FinalDecisions
  <2> HIDE DEF c
  <2>2. Contract!Decide(c)
    BY <1>2, <1>8, <2>1 DEF Contract!Decide, Contract!DecisionStatus,
                            DecisionStatus, MayDecide, c
  <2> QED
    BY <2>1, <2>2 DEF Contract!Next
<1> QED
  BY <1>3, <1>4, <1>5, <1>6, <1>7, <1>8
     DEF AllKinds, Decisions, FinalDecisions

\* The log stays one path.
LEMMA PathKept ==
    ASSUME SerialInv, NEW r \in Requests, Step(r)
    PROVE  PathFrom("CREATED", audit)'
<1>1. PathFrom("CREATED", audit)
  BY DEF SerialInv
<1>2. CASE UNCHANGED <<row, audit>>
  BY <1>1, <1>2 DEF PathFrom
<1>3. CASE Commit(r)
  <2>1. PathFrom(row.status, trail[r])
    BY <1>3, CommitKinds
  <2>2. /\ audit \in Seq(Changes) /\ trail[r] \in Seq(Changes)
        /\ row.status = IF audit = <<>> THEN "CREATED"
                        ELSE audit[Len(audit)].new
    BY DEF SerialInv, IInv, TypeOK, AuditNamesStatus
  <2>3. PathFrom("CREATED", audit \o trail[r])
    BY <1>1, <2>1, <2>2, TablesTyped, PathsJoin
  <2> QED
    BY <1>3, <2>3 DEF Commit, PathFrom
<1> QED
  BY <1>2, <1>3, OnlyCommitWrites

-----------------------------------------------------------------------------
(***************************************************************************)
(* The invariant, and the theorems.                                        *)
(***************************************************************************)

LEMMA InitSerial == Init => SerialInv
<1> SUFFICES ASSUME Init PROVE SerialInv
  OBVIOUS
<1>1. IInv
  BY InitInv
<1>2. OneInFlight /\ Permits /\ Objects
  BY DEF Init, OneInFlight, Permits, PermitOf, Objects, ObjectOf, InFlight
<1>3. PathFrom("CREATED", audit)
  BY EmptyPath DEF Init
<1> QED
  BY <1>1, <1>2, <1>3 DEF SerialInv

LEMMA StepSerial ==
    ASSUME MaxInFlight = 1
    PROVE  SerialInv /\ [Next]_vars => SerialInv'
<1> SUFFICES ASSUME SerialInv, [Next]_vars PROVE SerialInv'
  OBVIOUS
<1>1. IInv'
  BY StepInv DEF SerialInv
<1>2. CASE UNCHANGED vars
  BY <1>1, <1>2 DEF vars, shared, session, SerialInv, OneInFlight, Permits,
     PermitOf, Objects, ObjectOf, PathFrom
<1>3. ASSUME NEW r \in Requests, Step(r) PROVE SerialInv'
  <2>1. OneInFlight'
    BY <1>3, OneStaysInFlight
  <2>2. Permits' /\ Objects'
    BY <1>3, SessionsKeep
  <2>3. PathFrom("CREATED", audit)'
    BY <1>3, PathKept
  <2> QED
    BY <1>1, <2>1, <2>2, <2>3 DEF SerialInv
<1> QED
  BY <1>2, <1>3 DEF Next, Step

\* The audited transitions of requests that do not overlap form one path of
\* legal steps from CREATED to the status of the row (workflows/audit.py).
THEOREM AuditPath ==
    ASSUME MaxInFlight = 1
    PROVE  Spec => []AuditIsAPath
<1>1. SerialInv => AuditIsAPath
  BY DEF SerialInv, IInv, AuditIsAPath, PathFrom
<1>2. SerialInv /\ [Next]_vars => SerialInv'
  BY StepSerial
<1> QED
  BY InitSerial, <1>1, <1>2, PTL DEF Spec

\* Every behaviour of requests that do not overlap is one of the contract: a
\* run, a decision, a resume, a manual transition and a PATCH of any payload
\* are one step of it each, and everything else is none (api/v1/workflows.py).
THEOREM RequestsImplementContract ==
    ASSUME MaxInFlight = 1
    PROVE  Spec => ContractSpec
<1>1. Init => Contract!Init
  BY FinalsOfEmpty DEF Init, Contract!Init, NewRow, Accepted
<1>2. SerialInv /\ [Next]_vars => [Contract!Next]_(Contract!vars)
  <2> SUFFICES ASSUME SerialInv, [Next]_vars
               PROVE  [Contract!Next]_(Contract!vars)
    OBVIOUS
  <2>1. CASE UNCHANGED vars
    BY <2>1 DEF Contract!vars, vars, shared, session, Accepted
  <2>2. ASSUME NEW r \in Requests, Step(r)
        PROVE  [Contract!Next]_(Contract!vars)
    <3>1. CASE Commit(r)
      BY <3>1, CommitImplements
    <3>2. CASE ~Commit(r)
      <4>1. row' = row
        BY <2>2, <3>2, OnlyCommitWrites
      <4>2. Accepted' = Accepted
        BY <2>2, <3>2, AcceptedSteps DEF SerialInv, IInv
      <4> QED
        BY <4>1, <4>2 DEF Contract!vars
    <3> QED
      BY <3>1, <3>2
  <2> QED
    BY <2>1, <2>2 DEF Next, Step
<1>3. SerialInv /\ [Next]_vars => SerialInv'
  BY StepSerial
<1> QED
  BY InitSerial, <1>1, <1>2, <1>3, PTL DEF Spec, ContractSpec, Contract!Spec

\* So among requests that do not overlap at most one final decision is ever
\* accepted, and it keeps its effect on the status, which only climbs, whatever
\* clients PATCH into the history: a dropped record lets no second decision in,
\* and a forged one comes with no change of the status (approvals/service.py,
\* workflows/lifecycle.py).
THEOREM SerialDecisionsHold ==
    ASSUME MaxInFlight = 1
    PROVE  Spec => /\ [](/\ Promise!OneFinalDecision
                         /\ Promise!DecisionTakesEffect)
                   /\ Promise!StatusOnlyClimbs
                   /\ Promise!RecordsFollowDecisions
<1>1. Spec => Contract!Spec
  BY RequestsImplementContract DEF ContractSpec
<1> QED
  BY <1>1, SameContract, Promise!DecisionsHold, Promise!Climbs,
     Promise!RecordsFollow, PTL
=============================================================================

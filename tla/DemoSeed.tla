------------------------------- MODULE DemoSeed -------------------------------
(***************************************************************************)
(* The seed command of the demo (app/demo/seed.py over user_seed.py and    *)
(* workflow_seed.py) beside the requests on what it seeds.                 *)
(*                                                                         *)
(* A seed is one transaction: it reads the accounts and the workflow rows, *)
(* sets the columns in which they differ from the contract, adds what is   *)
(* missing, and commits once or not at all.  PostgreSQL runs it READ       *)
(* COMMITTED, nothing locks a row before it is written, and an UPDATE      *)
(* names the columns that were set: what others have committed since the   *)
(* read stays in the other columns.  That what is written stays locked     *)
(* until the commit is left out, which only lets more happen.  Requests on *)
(* a workflow are modelled in full in WorkflowRequests; here one is a read *)
(* and a commit.  Of a row we keep its status and the decisions of its     *)
(* state payload; the events of the contract come and stay with the rows.  *)
(***************************************************************************)
EXTENDS Access, Sequences, FiniteSets

CONSTANTS
    Keys,             \* the seeded workflows the model chooses one from
    Seeds,            \* the runs of the seed command
    MaxRequests       \* bound: how many requests are made

VARIABLES
    contract,         \* the row of that workflow in the contract
    row,              \* the committed row of the workflow
    request,          \* the request a browser has under way
    requests,         \* how many requests were made
    seed,             \* the transaction of each run of the command
    disturbed,        \* history: somebody else committed since its first read
    overlapped        \* history: somebody committed over what he had not read

seedVars == <<contract, row, request, requests, seed, disturbed, overlapped>>
vars     == <<accessVars, seedVars>>

-----------------------------------------------------------------------------
\* DEMO_USERS, with the role each one has in DEMO_ROLES.
ExpectedRole ==
    [admin   |-> "Admin",   manager |-> "Manager", sales  |-> "Sales",
     legal   |-> "Legal",   finance |-> "Finance", viewer |-> "Viewer"]

\* DEMO_WORKFLOWS, with the status each one has at first.
InitialStatus ==
    [clean_created            |-> "CREATED",
     waiting_approval_history |-> "WAITING_APPROVAL",
     approved_ready_to_resume |-> "APPROVED",
     completed_resumed        |-> "COMPLETED",
     rejected_history         |-> "REJECTED",
     completed_conflict       |-> "COMPLETED"]

ASSUME ContractAssumption ==
    /\ Accounts \subseteq DOMAIN ExpectedRole
    /\ \A u \in Accounts : ExpectedRole[u] \in Roles
    /\ Keys \subseteq DOMAIN InitialStatus

\* _approval_records.
ApprovalRecords(key) ==
    CASE key = "approved_ready_to_resume" -> <<"approve">>
      [] key = "completed_resumed"        -> <<"request_changes", "approve">>
      [] key = "rejected_history"         -> <<"reject">>
      [] OTHER                            -> <<>>

\* The row of a workflow, with its _workflow_state_payload.
ContractRow(key) ==
    [exists |-> TRUE, status |-> InitialStatus[key],
     decisions |-> ApprovalRecords(key)]

NoRow     == [exists |-> FALSE, status |-> "none", decisions |-> <<>>]
NoRequest == [op |-> "none", read |-> NoRow]
NewSeed   == [at |-> "idle", accounts |-> <<>>, row |-> NoRow]

Init ==
    /\ Start
    /\ contract   \in {ContractRow(key) : key \in Keys}
    /\ row        = NoRow
    /\ request    = [c \in Clients |-> NoRequest]
    /\ requests   = 0
    /\ seed       = [s \in Seeds |-> NewSeed]
    /\ disturbed  = [s \in Seeds |-> FALSE]
    /\ overlapped = FALSE

\* Somebody commits: the transactions of the others may miss it.
Disturb(others) ==
    disturbed' = [s \in Seeds |->
        disturbed[s] \/ (s \in others /\ seed[s].at \in {"accounts", "row"})]

-----------------------------------------------------------------------------
\* WORKFLOW_FULL_ACCESS_ROLES, and those of approvals/policies.py.
FullAccess == {"Admin", "Manager"}

Operations == {"run", "request_changes", "approve", "reject", "resume"}

Enables(op) ==
    CASE op = "run"    -> "CREATED"
      [] op = "resume" -> "APPROVED"
      [] OTHER         -> "WAITING_APPROVAL"

\* A request is authorized, and reads the row and checks it.
Request(c) ==
    /\ request[c] = NoRequest /\ requests < MaxRequests
    /\ Authorized(c, FullAccess)
    /\ row.exists
    /\ \E op \in Operations :
          /\ row.status = Enables(op)
          /\ request' = [request EXCEPT ![c] = [op |-> op, read |-> row]]
    /\ requests' = requests + 1
    /\ UNCHANGED <<accessVars, contract, row, seed, disturbed, overlapped>>

Result(op) ==
    CASE op = "run"     -> "WAITING_APPROVAL"
      [] op = "approve" -> "APPROVED"
      [] op = "reject"  -> "REJECTED"
      [] op = "resume"  -> "COMPLETED"

\* The request commits the columns it has set: the state payload always, the
\* status unless it stays as it is.
Respond(c) ==
    /\ request[c] # NoRequest
    /\ LET op   == request[c].op
           read == request[c].read
           made == IF op \in {"run", "resume"} THEN read.decisions
                   ELSE Append(read.decisions, op)
       IN  /\ row' = IF op = "request_changes"
                     THEN [row EXCEPT !.decisions = made]
                     ELSE [row EXCEPT !.decisions = made, !.status = Result(op)]
           /\ overlapped' = (overlapped \/ row # read)
    /\ request' = [request EXCEPT ![c] = NoRequest]
    /\ Disturb(Seeds)
    /\ UNCHANGED <<accessVars, contract, requests, seed>>

-----------------------------------------------------------------------------
At(s, place) == seed[s].at = place

\* A seed reads the accounts.  They are rows of their own: one step stands for
\* the reads of all of them.
ReadAccounts(s) ==
    /\ ~At(s, "accounts") /\ ~At(s, "row")
    /\ seed' = [seed EXCEPT ![s] =
                   [NewSeed EXCEPT !.at = "accounts", !.accounts = accounts]]
    /\ disturbed' = [disturbed EXCEPT ![s] = FALSE]
    /\ UNCHANGED <<accessVars, contract, row, request, requests, overlapped>>

\* Mutant of SeededAccount: a password that was changed is kept.
KeepsThePassword(read, current, role) ==
    [exists |-> TRUE, active |-> TRUE,
     password |-> IF read.exists THEN current.password ELSE "demo",
     roles |-> current.roles \cup {role}]

\* _build_user and _refresh_existing_demo_user: what the read account lacks is
\* set, the rest is left as it is; a role is added, none is taken.
SeededAccount(read, current, role) ==
    [exists   |-> TRUE,
     active   |-> IF read.active THEN current.active ELSE TRUE,
     password |-> IF read.password = "demo" THEN current.password ELSE "demo",
     roles    |-> IF role \in read.roles THEN current.roles
                  ELSE current.roles \cup {role}]

SeededAccounts(s) ==
    [u \in Accounts |->
        SeededAccount(seed[s].accounts[u], accounts[u], ExpectedRole[u])]

\* What it adds must not have come to be there: an address is unique, and so is
\* the role of an account.
AccountsConflict(s) ==
    \E u \in Accounts :
       LET read == seed[s].accounts[u]
       IN  \/ accounts[u].exists /\ ~read.exists
           \/ ExpectedRole[u] \in accounts[u].roles \ read.roles

\* Mutant of FlushAccounts: the accounts are committed on their own.
CommitsAccounts(s) == ~AccountsConflict(s) /\ Account(SeededAccounts(s))

\* seed_demo_roles_and_users ends with a flush: nobody else sees anything yet.
FlushAccounts(s) == UNCHANGED <<accounts, inactiveSince>>

\* seed_demo_workflows_and_events reads the rows.
ReadRow(s) ==
    /\ At(s, "accounts")
    /\ FlushAccounts(s)
    /\ seed' = [seed EXCEPT ![s].at = "row", ![s].row = row]
    /\ UNCHANGED <<now, tokens, changes, contract, row, request, requests,
                   disturbed, overlapped>>

\* Mutant of SeededRow: the state payload of a row that is there is kept.
KeepsThePayload(read) ==
    IF read.exists THEN [row EXCEPT !.status = contract.status] ELSE contract

\* _refresh_demo_workflow, or the new row.
SeededRow(read) ==
    [exists    |-> TRUE,
     status    |-> IF read.status = contract.status THEN row.status
                   ELSE contract.status,
     decisions |-> IF read.exists /\ read.decisions = contract.decisions
                   THEN row.decisions ELSE contract.decisions]

Conflict(s) == AccountsConflict(s) \/ (row.exists /\ ~seed[s].row.exists)

\* run_demo_seed commits.
Commit(s) ==
    /\ At(s, "row") /\ ~Conflict(s)
    /\ Account(SeededAccounts(s))
    /\ row'  = SeededRow(seed[s].row)
    /\ seed' = [seed EXCEPT ![s] = [NewSeed EXCEPT !.at = "committed"]]
    /\ overlapped' = (row # seed[s].row)
    /\ Disturb(Seeds \ {s})
    /\ UNCHANGED <<now, tokens, changes, contract, request, requests>>

\* It rolls back: for a conflict or another exception, or because the run is a
\* dry one.
Rollback(s) ==
    /\ At(s, "accounts") \/ At(s, "row")
    /\ seed' = [seed EXCEPT ![s] = NewSeed]
    /\ UNCHANGED <<accessVars, contract, row, request, requests, disturbed,
                   overlapped>>

-----------------------------------------------------------------------------
AdministerBesideSeeds ==
    /\ Administer
    /\ Disturb(Seeds)
    /\ UNCHANGED <<contract, row, request, requests, seed, overlapped>>

Next ==
    \/ \E c \in Clients :
          \/ (Login(c) \/ Refresh(c) \/ Logout(c)) /\ UNCHANGED seedVars
          \/ Request(c) \/ Respond(c)
    \/ Tick /\ UNCHANGED seedVars
    \/ AdministerBesideSeeds
    \/ \E s \in Seeds :
          ReadAccounts(s) \/ ReadRow(s) \/ Commit(s) \/ Rollback(s)

Spec == Init /\ [][Next]_vars

-----------------------------------------------------------------------------
\* run_demo_seed: a seed that nobody disturbed restores the demo, whatever was
\* done to it before: every account can be used as the contract says, and the
\* row is the contract's.
SeedRestores ==
    [][\A s \in Seeds :
         seed[s].at # "committed" /\ seed'[s].at = "committed" /\ ~disturbed[s]
         => /\ row' = contract
            /\ \A u \in Accounts :
                  /\ accounts'[u].active /\ accounts'[u].password = "demo"
                  /\ ExpectedRole[u] \in accounts'[u].roles]_vars

\* A run of the command leaves all it makes or nothing, also when two of them
\* meet on an empty database.
SeedIsAllOrNothing ==
    \A u \in Accounts : accounts[u].exists <=> row.exists

Final == {"approve", "reject"}

Agrees(r) ==
    LET last == IF r.decisions = <<>> THEN "none"
                ELSE r.decisions[Len(r.decisions)]
    IN  CASE r.status = "CREATED"          -> last = "none"
          [] r.status = "WAITING_APPROVAL" -> last \notin Final
          [] r.status = "REJECTED"         -> last = "reject"
          [] OTHER                         -> last = "approve"

\* The status of a row and the decisions of its state payload tell the same
\* story, through seeds and requests one after the other: that of a workflow, or
\* the one the contract makes up.  Only a seed and a request that overlap can
\* leave one column of each, until the next seed (_refresh_demo_workflow sets
\* the columns one by one).
OnlyOverlapsTear ==
    row.exists /\ ~overlapped => row = contract \/ Agrees(row)
==============================================================================

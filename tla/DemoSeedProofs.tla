---------------------------- MODULE DemoSeedProofs ----------------------------
(***************************************************************************)
(* What holds of DemoSeed and Access for any number of accounts, browsers, *)
(* runs of the command, requests and changes by hand, and whatever the     *)
(* lifetimes of the tokens.                                                *)
(*                                                                         *)
(* The invariant says how old a token may be (Sessions), that an account   *)
(* somebody has read is still there (Known), that a run nobody disturbed   *)
(* has read what is there now (Current), and that a request is one the row *)
(* it has read allows (Requested).                                         *)
(***************************************************************************)
EXTENDS DemoSeed, TLAPS

AccountRows == Persons \cup {NoAccount}
Statuses    == {"CREATED", "WAITING_APPROVAL", "APPROVED", "COMPLETED",
                "REJECTED", "none"}
Rows        == [exists : BOOLEAN, status : Statuses,
                decisions : Seq(Operations)]
Reading     == {"accounts", "row"}
Runs        == [at : Reading \cup {"idle", "committed"},
                accounts : [Accounts -> AccountRows] \cup {<<>>},
                row : Rows]

Typed ==
    /\ AccessTypeOK
    /\ contract \in Rows /\ row \in Rows
    /\ request \in [Clients -> [op : Operations \cup {"none"}, read : Rows]]
    /\ seed \in [Seeds -> Runs]
    /\ \A s \in Seeds : seed[s].at \in Reading =>
          seed[s].accounts \in [Accounts -> AccountRows]
    /\ disturbed \in [Seeds -> BOOLEAN]
    /\ overlapped \in BOOLEAN

\* A token is not older than now.
Sessions ==
    \A c \in Clients : \A token \in tokens[c] :
        token.exp <= now + Lifetime(token.type)

\* No account is removed.
Known ==
    \A s \in Seeds : seed[s].at \in Reading =>
        \A u \in Accounts : seed[s].accounts[u].exists => accounts[u].exists

\* What a run has read is what there is, when nobody has committed since.
Current ==
    \A s \in Seeds : ~disturbed[s] =>
        /\ seed[s].at \in Reading => seed[s].accounts = accounts
        /\ seed[s].at = "row" => seed[s].row = row

\* A request was made at the status it is for.
Requested ==
    \A c \in Clients : request[c] # NoRequest =>
        /\ request[c].op \in Operations
        /\ request[c].read.exists
        /\ request[c].read.status = Enables(request[c].op)

\* The contract's row exists, and where a request can go on from it, its
\* decisions are those of its status.
ContractFits ==
    /\ contract.exists
    /\ contract.status \in {"CREATED", "WAITING_APPROVAL", "APPROVED"} =>
          Agrees(contract)

SeedInv ==
    /\ Typed /\ Sessions /\ DeactivationEndsSessions
    /\ Known /\ Current /\ Requested /\ ContractFits
    /\ SeedIsAllOrNothing /\ OnlyOverlapsTear

-----------------------------------------------------------------------------
(***************************************************************************)
(* Accounts and tokens.                                                    *)
(***************************************************************************)

SessionsHold == AccessTypeOK /\ Sessions /\ DeactivationEndsSessions

LEMMA LifetimesAreNumbers ==
    ASSUME NEW type \in Types
    PROVE  Lifetime(type) \in 0..(AccessLifetime + RefreshLifetime)
BY LifetimesAssumption DEF Types, Lifetime

\* New tokens are those of an active account.
LEMMA IssueKeeps ==
    ASSUME SessionsHold, NEW c \in Clients, NEW u \in Accounts,
           accounts[u].active, Issue(c, u),
           UNCHANGED <<now, accounts, changes, inactiveSince>>
    PROVE  SessionsHold'
<1> DEFINE new ==
       {[account |-> u, type |-> type, exp |-> now + Lifetime(type)] :
           type \in Types}
<1>1. /\ tokens \in [Clients -> SUBSET Tokens] /\ now \in 0..MaxTime
      /\ tokens' = [tokens EXCEPT ![c] = new]
  BY DEF SessionsHold, AccessTypeOK, Issue
<1>2. ASSUME NEW token \in new
      PROVE  /\ token \in Tokens /\ token.account = u
             /\ token.exp = now + Lifetime(token.type)
  <2>1. PICK type \in Types :
           token = [account |-> u, type |-> type, exp |-> now + Lifetime(type)]
    OBVIOUS
  <2>2. now + Lifetime(type) \in 0..(MaxTime + AccessLifetime + RefreshLifetime)
    BY <1>1, LifetimesAreNumbers, LifetimesAssumption
  <2> QED
    BY <2>1, <2>2 DEF Tokens
<1> HIDE DEF new
<1>3. tokens' \in [Clients -> SUBSET Tokens]
  BY <1>1, <1>2
<1>4. \A d \in Clients : \A token \in tokens'[d] :
         token \in tokens[d] \/ token \in new
  BY <1>1
<1>5. AccessTypeOK'
  BY <1>3 DEF SessionsHold, AccessTypeOK
<1>6. Sessions'
  <2>1. ASSUME NEW token \in new PROVE token.exp <= now + Lifetime(token.type)
    <3>1. token.exp \in Nat
      BY <1>2 DEF Tokens
    <3> QED
      BY <1>2, <3>1
  <2>2. \A d \in Clients : \A token \in tokens[d] :
           token.exp <= now + Lifetime(token.type)
    BY DEF SessionsHold, Sessions
  <2> QED
    BY <1>4, <2>1, <2>2 DEF Sessions, Lifetime
<1>7. DeactivationEndsSessions'
  <2>1. ASSUME NEW d \in Clients, NEW token \in tokens'[d],
               ~accounts[token.account].active
        PROVE  token.exp <= inactiveSince[token.account]
                               + Lifetime(token.type)
    <3>1. token \in tokens[d]
      BY <1>2, <1>4, <2>1
    <3> QED
      BY <2>1, <3>1 DEF SessionsHold, DeactivationEndsSessions
  <2> QED
    BY <2>1 DEF DeactivationEndsSessions, Lifetime
<1> QED
  BY <1>5, <1>6, <1>7 DEF SessionsHold

\* What browsers do with their tokens, and time.
LEMMA BrowsersKeep ==
    ASSUME SessionsHold,
           \/ \E c \in Clients : Login(c) \/ Refresh(c) \/ Logout(c)
           \/ Tick
    PROVE  SessionsHold' /\ accounts' = accounts
<1>1. ASSUME NEW c \in Clients, Login(c)
      PROVE  SessionsHold' /\ accounts' = accounts
  BY <1>1, IssueKeeps DEF Login
<1>2. ASSUME NEW c \in Clients, Refresh(c)
      PROVE  SessionsHold' /\ accounts' = accounts
  <2>1. PICK token \in tokens[c] :
           /\ IsActive(token.account) /\ Issue(c, token.account)
           /\ UNCHANGED <<now, accounts, changes, inactiveSince>>
    BY <1>2 DEF Refresh
  <2>2. token \in Tokens
    BY DEF SessionsHold, AccessTypeOK
  <2>3. token.account \in Accounts /\ accounts[token.account].active
    BY <2>1, <2>2 DEF Tokens, IsActive
  <2> QED
    BY <2>1, <2>3, IssueKeeps
<1>3. ASSUME NEW c \in Clients, Logout(c)
      PROVE  SessionsHold' /\ accounts' = accounts
  <2>1. /\ tokens' = [tokens EXCEPT ![c] = {}]
        /\ UNCHANGED <<now, accounts, changes, inactiveSince>>
    BY <1>3 DEF Logout, NoTokens
  <2>2. tokens \in [Clients -> SUBSET Tokens]
    BY DEF SessionsHold, AccessTypeOK
  <2>3. \A d \in Clients : tokens'[d] \subseteq tokens[d]
    BY <2>1, <2>2
  <2>4. AccessTypeOK'
    BY <2>1, <2>2 DEF SessionsHold, AccessTypeOK
  <2>5. Sessions' /\ DeactivationEndsSessions'
    BY <2>1, <2>3
       DEF SessionsHold, Sessions, DeactivationEndsSessions, Lifetime
  <2> QED
    BY <2>1, <2>4, <2>5 DEF SessionsHold
<1>4. ASSUME Tick PROVE SessionsHold' /\ accounts' = accounts
  <2>1. /\ now < MaxTime /\ now' = now + 1 /\ now \in 0..MaxTime
        /\ UNCHANGED <<accounts, tokens, changes, inactiveSince>>
        /\ tokens \in [Clients -> SUBSET Tokens]
    BY <1>4 DEF Tick, SessionsHold, AccessTypeOK
  <2>2. AccessTypeOK'
    <3>1. now' \in 0..MaxTime
      BY <2>1, LifetimesAssumption
    <3> QED
      BY <2>1, <3>1 DEF SessionsHold, AccessTypeOK
  <2>3. DeactivationEndsSessions'
    BY <2>1 DEF SessionsHold, DeactivationEndsSessions, Lifetime
  <2>4. Sessions'
    <3>1. ASSUME NEW c \in Clients, NEW token \in tokens[c]
          PROVE  token.exp <= now' + Lifetime(token.type)
      <4>1. token \in Tokens
        BY <2>1
      <4>2. token.exp \in Nat /\ Lifetime(token.type) \in Nat
        BY <4>1, LifetimesAreNumbers, LifetimesAssumption DEF Tokens
      <4>3. token.exp <= now + Lifetime(token.type)
        BY DEF SessionsHold, Sessions
      <4> QED
        BY <2>1, <4>2, <4>3
    <3> QED
      BY <2>1, <3>1 DEF Sessions, Lifetime
  <2> QED
    BY <2>1, <2>2, <2>3, <2>4 DEF SessionsHold
<1> QED
  BY <1>1, <1>2, <1>3, <1>4

\* Accounts change: one that is deactivated now leaves tokens no older.
LEMMA AccountKeeps ==
    ASSUME SessionsHold, NEW new \in [Accounts -> AccountRows], Account(new),
           UNCHANGED <<now, tokens>>, changes' \in Nat
    PROVE  SessionsHold'
<1>1. /\ tokens \in [Clients -> SUBSET Tokens] /\ now \in 0..MaxTime
      /\ inactiveSince \in [Accounts -> 0..Never]
      /\ accounts' = new
      /\ inactiveSince' = [u \in Accounts |->
             IF new[u].active \/ ~new[u].exists THEN Never
             ELSE IF accounts[u].active THEN now ELSE inactiveSince[u]]
  BY DEF SessionsHold, AccessTypeOK, Account
<1>2. now \in 0..Never /\ Never \in 0..Never
  BY <1>1, LifetimesAssumption DEF Never
<1>3. AccessTypeOK'
  <2>1. inactiveSince' \in [Accounts -> 0..Never]
    BY <1>1, <1>2
  <2> QED
    BY <1>1, <2>1 DEF SessionsHold, AccessTypeOK, AccountRows
<1>4. Sessions'
  BY DEF SessionsHold, Sessions, Lifetime
<1>5. DeactivationEndsSessions'
  <2>1. ASSUME NEW c \in Clients, NEW token \in tokens[c],
               ~new[token.account].active
        PROVE  token.exp <= inactiveSince'[token.account]
                               + Lifetime(token.type)
    <3> DEFINE u == token.account
    <3>1. token \in Tokens /\ token.exp <= now + Lifetime(token.type)
      BY <1>1 DEF SessionsHold, Sessions
    <3>2. /\ u \in Accounts /\ token.exp \in Nat
          /\ Lifetime(token.type) \in Nat
      BY <3>1, LifetimesAreNumbers, LifetimesAssumption DEF Tokens
    <3>3. ~accounts[u].active =>
             token.exp <= inactiveSince[u] + Lifetime(token.type)
      BY DEF SessionsHold, DeactivationEndsSessions
    <3>4. \/ inactiveSince'[u] = Never
          \/ inactiveSince'[u] = now
          \/ ~accounts[u].active /\ inactiveSince'[u] = inactiveSince[u]
      BY <1>1, <3>2
    <3>5. now <= Never /\ now \in Nat /\ Never \in Nat
      BY <1>1, LifetimesAssumption DEF Never
    <3>6. CASE inactiveSince'[u] = Never
      BY <3>1, <3>2, <3>5, <3>6
    <3>7. CASE inactiveSince'[u] = now
      BY <3>1, <3>7
    <3>8. CASE ~accounts[u].active /\ inactiveSince'[u] = inactiveSince[u]
      BY <3>3, <3>8
    <3> QED
      BY <3>4, <3>6, <3>7, <3>8
  <2> QED
    BY <1>1, <2>1 DEF DeactivationEndsSessions, Lifetime
<1> QED
  BY <1>3, <1>4, <1>5 DEF SessionsHold

-----------------------------------------------------------------------------
(***************************************************************************)
(* Requests and changes by hand.                                           *)
(***************************************************************************)

\* Browsers and time change nothing a seed or a request has to do with.
LEMMA BrowserStepKeeps ==
    ASSUME SeedInv, SessionsHold', accounts' = accounts,
           UNCHANGED <<contract, row, request, seed, disturbed, overlapped>>
    PROVE  SeedInv'
<1>1. Typed' /\ Sessions' /\ DeactivationEndsSessions'
  BY DEF SeedInv, Typed, SessionsHold
<1>2. Known' /\ Current' /\ Requested' /\ ContractFits'
  BY DEF SeedInv, Known, Current, Requested, ContractFits, Agrees, Enables
<1>3. SeedIsAllOrNothing' /\ OnlyOverlapsTear'
  BY DEF SeedInv, SeedIsAllOrNothing, OnlyOverlapsTear, Agrees
<1> QED
  BY <1>1, <1>2, <1>3 DEF SeedInv

\* A commit disturbs the runs under way, so that what is known of a run that
\* nobody disturbed was known before, and it reads nothing yet.
LEMMA DisturbedOnes ==
    ASSUME Typed, NEW others \in SUBSET Seeds, Disturb(others)
    PROVE  /\ disturbed' \in [Seeds -> BOOLEAN]
           /\ \A s \in others : ~disturbed'[s] => seed[s].at \notin Reading
BY DEF Typed, Disturb, Reading

LEMMA AdministerKeeps ==
    ASSUME SeedInv, AdministerBesideSeeds
    PROVE  SeedInv'
<1>1. /\ Typed /\ SessionsHold /\ Known /\ Current /\ Requested /\ ContractFits
      /\ SeedIsAllOrNothing /\ OnlyOverlapsTear
  BY DEF SeedInv, Typed, SessionsHold
<1>2. /\ Disturb(Seeds)
      /\ UNCHANGED <<contract, row, request, seed, overlapped, now, tokens>>
      /\ changes' = changes + 1
  BY DEF AdministerBesideSeeds, Administer
<1>3. PICK u \in Accounts, person \in Persons :
         accounts[u].exists /\ Account([accounts EXCEPT ![u] = person])
  BY DEF AdministerBesideSeeds, Administer
<1> DEFINE new == [accounts EXCEPT ![u] = person]
<1>4. /\ accounts \in [Accounts -> AccountRows] /\ changes \in Nat
      /\ new \in [Accounts -> AccountRows]
  BY <1>1 DEF Typed, AccessTypeOK, AccountRows
<1>5. accounts' = new
  BY <1>3 DEF Account
<1>6. SessionsHold'
  <2>1. changes' \in Nat
    BY <1>2, <1>4
  <2> HIDE DEF new
  <2>2. Account(new)
    BY <1>3 DEF new
  <2> QED
    BY <1>1, <1>2, <1>4, <2>1, <2>2, AccountKeeps
<1>7. \A v \in Accounts : accounts'[v].exists <=> accounts[v].exists
  <2>1. person.exists
    BY DEF Persons
  <2> QED
    BY <1>3, <1>4, <1>5, <2>1
<1>8. Typed'
  BY <1>1, <1>2, <1>6, DisturbedOnes DEF Typed, SessionsHold
<1>9. Known'
  BY <1>1, <1>2, <1>7 DEF Known
<1>10. Current'
  BY <1>1, <1>2, DisturbedOnes DEF Current, Reading
<1>11. Requested' /\ ContractFits' /\ OnlyOverlapsTear'
  BY <1>1, <1>2
     DEF Requested, ContractFits, OnlyOverlapsTear, Agrees, Enables
<1>12. SeedIsAllOrNothing'
  BY <1>1, <1>2, <1>7 DEF SeedIsAllOrNothing
<1> QED
  BY <1>6, <1>8, <1>9, <1>10, <1>11, <1>12 DEF SeedInv, SessionsHold

LEMMA RequestKeeps ==
    ASSUME SeedInv, NEW c \in Clients, Request(c)
    PROVE  SeedInv'
<1>1. /\ Typed /\ SessionsHold /\ Known /\ Current /\ Requested /\ ContractFits
      /\ SeedIsAllOrNothing /\ OnlyOverlapsTear
  BY DEF SeedInv, Typed, SessionsHold
<1>2. UNCHANGED <<now, accounts, tokens, changes, inactiveSince, contract, row,
                  seed, disturbed, overlapped>>
  BY DEF Request, accessVars
<1>3. PICK op \in Operations :
         /\ row.status = Enables(op) /\ row.exists
         /\ request' = [request EXCEPT ![c] = [op |-> op, read |-> row]]
  BY DEF Request
<1>4. Typed'
  <2>1. request' \in [Clients -> [op : Operations \cup {"none"}, read : Rows]]
    BY <1>1, <1>3 DEF Typed
  <2> QED
    BY <1>1, <1>2, <2>1 DEF Typed, AccessTypeOK
<1>5. Requested'
  <2>1. ASSUME NEW d \in Clients, request'[d] # NoRequest
        PROVE  /\ request'[d].op \in Operations
               /\ request'[d].read.exists
               /\ request'[d].read.status = Enables(request'[d].op)
    <3>1. CASE d = c
      BY <1>1, <1>3, <3>1 DEF Typed
    <3>2. CASE d # c
      BY <1>1, <1>3, <2>1, <3>2 DEF Typed, Requested
    <3> QED
      BY <3>1, <3>2
  <2> QED
    BY <2>1 DEF Requested, Enables
<1>6. Sessions' /\ DeactivationEndsSessions' /\ Known' /\ Current'
  BY <1>1, <1>2 DEF SessionsHold, Sessions, DeactivationEndsSessions, Lifetime,
                    Known, Current
<1>7. ContractFits' /\ SeedIsAllOrNothing' /\ OnlyOverlapsTear'
  BY <1>1, <1>2 DEF ContractFits, SeedIsAllOrNothing, OnlyOverlapsTear, Agrees
<1> QED
  BY <1>4, <1>5, <1>6, <1>7 DEF SeedInv

\* The decisions a request commits, and the row, when it has read made, the
\* status and the decisions, and the row is over.
Decided(op, read) ==
    IF op \in {"run", "resume"} THEN read.decisions
    ELSE Append(read.decisions, op)

Responded(op, read, over) ==
    IF op = "request_changes"
    THEN [over EXCEPT !.decisions = Decided(op, read)]
    ELSE [over EXCEPT !.decisions = Decided(op, read), !.status = Result(op)]

LEMMA ResponsesAreRows ==
    ASSUME NEW op \in Operations, NEW read \in Rows, NEW over \in Rows
    PROVE  /\ Responded(op, read, over) \in Rows
           /\ Responded(op, read, over).exists = over.exists
           /\ Responded(op, read, over).decisions = Decided(op, read)
           /\ Responded(op, read, over).status =
                 IF op = "request_changes" THEN over.status ELSE Result(op)
<1>1. Decided(op, read) \in Seq(Operations)
  <2>1. read.decisions \in Seq(Operations)
    BY DEF Rows
  <2>2. Append(read.decisions, op) \in Seq(Operations)
    BY <2>1
  <2> QED
    BY <2>1, <2>2 DEF Decided
<1>2. op # "request_changes" => Result(op) \in Statuses
  BY DEF Operations, Result, Statuses
<1>3. CASE op = "request_changes"
  BY <1>1, <1>3 DEF Responded, Rows
<1>4. CASE op # "request_changes"
  BY <1>1, <1>2, <1>4 DEF Responded, Rows
<1> QED
  BY <1>3, <1>4

LastOf(decisions) ==
    IF decisions = <<>> THEN "none" ELSE decisions[Len(decisions)]

\* A decision goes on from decisions that fit the status, and so does a run.
LEMMA ResponsesAgree ==
    ASSUME NEW op \in Operations, NEW read \in Rows,
           read.status = Enables(op), Agrees(read)
    PROVE  Agrees(Responded(op, read, read))
<1> DEFINE new == Responded(op, read, read)
<1> SUFFICES Agrees(new)
  OBVIOUS
<1>1. /\ new.decisions = Decided(op, read)
      /\ new.status = IF op = "request_changes" THEN read.status
                      ELSE Result(op)
  BY ResponsesAreRows
<1>2. /\ read.status = "CREATED" => LastOf(read.decisions) = "none"
      /\ read.status = "APPROVED" => LastOf(read.decisions) = "approve"
  BY DEF Agrees, LastOf
<1>3. LastOf(Append(read.decisions, op)) = op
  <2>1. read.decisions \in Seq(Operations)
    BY DEF Rows
  <2> QED
    BY <2>1 DEF LastOf
<1> HIDE DEF new
<1>4. Agrees(new) <=>
         LET last == LastOf(new.decisions)
         IN  CASE new.status = "CREATED"          -> last = "none"
               [] new.status = "WAITING_APPROVAL" -> last \notin Final
               [] new.status = "REJECTED"         -> last = "reject"
               [] OTHER                           -> last = "approve"
  BY DEF Agrees, LastOf
<1>5. CASE op = "run"
  <2>1. new.status = "WAITING_APPROVAL" /\ LastOf(new.decisions) = "none"
    BY <1>1, <1>2, <1>5 DEF Enables, Result, Decided
  <2> QED
    BY <1>4, <2>1 DEF Final
<1>6. CASE op = "resume"
  <2>1. new.status = "COMPLETED" /\ LastOf(new.decisions) = "approve"
    BY <1>1, <1>2, <1>6 DEF Enables, Result, Decided
  <2> QED
    BY <1>4, <2>1
<1>7. CASE op = "approve"
  <2>1. new.status = "APPROVED" /\ LastOf(new.decisions) = "approve"
    BY <1>1, <1>3, <1>7 DEF Result, Decided
  <2> QED
    BY <1>4, <2>1
<1>8. CASE op = "reject"
  <2>1. new.status = "REJECTED" /\ LastOf(new.decisions) = "reject"
    BY <1>1, <1>3, <1>8 DEF Result, Decided
  <2> QED
    BY <1>4, <2>1
<1>9. CASE op = "request_changes"
  <2>1. /\ new.status = "WAITING_APPROVAL"
        /\ LastOf(new.decisions) = "request_changes"
    BY <1>1, <1>3, <1>9 DEF Enables, Decided
  <2> QED
    BY <1>4, <2>1 DEF Final
<1> QED
  BY <1>5, <1>6, <1>7, <1>8, <1>9 DEF Operations

LEMMA RespondKeeps ==
    ASSUME SeedInv, NEW c \in Clients, Respond(c)
    PROVE  SeedInv'
<1> DEFINE op   == request[c].op
<1> DEFINE read == request[c].read
<1>1. /\ Typed /\ SessionsHold /\ Known /\ Current /\ Requested /\ ContractFits
      /\ SeedIsAllOrNothing /\ OnlyOverlapsTear
  BY DEF SeedInv, Typed, SessionsHold
<1>2. /\ row' = Responded(op, read, row)
      /\ overlapped' = (overlapped \/ row # read)
      /\ request' = [request EXCEPT ![c] = NoRequest]
      /\ Disturb(Seeds)
      /\ UNCHANGED <<now, accounts, tokens, changes, inactiveSince, contract,
                     seed>>
  BY DEF Respond, accessVars, Responded, Decided
<1>3. /\ op \in Operations /\ read.exists /\ read.status = Enables(op)
      /\ read \in Rows /\ row \in Rows
  <2>1. request[c] # NoRequest
    BY DEF Respond
  <2> QED
    BY <1>1, <2>1 DEF Requested, Typed
<1> HIDE DEF op, read
<1>4. row' \in Rows /\ row'.exists = row.exists
  BY <1>2, <1>3, ResponsesAreRows
<1>5. Typed'
  <2>1. NoRequest \in [op : Operations \cup {"none"}, read : Rows]
    BY DEF NoRequest, NoRow, Rows, Statuses
  <2>2. request' \in [Clients -> [op : Operations \cup {"none"}, read : Rows]]
    BY <1>1, <1>2, <2>1 DEF Typed
  <2>3. disturbed' \in [Seeds -> BOOLEAN]
    BY <1>1, <1>2, DisturbedOnes
  <2>4. overlapped' \in BOOLEAN
    BY <1>1, <1>2 DEF Typed
  <2> QED
    BY <1>1, <1>2, <1>4, <2>2, <2>3, <2>4 DEF Typed, AccessTypeOK
<1>6. Requested'
  BY <1>1, <1>2 DEF Typed, Requested, Enables
<1>7. Current'
  BY <1>1, <1>2, DisturbedOnes DEF Current, Reading
<1>8. Sessions' /\ DeactivationEndsSessions' /\ Known' /\ ContractFits'
  BY <1>1, <1>2 DEF SessionsHold, Sessions, DeactivationEndsSessions, Lifetime,
                    Known, ContractFits, Agrees
<1>9. SeedIsAllOrNothing'
  BY <1>1, <1>2, <1>4 DEF SeedIsAllOrNothing
<1>10. OnlyOverlapsTear'
  <2>1. SUFFICES ASSUME ~overlapped' PROVE Agrees(row')
    BY DEF OnlyOverlapsTear, Agrees
  <2>2. row = read /\ ~overlapped
    BY <1>2, <2>1
  <2>3. Agrees(read)
    <3>1. CASE read = contract
      <4>1. read.status \in {"CREATED", "WAITING_APPROVAL", "APPROVED"}
        BY <1>3 DEF Operations, Enables
      <4> QED
        BY <1>1, <3>1, <4>1 DEF ContractFits
    <3>2. CASE read # contract
      BY <1>1, <1>3, <2>2, <3>2 DEF OnlyOverlapsTear
    <3> QED
      BY <3>1, <3>2
  <2> QED
    BY <1>2, <1>3, <2>2, <2>3, ResponsesAgree
<1> QED
  BY <1>5, <1>6, <1>7, <1>8, <1>9, <1>10 DEF SeedInv

-----------------------------------------------------------------------------
(***************************************************************************)
(* The seed command.                                                       *)
(***************************************************************************)

\* What a run keeps of what it reads.
LEMMA AccountsAreRead ==
    ASSUME NEW run \in Runs, NEW new
    PROVE  [run EXCEPT !.at = "accounts", !.accounts = new] =
              [at |-> "accounts", accounts |-> new, row |-> run.row]
<1> DEFINE half == [run EXCEPT !.at = "accounts"]
<1>1. half = [at |-> "accounts", accounts |-> run.accounts, row |-> run.row]
  BY DEF Runs
<1>2. /\ half \in Runs
      /\ half.at = "accounts" /\ half.accounts = run.accounts
      /\ half.row = run.row
  BY <1>1 DEF Runs, Reading
<1>3. [run EXCEPT !.at = "accounts", !.accounts = new] =
         [half EXCEPT !.accounts = new]
  BY DEF Runs
<1> HIDE DEF half
<1>4. [half EXCEPT !.accounts = new] =
         [at |-> half.at, accounts |-> new, row |-> half.row]
  BY <1>2 DEF Runs
<1> QED
  BY <1>2, <1>3, <1>4

LEMMA RowIsRead ==
    ASSUME NEW run \in Runs, NEW new
    PROVE  [run EXCEPT !.at = "row", !.row = new] =
              [at |-> "row", accounts |-> run.accounts, row |-> new]
<1> DEFINE half == [run EXCEPT !.at = "row"]
<1>1. half = [at |-> "row", accounts |-> run.accounts, row |-> run.row]
  BY DEF Runs
<1>2. /\ half \in Runs
      /\ half.at = "row" /\ half.accounts = run.accounts
      /\ half.row = run.row
  BY <1>1 DEF Runs, Reading
<1>3. [run EXCEPT !.at = "row", !.row = new] =
         [half EXCEPT !.row = new]
  BY DEF Runs
<1> HIDE DEF half
<1>4. [half EXCEPT !.row = new] =
         [at |-> half.at, accounts |-> half.accounts, row |-> new]
  BY <1>2 DEF Runs
<1> QED
  BY <1>2, <1>3, <1>4

LEMMA ReadAccountsKeeps ==
    ASSUME SeedInv, NEW s \in Seeds, ReadAccounts(s)
    PROVE  SeedInv'
<1>1. /\ Typed /\ SessionsHold /\ Known /\ Current /\ Requested /\ ContractFits
      /\ SeedIsAllOrNothing /\ OnlyOverlapsTear
  BY DEF SeedInv, Typed, SessionsHold
<1>2. /\ disturbed' = [disturbed EXCEPT ![s] = FALSE]
      /\ UNCHANGED <<now, accounts, tokens, changes, inactiveSince, contract,
                     row, request, overlapped>>
  BY DEF ReadAccounts, accessVars
<1> DEFINE run == [at |-> "accounts", accounts |-> accounts, row |-> NoRow]
<1>3. seed' = [seed EXCEPT ![s] = run]
  <2>1. [NewSeed EXCEPT !.at = "accounts", !.accounts = accounts] = run
    <3>1. NewSeed \in Runs
      BY DEF NewSeed, Runs, Reading, NoRow, Rows, Statuses
    <3> QED
      BY <3>1, AccountsAreRead DEF NewSeed
  <2>2. seed' = [seed EXCEPT ![s] =
           [NewSeed EXCEPT !.at = "accounts", !.accounts = accounts]]
    BY DEF ReadAccounts
  <2> HIDE DEF run
  <2> QED
    BY <2>1, <2>2
<1>4. accounts \in [Accounts -> AccountRows]
  BY <1>1 DEF Typed, AccessTypeOK, AccountRows
<1>5. run \in Runs
  BY <1>4 DEF Runs, Reading, NoRow, Rows, Statuses
<1>6. run.at = "accounts" /\ run.accounts = accounts
  OBVIOUS
<1> HIDE DEF run
<1>7. /\ seed'[s] = run /\ ~disturbed'[s]
      /\ \A t \in Seeds \ {s} : seed'[t] = seed[t]
      /\ \A t \in Seeds \ {s} : disturbed'[t] = disturbed[t]
  BY <1>1, <1>2, <1>3 DEF Typed
<1>8. Typed'
  <2>1. seed' \in [Seeds -> Runs] /\ disturbed' \in [Seeds -> BOOLEAN]
    BY <1>1, <1>2, <1>3, <1>5 DEF Typed
  <2>2. \A t \in Seeds : seed'[t].at \in Reading =>
           seed'[t].accounts \in [Accounts -> AccountRows]
    BY <1>1, <1>4, <1>6, <1>7 DEF Typed
  <2> QED
    BY <1>1, <1>2, <2>1, <2>2 DEF Typed, AccessTypeOK
<1>9. Known'
  BY <1>1, <1>2, <1>6, <1>7 DEF Known
<1>10. Current'
  BY <1>1, <1>2, <1>6, <1>7 DEF Current
<1>11. /\ Sessions' /\ DeactivationEndsSessions' /\ Requested' /\ ContractFits'
       /\ SeedIsAllOrNothing' /\ OnlyOverlapsTear'
  BY <1>1, <1>2 DEF SessionsHold, Sessions, DeactivationEndsSessions, Lifetime,
                    Requested, Enables, ContractFits, SeedIsAllOrNothing,
                    OnlyOverlapsTear, Agrees
<1> QED
  BY <1>8, <1>9, <1>10, <1>11 DEF SeedInv

LEMMA ReadRowKeeps ==
    ASSUME SeedInv, NEW s \in Seeds, ReadRow(s)
    PROVE  SeedInv'
<1>1. /\ Typed /\ SessionsHold /\ Known /\ Current /\ Requested /\ ContractFits
      /\ SeedIsAllOrNothing /\ OnlyOverlapsTear
  BY DEF SeedInv, Typed, SessionsHold
<1>2. /\ seed[s].at = "accounts"
      /\ seed' = [seed EXCEPT ![s].at = "row", ![s].row = row]
      /\ UNCHANGED <<now, accounts, tokens, changes, inactiveSince, contract,
                     row, request, disturbed, overlapped>>
  BY DEF ReadRow, At, FlushAccounts
<1> DEFINE run == [at |-> "row", accounts |-> seed[s].accounts, row |-> row]
<1>3. seed[s] \in Runs /\ seed[s].accounts \in [Accounts -> AccountRows]
  BY <1>1, <1>2 DEF Typed, Reading
<1>4. run \in Runs
  BY <1>1, <1>3 DEF Typed, Runs, Reading
<1>5. seed' = [seed EXCEPT ![s] = run]
  <2>1. seed \in [Seeds -> Runs]
    BY <1>1 DEF Typed
  <2>2. seed' = [seed EXCEPT ![s] = [seed[s] EXCEPT !.at = "row", !.row = row]]
    BY <1>2, <2>1
  <2>3. [seed[s] EXCEPT !.at = "row", !.row = row] = run
    BY <1>3, RowIsRead
  <2> HIDE DEF run
  <2> QED
    BY <2>2, <2>3
<1>6. run.at = "row" /\ run.accounts = seed[s].accounts /\ run.row = row
  OBVIOUS
<1> HIDE DEF run
<1>7. seed'[s] = run /\ \A t \in Seeds \ {s} : seed'[t] = seed[t]
  BY <1>1, <1>5 DEF Typed
<1>8. Typed'
  <2>1. seed' \in [Seeds -> Runs]
    BY <1>1, <1>4, <1>5 DEF Typed
  <2>2. \A t \in Seeds : seed'[t].at \in Reading =>
           seed'[t].accounts \in [Accounts -> AccountRows]
    BY <1>1, <1>3, <1>6, <1>7 DEF Typed
  <2> QED
    BY <1>1, <1>2, <2>1, <2>2 DEF Typed, AccessTypeOK
<1>9. Known'
  <2>1. ASSUME NEW t \in Seeds, seed'[t].at \in Reading, NEW u \in Accounts,
               seed'[t].accounts[u].exists
        PROVE  accounts[u].exists
    <3>1. CASE t = s
      <4>1. seed[s].accounts[u].exists
        BY <1>6, <1>7, <2>1, <3>1
      <4> QED
        BY <1>1, <1>2, <4>1 DEF Known, Reading
    <3>2. CASE t # s
      <4>1. seed'[t] = seed[t]
        BY <1>7, <3>2
      <4> QED
        BY <1>1, <2>1, <4>1 DEF Known
    <3> QED
      BY <3>1, <3>2
  <2> QED
    BY <1>2, <2>1 DEF Known
<1>10. Current'
  BY <1>1, <1>2, <1>6, <1>7 DEF Current, Reading
<1>11. /\ Sessions' /\ DeactivationEndsSessions' /\ Requested' /\ ContractFits'
       /\ SeedIsAllOrNothing' /\ OnlyOverlapsTear'
  BY <1>1, <1>2 DEF SessionsHold, Sessions, DeactivationEndsSessions, Lifetime,
                    Requested, Enables, ContractFits, SeedIsAllOrNothing,
                    OnlyOverlapsTear, Agrees
<1> QED
  BY <1>8, <1>9, <1>10, <1>11 DEF SeedInv

LEMMA RollbackKeeps ==
    ASSUME SeedInv, NEW s \in Seeds, Rollback(s)
    PROVE  SeedInv'
<1>1. /\ Typed /\ SessionsHold /\ Known /\ Current /\ Requested /\ ContractFits
      /\ SeedIsAllOrNothing /\ OnlyOverlapsTear
  BY DEF SeedInv, Typed, SessionsHold
<1>2. /\ seed' = [seed EXCEPT ![s] = NewSeed]
      /\ UNCHANGED <<now, accounts, tokens, changes, inactiveSince, contract,
                     row, request, disturbed, overlapped>>
  BY DEF Rollback, accessVars
<1>3. NewSeed \in Runs /\ NewSeed.at = "idle" /\ NewSeed.at \notin Reading
  BY DEF NewSeed, Runs, Reading, NoRow, Rows, Statuses
<1>4. seed'[s] = NewSeed /\ \A t \in Seeds \ {s} : seed'[t] = seed[t]
  BY <1>1, <1>2 DEF Typed
<1>5. Typed'
  <2>1. seed' \in [Seeds -> Runs]
    BY <1>1, <1>2, <1>3 DEF Typed
  <2>2. \A t \in Seeds : seed'[t].at \in Reading =>
           seed'[t].accounts \in [Accounts -> AccountRows]
    BY <1>1, <1>3, <1>4 DEF Typed
  <2> QED
    BY <1>1, <1>2, <2>1, <2>2 DEF Typed, AccessTypeOK
<1>6. Known'
  BY <1>1, <1>2, <1>3, <1>4 DEF Known
<1>7. Current'
  BY <1>1, <1>2, <1>3, <1>4 DEF Current
<1>8. /\ Sessions' /\ DeactivationEndsSessions' /\ Requested' /\ ContractFits'
      /\ SeedIsAllOrNothing' /\ OnlyOverlapsTear'
  BY <1>1, <1>2 DEF SessionsHold, Sessions, DeactivationEndsSessions, Lifetime,
                    Requested, Enables, ContractFits, SeedIsAllOrNothing,
                    OnlyOverlapsTear, Agrees
<1> QED
  BY <1>5, <1>6, <1>7, <1>8 DEF SeedInv

\* What a commit makes of an account, whatever was done to it since the read.
LEMMA SeededAccountsAreUsable ==
    ASSUME NEW read \in AccountRows, NEW current \in AccountRows,
           read.exists => current.exists, NEW role \in Roles
    PROVE  /\ SeededAccount(read, current, role) \in Persons
           /\ read = current =>
                 /\ SeededAccount(read, current, role).active
                 /\ SeededAccount(read, current, role).password = "demo"
                 /\ role \in SeededAccount(read, current, role).roles
<1> DEFINE seeded == SeededAccount(read, current, role)
<1>1. /\ read.exists \in BOOLEAN /\ read.active \in BOOLEAN
      /\ current.active \in BOOLEAN /\ current.roles \subseteq Roles
  <2>1. \A person \in Persons : /\ person.exists \in BOOLEAN
                                /\ person.active \in BOOLEAN
                                /\ person.roles \subseteq Roles
    BY DEF Persons
  <2>2. /\ NoAccount.exists \in BOOLEAN /\ NoAccount.active \in BOOLEAN
        /\ NoAccount.roles \subseteq Roles
    BY DEF NoAccount
  <2> QED
    BY <2>1, <2>2 DEF AccountRows
<1>2. read.password = "demo" => current.password \in Passwords
  <2>1. ASSUME read.password = "demo" PROVE read # NoAccount
    BY <2>1 DEF NoAccount
  <2>2. read # NoAccount => read.exists
    BY DEF AccountRows, Persons
  <2>3. current.exists => current \in Persons
    BY DEF AccountRows, NoAccount
  <2> QED
    BY <2>1, <2>2, <2>3 DEF Persons
<1>3. /\ seeded.active = (IF read.active THEN current.active ELSE TRUE)
      /\ seeded.password = IF read.password = "demo" THEN current.password
                           ELSE "demo"
      /\ seeded.roles = IF role \in read.roles THEN current.roles
                        ELSE current.roles \cup {role}
  BY DEF SeededAccount
<1>4. seeded = [exists |-> TRUE, active |-> seeded.active,
                password |-> seeded.password, roles |-> seeded.roles]
  BY DEF SeededAccount
<1>5. seeded.active \in BOOLEAN
  BY <1>1, <1>3
<1>6. seeded.password \in Passwords
  BY <1>2, <1>3 DEF Passwords
<1>7. seeded.roles \in SUBSET Roles
  BY <1>1, <1>3
<1>8. read = current => /\ seeded.active /\ seeded.password = "demo"
                        /\ role \in seeded.roles
  BY <1>1, <1>3
<1> HIDE DEF seeded
<1>9. seeded \in Persons
  <2>1. \A a \in BOOLEAN, p \in Passwords, r \in SUBSET Roles :
           [exists |-> TRUE, active |-> a, password |-> p, roles |-> r]
              \in Persons
    BY DEF Persons
  <2> HIDE DEF Passwords
  <2>2. [exists |-> TRUE, active |-> seeded.active,
         password |-> seeded.password, roles |-> seeded.roles] \in Persons
    BY <1>5, <1>6, <1>7, <2>1
  <2> QED
    BY <1>4, <2>2, Zenon
<1> QED
  BY <1>8, <1>9 DEF seeded

LEMMA SeededRowsAreRows ==
    ASSUME Typed, ContractFits, NEW read \in Rows
    PROVE  /\ SeededRow(read) \in Rows /\ SeededRow(read).exists
           /\ read = row => SeededRow(read) = contract
<1>1. contract \in Rows /\ row \in Rows /\ contract.exists
  BY DEF Typed, ContractFits
<1>2. contract = [exists |-> TRUE, status |-> contract.status,
                  decisions |-> contract.decisions]
  BY <1>1 DEF Rows
<1>3. /\ SeededRow(read).exists
      /\ SeededRow(read) \in Rows
  BY <1>1 DEF SeededRow, Rows
<1>4. ASSUME read = row
      PROVE  /\ SeededRow(read).status = contract.status
             /\ SeededRow(read).decisions = contract.decisions
  BY <1>4 DEF SeededRow
<1>5. SeededRow(read) = [exists |-> TRUE, status |-> SeededRow(read).status,
                         decisions |-> SeededRow(read).decisions]
  BY DEF SeededRow
<1> QED
  BY <1>2, <1>3, <1>4, <1>5

LEMMA CommitKeeps ==
    ASSUME SeedInv, NEW s \in Seeds, Commit(s)
    PROVE  /\ SeedInv'
           /\ ~disturbed[s] =>
                 /\ row' = contract
                 /\ \A u \in Accounts :
                       /\ accounts'[u].active
                       /\ accounts'[u].password = "demo"
                       /\ ExpectedRole[u] \in accounts'[u].roles
<1>1. /\ Typed /\ SessionsHold /\ Known /\ Current /\ Requested /\ ContractFits
      /\ SeedIsAllOrNothing /\ OnlyOverlapsTear
  BY DEF SeedInv, Typed, SessionsHold
<1> DEFINE read == seed[s].row
<1> DEFINE run  == [NewSeed EXCEPT !.at = "committed"]
<1>2. /\ seed[s].at = "row" /\ seed[s].at \in Reading
      /\ Account(SeededAccounts(s))
      /\ row' = SeededRow(read)
      /\ seed' = [seed EXCEPT ![s] = run]
      /\ overlapped' = (row # read)
      /\ Disturb(Seeds \ {s})
      /\ UNCHANGED <<now, tokens, changes, contract, request>>
  BY DEF Commit, At, Reading
<1>3. /\ accounts \in [Accounts -> AccountRows]
      /\ seed[s].accounts \in [Accounts -> AccountRows]
      /\ read \in Rows /\ changes \in Nat
  BY <1>1, <1>2 DEF Typed, AccessTypeOK, AccountRows, Runs
<1>4. ASSUME NEW u \in Accounts
      PROVE  LET new == SeededAccount(seed[s].accounts[u], accounts[u],
                                      ExpectedRole[u])
             IN  /\ new \in Persons
                 /\ ~disturbed[s] => /\ new.active /\ new.password = "demo"
                                     /\ ExpectedRole[u] \in new.roles
  <2>1. ExpectedRole[u] \in Roles
    BY ContractAssumption
  <2>2. seed[s].accounts[u].exists => accounts[u].exists
    BY <1>1, <1>2 DEF Known
  <2>3. ~disturbed[s] => seed[s].accounts[u] = accounts[u]
    BY <1>1, <1>2 DEF Current
  <2>4. seed[s].accounts[u] \in AccountRows /\ accounts[u] \in AccountRows
    BY <1>3
  <2> QED
    BY <2>1, <2>2, <2>3, <2>4, SeededAccountsAreUsable
<1>5. /\ accounts' = SeededAccounts(s)
      /\ SeededAccounts(s) \in [Accounts -> AccountRows]
      /\ \A u \in Accounts :
            accounts'[u] = SeededAccount(seed[s].accounts[u], accounts[u],
                                         ExpectedRole[u])
  BY <1>2, <1>4 DEF SeededAccounts, Account, AccountRows
<1>6. \A u \in Accounts : accounts'[u].exists
  BY <1>4, <1>5 DEF Persons
<1>7. SessionsHold'
  BY <1>1, <1>2, <1>3, <1>5, AccountKeeps
<1>8. /\ row' \in Rows /\ row'.exists
      /\ row = read => row' = contract
  <2> HIDE DEF read
  <2> QED
    BY <1>1, <1>2, <1>3, SeededRowsAreRows
<1>9. run \in Runs /\ run.at \notin Reading /\ run.at # "row"
  <2>1. run = [at |-> "committed", accounts |-> <<>>, row |-> NoRow]
    BY DEF NewSeed
  <2>2. NoRow \in Rows
    BY DEF NoRow, Rows, Statuses
  <2> HIDE DEF run
  <2> QED
    BY <2>1, <2>2 DEF Runs, Reading
<1> HIDE DEF run, read
<1>10. seed'[s] = run /\ \A t \in Seeds \ {s} : seed'[t] = seed[t]
  BY <1>1, <1>2 DEF Typed
<1>11. /\ disturbed' \in [Seeds -> BOOLEAN]
       /\ \A t \in Seeds \ {s} : ~disturbed'[t] => seed[t].at \notin Reading
  <2>1. Seeds \ {s} \in SUBSET Seeds
    OBVIOUS
  <2> QED
    BY <1>1, <1>2, <2>1, DisturbedOnes
<1>12. Typed'
  <2>1. seed' \in [Seeds -> Runs]
    BY <1>1, <1>2, <1>9 DEF Typed
  <2>2. \A t \in Seeds : seed'[t].at \in Reading =>
           seed'[t].accounts \in [Accounts -> AccountRows]
    BY <1>1, <1>9, <1>10 DEF Typed
  <2>3. overlapped' \in BOOLEAN
    BY <1>2
  <2> QED
    BY <1>1, <1>2, <1>7, <1>8, <1>11, <2>1, <2>2, <2>3 DEF Typed, SessionsHold
<1>13. Known'
  BY <1>6 DEF Known
<1>14. Current'
  BY <1>9, <1>10, <1>11 DEF Current, Reading
<1>15. Requested' /\ ContractFits'
  BY <1>1, <1>2 DEF Requested, Enables, ContractFits, Agrees
<1>16. SeedIsAllOrNothing'
  BY <1>6, <1>8 DEF SeedIsAllOrNothing
<1>17. OnlyOverlapsTear'
  BY <1>2, <1>8 DEF OnlyOverlapsTear
<1>18. SeedInv'
  BY <1>7, <1>12, <1>13, <1>14, <1>15, <1>16, <1>17 DEF SeedInv, SessionsHold
<1>19. ~disturbed[s] => row' = contract
  <2>1. ~disturbed[s] => row = read
    BY <1>1, <1>2 DEF Current, read
  <2> QED
    BY <1>8, <2>1
<1> QED
  BY <1>4, <1>5, <1>18, <1>19

LEMMA SeedInvInit ==
    Init => SeedInv
<1> SUFFICES ASSUME Init PROVE SeedInv
  OBVIOUS
<1>1. /\ now = 0 /\ changes = 0
      /\ accounts = [u \in Accounts |-> NoAccount]
      /\ tokens = [c \in Clients |-> {}]
      /\ inactiveSince = [u \in Accounts |-> Never]
      /\ row = NoRow /\ request = [c \in Clients |-> NoRequest]
      /\ seed = [s \in Seeds |-> NewSeed]
      /\ disturbed = [s \in Seeds |-> FALSE] /\ overlapped = FALSE
  BY DEF Init, Start, NoTokens
<1>2. PICK key \in Keys : contract = ContractRow(key)
  BY DEF Init
<1>3. NoRow \in Rows /\ ~NoRow.exists
  BY DEF NoRow, Rows, Statuses
<1>4. /\ NewSeed \in Runs /\ NewSeed.at \notin Reading
      /\ NewSeed.at # "row"
  BY <1>3 DEF NewSeed, Runs, Reading
<1>5. key \in {"clean_created", "waiting_approval_history",
               "approved_ready_to_resume", "completed_resumed",
               "rejected_history", "completed_conflict"}
  BY ContractAssumption DEF InitialStatus
<1>6. ApprovalRecords(key) \in Seq(Operations)
  <2>1. /\ <<>> \in Seq(Operations) /\ <<"approve">> \in Seq(Operations)
        /\ <<"request_changes", "approve">> \in Seq(Operations)
        /\ <<"reject">> \in Seq(Operations)
    BY DEF Operations
  <2> QED
    BY <1>5, <2>1 DEF ApprovalRecords
<1>7. InitialStatus[key] \in Statuses
  BY <1>5 DEF InitialStatus, Statuses
<1>8. contract \in Rows /\ contract.exists
  BY <1>2, <1>6, <1>7 DEF ContractRow, Rows
<1>9. ContractFits
  <2>1. /\ contract.status = InitialStatus[key]
        /\ contract.decisions = ApprovalRecords(key)
    BY <1>2 DEF ContractRow
  <2>2. CASE key = "clean_created"
    BY <1>8, <2>1, <2>2
       DEF ContractFits, Agrees, InitialStatus, ApprovalRecords
  <2>3. CASE key = "waiting_approval_history"
    BY <1>8, <2>1, <2>3
       DEF ContractFits, Agrees, InitialStatus, ApprovalRecords, Final
  <2>4. CASE key = "approved_ready_to_resume"
    BY <1>8, <2>1, <2>4
       DEF ContractFits, Agrees, InitialStatus, ApprovalRecords
  <2>5. CASE key \in {"completed_resumed", "rejected_history",
                      "completed_conflict"}
    BY <1>8, <2>1, <2>5 DEF ContractFits, InitialStatus
  <2> QED
    BY <1>5, <2>2, <2>3, <2>4, <2>5
<1>10. AccessTypeOK
  BY <1>1, LifetimesAssumption DEF AccessTypeOK, Never
<1>11. Typed
  BY <1>1, <1>3, <1>4, <1>8, <1>10 DEF Typed, NoRequest
<1>12. Sessions /\ DeactivationEndsSessions
  BY <1>1 DEF Sessions, DeactivationEndsSessions
<1>13. Known /\ Current /\ Requested
  BY <1>1, <1>4 DEF Known, Current, Requested
<1>14. SeedIsAllOrNothing /\ OnlyOverlapsTear
  BY <1>1, <1>3 DEF SeedIsAllOrNothing, OnlyOverlapsTear, NoAccount
<1> QED
  BY <1>9, <1>11, <1>12, <1>13, <1>14 DEF SeedInv

LEMMA SeedInvNext ==
    ASSUME SeedInv, [Next]_vars
    PROVE  SeedInv'
<1>1. SessionsHold
  BY DEF SeedInv, Typed, SessionsHold
<1>2. ASSUME NEW c \in Clients, Login(c) \/ Refresh(c) \/ Logout(c),
             UNCHANGED seedVars
      PROVE  SeedInv'
  BY <1>1, <1>2, BrowsersKeep, BrowserStepKeeps DEF seedVars
<1>3. CASE Tick /\ UNCHANGED seedVars
  BY <1>1, <1>3, BrowsersKeep, BrowserStepKeeps DEF seedVars
<1>4. CASE UNCHANGED vars
  <2>1. /\ UNCHANGED <<now, accounts, tokens, changes, inactiveSince>>
        /\ UNCHANGED seedVars
    BY <1>4 DEF vars, accessVars
  <2>2. SessionsHold'
    BY <1>1, <2>1 DEF SessionsHold, AccessTypeOK, Sessions,
                      DeactivationEndsSessions, Lifetime
  <2> QED
    BY <2>1, <2>2, BrowserStepKeeps DEF seedVars
<1> QED
  BY <1>2, <1>3, <1>4, AdministerKeeps, RequestKeeps, RespondKeeps,
     ReadAccountsKeeps, ReadRowKeeps, CommitKeeps, RollbackKeeps DEF Next

\* Only its own commit ends a run in one.
LEMMA CommitsRestore ==
    ASSUME SeedInv, [Next]_vars, NEW s \in Seeds, seed[s].at # "committed",
           seed'[s].at = "committed", ~disturbed[s]
    PROVE  /\ row' = contract
           /\ \A u \in Accounts :
                 /\ accounts'[u].active /\ accounts'[u].password = "demo"
                 /\ ExpectedRole[u] \in accounts'[u].roles
<1>1. seed \in [Seeds -> Runs] /\ seed' # seed
  BY DEF SeedInv, Typed
<1>2. PICK t \in Seeds :
         ReadAccounts(t) \/ ReadRow(t) \/ Commit(t) \/ Rollback(t)
  BY <1>1 DEF Next, vars, seedVars, AdministerBesideSeeds, Request, Respond
<1>3. s = t
  <2>1. ASSUME s # t PROVE seed'[s] = seed[s]
    BY <1>1, <1>2, <2>1 DEF ReadAccounts, ReadRow, Commit, Rollback
  <2> QED
    BY <2>1
<1>4. ~ReadAccounts(s)
  <2>1. ASSUME ReadAccounts(s) PROVE seed'[s].at = "accounts"
    <3>1. seed'[s] = [NewSeed EXCEPT !.at = "accounts", !.accounts = accounts]
      BY <1>1, <2>1 DEF ReadAccounts
    <3> QED
      BY <3>1 DEF NewSeed
  <2> QED
    BY <2>1
<1>5. ~ReadRow(s)
  <2>1. ASSUME ReadRow(s) PROVE seed'[s].at = "row"
    <3>1. seed'[s] = [seed[s] EXCEPT !.at = "row", !.row = row]
      BY <1>1, <2>1 DEF ReadRow
    <3>2. [seed[s] EXCEPT !.at = "row", !.row = row] =
             [at |-> "row", accounts |-> seed[s].accounts, row |-> row]
      <4>1. seed[s] \in Runs
        BY <1>1
      <4> QED
        BY <4>1, RowIsRead
    <3> QED
      BY <3>1, <3>2
  <2> QED
    BY <2>1
<1>6. ~Rollback(s)
  <2>1. ASSUME Rollback(s) PROVE seed'[s].at = "idle"
    BY <1>1, <2>1 DEF Rollback, NewSeed
  <2> QED
    BY <2>1
<1>7. Commit(s)
  BY <1>2, <1>3, <1>4, <1>5, <1>6
<1> QED
  BY <1>7, CommitKeeps

-----------------------------------------------------------------------------
(***************************************************************************)
(* The theorems.                                                           *)
(***************************************************************************)

\* The invariant holds at every moment, whoever works beside the command.
THEOREM SeedsAreConsistent ==
    Spec => []SeedInv
<1>1. Init => SeedInv
  BY SeedInvInit
<1>2. SeedInv /\ [Next]_vars => SeedInv'
  BY SeedInvNext
<1> QED
  BY <1>1, <1>2, PTL DEF Spec

\* run_demo_seed is one transaction: there are all of the demo's accounts and
\* its workflow, or none, also when several runs meet on an empty database.
THEOREM SeedsAreAllOrNothing ==
    Spec => []SeedIsAllOrNothing
<1>1. SeedInv => SeedIsAllOrNothing
  BY DEF SeedInv
<1> QED
  BY <1>1, SeedsAreConsistent, PTL

\* The columns of a row tell the same story unless a seed and a request have
\* overlapped: what a seed restores (_refresh_demo_workflow) is a row from
\* which every request goes on as from a workflow's own.
THEOREM OnlyOverlapsDoTear ==
    Spec => []OnlyOverlapsTear
<1>1. SeedInv => OnlyOverlapsTear
  BY DEF SeedInv
<1> QED
  BY <1>1, SeedsAreConsistent, PTL

\* get_active_user and refresh: an account that is inactive leaves no token
\* that is good for longer than its lifetime from then on, although nothing
\* revokes one, and although a seed activates the account again.
THEOREM DeactivationsEndSessions ==
    Spec => []DeactivationEndsSessions
<1>1. SeedInv => DeactivationEndsSessions
  BY DEF SeedInv
<1> QED
  BY <1>1, SeedsAreConsistent, PTL

\* run_demo_seed: a run that nobody disturbed leaves the contract's row and
\* every account usable as the contract says, however it found them.
THEOREM SeedsDoRestore ==
    Spec => SeedRestores
<1>1. SeedInv /\ [Next]_vars =>
         [\A s \in Seeds :
            seed[s].at # "committed" /\ seed'[s].at = "committed"
            /\ ~disturbed[s]
            => /\ row' = contract
               /\ \A u \in Accounts :
                     /\ accounts'[u].active /\ accounts'[u].password = "demo"
                     /\ ExpectedRole[u] \in accounts'[u].roles]_vars
  BY CommitsRestore
<1> QED
  BY <1>1, SeedsAreConsistent, PTL DEF Spec, SeedRestores
=============================================================================

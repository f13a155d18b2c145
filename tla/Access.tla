-------------------------------- MODULE Access --------------------------------
(***************************************************************************)
(* Accounts and their tokens: app/services/auth_service.py over            *)
(* app/auth/tokens.py, the role check of app/auth/rbac.py, and the browser *)
(* that keeps the tokens (frontend/lib/auth/session.ts).  Tokens are       *)
(* signed and stored nowhere on the server: each is good until it expires, *)
(* for as long as its account is active when it is used.                   *)
(***************************************************************************)
EXTENDS Naturals

CONSTANTS
    Accounts,         \* the accounts, by e-mail address
    Roles,            \* RoleName
    Clients,          \* the browsers
    AccessLifetime,   \* access_token_expire_minutes, in ticks of the clock
    RefreshLifetime,  \* refresh_token_expire_days
    MaxTime,          \* bound: how far the clock goes
    MaxChanges        \* bound: how often an administrator changes an account

ASSUME LifetimesAssumption ==
    AccessLifetime \in Nat /\ RefreshLifetime \in Nat /\ MaxTime \in Nat

VARIABLES
    now,              \* utc_now
    accounts,         \* the committed account of each address
    tokens,           \* the tokens each browser keeps
    changes,          \* how often an account was changed by hand
    inactiveSince     \* history: since when each account has been inactive

accessVars == <<now, accounts, tokens, changes, inactiveSince>>

-----------------------------------------------------------------------------
NoAccount == [exists |-> FALSE, active |-> FALSE, password |-> "none",
              roles |-> {}]
Passwords == {"demo", "own"}
Persons   == [exists : {TRUE}, active : BOOLEAN, password : Passwords,
              roles : SUBSET Roles]
Never     == MaxTime + 1
NoTokens  == {}
Types     == {"access", "refresh"}
Tokens    == [account : Accounts, type : Types,
              exp : 0..(MaxTime + AccessLifetime + RefreshLifetime)]

Start ==
    /\ now           = 0
    /\ accounts      = [u \in Accounts |-> NoAccount]
    /\ tokens        = [c \in Clients |-> NoTokens]
    /\ changes       = 0
    /\ inactiveSince = [u \in Accounts |-> Never]

AccessTypeOK ==
    /\ now \in 0..MaxTime
    /\ accounts \in [Accounts -> Persons \cup {NoAccount}]
    /\ tokens \in [Clients -> SUBSET Tokens]
    /\ changes \in Nat
    /\ inactiveSince \in [Accounts -> 0..Never]

-----------------------------------------------------------------------------
Lifetime(type) == IF type = "access" THEN AccessLifetime ELSE RefreshLifetime

\* create_token_response: the browser replaces what it keeps.
Issue(c, u) ==
    tokens' = [tokens EXCEPT ![c] =
        {[account |-> u, type |-> type, exp |-> now + Lifetime(type)] :
            type \in Types}]

\* verify_token.
Valid(token, type) == token.type = type /\ now < token.exp

\* Mutant of IsActive: get_active_user does not ask whether the account is.
IsThere(u) == accounts[u].exists

\* get_active_user.
IsActive(u) == accounts[u].exists /\ accounts[u].active

\* By someone who knows the password.
Login(c) ==
    \E u \in Accounts :
       /\ accounts[u].exists /\ accounts[u].active
       /\ Issue(c, u)
       /\ UNCHANGED <<now, accounts, changes, inactiveSince>>

Refresh(c) ==
    \E token \in tokens[c] :
       /\ Valid(token, "refresh") /\ IsActive(token.account)
       /\ Issue(c, token.account)
       /\ UNCHANGED <<now, accounts, changes, inactiveSince>>

\* The endpoint does nothing; the browser forgets its tokens.
Logout(c) ==
    /\ tokens[c] # NoTokens
    /\ tokens' = [tokens EXCEPT ![c] = NoTokens]
    /\ UNCHANGED <<now, accounts, changes, inactiveSince>>

\* get_current_user: whom the access token of a request speaks for.
CurrentUsers(c) ==
    {u \in Accounts : IsActive(u) /\ \E token \in tokens[c] :
                         token.account = u /\ Valid(token, "access")}

\* require_any_role, at the start of a request.
Authorized(c, allowed) ==
    \E u \in CurrentUsers(c) : accounts[u].roles \cap allowed # {}

Tick ==
    /\ now < MaxTime
    /\ now' = now + 1
    /\ UNCHANGED <<accounts, tokens, changes, inactiveSince>>

\* What becomes of the history when the accounts do.
Account(new) ==
    /\ accounts' = new
    /\ inactiveSince' = [u \in Accounts |->
           IF new[u].active \/ ~new[u].exists THEN Never
           ELSE IF accounts[u].active THEN now ELSE inactiveSince[u]]

\* The program has no operation for it: an administrator changes an account in
\* the database.
Administer ==
    /\ changes < MaxChanges
    /\ changes' = changes + 1
    /\ \E u \in Accounts :
          /\ accounts[u].exists
          /\ \E person \in Persons :
                Account([accounts EXCEPT ![u] = person])
    /\ UNCHANGED <<now, tokens>>

-----------------------------------------------------------------------------
\* An account that is deactivated gets no new tokens, by a refresh or any other
\* way: those it has left all expire within a refresh token's life, so that one
\* that was inactive for as long is not revived with them.
DeactivationEndsSessions ==
    \A c \in Clients : \A token \in tokens[c] :
        LET u == token.account IN
        ~accounts[u].active =>
            token.exp <= inactiveSince[u] + Lifetime(token.type)
==============================================================================

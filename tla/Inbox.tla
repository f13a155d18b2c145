-------------------------------- MODULE Inbox --------------------------------
(***************************************************************************)
(* What a reader of a chat promises, whatever it does with the messages: a *)
(* session of it tries the messages in order, from the first one that no   *)
(* session has acknowledged, and acknowledges none it has not come to.  A  *)
(* session may end anywhere; the next one tries again what its             *)
(* predecessors have not acknowledged.                                     *)
(***************************************************************************)
EXTENDS Naturals

CONSTANT MaxUpdates   \* bound: how many messages are ever sent

VARIABLES sent,       \* the messages 1..sent are in the chat
          acked,      \* the messages 1..acked are not delivered again
          session,    \* how many sessions have begun
          at,         \* the message the session has come to
          attempts    \* how often each message has been tried

vars == <<sent, acked, session, at, attempts>>

Updates == 1..MaxUpdates

Init ==
    /\ sent = 0 /\ acked = 0 /\ session = 1 /\ at = 0
    /\ attempts = [m \in Updates |-> 0]

Send ==
    /\ sent < MaxUpdates
    /\ sent' = sent + 1
    /\ UNCHANGED <<acked, session, at, attempts>>

Restart ==
    /\ session' = session + 1
    /\ at' = acked
    /\ UNCHANGED <<sent, acked, attempts>>

Try ==
    /\ at < sent
    /\ at' = at + 1
    /\ attempts' = [attempts EXCEPT ![at + 1] = @ + 1]
    /\ UNCHANGED <<sent, acked, session>>

Ack ==
    /\ acked < at
    /\ acked' = at
    /\ UNCHANGED <<sent, session, at, attempts>>

Next == Send \/ Restart \/ Try \/ Ack

Spec == Init /\ [][Next]_vars

-----------------------------------------------------------------------------
\* Nothing is lost: what is not delivered again has been tried.
NothingIsLost == \A m \in Updates : m <= acked => attempts[m] > 0

\* A message is tried once in a session at most, so that what is done twice
\* is never done twice by the same session.
OncePerSession == \A m \in Updates : attempts[m] <= session
==============================================================================

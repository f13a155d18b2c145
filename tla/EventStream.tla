----------------------------- MODULE EventStream -----------------------------
(***************************************************************************)
(* The events of one workflow on their way to the timelines of browsers.   *)
(*                                                                         *)
(* A request appends events in its own transaction (WorkflowEventService,  *)
(* app/workflows/events.py); each is published to the Redis channel of the *)
(* workflow as soon as it is flushed, and is in the database for others    *)
(* only after the request has committed.  A WebSocket handler              *)
(* (stream_workflow_events, app/api/v1/workflows.py) reads a backlog from  *)
(* the database, sends it, then subscribes to the channel and relays what  *)
(* it hears.  A page (frontend/hooks/use-workflow-event-stream.ts) keeps   *)
(* what its successive sockets brought and merges it with the events it    *)
(* has fetched by HTTP.                                                    *)
(*                                                                         *)
(* Events are numbered in the order of their created_at, which is set when *)
(* they are flushed; equal times are not modelled.                         *)
(***************************************************************************)
EXTENDS Naturals, Sequences, FiniteSets, Functions

CONSTANTS
    Requests,       \* the API requests that append events
    Pages,          \* the pages that show the workflow
    MaxEvents,      \* how many events are appended (bounds the model)
    MaxAttempts,    \* how often a page connects (bounds the model)
    BacklogLimit,   \* WORKFLOW_STREAM_BACKLOG_LIMIT
    PageLimit       \* how many events a page fetches

ASSUME BoundsAssumption ==
    /\ MaxEvents \in Nat
    /\ MaxAttempts \in Nat
    /\ BacklogLimit \in Nat
    /\ PageLimit \in Nat

Events  == 1..MaxEvents
Sockets == Pages \X (1..MaxAttempts)

VARIABLES
    appended,   \* how many events have been flushed
    phase,      \* where a request is
    pending,    \* the events of its transaction
    stored,     \* the committed events
    handler,    \* where the server's handler of a socket is
    queue,      \* what the handler has still to send
    received,   \* what the browser has received on a socket, oldest first
    attempt,    \* connectionAttempt: the latest socket of a page
    open,       \* whether that socket is open in the browser
    fetched     \* the events a page has fetched by HTTP

requests == <<appended, phase, pending, stored>>
sockets  == <<handler, queue, received>>
browsers == <<attempt, open, fetched>>
vars     == <<requests, sockets, browsers>>

Init ==
    /\ appended = 0
    /\ phase    = [r \in Requests |-> "idle"]
    /\ pending  = [r \in Requests |-> {}]
    /\ stored   = {}
    /\ handler  = [s \in Sockets |-> "none"]
    /\ queue    = [s \in Sockets |-> <<>>]
    /\ received = [s \in Sockets |-> <<>>]
    /\ attempt  = [p \in Pages |-> 0]
    /\ open     = [p \in Pages |-> FALSE]
    /\ fetched  = [p \in Pages |-> {}]

-----------------------------------------------------------------------------
\* The events list_by_workflow_id returns for a limit: the oldest ones.
Oldest(events, limit) ==
    {e \in events : Cardinality({d \in events : d <= e}) <= limit}

\* Mutant of Backlogs: all but the newest event.
BacklogsWithoutNewest(events) ==
    LET oldest == Oldest(events, BacklogLimit)
    IN  {b \in [1..(Cardinality(oldest) - 1) -> oldest] :
            \A i, j \in DOMAIN b : i < j => b[i] < b[j]}

\* They come in their order: this set has one member.
Backlogs(events) ==
    LET oldest == Oldest(events, BacklogLimit)
    IN  {b \in [1..Cardinality(oldest) -> oldest] :
            \A i, j \in DOMAIN b : i < j => b[i] < b[j]}

\* Whether the browser still has socket s open.
Alive(s) == open[s[1]] /\ attempt[s[1]] = s[2]

\* What a page shows: one entry for each event, in the order of created_at.
Timeline(p) ==
    fetched[p] \cup UNION {Range(received[s]) : s \in {p} \X (1..MaxAttempts)}

-----------------------------------------------------------------------------
(***************************************************************************)
(* Requests.                                                               *)
(***************************************************************************)

\* Mutant of AppendEvent: the first event gets the number zero.
AppendsFromZero(r) ==
    /\ phase[r] \in {"idle", "working"}
    /\ appended < MaxEvents
    /\ appended' = appended + 1
    /\ pending'  = [pending EXCEPT ![r] = @ \cup {appended}]
    /\ phase'    = [phase EXCEPT ![r] = "publishing"]
    /\ UNCHANGED <<stored, sockets, browsers>>

\* append_event: the event is flushed into the open transaction.
AppendEvent(r) ==
    /\ phase[r] \in {"idle", "working"}
    /\ appended < MaxEvents
    /\ appended' = appended + 1
    /\ pending'  = [pending EXCEPT ![r] = @ \cup {appended + 1}]
    /\ phase'    = [phase EXCEPT ![r] = "publishing"]
    /\ UNCHANGED <<stored, sockets, browsers>>

\* The event a request publishes is the one it flushed last.
Newest(r) == CHOOSE e \in pending[r] : \A d \in pending[r] : d <= e

\* _publish_event, before append_event returns: every subscription gets the
\* event, or Redis fails and only a warning is logged.
Publish(r) ==
    /\ phase[r] = "publishing"
    /\ phase' = [phase EXCEPT ![r] = "working"]
    /\ \/ queue' = [s \in Sockets |-> IF handler[s] = "live"
                                      THEN Append(queue[s], Newest(r))
                                      ELSE queue[s]]
       \/ UNCHANGED queue
    /\ UNCHANGED <<appended, pending, stored, handler, received, browsers>>

\* Mutant of Commit: the transaction ends while its last event is published.
CommitsBeforePublish(r) ==
    /\ phase[r] \in {"working", "publishing"}
    /\ stored' = stored \cup pending[r]
    /\ phase'  = [phase EXCEPT ![r] = IF @ = "working" THEN "committed" ELSE @]
    /\ UNCHANGED <<appended, pending, sockets, browsers>>

Commit(r) ==
    /\ phase[r] = "working"
    /\ stored' = stored \cup pending[r]
    /\ phase'  = [phase EXCEPT ![r] = "committed"]
    /\ UNCHANGED <<appended, pending, sockets, browsers>>

\* The request fails or breaks: its events were published and are gone.
Rollback(r) ==
    /\ phase[r] \in {"working", "publishing"}
    /\ phase' = [phase EXCEPT ![r] = "aborted"]
    /\ UNCHANGED <<appended, pending, stored, sockets, browsers>>

Finish(r) == Publish(r) \/ Commit(r) \/ Rollback(r)

-----------------------------------------------------------------------------
(***************************************************************************)
(* Pages.                                                                  *)
(***************************************************************************)

\* The page is loaded, or reconnect is clicked: the effect closes the socket
\* it has and opens the next one.  The messages stay.
Connect(p) ==
    /\ attempt[p] < MaxAttempts
    /\ attempt' = [attempt EXCEPT ![p] = @ + 1]
    /\ open'    = [open EXCEPT ![p] = TRUE]
    /\ handler' = [handler EXCEPT ![<<p, attempt[p] + 1>>] = "accepting"]
    /\ UNCHANGED <<requests, queue, received, fetched>>

\* The page is closed or loses its connection.
Disconnect(p) ==
    /\ open[p]
    /\ open' = [open EXCEPT ![p] = FALSE]
    /\ UNCHANGED <<requests, sockets, attempt, fetched>>

\* loadWorkflowDetail, when the page is loaded and after a run or a decision.
Fetch(p) ==
    /\ fetched' = [fetched EXCEPT ![p] = Oldest(stored, PageLimit)]
    /\ UNCHANGED <<requests, sockets, attempt, open>>

-----------------------------------------------------------------------------
(***************************************************************************)
(* WebSocket handlers.                                                     *)
(***************************************************************************)

\* The backlog is read and the socket accepted.
Accept(s) ==
    /\ handler[s] = "accepting"
    /\ handler' = [handler EXCEPT ![s] = "backlog"]
    /\ \E b \in Backlogs(stored) : queue' = [queue EXCEPT ![s] = b]
    /\ UNCHANGED <<requests, received, browsers>>

\* Mutant of Send: the error is swallowed and the message kept.
SendIgnoresDisconnect(s) ==
    /\ handler[s] \in {"backlog", "live"}
    /\ queue[s] # <<>>
    /\ Alive(s)
    /\ received' = [received EXCEPT ![s] = Append(@, Head(queue[s]))]
    /\ queue'    = [queue EXCEPT ![s] = Tail(@)]
    /\ UNCHANGED <<handler, requests, browsers>>

\* send_workflow_stream_message; it raises when the client has gone, and the
\* handler returns.
Send(s) ==
    /\ handler[s] \in {"backlog", "live"}
    /\ queue[s] # <<>>
    /\ \/ /\ Alive(s)
          /\ received' = [received EXCEPT ![s] = Append(@, Head(queue[s]))]
          /\ queue'    = [queue EXCEPT ![s] = Tail(@)]
          /\ UNCHANGED handler
       \/ /\ ~Alive(s)
          /\ handler' = [handler EXCEPT ![s] = "ended"]
          /\ queue'   = [queue EXCEPT ![s] = <<>>]
          /\ UNCHANGED received
    /\ UNCHANGED <<requests, browsers>>

\* Mutant of Subscribe: what is left of the backlog is forgotten.
SubscribesAtOnce(s) ==
    /\ handler[s] = "backlog"
    /\ handler' = [handler EXCEPT ![s] = "live"]
    /\ queue'   = [queue EXCEPT ![s] = <<>>]
    /\ UNCHANGED <<requests, received, browsers>>

\* subscribe_workflow_events, when the backlog has been sent.
Subscribe(s) ==
    /\ handler[s] = "backlog"
    /\ queue[s] = <<>>
    /\ handler' = [handler EXCEPT ![s] = "live"]
    /\ UNCHANGED <<requests, queue, received, browsers>>

\* The subscription fails (RedisEventStreamSubscribeError): the handler ends
\* and the browser sees its socket closed.
SubscriptionBreaks(s) ==
    /\ handler[s] = "live" \/ (handler[s] = "backlog" /\ queue[s] = <<>>)
    /\ handler' = [handler EXCEPT ![s] = "ended"]
    /\ queue'   = [queue EXCEPT ![s] = <<>>]
    /\ open'    = [open EXCEPT ![s[1]] = @ /\ attempt[s[1]] # s[2]]
    /\ UNCHANGED <<requests, received, attempt, fetched>>

Serve(s) == Accept(s) \/ Send(s) \/ Subscribe(s)

Next ==
    \/ \E r \in Requests : AppendEvent(r) \/ Finish(r)
    \/ \E p \in Pages : Connect(p) \/ Disconnect(p) \/ Fetch(p)
    \/ \E s \in Sockets : Serve(s) \/ SubscriptionBreaks(s)

Spec == Init /\ [][Next]_vars

\* The event loop resumes a handler whose await is ready, and a request that
\* has begun to append ends.
FairSpec ==
    /\ Spec
    /\ \A s \in Sockets : WF_vars(Serve(s))
    /\ \A r \in Requests : WF_vars(Finish(r))

-----------------------------------------------------------------------------
(***************************************************************************)
(* Properties.                                                             *)
(***************************************************************************)

\* Every variable stays in its set.
TypeOK ==
    /\ appended \in 0..MaxEvents
    /\ phase \in [Requests -> {"idle", "publishing", "working", "committed",
                               "aborted"}]
    /\ pending \in [Requests -> SUBSET Events]
    /\ stored \in SUBSET Events
    /\ handler \in [Sockets -> {"none", "accepting", "backlog", "live",
                                "ended"}]
    /\ queue \in [Sockets -> Seq(Events)]
    /\ received \in [Sockets -> Seq(Events)]
    /\ attempt \in [Pages -> 0..MaxAttempts]
    /\ open \in [Pages -> BOOLEAN]
    /\ fetched \in [Pages -> SUBSET Events]

\* A socket brings an event at most once: what its backlog held was published
\* before it subscribed (workflows/events.py, append_event publishes inside the
\* transaction; api/v1/workflows.py, stream_workflow_events).
SentOnce ==
    \A s \in Sockets :
        /\ IsInjective(received[s])
        /\ IsInjective(queue[s])
        /\ Range(received[s]) \cap Range(queue[s]) = {}

\* What a handler has taken up for an open socket reaches the page: nothing
\* leaves a queue but into the page or at the end of the handler
\* (api/v1/workflows.py, stream_workflow_events).
NothingDropped ==
    [][\A s \in Sockets :
          Range(queue[s]) \subseteq Range(queue'[s]) \cup Range(received'[s])
              \/ handler'[s] = "ended"]_vars

\* A page that connects when all has been appended and stored, and stays
\* connected, shows the stored events, up to the backlog's bound, whatever it
\* missed before (SPEC-008, "Reconnection should recover missed events from
\* persisted records").
AllStored ==
    /\ appended = MaxEvents
    /\ \A r \in Requests : phase[r] \in {"idle", "committed", "aborted"}
ReconnectionRecovers ==
    \A p \in Pages, n \in 1..MaxAttempts :
        (AllStored /\ Alive(<<p, n>>) /\ handler[<<p, n>>] = "accepting")
            ~> \/ ~Alive(<<p, n>>)
               \/ Oldest(stored, BacklogLimit) \subseteq Timeline(p)

\* A handler whose client has gone ends with the next event it is to send
\* (api/v1/workflows.py, stream_workflow_events returns on WebSocketDisconnect).
NextEventReleases ==
    \A s \in Sockets :
        (queue[s] # <<>> /\ ~Alive(s)) ~> handler[s] = "ended"

\* A handler whose client has gone ends (SPEC-008, "Client disconnects are
\* handled without leaking tasks or Redis subscriptions").
DisconnectReleases ==
    \A s \in Sockets :
        (handler[s] # "none" /\ ~Alive(s)) ~> handler[s] = "ended"
=============================================================================

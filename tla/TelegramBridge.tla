---------------------------- MODULE TelegramBridge ----------------------------
(***************************************************************************)
(* The inbound bridge of the demo (scripts/demo/telegram_inbound_bridge.py)*)
(* between Telegram and the backend: it polls for messages, takes those    *)
(* that ask for a quotation to the workflow API and replies.  What it has  *)
(* read it remembers in an offset of its own, which only its next poll     *)
(* tells Telegram; it may be stopped, or die of an exception, at any call. *)
(*                                                                         *)
(* A message is the kind of update it is: "chatter" is one the bridge at   *)
(* most answers (no message, one of another chat, a blank text, a command, *)
(* a greeting).  A text of the deterministic parser's form, a number of    *)
(* laptops, is an "order", "order, printer" when it also names a printer   *)
(* and "order, other" when it names what the demo does not sell and that   *)
(* is no printer, such as monitors.  Any other text is "vague", or "vague, *)
(* printer" when it names one.  Telegram and the backend are modelled from *)
(* how the bridge uses them.                                               *)
(***************************************************************************)
EXTENDS Naturals, Sequences, FiniteSets

CONSTANTS
    MaxUpdates,    \* bound: how many messages are ever sent
    MaxSessions,   \* bound: how often the bridge is started
    Kinds,         \* the kinds of text the messages are
    Configs        \* the command lines it is started with

ASSUME BoundsAssumption == MaxUpdates \in Nat /\ MaxSessions \in Nat
ASSUME KindsAssumption ==
    Kinds \subseteq {"chatter", "order", "order, printer", "order, other",
                     "vague", "vague, printer"}

VARIABLES
    kinds,         \* the kind of each message
    sent,          \* Telegram: the messages 1..sent are in the chat
    confirmed,     \* Telegram: 1..confirmed are not delivered again
    session,       \* the start of the bridge it is in, or that comes next
    config,        \* its command line
    pc,            \* where it is
    offset,        \* offset of main, 0 for None
    batch,         \* the updates of the last poll it has not come to
    current,       \* the update handle_update is at the calls for, or 0
    parsed,        \* how its request was extracted
    made,          \* the workflow create_workflow returned, 0 for none
    answer,        \* the backend's answer that is under way to the bridge
    said,          \* the reply of the last step, when it names a workflow
    attempts,      \* history: how often each message was handled
    calls,         \* backend: requests it has not served
    workflows      \* backend: the workflows created from messages

telegram == <<kinds, sent, confirmed>>
backend  == <<calls, workflows>>
bridge   == <<session, config, pc, offset, batch, current, parsed, made, said,
              attempts>>
vars     == <<telegram, bridge, answer, backend>>

Updates == 1..MaxUpdates

-----------------------------------------------------------------------------
NoReply  == [kind |-> "none", message |-> 0, workflow |-> 0, status |-> "none"]
NoAnswer == [op |-> "none", workflow |-> 0, status |-> "none"]
NoConfig == [once |-> FALSE, dry_run |-> FALSE, auto_run |-> FALSE,
             llm |-> FALSE]

Init ==
    /\ kinds \in [Updates -> Kinds]
    /\ sent = 0 /\ confirmed = 0
    /\ session = 1 /\ config = NoConfig
    /\ pc = "down" /\ offset = 0 /\ batch = {} /\ current = 0
    /\ parsed = "none" /\ made = 0 /\ answer = NoAnswer /\ said = NoReply
    /\ attempts = [m \in Updates |-> 0]
    /\ calls = {} /\ workflows = <<>>

-----------------------------------------------------------------------------
Send ==
    /\ sent < MaxUpdates
    /\ sent' = sent + 1
    /\ UNCHANGED <<kinds, confirmed, bridge, answer, backend>>

\* The process is gone, and its memory with it.
Down ==
    /\ pc' = "down" /\ session' = session + 1 /\ config' = NoConfig
    /\ offset' = 0 /\ batch' = {}
    /\ current' = 0 /\ parsed' = "none" /\ made' = 0
    /\ answer' = NoAnswer /\ said' = NoReply

\* main is started.  The last time it is left running, so that a run can ask
\* what becomes of the messages.
Start ==
    /\ pc = "down" /\ session <= MaxSessions
    /\ \E c \in Configs : /\ c.once => session < MaxSessions
                          /\ config' = c
    /\ pc' = "poll"
    /\ UNCHANGED <<telegram, session, offset, batch, current, parsed, made,
                   said, attempts, answer, backend>>

\* It is stopped, or a call raises what nothing handles: a connection closed
\* without an answer, an answer that is no object.
Crash ==
    /\ pc # "down" /\ session < MaxSessions
    /\ Down
    /\ UNCHANGED <<telegram, attempts, backend>>

\* --once does not poll again.
PollAgain ==
    IF config.once THEN Down
    ELSE /\ pc' = "poll" /\ said' = NoReply
         /\ UNCHANGED <<session, config, offset, batch, current, parsed, made,
                        answer>>

\* getUpdates with an offset confirms the updates before it.
Confirmed == IF offset > confirmed + 1 THEN offset - 1 ELSE confirmed

\* telegram_get_updates: what is not confirmed, in order.
Poll ==
    /\ pc = "poll"
    /\ confirmed' = Confirmed
    /\ batch' = (confirmed' + 1)..sent
    /\ pc' = "take"
    /\ UNCHANGED <<kinds, sent, session, config, offset, current, parsed, made,
                   said, attempts, answer, backend>>

\* Mutant of AfterFailedPoll: a failed poll always ends the bridge.
AlwaysGivesUp == Down

AfterFailedPoll == PollAgain

\* The poll fails, on its way there or on its way back.
FailPoll ==
    /\ pc = "poll"
    /\ confirmed' \in {confirmed, Confirmed}
    /\ AfterFailedPoll
    /\ UNCHANGED <<kinds, sent, attempts, backend>>

EndBatch ==
    /\ pc = "take" /\ batch = {}
    /\ PollAgain
    /\ UNCHANGED <<telegram, attempts, backend>>

-----------------------------------------------------------------------------
\* handle_update has an answer of its own: a command, a greeting, or not even
\* that.
IsChatter(kind) == kind = "chatter"

\* parse_llm_extraction_result: the model may find laptops to quote in any text
\* at all; parsed_request_from_llm_data reads the first item it lists and drops
\* the others.
LLMFindings == {"nothing", "request"}

\* llm_extract_customer_request, which may also raise.
LLMAnswers == IF config.llm THEN LLMFindings \cup {"error"} ELSE {"off"}

\* parse_customer_request: it looks for a number of laptops and nothing else.
Parses(kind) == kind \in {"order", "order, printer", "order, other"}

\* extract_customer_request up to its guard: the deterministic parser is asked
\* when there is no model or the model has nothing.
Extraction(kind, llm) ==
    IF llm = "request" THEN "llm"
    ELSE IF ~Parses(kind) THEN "none"
    ELSE IF llm = "off" THEN "deterministic" ELSE "fallback"

\* detect_unsupported_item_mentions: the one unsupported item it can tell.
NamesPrinter(kind) == kind \in {"order, printer", "vague, printer"}

\* Mutant of Guarded: what the model has found is not held against the text.
TrustsTheModel(kind, how) ==
    how = "fallback" /\ NamesPrinter(kind)

\* apply_unsupported_item_guard.
Guarded(kind, how) == how # "none" /\ NamesPrinter(kind)

\* Mutant of NextOffset: the offset is the update that was read last.
StaysAtUpdate(id) == id

\* Mutant of NextOffset: it is set past all there is.
PastTheEnd(id) == sent + 1

NextOffset(id) == id + 1

Reply(kind, message, workflow, status) ==
    [kind |-> kind, message |-> message, workflow |-> workflow,
     status |-> status]

\* handle_update returns.
Return(reply) ==
    /\ pc' = "take" /\ current' = 0 /\ parsed' = "none" /\ made' = 0
    /\ answer' = NoAnswer /\ said' = reply

\* main comes to the next update, and handle_update to its first call of the
\* backend or, without one, to its end.
Take ==
    /\ pc = "take"
    /\ \E id \in batch, llm \in LLMAnswers :
       /\ \A other \in batch : id <= other
       /\ batch' = batch \ {id}
       /\ offset' = NextOffset(id)
       /\ attempts' = [attempts EXCEPT ![id] = @ + 1]
       /\ LET how == Extraction(kinds[id], llm)
          IN  IF \/ IsChatter(kinds[id]) \/ how = "none"
                 \/ Guarded(kinds[id], how) \/ config.dry_run
              THEN Return(NoReply)
              ELSE /\ pc' = "login" /\ current' = id /\ parsed' = how
                   /\ said' = NoReply
                   /\ UNCHANGED <<made, answer>>
    /\ UNCHANGED <<telegram, session, config, backend>>

Call(op, workflow) ==
    [op |-> op, session |-> session, message |-> current, parsed |-> parsed,
     workflow |-> workflow]

\* backend_login, and create_workflow sends its request.
Login ==
    /\ pc = "login"
    /\ pc' = "create"
    /\ calls' = calls \cup {Call("create", 0)}
    /\ UNCHANGED <<telegram, session, config, offset, batch, current, parsed,
                   made, answer, said, attempts, workflows>>

\* create_workflow returns; run_workflow sends its request.
Created ==
    /\ pc = "create" /\ answer.op = "create"
    /\ IF config.auto_run
       THEN /\ pc' = "run" /\ calls' = calls \cup {Call("run", answer.workflow)}
            /\ made' = answer.workflow /\ answer' = NoAnswer
            /\ UNCHANGED <<current, parsed, said>>
       ELSE /\ Return(Reply("created", current, answer.workflow, answer.status))
            /\ UNCHANGED calls
    /\ UNCHANGED <<telegram, session, config, offset, batch, attempts,
                   workflows>>

Ran ==
    /\ pc = "run" /\ answer.op = "run"
    /\ Return(Reply("ran", current, made, answer.status))
    /\ UNCHANGED <<telegram, session, config, offset, batch, attempts, backend>>

\* Mutant of FailureReply: a run that did not answer is taken for granted.
AssumesItRan ==
    IF pc = "run" THEN Reply("ran", current, made, "WAITING_APPROVAL")
    ELSE Reply("failed", current, 0, "none")

\* An ApiError of run_workflow names the workflow as it was created, one of the
\* calls before names none.
FailureReply ==
    IF pc = "run" THEN Reply("run failed", current, made, "CREATED")
    ELSE Reply("failed", current, 0, "none")

\* A call is refused, or is not answered in time or not readably; whatever the
\* backend makes of it no longer reaches the bridge.
Fail ==
    /\ pc \in {"login", "create", "run"}
    /\ Return(FailureReply)
    /\ UNCHANGED <<telegram, session, config, offset, batch, attempts, backend>>

-----------------------------------------------------------------------------
Awaited(call) ==
    call.session = session /\ call.message = current /\ pc = call.op

AnswerTo(call, workflow, status) ==
    IF Awaited(call)
    THEN [op |-> call.op, workflow |-> workflow, status |-> status]
    ELSE answer

\* POST /workflows: no request is known to repeat another.  A request that is
\* lost or refused is one that is never served.
ServeCreate ==
    \E call \in calls :
       /\ call.op = "create"
       /\ calls' = calls \ {call}
       /\ workflows' = Append(workflows,
              [message |-> call.message, session |-> call.session,
               parsed |-> call.parsed, status |-> "CREATED"])
       /\ answer' = AnswerTo(call, Len(workflows'), "CREATED")
       /\ UNCHANGED <<telegram, bridge>>

\* POST /workflows/{id}/run takes a fresh workflow to its approval.  That an
\* operator runs it by hand or a manager decides changes nothing the bridge
\* reads, and is left out.
ServeRun ==
    \E call \in calls :
       /\ call.op = "run"
       /\ workflows[call.workflow].status = "CREATED"
       /\ calls' = calls \ {call}
       /\ workflows' =
              [workflows EXCEPT ![call.workflow].status = "WAITING_APPROVAL"]
       /\ answer' = AnswerTo(call, call.workflow, "WAITING_APPROVAL")
       /\ UNCHANGED <<telegram, bridge>>

-----------------------------------------------------------------------------
Handle == Take \/ EndBatch \/ Login \/ Created \/ Ran \/ Fail

Next ==
    \/ Send \/ Start \/ Crash \/ Poll \/ FailPoll \/ Handle
    \/ ServeCreate \/ ServeRun

Spec == Init /\ [][Next]_vars

\* The bridge goes on by itself and is started again when it is down; every
\* call it makes has a timeout; Telegram answers some of its polls.
FairSpec ==
    /\ Spec
    /\ WF_vars(Start) /\ WF_vars(Handle) /\ SF_vars(Poll)

-----------------------------------------------------------------------------
InboxView == INSTANCE Inbox WITH
    acked <- confirmed,
    at    <- IF offset = 0 THEN confirmed ELSE offset - 1

\* The bridge is a reader that loses nothing, and tries nothing twice in a
\* session: its offset follows the updates it has come to, and Telegram forgets
\* none it has not come to (main, telegram_get_updates).
ImplementsInbox == InboxView!Spec

\* A session makes one workflow of a message at most, however late the backend
\* comes to the requests the bridge has given up waiting for.
OneWorkflowPerSession ==
    \A v, w \in DOMAIN workflows :
        /\ workflows[v].message = workflows[w].message
        /\ workflows[v].session = workflows[w].session
        => v = w

\* The text has the last word over the model: whatever the model answers, no
\* workflow is made of an update that is no text to quote or that names a
\* printer, and what the model did not find is only taken to the backend when
\* the deterministic parser understands it.  Beyond that the model is trusted:
\* it may find a request in a vague text that has none, and what an order names
\* besides laptops and printers is not noticed (extract_customer_request,
\* apply_unsupported_item_guard).
OnlyRequestsBecomeWorkflows ==
    \A w \in DOMAIN workflows :
        LET kind == kinds[workflows[w].message] IN
           /\ kind # "chatter" /\ ~NamesPrinter(kind)
           /\ workflows[w].parsed # "llm" => Parses(kind)

\* No workflow is made of a part of a message
\* (docs/demo/TELEGRAM_INBOUND_DEMO.md, "If a message mixes a supported laptop
\* request with an unsupported item, the bridge also refuses to create a
\* partial workflow").
NoItemIsDropped ==
    \A w \in DOMAIN workflows :
        kinds[workflows[w].message] \notin {"order, printer", "order, other"}

\* A reply that names a workflow names the one this session made of the
\* message, with a status it has had; it says so of a run that took place.
RepliesAreTrue ==
    said.kind \in {"created", "ran", "run failed"} =>
        /\ said.workflow \in DOMAIN workflows
        /\ LET w == workflows[said.workflow] IN
              /\ w.message = said.message /\ w.session = session
              /\ said.status # w.status => said.status = "CREATED"
              /\ said.kind = "ran" => w.status = "WAITING_APPROVAL"

\* Every message is handled and its delivery confirmed in the end, through any
\* number of failed polls and calls, once the bridge is left running.
MessagesAreConfirmed ==
    \A m \in Updates : (sent >= m) ~> (confirmed >= m /\ attempts[m] > 0)
==============================================================================

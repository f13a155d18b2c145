# Verification of the AI sales workflow

TLA+ modules, TLC runs and TLAPS proofs for the backend in `backend/app`, the
dashboard's event stream and the Telegram bridge of the demo. The backend is a
FastAPI service that turns a customer's request for quotation into a proposal,
waits for a human to approve it, and prepares the email. Paths below are
relative to the repository; `app/` stands for `backend/app/`.

## 1. Inventory

| Component | State | Operations | Hard behaviour |
|---|---|---|---|
| Workflow service (`app/workflows/`, `app/models/workflow.py`) | a row per workflow: `status`, `state_payload`; audit log | create, transition, update state | validates against a row it read without a lock |
| Approvals (`app/approvals/`) | records inside the payload | decide, list, check a resume | duplicate decisions, decisions that race a transition |
| Endpoints and sessions (`app/api/v1/workflows.py`, `app/db/session.py`) | one session per request: identity map, open transaction | one commit at the end, rollback otherwise | interleaving requests, broken connections, partial failure |
| Runtime (`app/runtime/`) | stage outputs in the payload | six stages to the approval gate, one after it, a failure handler | stages fail half-way, the failure handler runs in a doomed transaction |
| Events and streaming (`app/workflows/events.py`, `app/streaming/`) | event rows, Redis channel, subscriptions | append and publish, backlog, live stream | publication before commit, backlog/subscription gap, backlog bound |
| Dashboard stream (`frontend/hooks`, `frontend/lib/streaming`) | messages received, events fetched | connect, reconnect, merge | repeated backlogs, missed events |
| LLM service (`app/llm/`) | attempts left | complete, retry, fall back | which errors are retried, the bound, the fallback's own errors |
| Knowledge base (`app/knowledge/`, `app/vectorstore/`, `app/storage/`) | bucket, objects, collection, vectors | chunk, ingest, search | partial ingestion, racing ingestions, stale vectors |
| Telegram bridge (`scripts/demo/telegram_inbound_bridge.py`) | update offset in memory | poll, extract, create a workflow, run it, reply | restart, late answers, created but not run, what a model claims to have found |
| Authentication (`app/auth/`, `app/services/auth_service.py`) | accounts, roles; tokens in the browser | login, refresh, logout, current user, role checks | expiry and deactivation between login and use |
| Demo seeding (`app/demo/`) | accounts, roles, workflow rows | seed, dry run | idempotence, rollback, two seeds, requests during a seed |
| Price research (`app/price_research/`) | none | search, normalise | none: no part of the program calls it |
| Observability, configuration, Redis cache, user interface | counters, settings | - | I/O and presentation |

How they interact: an HTTP request gets one database session
(`app/core/dependencies.py`); the runtime and the approval service call the
workflow service and the event service inside that session; the event service
publishes to Redis as it appends; WebSocket connections relay the channel to
the dashboard; the runtime calls the LLM service and the retrieval service
within a stage; the bridge is a client of the HTTP API. All shared state is in
PostgreSQL, Redis, MinIO and Qdrant; Python processes share nothing.

What makes each component correct:

- *Workflow service*: a status only moves along `ALLOWED_WORKFLOW_TRANSITIONS`,
  never out of a terminal status; the audit log tells the same story.
- *Approvals*: at most one final decision, taken on a workflow that waits for
  it, and a resume only with an approval on record.
- *Endpoints*: all or nothing, whatever breaks; every request ends.
- *Runtime*: stops at the approval gate or leaves a failure on record.
- *Streaming*: a client that stays connected shows every event once, in order.
- *LLM service*: bounded attempts, no retry of an error that cannot get better,
  and no text that was not validated reaches a workflow.
- *Knowledge base*: chunks cover the document; a committed ingestion can be
  found, an interrupted one can be repeated.
- *Bridge*: no message is skipped, one workflow per message and session, none
  against what the text says, and replies that are true.
- *Authentication*: what a deactivated account has left expires.
- *Seeding*: all or nothing, and what it seeds is as the contract says.

The hazards, each at its line, are in `PROJECT.json`.

## 2. Plan

| Step | Module | Content | Checks | Status |
|---|---|---|---|---|
| 1 | `WorkflowLifecycle` | the pure tables and rules: transitions, approval and resume rules, stage order | used by all | done |
| 2 | `WorkflowContract` | abstract specification of one workflow: status and final decisions | refined by 3; proofs | done |
| 3 | `WorkflowRequests` | the requests on one workflow row, each in its own session | runs `serial`, `concurrent`, `two_decisions`, `lost_failure`; proofs | done |
| 4 | `EventStream` | append, publish, commit or roll back; backlog, subscription, live stream; fetched page and merge in the browser | runs `stream`, `stream_leak`; proofs | done |
| 5 | `LLMService` | attempts, readiness, classification by each client, fallback | used by 6; proofs with 6 | done |
| 6 | `RuntimePipeline` | the stages of one workflow with handlers, graph stream, grounding and model; the attempts of 5 are its steps | run `pipeline`; proofs | done |
| 7 | `Chunking`; `KnowledgeIngestion` | cutting a text; object upload, collection, upsert, rerun, search | runs `chunking`, `ingestion`; proofs of both | done |
| 8 | `Inbox`; `TelegramBridge` | what a reader of a chat promises; the bridge through crashes and late answers, and a refinement of the first | runs `bridge`, `mixed_order`; proofs | done |
| 9 | `Access` | accounts, tokens, the role check | used by 10; proofs with 10 | done |
| 10 | `DemoSeed` | seeds beside requests, an administrator and a browser | run `seed`; proofs | done |

Abstract specifications: `WorkflowContract`, which `WorkflowRequests`
implements when requests do not overlap, and `Inbox`, which `TelegramBridge`
implements always.

Every safety property of the passing runs is a theorem, and every action
property. Models still wanted: the read and create roles, the handshake of a
WebSocket.

## 3. The modules

### WorkflowLifecycle

No state: `AllowedTransitions`, `MayDecide`, `MayResume`, `StageAfter` and
their helpers translate the tables of `app/workflows/lifecycle.py`,
`app/approvals/lifecycle.py` and `app/runtime/service.py`. A history is a
sequence of records `[by, decision]`, `by` the request that wrote it.

### WorkflowContract

What a client may rely on when requests do not overlap. `status` and `finals`
are the row's status and final approval records, `accepted` the final decisions
that were answered with success; a run, a final decision, a resume, a manual
transition and a PATCH are one step each. `Patch` replaces the final records by
any others, as the endpoint does, and so the contract promises nothing of the
records alone: it promises that one final decision is accepted whatever became
of its record (`OneFinalDecision`), that it keeps its effect
(`DecisionTakesEffect`), that the status only climbs (`StatusOnlyClimbs`), and
that a forged record comes with no change of status
(`RecordsFollowDecisions`). All four are proved in `WorkflowContractProofs`.

### WorkflowRequests

One workflow row and a set of requests. A request is one call of an endpoint
of `app/api/v1/workflows.py` that changes an existing workflow:

| Code | Module |
|---|---|
| `Workflow.status`, `Workflow.state_payload` (committed) | `row.status`; `row.history` (the approval records of the payload) |
| audit log entries of status transitions | `audit`, oldest first |
| row lock of the first flushed UPDATE | `lock` |
| the session: objects and pending writes | `mem[r]`, `trail[r]` |
| the `WorkflowState` a service works from | `view[r]` |
| appended events, published at once | `emitted[r]` |
| where the handler is | `pc[r]` |

The handlers are cut where another session can come between: after the first
read, at a repeated `session.get`, at the first flush, which waits for the row
lock, at each stage, and at the commit. `CallTransition` is one action for all
callers of `transition_workflow_status`; `UpdateState` is
`update_workflow_state`, which a PATCH (`PatchState`) and a change request
(`RequestChanges`) call on their own. Under the lock the handler is
serial with respect to the row, so a decision's second write is part of
`Flush` and the two writes of a stage are part of `RunStage`.

Data that no property tells apart is dropped: the contents of the proposal,
the text of events, the comments of a decision. What the code does with
identity is kept: `session.get` may return the object the session holds or
read the row anew (`Loads`), because the identity map is weak and the cycle
between a workflow and its audit entries is freed only by the collector;
`UPDATE` writes only the columns the session changed (`Written`).

`Abort` is a broken connection, a client that leaves, or the death of the
server, at any point before the commit. A rolled back request leaves
`emitted` behind, as its events were published.

A PATCH carries any status and any history (`ClientStates`): the one on file,
none, or other records, be they records that committed requests have left in
the row or records it makes up, which bear its own name. The code compares the
status with the row's and replaces the payload whole, hence so does
`UpdateState`; a client with full access can drop, replace and forge approval
records. What else is in the payload, the email and the outputs of the stages
included, it can replace as freely, and nothing is said of it here.

### EventStream

The events of one workflow, numbered in the order of `created_at`.

| Code | Module |
|---|---|
| a request that appends events, and its transaction | `phase[r]`, `pending[r]` |
| committed rows of `workflow_events` | `stored` |
| `stream_workflow_events` for one socket | `handler[s]`, with what it has still to send in `queue[s]` (the backlog, then what its subscription heard) |
| messages the hook `useWorkflowEventStream` got on a socket | `received[s]` |
| `connectionAttempt` and the state of that socket | `attempt[p]`, `open[p]` |
| `persistedEvents` of the detail page | `fetched[p]` |

`AppendEvent` and `Publish` are two actions because `append_event` awaits
between its flush and the publication; `Commit` comes after both. `Publish`
reaches every live subscription or, when Redis fails, none. A handler reads
its backlog, sends it, and only then subscribes: what is published in between
is lost to it. The browser side may leave or reconnect at any time, and the
handler does not notice: `Alive(s)` is the browser's view, which a handler
learns when it sends. `Timeline(p)` is the merge of what was fetched with what
every socket of the page brought, one entry per event; its order is that of
the numbers. The hook keeps its messages across reconnections, hence the union
over all attempts.

Not in this module: equal `created_at` values, sanitisation of payloads,
authentication of the socket, a client that refuses a malformed message.

### LLMService and RuntimePipeline

`LLMService` is one call of `LLMService.complete`: `call` holds its phase, the
provider being asked and the attempts left, `tried` the history of attempts. A
reply is what a client can tell apart: silence, no connection, an HTTP status,
or a kind of body. `HTTPCompletion` gives the error category each client makes
of it, which decides retry and fallback. The fallback is tried once, outside
the handlers of `complete`, so that even an exception that is no provider
error leaves it as it is.

`RuntimePipeline` extends it: `AwaitModel` is a step of the service, taken in a
stage of the workflow.

| Code (`app/runtime/service.py`) | Module |
|---|---|
| `runtime_payload` | `payload` |
| what `astream` of the graph yields | `stream`, which starts from the first payload and never sees a later one |
| `WorkflowState` as persisted | `row`: `doc`, the payload in `outputs`, and `sections`, one per stage |
| events and transitions | `log`, `payload.status` |
| one stage of the loop | `EnterStage`, `SearchSucceeds` or `SearchFails`, then `RunHandler`, `ReadStream`, `SkipQuotation` or `AskModel`, `AwaitModel`, `UseCompletion`; `FailStage` |
| the end of `run_workflow`; approval; `resume_workflow_after_approval` | `PersistRun`; `Approve`; `StartResume`, `PersistResume` |

An output is what made it and what was attached to it; its contents are left
out. `run_workflow` runs alone here: among other requests, and in a
transaction that may be rolled back, it is in `WorkflowRequests`. The two
treat the status alike through `WorkflowLifecycle`.

### Chunking and KnowledgeIngestion

`Chunking` is `chunk_document` with a pass of its loop per step. A character
is a word character, a blank or a newline, and a chunk is the positions it was
cut from, so that "nothing is lost" can be said of positions and not of texts
that look alike. `KnowledgeIngestion` takes the chunks of a catalog as given:
a release of the program comes with a catalog, and the operator may run
another release on the same stores.

| Code | Module |
|---|---|
| `ingest_documents` of a process | `pc[i]`, `left[i]`, `cause[i]` |
| MinIO bucket and objects | `bucket`, `objects` |
| Qdrant collection (its vector size) and points | `collection`, `points` |
| `KnowledgeRetrievalService.search` | `Search`, answered in one step because nothing is ever removed |

Every call of MinIO or Qdrant is a step, and any of them may fail
(`Interrupt`). Which vectors are nearer is left open: `Best` is any choice of
the right size.

### Inbox and TelegramBridge

`Inbox` is what a reader of a chat promises: try in order, acknowledge nothing
that was not tried. `TelegramBridge` is `main` and `handle_update`.

| Code | Module |
|---|---|
| the chat, and how far `getUpdates` was told to forget it | `sent`, `confirmed` |
| `offset`, the updates of the last poll | `offset` (0 for `None`), `batch` |
| `handle_update` at a call of the backend | `pc` in `login`, `create`, `run`, with `current`, `parsed`, `made` |
| HTTP requests under way, and the answer that comes back | `calls`, `answer` |
| workflows the backend made | `workflows` |
| what the customer was told last | `said` |

A call that times out stays in `calls`: the backend may serve it later, and
`AnswerTo` drops the answer unless the bridge still waits for that call. A
request the backend refuses or never gets is one that is never served.
`Crash` is a stop of the process or an exception that is no `ApiError`; the
offset is lost with it. A text is of the kind the extraction or the documents
distinguish. The deterministic parser looks for a number of laptops and
nothing else (`Parses`), the guard for printers and nothing else
(`NamesPrinter`), and a language model may find laptops in any text at all, of
whose items the bridge reads the first. An order that names monitors besides
("order, other") is therefore treated as any order.

### Access and DemoSeed

`Access` has the accounts and what the browsers keep of tokens; the server
keeps nothing of them. `DemoSeed` extends it with one of the contract's
workflow rows, requests on it and several runs of the seed command. A seed is
`ReadAccounts`, `ReadRow`, `Commit` or `Rollback`; the commit writes column by
column what differed when it was read (`SeededAccount`, `SeededRow`), over
whatever others committed since, and fails as a whole when a row it adds has
come to exist. `disturbed` and `overlapped` are history: whether somebody
committed beside a seed, and whether the last writer of the row had not seen
what it overwrote.

## 4. The runs

Deadlock checking is off: requests are sent once, pages connect a bounded
number of times, messages and seeds are finitely many, and the systems stop
when all is done. The first four runs are of `MCWorkflowRequests`, the next two
of `MCEventStream`, the others of the module named after the table's instance.

| Run | Instance | Checks | Result |
|---|---|---|---|
| `serial` | 4 requests, 1 in flight | `AuditIsAPath`, `ResumesAreApproved`, `ContractSpec` | holds |
| `concurrent` | 3 requests, 2 in flight | `TypeOK`, `HistoryIsCommitted`, `AuditNamesStatus`, `RuntimeIsAtomic`, `EveryRequestEnds`, `EndsForGood` | holds |
| `two_decisions` | 3 requests, 2 in flight | `OneDecisionAccepted` | violated |
| `lost_failure` | as `serial` | `FailureIsPersisted` | violated |
| `stream` | 2 requests, 3 events, 1 page, 2 connections, backlog of 2, page of 1 | `TypeOK`, `SentOnce`, `NothingDropped`, `ReconnectionRecovers`, `NextEventReleases` | holds |
| `stream_leak` | 2 requests, 2 events, 1 page, 2 connections | `DisconnectReleases` | violated |
| `pipeline` | `MCRuntimePipeline`: 7 settings of the model, with and without retrieval | `TypeOK`, `AttemptsAreBounded`, `OnlyTransientFailuresAreFollowed`, `AccountsAgree`, `EvidenceIsKept`, `OnlyValidatedCompletions`, `FailureIsRecorded`, `CompletedStagesAreFinal`, `RunsStop` | holds |
| `chunking` | `MCChunking`: all texts of 5 characters, longer ones of up to 4 words, 12 configurations | `ChunksFit`, `NothingIsLost`, `ChunksAreNormal`, `LoopAdvances` | holds |
| `ingestion` | `MCKnowledgeIngestion`: 2 operators, 3 catalogs, 3 ingestions | `VectorsAreWholeCatalogs`, `CommitMeansStored`, `RerunsRecover`, `SearchIsComplete` | holds |
| `bridge` | `MCTelegramBridge`: 2 messages, 2 sessions, 4 command lines | `ImplementsInbox`, `OneWorkflowPerSession`, `OnlyRequestsBecomeWorkflows`, `RepliesAreTrue`, `MessagesAreConfirmed` | holds |
| `mixed_order` | `MCTelegramBridge`: as `bridge`, with orders that name another item | `NoItemIsDropped` | violated |
| `seed` | `MCDemoSeed`: 2 runs of the command, 1 account, 1 browser, 2 requests | `DeactivationEndsSessions`, `SeedIsAllOrNothing`, `OnlyOverlapsTear`, `SeedRestores` | holds |

*serial* shows what the code keeps when requests follow each other, PATCHes
that drop, replace or forge approval records included: the requests implement
`WorkflowContract`, the audit log is one path through the lifecycle, and a
resume gets past the approval gate only with a reviewer's approval or, when a
client PATCHes an approval record into the row and a manager moves the status
by hand, with both (`ResumesAreApproved`). Neither of the two suffices: a
manual transition to APPROVED without a record is refused by the resume, and a
forged record does not move the status. It does not show that the records on
file are true. One PATCH makes them anything, and a forged final record keeps
reviewers from deciding at all.

*concurrent* shows what is left of that under overlap. The contract is not:
two requests that read the same row may both be accepted, and the last one to
commit overwrites the first, a terminal status included. What stays true is
that nothing uncommitted is ever seen or kept, that the newest audited
transition names the status of the row (it does whatever overwrites what, so
it shows such an overwrite and does not prevent it), that a run or a resume
never commits half-way, and that a workflow that has ended, with no request
left at work, stays ended for whatever arrives afterwards (`EndsForGood`). And
no request waits for ever, as the row lock is released at every end of a
session, the failed and the broken ones included (`EveryRequestEnds`).

*two_decisions* and *lost_failure* are disagreements between the code and its
specification documents; `PROJECT.json` quotes both under `findings`. In the
first, two reviewers decide at the same time and are both told that their
decision was recorded. In the second, a stage of a run raises, the failure
handler records the failure, and the endpoint's session is rolled back with
it: the workflow stays CREATED and only the Redis subscribers have seen
`runtime.failed`.

*stream*: an event reaches a page at most once per connection although it is
both stored and published, as publication comes before the commit
(`SentOnce`); a handler loses nothing it has taken up (`NothingDropped`); a
page that reconnects when all is stored shows what it missed, up to the
backlog's limit (`ReconnectionRecovers`; that the merge shows the repeated
backlog once is by construction, the timeline being a set); a handler whose client has gone ends
when it next has something to send (`NextEventReleases`). It does not show
that a connected page sees every event: it does not, because of the gap
before the subscription and because a publication may fail.

*stream_leak*: a handler whose client has gone, on a workflow with no further
event, never ends. It keeps its Redis subscription and the database
connection of its session.

*pipeline*: the four accounts a run keeps of its progress agree, a stage keeps
the evidence found for it, whether a handler, the graph's stream or the model
made its output, and through the two persisted copies (`EvidenceIsKept`,
`CompletedStagesAreFinal`); the canned answer of the fake provider, which is
the default fallback, never becomes an output (`OnlyValidatedCompletions`); a
failure is on the session's row, and names its stage (`FailureIsRecorded`),
before the endpoint rolls that session back (*lost_failure*). One outcome
is worth knowing: the lifecycle does not let WAITING_APPROVAL fail, so that a
model that fails in the approval stage leaves a workflow that waits for a
decision and carries an error.

*chunking*: no word is lost, no chunk is too large, even a merged one, and the
loop ends for every relation of overlap and minimum. A chunk may repeat the
tail of the one before it whole: when the overlap is not smaller than the
minimum, as with the defaults, the next window finds the same paragraph end
again. That is redundant and not wrong, hence no property. Section 5 has the
proofs for every document and configuration.

*ingestion*: what can be found are whole catalogs, each chunk once; a rerun
recovers from whatever an interrupted or racing ingestion left. That one of
two racing ingestions may fail is not judged, only what both leave and the
rerun. Two releases
ingested one after the other leave the vectors of both (`points` is a union),
as nothing deletes a vector. A search with several filters may return fewer
than it could; `SearchIsComplete` says when.

*bridge*: see section 5 for what holds for any number of messages. The run adds
`MessagesAreConfirmed`: once the bridge is left running, every message is
handled and confirmed. The converse is a limit of the bridge: with `--once`
nothing confirms what was read, so each run with it handles the same messages
again, and a restart may make a second workflow of a message; the property is
therefore per session. `OnlyRequestsBecomeWorkflows` says that the text has the
last word over the model: no workflow is made of chatter or of a text that
names a printer, and without a finding of the model only of a text the parser
understands. It does not say that a workflow made of a vague text was asked
for: for that there is the model's word alone.

*mixed_order* is the third disagreement with the documents: an order that names
an item that is neither a laptop nor a printer becomes a workflow of the
laptops, with a model or without, although the demo's guide and the
repository's README promise that no such item is dropped.

*seed*: a seed is all or nothing and restores what it owns. A request that
commits between the read and the commit of a seed can leave the status of one
and the records of the other (`OnlyOverlapsTear` says that nothing else does),
until the next seed. A seed resets a status without a lifecycle transition,
adds roles and takes none away, and activates what was deactivated; tokens of
a deactivated account are refused from the next request on and all expire
within a refresh token's life (`DeactivationEndsSessions`). That holds while the
account stays deactivated: once a seed has activated it, its old refresh tokens
are good again until they expire.

### Bounds

`Requests` bounds the number of requests: four cover the longest serial stories
(run, PATCH, manual approval, resume; run, decision, a PATCH that drops its
record, a second decision), three with two in flight cover a writer beside a
stale reader or a waiter for the lock, before or after a third. The theorems
of section 5 are about any number of both. Nothing else grows: audit log and
history are bounded by the requests, and a PATCH brings the history on file or
one of at most `MaxRecords` records, which suffices to drop, keep, replace
and forge. `ManualTargets` lists the statuses a manual transition may ask for:
PLANNING (leaves CREATED for a status a run cannot start from), CANCELLED
(terminal, reachable from everywhere before approval) and APPROVED (an
approval without record). Requests are symmetric in the runs of safety alone;
*concurrent*, which has liveness too, uses no symmetry.

In `stream`, three events are more than a backlog of two, which is more than a
page of one, so every limit is crossed; two requests suffice for every order
of append, publication and commit between two transactions, and two
connections for a reconnection beside a handler that was left behind.

`LLMConfigurations` has a setting for each way a call can go: no model, a
provider without its key, retries and none, a fallback that is ready, that is
not, that is the fake client, that is the provider itself. Retries of two
cover a failure after a failure after a failure. Six characters of window
leave room for a word, a paragraph end and a next word, and the overlaps
and minima cover smaller, equal and larger ones. Three ingestions are one more
than can run at a time, so that a rerun follows a race; of the two inputs
`Embed` refuses alike, a batch that is too large and a text that is too long,
the catalogs have the second. Two messages make
an order, and two sessions a restart; two is also the least number of
workflows that can be confused; the kinds of `bridge` leave out "order, other",
which the bridge treats like "order", and `mixed_order` has them all. In `seed`, two requests cover an approval and
what follows it, and clock and lifetimes are as small as distinguish a token
that expires before, with and after the clock's end. `MaxBegins`,
`MaxUpdates`, `MaxSessions`, `MaxTime`, `MaxChanges` and `MaxRequests` are the
bounds in guards. The last session of the bridge is not a `--once`
one, as it has to be left running for `MessagesAreConfirmed`.

### Fairness

`FairSpec` adds weak fairness of `Work(r)` for every request: an event loop
resumes every coroutine whose await has completed, and PostgreSQL grants a
released row lock to a waiter. Requests need not arrive (`Arrive` is not
fair), and connections need not break (`Abort` is not fair). Weak fairness of
the lock is enough because each request flushes once and is finite: the lock
cannot be taken away infinitely often by a finite set of requests. A provider
call that never returns is outside the model; the clients have timeouts.

In `EventStream`, `FairSpec` assumes that a handler with something to do does
it (`Serve(s)`) and that a request that has begun to append ends
(`Finish(r)`), for the same reasons. Nothing obliges a page to connect, to
leave or to fetch, nor the subscription to break.

`RuntimePipeline` assumes weak fairness of `Progress`, the steps of a request
that is being served: every await ends, those of providers and retrieval by
their timeouts. Nobody has to start, approve or resume.

`TelegramBridge` assumes that the bridge is started again when it is down
(`WF(Start)`), that it goes on by itself, which every call's timeout justifies
(`WF(Handle)`), and that Telegram answers infinitely many of infinitely many
polls (`SF(Poll)`; weak fairness would not do, as a failed poll leaves the
loop). The backend owes it nothing: no message depends on an answer.

`Chunking`, `KnowledgeIngestion` and `DemoSeed` state safety only.

## 5. What is proved

`WorkflowRequestsProofs`, for any set of requests and any number in flight:

- `Typing`: `Spec => []TypeOK`, with the exclusiveness of the row lock;
- `RecordsAreCommitted`: `Spec => []HistoryIsCommitted`;
- `AuditFollowsStatus`: `Spec => []AuditNamesStatus`;
- `RunsAreAtomic`: `Spec => []RuntimeIsAtomic`;
- `ResumesHaveApproval`: `Spec => []ResumesAreApproved`;
- `EndsStay`: `Spec => EndsForGood`.

They rest on `KindsAssumption`, `TargetAssumption` and `RecordsAssumption`
alone. The inductive invariant `IInv` has the first four properties, adds what
the code relies on without saying so, and implies the fifth:

- `Plans`: which status the object of a request carries where the request is
  (the one it asked for once that is assigned, the approval gate when a run
  commits, COMPLETED when a resume commits);
- `Trails`: a session audits nothing before its transition call, and from then
  on its newest audited transition names the status of its object;
- `Copies`: every record in a session's object or view is a committed record,
  or the session's own;
- `Sources`: a record, on file or in a session, comes from a request for the
  decision it names or from a PATCH;
- `GateWasPassed`: the row is APPROVED only after an approving decision or a
  manual transition was committed;
- `Approvals`: from the moment a resume has passed its checks, what
  `ResumesAreApproved` asks for has been committed. It follows at that moment
  from `Sources` and `GateWasPassed`, and commits are never undone.

`HistoryIsCommitted` alone is not inductive because a commit copies `mem[r]`
to the row, and `AuditNamesStatus` is not because it copies `trail[r]`. The
preservation proof has a lemma per conjunct, each with a step per action;
`StepInv` combines them, and the theorems close with PTL. `EndsStay` has an
invariant of its own that begins when the workflow has ended: a request that
reads a terminal status is refused or is a PATCH (`Harmless`).

The second half of `WorkflowRequestsProofs` is about requests that do not
overlap. Its theorems have the hypothesis `MaxInFlight = 1`, as the run
`serial` does; requests, endpoints, manual targets, aborted attempts and the
states that clients PATCH are arbitrary. Without the hypothesis a second
decision is accepted, as `two_decisions` shows.

- `AuditPath`: `Spec => []AuditIsAPath`;
- `RequestsImplementContract`: `Spec => ContractSpec`, by the refinement
  mapping of `Contract`: the status of the row, its final records, and the
  decisions whose requests have committed. Only a commit changes any of them;
  every other step is a stutter;
- `SerialDecisionsHold`: the four promises of `WorkflowContract`, carried over
  from the abstract specification to the code.

`SerialInv` extends `IInv`. What the code checks when it reads must still hold
when it commits: `Permits` says so of each endpoint. `Objects` says in what
the session's object may differ from the row, by the place the request is at;
of the records a PATCH brings it says nothing, as they may be any. The lemmas
on sequences (`PathGrows`, `PathsJoin`, `FinalsOfAppend`) treat the audit
trail and the history.

`WorkflowContractProofs` proves that the abstract contract keeps its promises:
`DecisionsHold`, `Climbs`, `RecordsFollow`. That a client may remove a final
record and yet no second decision be accepted is `OpenGate`: while a decision
may be taken none has been, whatever is on file.

`EventStreamProofs`, for any requests, pages and bounds (`BoundsAssumption`
says that the bounds are natural numbers):

- `StreamTyping`: `Spec => []TypeOK`;
- `EventsArriveOnce`: `Spec => []SentOnce`;
- `NoEventIsDropped`: `Spec => NothingDropped`.

`SentOnce` is not inductive: a publication appends to the queue an event that
might be there from the backlog. The invariant `Inv` adds why it is not:
requests append different events (`PendingApart`, `PendingPast`), what is
stored belongs to a committed request (`StoredIsCommitted`), and the event a
request is publishing is on no socket (`NewestUnsent`). `AppendFacts` and
`TailFacts` are the lemmas on sequences.

`TelegramBridgeProofs`, for any numbers of messages and sessions and any
command lines (`BoundsAssumption`, `KindsAssumption`), in four parts:

- `BridgeImplementsInbox`: `Spec => ImplementsInbox`. `ReadInv` says that a
  batch is an interval that starts behind the message the session has come to,
  and that a session without an offset has come to what is confirmed. Each step
  maps to one of Inbox or stutters; a poll acknowledges, `Take` tries.
- `BridgeLosesNothing`, `BridgeTriesOnce`: what `Inbox` promises holds of the
  bridge. A message that is not delivered again has been tried, and a session
  tries it at most once. `ReaderInv` is about the reader the bridge implements:
  `Tried` says that the messages up to where the session is were tried, by it
  or before it, and that those behind were not tried by it.
- `SessionsMakeOneWorkflow`: `Spec => []OneWorkflowPerSession`. `MadeInv` says
  that what is made or asked for is none of this session behind the message
  it has come to, that no two calls are about the same, and that no call is
  about a workflow there is.
- `WorkflowsComeFromRequests`: `Spec => []OnlyRequestsBecomeWorkflows`, for
  texts of all kinds and any answer of a model. `FoundInv` carries what the extraction found from the login to the call and
  from the call to the workflow.
- `TheBridgeTellsTheTruth`: `Spec => []RepliesAreTrue`. `TrueInv` says that an
  answer is about the call that is awaited. That the run it reports is of the
  workflow the reply names needs `OneWorkflowPerSession`.

`MadeFrame`, `FoundFrame`, `TrueFrame` and `TrueServed` treat the steps that
have the same effect on a part of the state.

`RuntimePipelineProofs`, for every set of LLM settings the schema of the
settings admits (`ConfigurationAssumption`: any provider and fallback, keys or
none, up to ten retries), with and without retrieval:

- `PipelineTyped`: `Spec => []TypeOK`;
- `CompletionsAreBounded`: `Spec => []AttemptsAreBounded`;
- `RetriesAreTransient`: `Spec => []OnlyTransientFailuresAreFollowed`;
- `ProgressAccountsAgree`: `Spec => []AccountsAgree`;
- `GroundingIsKept`: `Spec => []EvidenceIsKept`;
- `CompletionsAreValidated`: `Spec => []OnlyValidatedCompletions`;
- `FailuresAreRecorded`: `Spec => []FailureIsRecorded`;
- `CompletedStagesStay`: `Spec => CompletedStagesAreFinal`.

The first part is about one completion. `CallInv` counts: attempts made and
attempts left add up to `max_retries + 1` while the primary is asked, and all
that was followed so far was a transient failure (`Followable`). The body of an
answer never makes a transient failure (`BodiesTyped`), which is why a
completion that came is not asked for again. The second part is about the
pipeline. `PipelineInv` says where it is by the number of completed stages
(`Where`: they are the first ones, the queue holds the rest), and what the
payload, its log and the row hold there (`Accounts`, `Evidence`, `Saved`).
`StreamOf` is the condition under which `ReadStream` may replace the payload
by what the graph yields: the two agree then, because no grounded stage is
behind.

`KnowledgeIngestionProofs`, for any number of operators, any catalogs, filters,
limits and embedding dimensions:

- `VectorsOfWholeCatalogs`: `Spec => []VectorsAreWholeCatalogs`;
- `CommitsAreStored`: `Spec => []CommitMeansStored`;
- `RerunsDoRecover`: `Spec => []RerunsRecover`;
- `SearchesAreComplete`: `Spec => []SearchIsComplete`.

`CatalogAssumption` is what the code refuses otherwise before it writes
anything: a catalog has documents (`app/knowledge/ingestion.py:89`), and each
has at least one chunk (`app/knowledge/chunking.py:65`). `SearchAssumption`
says that the dimensions are positive and that a filter is finite. `StoresInv`
adds to the first three properties what an ingestion has written so far
(`Uploaded`), that what an ingestion alone has looked up is still so
(`Undisturbed`), that a collection stays (`CollectionStays`), and that a
point's identifier tells its chunk (`Vectors`), without which two points could
be about the same chunk. `QuietStep` treats the six operations that neither
upload nor upsert. `AnswersAreComplete` is a counting argument: when the
candidates fall short of what matches, those that match and those that do not
fill the limit between them.

`ChunkingProofs`, for every document and every configuration the code accepts
(`DocumentAssumption`, `ConfigAssumption`: a content that is not blank, an
overlap smaller and a minimum no larger than a chunk):

- `ChunksDoFit`: `Spec => []ChunksFit`;
- `NothingGetsLost`: `Spec => []NothingIsLost`;
- `ChunksStayNormal`: `Spec => []ChunksAreNormal`;
- `LoopDoesAdvance`: `Spec => LoopAdvances`;
- `ChunkTypes`: `Spec => []TypeOK`.

They rest on what the normalisation makes of a document, which is known by
induction over its characters. The induction theorems of the library cannot be
instantiated here, so that `Induction` is proved from facts about finite sets:
if a set has 0, and with each number the next, but not n, then subtracting one
maps the numbers up to n that it lacks one-to-one into those below n that it
lacks, and there are fewer of these. `Flattening` gives the texts that grow
piece by piece to the concatenation, and two theorems follow:

- `Normalization`: the result begins and ends in a word, has a blank or a
  blank line between two words and nothing else (`IsNormal`), and has as many
  word characters as the document. `Form` says what is there after i
  characters, inside a word, before the next one or after the last;
- `NormalizationIsIdempotent`: a text of that form is left as it is.

`ChunkInv` is the invariant. Until the merge every chunk is one cut, which
begins and ends in a word (`IsOne`), afterwards also two cuts that fit a chunk
together (`IsJoint`); what lies before the next window is in a chunk
(`Covered`), and the last chunk ends at most the overlap behind the window's
start (`Reached`). None of the properties is inductive: that the last chunk is
near enough is known only from where the window was set, and that a next
window begins inside the text needs its last word, hence `IsNormal`. A chunk
is normal because a cut between words of a normal text is
(`NormalCut`), and two of them around a blank line are (`NormalJoin`).

`DemoSeedProofs`, for any accounts, browsers, seeds, requests, changes and
lifetimes (`LifetimesAssumption`, `ContractAssumption`: the accounts, their
roles and the workflows are the contract's):

- `SeedsAreAllOrNothing`: `Spec => []SeedIsAllOrNothing`;
- `OnlyOverlapsDoTear`: `Spec => []OnlyOverlapsTear`;
- `DeactivationsEndSessions`: `Spec => []DeactivationEndsSessions`;
- `SeedsDoRestore`: `Spec => SeedRestores`.

`SeedInv` says that no token is older than now (`Sessions`), which makes the
moment of a deactivation a bound for all that is left; that an account which
was read stays (`Known`); that what an undisturbed run has read is what there
is (`Current`); and that a request was made at the status it is for
(`Requested`), from which the decisions it commits fit the status it commits
(`ResponsesAgree`).

TLC found `SerialInv`, `PipelineInv`, `StoresInv`, `SeedInv` and `ChunkInv` to
hold on the instances of `serial` (with four requests), `pipeline`,
`ingestion`, `seed` and `chunking` before they were proved.

Only model-checked is liveness (`ReconnectionRecovers`, `NextEventReleases`,
`EveryRequestEnds`, `RunsStop`, `MessagesAreConfirmed`), as liveness under
fairness is beyond the prover. That the loop of `_split_text` terminates is
proved as far as it is safety: every pass but the last moves the start forward
in a finite text.

## 6. Not modelled

- Payload validation (Pydantic) before a handler starts: a request that fails
  it does nothing. A payload whose runtime stage the adapter does not know is
  modelled (`RejectPayload`), as it is found in the middle of a handler.
- The roles that may create or read a workflow, and the check of a WebSocket's
  token at its connection: `Access` has the full-access check only, and no
  property relates the others to a state.
- Reading and appending endpoints (`GET`, `POST .../events`): they change
  neither status nor payload.
- Wording: prompts, queries, replies in two languages, what a parser makes of
  a price or a quantity; the ranking of search results; the hash that an
  identifier is made of.
- The dry run of an ingestion, which writes nothing, and the commands around
  seed and ingestion.
- Deletion and download in the storage clients and the Redis cache client,
  which no modelled flow calls; price research, which nothing calls.
- PostgreSQL's lock on what a seed has flushed: leaving it out lets more
  happen, and the properties hold of more.
- An administrator's console: the program has none; `Administer` stands for
  changes made in the database.
- Two workflows: rows are independent; nothing in the code relates them.
- Soft deletion: no endpoint deletes a workflow.
- Serialization failures and deadlocks between rows: READ COMMITTED sessions
  of this code write one workflow row each, and insert the rest.
- The components of section 1 without state of their own.

Two hazards in `PROJECT.json` have no property, and say why: the order of
event pages, which no document promises, and the redundant chunks of
`app/knowledge/chunking.py`.

## 7. Running

    tlc -config WorkflowRequests_serial.cfg MCWorkflowRequests
    tlc -config WorkflowRequests_concurrent.cfg MCWorkflowRequests
    tlapm WorkflowRequestsProofs.tla
    tlapm WorkflowContractProofs.tla
    tlc -config EventStream.cfg MCEventStream
    tlapm EventStreamProofs.tla
    tlc -config RuntimePipeline.cfg MCRuntimePipeline
    tlapm RuntimePipelineProofs.tla
    tlc -config Chunking.cfg MCChunking
    tlapm ChunkingProofs.tla
    tlc -config KnowledgeIngestion.cfg MCKnowledgeIngestion
    tlapm KnowledgeIngestionProofs.tla
    tlc -config TelegramBridge.cfg MCTelegramBridge
    tlapm TelegramBridgeProofs.tla
    tlc -config DemoSeed.cfg MCDemoSeed
    tlapm DemoSeedProofs.tla

# YuruPager in TLA+

YuruPager lets a team follow and steer coding agents that run on somebody's
workstation: a **connector** next to the agent (Codex `app-server`, or an ACP,
Cursor or ZCode agent) talks over one WebSocket to a **server** (Fastify and
PostgreSQL), and collaborators use a web or an iOS application. The
specifications here cover what happens to messages, approvals, events, streams,
images, workflows and previews when processes crash, connections break, answers
are late and several people act at once, and the algorithms that decide what is
sent, accepted and shown.

Paths are relative to the root of the repository's own tree (`src/connector/...`
is the connector, `apps/server/...` the server, `apps/web/...` the view).
`PROJECT.json` lists, for every definition, the lines it stands for; this
document says how the parts fit.

1. [The system](#1-the-system)
2. [Modules](#2-modules)
3. [Runs](#3-runs)
4. [Fairness](#4-fairness)
5. [Theorems](#5-theorems)
6. [Plan](#6-plan)
7. [What the code does otherwise than one would think](#7-what-the-code-does-otherwise-than-one-would-think)
8. [What is not modelled](#8-what-is-not-modelled)

## 1. The system

### Components, their state and their operations

| Component | State it keeps | Operations | Module |
|---|---|---|---|
| Command queues of the connector (`src/connector/runtime.ts`, `src/reliability/sqlite-command-journal.ts`, `src/codex/json-rpc-client.ts`) | per-thread FIFO and block flag, one temporary turn client per queue, promise per command; command journal, outbox (SQLite) | handle a command, pump, prepare, begin dispatch, write `turn/start`, observe turn events, timers, stop, restart | `CommandQueue` |
| Command delivery (`apps/server/src/{repository,connector-repository,connector,app}.ts`, `session-relay/connector-links.ts`, `src/transport/connector-cloud-client.ts`, `src/connector/multi-agent-runtime.ts`) | `session_commands`, `connector_outbox`; connection with `queued` and `sent`; `transport_inbox`, `#processingInbound` | POST, push, hello and replay, activate, ack, report of an outcome | `CommandDelivery` |
| Event transport (`src/transport/{sqlite-message-store,connector-cloud-client}.ts`, `apps/server/src/{connector,connector-repository}.ts`) | `transport_outbox`; `connector_inbox`, cursor; chain of handlers per socket | enqueue, flush, hello, welcome, apply, reject, ack, reconnect | `EventTransport` |
| Approvals (`src/connector/runtime.ts`, `src/codex/*`, `src/reliability/sqlite-{approval-journal,decision-ledger}.ts`, `apps/server/src/{repository,connector-repository}.ts`, `apps/web/src/request-detail.tsx`) | `#pending`, `#pendingByRpc`, timers; ledger, approval journal; `agent_requests`, `request_decisions` | ask, time out, resolve elsewhere, interrupt, decide, dispatch, write, expire, restart; what a decision may say | `ApprovalDelivery`, `RequestDecisions` |
| Planning workflow engine (`src/workflow/{engine,run-journal,templates}.ts`) | active runs, waiters, session marks, journal | dispatch, start a node, verify, gate, retry, cancel, offline and online, restart | `WorkflowEngine`, `WorkflowRunLife` |
| Workflow state of the server (`apps/server/src/workflow-repository.ts`, `app.ts`, `connector-repository.ts`) | runs, outbox rows, pushes | run, cancel, replay, apply reports | `WorkflowSystem` |
| Workflow canvas and definitions (`apps/web/src/workflow-canvas.tsx`, `apps/server/src/{app,workflow-repository}.ts`) | drawing; definition rows | add, connect, edit, validate, save, autosave, open, run, delete | `WorkflowDefinition` |
| Session streams (`src/connector/runtime.ts`, `src/codex/conversation.ts`, `apps/server/src/session-relay.ts`, `session-relay/codec.ts`, `apps/web/src/{session-timeline,App}.tsx`) | streams with revision, snapshot and sync in flight; routes of users; timeline of the view | subscribe, authorize, read, notify, patch, poll, unsubscribe, detach | `SessionStream` |
| Items of a conversation (`src/codex/{conversation,image-media}.ts`, `apps/web/src/{image-assembly,session-timeline}.tsx`) | entries; pictures being put together | item to entry, entry to frames, frames to entries | `ConversationItems` |
| Image attachments (`apps/web/src/{attachment-upload,session-composer}`, `session-relay/attachments.ts`, `src/codex/local-image-store.ts`) | composer; upload routes; parts, images and rows | begin, chunk, complete, cancel, expire, commit, restart | `AttachmentUpload` |
| Preview streams (`apps/server/src/preview-relay.ts`, `preview-relay/streams.ts`, `src/preview/tunnel.ts`) | two windows with credit and offsets, queues | open, chunk, credit, end, fail, close | `PreviewStream` |
| Preview access (`src/preview/{command,client}.ts`, `apps/server/src/preview-{connector,relay,repository,gateway,security}.ts`, `preview-relay/capacity.ts`) | row of the route, registered socket, tickets, cookies, waiting requests | hello, sync, mark, stop, revoke, expire, launch, authorize, admit | `PreviewAccess` |
| Pairing (`apps/server/src/pairing-repository.ts`, `src/connector/setup.ts`, `connector.ts`, `management-repository.ts`) | pairing row, credential, setup's claim, sockets | create, claim, list, approve, cancel, poll, revoke, connect | `WorkstationPairing` |
| Other agents (`src/agents/*`, `src/connector/multi-agent-runtime.ts`) | session store, turns, parked permissions, polls | prompt, permission, decide, end of turn, exit, restart | `AgentRuntimes` |
| Token usage (`src/codex/adapter.ts`, `src/connector/runtime.ts`, agents, `connector-repository.ts`, `src/reliability/token-accumulator.ts`) | snapshots, rollups; accumulator | read, number, insert, roll up, complete | `TokenUsage` |
| Session discovery (`src/connector/runtime.ts`, `connector-repository.ts`, `repository.ts`) | `agent_sessions`, titles | list pages, report, apply inventory, show | `SessionInventory` |
| Workspace access, members, push (`apps/server/src/{management-repository,repository,push-service,auth}.ts`, `db/migrations/0001…`) | members, grants, invitations, workstations, subscriptions, web sessions | create, invite, accept, change role, remove, grant, revoke, notify, sign out | `WorkspaceAccess` |
| Codex adapter and JSON-RPC client, multi-agent fan-out, connector program, server shell, web application | | the parts that belong to a protocol above are in its module | partly |
| Decision gate, shared types, iOS application, evidence scripts, build and deployment | | | no: [section 8](#8-what-is-not-modelled) |

### How they interact

```
 collaborator --POST--> server --session.command--> connector --turn/start--> agent
      ^                   |  ^                        |  ^                      |
      |                   |  +---- events (outbox) ---+  +---- requests --------+
      +---- live frames --+------ decision, dispatch --->        answers ------>
      |                   |
      +-- preview host -->+------ preview streams ------> `yurupager preview` ----> local server
```

* The server pushes a command, a decision or a dispatch when it is created and
  replays the unacknowledged ones on every connection (at least once). The
  connector answers with a transport `ack`.
* The connector's events go through an SQLite outbox, are flushed in full at
  every opportunity, deduplicated by the server's inbox and acknowledged one by
  one or by a cursor. `WorkflowSystem`, `ApprovalDelivery`, `TokenUsage` and
  `SessionInventory` build on what `EventTransport` shows of them.
* Frames of a session and bytes of a preview or an image are sent once, over the
  connection of the moment; each of these protocols repairs a loss by itself.
* Inside the connector and inside the server everything is one thread; what is
  between two `await`s is atomic. The handlers of one socket run one after the
  other, those of two sockets, and the close handlers, do not. The agent, the
  database and the browser are other processes.

### What is hard

* *Crashes between a durable mark and an effect*: journal and `turn/start`,
  journal and response, image and row, dispatch and journal of a run.
* *Unknown outcomes*: a request that timed out may still take effect; it must be
  neither repeated nor reported as failed.
* *Orders nobody planned*: terminal events before the response that names their
  turn, a push racing a replay, the handlers of a closed socket beside those of
  its successor, a read that is older than the notifications already sent.
* *State read before an await and used after it*: a subscription authorized
  while its socket closes, a chunk whose upload expires meanwhile, a route
  admitted while its connection is replaced, a credential revoked while its
  connection registers.
* *Waiting*: a queue that nobody pumps, an ask whose timer is gone, a browser
  that waits for a status, a stream whose credit is on its way, a gate.

`PROJECT.json` lists the most telling of these hazards at the lines where they
bite, with the properties that cover each.

### What makes each component correct

| Component | Properties |
|---|---|
| Command queues | a command is written to an agent at most once; turns of a thread do not overlap; fate and writes follow `CommandLatch`; queues move on |
| Command delivery | an acknowledged command has passed the journal or is kept by the queue that was told of it; server and journal agree; a command is in flight once per connection; answered messages keep their order |
| Event transport | while the server applies what it gets: nothing is forgotten before it is committed, and order; arrival |
| Approvals | at most one answer, the chosen one; *delivered* means written; every ask ends; unknown dispatches are reported; what is accepted can be answered; nothing is granted without a confirmation |
| Workflows | the walk never forks; no hand-off before a confirmation; a run ends, but for a gate or a dropped deadline; what the server shows is executed; a cancellation reaches the engine |
| Definitions | what the canvas accepts is a line, and the server accepts it; what is opened saves as itself |
| Session streams | the connector knows what the view has; the view catches up; a user who has gone holds no route |
| Items | what was followed live is what a later read finds; frames rebuild their entry; a picture is shown whole or not at all |
| Attachments | a ticket names a stored image; every piece is answered; nothing is left behind |
| Previews | a response shown as complete is whole; both sides end; one context per ticket; who is denied stays out; streams are carried; the status is true, or one of three named things was missed |
| Pairing | who is let in was shown; who is revoked stays out; a setup ends |
| Other agents | what is granted was approved; who waits can be answered, but for the tasks of an agent that is not the default one; a turn ends once; text is shown once |
| Token usage | a rollup shows the newest snapshot, never goes back, and follows the accumulator |
| Session discovery | a refresh shows exactly the threads that were listed, and hides none of another agent |
| Workspace access | grants belong to members; an invitation is good once; who is notified may answer |

## 2. Modules

| Module | What it is |
|---|---|
| `CommandLatch` | abstract: each command has a fate that is decided once, and an agent is sent it at most once |
| `CommandQueue` | the queues, turn clients and journal; implements `CommandLatch` (`ImplementsLatch`) |
| `CommandDelivery` | extends `CommandQueue` by the server, the link and the cloud client of the connector: their composition |
| `EventTransport` | the outbox, the connections and the inbox |
| `ApprovalDelivery` | asks and decisions between Codex, connector and server |
| `WorkflowRunLife` | abstract: what the server may count on in an engine: which runs it executes, and the status it last reported |
| `WorkflowEngine` | the engine and its journal; implements `WorkflowRunLife` (`ImplementsRunLife`) |
| `WorkflowSystem` | composes `WorkflowRunLife` with the server's rows, its two ways of sending, and the link |
| `SessionStream`, `AttachmentUpload`, `PreviewStream`, `PreviewAccess`, `WorkstationPairing`, `AgentRuntimes` | the protocols of these components, all ends in one module |
| `RequestDecisions`, `TokenUsage`, `SessionInventory`, `WorkflowDefinition`, `WorkspaceAccess`, `ConversationItems` | *operator modules*: algorithms without variables, as functions from a state or an input to the next one |
| `CommandDeliveryProofs`, `EventTransportProofs`, `ApprovalDeliveryProofs`, `WorkflowEngineProofs`, `SessionStreamProofs`, `WorkstationPairingProofs`, `PreviewProofs`, `AgentRuntimesProofs` | theorems about the module they are named after and about its neighbours: `CommandDeliveryProofs` also about `CommandQueue`, `EventTransportProofs` about `TokenUsage` and `AttachmentUpload`, `ApprovalDeliveryProofs` about `RequestDecisions`, `WorkflowEngineProofs` about `WorkflowDefinition`, `SessionStreamProofs` about `ConversationItems`, `WorkstationPairingProofs` about `SessionInventory` and `WorkflowSystem`, `PreviewProofs` about `PreviewAccess` and `PreviewStream`, `AgentRuntimesProofs` also about `WorkspaceAccess` |
| `MC*` | instances for TLC; configurations are named `MC<module>_<run>.cfg` |

Definitions whose comment begins with *Faulty variant* are not part of any
specification: each is a plausible bug of the operator it stands before, used to
see that a property fails when the code is wrong (`mutants` in `PROJECT.json`).

An action is what the code does between two awaits, with its guards and early
returns. Below, per module, what state and actions correspond to.

### CommandQueue

| State | Code |
|---|---|
| `journal` | `session_command_delivery.state`; `absent` is no row |
| `reports` | the statuses of `session.command.updated` ever put in the outbox |
| `queue[t]` | `#remoteCommandQueues`: `pending`, `blocked` and `active`, a `RemoteTurnClient` with the phase its run is in |
| `handler[c]` | the promise `#handleSessionCommand` returned last (`#remoteCommandJobs` has the command while it is `waiting`) |
| `turn`, `written` | the agent: the turn of each command, and how often `turn/start` was written |

`HandleFresh` and `HandleKnown` are the two paths of `#handleSessionCommand`,
the trailing pump included; `ClientReady`, `AttachmentsRejected`, `ResumeFails`,
`BeginDispatch`, `TurnStartSucceeds` and `TurnStartUnknown` are the stages of
`dispatchSessionCommand` and of the code after it in `#runQueuedSessionCommand`;
`Observe` is the notification handler with its terminal-event bookkeeping;
`ReleaseTimer`, `UnknownTimer` and `ClientClosed` release a writer. `Crash` may
happen at any await, and `CrashBeforeWrite` between the journal's commit and the
write. `Stop` lets requests that are cut off fail their command before the exit.

### CommandDelivery

`SendCommand` and `RetryPost` are the transaction of the POST, `PushCommand` the
push that follows in the route; between the two the server may restart and the
connection may change. `Connect`, `ReadReplay` and `Activate` are the handshake:
the replay is read in a transaction while pushes are held. `Deliver` hands a
command to the runtime's `HandleFresh` or `HandleKnown` in the same step. The
variable `awaits` says which handler is registered: `TRUE` for
`ConnectorRuntime`, whose promise `#handle` awaits, `FALSE` for
`MultiAgentRuntime`, which `src/connector/main.ts` wires and which does not wait.
Reports arrive here in any order, which is more than `EventTransport` allows.
`dropped` is a history variable: the commands that were in the queues of a process
when it went down.

### EventTransport

A flush writes all pending events, so a message of the model is a *batch*: the
set of sequence numbers that a flush wrote and the server has not handled. The
server takes the least first. A connection is a number; the chains of older
connections go on (`Serve(e)` for every `e`), since the chain is not tied to the
socket. `HandleHello` answers with the cursor, `WelcomeArrives` is
`acknowledgeThrough` and the flush behind it. `RejectEvent` is a transaction that
fails, after which the messages behind it are still handled.

`Hello` is not always the first: the cloud client tells the agents that a socket is
open before it greets the server (`connector-cloud-client.ts:175`). Those of ACP and
Cursor publish the sessions they have there (`announces`), which flushes events
ahead of the hello (`OpenAnnouncing`); those of Codex and ZCode send nothing yet
(`OpenQuietly`). The server refuses such a connection (`RefuseUngreeted`), and `early`
remembers which they were.

### ApprovalDelivery

An *ask* is one JSON-RPC request of one app-server; a *request* is what the
server shows, identified by a hash of thread, turn and item, so several asks may
be for one request. `pending` and `pendingByRpc` are the two maps of the
runtime, with the keys they have in the code (the JSON-RPC id alone in the
second). `Settle` resolves or rejects a promise, whose response is written in a
later step (`WriteResult`, `WriteError`), before any timer or message of Codex
(`Idle`). `Reboot` is a kill and the start that follows, with what the journal
then holds; `CrashWhileDispatching` and `CrashWhileWriting` put the kill inside
a step. `Foreign` are the permission requests of other agents, whose decisions
go to the default runtime.

### WorkflowEngine, WorkflowRunLife, WorkflowSystem

The engine is one asynchronous function per step of a run, so its control state
is the set of promises it waits for: `awaiting`, a set of continuations
`[o, i, a, at]` of an `ActiveRun` (object), node and attempt. Nothing in the
code removes a continuation when its run ends; a run may therefore have several
objects, of which `active` names the latest. `Resume` runs a settled
continuation; `Work` settles one (probe, session, end of a turn, verification,
timer). The deadline of a task turn settles nothing: its wait becomes `"dropped"`.
`journal` is `workflow_run_journal`, `shown` the statuses last reported
of the run (0) and its nodes. `Crash(restore)` is a restart that calls the
engine's `start()` or, as `main.ts` does, does not.

`WorkflowSystem` has the server's side: a request of a run checks for an active
run and inserts in two steps, a row in the outbox and a push under another id
are the same content twice, every connection replays unacknowledged rows, and
`reports` are applied in order. Its engine is `WorkflowRunLife`, which
`WorkflowEngine` is shown to implement.

### SessionStream

`thread` is what `conversationSnapshot` would show, changed by a turn that a
client of the connector runs (`notified`) or by another client. The connector
sends a history (`ThreadRead`), then frames as notifications arrive (`Notify`),
and corrects by patches against the snapshot it believes the viewer to have
(`Sync`, `SyncDone`, polled). `control`, `up` and `stale` are the link;
`intents` and `toUser` the user's socket; `pending` and `checking` the two
authorizations the server awaits. `HandleStale` is a frame of an old connection
that is handled while the next one is served; its first occurrence sets
`overlap`. Entries are ids with texts in pieces; their content is the subject of
`ConversationItems`.

### AttachmentUpload

`web` is the composer with the status it waits for, `uploads` the server's
registry, `busy` the message whose authorization it awaits, `store` the files
and rows of the connector (`part`, `image`, `stored`). `Crash` may come between
the rename and the transaction. `lost` and `cut` remember faults the liveness
properties excuse. Offsets stand for bytes, because the image of a draft does
not change.

### PreviewStream and PreviewAccess

In `PreviewStream` bytes are chunks of one unit of the window; each direction
has the sender's credit and the receiver's buffer, and grants travel as
messages. `Break` ends the link, `ServerDetaches` and `TunnelCloses` are the two
close handlers. `PreviewAccess` has one route: its `row`, its registered socket
(`routeSocket`), the sockets of the preview process with the messages and the
task that each handler is in (`task` between two transactions), the one-time
ticket with the posts that redeem it, and the requests of a browser through
session, row, capacity and admission. `missed` is a history variable: what a
registration came too late for, the end of its connection, a stop, or, the other
way round, the write of an ended connection that comes after a later
synchronization. A request that is refused leaves the row as it is: the expiry it
writes is rolled back with the exception (`preview-repository.ts:301`).

### WorkstationPairing

One pairing code and several setups that try to use it, then the sockets of the
paired connector. `time` has the two deadlines of the row; an HTTP call may fail
before or after its transaction; `Identify` and `Register` are the two halves of
`connector.ts` around its await, between which a revocation may pass (`Missed`).

### AgentRuntimes

The three runtimes differ in when a turn is opened, where a permission is parked
and how its end is noticed; `kind` says which one the current life of the
connector has, and the store is shared. `default` says whether it is the first of
the configuration: only that one gets commands, streams and decisions
(`multi-agent-runtime.ts:72`, `:83`), any of them gets tasks of workflows. `Crash`
is an unhandled rejection of a handler that the fan-out does not await.

### The operator modules

`RequestDecisions` follows a decision from what Codex asks (`RequestPayload`),
what the view offers and sends (`ViewSends`), what the server accepts
(`Accepts`) to the response (`CodexResponse`). `TokenUsage` has the report of a
runtime, the number the outbox puts in the place of the runtime's own
(`Sequenced`), the insert and the rollup of the server (`ApplySnapshot`,
`ApplyCompleted`) and the accumulator of ADR-007 (`Ingest`). `SessionInventory` has discovery over pages, the reports
of sessions (`ApplyUpserts`) and the two updates of an inventory
(`ApplyInventory`). `WorkflowDefinition` has the canvas, `validateLinear` as a
walk over a recursive function, and what the server stores.
`WorkspaceAccess` has the functions row policies rest on and every transaction
on members and grants; one that checks without a lock has an operator per half.
`ConversationItems` has items, entries and frames on both ends, texts as
sequences of code points with their UTF-8 lengths and pictures as sequences of
bytes.

## 3. Runs

One run per module that has a behaviour; each asks what its module is for.
Bounds are guards on counters named in the modules, or constraints named in the
`MC` modules.

| Run | Instance | Shows |
|---|---|---|
| `command_queue` | two commands on one thread, a third on its own; one crash or stop; any number of redeliveries, child exits and foreign turns | `AtMostOneTurnStart`, `SerialTurns`, `ImplementsLatch`, `QueueMoves` |
| `command_delivery` | two commands on one thread and one fault: with the awaited handler a crash or stop of the connector, with the fan-out handler a broken connection or a restart of the server; ACKs lost or late | `AckedIsKept`, `ServerAgrees`, `SentOncePerConnection`, `SentOrderKept` |
| `event_transport_links` | two events, up to three connections, two faults of which one may be a failing transaction; sessions that are announced before a hello | `NothingLostWhileApplied`, `AppliedInOrderWhileApplied`, `Arrives` |
| `approval_delivery` | one approval asked up to twice in each of two lives of the connector; or a question; or a request of another agent | `AnsweredOnce`, `DeliveredWasWritten`, `NobodyWaitsForever`, `AmbiguityReported` |
| `workflow_engine` | one run of two nodes, one verified and one with a gate, one retry, dispatched up to twice, one crash (restored or not) or one lost connection | `OneStepAtATime`, `HandOffAfterConfirmation`, `RunEnds`, `ImplementsRunLife` |
| `workflow_system` | one run, two cancellations, three connections, one crash | `ServerKnows`, `CancelReaches` |
| `session_stream` | one viewer of one thread, three events out of changes, subscriptions and one fault | `ConnectorKnowsView`, `GoneUsersHaveNoRoute`, `LiveViewCatchesUp` |
| `attachment_upload` | one image of two chunks, two attempts, two faults | `TicketIsStored`, `AnswerArrives`, `NothingLeftBehind` |
| `preview_stream` | three chunks in each direction through a window of two, HTTP and WebSocket | `CompleteIsWhole`, `BothSidesEnd` |
| `preview_access` | two sockets of the process, one ticket posted twice, one request, two stops; everything a registration can miss | `OneContextPerTicket`, `DeniedStaysOut`, `StreamsAreCarried`, `StatusIsTrue` |
| `workstation_pairing` | two setups with one code, two sockets of the paired connector | `ApprovedWasShown`, `RevokedStaysOut`, `SetupEnds` |
| `agent_runtimes` | two lives of the connector with any of the three agents, as the default one or another, two prompts, two permissions | `GrantWasApproved`, `WaitingIsAnswerable`, `TurnEndsOnce`, `TextShownOnce` |

*Operator modules* have no behaviour to run. The `MC` module of a neighbouring
component extends each of them and states, as assumptions that TLC evaluates at
the start of that run, what the operators do on every input of a small set:

| Operators | Evaluated with | What is checked on all small inputs |
|---|---|---|
| `RequestDecisions` | `approval_delivery` | what is accepted can be answered, and grants only what was confirmed; what the view sends is accepted; every kind of decision occurs |
| `TokenUsage` | `event_transport_links` | after every sequence of up to two snapshots and the ends of turns, rollups show the newest and follow the accumulator; added usage is never negative |
| `SessionInventory` | `workstation_pairing` | over lists of up to two pages, what was found is what is shown; titles keep their bound and order |
| `WorkflowDefinition` | `workflow_engine` | over all graphs of up to three nodes `validateLinear` finds exactly the lines, and each of its errors occurs; what is opened saves as itself; what the canvas accepts the server accepts; active workflows keep their workstation |
| `WorkspaceAccess` | `preview_access` | transactions one after the other keep grants with members; the two halves of an update with a removal between them do not; invitations are good once; who is notified may answer; repetitions add nothing |
| `ConversationItems` | `session_stream` | text is cut between code points and nothing is lost; frames rebuild an entry; what was followed live is what a read finds, with the exceptions of section 7; a picture is shown whole or not at all, whatever frames are lost, repeated or mixed up |

### Bounds, and why they are enough to be interesting

* *Queues and delivery.* Two commands on one thread are what a queue, a block,
  an order and an overlap need; the third shows that threads do not disturb each
  other. One restart lets every durable state meet a redelivery; memory is empty
  after it, so a second one leaves nothing in the journal the first does not.
  A behaviour has one fault (`OneFault`): with the awaited handler the connector
  dies; with the one that `main.ts` registers it dies, a connection breaks or the
  server restarts, and all of `AckedIsKept` is at stake. The two commands are
  interchangeable (`SYMMETRY`); the run has no liveness property. The theorems
  about `CommandDelivery` need no such constraint.
* *Events.* Two connections side by side are what a stale chain needs; two
  breaks give three. `MaxFaults` lets at most two faults happen together. After a
  connection on which sessions were announced the next one of the same process,
  which the server refuses in the same way, is left out (`OpenAnnouncing`).
* *Approvals.* Two asks are what a repeated item and a stale timer need.
  `OneKind` keeps approvals, questions and requests of other agents to behaviours
  of their own, because they share no state but the clock of the connector;
  `MaxQueued` bounds, after a restart, the events not yet applied. There is one
  app-server: with two of them `DeliveredWasWritten`, `NobodyWaitsForever` and
  `AmbiguityReported` are false, see section 7, and all three are stated under
  `OneAppServer`. There is one approval, since a second one takes the state space
  past what TLC finishes; approvals meet in the numbers of `#pendingByRpc`, which
  the two asks of one approval share in the same way.
* *Workflows.* Two nodes have a hand-off, and one of them is retried once, so
  that the last allowed attempt is reached; two objects are what a run that ended
  and is dispatched again needs. Several runs meet only in `OtherRunEnds`, which
  clears the sessions of every run, as the code does.
* *Streams.* `MaxEvents` lets three events happen, in any order and with any
  delay of what they caused; a fault between two changes is among them. A window
  of two with three chunks makes credit run out once in each direction, and come
  back late. Two attempts of an upload are what a stale answer needs.
* *Previews and pairing.* Two sockets are what a superseded connection needs, two
  setups what a competition for a code needs. The two posts of `preview_access`
  are interchangeable (`SYMMETRY Browsers`); that run has no liveness property.
* *Agents.* `TextOrAsks` keeps text and permissions apart, which share only the
  life of the connector. `OneBefore` lets a second life begin with at most one
  permission of the first, which is over by then and can only be decided in vain;
  two of them meet within a life.

The theorems of section 5 remove the bounds for the properties they cover.
`CHECK_DEADLOCK FALSE` stands in every configuration because the systems may
really come to rest: every command blocked or answered, every event
acknowledged, every run over.

## 4. Fairness

| Module | Assumed | Why the code justifies it |
|---|---|---|
| `CommandQueue` | a turn client moves on (`ClientStep`); an agent ends its turns while its process lives (`TurnEnds`); the connector is started again | spawning reports or fails, every RPC has a 15 s timeout, the 100 ms and 24 h timers fire, `stop()` gives up after a second; the other two are external: a process that exits is not assumed to end anything, and the connector runs as a service |
| `EventTransport` | reconnection, the chain of each socket, the close of a doomed one, what the connector receives | reconnects have a bounded backoff and no limit on attempts; promise chain per socket; WebSocket close timeout |
| `ApprovalDelivery` | settled promises are continued, armed timers fire, events and decisions arrive | event loop, `setTimeout`, outbox and replay |
| `WorkflowEngine` | one weak fairness of `EngineStep`: promises settle, timers fire, polls are made | 15 s timeouts of RPC, the deadline of each node; nobody has to decide a gate, to cancel or to dispatch |
| `PreviewStream` | both ends handle what they receive, browsers drain, writes are flushed, a local server answers to its end | event loops; the last is external. No timer has to fire |
| `AttachmentUpload` | both ends handle what they receive, queries return, a connector connects again | event loops, backoff. No timer has to fire |
| `SessionStream` | subscriptions, reads, polls and frames are handled, sockets are opened again | event loops, the poll timer, backoff |
| `WorkstationPairing` | the clock runs, a setup goes on; of the calls of a claim that fail again and again one fails after the deadline (strong fairness of `GiveUpClaim`) | `retryTransient` reads the clock after every failure |

Nothing is assumed of users, of breaks, crashes and exits, of other clients of
Codex, or of foreign turns. Liveness properties name what the code does not end
by itself: a thread that is blocked by an unknown outcome, an agent that exited
with a confirmed turn open (`QueueMoves`), a gate and a task turn whose deadline was dropped
(`RunEnds`), a connection on which sessions were announced (`Arrives`), a stream whose
first read failed (`LiveViewCatchesUp`), a socket that was replaced without its
peer being told (`AnswerArrives`).

## 5. Theorems

Proved for all values of the constants:

| Theorem | Statement |
|---|---|
| `CommandDeliveryProofs!TypeCorrect`, `AtMostOne`, `Serial`, `Implements` | `Spec => []TypeOK`, `[]AtMostOneTurnStart`, `[]SerialTurns`, `ImplementsLatch` |
| `CommandDeliveryProofs!AwaitedOnce`, `ReportsAreFinal` | `Spec => []QueuedOnce`, `[]ReportedOutcomeIsFinal` |
| `CommandDeliveryProofs!DeliversToQueues` | `DeliverySpec => Spec`: the delivery implements the queues, so every theorem above holds of it |
| `CommandDeliveryProofs!DeliveryTypes`, `AckedIsHeld`, `ServerIsRight`, `SentOnce`, `SentInOrder` | `DeliverySpec => []DeliveryTypeOK`, `[]AckedIsKept`, `[]ServerAgrees`, `[]SentOncePerConnection`, `[]SentOrderKept` |
| `EventTransportProofs!NothingIsLost`, `InOrder`, `Once` | `Spec => []NothingLostWhileApplied`, `[]AppliedInOrderWhileApplied`, `[]AppliedOnce` (rejections included) |
| `EventTransportProofs!AnnouncedNeverGreeted` | `Spec => []AnnouncedIsRefused` |
| `EventTransportProofs!SnapshotKeepsNewest`, `CompletionKeepsNewest`, `DeltaIsNatural`, `RollupFollowsAccumulator`, `ReportIsShown` | of `TokenUsage`, for every database, accumulator and snapshot |
| `EventTransportProofs!UploadsAreTyped`, `TicketsAreStored` | `UploadSpec => []UploadTypeOK`, `[]TicketIsStored` |
| `ApprovalDeliveryProofs!TypeCorrect`, `AtMostOneAnswer`, `DeliveredMeansWritten` | `Spec => []TypeOK`, `[]AnsweredOnce`, `[]DeliveredWasWritten` |
| `ApprovalDeliveryProofs!AcceptedIsAnswerable`, `PermissionsWereConfirmed`, `AnsweredInFull`, `ViewedIsAccepted` | of `RequestDecisions`, for every request and every input |
| `WorkflowEngineProofs!EngineTypes`, `OneStep`, `Nobody`, `Forgets`, `HandsOver`, `EngineRefinesLife` | `EngineSpec => []WorkflowTypeOK`, `[]OneStepAtATime`, `[]NobodyForgotten`, `[]JournalForgets`, `[]HandOffAfterConfirmation`, `ImplementsRunLife` |
| `WorkflowEngineProofs!LinesAreAccepted`, `OpenedSavesAsItself` | of `WorkflowDefinition`, for every drawing |
| `SessionStreamProofs!StreamTypes`, `KnowsView`, `GoneUsersAreGone` | `StreamSpec => []StreamTypeOK`, `[]ConnectorKnowsView`, `[]GoneUsersHaveNoRoute` |
| `SessionStreamProofs!PatchIsShown` | of the operators of `SessionStream`, for every view and every two conversations |
| `SessionStreamProofs!TextIsChunked`, `HistoryIsRebuilt` | of `ConversationItems`, for every text and every sequence of entries with keys of their own |
| `WorkstationPairingProofs!PairingTypes`, `ApprovesWhatWasShown`, `TokensForTheShown`, `RevokedIsOut` | `Spec => []TypeOK`, `[]ApprovedWasShown`, `[]TokensOfTheShown`, `[]RevokedStaysOut` |
| `WorkstationPairingProofs!OlderReportLosesToNewer`, `RefreshShowsTheList`, `RefreshHidesNoOtherAgent`, `LiveIsActive` | of `SessionInventory`, for every list and table |
| `WorkstationPairingProofs!ServerAlwaysKnows`, `CancelsReach` | `SystemSpec => []ServerKnows`, `[]CancelReaches` |
| `PreviewProofs!AccessTypes`, `OneContext`, `DeniedGetsNoStream`, `Carried`, `StatusFollows` | `Spec => []TypeOK`, `[]OneContextPerTicket`, `[]DeniedStaysOut`, `[]StreamsAreCarried`, `[]StatusIsTrue` (`PreviewAccess`) |
| `PreviewProofs!WholeWhenComplete`, `PeersAlwaysUnderstand`, `CreditIsKept`, `StreamCountsAreBounded` | `StreamSpec => []CompleteIsWhole`, `[]PeersUnderstand`, `[]CreditKept`, `[]StreamTypeOK` (`PreviewStream`) |
| `AgentRuntimesProofs!AgentTypes`, `GrantsAreApproved`, `NobodyWaitsInVain`, `TextIsShownOnce`, `TurnsEndOnce` | `Spec => []TypeOK`, `[]GrantWasApproved`, `[]WaitingIsAnswerable`, `[]TextShownOnce`, `[]TurnEndsOnce` |
| `AgentRuntimesProofs!TransactionsKeepOrder`, `NotifiedMayAnswerAlways` | of `WorkspaceAccess`, for every set of users, workstations and invitations |

*Command queues.* `AtMostOneTurnStart` is not inductive: a client about to
write must be known to find a journal that has not been written from. `IInv`
adds to the types: a client serves a command of its own thread, starts or
resumes only on an unblocked queue, and has the journal its phase implies
(`ClientsAgree`); commands wait at home (`PendingAtHome`); an unknown outcome
blocks its thread unless its `turn/start` is being awaited right now
(`UnknownBlocks`); a command is written at most once, not at all unless its
journal is `sent_unknown` or `delivered`, and before it has a turn
(`WrittenOnce`); and a running turn belongs to the active client of its thread,
past its write (`TurnsOwned`), which gives `SerialTurns`. The two crashes that
matter are `CrashBeforeWrite`, which moves the journal without the write, and
`Stop`, which fails only commands still `prepared`. The refinement reads `fate`
from the journal and `starts` from the writes; `UnknownBlocks` is what makes
`BeginDispatch` a step of the latch, every other action is one of its steps or
leaves both alone.

*Answers.* `AInv` adds to `IInv` that, thread by thread, what is queued or
dispatched is awaited and unreported and stands in one place, that what is
awaited is queued or dispatched (`Answers`), and that reports follow the journal
(`ReportsFollow`). Both theorems need each other's part: a confirmed turn may
turn the journal to `delivered` only because nothing was reported before, and
that is so because a redelivery of an awaited command reports nothing.

*Command delivery.* Every action of `CommandDelivery` is one of `CommandQueue` or
leaves the queues alone (`DeliverySteps`), so `AInv` is an invariant of the
composition. `LinkInv` adds that rows of the outbox are numbered without a hole
(`Numbers`), that a promise resolves only when the journal has an outcome
(`ResolvedIsReached`), hence what the connector stores as processed or the server
as acknowledged has one with the awaited handler (`DoneIsReached`), and with the
other one stands in its queue, is being dispatched, has an outcome or was dropped
with its process (`AckedIsKept`: whatever leaves a queue without a crash leaves it
with an outcome), and that the
status of the server is one of the reports (`StatusIsReported`): with
`ReportedOutcomeIsFinal` that is `ServerAgrees`. `OrderInv` is about
`SentOrderKept`, as long as the connector keeps what it acknowledges
(`Keeps`). It follows a command *d* that another one must not overtake along
its way: due, it is carried by the connection (`DueIsCarried`); there it is ahead
of the other (`LinkOrder`: the replay is sent by number, pushes that were held
come after it); in the queue it stays ahead (`QueueOrder`). A redelivered command
that the runtime still holds is not queued again.

*Event transport.* `IInv`: the chain of every connection that is greeted, or may
still be, is sound (a batch with the hello leads it; below each event of the chain only events already known or brought by
an earlier batch), acknowledgements and cursors name only what the inbox holds
(`AnswersTrue`), events are applied in order and none is lost. Soundness of the
chains is what lets stale connections be served beside new ones: a batch begins
at most one past what was known when it was flushed, and the inbox only grows.
It ends with the first rejection, which is why the two properties are stated
*while applied*: `rejects` only grows, so the invariant is
`rejects = 0 => IInv`. `AppliedOnce` rests on an invariant of its own that needs
none of it. `AnnouncedNeverGreeted`: on a connection that begins with events every
batch ahead of the hello is refused, and after that the socket is closing.

*Uploads.* `UploadTypes` adds to the types what the server may wait for and which
transfers messages may name. `TicketInv`: as long as there is no row of the image,
nobody speaks of a complete one (`NobodyReady`): no notice, no status on the link,
no upload of the server, not the composer. The row is written once, with its file,
and neither retries nor crashes delete it.

*Approvals.* `IInv` says that an entry of the connector is stored under its own
request (`OwnEntry`), that a decision is final and only decisions are sent
(`DecidedIsFinal`, `SentIsDecided`), and, per approval, that nothing is answered
before `beginDispatch` (`Undispatched`), that at most one result is about to be
written, it is the decision, and Codex has none yet (`OneResult`), and that what
Codex has got is that decision, once (`Replied`). A kill inside a dispatch may
leave the journal ahead of the write, never behind it. `WInv` adds what
`DeliveredWasWritten` needs: the server is told of a delivery only after the
journal, which keeps it (`ToldIsDelivered`), and, of one app-server, the number
of an unanswered ask stands in `#pendingByRpc` for that ask or for none
(`OwnNumber`), because the next number is greater than all of them. With
`OneResult` the entry that a written result marks is then its own and the last
(`NoneUnderWay`).

*Workflow engine.* `EngineInv` (`WorkflowTypeOK` and `WalkInv`) says of every
continuation that its object exists, that its timer leads to an attempt that is
allowed, and that its object is active or its run was cancelled (`NoStrangers`);
of every active run that it has a continuation, if only one that nothing settles
(`NobodyForgotten`). Its heart is `WalkStep`: whatever a step does to reports,
sessions and journal, it takes one continuation of an object and leaves at most
one of the same object. Each branch of `Resume` is shown to be such a step, and
`WalkStep` is shown to keep the invariant, once. The refinement reads `live` off
`activeRuns` and `last` off the report of the run. For
`HandOffAfterConfirmation`, `HandOff` says that whoever may still begin a node
(a continuation, or the journal's row after a restore) comes after a confirmation
of the node before it, and that no step takes a confirmation back (`Remembers`).

*Workflow runs.* `SystemInv`, while the connector has not died: the last report
under way says what the engine does (`Told`); if none is under way the row says
it, or a row of the outbox will (`Shows`): the dispatch of a run that was not
taken up, the last cancellation of a run that still goes on; and a dispatch that
was processed was taken up (`TakenUp`). Pushes and replays may bring both any
number of times, since a second one changes nothing of this.

*Session streams.* What is shown is a fold over frames, and what a fold computes
is an induction. The theorems of the library that have an operator as parameter
cannot be used, but their special case can: a nonempty set of numbers has a least
one (`LeastNumber`), so a recursive function over the positions of a sequence
exists, is the only one, and goes on over a longer sequence where it stood, because
there is no least position at which it does otherwise. A conversation with
distinct keys is then only its set of entries (`Content`), a frame a change of that
set (`Applied`), and a patch a sequence of frames that leads from one conversation
to the other in whatever order the view has its entries (`PatchIsShown`). `StreamInv`
says that, as long as nothing stands between the connector and the view (`Synced`),
the content of the view after all that is under way (`Arrived`) is that of the
connector's snapshot (`ArrivesAsSnapshot`). It needs that the thread, what was read
of it and the view have each key once and the last turn last (`InOrder`,
`StreamsInOrder`, `ViewInOrder`), that no subscription is made that was not asked
for (`RoutesInOrder`), and that an image of an earlier subscription, whose
authorization is still awaited, is followed by a history of the present one
(`HistoryFollows`).
`GoneUsersHaveNoRoute` is inductive: every action that makes a route reads
`attached` in the same step.

*Items.* Both theorems are found in the same way, position after position. A text is
cut so that, before each point, the chunks so far and the one under way are the text
so far and fit (`CutSoFar`). An entry that is new is put at the end by its first
frame, and each further frame changes it there (`LastMessageChanges`,
`LastImageChanges`): a message grows by its chunks, a picture by its bytes up to the
end of each chunk (`PartOf`, `InChunks`), and its last frame finds all of it. So the
frames of an entry append it (`EntryIsAppended`), and the frames of a history,
entry after entry, are that history.

*Drawings.* `validateLinear` counts roots and successors and walks once from the
root. One direction of `LinesAreAccepted` follows the walk along the line. In the
other, nobody has two successors, so the walk is at one node at most
(`WalkIsSingle`); it never comes back, or the canvas says "loop"; it has been at
every node, or the canvas says "not connected"; so the nodes in the order of the
walk are the line, and the first step at which it is nowhere is its end.
`OpenedSavesAsItself` reads the edges of an opened
definition, which are drawn from each node to the next, as such a line.

*Pairing.* `PairingInv`: the claim of a row is set while nothing was shown and not
again, an approved row stays approved and has created one workstation
(`RowAgrees`), every token is the one of that claim (`TokensAgree`), and after the
answer to a revocation no socket becomes known any more, unless one of the windows
of `Missed` was used (`KeptOut`).

*Preview access.* `AccessInv`: a ticket is used by the one post that got past it
(`TicketSpent`); the reasons to deny a request do not go away, and each is looked
at once more before the request asks for a connection (`DeniedSoFar`); hellos come
first on a socket (`Conversation`). `Relay` relates the row to the relay,
with `missed` for what was overtaken: the socket that serves the route is the
registered one, an active row has it, is about to have it, or has an end that is
still to be written (`Relays`); a row that is stopped or offline has no registered
socket, or one that is about to be told, or a miss (`RowFollows`). A miss is
forgotten when a later step makes it good (a synchronization, a registration in
time), so the exceptions of `StatusIsTrue` are those of the present registration.

*Preview streams.* `HttpInv`: while the socket is open, the messages on their way
bring the server exactly up to what the tunnel has sent, in order and without a
gap, the header ahead (`InOrder`, `Arrives`); an end is behind all of them and
there is one only when nothing waits for credit (`EndsAreLast`). A broken socket
loses a suffix, with the end in it. No number of the window occurs in it: for
completeness the window delays and loses nothing.

That the window itself is kept is `WindowInv`. Each side checks what it receives
(credit, offset, a header before the body, nothing twice) and closes the socket or
fails the stream when the check fails, so a correct peer must never trip it:
`PeersUnderstand`. The credit of a sender is not determined by the two sides alone,
since grants are on their way, and a break may take some of them. `ResponseWindow`
and `RequestWindow` say that the grants on their way are about bytes that follow one
another, each behind those of the grants before it, all of them between what the
sender knows to be acknowledged and what the receiver has passed on (`Flows`): the
next grant to arrive is then one that the sender may add, and the one after it
still is. `ResponseLine` and `RequestLine` place the chunks of both directions in
order and without a gap, the header known before them (`Known`), header and end sent
once (`Once`); `Opening` keeps the `open` ahead of everything; `Counted` orders the
counts of the two sides, without which `Flows` is not inductive. A message removed
from the head leaves a suffix and a break a prefix, under which all of these are
closed (`Part`, `More`). `CreditKept` follows, and with `Addressed` (only a grant
has credit, and no offset is ahead of its sender) the type invariant
`StreamTypeOK`, whose bounds on credits are not inductive without the windows.

*Other agents.* `TypeInv` (`JobsAreFormed`): a prompt that is under way belongs to
an agent that runs, and one that was sent names a session. `GrantInv`: what is
open on the server is parked in the runtime. `OriginInv`: a prompt under way, and
one whose agent waits, is of the default agent or a task of a workflow; origins do
not change, and the default agent changes only over a restart, which leaves nothing
under way (`Originates`). `TextInv`: a transcript on its way is
no longer than the text. `TurnInv`: an open turn belongs to a prompt of its session
that was sent and whose end was not reported, so each prompt ends one turn, once
(`unmapped` excepted, section 7).

*Operator modules.* `ViewedIsAccepted` compares three validators that were
written apart from each other (view, route, repository). `AcceptedIsAnswerable`
and `PermissionsWereConfirmed` join the server's last check to the connector's
answer. `RollupFollowsAccumulator` says that an SQL statement and a class that
were meant to agree do, step by step, and where they do not: cache writes.
`ReportIsShown` joins the outbox to it: its numbers only grow, over threads and
lives of the connector, so a report that is new to the server is never older than
the rollup it meets.
`RefreshShowsTheList` needs that a thread whose report was left out, because the
connector has sent the same one before, has a row (`Registered`).
`TransactionsKeepOrder` is the invariant of the access tables (one owner, no grant
without a member: `Orderly`), one lemma per kind of change; it is about
transactions that run one after the other, since the two halves of an update with
a removal between them break it (section 7). `NotifiedMayAnswerAlways` follows
from it: the query of the push service joins the members, `app_can_respond` does
not.

The assumptions are those of the modules: `thread` maps commands to threads,
`NoClient`, `None`, `Absent`, `Inventory` and `Nobody` are not values of the sets
they stand beside (ids are hashes or UUIDs, these are not), bounds are naturals,
windows and images are not empty, the set of requests is finite.

*Definitions that are proved and in no run*, because a theorem says more than an
instance: `QueuedOnce`, `ReportedOutcomeIsFinal`, `AppliedOnce`,
`AnnouncedIsRefused`, `NobodyForgotten`, `JournalForgets`, `TokensOfTheShown`, `PeersUnderstand`,
`CreditKept`, and the types of
`CommandQueue`, `CommandDelivery`, `ApprovalDelivery`, `WorkflowEngine`,
`AttachmentUpload`, `SessionStream`, `PreviewStream`, `WorkstationPairing`,
`PreviewAccess` and
`AgentRuntimes`.

*Only model-checked.* All liveness under fairness: `QueueMoves`, `Arrives`,
`NobodyWaitsForever`, `AmbiguityReported`, `RunEnds`, `LiveViewCatchesUp`,
`AnswerArrives`, `NothingLeftBehind`, `BothSidesEnd`, `SetupEnds`, which the
prover cannot reach. Of the safety
properties that the runs check none is left without a theorem. The assumptions on
the operator modules that no theorem of the table states, such as those on
`WorkspaceAccess` about replays, rejoining and the two halves of an update, on
`ConversationItems` about what was followed live and about what the view puts
together of lost and repeated chunks, are evaluated on small inputs.

## 6. Plan

Every component of the core has a module and a run, and the safety of every run
is proved. What would add most, in this order:

1. `WorkflowSystem` over `WorkflowEngine` instead of its contract: that the
   composition of the implementations implements the composition.
2. The pictures of the view (`ViewImage`) for every order of their frames, which
   needs that no record is `Absent`.

A proof goes into the module of proofs of its component where there is one.

## 7. What the code does otherwise than one would think

Met while modelling. The models do what the code does; where a property would be
false because of it, the property names the exception or is stated under a
premise.

### Where code and documents disagree

* *Acknowledged before it is durable.* The command handler of
  `MultiAgentRuntime` returns at once (`src/connector/multi-agent-runtime.ts:83`),
  so the cloud client marks a command processed and acknowledges it while it
  waits in memory; after a crash nobody has it. `docs/technology-decisions.md:737`
  ("a command that is only in the memory queue of the connector must not be
  acknowledged"), `:739`, `:743`, `:751` and the comment at
  `connector-cloud-client.ts:261` want the opposite. `AckedIsKept` shows that
  nothing but the death of the process loses it, and names that (`dropped`).
* *Events before the hello.* `#notifyStatus(true)` comes before the hello
  (`connector-cloud-client.ts:175`); a runtime of ACP or Cursor that has sessions
  publishes them there at once, so events are first on the socket. The server
  answers "Connector must send hello first" and closes it with 4400
  (`apps/server/src/connector.ts:147`). As long as the process has those sessions,
  every connection of it ends like this and nothing is acknowledged, which is not
  the delivery "at least once" that `technology-decisions.md:321` and `:1094`
  promise. `Arrives` names the exception (`early`); `AnnouncedNeverGreeted` shows
  that nothing is accepted on such a connection, so no order is lost by it.
* *A gap under the cursor.* When applying an event fails, the messages behind it
  in the same flush are still accepted, and the cursor of the next welcome, a
  maximum, covers the failed one (`apps/server/src/connector.ts:103`;
  `technology-decisions.md:318`). Hence *while applied* in the properties of
  `EventTransport`. An event that is refused for good closes every connection.
* *Two app-servers, one number.* Requests of different clients share the key of
  `#pendingByRpc` and are compared by number only (`runtime.ts:758`): a notice or
  response of one clears the timer of the other, whose agent waits without end,
  or marks its delivery as written. A written result may stay `sent_unknown` and
  unreported. With two app-servers TLC finds `DeliveredWasWritten`,
  `NobodyWaitsForever` and `AmbiguityReported` violated; `AnsweredOnce` holds.
* *Pending after a restart.* Neither `stop()` nor `start()` tells the server
  about the requests of the old process (`runtime.ts:206`); they can be decided,
  without effect, until their deadline.
* *A client that fails to start* leaves its thread blocked with nothing journaled
  or reported (`runtime.ts:578`; `technology-decisions.md:743` wants the command
  failed and the queue to advance). `QueueMoves` excuses the block.
* *Too late.* A late decision leaves `delivery_status` at `queued`
  (`runtime.ts:415`, `connector-repository.ts:389`).
* *Order of patched entries.* An entry that the view missed is appended, also when
  it belongs in the middle (`conversation.ts:139`; `interaction-contract.md:168`);
  the next poll then resends the history.
* *Workflows.* Nothing in the program sets `can_orchestrate`, and
  `requireOrchestration` has no exception for owners: only tests can run a
  workflow (`workflow-repository.ts:42`; `product-requirements.md:292`). `main.ts`
  never calls the engine's `start()`, so a crash loses its runs. A dispatch is
  pushed under a random id and replayed under its row's (`app.ts:185`): the second
  one throws on an active run and closes the socket, and an ended run is executed
  again. A node is to fail at its deadline (ADR-033, `technology-decisions.md:1291`,
  and `:1290` for a gate), but that of a task turn rejects into nothing
  (`engine.ts:276`) and a gate has none: the two exceptions of `RunEnds` (`Stuck`).
  `#finishRun` clears the sessions of every run (`:487`). Two
  runs of a workflow may be inserted at once (`workflow-repository.ts:318`;
  `interaction-contract.md:744`). A report of a status overwrites a cancellation
  (`connector-repository.ts:430`; `:755` of the contract).
* *Decisions for other agents.* A decision that is not about a gate goes to the
  default agent, whoever asked (`multi-agent-runtime.ts:72`). The comment at `:20`
  calls the fallback safe because one runtime is enabled, but any number can be
  configured, and a task of a workflow runs on the agent its node names
  (`engine.ts:236`): its permission request is shown and decided, and the agent
  waits on. `WaitingIsAnswerable` names the exception.
* *Previews.* A connection that ends while a synchronization runs is registered
  dead and its row stays active (`preview-relay.ts:96`); a stop between the
  transaction of a synchronization and its registration leaves a stopped row with a
  registered route (`:215`, `:378`); the write of an ended connection that comes
  after a later synchronization leaves an offline row with a route that serves
  (`:108`). These are `"end"`, `"stop"` and `"mark"` of `missed`, which
  `StatusIsTrue` excepts; without any one of them TLC finds it violated.
  A request authorized before a stop commits may open its stream after the stop
  was answered (`interaction-contract.md:641`). Logout, loss of the permission and
  expiry end no open stream. A late credit or chunk for a finished response makes
  the tunnel send an error that cuts the response the browser is still draining
  (`tunnel.ts:452`); `ws.close` of the local server drops frames that wait for
  credit.
* *Access.* A removal of a member between the halves of
  `updateWorkstationAccess` (`management-repository.ts:202`) leaves a grant
  without a member, and the row policies look only at grants, so the removed user
  still sees the workstation (`product-requirements.md:203`). Sessions and
  requests of a revoked workstation stay in the snapshot
  (`interaction-contract.md:393`), and two counts of workstations disagree.
* *Revocation.* A revocation between the reading of a credential and the
  registration of its connection leaves a revoked connector connected
  (`connector.ts:37`; `interaction-contract.md:344`). A connection whose socket
  closed before its registration is registered dead. These are the two windows of
  `Missed`.

### Other observations

* *Streams.* A first read that fails leaves the stream unpolled
  (`runtime.ts:806`); an unsubscribe while the connector is away is never sent,
  and the connector polls on (`session-relay.ts:325`); text frames are not
  authorized again after a revocation, only frames with images; a stale chain may
  mix its frames with its successor's (`overlap`).
* *Items.* A user message with only a picture is announced live as an empty
  message and has no message in the history; a generated picture comes after its
  activity live and before it in a history; both cost a resend of the whole
  history (`conversation.ts:368`, `:97`). An activity without a status that is
  read while it runs is called completed (`:622`).
* *Uploads.* A `begin` whose authorization ends after its user has gone leaves an
  orphan; the part stays on the workstation after a lost link until a retry or a
  restart (`NothingLeftBehind` excepts it); a POST repeated after a lost answer
  fails; images that are never sent are never deleted.
* *Pairing.* When the answer to a claim is lost and the approval comes before the
  retry, the retry is told "approved" without a token and the setup fails; the
  claim's secret lives in memory only.
* *Other agents.* The owner of a session is never learnt, so every command
  and stream goes to the first agent, also those for a session of another one; a
  handler that rejects ends the
  connector (Node 22); the three runtimes share one file of sessions, of which
  ZCode writes a row that is none (`zcode-agent-runtime.ts:245`) and ACP without
  `loadSession` adopts rows of others; none of them reports the status of a
  command; an approval without a matching option is reported as a failed turn that
  later ends again (`unmapped`).
* *Decisions.* The view shows at most 50 entries of a permission request, and an
  approval grants them all; questions that are secret, missing or more than 50
  cannot be answered remotely.
* *Definitions.* The order that is stored and run is the order in which nodes were
  added, not the drawn edges (`workflow-canvas.tsx`); the effect that autosaves
  depends on what each save replaces, so it saves for ever; `handleRun` validates
  the drawing and runs what is stored (`RunsStored`).
* *Access.* The view sends all grants of its snapshot when one is toggled, so two
  administrators undo each other; invitations of a removed administrator stay
  good; a push subscription that was registered again may be deleted by an old
  answer 410; a grant to respond alone is notified of requests it may not see.
* *Sessions.* Pagination over a list that moves can miss a thread until the next
  refresh; two statements on sessions of a workstation look at the thread and not
  at the agent; a report "historical" completes a session that waits.

## 8. What is not modelled

* *Contents*: texts, diffs, names and formats, redaction of acknowledged
  payloads, wording of errors. A command or a request is a model value, except
  where an operator module is about the content.
* *Sign-in*: OAuth, cookies and their signatures, CSRF. A web session is active or
  ended (`WorkspaceAccess`, `PreviewAccess`).
* *Time*: a timer fires at any moment after it is armed; durations matter only as
  the reason for fairness, and for the order of two deadlines in
  `WorkstationPairing`.
* *Transactions*: a PostgreSQL or SQLite transaction is one step. Both databases
  are assumed to keep what they committed, and row locks to do what they say.
* *Several agents at once*: `AgentRuntimes` has one runtime per life of the connector,
  the default one or another. What runs beside it meets it only in the file of
  sessions (rows of other threads) and at the fan-out.
* *Several server processes*: links are in the memory of one process in the code
  as well. Several app-servers beyond what section 3 says.
* *Costs*: prices and estimates of tokens.
* *Heartbeats, backoff and presence*: a link is up, broken or down. The caps of
  preview capacity (how many streams, not who waits) and its fairness among users.
* `src/reliability/decision-gate.ts` is used by no program, only by its tests.
  `packages/shared` has types and limits. The iOS application uses the API of the
  web application. Scripts in `src/spike` record how Codex behaves. Build,
  installation and deployment have no state of the system.
* Interaction of approvals with the blocks of command queues: an approval is of a
  turn that runs, and neither module changes the other's state.

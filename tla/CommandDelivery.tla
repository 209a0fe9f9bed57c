-------------------------- MODULE CommandDelivery --------------------------
(***************************************************************************)
(* How a session command travels from the POST that creates it to the      *)
(* queues of CommandQueue, and how its outcome travels back:               *)
(*   server     apps/server/src/{repository,connector-repository,          *)
(*              connector,app}.ts, session-relay/connector-links.ts        *)
(*   connector  src/transport/connector-cloud-client.ts and the command    *)
(*              handler that was registered with it                        *)
(* The server pushes a command when it is created and replays the          *)
(* unacknowledged ones on every connection.  The connector answers with a  *)
(* transport ACK, and reports the outcome in an event of its own outbox,   *)
(* which is retransmitted until it arrives.                                *)
(***************************************************************************)
EXTENDS CommandQueue, FiniteSets

CONSTANTS MaxDisconnects    \* bound: how often a connection breaks

ASSUME DeliveryAssumption == MaxDisconnects \in Nat

VARIABLES awaits,       \* TRUE: ConnectorRuntime registered its own handler; FALSE: the
                        \* handler of MultiAgentRuntime, which does not wait for the
                        \* runtime it calls
          status,       \* session_commands.status on the server
          outbox,       \* connector_outbox: pending until acknowledged_at is set
          sequence,     \* connector_outbox.sequence, 0 for no row
          pushing,      \* commands read for a push that was not made yet
          answered,     \* commands whose POST returned
          earlier,      \* for each command: the answered ones of its thread when it was sent
          conn,         \* the connector's current connection
          replay,       \* the commands sendWelcomeAndReplay read for it
          held,         \* ConnectorConnection.queued
          sent,         \* ConnectorConnection.sent
          down,         \* session.command messages in flight
          acks,         \* ack messages in flight
          inbox,        \* transport_inbox of the connector
          processing,   \* #processingInbound, and whether the socket still is the same
          disconnects,  \* how often a connection broke
          dropped       \* history: commands in the queues of a process when it went down

serverVars == <<status, outbox, sequence, pushing, answered, earlier>>
connVars == <<conn, replay, held, sent, down, acks, disconnects>>
inboxVars == <<inbox, processing>>
deliveryVars == <<awaits, vars, serverVars, connVars, inboxVars, dropped>>
-----------------------------------------------------------------------------
Status == {"none", "queued"} \cup Reached

Conn == {"down", "pending", "replaying", "active"}

DeliveryTypeOK ==
    /\ awaits \in BOOLEAN
    /\ status \in [Command -> Status]
    /\ outbox \in [Command -> {"none", "pending", "acked"}]
    /\ sequence \in [Command -> Nat]
    /\ pushing \subseteq Command /\ answered \subseteq Command
    /\ earlier \in [Command -> SUBSET Command]
    /\ conn \in Conn
    /\ replay \subseteq Command /\ held \subseteq Command /\ sent \subseteq Command
    /\ down \in Seq(Command) /\ acks \subseteq Command
    /\ inbox \in [Command -> {"none", "received", "processed"}]
    /\ processing \in [Command -> {"no", "this", "earlier"}]
    /\ disconnects \in 0..MaxDisconnects
    /\ dropped \subseteq Command

\* ORDER BY sequence, and the sort of the handshake.
Place(c, C) == Cardinality({d \in C : sequence[d] <= sequence[c]})

BySequence(C) == [i \in 1..Cardinality(C) |-> CHOOSE c \in C : Place(c, C) = i]

\* getPendingConnectorCommands: not acknowledged and still without an outcome.
Pending == {c \in Command : outbox[c] = "pending" /\ status[c] = "queued"}

\* The socket is gone, with what was in flight from the server.  Messages of the
\* connector that the server has received by then are processed all the same;
\* the ACKs in lost are those it has not.
LinkBreaks(lost) ==
    /\ conn' = "down"
    /\ down' = <<>>
    /\ replay' = {} /\ held' = {} /\ sent' = {}
    /\ acks' = acks \ lost
    /\ processing' = [c \in Command |-> IF processing[c] = "this" THEN "earlier" ELSE processing[c]]
-----------------------------------------------------------------------------
DeliveryInit ==
    /\ Init
    /\ awaits \in BOOLEAN
    /\ status = [c \in Command |-> "none"]
    /\ outbox = [c \in Command |-> "none"]
    /\ sequence = [c \in Command |-> 0]
    /\ pushing = {} /\ answered = {}
    /\ earlier = [c \in Command |-> {}]
    /\ conn = "down"
    /\ replay = {} /\ held = {} /\ sent = {} /\ down = <<>> /\ acks = {}
    /\ inbox = [c \in Command |-> "none"]
    /\ processing = [c \in Command |-> "no"]
    /\ disconnects = 0
    /\ dropped = {}

\* sendSessionCommand commits the command and its outbox row; the route then
\* reads it for a push.
SendCommand(c) ==
    /\ status[c] = "none"
    /\ status' = [status EXCEPT ![c] = "queued"]
    /\ outbox' = [outbox EXCEPT ![c] = "pending"]
    /\ sequence' = [sequence EXCEPT ![c] = Cardinality({d \in Command : sequence[d] > 0}) + 1]
    /\ earlier' = [earlier EXCEPT ![c] = {d \in answered : thread[d] = thread[c]}]
    /\ pushing' = pushing \cup {c}
    /\ UNCHANGED <<vars, answered, connVars, inboxVars>>

\* A POST without an answer is retried with its idempotency key: nothing is
\* inserted, a pending command is pushed again.
RetryPost(c) ==
    /\ c \in Pending \ answered
    /\ pushing' = pushing \cup {c}
    /\ UNCHANGED <<vars, status, outbox, sequence, answered, earlier, connVars, inboxVars>>

\* Faulty variant: pushes what the replay has already sent.
PushTwice(c) ==
    /\ c \in pushing
    /\ pushing' = pushing \ {c}
    /\ answered' = answered \cup {c}
    /\ IF conn = "active"
       THEN down' = Append(down, c) /\ sent' = sent \cup {c} /\ UNCHANGED held
       ELSE held' = held \cup (IF conn = "down" THEN {} ELSE {c}) /\ UNCHANGED <<down, sent>>
    /\ UNCHANGED <<vars, status, outbox, sequence, earlier, conn, replay, acks, disconnects, inboxVars>>

\* pushReliable, and the POST returns.  Before activation the message is held,
\* afterwards it is sent unless it was sent on this connection; without a
\* connection it is left to the replay.
PushCommand(c) ==
    /\ c \in pushing
    /\ pushing' = pushing \ {c}
    /\ answered' = answered \cup {c}
    /\ held' = IF conn \in {"pending", "replaying"} THEN held \cup {c} ELSE held
    /\ IF conn = "active" /\ c \notin sent
       THEN down' = Append(down, c) /\ sent' = sent \cup {c}
       ELSE UNCHANGED <<down, sent>>
    /\ UNCHANGED <<vars, status, outbox, sequence, earlier, conn, replay, acks, disconnects, inboxVars>>
-----------------------------------------------------------------------------
\* The connector opens a socket, which the server registers as pending.
Connect ==
    /\ running
    /\ conn = "down"
    /\ conn' = "pending"
    /\ UNCHANGED <<vars, serverVars, replay, held, sent, down, acks, disconnects, inboxVars>>

\* The server handles hello: the transaction of sendWelcomeAndReplay that reads
\* the pending commands.
ReadReplay ==
    /\ conn = "pending"
    /\ conn' = "replaying"
    /\ replay' = Pending
    /\ UNCHANGED <<vars, serverVars, held, sent, down, acks, disconnects, inboxVars>>

\* Faulty variant: what was held during the handshake is dropped.
ActivateForgetful ==
    /\ conn = "replaying"
    /\ conn' = "active"
    /\ down' = BySequence(replay)
    /\ sent' = replay
    /\ replay' = {} /\ held' = {}
    /\ UNCHANGED <<vars, serverVars, acks, disconnects, inboxVars>>

\* The replay is sent, then, in the same step, what was held meanwhile.
Activate ==
    /\ conn = "replaying"
    /\ conn' = "active"
    /\ down' = BySequence(replay) \o BySequence(held \ replay)
    /\ sent' = replay \cup held
    /\ replay' = {} /\ held' = {}
    /\ UNCHANGED <<vars, serverVars, acks, disconnects, inboxVars>>

Disconnect(lost) ==
    /\ conn # "down"
    /\ disconnects < MaxDisconnects
    /\ disconnects' = disconnects + 1
    /\ LinkBreaks(lost)
    /\ UNCHANGED <<vars, serverVars, inbox>>

\* The server process restarts: requests that were about to push fail.
ServerRestart(lost) ==
    /\ disconnects < MaxDisconnects
    /\ disconnects' = disconnects + 1
    /\ LinkBreaks(lost)
    /\ pushing' = {}
    /\ UNCHANGED <<vars, status, outbox, sequence, answered, earlier, inbox>>
-----------------------------------------------------------------------------
\* The message at the head of the link reaches #handle.
Receives(c) ==
    /\ running
    /\ down # <<>> /\ Head(down) = c
    /\ down' = Tail(down)
    /\ UNCHANGED <<serverVars, conn, replay, held, sent, disconnects>>

Ack(c) == acks' = acks \cup {c}

\* A message that was processed is acknowledged again, one that is being
\* processed is dropped.
DeliverKnown(c) ==
    /\ Receives(c)
    /\ \/ inbox[c] = "processed" /\ Ack(c)
       \/ inbox[c] # "processed" /\ processing[c] # "no" /\ UNCHANGED acks
    /\ UNCHANGED <<vars, inboxVars>>

\* The command is handed to #handleSessionCommand.  It is processed and
\* acknowledged when the handler returns: at once if the journal knows the
\* outcome or nobody waits for the runtime, otherwise when the job settles.
Deliver(c) ==
    /\ Receives(c)
    /\ inbox[c] # "processed" /\ processing[c] = "no"
    /\ \/ /\ HandleFresh(c) /\ awaits
          /\ inbox' = [inbox EXCEPT ![c] = "received"]
          /\ processing' = [processing EXCEPT ![c] = "this"]
          /\ UNCHANGED acks
       \/ /\ HandleKnown(c) \/ (HandleFresh(c) /\ ~awaits)
          /\ inbox' = [inbox EXCEPT ![c] = "processed"]
          /\ Ack(c)
          /\ UNCHANGED processing

\* The awaited handler resolved; the ACK goes out if a socket is open.
HandlerResolves(c) ==
    /\ processing[c] # "no"
    /\ handler[c] = "resolved"
    /\ inbox' = [inbox EXCEPT ![c] = "processed"]
    /\ processing' = [processing EXCEPT ![c] = "no"]
    /\ acks' = IF conn = "down" THEN acks ELSE acks \cup {c}
    /\ UNCHANGED <<vars, serverVars, conn, replay, held, sent, down, disconnects>>

\* The awaited handler rejected: no ACK, and the socket that brought the command
\* is closed (1011) so that a later connection replays it.
HandlerRejects(c) ==
    LET closes == processing[c] = "this" IN
    /\ processing[c] # "no"
    /\ handler[c] = "rejected"
    /\ conn' = IF closes THEN "down" ELSE conn
    /\ down' = IF closes THEN <<>> ELSE down
    /\ replay' = IF closes THEN {} ELSE replay
    /\ held' = IF closes THEN {} ELSE held
    /\ sent' = IF closes THEN {} ELSE sent
    /\ processing' = [d \in Command |->
                         CASE d = c -> "no"
                           [] closes /\ processing[d] = "this" -> "earlier"
                           [] OTHER -> processing[d]]
    /\ UNCHANGED <<vars, serverVars, acks, inbox, disconnects>>
-----------------------------------------------------------------------------
\* acknowledgeConnectorOutbox: the payload is redacted and never replayed again.
AckArrives(c) ==
    /\ c \in acks
    /\ acks' = acks \ {c}
    /\ outbox' = [outbox EXCEPT ![c] = "acked"]
    /\ UNCHANGED <<vars, status, sequence, pushing, answered, earlier,
                   conn, replay, held, sent, down, disconnects, inboxVars>>

\* Faulty variant: the last report wins.
ReportOverwrites(c) ==
    /\ \E s \in reports[c] : status' = [status EXCEPT ![c] = IF s = "sent_unknown" THEN "failed" ELSE s]
    /\ outbox' = [outbox EXCEPT ![c] = "acked"]
    /\ UNCHANGED <<vars, sequence, pushing, answered, earlier, connVars, inboxVars>>

\* session.command.updated is applied: the first outcome is final, and it
\* acknowledges the command as well.
ReportArrives(c) ==
    /\ status[c] = "queued"
    /\ \E s \in reports[c] : status' = [status EXCEPT ![c] = s]
    /\ outbox' = [outbox EXCEPT ![c] = "acked"]
    /\ UNCHANGED <<vars, sequence, pushing, answered, earlier, connVars, inboxVars>>
-----------------------------------------------------------------------------
\* The connector's process goes down, and its socket with it.  A rejection that
\* nobody handles ends the process like a crash.
GoesDown(lost) ==
    /\ \/ Crash
       \/ \E t \in Thread : CrashBeforeWrite(t)
       \/ \E T \in SUBSET Thread : Stop(T)
    /\ conn' = "down"
    /\ down' = <<>> /\ replay' = {} /\ held' = {} /\ sent' = {}
    /\ acks' = acks \ lost
    /\ processing' = [c \in Command |-> "no"]
    /\ UNCHANGED <<serverVars, disconnects, inbox>>

\* The steps of the runtime, but for a rejection nobody would handle.
RuntimeStep ==
    /\ \/ \E t \in Thread :
             \/ AgentStep(t)
             \/ awaits /\ ClientFails(t)
             \/ ClientReady(t) \/ AttachmentsRejected(t)
             \/ ResumeFails(t) \/ BeginDispatch(t)
             \/ TurnStartSucceeds(t) \/ TurnStartUnknown(t)
             \/ ReleaseTimer(t) \/ UnknownTimer(t) \/ ClientClosed(t)
       \/ Restart
    /\ UNCHANGED <<serverVars, connVars, inboxVars>>

ServerStep ==
    \/ ReadReplay \/ Activate
    \/ \E c \in Command : PushCommand(c) \/ AckArrives(c) \/ ReportArrives(c)

ConnectorStep ==
    \/ Connect
    \/ \E c \in Command : Deliver(c) \/ DeliverKnown(c) \/ HandlerResolves(c) \/ HandlerRejects(c)

DeliveryNext ==
    /\ \/ \E c \in Command : SendCommand(c) \/ RetryPost(c)
       \/ ServerStep
       \/ ConnectorStep
       \/ RuntimeStep
       \/ \E lost \in SUBSET acks : Disconnect(lost) \/ ServerRestart(lost) \/ GoesDown(lost)
    /\ dropped' = IF restarts' = restarts THEN dropped
                  ELSE dropped \cup {c \in Command : handler[c] = "waiting"}
    /\ UNCHANGED awaits

DeliverySpec == DeliveryInit /\ [][DeliveryNext]_deliveryVars

-----------------------------------------------------------------------------
(* Properties *)

InQueue(c) ==
    LET q == queue[thread[c]] IN
    \/ \E i \in 1..Len(q.pending) : q.pending[i] = c
    \/ q.active # NoClient /\ q.active.job = c /\ q.active.phase \in Dispatching

\* ADR-014: a command that merely waits in a queue is not acknowledged.  True of the
\* awaited handler.  The handler of MultiAgentRuntime acknowledges what it queued,
\* and then the queues keep it, over lost connections, replays and restarts of the
\* server, until its outcome is in the journal: only the death of the process that
\* queued it can lose it.
AckedIsKept ==
    \A c \in Command : outbox[c] = "acked" =>
        \/ journal[c] \in Reached
        \/ ~awaits /\ (InQueue(c) \/ c \in dropped)

\* What the server calls the outcome of a command is what the journal of the
\* connector says, for ever, and the connector never reports another one: the
\* server need not refuse a report, which would block the events behind it.
ServerAgrees ==
    \A c \in Command :
        status[c] \in Reached => journal[c] = status[c] /\ reports[c] \subseteq {status[c]}

\* On one connection a command is in flight once, although a push may race with
\* the replay of the same command.
SentOncePerConnection ==
    /\ \A i, j \in 1..Len(down) : down[i] = down[j] => i = j
    /\ \A i \in 1..Len(down) : down[i] \in sent

\* A user who waits for the answer to a message before sending the next one to
\* the same thread finds them dispatched in that order, over lost connections,
\* replays and restarts.  Where the handler is not awaited a restart forgets
\* commands that were acknowledged, and the order with them.
SentOrderKept ==
    awaits \/ restarts = 0 =>
        \A c \in Command : \A d \in earlier[c] :
            journal[c] \in {"sent_unknown", "delivered"} => journal[d] \in Reached

=============================================================================

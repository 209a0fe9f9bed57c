--------------------------- MODULE EventTransport ---------------------------
(***************************************************************************)
(* How the events of a connector reach the server: the SQLite outbox of    *)
(* src/src/transport/sqlite-message-store.ts, the socket of                *)
(* connector-cloud-client.ts, and the inbox and cursor of                  *)
(* apps/server/src/{connector,connector-repository}.ts.                    *)
(*                                                                         *)
(* Every send, every opened socket and every welcome writes all events     *)
(* that are not acknowledged, in ascending order; such a flush is one      *)
(* batch here, a set of sequence numbers that is taken from its least.     *)
(* The server handles the messages of one socket one after the other and   *)
(* goes on with those it has received when the socket is closed, while a   *)
(* newer socket is served.                                                 *)
(*                                                                         *)
(* An opened socket is told to the agents before it is greeted: those of   *)
(* ACP and Cursor announce the sessions they have at once, so that events  *)
(* stand before the hello of such a connection.                            *)
(***************************************************************************)
EXTENDS Integers, Sequences

CONSTANTS MaxEvents,    \* bound: events the connector enqueues
          MaxBreaks,    \* bound: connections that break by themselves
          MaxRejects    \* bound: events the server fails to apply, each once

ASSUME BoundsAssumption == MaxEvents \in Nat /\ MaxBreaks \in Nat /\ MaxRejects \in Nat

VARIABLES announces,    \* an agent of ACP or Cursor has a session
          enqueued,     \* events in transport_outbox: 1..enqueued
          acked,        \* those with acknowledged_at
          conn,         \* the number of the current connection
          online,       \* its socket is open at the connector
          up,           \* for each connection: batches sent and not yet handled
          greeted,      \* connections whose handshake is active
          doomed,       \* connections the server is closing
          early,        \* history: those on which events went before the hello
          acks,         \* ack messages in flight on the current connection
          welcomes,     \* cursors of the welcome messages in flight on it
          inbox,        \* connector_inbox: sequence numbers with a row
          applied,      \* how often the payload of each event was applied
          breaks, rejects

connectorVars == <<announces, enqueued, acked>>
linkVars == <<conn, online, up, greeted, doomed, early, acks, welcomes, breaks>>
serverVars == <<inbox, applied, rejects>>
vars == <<connectorVars, linkVars, serverVars>>
-----------------------------------------------------------------------------
Event == 1..MaxEvents

Connection == 0..(MaxBreaks + MaxRejects + 1)

\* The hello, a message without a sequence number of its own.
Hello == 0

TypeOK ==
    /\ announces \in BOOLEAN
    /\ enqueued \in 0..MaxEvents
    /\ acked \subseteq Event
    /\ conn \in Connection
    /\ online \in BOOLEAN
    /\ up \in [Connection -> Seq(SUBSET (0..MaxEvents))]
    /\ greeted \subseteq Connection /\ doomed \subseteq Connection /\ early \subseteq Connection
    /\ acks \subseteq Event
    /\ welcomes \subseteq 0..MaxEvents
    /\ inbox \subseteq Event
    /\ applied \in [Event -> Nat]
    /\ breaks \in 0..MaxBreaks /\ rejects \in 0..MaxRejects

\* max(sequence) of the inbox, 0 for an empty one.
IsCursor(n) == n \in inbox \cup {0} /\ \A s \in inbox : s <= n

\* Faulty variant: a flush sends the newest event only.
PendingNewest(n, known) == {n} \ (known \cup {0})

\* The unacknowledged ones of n events.
Pending(n, known) == (1..n) \ known

\* The batches q of a connection after a flush of the pending events.
Flush(q, pending) == IF pending = {} THEN q ELSE Append(q, pending)

\* The batches q without their first message m.
Rest(q, m) == IF Head(q) = {m} THEN Tail(q) ELSE [q EXCEPT ![1] = q[1] \ {m}]

\* The first n batches, the last one of them only as far as before event s.
Received(q, n, s) == [i \in 1..n |-> IF i = n THEN {r \in q[i] : r < s} ELSE q[i]]
-----------------------------------------------------------------------------
Init ==
    /\ announces = FALSE
    /\ enqueued = 0 /\ acked = {}
    /\ conn = 0 /\ online = FALSE
    /\ up = [e \in Connection |-> <<>>]
    /\ greeted = {} /\ doomed = {} /\ early = {}
    /\ acks = {} /\ welcomes = {}
    /\ inbox = {} /\ applied = [s \in Event |-> 0]
    /\ breaks = 0 /\ rejects = 0

\* Faulty variant: leaves the event to the next connection.
EnqueueSilent ==
    /\ enqueued < MaxEvents
    /\ enqueued' = enqueued + 1
    /\ UNCHANGED <<announces, acked, linkVars, serverVars>>

\* An agent of ACP restores its sessions when it starts; nothing is sent of them.
RestoreSessions ==
    /\ ~announces
    /\ announces' = TRUE
    /\ UNCHANGED <<enqueued, acked, linkVars, serverVars>>

\* send(): the event gets the next sequence number in one transaction, and
\* everything pending is flushed.  It may be that of a new session.
Enqueue ==
    /\ enqueued < MaxEvents
    /\ announces' \in {announces, TRUE}
    /\ enqueued' = enqueued + 1
    /\ up' = IF online THEN [up EXCEPT ![conn] = Flush(up[conn], Pending(enqueued + 1, acked))]
                       ELSE up
    /\ UNCHANGED <<acked, conn, online, greeted, doomed, early, acks, welcomes, breaks, serverVars>>

\* The socket opens: after what the agents say, hello and a flush.
OpenWith(before) ==
    /\ ~online
    /\ conn + 1 \in Connection
    /\ conn' = conn + 1
    /\ online' = TRUE
    /\ up' = [up EXCEPT ![conn + 1] = Flush(Append(before, {Hello}), Pending(enqueued', acked))]
    /\ UNCHANGED <<announces, acked, greeted, doomed, acks, welcomes, breaks, serverVars>>

\* No agent has a session to announce.
OpenQuietly ==
    /\ ~announces
    /\ UNCHANGED <<enqueued, early>>
    /\ OpenWith(<<>>)

\* One has: an event more, and a flush.  Two bounds: where there are no events
\* left, the announcement stands for one that is pending; and after one such
\* connection the next of the same process, which is refused like it, is left out.
OpenAnnouncing ==
    /\ announces
    /\ conn \notin early
    /\ early' = early \cup {conn + 1}
    /\ enqueued' = IF enqueued < MaxEvents THEN enqueued + 1 ELSE enqueued
    /\ Pending(enqueued', acked) # {}
    /\ OpenWith(<<Pending(enqueued', acked)>>)

Open == OpenQuietly \/ OpenAnnouncing

\* The socket closes.  The server has received n batches, the last one perhaps
\* in part; what was under way to the connector is lost.
Close(n, s) ==
    /\ online
    /\ n > 0 => \E r \in up[conn][n] : r < s
    /\ online' = FALSE
    /\ up' = [up EXCEPT ![conn] = Received(up[conn], n, s)]
    /\ acks' = {} /\ welcomes' = {}
    /\ UNCHANGED <<enqueued, acked, conn, greeted, doomed, early, serverVars>>

\* The network, or a restart of either process, breaks the connection.  A new
\* process of the connector has no sessions at first.
Break ==
    /\ breaks < MaxBreaks
    /\ breaks' = breaks + 1
    /\ announces' \in {announces, FALSE}
    /\ \E n \in 0..Len(up[conn]), s \in 1..(MaxEvents + 1) : Close(n, s)

\* The server's close() after a rejected message takes effect.
CloseDoomed ==
    /\ conn \in doomed
    /\ UNCHANGED <<announces, breaks>>
    /\ \E n \in 0..Len(up[conn]), s \in 1..(MaxEvents + 1) : Close(n, s)
-----------------------------------------------------------------------------
\* The message handler of connection e takes its first message, m.
Handles(e, m) ==
    /\ up[e] # <<>>
    /\ m \in Head(up[e]) /\ \A r \in Head(up[e]) : m <= r
    /\ up' = [up EXCEPT ![e] = Rest(up[e], m)]

\* The connector still hears connection e.
Hears(e) == e = conn /\ online /\ e \notin doomed

\* hello: the cursor is sent in a welcome, and the connection becomes active
\* unless it is superseded or the server has noticed that it is closed.
HandleHello(e) ==
    /\ Handles(e, Hello)
    /\ \E n \in 0..MaxEvents :
          IsCursor(n) /\ welcomes' = IF Hears(e) THEN welcomes \cup {n} ELSE welcomes
    /\ \/ e \notin doomed /\ greeted' = greeted \cup {e} /\ UNCHANGED doomed
       \/ ~Hears(e) /\ doomed' = doomed \cup {e} /\ UNCHANGED greeted
    /\ UNCHANGED <<connectorVars, conn, online, early, acks, breaks, serverVars>>

\* processConnectorEnvelope: the inbox row and the payload in one transaction,
\* nothing for a known message id; then the ACK.
HandleEvent(e, s) ==
    /\ Handles(e, s)
    /\ e \in greeted
    /\ inbox' = inbox \cup {s}
    /\ applied' = IF s \in inbox THEN applied ELSE [applied EXCEPT ![s] = @ + 1]
    /\ acks' = IF Hears(e) THEN acks \cup {s} ELSE acks
    /\ UNCHANGED <<connectorVars, conn, online, greeted, doomed, early, welcomes, breaks, rejects>>

\* The transaction fails and is rolled back: the socket is closed, but the chain
\* of its handlers goes on with the next message.
RejectEvent(e, s) ==
    /\ Handles(e, s)
    /\ e \in greeted
    /\ s \notin inbox
    /\ rejects < MaxRejects
    /\ rejects' = rejects + 1
    /\ doomed' = doomed \cup {e}
    /\ UNCHANGED <<connectorVars, conn, online, greeted, early, acks, welcomes, breaks, inbox, applied>>

\* "Connector must send hello first": the socket is closed, and what the chain of
\* its handlers goes on with, the hello too, finds a closing socket.
RefuseUngreeted(e, s) ==
    /\ Handles(e, s)
    /\ e \notin greeted
    /\ doomed' = doomed \cup {e}
    /\ UNCHANGED <<connectorVars, conn, online, greeted, early, acks, welcomes, breaks, serverVars>>
-----------------------------------------------------------------------------
AckArrives(s) ==
    /\ s \in acks
    /\ acks' = acks \ {s}
    /\ acked' = acked \cup {s}
    /\ UNCHANGED <<announces, enqueued, conn, online, up, greeted, doomed, early, welcomes, breaks, serverVars>>

\* Faulty variant: takes the cursor for the next sequence the server expects.
WelcomeOffByOne(n) ==
    /\ n \in welcomes
    /\ welcomes' = welcomes \ {n}
    /\ acked' = acked \cup ((1..(n + 1)) \cap (1..enqueued))
    /\ up' = [up EXCEPT ![conn] = Flush(up[conn], Pending(enqueued, acked'))]
    /\ UNCHANGED <<announces, enqueued, conn, online, greeted, doomed, early, acks, breaks, serverVars>>

\* acknowledgeThrough(cursor), then a flush.
WelcomeArrives(n) ==
    /\ n \in welcomes
    /\ welcomes' = welcomes \ {n}
    /\ acked' = acked \cup ((1..n) \cap (1..enqueued))
    /\ up' = [up EXCEPT ![conn] = Flush(up[conn], Pending(enqueued, acked'))]
    /\ UNCHANGED <<announces, enqueued, conn, online, greeted, doomed, early, acks, breaks, serverVars>>
-----------------------------------------------------------------------------
Serve(e) ==
    \/ HandleHello(e)
    \/ \E s \in Event : HandleEvent(e, s) \/ RejectEvent(e, s) \/ RefuseUngreeted(e, s)

Hear == \/ \E s \in Event : AckArrives(s)
        \/ \E n \in 0..MaxEvents : WelcomeArrives(n)

Next ==
    \/ RestoreSessions \/ Enqueue \/ Open \/ Break \/ CloseDoomed
    \/ \E e \in Connection : Serve(e)
    \/ Hear

Spec == Init /\ [][Next]_vars

\* The server's event loop serves every socket, the connector reconnects with a
\* bounded backoff and reads its socket, and a close() completes.
Fairness ==
    /\ \A e \in Connection : WF_vars(Serve(e))
    /\ WF_vars(Open) /\ WF_vars(CloseDoomed) /\ WF_vars(Hear)

FairSpec == Spec /\ Fairness
-----------------------------------------------------------------------------
(* Properties *)

\* The connector forgets an event only after the server committed it.
NothingLost == acked \subseteq inbox

\* Events are applied in the order of their sequence numbers, without a gap, over
\* any number of connections that are served side by side.
AppliedInOrder == \A s \in inbox : \A r \in 1..s : r \in inbox

\* However often it is sent, an event changes the server's state once.
AppliedOnce == \A s \in Event : applied[s] <= 1 /\ (applied[s] = 1 <=> s \in inbox)

\* A rejected event leaves a gap that the next cursor jumps over, and the events it
\* covers never arrive; as long as the server applied every event it was handed:
WhileApplied(P) == rejects = 0 => P

NothingLostWhileApplied == WhileApplied(NothingLost)

AppliedInOrderWhileApplied == WhileApplied(AppliedInOrder)

\* A connection on which an agent announced its sessions is never active: the
\* server refuses its events, and greets nobody on a socket it is closing.
AnnouncedIsRefused == early \cap greeted = {}

\* Every event is applied and acknowledged in the end, unless one was rejected or
\* the connection is one that an agent announced its sessions on.
Arrives ==
    \A s \in Event : s <= enqueued ~> (s \in inbox /\ s \in acked) \/ rejects > 0 \/ conn \in early
=============================================================================

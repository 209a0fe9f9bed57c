-------------------------- MODULE ApprovalDelivery --------------------------
(***************************************************************************)
(* How a question of Codex becomes a request that a collaborator decides,  *)
(* and how the decision gets back to Codex:                                *)
(*   src/src/connector/runtime.ts          #pending, its timers, decisions *)
(*   src/src/codex/{json-rpc-client,adapter}.ts     the app-server clients *)
(*   src/src/reliability/sqlite-{approval-journal,decision-ledger}.ts      *)
(*   src/apps/server/src/{repository,connector-repository}.ts              *)
(* Several app-servers run side by side, each numbering its requests by    *)
(* itself.  Events of the connector reach the server in order and once,    *)
(* as module EventTransport shows; a decision is sent again until it is    *)
(* acknowledged.                                                           *)
(*                                                                         *)
(* The connector is one thread: what a handler does up to its first await  *)
(* is one step, and the continuations of settled promises run before the   *)
(* next timer or message of Codex.                                         *)
(***************************************************************************)
EXTENDS Integers, Sequences, FiniteSets

CONSTANTS Approval,     \* request ids of Codex that ask for an approval
          Question,     \* request ids of Codex that ask for answers
          Foreign,      \* permission requests of an agent that is not the default one
          Client,       \* the app-servers: the resident one, one per remote turn
          MaxIds,       \* bound: requests an app-server sends
          MaxRestarts,  \* bound: how often the connector is killed
          None

Request == Approval \cup Question \cup Foreign

ASSUME RequestAssumption ==
    /\ Approval \cap Question = {} /\ (Approval \cup Question) \cap Foreign = {}
    /\ IsFiniteSet(Request)
    /\ MaxIds \in Nat /\ MaxRestarts \in Nat

Id == 0..(MaxIds - 1)

Ask == [req : Approval \cup Question, client : Client, id : Id]

ASSUME NoneAssumption == None \notin Ask \cup Request \cup {"approve", "deny", "answer"}

VARIABLES waiting,      \* Codex: asks without an answer
          nextId,       \* Codex: the number of the next request of each app-server
          notices,      \* serverRequest/resolved notifications in flight
          replies,      \* for each request: the results Codex has been given
          pending,      \* #pending: the ask of each request
          pendingByRpc, \* #pendingByRpc
          timers,       \* asks whose timeout is armed
          open,         \* asks whose promise is not settled
          responding,   \* settled asks whose response is still to be written
          parked,       \* #pendingPermissions of the runtime of the other agent
          down,         \* decision messages in flight
          handled,      \* decisions handled but not yet marked in transport_inbox
          processed,    \* decisions marked as processed
          ledger,       \* approval_decisions
          journal,      \* approval_delivery_journal
          events,       \* transport_outbox: events the server has not applied
          status,       \* agent_requests.status
          delivery,     \* agent_requests.delivery_status
          decision,     \* request_decisions
          outbox,       \* connector_outbox
          restarts

codexVars == <<waiting, nextId, notices, replies>>
memoryVars == <<pending, pendingByRpc, timers, open, responding, parked, down, handled>>
durableVars == <<processed, ledger, journal, events>>
serverVars == <<status, delivery, decision, outbox>>
vars == <<codexVars, memoryVars, durableVars, serverVars, restarts>>
-----------------------------------------------------------------------------
Verdict(r) == IF r \in Question THEN {"answer"} ELSE {"approve", "deny"}

Result == {"approve", "deny", "answer"}

Notice == [client : Client, id : Id]

Open == {"none", "pending"}

Final == {"approved", "denied", "expired", "cancelled", "interrupted"}

\* An event changes the status of a request that still has the status it
\* expects, or sets its delivery status.
Event == [req : Request, from : Open, to : {"pending", "cancelled", "interrupted"}]
         \cup [req : Request, from : {"delivery"}, to : {"sent_unknown", "delivered"}]

TypeOK ==
    /\ waiting \subseteq Ask /\ nextId \in [Client -> 0..MaxIds]
    /\ notices \subseteq Notice /\ replies \in [Request -> Seq(Result)]
    /\ pending \in [Request -> Ask \cup {None}]
    /\ pendingByRpc \in [Id -> Request \cup {None}]
    /\ timers \subseteq Ask /\ open \subseteq Ask
    /\ responding \subseteq [ask : Ask, result : Result \cup {"error"}]
    /\ parked \subseteq Foreign /\ down \subseteq Request
    /\ handled \subseteq Request /\ processed \subseteq Request
    /\ ledger \in [Request -> Result \cup {None}]
    /\ journal \in [Request -> {"none", "prepared", "sent_unknown", "delivered"}]
    /\ events \in Seq(Event)
    /\ status \in [Request -> Open \cup Final]
    /\ delivery \in [Request -> {"none", "queued", "sent_unknown", "delivered"}]
    /\ decision \in [Request -> Result \cup {None}]
    /\ outbox \in [Request -> {"none", "pending", "acked"}]
    /\ restarts \in 0..MaxRestarts

Created(r) == [req |-> r, from |-> "none", to |-> "pending"]

Resolved(r, s) == [req |-> r, from |-> "pending", to |-> s]
Delivery(r, d) == [req |-> r, from |-> "delivery", to |-> d]

\* The sequences that list a finite set.
Orders(S) == {q \in [1..Cardinality(S) -> S] : \A s \in S : \E i \in DOMAIN q : q[i] = s}

\* No continuation is left: timers and messages of Codex are served.
Idle == responding = {} /\ handled = {}

\* resolve or reject the promises of the asks A; a settled one stays as it is.
Settle(A, result) ==
    /\ open' = open \ A
    /\ responding' = responding \cup {[ask |-> a, result |-> result] : a \in A \cap open}
-----------------------------------------------------------------------------
Init ==
    /\ waiting = {} /\ nextId = [c \in Client |-> 0] /\ notices = {}
    /\ replies = [r \in Request |-> <<>>]
    /\ pending = [r \in Request |-> None] /\ pendingByRpc = [i \in Id |-> None]
    /\ timers = {} /\ open = {} /\ responding = {}
    /\ parked = {} /\ down = {} /\ handled = {} /\ processed = {}
    /\ ledger = [r \in Request |-> None]
    /\ journal = [r \in Request |-> "none"]
    /\ events = <<>>
    /\ status = [r \in Request |-> "none"]
    /\ delivery = [r \in Request |-> "none"]
    /\ decision = [r \in Request |-> None]
    /\ outbox = [r \in Request |-> "none"]
    /\ restarts = 0

\* Faulty variant: arms no timer.
HandleCodexRequestUntimed(r, c) ==
    /\ Idle
    /\ nextId[c] < MaxIds
    /\ \A b \in waiting : b.req = r => b.client # c
    /\ LET a == [req |-> r, client |-> c, id |-> nextId[c]] IN
          /\ waiting' = waiting \cup {a}
          /\ pending' = [pending EXCEPT ![r] = a]
          /\ pendingByRpc' = [pendingByRpc EXCEPT ![a.id] = r]
          /\ open' = open \cup {a}
    /\ nextId' = [nextId EXCEPT ![c] = @ + 1]
    /\ events' = Append(events, Created(r))
    /\ UNCHANGED <<notices, replies, timers, responding, parked, down, handled,
                   processed, ledger, journal, serverVars, restarts>>

\* handleCodexRequest: Codex asks r on connection c, perhaps not for the first
\* time: the request id is a hash of thread, turn and item.
HandleCodexRequest(r, c) ==
    /\ Idle
    /\ nextId[c] < MaxIds
    /\ \A b \in waiting : b.req = r => b.client # c
    /\ LET a == [req |-> r, client |-> c, id |-> nextId[c]] IN
          /\ waiting' = waiting \cup {a}
          /\ pending' = [pending EXCEPT ![r] = a]
          /\ pendingByRpc' = [pendingByRpc EXCEPT ![a.id] = r]
          /\ open' = open \cup {a}
          /\ timers' = timers \cup {a}
    /\ nextId' = [nextId EXCEPT ![c] = @ + 1]
    /\ events' = Append(events, Created(r))
    /\ UNCHANGED <<notices, replies, responding, parked, down, handled,
                   processed, ledger, journal, serverVars, restarts>>

\* The runtime of another agent parks a permission request; it has no timeout.
ParkForeign(r) ==
    /\ Idle
    /\ status[r] = "none" /\ r \notin parked
    /\ \A i \in DOMAIN events : events[i].req # r
    /\ parked' = parked \cup {r}
    /\ events' = Append(events, Created(r))
    /\ UNCHANGED <<codexVars, pending, pendingByRpc, timers, open, responding, down, handled,
                   processed, ledger, journal, serverVars, restarts>>

\* The process of the other agent exits: its permission requests are rejected.
ForeignExits ==
    /\ Idle
    /\ parked # {}
    /\ parked' = {}
    /\ UNCHANGED <<codexVars, pending, pendingByRpc, timers, open, responding, down, handled,
                   durableVars, serverVars, restarts>>

\* The timer of an ask goes off: the request fails closed.  Whatever is pending
\* under its ids is forgotten.
Timeout(a) ==
    /\ Idle
    /\ a \in timers
    /\ timers' = timers \ {a}
    /\ pending' = [pending EXCEPT ![a.req] = None]
    /\ pendingByRpc' = [pendingByRpc EXCEPT ![a.id] = None]
    /\ Settle({a}, "error")
    /\ events' = Append(events, Resolved(a.req, "cancelled"))
    /\ UNCHANGED <<codexVars, parked, down, handled,
                   processed, ledger, journal, serverVars, restarts>>
-----------------------------------------------------------------------------
\* The requests with an entry in #pending.
Pending == {r \in Request : pending[r] # None}

\* Another local client of Codex answers an ask first.
ResolveElsewhere(a) ==
    /\ a \in waiting
    /\ waiting' = waiting \ {a}
    /\ notices' = notices \cup {[client |-> a.client, id |-> a.id]}
    /\ UNCHANGED <<nextId, replies, memoryVars, durableVars, serverVars, restarts>>

\* Forget and reject the entries of the requests R, and send the events first
\* and then one with status s for each.
Drop(R, s, first) ==
    /\ timers' = timers \ {pending[r] : r \in R}
    /\ pending' = [r \in Request |-> IF r \in R THEN None ELSE pending[r]]
    /\ pendingByRpc' = [i \in Id |-> IF \E r \in R : pending[r].id = i THEN None ELSE pendingByRpc[i]]
    /\ Settle({pending[r] : r \in R}, "error")
    /\ \E q \in Orders(R) :
          events' = events \o first \o [i \in DOMAIN q |-> Resolved(q[i], s)]

\* serverRequest/resolved carries the RPC id only: every pending request with
\* this id is taken for resolved by another client.
HandleResolvedNotice(n) ==
    /\ Idle
    /\ n \in notices
    /\ notices' = notices \ {n}
    /\ Drop({r \in Pending : pending[r].id = n.id}, "cancelled", <<>>)
    /\ UNCHANGED <<waiting, nextId, replies, parked, down, handled,
                   processed, ledger, journal, serverVars, restarts>>

\* The turn of r is interrupted: the server hears of it, and a pending entry is
\* rejected.  (Every request is of a turn of its own.)
InterruptTurn(r) ==
    /\ Idle
    /\ \E a \in waiting : a.req = r
    /\ waiting' = {a \in waiting : a.req # r}
    /\ Drop({r} \cap Pending, "interrupted", <<Resolved(r, "interrupted")>>)
    /\ UNCHANGED <<nextId, notices, replies, parked, down, handled,
                   processed, ledger, journal, serverVars, restarts>>
-----------------------------------------------------------------------------
\* getPendingConnectorDecisions: pushed after the POST, replayed on connections.
SendDecision(r) ==
    /\ outbox[r] = "pending"
    /\ delivery[r] # "sent_unknown"
    /\ r \notin down
    /\ down' = down \cup {r}
    /\ UNCHANGED <<codexVars, pending, pendingByRpc, timers, open, responding, parked, handled,
                   durableVars, serverVars, restarts>>

\* The decision of r is taken from the socket and goes to the default runtime,
\* whichever agent asked.
Takes(r) ==
    /\ r \in down
    /\ r \notin processed \cup handled
    /\ down' = down \ {r}
    /\ handled' = handled \cup {r}

\* handleDecision: nothing is pending under this request id.
DecideTooLate(r) ==
    /\ Takes(r)
    /\ r \notin Pending
    /\ events' = Append(events, Resolved(r, "interrupted"))
    /\ UNCHANGED <<codexVars, pending, pendingByRpc, timers, open, responding, parked,
                   processed, ledger, journal, serverVars, restarts>>

\* decide accepts the first decision of a request and its repetition.
LedgerAccepts(r) == ledger[r] \in {None, decision[r]}

\* Faulty variant: dispatches a delivery of unknown outcome again.
DispatchAgain(r) ==
    /\ Takes(r)
    /\ r \in Pending \cap Approval
    /\ LedgerAccepts(r)
    /\ journal[r] # "delivered"
    /\ ledger' = [ledger EXCEPT ![r] = decision[r]]
    /\ journal' = [journal EXCEPT ![r] = "sent_unknown"]
    /\ Settle({pending[r]}, decision[r])
    /\ UNCHANGED <<codexVars, pending, pendingByRpc, timers, parked,
                   processed, events, serverVars, restarts>>

\* Faulty variant: records the delivery before the response is written.
DispatchDelivered(r) ==
    /\ Takes(r)
    /\ r \in Pending \cap Approval
    /\ LedgerAccepts(r)
    /\ journal[r] \in {"none", "prepared"}
    /\ ledger' = [ledger EXCEPT ![r] = decision[r]]
    /\ journal' = [journal EXCEPT ![r] = "delivered"]
    /\ Settle({pending[r]}, decision[r])
    /\ UNCHANGED <<codexVars, pending, pendingByRpc, timers, parked,
                   processed, events, serverVars, restarts>>

\* handleDecision of an approval: decide, prepare, beginDispatch, resolve.
DispatchApproval(r) ==
    /\ Takes(r)
    /\ r \in Pending \cap Approval
    /\ LedgerAccepts(r)
    /\ journal[r] \in {"none", "prepared"}
    /\ ledger' = [ledger EXCEPT ![r] = decision[r]]
    /\ journal' = [journal EXCEPT ![r] = "sent_unknown"]
    /\ Settle({pending[r]}, decision[r])
    /\ UNCHANGED <<codexVars, pending, pendingByRpc, timers, parked,
                   processed, events, serverVars, restarts>>

\* The ledger holds another decision, or beginDispatch refuses because a
\* delivery may have happened: reject.  The entry stays in #pending.
RefuseDispatch(r) ==
    /\ Takes(r)
    /\ r \in Pending \cap Approval
    /\ ~LedgerAccepts(r) \/ journal[r] \notin {"none", "prepared"}
    /\ ledger' = [ledger EXCEPT ![r] = IF @ = None THEN decision[r] ELSE @]
    /\ Settle({pending[r]}, "error")
    /\ UNCHANGED <<codexVars, pending, pendingByRpc, timers, parked,
                   processed, journal, events, serverVars, restarts>>

\* handleDecision of a question: no ledger and no journal.
DispatchAnswer(r) ==
    /\ Takes(r)
    /\ r \in Pending \cap Question
    /\ Settle({pending[r]}, decision[r])
    /\ UNCHANGED <<codexVars, pending, pendingByRpc, timers, parked,
                   durableVars, serverVars, restarts>>

HandleDecision(r) == DecideTooLate(r) \/ DispatchApproval(r) \/ RefuseDispatch(r) \/ DispatchAnswer(r)

\* markInboundProcessed, in the continuation of the handler.
MarkProcessed(r) ==
    /\ r \in handled
    /\ handled' = handled \ {r}
    /\ processed' = processed \cup {r}
    /\ UNCHANGED <<codexVars, pending, pendingByRpc, timers, open, responding, parked, down,
                   ledger, journal, events, serverVars, restarts>>

\* The ACK, or the one that answers a repetition, is applied.
Acknowledge(r) ==
    /\ r \in processed
    /\ outbox[r] = "pending"
    /\ outbox' = [outbox EXCEPT ![r] = "acked"]
    /\ down' = down \ {r}
    /\ UNCHANGED <<codexVars, pending, pendingByRpc, timers, open, responding, parked, handled,
                   durableVars, status, delivery, decision, restarts>>
-----------------------------------------------------------------------------
\* Codex gets the response x; a late one is ignored.
Reply(x) ==
    LET a == x.ask IN
    /\ waiting' = waiting \ {a}
    /\ notices' = IF a \in waiting THEN notices \cup {[client |-> a.client, id |-> a.id]} ELSE notices
    /\ replies' = IF a \in waiting /\ x.result # "error"
                  THEN [replies EXCEPT ![a.req] = Append(@, x.result)] ELSE replies

\* handleServerRequest writes an error response.
WriteError(x) ==
    /\ x \in responding
    /\ x.result = "error"
    /\ responding' = responding \ {x}
    /\ Reply(x)
    /\ UNCHANGED <<nextId, pending, pendingByRpc, timers, open, parked, down, handled,
                   durableVars, serverVars, restarts>>

\* handleServerRequest writes a result, then markCodexResponseWritten looks the
\* request up by its RPC id.
WriteResult(x) ==
    /\ x \in responding
    /\ x.result # "error"
    /\ responding' = responding \ {x}
    /\ Reply(x)
    /\ LET r == pendingByRpc[x.ask.id] IN
       IF r = None
       THEN UNCHANGED <<pending, pendingByRpc, timers, journal, events>>
       ELSE /\ pendingByRpc' = [pendingByRpc EXCEPT ![x.ask.id] = None]
            /\ pending' = [pending EXCEPT ![r] = None]
            /\ timers' = timers \ {pending[r]}
            /\ IF journal[r] = "sent_unknown"
               THEN /\ journal' = [journal EXCEPT ![r] = "delivered"]
                    /\ events' = Append(events, Delivery(r, "delivered"))
               ELSE UNCHANGED <<journal, events>>
    /\ UNCHANGED <<nextId, open, parked, down, handled, processed, ledger, serverVars, restarts>>
-----------------------------------------------------------------------------
\* Faulty variant: starts without the reports.
RebootSilent(J) ==
    /\ restarts < MaxRestarts
    /\ restarts' = restarts + 1
    /\ waiting' = {} /\ notices' = {} /\ nextId' = [c \in Client |-> 0]
    /\ pending' = [r \in Request |-> None] /\ pendingByRpc' = [i \in Id |-> None]
    /\ timers' = {} /\ open' = {} /\ responding' = {}
    /\ parked' = {} /\ down' = {} /\ handled' = {}
    /\ journal' = J
    /\ UNCHANGED events

\* The connector and its app-servers are gone and started again, with J in the
\* journal: deliveries of unknown outcome are reported.
Reboot(J) ==
    /\ restarts < MaxRestarts
    /\ restarts' = restarts + 1
    /\ waiting' = {} /\ notices' = {} /\ nextId' = [c \in Client |-> 0]
    /\ pending' = [r \in Request |-> None] /\ pendingByRpc' = [i \in Id |-> None]
    /\ timers' = {} /\ open' = {} /\ responding' = {}
    /\ parked' = {} /\ down' = {} /\ handled' = {}
    /\ journal' = J
    /\ \E q \in Orders({r \in Request : J[r] = "sent_unknown"}) :
          events' = events \o [i \in DOMAIN q |-> Delivery(q[i], "sent_unknown")]

Restart ==
    /\ Reboot(journal)
    /\ UNCHANGED <<replies, processed, ledger, serverVars>>

\* Killed inside DispatchApproval, after decide, prepare or beginDispatch.
CrashWhileDispatching(r) ==
    /\ r \in down \ (processed \cup handled)
    /\ r \in Pending \cap Approval
    /\ LedgerAccepts(r)
    /\ ledger' = [ledger EXCEPT ![r] = decision[r]]
    /\ \E s \in {journal[r], "prepared", "sent_unknown"} :
          /\ s # journal[r] => journal[r] \in {"none", "prepared"}
          /\ Reboot([journal EXCEPT ![r] = s])
    /\ UNCHANGED <<replies, processed, serverVars>>

\* Killed inside WriteResult, before the journal is marked or before the event
\* is in the outbox.
CrashWhileWriting(x) ==
    /\ x \in responding
    /\ x.result # "error"
    /\ replies' = IF x.ask \in waiting
                  THEN [replies EXCEPT ![x.ask.req] = Append(@, x.result)] ELSE replies
    /\ \/ Reboot(journal)
       \/ LET r == pendingByRpc[x.ask.id] IN
          /\ r # None /\ journal[r] = "sent_unknown"
          /\ Reboot([journal EXCEPT ![r] = "delivered"])
    /\ UNCHANGED <<processed, ledger, serverVars>>
-----------------------------------------------------------------------------
\* decideRequest: the first collaborator wins, and the decision is queued in the
\* same transaction.
Decide(r, d) ==
    /\ status[r] = "pending"
    /\ d \in Verdict(r)
    /\ status' = [status EXCEPT ![r] = IF d = "deny" THEN "denied" ELSE "approved"]
    /\ delivery' = [delivery EXCEPT ![r] = "queued"]
    /\ decision' = [decision EXCEPT ![r] = d]
    /\ outbox' = [outbox EXCEPT ![r] = "pending"]
    /\ UNCHANGED <<codexVars, memoryVars, durableVars, restarts>>

\* The deadline of a pending request has passed when it is read or decided.
Expire(r) ==
    /\ status[r] = "pending"
    /\ status' = [status EXCEPT ![r] = "expired"]
    /\ UNCHANGED <<codexVars, memoryVars, durableVars, delivery, decision, outbox, restarts>>

\* applyPayload of request.created, request.resolved, turn.completed, or
\* delivery.updated, which withdraws the decision when its outcome is unknown.
ApplyEvent ==
    /\ events # <<>>
    /\ events' = Tail(events)
    /\ LET e == Head(events) IN
       IF e.from = "delivery"
       THEN /\ delivery' = [delivery EXCEPT ![e.req] = e.to]
            /\ outbox' = IF e.to = "sent_unknown" THEN [outbox EXCEPT ![e.req] = "acked"] ELSE outbox
            /\ UNCHANGED status
       ELSE /\ status' = [status EXCEPT ![e.req] = IF @ = e.from THEN e.to ELSE @]
            /\ UNCHANGED <<delivery, outbox>>
    /\ UNCHANGED <<codexVars, memoryVars, processed, ledger, journal, decision, restarts>>
-----------------------------------------------------------------------------
Codex ==
    \/ \E r \in Approval \cup Question : (\E c \in Client : HandleCodexRequest(r, c)) \/ InterruptTurn(r)
    \/ \E a \in waiting : ResolveElsewhere(a)
    \/ \E n \in notices : HandleResolvedNotice(n)

OtherAgent == ForeignExits \/ \E r \in Foreign : ParkForeign(r)

Connector ==
    \/ \E a \in timers : Timeout(a)
    \/ \E x \in responding : WriteError(x) \/ WriteResult(x)
    \/ \E r \in Request : HandleDecision(r) \/ MarkProcessed(r) \/ SendDecision(r) \/ Acknowledge(r)

Kill ==
    \/ Restart
    \/ \E r \in Request : CrashWhileDispatching(r)
    \/ \E x \in responding : CrashWhileWriting(x)

Server ==
    \/ \E r \in Request : Expire(r) \/ \E d \in Verdict(r) : Decide(r, d)
    \/ ApplyEvent

Next == Codex \/ OtherAgent \/ Connector \/ Kill \/ Server

Spec == Init /\ [][Next]_vars

\* Settled promises are continued, armed timers go off, the connector reconnects
\* and its events and the decisions of the server arrive.
Fairness ==
    /\ WF_vars(\E x \in responding : WriteError(x) \/ WriteResult(x))
    /\ WF_vars(ApplyEvent)
    /\ \A a \in Ask : WF_vars(Timeout(a))
    /\ \A r \in Request :
          WF_vars(HandleDecision(r)) /\ WF_vars(MarkProcessed(r)) /\ WF_vars(SendDecision(r)) /\ WF_vars(Acknowledge(r))

FairSpec == Spec /\ Fairness
-----------------------------------------------------------------------------
(* Properties *)

\* However often Codex asks and the connector is killed, an approval is answered
\* at most once, and with the decision of the collaborator.
AnsweredOnce ==
    \A r \in Approval : Len(replies[r]) <= 1 /\ \A i \in DOMAIN replies[r] : replies[r][i] = decision[r]

\* Several app-servers number their requests alike, and #pendingByRpc keeps one
\* entry for a number: the response to one of them, or its notice, is taken for
\* that of another.
OneAppServer == \A c, d \in Client : c = d

\* A delivery is called delivered, by the journal and after it by the server, only
\* when no result for the request is left to be written: of one app-server.
DeliveredWasWritten ==
    \A r \in Approval :
        /\ delivery[r] = "delivered" => journal[r] = "delivered"
        /\ OneAppServer /\ journal[r] = "delivered" =>
              \A x \in responding : x.ask.req = r => x.result = "error"

\* Codex never waits forever: every ask of the one app-server is answered, or
\* rejected by its timer.
NobodyWaitsForever == OneAppServer => \A a \in Ask : a \in waiting ~> a \notin waiting

\* A dispatch whose outcome stays open is reported to the server: of one app-server.
\* With two, an ask of the other one takes the number in pendingByRpc: the response is
\* written, and nothing records or reports that.
AmbiguityReported ==
    OneAppServer => \A r \in Approval : (journal[r] = "sent_unknown" /\ Idle) ~> delivery[r] = "sent_unknown"
=============================================================================

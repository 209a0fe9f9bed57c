------------------------ MODULE ApprovalDeliveryProofs ------------------------
(***************************************************************************)
(* AnsweredOnce for every number of requests, app-servers and restarts.    *)
(*                                                                         *)
(* The journal only moves forward, and it has moved past "prepared" before *)
(* a result is handed to the continuation that writes it.  So there is at  *)
(* most one result of an approval under way, and none once Codex has one.  *)
(* That the result is the decision of the server needs that a decision is  *)
(* never replaced: its request has left the status pending for good.       *)
(***************************************************************************)
EXTENDS ApprovalDelivery, RequestDecisions, FiniteSetTheorems, TLAPS

IsResult(x, r) == x.ask.req = r /\ x.result # "error"

\* An entry of #pending is stored under its own request id.
OwnEntry == \A r \in Request : pending[r] # None => pending[r].req = r

\* What is decided stays decided.
DecidedIsFinal == \A r \in Request : decision[r] # None => status[r] \in Final

\* Only decisions are sent.
SentIsDecided == \A r \in Request : r \in down \/ outbox[r] = "pending" => decision[r] \in Result

\* Before beginDispatch nothing has been answered.
Undispatched(r) ==
    journal[r] \in {"none", "prepared"} => replies[r] = <<>> /\ \A x \in responding : ~IsResult(x, r)

\* One result at a time, the first one, and it is the decision.
OneResult(r) ==
    /\ \A x, y \in responding : IsResult(x, r) /\ IsResult(y, r) => x = y
    /\ \A x \in responding : IsResult(x, r) => replies[r] = <<>> /\ x.result = decision[r]

Replied(r) == replies[r] \in {<<>>, <<decision[r]>>}

Dispatch(r) == Undispatched(r) /\ OneResult(r) /\ Replied(r)

IInv ==
    /\ TypeOK /\ OwnEntry /\ DecidedIsFinal /\ SentIsDecided
    /\ \A r \in Approval : Dispatch(r)
-----------------------------------------------------------------------------
(* Events *)

\* The events that Drop and Reboot send are sequences of events.
LEMMA OrderedEvents ==
    ASSUME NEW R \in SUBSET Request, NEW q \in Orders(R)
    PROVE  /\ \A s \in {"cancelled", "interrupted"} : [i \in DOMAIN q |-> Resolved(q[i], s)] \in Seq(Event)
           /\ [i \in DOMAIN q |-> Delivery(q[i], "sent_unknown")] \in Seq(Event)
<1>1. IsFiniteSet(R) BY FS_Subset, RequestAssumption
<1>2. PICK n \in Nat : n = Cardinality(R) BY <1>1, FS_CardinalityType
<1>3. DOMAIN q = 1..n /\ \A i \in 1..n : q[i] \in Request BY <1>2 DEF Orders
<1>4. \A i \in 1..n : /\ \A s \in {"cancelled", "interrupted"} : Resolved(q[i], s) \in Event
                      /\ Delivery(q[i], "sent_unknown") \in Event
  BY <1>3 DEF Resolved, Delivery, Event, Open
<1> HIDE DEF Event
<1> QED BY <1>3, <1>4

\* Appending to the outbox, and taking the first event from it.
LEMMA EventSteps ==
    ASSUME events \in Seq(Event)
    PROVE  /\ \A r \in Request : /\ Append(events, Created(r)) \in Seq(Event)
                                 /\ Append(events, Delivery(r, "delivered")) \in Seq(Event)
                                 /\ \A s \in {"cancelled", "interrupted"} :
                                       /\ Append(events, Resolved(r, s)) \in Seq(Event)
                                       /\ <<Resolved(r, s)>> \in Seq(Event)
           /\ events # <<>> => Head(events) \in Event /\ Tail(events) \in Seq(Event)
<1>1. \A r \in Request : /\ Created(r) \in Event /\ Delivery(r, "delivered") \in Event
                         /\ \A s \in {"cancelled", "interrupted"} : Resolved(r, s) \in Event
  BY DEF Created, Resolved, Delivery, Event, Open
<1> HIDE DEF Event
<1> QED BY <1>1
-----------------------------------------------------------------------------
(* Types *)

\* Settling promises keeps the types of the connector's memory.
LEMMA SettleTypes ==
    ASSUME TypeOK, NEW A \in SUBSET Ask, NEW v \in Result \cup {"error"}, Settle(A, v)
    PROVE  /\ open' \subseteq Ask
           /\ responding' \subseteq [ask : Ask, result : Result \cup {"error"}]
BY DEF TypeOK, Settle

\* Restarting keeps the types, whatever part of the journal was written.
LEMMA RebootTypes ==
    ASSUME TypeOK, NEW J \in [Request -> {"none", "prepared", "sent_unknown", "delivered"}], Reboot(J)
    PROVE  /\ waiting' \subseteq Ask /\ nextId' \in [Client -> 0..MaxIds] /\ notices' \subseteq Notice
           /\ pending' \in [Request -> Ask \cup {None}] /\ pendingByRpc' \in [Id -> Request \cup {None}]
           /\ timers' \subseteq Ask /\ open' \subseteq Ask
           /\ responding' \subseteq [ask : Ask, result : Result \cup {"error"}]
           /\ parked' \subseteq Foreign /\ down' \subseteq Request /\ handled' \subseteq Request
           /\ journal' \in [Request -> {"none", "prepared", "sent_unknown", "delivered"}]
           /\ events' \in Seq(Event) /\ restarts' \in 0..MaxRestarts
<1> DEFINE S == {r \in Request : J[r] = "sent_unknown"}
<1>1. PICK q \in Orders(S) : events' = events \o [i \in DOMAIN q |-> Delivery(q[i], "sent_unknown")]
  BY DEF Reboot
<1>2. [i \in DOMAIN q |-> Delivery(q[i], "sent_unknown")] \in Seq(Event)
  BY OrderedEvents, S \in SUBSET Request
<1>3. events' \in Seq(Event)
  <2> HIDE DEF Event
  <2> QED BY <1>1, <1>2 DEF TypeOK
<1>4. restarts' \in 0..MaxRestarts BY RequestAssumption DEF Reboot, TypeOK
<1>5. nextId' \in [Client -> 0..MaxIds] BY RequestAssumption DEF Reboot
<1> QED BY <1>3, <1>4, <1>5 DEF Reboot

\* Dropping entries keeps the types.
LEMMA DropTypes ==
    ASSUME TypeOK, NEW R \in SUBSET Pending, NEW s \in {"cancelled", "interrupted"},
           NEW first \in Seq(Event), Drop(R, s, first)
    PROVE  /\ pending' \in [Request -> Ask \cup {None}] /\ pendingByRpc' \in [Id -> Request \cup {None}]
           /\ timers' \subseteq Ask /\ open' \subseteq Ask
           /\ responding' \subseteq [ask : Ask, result : Result \cup {"error"}]
           /\ events' \in Seq(Event)
<1>1. {pending[r] : r \in R} \in SUBSET Ask BY DEF TypeOK, Pending
<1>2. open' \subseteq Ask /\ responding' \subseteq [ask : Ask, result : Result \cup {"error"}]
  BY <1>1, SettleTypes DEF Drop
<1>3. PICK q \in Orders(R) : events' = events \o first \o [i \in DOMAIN q |-> Resolved(q[i], s)]
  BY DEF Drop
<1>4. R \in SUBSET Request BY DEF Pending
<1>5. [i \in DOMAIN q |-> Resolved(q[i], s)] \in Seq(Event) BY <1>4, OrderedEvents
<1>6. events' \in Seq(Event)
  <2> HIDE DEF Event
  <2> QED BY <1>3, <1>5 DEF TypeOK
<1> QED BY <1>2, <1>6 DEF Drop, TypeOK

\* Handling a decision settles the promise of the entry with it, or with an error.
LEMMA DecisionTypes ==
    ASSUME TypeOK, SentIsDecided, NEW r \in down \cap Pending, NEW v \in {decision[r], "error"},
           Settle({pending[r]}, v)
    PROVE  /\ open' \subseteq Ask
           /\ responding' \subseteq [ask : Ask, result : Result \cup {"error"}]
<1>1. r \in Request /\ {pending[r]} \in SUBSET Ask BY DEF TypeOK, Pending
<1>2. v \in Result \cup {"error"} BY <1>1 DEF SentIsDecided
<1> QED BY <1>1, <1>2, SettleTypes

LEMMA InitType == Init => TypeOK
BY RequestAssumption, NoneAssumption DEF Init, TypeOK, Open, Final, Result

LEMMA TypeStep == TypeOK /\ SentIsDecided /\ [Next]_vars => TypeOK'
<1> SUFFICES ASSUME TypeOK, SentIsDecided, [Next]_vars PROVE TypeOK'
  OBVIOUS
<1> USE RequestAssumption
<1>1. ASSUME NEW r \in Approval \cup Question, NEW c \in Client, HandleCodexRequest(r, c) PROVE TypeOK'
  <2> DEFINE a == [req |-> r, client |-> c, id |-> nextId[c]]
  <2>1. a \in Ask /\ nextId[c] + 1 \in 0..MaxIds BY <1>1 DEF HandleCodexRequest, TypeOK, Ask, Id
  <2>2. events' \in Seq(Event)
    BY <1>1, EventSteps DEF HandleCodexRequest, TypeOK, Request
  <2>3. /\ waiting' = waiting \cup {a} /\ open' = open \cup {a} /\ timers' = timers \cup {a}
        /\ pending' = [pending EXCEPT ![r] = a] /\ pendingByRpc' = [pendingByRpc EXCEPT ![a.id] = r]
        /\ nextId' = [nextId EXCEPT ![c] = nextId[c] + 1]
    BY <1>1 DEF HandleCodexRequest
  <2> HIDE DEF a
  <2>4. pendingByRpc' \in [Id -> Request \cup {None}] BY <2>3 DEF TypeOK, Request
  <2>5. pending' \in [Request -> Ask \cup {None}] BY <2>1, <2>3 DEF TypeOK
  <2>6. nextId' \in [Client -> 0..MaxIds] BY <2>1, <2>3 DEF TypeOK
  <2> QED BY <1>1, <2>1, <2>2, <2>3, <2>4, <2>5, <2>6 DEF HandleCodexRequest, TypeOK, serverVars
<1>2. ASSUME NEW r \in Approval \cup Question, InterruptTurn(r) PROVE TypeOK'
  <2>1. {r} \cap Pending \in SUBSET Pending /\ <<Resolved(r, "interrupted")>> \in Seq(Event)
    BY EventSteps DEF TypeOK, Request
  <2>2. Drop({r} \cap Pending, "interrupted", <<Resolved(r, "interrupted")>>) BY <1>2 DEF InterruptTurn
  <2> QED BY <1>2, <2>1, <2>2, DropTypes DEF InterruptTurn, TypeOK, serverVars
<1>3. ASSUME NEW a \in waiting, ResolveElsewhere(a) PROVE TypeOK'
  BY <1>3 DEF ResolveElsewhere, TypeOK, Notice, Ask, memoryVars, durableVars, serverVars
<1>4. ASSUME NEW n \in notices, HandleResolvedNotice(n) PROVE TypeOK'
  <2>1. {r \in Pending : pending[r].id = n.id} \in SUBSET Pending OBVIOUS
  <2>2. Drop({r \in Pending : pending[r].id = n.id}, "cancelled", <<>>) BY <1>4 DEF HandleResolvedNotice
  <2>3. <<>> \in Seq(Event) OBVIOUS
  <2> QED BY <1>4, <2>1, <2>2, <2>3, DropTypes DEF HandleResolvedNotice, TypeOK, serverVars
<1>5. ASSUME ForeignExits PROVE TypeOK'
  BY <1>5 DEF ForeignExits, TypeOK, codexVars, durableVars, serverVars
<1>6. ASSUME NEW r \in Foreign, ParkForeign(r) PROVE TypeOK'
  BY <1>6, EventSteps DEF ParkForeign, TypeOK, Request, codexVars, serverVars
<1>7. ASSUME NEW a \in timers, Timeout(a) PROVE TypeOK'
  <2>1. a \in Ask /\ a.req \in Request /\ {a} \in SUBSET Ask /\ Settle({a}, "error")
    BY <1>7 DEF TypeOK, Timeout, Ask, Request
  <2>2. open' \subseteq Ask /\ responding' \subseteq [ask : Ask, result : Result \cup {"error"}]
    BY <2>1, SettleTypes
  <2>3. events' \in Seq(Event) BY <1>7, <2>1, EventSteps DEF Timeout, TypeOK
  <2>4. pending' \in [Request -> Ask \cup {None}] /\ pendingByRpc' \in [Id -> Request \cup {None}] /\ timers' \subseteq Ask
    BY <1>7, <2>1 DEF Timeout, TypeOK
  <2> QED BY <1>7, <2>2, <2>3, <2>4 DEF Timeout, TypeOK, codexVars, serverVars
<1>8. ASSUME NEW x \in responding, WriteError(x) PROVE TypeOK'
  BY <1>8 DEF WriteError, Reply, TypeOK, Notice, Ask, durableVars, serverVars
<1>9. ASSUME NEW x \in responding, WriteResult(x) PROVE TypeOK'
  <2>1. x.ask.id \in Id /\ x.ask.client \in Client /\ x.ask.req \in Request /\ x.ask \in Ask
        /\ x.result \in Result \cup {"error"}
    BY DEF TypeOK, Ask, Request
  <2> DEFINE r == pendingByRpc[x.ask.id]
  <2>2. r \in Request \cup {None} BY <2>1 DEF TypeOK
  <2>3. replies' \in [Request -> Seq(Result)] /\ waiting' \subseteq Ask /\ notices' \subseteq Notice
    BY <1>9, <2>1 DEF WriteResult, Reply, TypeOK, Notice
  <2>4. /\ pendingByRpc' \in [Id -> Request \cup {None}] /\ pending' \in [Request -> Ask \cup {None}]
        /\ timers' \subseteq Ask
    <3>1. pendingByRpc' = pendingByRpc \/ pendingByRpc' = [pendingByRpc EXCEPT ![x.ask.id] = None]
      BY <1>9 DEF WriteResult
    <3>2. pending' = pending \/ pending' = [pending EXCEPT ![r] = None]
      BY <1>9 DEF WriteResult
    <3>3. timers' \subseteq timers
      BY <1>9 DEF WriteResult
    <3>4. /\ pendingByRpc \in [Id -> Request \cup {None}] /\ pending \in [Request -> Ask \cup {None}]
          /\ timers \subseteq Ask
      BY DEF TypeOK
    <3> HIDE DEF r
    <3> QED BY <3>1, <3>2, <3>3, <3>4
  <2>5. \/ journal' = journal /\ events' = events
        \/ /\ r \in Request
           /\ journal' = [journal EXCEPT ![r] = "delivered"]
           /\ events' = Append(events, Delivery(r, "delivered"))
    BY <1>9, <2>2 DEF WriteResult
  <2>6. /\ journal' \in [Request -> {"none", "prepared", "sent_unknown", "delivered"}]
        /\ events' \in Seq(Event)
    <3> HIDE DEF r
    <3>1. CASE journal' = journal /\ events' = events
      BY <3>1 DEF TypeOK
    <3>2. CASE r \in Request /\ journal' = [journal EXCEPT ![r] = "delivered"]
               /\ events' = Append(events, Delivery(r, "delivered"))
      <4>1. events \in Seq(Event) /\ journal \in [Request -> {"none", "prepared", "sent_unknown", "delivered"}]
        BY DEF TypeOK
      <4>2. Append(events, Delivery(r, "delivered")) \in Seq(Event)
        BY <3>2, <4>1, EventSteps
      <4> HIDE DEF Event, Delivery
      <4> QED BY <3>2, <4>1, <4>2
    <3> QED BY <2>5, <3>1, <3>2
  <2> QED BY <1>9, <2>3, <2>4, <2>6 DEF WriteResult, TypeOK, serverVars
<1>10. ASSUME NEW r \in Request, DecideTooLate(r) PROVE TypeOK'
  BY <1>10, EventSteps DEF DecideTooLate, Takes, TypeOK, codexVars, serverVars
<1>11. ASSUME NEW r \in Request, DispatchApproval(r) PROVE TypeOK'
  <2>1. open' \subseteq Ask /\ responding' \subseteq [ask : Ask, result : Result \cup {"error"}]
    BY <1>11, DecisionTypes DEF DispatchApproval, Takes
  <2> QED BY <1>11, <2>1 DEF DispatchApproval, Takes, TypeOK, codexVars, serverVars
<1>12. ASSUME NEW r \in Request, RefuseDispatch(r) PROVE TypeOK'
  <2>1. open' \subseteq Ask /\ responding' \subseteq [ask : Ask, result : Result \cup {"error"}]
    BY <1>12, DecisionTypes DEF RefuseDispatch, Takes
  <2> QED BY <1>12, <2>1 DEF RefuseDispatch, Takes, TypeOK, codexVars, serverVars
<1>13. ASSUME NEW r \in Request, DispatchAnswer(r) PROVE TypeOK'
  <2>1. open' \subseteq Ask /\ responding' \subseteq [ask : Ask, result : Result \cup {"error"}]
    BY <1>13, DecisionTypes DEF DispatchAnswer, Takes
  <2> QED BY <1>13, <2>1 DEF DispatchAnswer, Takes, TypeOK, codexVars, durableVars, serverVars
<1>14. ASSUME NEW r \in Request, MarkProcessed(r) PROVE TypeOK'
  BY <1>14 DEF MarkProcessed, TypeOK, codexVars, serverVars
<1>15. ASSUME NEW r \in Request, SendDecision(r) PROVE TypeOK'
  BY <1>15 DEF SendDecision, TypeOK, codexVars, durableVars, serverVars
<1>16. ASSUME NEW r \in Request, Acknowledge(r) PROVE TypeOK'
  BY <1>16 DEF Acknowledge, TypeOK, codexVars, durableVars
<1>17. ASSUME Restart PROVE TypeOK'
  BY <1>17, RebootTypes DEF Restart, TypeOK, serverVars
<1>18. ASSUME NEW r \in Request, CrashWhileDispatching(r) PROVE TypeOK'
  <2>1. PICK j \in {journal[r], "prepared", "sent_unknown"} : Reboot([journal EXCEPT ![r] = j])
    BY <1>18 DEF CrashWhileDispatching
  <2>2. [journal EXCEPT ![r] = j] \in [Request -> {"none", "prepared", "sent_unknown", "delivered"}]
    BY DEF TypeOK
  <2> QED BY <1>18, <2>1, <2>2, RebootTypes DEF CrashWhileDispatching, TypeOK, serverVars
<1>19. ASSUME NEW x \in responding, CrashWhileWriting(x) PROVE TypeOK'
  <2>1. x.ask.id \in Id /\ x.ask.req \in Request /\ x.result \in Result \cup {"error"}
    BY DEF TypeOK, Ask, Request
  <2>2. replies' \in [Request -> Seq(Result)] BY <1>19, <2>1 DEF CrashWhileWriting, TypeOK
  <2>3. PICK J \in [Request -> {"none", "prepared", "sent_unknown", "delivered"}] : Reboot(J)
    BY <1>19, <2>1 DEF CrashWhileWriting, TypeOK
  <2> QED BY <1>19, <2>2, <2>3, RebootTypes DEF CrashWhileWriting, TypeOK, serverVars
<1>20. ASSUME NEW r \in Request, Expire(r) PROVE TypeOK'
  BY <1>20 DEF Expire, TypeOK, Final, codexVars, memoryVars, durableVars
<1>21. ASSUME NEW r \in Request, NEW d \in Verdict(r), Decide(r, d) PROVE TypeOK'
  BY <1>21 DEF Decide, Verdict, Result, TypeOK, Final, codexVars, memoryVars, durableVars
<1>22. ASSUME ApplyEvent PROVE TypeOK'
  <2>1. Head(events) \in Event /\ events' \in Seq(Event) BY <1>22, EventSteps DEF ApplyEvent, TypeOK
  <2>2. PICK e \in Event : e = Head(events) BY <2>1
  <2>3. /\ e.from = "delivery" => e.to \in {"sent_unknown", "delivered"}
        /\ e.from # "delivery" => e.to \in {"pending", "cancelled", "interrupted"}
    BY DEF Event, Open
  <2>4. delivery' \in [Request -> {"none", "queued", "sent_unknown", "delivered"}]
    BY <1>22, <2>2, <2>3 DEF ApplyEvent, TypeOK
  <2>5. status' \in [Request -> Open \cup Final]
    <3>1. CASE e.from = "delivery" BY <1>22, <2>2, <3>1 DEF ApplyEvent, TypeOK
    <3>2. CASE e.from # "delivery"
      <4>1. status' = [status EXCEPT ![e.req] = IF status[e.req] = e.from THEN e.to ELSE status[e.req]]
        BY <1>22, <2>2, <3>2 DEF ApplyEvent
      <4>2. e.to \in Open \cup Final BY <2>3, <3>2 DEF Open, Final
      <4> QED BY <4>1, <4>2 DEF TypeOK
    <3> QED BY <3>1, <3>2
  <2>6. outbox' \in [Request -> {"none", "pending", "acked"}]
    BY <1>22, <2>2 DEF ApplyEvent, TypeOK
  <2> QED BY <1>22, <2>1, <2>4, <2>5, <2>6
      DEF ApplyEvent, TypeOK, codexVars, memoryVars
<1>23. CASE UNCHANGED vars
  BY <1>23 DEF TypeOK, vars, codexVars, memoryVars, durableVars, serverVars
<1> QED
  BY <1>1, <1>2, <1>3, <1>4, <1>5, <1>6, <1>7, <1>8, <1>9, <1>10, <1>11, <1>12, <1>13, <1>14, <1>15,
     <1>16, <1>17, <1>18, <1>19, <1>20, <1>21, <1>22, <1>23
  DEF Next, Codex, OtherAgent, Connector, Kill, Server, HandleDecision
-----------------------------------------------------------------------------
(* Decisions *)

\* The fields of asks and of the entries of #pending.
LEMMA Fields ==
    ASSUME TypeOK
    PROVE  /\ \A a \in Ask : a.req \in Approval \cup Question /\ a.id \in Id
           /\ \A x \in responding : x.ask \in Ask /\ x.result \in Result \cup {"error"}
           /\ \A r \in Pending : r \in Request /\ pending[r] \in Ask
           /\ None \notin Result
BY NoneAssumption DEF TypeOK, Ask, Pending, Result

\* A decision is made once and stays, and only decisions are sent.
LEMMA DecisionStep ==
    ASSUME TypeOK, DecidedIsFinal, SentIsDecided, [Next]_vars
    PROVE  /\ DecidedIsFinal' /\ SentIsDecided'
           /\ \A r \in Request : decision[r] # None => decision'[r] = decision[r]
<1>1. ASSUME NEW r \in Request, NEW d \in Verdict(r), Decide(r, d)
      PROVE  /\ DecidedIsFinal' /\ SentIsDecided'
             /\ \A q \in Request : decision[q] # None => decision'[q] = decision[q]
  <2>1. decision[r] = None BY <1>1 DEF Decide, DecidedIsFinal, Final
  <2>2. d \in Result BY DEF Verdict, Result
  <2>3. DecidedIsFinal' BY <1>1 DEF Decide, DecidedIsFinal, TypeOK, Final
  <2>4. SentIsDecided' BY <1>1, <2>2 DEF Decide, SentIsDecided, TypeOK, memoryVars
  <2>5. \A q \in Request : decision[q] # None => decision'[q] = decision[q]
    BY <1>1, <2>1 DEF Decide, TypeOK
  <2> QED BY <2>3, <2>4, <2>5
<1>2. CASE ApplyEvent
  <2>1. PICK e \in Event : e = Head(events) BY <1>2, EventSteps DEF ApplyEvent, TypeOK
  <2>2. e.from \in Open \cup {"delivery"} BY DEF Event
  <2>3. \A r \in Request : status[r] \in Final => status'[r] = status[r]
    <3>1. CASE e.from = "delivery" BY <1>2, <2>1, <3>1 DEF ApplyEvent
    <3>2. CASE e.from # "delivery"
      <4>1. status' = [status EXCEPT ![e.req] = IF status[e.req] = e.from THEN e.to ELSE status[e.req]]
        BY <1>2, <2>1, <3>2 DEF ApplyEvent
      <4>2. e.from \notin Final BY <2>2, <3>2 DEF Open, Final
      <4> QED BY <4>1, <4>2 DEF TypeOK
    <3> QED BY <3>1, <3>2
  <2>4. UNCHANGED <<decision, down>> BY <1>2 DEF ApplyEvent, memoryVars
  <2>5. \A r \in Request : outbox'[r] = "pending" => outbox[r] = "pending"
    BY <1>2, <2>1 DEF ApplyEvent, TypeOK
  <2> QED BY <2>3, <2>4, <2>5 DEF DecidedIsFinal, SentIsDecided
<1>3. ASSUME NEW r \in Request, Expire(r)
      PROVE  DecidedIsFinal' /\ SentIsDecided' /\ decision' = decision
  BY <1>3 DEF Expire, DecidedIsFinal, SentIsDecided, TypeOK, Final, memoryVars
<1>4. ASSUME UNCHANGED <<status, decision>>,
             \A r \in Request : r \in down' => r \in down \/ outbox[r] = "pending",
             \A r \in Request : outbox'[r] = "pending" => outbox[r] = "pending"
      PROVE  DecidedIsFinal' /\ SentIsDecided' /\ decision' = decision
  BY <1>4 DEF DecidedIsFinal, SentIsDecided
<1>5. ASSUME Codex \/ OtherAgent \/ Connector \/ Kill \/ UNCHANGED vars
      PROVE  /\ UNCHANGED <<status, decision>>
             /\ \A r \in Request : r \in down' => r \in down \/ outbox[r] = "pending"
             /\ \A r \in Request : outbox'[r] = "pending" => outbox[r] = "pending"
  <2>1. CASE Codex
    BY <2>1 DEF Codex, HandleCodexRequest, InterruptTurn, ResolveElsewhere, HandleResolvedNotice,
                serverVars, memoryVars
  <2>2. CASE OtherAgent
    BY <2>2 DEF OtherAgent, ForeignExits, ParkForeign, serverVars
  <2>3. ASSUME NEW a \in timers, Timeout(a) PROVE UNCHANGED <<serverVars, down>>
    BY <2>3 DEF Timeout
  <2>4. ASSUME NEW x \in responding, WriteError(x) \/ WriteResult(x) PROVE UNCHANGED <<serverVars, down>>
    BY <2>4 DEF WriteError, WriteResult
  <2>5. ASSUME NEW r \in Request, HandleDecision(r) \/ MarkProcessed(r)
        PROVE  UNCHANGED serverVars /\ down' \subseteq down
    BY <2>5 DEF HandleDecision, DecideTooLate, DispatchApproval, RefuseDispatch, DispatchAnswer, Takes, MarkProcessed
  <2>6. ASSUME NEW r \in Request, SendDecision(r)
        PROVE  UNCHANGED serverVars /\ \A q \in Request : q \in down' => q \in down \/ outbox[q] = "pending"
    BY <2>6 DEF SendDecision
  <2>7. ASSUME NEW r \in Request, Acknowledge(r)
        PROVE  /\ UNCHANGED <<status, decision>> /\ down' \subseteq down
               /\ \A q \in Request : outbox'[q] = "pending" => outbox[q] = "pending"
    BY <2>7 DEF Acknowledge, TypeOK
  <2>8. CASE Connector
    BY <2>3, <2>4, <2>5, <2>6, <2>7, <2>8 DEF Connector, serverVars
  <2>9. CASE Kill
    BY <2>9 DEF Kill, Restart, CrashWhileDispatching, CrashWhileWriting, Reboot, serverVars
  <2>10. CASE UNCHANGED vars
    BY <2>10 DEF vars, memoryVars, serverVars
  <2> QED BY <1>5, <2>1, <2>2, <2>8, <2>9, <2>10
<1> QED BY <1>1, <1>2, <1>3, <1>4, <1>5 DEF Next, Server
-----------------------------------------------------------------------------
(* The table of pending requests *)

LEMMA OwnEntryStep == TypeOK /\ OwnEntry /\ [Next]_vars => OwnEntry'
<1> SUFFICES ASSUME TypeOK, OwnEntry, [Next]_vars PROVE OwnEntry'
  OBVIOUS
<1>1. ASSUME NEW r \in Approval \cup Question, NEW c \in Client, HandleCodexRequest(r, c) PROVE OwnEntry'
  <2> DEFINE a == [req |-> r, client |-> c, id |-> nextId[c]]
  <2>1. pending' = [pending EXCEPT ![r] = a] /\ a.req = r BY <1>1 DEF HandleCodexRequest
  <2> HIDE DEF a
  <2> QED BY <2>1 DEF OwnEntry, TypeOK
<1>2. ASSUME \A r \in Request : pending'[r] \in {None, pending[r]} PROVE OwnEntry'
  BY <1>2 DEF OwnEntry
<1>3. ASSUME NEW r \in Approval \cup Question, InterruptTurn(r) PROVE \A q \in Request : pending'[q] \in {None, pending[q]}
  BY <1>3 DEF InterruptTurn, Drop
<1>4. ASSUME NEW n \in notices, HandleResolvedNotice(n) PROVE \A q \in Request : pending'[q] \in {None, pending[q]}
  BY <1>4 DEF HandleResolvedNotice, Drop
<1>5. ASSUME NEW a \in timers, Timeout(a) PROVE \A q \in Request : pending'[q] \in {None, pending[q]}
  BY <1>5 DEF Timeout, TypeOK
<1>6. ASSUME NEW x \in responding, WriteResult(x) PROVE \A q \in Request : pending'[q] \in {None, pending[q]}
  BY <1>6 DEF WriteResult, TypeOK
<1>7. ASSUME Kill PROVE \A q \in Request : pending'[q] \in {None, pending[q]}
  <2>1. \/ Restart
        \/ \E r \in Request : CrashWhileDispatching(r)
        \/ \E x \in responding : CrashWhileWriting(x)
    BY <1>7 DEF Kill
  <2>2. \E J : Reboot(J)
    BY <2>1 DEF Restart, CrashWhileDispatching, CrashWhileWriting
  <2> QED BY <2>2 DEF Reboot
<1>8. ASSUME NEW x \in responding, WriteError(x) PROVE pending' = pending
  BY <1>8 DEF WriteError
<1>9. ASSUME NEW r \in Request, HandleDecision(r) \/ MarkProcessed(r) \/ SendDecision(r) \/ Acknowledge(r)
      PROVE  pending' = pending
  BY <1>9 DEF HandleDecision, DecideTooLate, DispatchApproval, RefuseDispatch, DispatchAnswer,
              MarkProcessed, SendDecision, Acknowledge
<1>10. ASSUME Server \/ OtherAgent \/ UNCHANGED vars PROVE pending' = pending
  BY <1>10 DEF Server, Expire, Decide, ApplyEvent, OtherAgent, ForeignExits, ParkForeign, memoryVars, vars
<1>11. ASSUME NEW a \in waiting, ResolveElsewhere(a) PROVE pending' = pending
  BY <1>11 DEF ResolveElsewhere, memoryVars
<1>12. ASSUME pending' = pending PROVE OwnEntry'
  BY <1>12 DEF OwnEntry
<1> QED
  BY <1>1, <1>2, <1>3, <1>4, <1>5, <1>6, <1>7, <1>8, <1>9, <1>10, <1>11, <1>12 DEF Next, Codex, Connector
-----------------------------------------------------------------------------
(* Dispatch *)

\* What leaves the replies alone, takes no journal entry back, keeps a decision
\* and adds no result of r preserves the invariant of r.
LEMMA Quiet ==
    ASSUME TypeOK, NEW r \in Approval, Dispatch(r),
           replies'[r] = replies[r],
           journal'[r] \in {"none", "prepared"} => journal[r] \in {"none", "prepared"},
           decision[r] # None => decision'[r] = decision[r],
           \A x \in responding' : IsResult(x, r) => x \in responding
    PROVE  Dispatch(r)'
<1>1. Undispatched(r)' BY DEF Dispatch, Undispatched, IsResult
<1>2. OneResult(r)'
  <2>1. \A x \in responding : IsResult(x, r) => decision[r] # None
    BY Fields DEF Dispatch, OneResult, IsResult
  <2> QED BY <2>1 DEF Dispatch, OneResult, IsResult
<1>3. Replied(r)'
  <2>1. CASE replies[r] = <<>> BY <2>1 DEF Replied
  <2>2. CASE replies[r] # <<>>
    <3>1. replies[r] = <<decision[r]>> /\ replies[r] \in Seq(Result)
      BY <2>2 DEF Dispatch, Replied, TypeOK, Request
    <3>2. decision[r] \in Result
      <4>1. replies[r][1] = decision[r] /\ 1 \in DOMAIN replies[r] BY <3>1
      <4> QED BY <3>1, <4>1
    <3> QED BY <3>1, <3>2, Fields DEF Replied
  <2> QED BY <2>1, <2>2
<1> QED BY <1>1, <1>2, <1>3 DEF Dispatch

\* Codex gets a result of r: it was the only one, and the first.
LEMMA Delivers ==
    ASSUME TypeOK, NEW r \in Approval, Dispatch(r), NEW x \in responding, IsResult(x, r),
           replies'[r] \in {replies[r], Append(replies[r], x.result)},
           journal'[r] \in {"none", "prepared"} => journal[r] \in {"none", "prepared"},
           decision' = decision,
           responding' \subseteq responding \ {x}
    PROVE  Dispatch(r)'
<1>1. replies[r] = <<>> /\ x.result = decision[r] BY DEF Dispatch, OneResult
<1>2. journal[r] \notin {"none", "prepared"} BY DEF Dispatch, Undispatched
<1>3. \A y \in responding' : ~IsResult(y, r) BY DEF Dispatch, OneResult
<1>4. Append(replies[r], x.result) = <<decision[r]>> BY <1>1
<1>5. Replied(r)' BY <1>1, <1>4 DEF Replied
<1>6. Undispatched(r)' BY <1>2 DEF Undispatched
<1>7. OneResult(r)' BY <1>3 DEF OneResult, IsResult
<1> QED BY <1>5, <1>6, <1>7 DEF Dispatch

\* Rejecting promises adds no result.
LEMMA Rejects ==
    ASSUME NEW A, Settle(A, "error"), NEW r
    PROVE  \A x \in responding' : IsResult(x, r) => x \in responding
BY DEF Settle, IsResult

LEMMA DispatchStep ==
    ASSUME IInv, [Next]_vars, NEW r \in Approval,
           decision[r] # None => decision'[r] = decision[r]
    PROVE  Dispatch(r)'
<1> USE DEF IInv
<1>0. r \in Request /\ r \notin Question /\ r \notin Foreign BY RequestAssumption DEF Request
<1>1. ASSUME replies'[r] = replies[r], journal'[r] = journal[r],
             \A x \in responding' : IsResult(x, r) => x \in responding
      PROVE  Dispatch(r)'
  BY <1>1, Quiet
<1>2. ASSUME Codex PROVE Dispatch(r)'
  <2>1. ASSUME NEW q \in Approval \cup Question, NEW c \in Client, HandleCodexRequest(q, c)
        PROVE  UNCHANGED <<replies, journal, responding>>
    BY <2>1 DEF HandleCodexRequest
  <2>2. ASSUME NEW q \in Approval \cup Question, InterruptTurn(q)
        PROVE  /\ UNCHANGED <<replies, journal>>
               /\ \A x \in responding' : IsResult(x, r) => x \in responding
    BY <2>2, Rejects DEF InterruptTurn, Drop
  <2>3. ASSUME NEW n \in notices, HandleResolvedNotice(n)
        PROVE  /\ UNCHANGED <<replies, journal>>
               /\ \A x \in responding' : IsResult(x, r) => x \in responding
    BY <2>3, Rejects DEF HandleResolvedNotice, Drop
  <2>4. ASSUME NEW a \in waiting, ResolveElsewhere(a)
        PROVE  UNCHANGED <<replies, journal, responding>>
    BY <2>4 DEF ResolveElsewhere, memoryVars, durableVars
  <2> QED BY <1>1, <1>2, <2>1, <2>2, <2>3, <2>4 DEF Codex
<1>3. ASSUME OtherAgent \/ Server \/ UNCHANGED vars PROVE Dispatch(r)'
  <2>1. UNCHANGED <<replies, journal, responding>>
    BY <1>3 DEF OtherAgent, ForeignExits, ParkForeign, Server, Expire, Decide, ApplyEvent,
                vars, codexVars, memoryVars, durableVars
  <2> QED BY <1>1, <2>1
<1>4. ASSUME NEW a \in timers, Timeout(a) PROVE Dispatch(r)'
  <2>1. UNCHANGED <<replies, journal>> /\ \A x \in responding' : IsResult(x, r) => x \in responding
    BY <1>4, Rejects DEF Timeout, codexVars
  <2> QED BY <1>1, <2>1
<1>5. ASSUME NEW x \in responding, WriteError(x) PROVE Dispatch(r)'
  <2>1. UNCHANGED <<replies, journal>> /\ responding' \subseteq responding
    BY <1>5 DEF WriteError, Reply, durableVars
  <2> QED BY <1>1, <2>1
<1>6. ASSUME NEW x \in responding, WriteResult(x) PROVE Dispatch(r)'
  <2>1. responding' = responding \ {x} /\ decision' = decision /\ x.ask.req \in Request
        /\ x.ask.id \in Id
    BY <1>6, Fields DEF WriteResult, serverVars, Request
  <2>2. journal' \in {journal, [journal EXCEPT ![pendingByRpc[x.ask.id]] = "delivered"]}
    BY <1>6 DEF WriteResult
  <2>3. journal'[r] \in {"none", "prepared"} => journal[r] \in {"none", "prepared"}
    BY <1>0, <2>2 DEF TypeOK
  <2>4. replies' \in {replies, [replies EXCEPT ![x.ask.req] = Append(replies[x.ask.req], x.result)]}
    BY <1>6 DEF WriteResult, Reply
  <2>5. CASE IsResult(x, r)
    <3>1. replies'[r] \in {replies[r], Append(replies[r], x.result)}
      BY <1>0, <2>4, <2>5 DEF IsResult, TypeOK
    <3> QED BY <2>1, <2>3, <2>5, <3>1, Delivers
  <2>6. CASE ~IsResult(x, r)
    <3>1. replies'[r] = replies[r] BY <1>0, <1>6, <2>4, <2>6 DEF IsResult, TypeOK, WriteResult
    <3> QED BY <2>1, <2>3, <3>1, Quiet
  <2> QED BY <2>5, <2>6
<1>7. ASSUME NEW q \in Request, HandleDecision(q) PROVE Dispatch(r)'
  <2>1. CASE DecideTooLate(q)
    BY <1>1, <2>1 DEF DecideTooLate, codexVars
  <2>2. CASE RefuseDispatch(q)
    <3>1. UNCHANGED <<replies, journal>> /\ \A x \in responding' : IsResult(x, r) => x \in responding
      BY <2>2, Rejects DEF RefuseDispatch, codexVars
    <3> QED BY <1>1, <3>1
  <2>3. CASE DispatchAnswer(q)
    <3>1. pending[q].req = q /\ q # r BY <1>0, <2>3 DEF DispatchAnswer, OwnEntry, Pending
    <3>2. UNCHANGED <<replies, journal>> /\ \A x \in responding' : IsResult(x, r) => x \in responding
      BY <2>3, <3>1 DEF DispatchAnswer, Settle, IsResult, codexVars, durableVars
    <3> QED BY <1>1, <3>2
  <2>4. CASE DispatchApproval(q)
    <3>1. /\ replies' = replies /\ pending[q].req = q /\ decision' = decision
          /\ journal[q] \in {"none", "prepared"}
          /\ journal' = [journal EXCEPT ![q] = "sent_unknown"]
          /\ \A x \in responding' : x \in responding \/ x = [ask |-> pending[q], result |-> decision[q]]
      BY <2>4 DEF DispatchApproval, Settle, OwnEntry, Pending, codexVars, serverVars
    <3>2. CASE q # r
      <4>1. journal'[r] = journal[r] BY <3>1, <3>2 DEF TypeOK
      <4>2. \A x \in responding' : IsResult(x, r) => x \in responding
        BY <3>1, <3>2 DEF IsResult
      <4> QED BY <1>1, <3>1, <4>1, <4>2
    <3>3. CASE q = r
      <4>1. replies[r] = <<>> /\ \A x \in responding : ~IsResult(x, r)
        BY <3>1, <3>3 DEF Dispatch, Undispatched
      <4>2. \A x \in responding' : IsResult(x, r) => x = [ask |-> pending[r], result |-> decision[r]]
        BY <3>1, <3>3, <4>1
      <4>3. Undispatched(r)' BY <1>0, <3>1, <3>3 DEF Undispatched, TypeOK
      <4>4. OneResult(r)' BY <3>1, <4>1, <4>2 DEF OneResult, IsResult
      <4>5. Replied(r)' BY <3>1, <4>1 DEF Replied
      <4> QED BY <4>3, <4>4, <4>5 DEF Dispatch
    <3> QED BY <3>2, <3>3
  <2> QED BY <1>7, <2>1, <2>2, <2>3, <2>4 DEF HandleDecision
<1>8. ASSUME NEW q \in Request, MarkProcessed(q) \/ SendDecision(q) \/ Acknowledge(q) PROVE Dispatch(r)'
  <2>1. UNCHANGED <<replies, journal, responding>>
    BY <1>8 DEF MarkProcessed, SendDecision, Acknowledge, codexVars, durableVars
  <2> QED BY <1>1, <2>1
<1>9. CASE Restart
  <2>1. UNCHANGED <<replies, journal>> /\ responding' = {} BY <1>9 DEF Restart, Reboot
  <2> QED BY <1>1, <2>1
<1>10. ASSUME NEW q \in Request, CrashWhileDispatching(q) PROVE Dispatch(r)'
  <2>1. replies' = replies /\ responding' = {} BY <1>10 DEF CrashWhileDispatching, Reboot
  <2>2. PICK j \in {journal[q], "prepared", "sent_unknown"} :
           /\ j # journal[q] => journal[q] \in {"none", "prepared"}
           /\ journal' = [journal EXCEPT ![q] = j]
    BY <1>10 DEF CrashWhileDispatching, Reboot
  <2>3. journal'[r] \in {"none", "prepared"} => journal[r] \in {"none", "prepared"}
    BY <1>0, <2>2 DEF TypeOK
  <2> QED BY <2>1, <2>3, Quiet
<1>11. ASSUME NEW x \in responding, CrashWhileWriting(x) PROVE Dispatch(r)'
  <2>1. responding' = {} /\ decision' = decision /\ x.ask.req \in Request /\ x.ask.id \in Id
    BY <1>11, Fields DEF CrashWhileWriting, Reboot, serverVars, Request
  <2>2. journal' \in {journal, [journal EXCEPT ![pendingByRpc[x.ask.id]] = "delivered"]}
    BY <1>11 DEF CrashWhileWriting, Reboot
  <2>3. journal'[r] \in {"none", "prepared"} => journal[r] \in {"none", "prepared"}
    BY <1>0, <2>2 DEF TypeOK
  <2>4. replies' \in {replies, [replies EXCEPT ![x.ask.req] = Append(replies[x.ask.req], x.result)]}
    BY <1>11 DEF CrashWhileWriting
  <2>5. CASE IsResult(x, r)
    <3>1. replies'[r] \in {replies[r], Append(replies[r], x.result)}
      BY <1>0, <2>4, <2>5 DEF IsResult, TypeOK
    <3>2. responding' \subseteq responding \ {x} BY <2>1
    <3> QED BY <2>1, <2>3, <2>5, <3>1, <3>2, Delivers
  <2>6. CASE ~IsResult(x, r)
    <3>1. replies'[r] = replies[r] BY <1>0, <1>11, <2>4, <2>6 DEF IsResult, TypeOK, CrashWhileWriting
    <3> QED BY <2>1, <2>3, <3>1, Quiet
  <2> QED BY <2>5, <2>6
<1> QED
  BY <1>2, <1>3, <1>4, <1>5, <1>6, <1>7, <1>8, <1>9, <1>10, <1>11 DEF Next, Connector, Kill
-----------------------------------------------------------------------------
(* Theorems *)

LEMMA InitIInv == Init => IInv
<1> SUFFICES ASSUME Init PROVE IInv
  OBVIOUS
<1>1. TypeOK BY InitType
<1>2. OwnEntry /\ DecidedIsFinal /\ SentIsDecided
  BY DEF Init, OwnEntry, DecidedIsFinal, SentIsDecided
<1>3. \A r \in Approval : Dispatch(r)
  BY DEF Init, Dispatch, Undispatched, OneResult, Replied, Request
<1> QED BY <1>1, <1>2, <1>3 DEF IInv

LEMMA StepIInv == IInv /\ [Next]_vars => IInv'
<1> SUFFICES ASSUME IInv, [Next]_vars PROVE IInv'
  OBVIOUS
<1>1. TypeOK' /\ OwnEntry' BY TypeStep, OwnEntryStep DEF IInv
<1>2. /\ DecidedIsFinal' /\ SentIsDecided'
      /\ \A r \in Request : decision[r] # None => decision'[r] = decision[r]
  BY DecisionStep DEF IInv
<1>3. \A r \in Approval : Dispatch(r)' BY <1>2, DispatchStep DEF Request
<1> QED BY <1>1, <1>2, <1>3 DEF IInv

\* Every variable keeps its type.
THEOREM TypeCorrect == Spec => []TypeOK
<1>1. IInv => TypeOK BY DEF IInv
<1> QED BY InitIInv, StepIInv, <1>1, PTL DEF Spec

\* However often an approval is asked, by however many app-servers, and however
\* often the connector is killed at any point of a dispatch, Codex is given at
\* most one result for it, the one the collaborator chose.
THEOREM AtMostOneAnswer == Spec => []AnsweredOnce
<1>1. IInv => AnsweredOnce
  <2> SUFFICES ASSUME IInv, NEW r \in Approval
               PROVE  Len(replies[r]) <= 1 /\ \A i \in DOMAIN replies[r] : replies[r][i] = decision[r]
    BY DEF AnsweredOnce
  <2>1. replies[r] = <<>> \/ replies[r] = <<decision[r]>> BY DEF IInv, Dispatch, Replied
  <2>2. CASE replies[r] = <<>> BY <2>2
  <2>3. CASE replies[r] = <<decision[r]>>
    <3>1. Len(replies[r]) = 1 /\ DOMAIN replies[r] = {1} BY <2>3
    <3> QED BY <2>3, <3>1
  <2> QED BY <2>1, <2>2, <2>3
<1> QED BY InitIInv, StepIInv, <1>1, PTL DEF Spec
-----------------------------------------------------------------------------
(* Delivered means written *)

\* The server calls delivered what the journal calls delivered, also on the way.
ToldIsDelivered ==
    \A r \in Request :
        delivery[r] = "delivered" \/ (\E i \in DOMAIN events : events[i] = Delivery(r, "delivered"))
            => journal[r] = "delivered"

\* The asks whose number is still looked up.
Unanswered == open \cup {x.ask : x \in responding}

\* Of one app-server, a number in #pendingByRpc stands for the ask that has it.
OwnNumber ==
    OneAppServer => \A a \in Unanswered : a.id < nextId[a.client] /\ pendingByRpc[a.id] \in {None, a.req}

\* A result that is written is not under way any more.
NoneUnderWay ==
    OneAppServer => \A r \in Approval : journal[r] = "delivered" => \A x \in responding : ~IsResult(x, r)

WInv == IInv /\ ToldIsDelivered /\ OwnNumber /\ NoneUnderWay

\* What is delivered in the journal stays so.
LEMMA DeliveredStays ==
    ASSUME TypeOK, [Next]_vars
    PROVE  \A r \in Request : journal[r] = "delivered" => journal'[r] = "delivered"
<1>1. ASSUME NEW x \in responding, WriteResult(x) \/ CrashWhileWriting(x)
      PROVE  \A r \in Request : journal[r] = "delivered" => journal'[r] = "delivered"
  <2>1. journal' \in {journal, [journal EXCEPT ![pendingByRpc[x.ask.id]] = "delivered"]}
    BY <1>1 DEF WriteResult, CrashWhileWriting, Reboot
  <2> QED BY <2>1 DEF TypeOK
<1>2. ASSUME NEW q \in Request, HandleDecision(q)
      PROVE  \A r \in Request : journal[r] = "delivered" => journal'[r] = "delivered"
  BY <1>2 DEF HandleDecision, DecideTooLate, DispatchApproval, RefuseDispatch, DispatchAnswer, TypeOK, durableVars
<1>3. ASSUME NEW q \in Request, CrashWhileDispatching(q)
      PROVE  \A r \in Request : journal[r] = "delivered" => journal'[r] = "delivered"
  <2>1. PICK j \in {journal[q], "prepared", "sent_unknown"} :
           /\ j # journal[q] => journal[q] \in {"none", "prepared"}
           /\ journal' = [journal EXCEPT ![q] = j]
    BY <1>3 DEF CrashWhileDispatching, Reboot
  <2> QED BY <2>1 DEF TypeOK
<1>4. ASSUME NEW x \in responding, WriteError(x) PROVE journal' = journal
  BY <1>4 DEF WriteError, durableVars
<1>5. ASSUME NEW q \in Request, MarkProcessed(q) \/ SendDecision(q) \/ Acknowledge(q) PROVE journal' = journal
  BY <1>5 DEF MarkProcessed, SendDecision, Acknowledge, durableVars
<1>6. ASSUME NEW a \in timers, Timeout(a) PROVE journal' = journal
  BY <1>6 DEF Timeout
<1>7. ASSUME Codex \/ OtherAgent \/ Server \/ Restart \/ UNCHANGED vars PROVE journal' = journal
  BY <1>7 DEF Codex, HandleCodexRequest, InterruptTurn, ResolveElsewhere, HandleResolvedNotice, OtherAgent,
              ForeignExits, ParkForeign, Server, Expire, Decide, ApplyEvent, Restart, Reboot, durableVars, vars
<1> QED BY <1>1, <1>2, <1>3, <1>4, <1>5, <1>6, <1>7 DEF Next, Connector, Kill

\* A status of a request is not a delivery, and a delivery of unknown outcome not a
\* delivered one.
LEMMA OtherEvents ==
    \A r, q \in Request : /\ Created(q) # Delivery(r, "delivered")
                         /\ Delivery(q, "sent_unknown") # Delivery(r, "delivered")
                         /\ \A s \in {"cancelled", "interrupted"} : Resolved(q, s) # Delivery(r, "delivered")
BY DEF Created, Resolved, Delivery

\* Events that are no deliveries are added, and the server hears of nothing new.
LEMMA NothingTold ==
    ASSUME TypeOK, ToldIsDelivered, [Next]_vars, UNCHANGED delivery,
           \A r \in Request, i \in DOMAIN events' :
              events'[i] = Delivery(r, "delivered") => \E j \in DOMAIN events : events[j] = events'[i]
    PROVE  ToldIsDelivered'
BY DeliveredStays DEF ToldIsDelivered, Delivery

\* Where an event of a longer sequence comes from.
LEMMA Appended ==
    ASSUME NEW S, NEW s \in Seq(S), NEW t \in Seq(S), NEW i \in DOMAIN (s \o t)
    PROVE  \/ \E j \in DOMAIN s : s[j] = (s \o t)[i]
           \/ \E j \in DOMAIN t : t[j] = (s \o t)[i]
<1>1. CASE i <= Len(s) BY <1>1
<1>2. CASE i > Len(s)
  <2>1. i - Len(s) \in DOMAIN t /\ (s \o t)[i] = t[i - Len(s)] BY <1>2
  <2> QED BY <2>1
<1> QED BY <1>1, <1>2

\* An event of t reports a delivery of r.
Tells(t, r) == \E i \in DOMAIN t : t[i] = Delivery(r, "delivered")

\* Appending what reports no delivery.
LEMMA AddsNone ==
    ASSUME TypeOK, ToldIsDelivered, [Next]_vars, UNCHANGED delivery,
           NEW t \in Seq(Event), \A r \in Request : ~Tells(t, r), events' = events \o t
    PROVE  ToldIsDelivered'
<1>1. events \in Seq(Event) BY DEF TypeOK
<1>2. ASSUME NEW r \in Request, NEW i \in DOMAIN events', events'[i] = Delivery(r, "delivered")
      PROVE  \E j \in DOMAIN events : events[j] = events'[i]
  <2> HIDE DEF Event
  <2>1. \/ \E j \in DOMAIN events : events[j] = (events \o t)[i]
        \/ \E j \in DOMAIN t : t[j] = (events \o t)[i]
    BY <1>1, Appended, SMTT(40)
  <2> QED BY <1>2, <2>1 DEF Tells
<1> QED BY <1>2, NothingTold

\* The events that Drop and Reboot add report no delivery.
LEMMA OrderedTellNothing ==
    ASSUME NEW q, NEW R \in SUBSET Request, q \in Orders(R), NEW r \in Request
    PROVE  /\ \A s \in {"cancelled", "interrupted"} : ~Tells([i \in DOMAIN q |-> Resolved(q[i], s)], r)
           /\ ~Tells([i \in DOMAIN q |-> Delivery(q[i], "sent_unknown")], r)
<1>1. \A i \in DOMAIN q : q[i] \in Request BY DEF Orders
<1> QED BY <1>1, OtherEvents DEF Tells

\* Forgetting entries reports no delivery.
LEMMA DropTellsNothing ==
    ASSUME TypeOK, ToldIsDelivered, [Next]_vars, UNCHANGED delivery, NEW R \in SUBSET Pending,
           NEW s \in {"cancelled", "interrupted"}, NEW first \in Seq(Event),
           \A r \in Request : ~Tells(first, r), Drop(R, s, first)
    PROVE  ToldIsDelivered'
<1>1. PICK q \in Orders(R) : events' = events \o first \o [i \in DOMAIN q |-> Resolved(q[i], s)] BY DEF Drop
<1> DEFINE u == [i \in DOMAIN q |-> Resolved(q[i], s)]
<1>2. R \in SUBSET Request BY DEF Pending
<1>3. u \in Seq(Event) /\ \A r \in Request : ~Tells(u, r) BY <1>2, OrderedEvents, OrderedTellNothing
<1>4. events \in Seq(Event) BY DEF TypeOK
<1> HIDE DEF u
<1>5. ASSUME NEW r \in Request PROVE ~Tells(first \o u, r)
  <2> SUFFICES ASSUME NEW i \in DOMAIN (first \o u), (first \o u)[i] = Delivery(r, "delivered") PROVE FALSE
    BY DEF Tells
  <2> HIDE DEF Event
  <2>1. \/ \E j \in DOMAIN first : first[j] = (first \o u)[i]
        \/ \E j \in DOMAIN u : u[j] = (first \o u)[i]
    BY <1>3, Appended
  <2> QED BY <1>3, <2>1 DEF Tells
<1>6. events' = events \o (first \o u) /\ first \o u \in Seq(Event)
  <2> HIDE DEF Event
  <2> QED BY <1>1, <1>3, <1>4 DEF u
<1> QED BY <1>5, <1>6, AddsNone

\* Restarting reports no delivery.
LEMMA RebootTellsNothing ==
    ASSUME TypeOK, ToldIsDelivered, [Next]_vars, UNCHANGED delivery,
           NEW J \in [Request -> {"none", "prepared", "sent_unknown", "delivered"}], Reboot(J)
    PROVE  ToldIsDelivered'
<1> DEFINE S == {r \in Request : J[r] = "sent_unknown"}
<1>1. PICK q \in Orders(S) : events' = events \o [i \in DOMAIN q |-> Delivery(q[i], "sent_unknown")]
  BY DEF Reboot
<1> DEFINE u == [i \in DOMAIN q |-> Delivery(q[i], "sent_unknown")]
<1>2. S \in SUBSET Request OBVIOUS
<1>3. u \in Seq(Event) /\ \A r \in Request : ~Tells(u, r) BY <1>2, OrderedEvents, OrderedTellNothing
<1>4. events' = events \o u BY <1>1
<1> QED BY <1>3, <1>4, AddsNone

LEMMA ToldStep == TypeOK /\ ToldIsDelivered /\ [Next]_vars => ToldIsDelivered'
<1> SUFFICES ASSUME TypeOK, ToldIsDelivered, [Next]_vars PROVE ToldIsDelivered'
  OBVIOUS
<1>1. ASSUME NEW r \in Request, NEW e \in {Created(r), Resolved(r, "cancelled"), Resolved(r, "interrupted")},
             events' = Append(events, e), UNCHANGED delivery
      PROVE  ToldIsDelivered'
  <2>1. events \in Seq(Event) BY DEF TypeOK
  <2>2. \A q \in Request : e # Delivery(q, "delivered") BY OtherEvents
  <2>3. \A q \in Request, i \in DOMAIN events' :
           events'[i] = Delivery(q, "delivered") => \E j \in DOMAIN events : events[j] = events'[i]
    <3> HIDE DEF Event
    <3> QED BY <1>1, <2>1, <2>2
  <2> QED BY <1>1, <2>3, NothingTold
<1>2. ASSUME UNCHANGED <<events, delivery>> PROVE ToldIsDelivered'
  BY <1>2, DeliveredStays DEF ToldIsDelivered
<1>3. ASSUME NEW r \in Approval \cup Question PROVE r \in Request
  BY DEF Request
<1>4. ASSUME NEW r \in Approval \cup Question, NEW c \in Client, HandleCodexRequest(r, c) PROVE ToldIsDelivered'
  BY <1>1, <1>3, <1>4 DEF HandleCodexRequest, serverVars
<1>5. ASSUME NEW r \in Approval \cup Question, InterruptTurn(r) PROVE ToldIsDelivered'
  <2>1. {r} \cap Pending \in SUBSET Pending /\ <<Resolved(r, "interrupted")>> \in Seq(Event)
    BY <1>3, EventSteps DEF TypeOK
  <2>2. \A q \in Request : ~Tells(<<Resolved(r, "interrupted")>>, q) BY <1>3, OtherEvents DEF Tells
  <2> QED BY <1>5, <2>1, <2>2, DropTellsNothing DEF InterruptTurn, serverVars
<1>6. ASSUME NEW a \in waiting, ResolveElsewhere(a) PROVE ToldIsDelivered'
  BY <1>2, <1>6 DEF ResolveElsewhere, durableVars, serverVars
<1>7. ASSUME NEW n \in notices, HandleResolvedNotice(n) PROVE ToldIsDelivered'
  <2>1. {r \in Pending : pending[r].id = n.id} \in SUBSET Pending /\ <<>> \in Seq(Event) OBVIOUS
  <2>2. \A q \in Request : ~Tells(<<>>, q) BY DEF Tells
  <2> QED BY <1>7, <2>1, <2>2, DropTellsNothing DEF HandleResolvedNotice, serverVars
<1>8. CASE OtherAgent
  <2>1. ASSUME NEW r \in Foreign, ParkForeign(r) PROVE ToldIsDelivered'
    BY <1>1, <2>1 DEF ParkForeign, serverVars, Request
  <2>2. ASSUME ForeignExits PROVE ToldIsDelivered'
    BY <1>2, <2>2 DEF ForeignExits, durableVars, serverVars
  <2> QED BY <1>8, <2>1, <2>2 DEF OtherAgent
<1>9. ASSUME NEW a \in timers, Timeout(a) PROVE ToldIsDelivered'
  <2>1. a.req \in Request BY DEF TypeOK, Ask, Request
  <2> QED BY <1>1, <1>9, <2>1 DEF Timeout, serverVars
<1>10. ASSUME NEW x \in responding, WriteError(x) PROVE ToldIsDelivered'
  BY <1>2, <1>10 DEF WriteError, durableVars, serverVars
<1>11. ASSUME NEW x \in responding, WriteResult(x) PROVE ToldIsDelivered'
  <2> DEFINE r == pendingByRpc[x.ask.id]
  <2>1. UNCHANGED delivery BY <1>11 DEF WriteResult, serverVars
  <2>2. r \in Request \cup {None} BY DEF TypeOK, Ask
  <2>3. CASE events' = events BY <1>2, <2>1, <2>3
  <2>4. CASE events' # events
    <3>1. /\ r \in Request /\ events' = Append(events, Delivery(r, "delivered"))
          /\ journal' = [journal EXCEPT ![r] = "delivered"]
      BY <1>11, <2>2, <2>4 DEF WriteResult
    <3> HIDE DEF r
    <3>2. journal'[r] = "delivered" BY <3>1 DEF TypeOK
    <3>3. events \in Seq(Event) BY DEF TypeOK
    <3>4. ASSUME NEW q \in Request, q # r PROVE Delivery(r, "delivered") # Delivery(q, "delivered")
      BY <3>4 DEF Delivery
    <3>5. ASSUME NEW q \in Request, q # r, NEW i \in DOMAIN events', events'[i] = Delivery(q, "delivered")
          PROVE  \E j \in DOMAIN events : events[j] = Delivery(q, "delivered")
      <4> HIDE DEF Event
      <4> QED BY <3>1, <3>3, <3>4, <3>5
    <3> QED BY <2>1, <3>2, <3>5, DeliveredStays DEF ToldIsDelivered
  <2> QED BY <2>3, <2>4
<1>12. ASSUME NEW r \in Request, HandleDecision(r) PROVE ToldIsDelivered'
  BY <1>1, <1>2, <1>12 DEF HandleDecision, DecideTooLate, DispatchApproval, RefuseDispatch, DispatchAnswer,
                           durableVars, serverVars
<1>13. ASSUME NEW r \in Request, MarkProcessed(r) \/ SendDecision(r) \/ Acknowledge(r) PROVE ToldIsDelivered'
  BY <1>2, <1>13 DEF MarkProcessed, SendDecision, Acknowledge, durableVars, serverVars
<1>14. CASE Kill
  <2>1. UNCHANGED delivery BY <1>14 DEF Kill, Restart, CrashWhileDispatching, CrashWhileWriting, serverVars
  <2>2. PICK J \in [Request -> {"none", "prepared", "sent_unknown", "delivered"}] : Reboot(J)
    <3>1. CASE Restart BY <3>1 DEF Restart, TypeOK
    <3>2. ASSUME NEW r \in Request, CrashWhileDispatching(r)
          PROVE  \E J \in [Request -> {"none", "prepared", "sent_unknown", "delivered"}] : Reboot(J)
      BY <3>2 DEF CrashWhileDispatching, TypeOK
    <3>3. ASSUME NEW x \in responding, CrashWhileWriting(x)
          PROVE  \E J \in [Request -> {"none", "prepared", "sent_unknown", "delivered"}] : Reboot(J)
      BY <3>3 DEF CrashWhileWriting, TypeOK
    <3> QED BY <1>14, <3>1, <3>2, <3>3 DEF Kill
  <2> QED BY <2>1, <2>2, RebootTellsNothing
<1>15. CASE Server
  <2>1. ASSUME NEW r \in Request, Expire(r) PROVE ToldIsDelivered'
    BY <1>2, <2>1 DEF Expire, durableVars
  <2>2. ASSUME NEW r \in Request, NEW d \in Verdict(r), Decide(r, d) PROVE ToldIsDelivered'
    BY <2>2, DeliveredStays DEF Decide, durableVars, ToldIsDelivered, TypeOK
  <2>3. CASE ApplyEvent
    <3>1. events \in Seq(Event) /\ events # <<>> /\ events' = Tail(events) /\ Head(events) = events[1]
      BY <2>3 DEF ApplyEvent, TypeOK
    <3>2. 1 \in DOMAIN events /\ events[1] \in Event /\ \A i \in DOMAIN events' : i + 1 \in DOMAIN events /\ events[i + 1] = events'[i]
      <4> HIDE DEF Event
      <4> QED BY <3>1
    <3>3. PICK e \in Event : e = events[1] BY <3>2
    <3>4. ASSUME NEW r \in Request, delivery'[r] = "delivered", delivery[r] # "delivered"
          PROVE  e = Delivery(r, "delivered")
      <4>1. e.from = "delivery" /\ delivery' = [delivery EXCEPT ![e.req] = e.to]
        BY <2>3, <3>1, <3>3, <3>4 DEF ApplyEvent
      <4>2. e.req = r /\ e.to = "delivered" BY <3>4, <4>1 DEF TypeOK
      <4> QED BY <4>1, <4>2 DEF Event, Delivery, Open
    <3> QED BY <3>2, <3>3, <3>4, DeliveredStays DEF ToldIsDelivered
  <2> QED BY <1>15, <2>1, <2>2, <2>3 DEF Server
<1>16. CASE UNCHANGED vars BY <1>2, <1>16 DEF vars, durableVars, serverVars
<1> QED
  BY <1>4, <1>5, <1>6, <1>7, <1>8, <1>9, <1>10, <1>11, <1>12, <1>13, <1>14, <1>15, <1>16
  DEF Next, Codex, Connector
-----------------------------------------------------------------------------
(* One app-server *)

\* Steps after which no new ask is unanswered and no number stands for another ask.
LEMMA NumbersKept ==
    ASSUME TypeOK, OwnNumber, nextId' = nextId, Unanswered' \subseteq Unanswered,
           \A i \in Id : pendingByRpc'[i] \in {None, pendingByRpc[i]}
    PROVE  OwnNumber'
<1>1. Unanswered \subseteq Ask BY Fields DEF Unanswered, TypeOK
<1> QED BY <1>1, Fields DEF OwnNumber

\* Settling and answering asks.
LEMMA SettledIsUnanswered ==
    ASSUME NEW A, NEW v, Settle(A, v)
    PROVE  Unanswered' \subseteq Unanswered
BY DEF Settle, Unanswered

LEMMA OwnNumberStep == TypeOK /\ OwnNumber /\ [Next]_vars => OwnNumber'
<1> SUFFICES ASSUME TypeOK, OwnNumber, [Next]_vars PROVE OwnNumber'
  OBVIOUS
<1>1. ASSUME NEW r \in Approval \cup Question, NEW c \in Client, HandleCodexRequest(r, c) PROVE OwnNumber'
  <2> SUFFICES ASSUME OneAppServer, NEW b \in Unanswered'
               PROVE  b.id < nextId'[b.client] /\ pendingByRpc'[b.id] \in {None, b.req}
    BY DEF OwnNumber, OneAppServer
  <2> DEFINE a == [req |-> r, client |-> c, id |-> nextId[c]]
  <2>0. a \in Ask /\ nextId[c] \in Nat BY <1>1, RequestAssumption DEF HandleCodexRequest, TypeOK, Ask, Id
  <2>1. /\ pendingByRpc' = [pendingByRpc EXCEPT ![a.id] = r] /\ nextId' = [nextId EXCEPT ![c] = nextId[c] + 1]
        /\ b \in Unanswered \cup {a} /\ a.id = nextId[c] /\ a.req = r /\ a.client = c
    BY <1>1 DEF HandleCodexRequest, Unanswered
  <2>2. Unanswered \subseteq Ask BY Fields DEF Unanswered, TypeOK
  <2>3. a.id \in Id /\ pendingByRpc \in [Id -> Request \cup {None}] /\ nextId \in [Client -> 0..MaxIds]
    BY <2>0 DEF TypeOK, Ask
  <2> HIDE DEF a
  <2>4. CASE b = a BY <2>0, <2>1, <2>3, <2>4
  <2>5. CASE b \in Unanswered
    <3>1. b.client = c /\ b.id \in Id /\ b.id < nextId[c] /\ pendingByRpc[b.id] \in {None, b.req}
      BY <2>2, <2>5 DEF OwnNumber, OneAppServer, Ask
    <3>2. b.id \in Nat /\ b.id # a.id BY <2>0, <2>1, <3>1 DEF Id
    <3> QED BY <2>0, <2>1, <2>3, <3>1, <3>2
  <2> QED BY <2>1, <2>4, <2>5
<1>2. ASSUME NEW r \in Approval \cup Question, InterruptTurn(r) PROVE OwnNumber'
  <2>1. nextId' = nextId /\ \A i \in Id : pendingByRpc'[i] \in {None, pendingByRpc[i]}
    BY <1>2 DEF InterruptTurn, Drop
  <2> QED BY <1>2, <2>1, NumbersKept, SettledIsUnanswered DEF InterruptTurn, Drop
<1>3. ASSUME NEW a \in waiting, ResolveElsewhere(a) PROVE OwnNumber'
  BY <1>3, NumbersKept DEF ResolveElsewhere, memoryVars, Unanswered
<1>4. ASSUME NEW n \in notices, HandleResolvedNotice(n) PROVE OwnNumber'
  <2>1. nextId' = nextId /\ \A i \in Id : pendingByRpc'[i] \in {None, pendingByRpc[i]}
    BY <1>4 DEF HandleResolvedNotice, Drop
  <2> QED BY <1>4, <2>1, NumbersKept, SettledIsUnanswered DEF HandleResolvedNotice, Drop
<1>5. CASE OtherAgent
  BY <1>5, NumbersKept DEF OtherAgent, ForeignExits, ParkForeign, codexVars, Unanswered
<1>6. ASSUME NEW a \in timers, Timeout(a) PROVE OwnNumber'
  <2>1. nextId' = nextId /\ \A i \in Id : pendingByRpc'[i] \in {None, pendingByRpc[i]}
    BY <1>6 DEF Timeout, TypeOK, codexVars
  <2> QED BY <1>6, <2>1, NumbersKept, SettledIsUnanswered DEF Timeout
<1>7. ASSUME NEW x \in responding, WriteError(x) PROVE OwnNumber'
  BY <1>7, NumbersKept DEF WriteError, Unanswered
<1>8. ASSUME NEW x \in responding, WriteResult(x) PROVE OwnNumber'
  <2>1. nextId' = nextId /\ Unanswered' \subseteq Unanswered BY <1>8 DEF WriteResult, Unanswered
  <2>2. \A i \in Id : pendingByRpc'[i] \in {None, pendingByRpc[i]} BY <1>8 DEF WriteResult, TypeOK
  <2> QED BY <2>1, <2>2, NumbersKept
<1>9. ASSUME NEW r \in Request, HandleDecision(r) PROVE OwnNumber'
  <2>1. nextId' = nextId /\ pendingByRpc' = pendingByRpc
    BY <1>9 DEF HandleDecision, DecideTooLate, DispatchApproval, RefuseDispatch, DispatchAnswer, codexVars
  <2>2. Unanswered' \subseteq Unanswered
    <3>1. CASE DecideTooLate(r) BY <3>1 DEF DecideTooLate, Unanswered
    <3>2. CASE ~DecideTooLate(r)
      BY <1>9, <3>2, SettledIsUnanswered DEF HandleDecision, DispatchApproval, RefuseDispatch, DispatchAnswer
    <3> QED BY <3>1, <3>2
  <2> QED BY <2>1, <2>2, NumbersKept
<1>10. ASSUME NEW r \in Request, MarkProcessed(r) \/ SendDecision(r) \/ Acknowledge(r) PROVE OwnNumber'
  BY <1>10, NumbersKept DEF MarkProcessed, SendDecision, Acknowledge, codexVars, Unanswered
<1>11. CASE Kill
  <2>1. open' = {} /\ responding' = {}
    BY <1>11 DEF Kill, Restart, CrashWhileDispatching, CrashWhileWriting, Reboot
  <2> QED BY <2>1 DEF OwnNumber, Unanswered, OneAppServer
<1>12. CASE Server \/ UNCHANGED vars
  BY <1>12, NumbersKept DEF Server, Expire, Decide, ApplyEvent, codexVars, memoryVars, vars, Unanswered
<1> QED
  BY <1>1, <1>2, <1>3, <1>4, <1>5, <1>6, <1>7, <1>8, <1>9, <1>10, <1>11, <1>12 DEF Next, Codex, Connector

LEMMA NoneUnderWayStep == WInv /\ [Next]_vars => NoneUnderWay'
<1> SUFFICES ASSUME WInv, [Next]_vars, OneAppServer, NEW r \in Approval, journal'[r] = "delivered",
                    NEW y \in responding', IsResult(y, r)
             PROVE  FALSE
  BY DEF NoneUnderWay, IsResult, OneAppServer
<1> USE DEF WInv, IInv
<1>0. r \in Request /\ r \notin Question /\ r \notin Foreign BY RequestAssumption DEF Request
<1>1. ASSUME journal'[r] = journal[r], y \in responding PROVE FALSE
  BY <1>1 DEF NoneUnderWay
<1>2. ASSUME NEW x \in responding, WriteResult(x) PROVE FALSE
  <2> DEFINE q == pendingByRpc[x.ask.id]
  <2>1. responding' = responding \ {x} /\ y \in responding BY <1>2 DEF WriteResult
  <2>2. journal' \in {journal, [journal EXCEPT ![q] = "delivered"]}
    BY <1>2 DEF WriteResult
  <2>3. q \in {None, x.ask.req} /\ x.ask.req \in Request BY Fields DEF OwnNumber, Unanswered, Request
  <2>4. x.ask.req = r
    <3> SUFFICES ASSUME x.ask.req # r PROVE FALSE
      OBVIOUS
    <3>1. q # r BY <1>0, <2>3, NoneAssumption
    <3>2. journal'[r] = journal[r] BY <1>0, <2>2, <3>1 DEF TypeOK
    <3> QED BY <1>1, <2>1, <3>2
  <2>5. IsResult(x, r) BY <1>2, <2>4 DEF IsResult, WriteResult
  <2>6. x = y BY <2>1, <2>5 DEF Dispatch, OneResult
  <2> QED BY <2>1, <2>6
<1>3. ASSUME NEW q \in Request, HandleDecision(q) PROVE FALSE
  <2>1. CASE DecideTooLate(q) BY <1>1, <2>1 DEF DecideTooLate
  <2>2. CASE RefuseDispatch(q) BY <1>1, <2>2, Rejects DEF RefuseDispatch
  <2>3. CASE DispatchAnswer(q)
    <3>1. pending[q].req = q /\ q # r BY <1>0, <2>3 DEF DispatchAnswer, OwnEntry, Pending
    <3> QED BY <1>1, <2>3, <3>1 DEF DispatchAnswer, Settle, IsResult, durableVars
  <2>4. CASE DispatchApproval(q)
    <3>1. /\ pending[q].req = q /\ journal' = [journal EXCEPT ![q] = "sent_unknown"]
          /\ y \in responding \/ y.ask = pending[q]
      BY <2>4 DEF DispatchApproval, Settle, OwnEntry, Pending
    <3>2. q # r BY <1>0, <3>1 DEF TypeOK
    <3> QED BY <1>1, <3>1, <3>2 DEF IsResult, TypeOK
  <2> QED BY <1>3, <2>1, <2>2, <2>3, <2>4 DEF HandleDecision
<1>4. ASSUME Codex PROVE FALSE
  <2>1. ASSUME NEW q \in Approval \cup Question, NEW c \in Client, HandleCodexRequest(q, c) PROVE FALSE
    BY <1>1, <2>1 DEF HandleCodexRequest
  <2>2. ASSUME NEW q \in Approval \cup Question, InterruptTurn(q) PROVE FALSE
    BY <1>1, <2>2, Rejects DEF InterruptTurn, Drop
  <2>3. ASSUME NEW n \in notices, HandleResolvedNotice(n) PROVE FALSE
    BY <1>1, <2>3, Rejects DEF HandleResolvedNotice, Drop
  <2>4. ASSUME NEW a \in waiting, ResolveElsewhere(a) PROVE FALSE
    BY <1>1, <2>4 DEF ResolveElsewhere, memoryVars, durableVars
  <2> QED BY <1>4, <2>1, <2>2, <2>3, <2>4 DEF Codex
<1>5. ASSUME NEW a \in timers, Timeout(a) PROVE FALSE
  BY <1>1, <1>5, Rejects DEF Timeout
<1>6. ASSUME NEW x \in responding, WriteError(x) PROVE FALSE
  BY <1>1, <1>6 DEF WriteError, durableVars
<1>7. ASSUME NEW q \in Request, MarkProcessed(q) \/ SendDecision(q) \/ Acknowledge(q) PROVE FALSE
  BY <1>1, <1>7 DEF MarkProcessed, SendDecision, Acknowledge, durableVars
<1>8. ASSUME Kill PROVE FALSE
  BY <1>8 DEF Kill, Restart, CrashWhileDispatching, CrashWhileWriting, Reboot
<1>9. ASSUME OtherAgent \/ Server \/ UNCHANGED vars PROVE FALSE
  BY <1>1, <1>9 DEF OtherAgent, ForeignExits, ParkForeign, Server, Expire, Decide, ApplyEvent,
                    vars, memoryVars, durableVars
<1> QED BY <1>2, <1>3, <1>4, <1>5, <1>6, <1>7, <1>8, <1>9 DEF Next, Connector

\* A delivery that the server or the journal calls delivered has been written: the
\* server is told after the journal, and of one app-server the entry that a written
\* result marks as delivered is its own.
THEOREM DeliveredMeansWritten == Spec => []DeliveredWasWritten
<1>1. Init => WInv
  <2> SUFFICES ASSUME Init PROVE WInv
    OBVIOUS
  <2>1. IInv BY InitIInv
  <2>2. ToldIsDelivered /\ OwnNumber /\ NoneUnderWay
    BY DEF Init, ToldIsDelivered, OwnNumber, NoneUnderWay, Unanswered, Request
  <2> QED BY <2>1, <2>2 DEF WInv
<1>2. WInv /\ [Next]_vars => WInv'
  <2> SUFFICES ASSUME WInv, [Next]_vars PROVE WInv'
    OBVIOUS
  <2>1. IInv' BY StepIInv DEF WInv
  <2>2. ToldIsDelivered' /\ OwnNumber' BY ToldStep, OwnNumberStep DEF WInv, IInv
  <2>3. NoneUnderWay' BY NoneUnderWayStep
  <2> QED BY <2>1, <2>2, <2>3 DEF WInv
<1>3. WInv => DeliveredWasWritten
  BY DEF WInv, ToldIsDelivered, NoneUnderWay, DeliveredWasWritten, IsResult, Request
<1> QED BY <1>1, <1>2, <1>3, PTL DEF Spec
-----------------------------------------------------------------------------
(* What travels: the stages a decision passes agree with each other: what  *)
(* the view of a request offers, what the server accepts, what the         *)
(* connector answers and what Codex is granted.                            *)

\* A request that is adapted reaches the server with its own kind, questions
\* and risk (adapter.ts:32, runtime.ts:1213).
LEMMA PayloadOf ==
    ASSUME NEW r
    PROVE  /\ IsApproval(r) => /\ RequestPayload(r).kind = "approval"
                               /\ RequestPayload(r).risk = ClassifyRisk(r)
           /\ ~IsApproval(r) => /\ RequestPayload(r).kind = "question"
                                /\ RequestPayload(r).questions = r.params.questions
  <1>1. CASE IsApproval(r)
    BY <1>1 DEF RequestPayload
  <1>2. CASE ~IsApproval(r)
    BY <1>2 DEF RequestPayload
  <1> QED BY <1>1, <1>2

\* Every decision the server accepts for a request is one the connector can turn
\* into an answer to Codex: #handleDecision (runtime.ts:412) does not throw on
\* it, so no accepted decision rejects the request it was made for.
THEOREM AcceptedIsAnswerable ==
    ASSUME NEW r, NEW input, Adapts(r), Accepts(RequestPayload(r), input)
    PROVE  Answers(r, input)
  <1> DEFINE row == RequestPayload(r)
  <1>1. /\ ReadDecisionInput(input) /\ ValidateDecision(input)
        /\ ValidateDecisionForRequest(row, input)
    BY DEF Accepts
  <1>2. ReadRemoteDecision(input)
    BY <1>1 DEF ReadDecisionInput, ReadRemoteDecision
  <1>3. CASE IsApproval(r)
    <2>1. input.decision # "answer"
      BY <1>1, <1>3, PayloadOf DEF ValidateDecisionForRequest
    <2> QED BY <2>1, <1>2, <1>3 DEF Answers, ReadRemoteDecision, ApprovalDecisions
  <1>4. CASE ~IsApproval(r)
    <2>1. row.kind = "question" /\ row.questions = r.params.questions
      BY <1>4, PayloadOf
    <2>2. /\ input.decision = "answer"
          /\ \A i \in DOMAIN r.params.questions : Answered(r.params.questions[i], input.answers)
      BY <1>1, <2>1 DEF ValidateDecisionForRequest
    <2>3. input.answers # Absent
      BY <1>1, <2>2 DEF ValidateDecision
    <2>4. QuestionIds(r.params) \subseteq DOMAIN input.answers
      BY <2>2 DEF QuestionIds, Answered
    <2> QED BY <1>2, <1>4, <2>2, <2>3, <2>4 DEF Answers
  <1> QED BY <1>3, <1>4

\* Permissions are granted only when the collaborator approved and confirmed the
\* risk, never more than Codex asked for, and for the turn only (adapter.ts:136,
\* runtime.ts:1291, repository.ts:487).
THEOREM PermissionsWereConfirmed ==
    ASSUME NEW r, NEW input, Accepts(RequestPayload(r), input),
           CategoryOf(r.method) = "permissions",
           CodexResponse(r, input).permissions # NoPermissions
    PROVE  /\ input.decision = "approve" /\ input.highRiskConfirmed
           /\ CodexResponse(r, input) = [permissions |-> r.params.permissions, scope |-> "turn"]
  <1>1. IsApproval(r)
    BY DEF IsApproval
  <1>2. CodexResponse(r, input) = PermissionsResponse(r, input.decision)
    BY <1>1 DEF CodexResponse
  <1>3. CodexResponse(r, input).permissions
          = (IF input.decision = "approve" /\ r.params.permissions # Absent
             THEN r.params.permissions ELSE NoPermissions)
    BY <1>2 DEF PermissionsResponse
  <1>4. input.decision = "approve" /\ r.params.permissions # Absent
    BY <1>3
  <1>5. RequestPayload(r).risk = "high"
    BY <1>1, PayloadOf DEF ClassifyRisk
  <1>6. input.highRiskConfirmed
    BY <1>4, <1>5 DEF Accepts, Confirmed
  <1> QED BY <1>2, <1>4, <1>6 DEF PermissionsResponse

\* A denied request grants nothing: a command or a change is declined, and a
\* permission request gets no permission (adapter.ts:132).
THEOREM DenialGrantsNothing ==
    ASSUME NEW r, NEW input, IsApproval(r), input.decision = "deny"
    PROVE  CodexResponse(r, input) \in {[decision |-> "decline"],
                                        [permissions |-> NoPermissions, scope |-> "turn"]}
  BY DEF CodexResponse, PermissionsResponse, ApprovalResponse

\* Codex gets an answer to every question it asked, none of them blank, and to
\* none it did not ask (repository.ts:620, adapter.ts:183).
THEOREM AnsweredInFull ==
    ASSUME NEW r, NEW input, ~IsApproval(r), Accepts(RequestPayload(r), input)
    PROVE  /\ DOMAIN CodexResponse(r, input).answers = QuestionIds(r.params)
           /\ \A q \in QuestionIds(r.params) :
                 LET given == CodexResponse(r, input).answers[q].answers IN
                 Len(given) > 0 /\ \A i \in DOMAIN given : given[i].trimmed > 0
  <1> DEFINE answers == input.answers
  <1>1. /\ RequestPayload(r).kind = "question"
        /\ RequestPayload(r).questions = r.params.questions
    BY PayloadOf
  <1>2. /\ DOMAIN answers \subseteq QuestionIds(r.params)
        /\ \A i \in DOMAIN r.params.questions : Answered(r.params.questions[i], answers)
    BY <1>1 DEF Accepts, ValidateDecisionForRequest, QuestionIds
  <1>3. \A q \in QuestionIds(r.params) :
           /\ q \in DOMAIN answers /\ Len(answers[q]) > 0
           /\ \A i \in DOMAIN answers[q] : answers[q][i].trimmed > 0
    BY <1>2 DEF QuestionIds, Answered
  <1>4. CodexResponse(r, input) = [answers |-> [q \in DOMAIN answers |-> [answers |-> answers[q]]]]
    BY DEF CodexResponse, QuestionResponse
  <1>5. CodexResponse(r, input).answers = [q \in DOMAIN answers |-> [answers |-> answers[q]]]
    BY <1>4
  <1>6. DOMAIN answers = QuestionIds(r.params)
    BY <1>2, <1>3
  <1>7. \A q \in QuestionIds(r.params) : CodexResponse(r, input).answers[q].answers = answers[q]
    BY <1>5, <1>6
  <1> QED BY <1>3, <1>5, <1>6, <1>7

\* The view of a request sends only decisions the server accepts while the request
\* is pending, as long as no question is secret and no answer and no list of
\* answers is too long for the server (request-detail.tsx:103, app.ts:652,
\* repository.ts:604).
THEOREM ViewedIsAccepted ==
    ASSUME NEW row, NEW input, ViewSends(row, input),
           \A i \in DOMAIN row.questions : ~row.questions[i].isSecret,
           input.decision = "answer" => input.answers # Absent /\ ReadAnswers(input.answers)
    PROVE  Accepts(row, input)
  <1>1. CASE row.kind \in {"approval", "workflow_gate"} /\ input = DialogApprove(row)
    <2>1. /\ input.decision = "approve" /\ input.reason = Absent
          /\ input.highRiskConfirmed = (row.risk = "high") /\ input.answers = Absent
      BY <1>1 DEF DialogApprove
    <2> QED BY <1>1, <2>1 DEF Accepts, ReadDecisionInput, ValidateDecision,
                             ValidateDecisionForRequest, Confirmed
  <1>2. ASSUME row.kind \in {"approval", "workflow_gate"},
               NEW reason \in Text, reason.trimmed >= MinReason, input = DialogDeny(reason)
        PROVE  Accepts(row, input)
    <2>1. /\ input.decision = "deny" /\ input.reason = Trimmed(reason)
          /\ input.answers = Absent
      BY <1>2 DEF DialogDeny
    <2>2. /\ Trimmed(reason).length = reason.trimmed /\ Trimmed(reason).trimmed = reason.trimmed
          /\ reason.trimmed \in Nat /\ Trimmed(reason) \in Text
      BY <1>2, TextAssumption DEF Trimmed
    <2>3. /\ input.reason # Absent /\ input.reason.length > 0
          /\ input.reason.trimmed >= MinReason
      BY <1>2, <2>1, <2>2, TextAssumption DEF MinReason
    <2> QED BY <1>2, <2>1, <2>3 DEF Accepts, ReadDecisionInput, ValidateDecision,
                                   ValidateDecisionForRequest, Confirmed
  <1>3. ASSUME row.kind = "question", QuestionIds(row) # {},
               NEW answer \in [QuestionIds(row) -> {t \in Text : t.trimmed > 0}],
               input = FormAnswer([q \in QuestionIds(row) |-> <<answer[q]>>])
        PROVE  Accepts(row, input)
    <2> DEFINE answers == [q \in QuestionIds(row) |-> <<answer[q]>>]
    <2>1. /\ input.decision = "answer" /\ input.reason = Absent /\ input.answers = answers
      BY <1>3 DEF FormAnswer
    <2>2. ASSUME NEW i \in DOMAIN row.questions
          PROVE  Answered(row.questions[i], answers)
      <3>1. row.questions[i].id \in QuestionIds(row)
        BY DEF QuestionIds
      <3>2. answer[row.questions[i].id].trimmed > 0
        BY <1>3, <3>1
      <3>3. answers[row.questions[i].id] = <<answer[row.questions[i].id]>>
        BY <3>1
      <3> QED BY <3>1, <3>2, <3>3 DEF Answered
    <2>3. input.answers # Absent /\ ReadAnswers(input.answers)
      BY <2>1
    <2>4. ReadDecisionInput(input) /\ Confirmed(row, input)
      BY <2>1, <2>3 DEF ReadDecisionInput, Confirmed
    <2>5. ValidateDecision(input) /\ ValidateDecisionForRequest(row, input)
      BY <1>3, <2>1, <2>2, <2>3 DEF ValidateDecision, ValidateDecisionForRequest
    <2> QED BY <2>4, <2>5 DEF Accepts
  <1> QED BY <1>1, <1>2, <1>3 DEF ViewSends, ViewDecides, ViewAnswers
=============================================================================

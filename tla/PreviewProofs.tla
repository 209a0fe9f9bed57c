---------------------------- MODULE PreviewProofs ----------------------------
(***************************************************************************)
(* Who reaches a preview, and over which connection, for every number of   *)
(* sockets, of posts of the ticket and of requests; and what is in the     *)
(* stream of one request, for every window and every length of the answer. *)
(*                                                                         *)
(* A ticket is used by the post that gets past it.  What denies a request  *)
(* when it comes (no session, no permission, a final row) never ends, and  *)
(* each is looked at once more before the request asks for a connection.   *)
(* The row and the relay agree up to what a registration misses: an active *)
(* row has a registered socket, or one that is about to be, or one whose   *)
(* end is about to be written to the row; and what is registered is open,  *)
(* unless it had ended before it was registered.                           *)
(*                                                                         *)
(* Of a stream, the messages on their way to the server hold the chunks    *)
(* that it does not have yet, in order and without a gap, behind the       *)
(* header; the end is behind all of them, and is there only when nothing   *)
(* waits for credit.  Each window is kept by its grants: those on their    *)
(* way are about bytes that follow one another, between what the sender    *)
(* knows to be acknowledged and what the receiver has passed on, and the   *)
(* credit of the sender is the rest.  Hence no message breaks the rules of *)
(* the side that it comes to.                                              *)
(***************************************************************************)
EXTENDS PreviewAccess, PreviewStream, SequenceTheorems, TLAPS

LinkState == [client : BOOLEAN, server : {"none", "authenticating", "open", "closing", "closed"},
              routes : BOOLEAN, up : Seq({"hello", "empty"}),
              down : Seq({"welcome", "route.stop"}),
              task : {"none", "sync", "synced", "drop", "dropped"}, mark : BOOLEAN]

Rest ==
    /\ row \in {"none", "active", "connector_offline"} \cup Final
    /\ {due, session, permitted, stopping} \subseteq BOOLEAN
    /\ process \in {"running", "finished"} /\ sock \in 0..MaxLinks
    /\ routeSocket \in 0..MaxLinks /\ stops \in 0..MaxStops
    /\ ticket \in {"none", "issued", "lapsed", "used"}
    /\ post \in [Post -> {"idle", "session", "row", "cookie", "refused"}]
    /\ request \in [Request -> [stage : {"idle", "session", "row", "connect", "waiting", "open", "done"},
                                denied : BOOLEAN, link : 0..MaxLinks]]

RequestState == [stage : {"idle", "session", "row", "connect", "waiting", "open", "done"},
                 denied : BOOLEAN, link : 0..MaxLinks]

\* The post that got past the ticket is the only one.
Redeeming(p) == post[p] \in {"session", "row", "cookie"}

TicketSpent ==
    \A p \in Post : Redeeming(p) => ticket = "used" /\ \A r \in Post : Redeeming(r) => r = p

\* A request that was denied when it came does not get past the check that looks
\* at the reason.
DeniedSoFar ==
    \A q \in Request : request[q].denied =>
        /\ request[q].stage \notin {"connect", "waiting", "open"}
        /\ request[q].stage = "session" => ~session \/ ~permitted \/ row \in Final
        /\ request[q].stage = "row" => ~permitted \/ row \in Final

\* A connector says hello first, and that it serves no route any more when it goes.
Says(k) ==
    /\ \A i \in 1..Len(k.up) : i > 1 => k.up[i] = "empty"
    /\ k.client => \A i \in 1..Len(k.up) : k.up[i] = "hello"
    /\ k.task \in {"drop", "dropped"} => ~k.client

Conversation ==
    /\ \A l \in Link : Says(links[l])
    /\ sock # 0 => links[sock].client

\* What StreamsAreCarried asks of the socket of a stream.
Carrying(k) == k.server \in {"open", "closing"} /\ (k.routes \/ k.server = "closing" \/ ~k.client)

WaitsForALink == \A q \in Request : request[q].stage \in {"waiting", "open"} => request[q].link \in Link

\* A socket that says hello has not been registered; one that serves the route and
\* is open is the registered one, and the registered one serves the route and is
\* open, or had ended before it was registered.
Greets(k) == k.up # <<>> /\ k.up[1] = "hello"

Relays(l) ==
    LET k == links[l] IN
    /\ Greets(k) =>
          k.server \in {"authenticating", "open"} /\ k.task = "none" /\ ~k.routes
    /\ k.server \in {"none", "authenticating", "closing"} => k.task \notin {"sync", "synced"} /\ ~k.routes
    /\ k.task \in {"sync", "synced"} => ~k.routes
    /\ k.routes /\ k.server = "open" => routeSocket = l
    /\ routeSocket = l => k.routes /\ (k.server = "open" \/ (k.server = "closed" /\ "end" \in missed))
    /\ k.mark => k.server = "closed"
    /\ k.task = "synced" => row \in {"active"} \cup Final \/ "mark" \in missed
    /\ k.routes \/ k.task \in {"drop", "dropped", "synced"} => row # "none"
    /\ k.task = "dropped" => row \in Final

\* What the row says, the relay has or will have.
RowFollows ==
    /\ row = "active" => \/ routeSocket # 0
                         \/ \E l \in Link : links[l].task = "synced" \/ links[l].mark
    /\ row = "connector_offline" =>
          (routeSocket = 0 /\ \A l \in Link : links[l].task # "synced") \/ "mark" \in missed

Relay == (\A l \in Link : Relays(l)) /\ RowFollows

\* One socket of the process lives, and none when a snapshot without the route has
\* been sent.
Parts(k) == k.task \in {"drop", "dropped"} \/ \E i \in 1..Len(k.up) : k.up[i] = "empty"

Leaving ==
    /\ process = "finished" => sock = 0
    /\ \A l \in Link : links[l].client => sock = l
    /\ \A l \in Link : Parts(links[l]) => process = "finished"

StopIsFinal == stopping => row \in Final

\* A stop that was heard leaves no living socket registered.
StopHeard ==
    row = "stopped" /\ ~stopping /\ {"end", "stop"} \cap missed = {} =>
        routeSocket = 0 \/ ~links[routeSocket].client

AccessInv == TypeOK /\ TicketSpent /\ DeniedSoFar /\ Conversation /\ WaitsForALink /\ StreamsAreCarried
             /\ StopIsFinal /\ Relay /\ Leaving /\ StopHeard

LEMMA InitAccess == Init => AccessInv
  <1> SUFFICES ASSUME Init  PROVE AccessInv
    OBVIOUS
  <1> USE PreviewAssumption DEF Init
  <1>1. <<>> \in Seq({"hello", "empty"}) /\ <<>> \in Seq({"welcome", "route.stop"})
    BY EmptySeq
  <1>2. NoLink \in LinkState
    BY <1>1 DEF NoLink, NewLink, LinkState
  <1>3. links \in [Link -> LinkState]
    BY <1>2
  <1>4. Rest /\ missed \subseteq Misses
    <2>1. {due, session, permitted, stopping} \subseteq BOOLEAN
      BY Zenon
    <2> QED
      BY <2>1 DEF Rest
  <1>5. TypeOK
    BY <1>3, <1>4, Zenon DEF TypeOK, Rest, LinkState
  <1>6. Conversation
    <2>1. NoLink.up = <<>> /\ NoLink.client = FALSE /\ Len(<<>>) = 0
      BY EmptySeq DEF NoLink, NewLink
    <2>2. Says(NoLink)
      BY <2>1 DEF Says
    <2> QED
      BY <2>2 DEF Conversation
  <1>7. TicketSpent /\ DeniedSoFar /\ WaitsForALink /\ StreamsAreCarried
    BY DEF TicketSpent, Redeeming, DeniedSoFar, WaitsForALink, StreamsAreCarried
  <1>8. StopIsFinal /\ Relay
    <2>1. NoLink.up = <<>> /\ NoLink.server = "none" /\ ~NoLink.routes /\ NoLink.task = "none" /\ ~NoLink.mark
      BY DEF NoLink, NewLink
    <2> QED
      BY <2>1 DEF StopIsFinal, Relay, Relays, RowFollows, Greets, Link
  <1>9. Leaving /\ StopHeard
    <2>1. NoLink.up = <<>> /\ NoLink.client = FALSE /\ NoLink.task = "none" /\ Len(<<>>) = 0
      BY EmptySeq DEF NoLink, NewLink
    <2> QED
      BY <2>1 DEF Leaving, Parts, StopHeard
  <1> QED
    BY <1>5, <1>6, <1>7, <1>8, <1>9 DEF AccessInv

\* What the handlers do to a socket leaves it one.
LEMMA Updates ==
    ASSUME NEW k \in LinkState
    PROVE  /\ [k EXCEPT !.client = FALSE, !.up = Append(@, "empty"), !.down = <<>>] \in LinkState
           /\ [k EXCEPT !.client = FALSE, !.down = <<>>] \in LinkState
           /\ [k EXCEPT !.client = FALSE, !.up = <<>>, !.down = <<>>] \in LinkState
           /\ k.down # <<>> => [k EXCEPT !.down = Tail(@)] \in LinkState
           /\ k.up # <<>> => [k EXCEPT !.up = Tail(@)] \in LinkState
           /\ [k EXCEPT !.task = "none", !.routes = FALSE] \in LinkState
           /\ [k EXCEPT !.task = "none", !.routes = TRUE] \in LinkState
           /\ [k EXCEPT !.routes = FALSE] \in LinkState
           /\ \A t \in {"none", "sync", "synced", "drop", "dropped"} : [k EXCEPT !.task = t] \in LinkState
           /\ [k EXCEPT !.server = "open"] \in LinkState
           /\ [k EXCEPT !.server = "closed", !.up = <<>>, !.mark = k.routes] \in LinkState
           /\ [k EXCEPT !.mark = FALSE] \in LinkState
           /\ NewLink \in LinkState
  <1>1. /\ Append(k.up, "empty") \in Seq({"hello", "empty"})
        /\ <<>> \in Seq({"hello", "empty"}) /\ <<>> \in Seq({"welcome", "route.stop"})
        /\ <<"hello">> \in Seq({"hello", "empty"})
    BY EmptySeq DEF LinkState
  <1>2. /\ k.down # <<>> => Tail(k.down) \in Seq({"welcome", "route.stop"})
        /\ k.up # <<>> => Tail(k.up) \in Seq({"hello", "empty"})
    BY HeadTailProperties DEF LinkState
  <1> QED
    BY <1>1, <1>2 DEF LinkState, NewLink

LEMMA LinkSteps ==
    /\ \A k \in LinkState : Closing(k) \in LinkState
    /\ \A k \in LinkState, m \in {"welcome", "route.stop"} : Sending(k, m) \in LinkState
  <1>1. \A k \in LinkState : [k EXCEPT !.server = "closing"] \in LinkState
    BY DEF LinkState
  <1>2. \A k \in LinkState, m \in {"welcome", "route.stop"} :
            [k EXCEPT !.down = Append(@, m)] \in LinkState
    <2> TAKE k \in LinkState, m \in {"welcome", "route.stop"}
    <2>1. Append(k.down, m) \in Seq({"welcome", "route.stop"})
      BY AppendProperties DEF LinkState
    <2> QED
      BY <2>1 DEF LinkState
  <1> QED
    BY <1>1, <1>2 DEF Closing, Sending

LEMMA RequestUpdates ==
    ASSUME NEW k \in RequestState
    PROVE  /\ \A s \in {"session", "done"}, d \in BOOLEAN :
                 [k EXCEPT !.stage = s, !.denied = d] \in RequestState
           /\ \A s \in {"waiting", "done"}, l \in 0..MaxLinks :
                 [k EXCEPT !.stage = s, !.link = l] \in RequestState
  BY DEF RequestState

LEMMA RequestProceeds ==
    ASSUME request \in [Request -> RequestState], NEW q \in Request,
           NEW s \in {"row", "connect", "done"}
    PROVE  [request EXCEPT ![q].stage = s] \in [Request -> RequestState]
  <1>1. ASSUME NEW k \in RequestState PROVE [k EXCEPT !.stage = s] \in RequestState
    BY DEF RequestState
  <1> QED
    BY <1>1

LEMMA StreamsEndType ==
    ASSUME request \in [Request -> RequestState], NEW L, StreamsEnd(L)
    PROVE  request' \in [Request -> RequestState]
  <1>1. \A q \in Request : [request[q] EXCEPT !.stage = "done"] \in RequestState
    BY DEF RequestState
  <1> QED
    BY <1>1 DEF StreamsEnd

LEMMA LinksStep ==
    ASSUME links \in [Link -> LinkState], sock \in 0..MaxLinks, routeSocket \in 0..MaxLinks, [Next]_vars
    PROVE  links' \in [Link -> LinkState]
  <1> USE PreviewAssumption DEF Link, rowVars, processVars, stopVars, browserVars
  <1>1. CASE CommandStops
    BY <1>1, Updates DEF CommandStops, ProcessStops
  <1>2. CASE ProcessDies
    BY <1>2, Updates DEF ProcessDies
  <1>3. CASE RouteExpires
    BY <1>3 DEF RouteExpires
  <1>4. CASE SessionEnds
    BY <1>4 DEF SessionEnds
  <1>5. CASE PermissionEnds
    BY <1>5 DEF PermissionEnds
  <1>6. CASE ListPreviews
    BY <1>6 DEF ListPreviews, Expired
  <1>7. CASE StopCommits
    BY <1>7 DEF StopCommits
  <1>8. CASE StopNotifies
    <2>1. \A k \in Link : Sending([links[k] EXCEPT !.routes = FALSE], "route.stop") \in LinkState
      BY Updates, LinkSteps
    <2> QED
      BY <1>8, <2>1 DEF StopNotifies
  <1>9. CASE Launch
    BY <1>9 DEF Launch, Expired, Authorized
  <1>10. CASE TicketLapses
    BY <1>10 DEF TicketLapses
  <1>11. ASSUME NEW l \in Link, Dial(l)  PROVE links' \in [Link -> LinkState]
    <2>1. \E k \in LinkState : links' = [links EXCEPT ![l] = k]
      BY <1>11, Updates DEF Dial
    <2> QED
      BY <2>1
  <1>12. ASSUME NEW l \in Link, ReceiveWelcome(l)  PROVE links' \in [Link -> LinkState]
    <2>1. \E k \in LinkState : links' = [links EXCEPT ![l] = k]
      BY <1>12, Updates DEF ReceiveWelcome
    <2> QED
      BY <2>1
  <1>13. ASSUME NEW l \in Link, ReceiveRouteStop(l)  PROVE links' \in [Link -> LinkState]
    BY <1>13, Updates DEF ReceiveRouteStop, ProcessStops
  <1>14. ASSUME NEW l \in Link, LinkBreaks(l)  PROVE links' \in [Link -> LinkState]
    <2>1. \E k \in LinkState : links' = [links EXCEPT ![l] = k]
      BY <1>14, Updates DEF LinkBreaks
    <2> QED
      BY <2>1
  <1>15. ASSUME NEW l \in Link, ClientSeesClose(l)  PROVE links' \in [Link -> LinkState]
    <2>1. \E k \in LinkState : links' = [links EXCEPT ![l] = k]
      BY <1>15, Updates DEF ClientSeesClose
    <2> QED
      BY <2>1
  <1>16. ASSUME NEW l \in Link, Attach(l)  PROVE links' \in [Link -> LinkState]
    <2>1. \E k \in LinkState : links' = [links EXCEPT ![l] = k]
      BY <1>16, Updates DEF Attach
    <2> QED
      BY <2>1
  <1>17. ASSUME NEW l \in Link, Handle(l)  PROVE links' \in [Link -> LinkState]
    <2> DEFINE link == [links[l] EXCEPT !.up = Tail(@)]
    <2>1. links[l].up # <<>>
      BY <1>17 DEF Handle
    <2>2. link \in LinkState
      <3>1. links[l] \in LinkState
        OBVIOUS
      <3> QED
        BY <2>1, <3>1, Updates, Zenon
    <2>3. links' = [links EXCEPT ![l] =
                       IF Head(links[l].up) = "hello"
                       THEN IF due THEN Closing(link) ELSE [link EXCEPT !.task = "sync"]
                       ELSE IF link.routes THEN [link EXCEPT !.task = "drop"] ELSE link]
      BY <1>17, Zenon DEF Handle, Refused
    <2> HIDE DEF link
    <2>4. /\ Closing(link) \in LinkState /\ [link EXCEPT !.task = "sync"] \in LinkState
          /\ [link EXCEPT !.task = "drop"] \in LinkState
      BY <2>2, Updates, LinkSteps
    <2> QED
      BY <2>2, <2>3, <2>4
  <1>18. ASSUME NEW l \in Link, Sync(l)  PROVE links' \in [Link -> LinkState]
    <2>1. Closing([links[l] EXCEPT !.task = "none"]) \in LinkState /\ [links[l] EXCEPT !.task = "synced"] \in LinkState
      BY Updates, LinkSteps
    <2>2. \E k \in LinkState : links' = [links EXCEPT ![l] = k]
      BY <1>18, <2>1 DEF Sync
    <2> QED
      BY <2>2
  <1>19. ASSUME NEW l \in Link, Register(l)  PROVE links' \in [Link -> LinkState]
    <2>1. \A k \in Link : /\ Sending([links[k] EXCEPT !.task = "none", !.routes = TRUE], "welcome") \in LinkState
                         /\ Closing([links[k] EXCEPT !.routes = FALSE]) \in LinkState
      BY Updates, LinkSteps
    <2> QED
      BY <1>19, <2>1 DEF Register
  <1>20. ASSUME NEW l \in Link, Drop(l)  PROVE links' \in [Link -> LinkState]
    <2>1. \E k \in LinkState : links' = [links EXCEPT ![l] = k]
      BY <1>20, Updates DEF Drop
    <2> QED
      BY <2>1
  <1>21. ASSUME NEW l \in Link, Dropped(l)  PROVE links' \in [Link -> LinkState]
    <2>1. \E k \in LinkState : links' = [links EXCEPT ![l] = k]
      BY <1>21, Updates DEF Dropped
    <2> QED
      BY <2>1
  <1>22. ASSUME NEW l \in Link, Detach(l)  PROVE links' \in [Link -> LinkState]
    <2>1. \E k \in LinkState : links' = [links EXCEPT ![l] = k]
      BY <1>22, Updates DEF Detach
    <2> QED
      BY <2>1
  <1>23. ASSUME NEW l \in Link, MarkOffline(l)  PROVE links' \in [Link -> LinkState]
    <2>1. \E k \in LinkState : links' = [links EXCEPT ![l] = k]
      BY <1>23, Updates DEF MarkOffline
    <2> QED
      BY <2>1
  <1>24. ASSUME NEW p \in Post, ConsumeTicket(p)  PROVE links' \in [Link -> LinkState]
    BY <1>24 DEF ConsumeTicket, TicketUsable
  <1>25. ASSUME NEW p \in Post, RedeemSession(p)  PROVE links' \in [Link -> LinkState]
    BY <1>25 DEF RedeemSession
  <1>26. ASSUME NEW p \in Post, RedeemRow(p)  PROVE links' \in [Link -> LinkState]
    BY <1>26 DEF RedeemRow, Expired, Authorized
  <1>27. ASSUME NEW q \in Request, RequestComes(q)  PROVE links' \in [Link -> LinkState]
    BY <1>27 DEF RequestComes, At, CookieValid
  <1>28. ASSUME NEW q \in Request, RequestSession(q)  PROVE links' \in [Link -> LinkState]
    BY <1>28 DEF RequestSession, At, Proceeds
  <1>29. ASSUME NEW q \in Request, RequestRow(q)  PROVE links' \in [Link -> LinkState]
    BY <1>29 DEF RequestRow, At, Proceeds, Expired, Authorized
  <1>30. ASSUME NEW q \in Request, RequestConnects(q)  PROVE links' \in [Link -> LinkState]
    BY <1>30 DEF RequestConnects, At
  <1>31. ASSUME NEW q \in Request, Admit(q)  PROVE links' \in [Link -> LinkState]
    BY <1>31 DEF Admit, At, Proceeds, AccessIsActive
  <1>32. ASSUME NEW q \in Request, RequestEnds(q)  PROVE links' \in [Link -> LinkState]
    BY <1>32 DEF RequestEnds, At, Proceeds
  <1>33. CASE UNCHANGED vars
    BY <1>33 DEF vars
  <1> QED
    BY <1>1, <1>2, <1>3, <1>4, <1>5, <1>6, <1>7, <1>8, <1>9, <1>10, <1>11, <1>12, <1>13, <1>14,
       <1>15, <1>16, <1>17, <1>18, <1>19, <1>20, <1>21, <1>22, <1>23, <1>24, <1>25, <1>26, <1>27, <1>28, <1>29, <1>30, <1>31, <1>32, <1>33
       DEF Next

LEMMA RestStep ==
    ASSUME TypeOK, [Next]_vars
    PROVE  Rest'
  <1> USE PreviewAssumption DEF TypeOK, Rest, Final, Link, rowVars, processVars, stopVars, browserVars
  <1>1. CASE CommandStops
    BY <1>1 DEF CommandStops, ProcessStops
  <1>2. CASE ProcessDies
    BY <1>2 DEF ProcessDies
  <1>3. CASE RouteExpires
    BY <1>3 DEF RouteExpires
  <1>4. CASE SessionEnds
    BY <1>4 DEF SessionEnds
  <1>5. CASE PermissionEnds
    BY <1>5 DEF PermissionEnds
  <1>6. CASE ListPreviews
    BY <1>6 DEF ListPreviews, Expired
  <1>7. CASE StopCommits
    BY <1>7 DEF StopCommits
  <1>8. CASE StopNotifies
    <2>1. request' \in [Request -> RequestState]
      BY <1>8, StreamsEndType DEF StopNotifies, RequestState
    <2>2. routeSocket' \in 0..MaxLinks /\ stopping' = FALSE
      BY <1>8 DEF StopNotifies
    <2>3. {due, session, permitted, stopping}' \subseteq BOOLEAN
      BY <1>8, <2>2, Zenon DEF StopNotifies
    <2> QED
      BY <1>8, <2>1, <2>2, <2>3 DEF StopNotifies, RequestState
  <1>9. CASE Launch
    BY <1>9 DEF Launch, Expired, Authorized
  <1>10. CASE TicketLapses
    BY <1>10 DEF TicketLapses
  <1>11. ASSUME NEW l \in Link, Dial(l)  PROVE Rest'
    BY <1>11 DEF Dial, Reconnects, NewLink
  <1>12. ASSUME NEW l \in Link, ReceiveWelcome(l)  PROVE Rest'
    BY <1>12 DEF ReceiveWelcome
  <1>13. ASSUME NEW l \in Link, ReceiveRouteStop(l)  PROVE Rest'
    BY <1>13 DEF ReceiveRouteStop, ProcessStops
  <1>14. ASSUME NEW l \in Link, LinkBreaks(l)  PROVE Rest'
    BY <1>14 DEF LinkBreaks
  <1>15. ASSUME NEW l \in Link, ClientSeesClose(l)  PROVE Rest'
    BY <1>15 DEF ClientSeesClose
  <1>16. ASSUME NEW l \in Link, Attach(l)  PROVE Rest'
    BY <1>16 DEF Attach
  <1>17. ASSUME NEW l \in Link, Handle(l)  PROVE Rest'
    BY <1>17 DEF Handle, Attached, Refused, Closing
  <1>18. ASSUME NEW l \in Link, Sync(l)  PROVE Rest'
    <2>1. {due, session, permitted, stopping}' \subseteq BOOLEAN
      BY <1>18, Zenon DEF Sync
    <2> QED
      BY <1>18, <2>1 DEF Sync
  <1>19. ASSUME NEW l \in Link, Register(l)  PROVE Rest'
    <2>1. routeSocket' = l /\ UNCHANGED <<rowVars, processVars, stopVars, browserVars>>
      BY <1>19, Zenon DEF Register
    <2>2. routeSocket' \in 0..MaxLinks
      BY <2>1
    <2> QED
      BY <2>1, <2>2
  <1>20. ASSUME NEW l \in Link, Drop(l)  PROVE Rest'
    BY <1>20 DEF Drop, SetStatus, CanTransition
  <1>21. ASSUME NEW l \in Link, Dropped(l)  PROVE Rest'
    BY <1>21 DEF Dropped
  <1>22. ASSUME NEW l \in Link, Detach(l)  PROVE Rest'
    <2>1. request' \in [Request -> RequestState]
      BY <1>22, StreamsEndType DEF Detach, RequestState
    <2>2. routeSocket' \in 0..MaxLinks
      BY <1>22 DEF Detach
    <2>3. {due, session, permitted, stopping}' \subseteq BOOLEAN
      BY <1>22, Zenon DEF Detach
    <2> QED
      BY <1>22, <2>1, <2>2, <2>3 DEF Detach, RequestState
  <1>23. ASSUME NEW l \in Link, MarkOffline(l)  PROVE Rest'
    BY <1>23 DEF MarkOffline, SetStatus, CanTransition
  <1>24. ASSUME NEW p \in Post, ConsumeTicket(p)  PROVE Rest'
    BY <1>24 DEF ConsumeTicket, TicketUsable
  <1>25. ASSUME NEW p \in Post, RedeemSession(p)  PROVE Rest'
    BY <1>25 DEF RedeemSession
  <1>26. ASSUME NEW p \in Post, RedeemRow(p)  PROVE Rest'
    BY <1>26 DEF RedeemRow, Expired, Authorized
  <1>27. ASSUME NEW q \in Request, RequestComes(q)  PROVE Rest'
    <2> DEFINE lost == ~session \/ ~permitted \/ row \in Final
    <2>1. lost \in BOOLEAN
      BY Zenon
    <2>2. request' = [request EXCEPT ![q].stage = IF CookieValid THEN "session" ELSE "done", ![q].denied = lost]
      BY <1>27, Zenon DEF RequestComes
    <2> HIDE DEF lost
    <2>3. request' = [request EXCEPT ![q] = [request[q] EXCEPT !.stage = IF CookieValid THEN "session" ELSE "done",
                                                              !.denied = lost]]
      BY <2>2
    <2>4. request' \in [Request -> RequestState]
      <3>1. request \in [Request -> RequestState]
        BY DEF RequestState
      <3> QED
        BY <2>1, <2>3, <3>1, RequestUpdates
    <2> QED
      BY <1>27, <2>4 DEF RequestComes, RequestState
  <1>28. ASSUME NEW q \in Request, RequestSession(q)  PROVE Rest'
    <2> DEFINE stage == IF session THEN "row" ELSE "done"
    <2>1. request' = [request EXCEPT ![q].stage = stage]
      BY <1>28 DEF RequestSession, Proceeds
    <2>2. request' \in [Request -> RequestState]
      <3>1. request \in [Request -> RequestState]
        BY DEF RequestState
      <3>2. stage \in {"row", "connect", "done"}
        OBVIOUS
      <3> HIDE DEF stage
      <3> QED
        BY <2>1, <3>1, <3>2, RequestProceeds
    <2> HIDE DEF stage
    <2> QED
      BY <1>28, <2>2 DEF RequestSession, RequestState
  <1>29. ASSUME NEW q \in Request, RequestRow(q)  PROVE Rest'
    <2> DEFINE stage == IF Authorized THEN "connect" ELSE "done"
    <2>1. request' = [request EXCEPT ![q].stage = stage]
      BY <1>29 DEF RequestRow, Proceeds
    <2>2. request' \in [Request -> RequestState]
      <3>1. request \in [Request -> RequestState]
        BY DEF RequestState
      <3>2. stage \in {"row", "connect", "done"}
        OBVIOUS
      <3> HIDE DEF stage
      <3> QED
        BY <2>1, <3>1, <3>2, RequestProceeds
    <2> HIDE DEF stage
    <2> QED
      BY <1>29, <2>2 DEF RequestRow, RequestState
  <1>30. ASSUME NEW q \in Request, RequestConnects(q)  PROVE Rest'
    <2> DEFINE stage == IF routeSocket # 0 /\ links[routeSocket].server = "open" THEN "waiting" ELSE "done"
    <2>1. request' = [request EXCEPT ![q].stage = stage, ![q].link = routeSocket]
      BY <1>30, Zenon DEF RequestConnects
    <2>2. stage \in {"waiting", "done"}
      OBVIOUS
    <2> HIDE DEF stage
    <2>3. request' = [request EXCEPT ![q] = [request[q] EXCEPT !.stage = stage, !.link = routeSocket]]
      BY <2>1
    <2>4. request' \in [Request -> RequestState]
      <3>1. request \in [Request -> RequestState]
        BY DEF RequestState
      <3> QED
        BY <2>2, <2>3, <3>1, RequestUpdates
    <2> QED
      BY <1>30, <2>4 DEF RequestConnects, RequestState
  <1>31. ASSUME NEW q \in Request, Admit(q)  PROVE Rest'
    BY <1>31, SMTT(40) DEF Admit, At, Proceeds, AccessIsActive
  <1>32. ASSUME NEW q \in Request, RequestEnds(q)  PROVE Rest'
    BY <1>32 DEF RequestEnds, At, Proceeds
  <1>33. CASE UNCHANGED vars
    BY <1>33 DEF vars
  <1> QED
    BY <1>1, <1>2, <1>3, <1>4, <1>5, <1>6, <1>7, <1>8, <1>9, <1>10, <1>11, <1>12, <1>13, <1>14,
       <1>15, <1>16, <1>17, <1>18, <1>19, <1>20, <1>21, <1>22, <1>23, <1>24, <1>25, <1>26, <1>27, <1>28, <1>29, <1>30, <1>31, <1>32, <1>33
       DEF Next

LEMMA TicketStep ==
    ASSUME TypeOK, TicketSpent, [Next]_vars
    PROVE  TicketSpent'
  <1> USE PreviewAssumption DEF TypeOK, TicketSpent, Redeeming, rowVars, processVars, stopVars, browserVars
  <1>1. CASE CommandStops
    BY <1>1 DEF CommandStops, ProcessStops
  <1>2. CASE ProcessDies
    BY <1>2 DEF ProcessDies
  <1>3. CASE RouteExpires
    BY <1>3 DEF RouteExpires
  <1>4. CASE SessionEnds
    BY <1>4 DEF SessionEnds
  <1>5. CASE PermissionEnds
    BY <1>5 DEF PermissionEnds
  <1>6. CASE ListPreviews
    BY <1>6 DEF ListPreviews, Expired
  <1>7. CASE StopCommits
    BY <1>7 DEF StopCommits
  <1>8. CASE StopNotifies
    BY <1>8 DEF StopNotifies, Sending, StreamsEnd
  <1>9. CASE Launch
    BY <1>9 DEF Launch, Expired, Authorized
  <1>10. CASE TicketLapses
    BY <1>10 DEF TicketLapses
  <1>11. ASSUME NEW l \in Link, Dial(l)  PROVE TicketSpent'
    BY <1>11 DEF Dial, Reconnects, NewLink
  <1>12. ASSUME NEW l \in Link, ReceiveWelcome(l)  PROVE TicketSpent'
    BY <1>12 DEF ReceiveWelcome
  <1>13. ASSUME NEW l \in Link, ReceiveRouteStop(l)  PROVE TicketSpent'
    BY <1>13 DEF ReceiveRouteStop, ProcessStops
  <1>14. ASSUME NEW l \in Link, LinkBreaks(l)  PROVE TicketSpent'
    BY <1>14 DEF LinkBreaks
  <1>15. ASSUME NEW l \in Link, ClientSeesClose(l)  PROVE TicketSpent'
    BY <1>15 DEF ClientSeesClose
  <1>16. ASSUME NEW l \in Link, Attach(l)  PROVE TicketSpent'
    BY <1>16 DEF Attach
  <1>17. ASSUME NEW l \in Link, Handle(l)  PROVE TicketSpent'
    BY <1>17 DEF Handle, Attached, Refused, Closing
  <1>18. ASSUME NEW l \in Link, Sync(l)  PROVE TicketSpent'
    BY <1>18 DEF Sync, Closing
  <1>19. ASSUME NEW l \in Link, Register(l)  PROVE TicketSpent'
    BY <1>19 DEF Register, Sending, Closing
  <1>20. ASSUME NEW l \in Link, Drop(l)  PROVE TicketSpent'
    BY <1>20 DEF Drop, SetStatus, CanTransition
  <1>21. ASSUME NEW l \in Link, Dropped(l)  PROVE TicketSpent'
    BY <1>21 DEF Dropped
  <1>22. ASSUME NEW l \in Link, Detach(l)  PROVE TicketSpent'
    BY <1>22 DEF Detach, EndArrives, StreamsEnd
  <1>23. ASSUME NEW l \in Link, MarkOffline(l)  PROVE TicketSpent'
    BY <1>23 DEF MarkOffline, SetStatus, CanTransition
  <1>24. ASSUME NEW p \in Post, ConsumeTicket(p)  PROVE TicketSpent'
    BY <1>24 DEF ConsumeTicket, TicketUsable
  <1>25. ASSUME NEW p \in Post, RedeemSession(p)  PROVE TicketSpent'
    BY <1>25 DEF RedeemSession
  <1>26. ASSUME NEW p \in Post, RedeemRow(p)  PROVE TicketSpent'
    BY <1>26 DEF RedeemRow, Expired, Authorized
  <1>27. ASSUME NEW q \in Request, RequestComes(q)  PROVE TicketSpent'
    BY <1>27 DEF RequestComes, At, CookieValid
  <1>28. ASSUME NEW q \in Request, RequestSession(q)  PROVE TicketSpent'
    BY <1>28 DEF RequestSession, At, Proceeds
  <1>29. ASSUME NEW q \in Request, RequestRow(q)  PROVE TicketSpent'
    BY <1>29 DEF RequestRow, At, Proceeds, Expired, Authorized
  <1>30. ASSUME NEW q \in Request, RequestConnects(q)  PROVE TicketSpent'
    BY <1>30 DEF RequestConnects, At
  <1>31. ASSUME NEW q \in Request, Admit(q)  PROVE TicketSpent'
    BY <1>31 DEF Admit, At, Proceeds, AccessIsActive
  <1>32. ASSUME NEW q \in Request, RequestEnds(q)  PROVE TicketSpent'
    BY <1>32 DEF RequestEnds, At, Proceeds
  <1>33. CASE UNCHANGED vars
    BY <1>33 DEF vars
  <1> QED
    BY <1>1, <1>2, <1>3, <1>4, <1>5, <1>6, <1>7, <1>8, <1>9, <1>10, <1>11, <1>12, <1>13, <1>14,
       <1>15, <1>16, <1>17, <1>18, <1>19, <1>20, <1>21, <1>22, <1>23, <1>24, <1>25, <1>26, <1>27, <1>28, <1>29, <1>30, <1>31, <1>32, <1>33
       DEF Next

LEMMA DeniedStep ==
    ASSUME TypeOK, DeniedSoFar, [Next]_vars
    PROVE  DeniedSoFar'
  <1> USE PreviewAssumption DEF TypeOK, DeniedSoFar, Final, rowVars, processVars, stopVars, browserVars
  <1>1. CASE CommandStops
    BY <1>1 DEF CommandStops, ProcessStops
  <1>2. CASE ProcessDies
    BY <1>2 DEF ProcessDies
  <1>3. CASE RouteExpires
    BY <1>3 DEF RouteExpires
  <1>4. CASE SessionEnds
    BY <1>4 DEF SessionEnds
  <1>5. CASE PermissionEnds
    BY <1>5 DEF PermissionEnds
  <1>6. CASE ListPreviews
    BY <1>6 DEF ListPreviews, Expired
  <1>7. CASE StopCommits
    BY <1>7 DEF StopCommits
  <1>8. CASE StopNotifies
    BY <1>8 DEF StopNotifies, Sending, StreamsEnd
  <1>9. CASE Launch
    BY <1>9 DEF Launch, Expired, Authorized
  <1>10. CASE TicketLapses
    BY <1>10 DEF TicketLapses
  <1>11. ASSUME NEW l \in Link, Dial(l)  PROVE DeniedSoFar'
    BY <1>11 DEF Dial, Reconnects, NewLink
  <1>12. ASSUME NEW l \in Link, ReceiveWelcome(l)  PROVE DeniedSoFar'
    BY <1>12 DEF ReceiveWelcome
  <1>13. ASSUME NEW l \in Link, ReceiveRouteStop(l)  PROVE DeniedSoFar'
    BY <1>13 DEF ReceiveRouteStop, ProcessStops
  <1>14. ASSUME NEW l \in Link, LinkBreaks(l)  PROVE DeniedSoFar'
    BY <1>14 DEF LinkBreaks
  <1>15. ASSUME NEW l \in Link, ClientSeesClose(l)  PROVE DeniedSoFar'
    BY <1>15 DEF ClientSeesClose
  <1>16. ASSUME NEW l \in Link, Attach(l)  PROVE DeniedSoFar'
    BY <1>16 DEF Attach
  <1>17. ASSUME NEW l \in Link, Handle(l)  PROVE DeniedSoFar'
    BY <1>17 DEF Handle, Attached, Refused, Closing
  <1>18. ASSUME NEW l \in Link, Sync(l)  PROVE DeniedSoFar'
    BY <1>18 DEF Sync, Closing
  <1>19. ASSUME NEW l \in Link, Register(l)  PROVE DeniedSoFar'
    BY <1>19 DEF Register, Sending, Closing
  <1>20. ASSUME NEW l \in Link, Drop(l)  PROVE DeniedSoFar'
    BY <1>20 DEF Drop, SetStatus, CanTransition
  <1>21. ASSUME NEW l \in Link, Dropped(l)  PROVE DeniedSoFar'
    BY <1>21 DEF Dropped
  <1>22. ASSUME NEW l \in Link, Detach(l)  PROVE DeniedSoFar'
    BY <1>22 DEF Detach, EndArrives, StreamsEnd
  <1>23. ASSUME NEW l \in Link, MarkOffline(l)  PROVE DeniedSoFar'
    BY <1>23 DEF MarkOffline, SetStatus, CanTransition
  <1>24. ASSUME NEW p \in Post, ConsumeTicket(p)  PROVE DeniedSoFar'
    BY <1>24 DEF ConsumeTicket, TicketUsable
  <1>25. ASSUME NEW p \in Post, RedeemSession(p)  PROVE DeniedSoFar'
    BY <1>25 DEF RedeemSession
  <1>26. ASSUME NEW p \in Post, RedeemRow(p)  PROVE DeniedSoFar'
    BY <1>26 DEF RedeemRow, Expired, Authorized
  <1>27. ASSUME NEW q \in Request, RequestComes(q)  PROVE DeniedSoFar'
    BY <1>27 DEF RequestComes, At, CookieValid
  <1>28. ASSUME NEW q \in Request, RequestSession(q)  PROVE DeniedSoFar'
    BY <1>28 DEF RequestSession, At, Proceeds
  <1>29. ASSUME NEW q \in Request, RequestRow(q)  PROVE DeniedSoFar'
    BY <1>29 DEF RequestRow, At, Proceeds, Expired, Authorized
  <1>30. ASSUME NEW q \in Request, RequestConnects(q)  PROVE DeniedSoFar'
    BY <1>30 DEF RequestConnects, At
  <1>31. ASSUME NEW q \in Request, Admit(q)  PROVE DeniedSoFar'
    BY <1>31 DEF Admit, At, Proceeds, AccessIsActive
  <1>32. ASSUME NEW q \in Request, RequestEnds(q)  PROVE DeniedSoFar'
    BY <1>32 DEF RequestEnds, At, Proceeds
  <1>33. CASE UNCHANGED vars
    BY <1>33 DEF vars
  <1> QED
    BY <1>1, <1>2, <1>3, <1>4, <1>5, <1>6, <1>7, <1>8, <1>9, <1>10, <1>11, <1>12, <1>13, <1>14,
       <1>15, <1>16, <1>17, <1>18, <1>19, <1>20, <1>21, <1>22, <1>23, <1>24, <1>25, <1>26, <1>27, <1>28, <1>29, <1>30, <1>31, <1>32, <1>33
       DEF Next

LEMMA KeepsSaying ==
    ASSUME \A k \in Link : Says(links'[k]) /\ links'[k].client = links[k].client,
           sock' = sock, sock \in 0..MaxLinks, Conversation
    PROVE  Conversation'
  BY PreviewAssumption DEF Conversation, Link

LEMMA SaysUpdates ==
    ASSUME NEW k \in LinkState, Says(k)
    PROVE  /\ LET m == Sending([k EXCEPT !.routes = FALSE], "route.stop") IN Says(m) /\ m.client = k.client
           /\ \A t \in {"none", "synced"} : LET m == [k EXCEPT !.task = t] IN
                 /\ Says(m) /\ m.client = k.client
                 /\ Says(Closing(m)) /\ Closing(m).client = k.client
           /\ LET m == Sending([k EXCEPT !.task = "none", !.routes = TRUE], "welcome") IN
                 Says(m) /\ m.client = k.client
           /\ LET m == Closing([k EXCEPT !.routes = FALSE]) IN Says(m) /\ m.client = k.client
  BY DEF LinkState, Says, Sending, Closing

LEMMA TailSays ==
    ASSUME NEW k \in LinkState, Says(k), k.up # <<>>
    PROVE  LET m == [k EXCEPT !.up = Tail(@)] IN
           /\ Says(m) /\ Says(Closing(m)) /\ Says([m EXCEPT !.task = "sync"])
           /\ Closing(m).client = k.client /\ m.client = k.client
           /\ [m EXCEPT !.task = "sync"].client = k.client
           /\ [m EXCEPT !.task = "drop"].client = k.client
           /\ Head(k.up) # "hello" => Says([m EXCEPT !.task = "drop"])
  <1>1. /\ k.up \in Seq({"hello", "empty"}) /\ Len(Tail(k.up)) = Len(k.up) - 1
        /\ Len(k.up) \in Nat \ {0} /\ Len(Tail(k.up)) \in Nat /\ Head(k.up) = k.up[1]
        /\ \A i \in 1..Len(Tail(k.up)) : Tail(k.up)[i] = k.up[i + 1]
    BY HeadTailProperties, EmptySeq DEF LinkState
  <1>2. \A i \in 1..Len(Tail(k.up)) : Tail(k.up)[i] = "empty" /\ (k.client => Tail(k.up)[i] = "hello")
    BY <1>1 DEF Says
  <1>3. Head(k.up) # "hello" => ~k.client
    BY <1>1 DEF Says
  <1> QED
    BY <1>2, <1>3 DEF LinkState, Says, Closing

LEMMA Stops ==
    ASSUME links \in [Link -> LinkState], sock \in 0..MaxLinks, Conversation, ProcessStops
    PROVE  Conversation'
  <1>1. CASE sock = 0
    BY <1>1 DEF ProcessStops, Conversation
  <1>2. CASE sock # 0
    <2> DEFINE said == links[sock].up
    <2>1. sock \in Link /\ said \in Seq({"hello", "empty"})
      BY <1>2, PreviewAssumption DEF Link, LinkState
    <2>2. /\ Len(said) \in Nat /\ Len(Append(said, "empty")) = Len(said) + 1
          /\ \A i \in 1..Len(said) : Append(said, "empty")[i] = said[i]
          /\ Append(said, "empty")[Len(said) + 1] = "empty"
      BY <2>1, LenProperties, AppendProperties
    <2>3. \A i \in 1..Len(Append(said, "empty")) : i > 1 => Append(said, "empty")[i] = "empty"
      BY <2>1, <2>2 DEF Conversation, Says
    <2>4. LET m == [links[sock] EXCEPT !.client = FALSE, !.up = Append(@, "empty"), !.down = <<>>] IN
              links' = [links EXCEPT ![sock] = m] /\ Says(m)
      BY <1>2, <2>1, <2>3 DEF ProcessStops, Says, LinkState
    <2>5. sock' = 0
      BY DEF ProcessStops
    <2> QED
      BY <2>1, <2>4, <2>5 DEF Conversation
  <1> QED
    BY <1>1, <1>2

LEMMA ConversationStep ==
    ASSUME links \in [Link -> LinkState], sock \in 0..MaxLinks, Conversation, [Next]_vars
    PROVE  Conversation'
  <1> USE PreviewAssumption DEF Conversation, rowVars, processVars, stopVars, browserVars
  <1>1. CASE CommandStops
    BY <1>1, Stops DEF CommandStops
  <1>2. CASE ProcessDies
    BY <1>2 DEF ProcessDies, Conversation, Says, LinkState, Link
  <1>3. CASE RouteExpires
    BY <1>3 DEF RouteExpires
  <1>4. CASE SessionEnds
    BY <1>4 DEF SessionEnds
  <1>5. CASE PermissionEnds
    BY <1>5 DEF PermissionEnds
  <1>6. CASE ListPreviews
    BY <1>6 DEF ListPreviews, Expired
  <1>7. CASE StopCommits
    BY <1>7 DEF StopCommits
  <1>8. CASE StopNotifies
    <2>1. \A k \in Link : LET m == Sending([links[k] EXCEPT !.routes = FALSE], "route.stop") IN
                           Says(m) /\ m.client = links[k].client
      BY SaysUpdates DEF Conversation
    <2>2. \A k \in Link : links'[k] \in {links[k], Sending([links[k] EXCEPT !.routes = FALSE], "route.stop")}
      BY <1>8 DEF StopNotifies
    <2>3. \A k \in Link : Says(links'[k]) /\ links'[k].client = links[k].client
      BY <2>1, <2>2 DEF Conversation
    <2>4. sock' = sock
      BY <1>8 DEF StopNotifies
    <2> QED
      BY <2>3, <2>4, KeepsSaying
  <1>9. CASE Launch
    BY <1>9 DEF Launch, Expired, Authorized
  <1>10. CASE TicketLapses
    BY <1>10 DEF TicketLapses
  <1>11. ASSUME NEW l \in Link, Dial(l)  PROVE Conversation'
    BY <1>11 DEF Dial, Conversation, Says, LinkState, Link, NewLink, Reconnects
  <1>12. ASSUME NEW l \in Link, ReceiveWelcome(l)  PROVE Conversation'
    BY <1>12 DEF ReceiveWelcome, Conversation, Says, LinkState, Link
  <1>13. ASSUME NEW l \in Link, ReceiveRouteStop(l)  PROVE Conversation'
    BY <1>13, Stops DEF ReceiveRouteStop
  <1>14. ASSUME NEW l \in Link, LinkBreaks(l)  PROVE Conversation'
    BY <1>14 DEF LinkBreaks, Conversation, Says, LinkState, Link
  <1>15. ASSUME NEW l \in Link, ClientSeesClose(l)  PROVE Conversation'
    BY <1>15 DEF ClientSeesClose, Conversation, Says, LinkState, Link
  <1>16. ASSUME NEW l \in Link, Attach(l)  PROVE Conversation'
    BY <1>16 DEF Attach, Conversation, Says, LinkState, Link
  <1>17. ASSUME NEW l \in Link, Handle(l)  PROVE Conversation'
    <2> DEFINE link == [links[l] EXCEPT !.up = Tail(@)]
    <2>1. links[l].up # <<>>
      BY <1>17 DEF Handle
    <2>2. links' = [links EXCEPT ![l] =
                       IF Head(links[l].up) = "hello"
                       THEN IF due THEN Closing(link) ELSE [link EXCEPT !.task = "sync"]
                       ELSE IF link.routes THEN [link EXCEPT !.task = "drop"] ELSE link]
      BY <1>17, Zenon DEF Handle, Refused
    <2>3. links[l] \in LinkState /\ Says(links[l])
      BY DEF Conversation
    <2>4. /\ Says(link) /\ Says(Closing(link)) /\ Says([link EXCEPT !.task = "sync"])
          /\ Closing(link).client = links[l].client /\ link.client = links[l].client
          /\ [link EXCEPT !.task = "sync"].client = links[l].client
          /\ [link EXCEPT !.task = "drop"].client = links[l].client
          /\ Head(links[l].up) # "hello" => Says([link EXCEPT !.task = "drop"])
      BY <2>1, <2>3, TailSays
    <2> HIDE DEF link
    <2>5. \A k \in Link : Says(links'[k]) /\ links'[k].client = links[k].client
      BY <2>2, <2>3, <2>4 DEF Conversation
    <2>6. sock' = sock
      BY <1>17 DEF Handle
    <2> QED
      BY <2>5, <2>6, KeepsSaying
  <1>18. ASSUME NEW l \in Link, Sync(l)  PROVE Conversation'
    <2>1. \A t \in {"none", "synced"} : LET m == [links[l] EXCEPT !.task = t] IN
              /\ Says(m) /\ m.client = links[l].client
              /\ Says(Closing(m)) /\ Closing(m).client = links[l].client
      BY SaysUpdates DEF Conversation
    <2>2. \A k \in Link : links'[k] \in {links[k]} \cup
              (IF k = l THEN {[links[l] EXCEPT !.task = "synced"], Closing([links[l] EXCEPT !.task = "none"])} ELSE {})
      BY <1>18 DEF Sync
    <2>3. \A k \in Link : Says(links'[k]) /\ links'[k].client = links[k].client
      BY <2>1, <2>2 DEF Conversation
    <2>4. sock' = sock
      BY <1>18 DEF Sync
    <2> QED
      BY <2>3, <2>4, KeepsSaying
  <1>19. ASSUME NEW l \in Link, Register(l)  PROVE Conversation'
    <2>1. \A k \in Link :
              /\ Says(Sending([links[k] EXCEPT !.task = "none", !.routes = TRUE], "welcome"))
              /\ Sending([links[k] EXCEPT !.task = "none", !.routes = TRUE], "welcome").client = links[k].client
              /\ Says(Closing([links[k] EXCEPT !.routes = FALSE]))
              /\ Closing([links[k] EXCEPT !.routes = FALSE]).client = links[k].client
      BY SaysUpdates DEF Conversation
    <2>2. \A k \in Link : links'[k] \in {links[k], Closing([links[k] EXCEPT !.routes = FALSE]),
                                          Sending([links[k] EXCEPT !.task = "none", !.routes = TRUE], "welcome")}
      BY <1>19 DEF Register
    <2>3. \A k \in Link : Says(links'[k]) /\ links'[k].client = links[k].client
      BY <2>1, <2>2 DEF Conversation
    <2>4. sock' = sock
      BY <1>19 DEF Register
    <2> QED
      BY <2>3, <2>4, KeepsSaying
  <1>20. ASSUME NEW l \in Link, Drop(l)  PROVE Conversation'
    BY <1>20 DEF Drop, Conversation, Says, LinkState, Link, SetStatus
  <1>21. ASSUME NEW l \in Link, Dropped(l)  PROVE Conversation'
    BY <1>21 DEF Dropped, Conversation, Says, LinkState, Link
  <1>22. ASSUME NEW l \in Link, Detach(l)  PROVE Conversation'
    <2>1. links' = [links EXCEPT ![l].server = "closed", ![l].up = <<>>, ![l].mark = links[l].routes] /\ sock' = sock
      BY <1>22, Zenon DEF Detach, processVars
    <2>2. LET m == [links[l] EXCEPT !.server = "closed", !.up = <<>>, !.mark = links[l].routes] IN
              Says(m) /\ m.client = links[l].client
      BY EmptySeq DEF Says, LinkState, Conversation
    <2>3. \A k \in Link : Says(links'[k]) /\ links'[k].client = links[k].client
      BY <2>1, <2>2 DEF Conversation
    <2> QED
      BY <2>1, <2>3, KeepsSaying
  <1>23. ASSUME NEW l \in Link, MarkOffline(l)  PROVE Conversation'
    BY <1>23 DEF MarkOffline, Conversation, Says, LinkState, Link, SetStatus
  <1>24. ASSUME NEW p \in Post, ConsumeTicket(p)  PROVE Conversation'
    BY <1>24 DEF ConsumeTicket, TicketUsable
  <1>25. ASSUME NEW p \in Post, RedeemSession(p)  PROVE Conversation'
    BY <1>25 DEF RedeemSession
  <1>26. ASSUME NEW p \in Post, RedeemRow(p)  PROVE Conversation'
    BY <1>26 DEF RedeemRow, Expired, Authorized
  <1>27. ASSUME NEW q \in Request, RequestComes(q)  PROVE Conversation'
    BY <1>27 DEF RequestComes, At, CookieValid
  <1>28. ASSUME NEW q \in Request, RequestSession(q)  PROVE Conversation'
    BY <1>28 DEF RequestSession, At, Proceeds
  <1>29. ASSUME NEW q \in Request, RequestRow(q)  PROVE Conversation'
    BY <1>29 DEF RequestRow, At, Proceeds, Expired, Authorized
  <1>30. ASSUME NEW q \in Request, RequestConnects(q)  PROVE Conversation'
    BY <1>30 DEF RequestConnects, At
  <1>31. ASSUME NEW q \in Request, Admit(q)  PROVE Conversation'
    BY <1>31 DEF Admit, At, Proceeds, AccessIsActive
  <1>32. ASSUME NEW q \in Request, RequestEnds(q)  PROVE Conversation'
    BY <1>32 DEF RequestEnds, At, Proceeds
  <1>33. CASE UNCHANGED vars
    BY <1>33 DEF vars
  <1> QED
    BY <1>1, <1>2, <1>3, <1>4, <1>5, <1>6, <1>7, <1>8, <1>9, <1>10, <1>11, <1>12, <1>13, <1>14,
       <1>15, <1>16, <1>17, <1>18, <1>19, <1>20, <1>21, <1>22, <1>23, <1>24, <1>25, <1>26, <1>27, <1>28, <1>29, <1>30, <1>31, <1>32, <1>33
       DEF Next

LEMMA WaitsStep ==
    ASSUME TypeOK, WaitsForALink, [Next]_vars
    PROVE  WaitsForALink'
  <1> USE PreviewAssumption DEF TypeOK, WaitsForALink, Link, rowVars, processVars, stopVars, browserVars
  <1>1. CASE CommandStops
    BY <1>1 DEF CommandStops, ProcessStops
  <1>2. CASE ProcessDies
    BY <1>2 DEF ProcessDies
  <1>3. CASE RouteExpires
    BY <1>3 DEF RouteExpires
  <1>4. CASE SessionEnds
    BY <1>4 DEF SessionEnds
  <1>5. CASE PermissionEnds
    BY <1>5 DEF PermissionEnds
  <1>6. CASE ListPreviews
    BY <1>6 DEF ListPreviews, Expired
  <1>7. CASE StopCommits
    BY <1>7 DEF StopCommits
  <1>8. CASE StopNotifies
    BY <1>8 DEF StopNotifies, Sending, StreamsEnd
  <1>9. CASE Launch
    BY <1>9 DEF Launch, Expired, Authorized
  <1>10. CASE TicketLapses
    BY <1>10 DEF TicketLapses
  <1>11. ASSUME NEW l \in Link, Dial(l)  PROVE WaitsForALink'
    BY <1>11 DEF Dial, Reconnects, NewLink
  <1>12. ASSUME NEW l \in Link, ReceiveWelcome(l)  PROVE WaitsForALink'
    BY <1>12 DEF ReceiveWelcome
  <1>13. ASSUME NEW l \in Link, ReceiveRouteStop(l)  PROVE WaitsForALink'
    BY <1>13 DEF ReceiveRouteStop, ProcessStops
  <1>14. ASSUME NEW l \in Link, LinkBreaks(l)  PROVE WaitsForALink'
    BY <1>14 DEF LinkBreaks
  <1>15. ASSUME NEW l \in Link, ClientSeesClose(l)  PROVE WaitsForALink'
    BY <1>15 DEF ClientSeesClose
  <1>16. ASSUME NEW l \in Link, Attach(l)  PROVE WaitsForALink'
    BY <1>16 DEF Attach
  <1>17. ASSUME NEW l \in Link, Handle(l)  PROVE WaitsForALink'
    BY <1>17 DEF Handle, Attached, Refused, Closing
  <1>18. ASSUME NEW l \in Link, Sync(l)  PROVE WaitsForALink'
    BY <1>18 DEF Sync, Closing
  <1>19. ASSUME NEW l \in Link, Register(l)  PROVE WaitsForALink'
    BY <1>19 DEF Register, Sending, Closing
  <1>20. ASSUME NEW l \in Link, Drop(l)  PROVE WaitsForALink'
    BY <1>20 DEF Drop, SetStatus, CanTransition
  <1>21. ASSUME NEW l \in Link, Dropped(l)  PROVE WaitsForALink'
    BY <1>21 DEF Dropped
  <1>22. ASSUME NEW l \in Link, Detach(l)  PROVE WaitsForALink'
    BY <1>22 DEF Detach, EndArrives, StreamsEnd
  <1>23. ASSUME NEW l \in Link, MarkOffline(l)  PROVE WaitsForALink'
    BY <1>23 DEF MarkOffline, SetStatus, CanTransition
  <1>24. ASSUME NEW p \in Post, ConsumeTicket(p)  PROVE WaitsForALink'
    BY <1>24 DEF ConsumeTicket, TicketUsable
  <1>25. ASSUME NEW p \in Post, RedeemSession(p)  PROVE WaitsForALink'
    BY <1>25 DEF RedeemSession
  <1>26. ASSUME NEW p \in Post, RedeemRow(p)  PROVE WaitsForALink'
    BY <1>26 DEF RedeemRow, Expired, Authorized
  <1>27. ASSUME NEW q \in Request, RequestComes(q)  PROVE WaitsForALink'
    BY <1>27 DEF RequestComes, At, CookieValid
  <1>28. ASSUME NEW q \in Request, RequestSession(q)  PROVE WaitsForALink'
    BY <1>28 DEF RequestSession, At, Proceeds
  <1>29. ASSUME NEW q \in Request, RequestRow(q)  PROVE WaitsForALink'
    BY <1>29 DEF RequestRow, At, Proceeds, Expired, Authorized
  <1>30. ASSUME NEW q \in Request, RequestConnects(q)  PROVE WaitsForALink'
    BY <1>30 DEF RequestConnects, At
  <1>31. ASSUME NEW q \in Request, Admit(q)  PROVE WaitsForALink'
    BY <1>31 DEF Admit, At, Proceeds, AccessIsActive
  <1>32. ASSUME NEW q \in Request, RequestEnds(q)  PROVE WaitsForALink'
    BY <1>32 DEF RequestEnds, At, Proceeds
  <1>33. CASE UNCHANGED vars
    BY <1>33 DEF vars
  <1> QED
    BY <1>1, <1>2, <1>3, <1>4, <1>5, <1>6, <1>7, <1>8, <1>9, <1>10, <1>11, <1>12, <1>13, <1>14,
       <1>15, <1>16, <1>17, <1>18, <1>19, <1>20, <1>21, <1>22, <1>23, <1>24, <1>25, <1>26, <1>27, <1>28, <1>29, <1>30, <1>31, <1>32, <1>33
       DEF Next

LEMMA CarryingKept ==
    ASSUME NEW k \in LinkState, Carrying(k)
    PROVE  /\ Carrying(Closing([k EXCEPT !.task = "none"])) /\ Carrying([k EXCEPT !.task = "synced"])
           /\ Carrying(Sending([k EXCEPT !.task = "none", !.routes = TRUE], "welcome"))
           /\ Carrying(Closing([k EXCEPT !.routes = FALSE]))
  BY DEF LinkState, Carrying, Sending, Closing

LEMMA StreamsStayCarried ==
    ASSUME TypeOK, WaitsForALink, StreamsAreCarried, request' = request,
           \A k \in Link : Carrying(links[k]) => Carrying(links'[k])
    PROVE  StreamsAreCarried'
  BY DEF WaitsForALink, StreamsAreCarried, Carrying

LEMMA CarriedStep ==
    ASSUME TypeOK, Conversation, WaitsForALink, StreamsAreCarried, [Next]_vars
    PROVE  StreamsAreCarried'
  <1> USE PreviewAssumption DEF TypeOK, Conversation, Says, WaitsForALink, StreamsAreCarried, Link, rowVars, processVars, stopVars, browserVars
  <1>1. CASE CommandStops
    BY <1>1 DEF CommandStops, ProcessStops
  <1>2. CASE ProcessDies
    BY <1>2 DEF ProcessDies
  <1>3. CASE RouteExpires
    BY <1>3 DEF RouteExpires
  <1>4. CASE SessionEnds
    BY <1>4 DEF SessionEnds
  <1>5. CASE PermissionEnds
    BY <1>5 DEF PermissionEnds
  <1>6. CASE ListPreviews
    BY <1>6 DEF ListPreviews, Expired
  <1>7. CASE StopCommits
    BY <1>7 DEF StopCommits
  <1>8. CASE StopNotifies
    BY <1>8 DEF StopNotifies, Sending, StreamsEnd
  <1>9. CASE Launch
    BY <1>9 DEF Launch, Expired, Authorized
  <1>10. CASE TicketLapses
    BY <1>10 DEF TicketLapses
  <1>11. ASSUME NEW l \in Link, Dial(l)  PROVE StreamsAreCarried'
    BY <1>11 DEF Dial, Reconnects, NewLink
  <1>12. ASSUME NEW l \in Link, ReceiveWelcome(l)  PROVE StreamsAreCarried'
    BY <1>12 DEF ReceiveWelcome
  <1>13. ASSUME NEW l \in Link, ReceiveRouteStop(l)  PROVE StreamsAreCarried'
    BY <1>13 DEF ReceiveRouteStop, ProcessStops
  <1>14. ASSUME NEW l \in Link, LinkBreaks(l)  PROVE StreamsAreCarried'
    BY <1>14 DEF LinkBreaks
  <1>15. ASSUME NEW l \in Link, ClientSeesClose(l)  PROVE StreamsAreCarried'
    BY <1>15 DEF ClientSeesClose
  <1>16. ASSUME NEW l \in Link, Attach(l)  PROVE StreamsAreCarried'
    BY <1>16 DEF Attach
  <1>17. ASSUME NEW l \in Link, Handle(l)  PROVE StreamsAreCarried'
    BY <1>17 DEF Handle, Attached, Refused, Closing
  <1>18. ASSUME NEW l \in Link, Sync(l)  PROVE StreamsAreCarried'
    <2>1. \A k \in Link : Carrying(links[k]) => Carrying(links'[k])
      <3>1. Carrying(links[l]) => /\ Carrying(Closing([links[l] EXCEPT !.task = "none"]))
                                  /\ Carrying([links[l] EXCEPT !.task = "synced"])
        BY CarryingKept DEF LinkState
      <3>2. \/ links'[l] = [links[l] EXCEPT !.task = "synced"]
            \/ links'[l] = Closing([links[l] EXCEPT !.task = "none"])
        BY <1>18 DEF Sync
      <3>3. \A k \in Link : k # l => links'[k] = links[k]
        BY <1>18 DEF Sync
      <3> QED
        BY <3>1, <3>2, <3>3, ZenonT(40)
    <2> QED
      BY <1>18, <2>1, StreamsStayCarried DEF Sync
  <1>19. ASSUME NEW l \in Link, Register(l)  PROVE StreamsAreCarried'
    <2>1. \A k \in Link : Carrying(links[k]) => Carrying(links'[k])
      <3> SUFFICES ASSUME NEW k \in Link, Carrying(links[k])  PROVE Carrying(links'[k])
        OBVIOUS
      <3>1. /\ Carrying(Sending([links[k] EXCEPT !.task = "none", !.routes = TRUE], "welcome"))
            /\ Carrying(Closing([links[k] EXCEPT !.routes = FALSE]))
        BY CarryingKept DEF LinkState
      <3>2. \/ links'[k] = links[k]
            \/ links'[k] = Closing([links[k] EXCEPT !.routes = FALSE])
            \/ links'[k] = Sending([links[k] EXCEPT !.task = "none", !.routes = TRUE], "welcome")
        BY <1>19 DEF Register
      <3> QED
        BY <3>1, <3>2, Zenon
    <2> QED
      BY <1>19, <2>1, StreamsStayCarried DEF Register
  <1>20. ASSUME NEW l \in Link, Drop(l)  PROVE StreamsAreCarried'
    BY <1>20 DEF Drop, SetStatus, CanTransition
  <1>21. ASSUME NEW l \in Link, Dropped(l)  PROVE StreamsAreCarried'
    BY <1>21 DEF Dropped
  <1>22. ASSUME NEW l \in Link, Detach(l)  PROVE StreamsAreCarried'
    BY <1>22 DEF Detach, EndArrives, StreamsEnd
  <1>23. ASSUME NEW l \in Link, MarkOffline(l)  PROVE StreamsAreCarried'
    BY <1>23 DEF MarkOffline, SetStatus, CanTransition
  <1>24. ASSUME NEW p \in Post, ConsumeTicket(p)  PROVE StreamsAreCarried'
    BY <1>24 DEF ConsumeTicket, TicketUsable
  <1>25. ASSUME NEW p \in Post, RedeemSession(p)  PROVE StreamsAreCarried'
    BY <1>25 DEF RedeemSession
  <1>26. ASSUME NEW p \in Post, RedeemRow(p)  PROVE StreamsAreCarried'
    BY <1>26 DEF RedeemRow, Expired, Authorized
  <1>27. ASSUME NEW q \in Request, RequestComes(q)  PROVE StreamsAreCarried'
    BY <1>27 DEF RequestComes, At, CookieValid
  <1>28. ASSUME NEW q \in Request, RequestSession(q)  PROVE StreamsAreCarried'
    BY <1>28 DEF RequestSession, At, Proceeds
  <1>29. ASSUME NEW q \in Request, RequestRow(q)  PROVE StreamsAreCarried'
    BY <1>29 DEF RequestRow, At, Proceeds, Expired, Authorized
  <1>30. ASSUME NEW q \in Request, RequestConnects(q)  PROVE StreamsAreCarried'
    BY <1>30 DEF RequestConnects, At
  <1>31. ASSUME NEW q \in Request, Admit(q)  PROVE StreamsAreCarried'
    BY <1>31 DEF Admit, At, Proceeds, AccessIsActive
  <1>32. ASSUME NEW q \in Request, RequestEnds(q)  PROVE StreamsAreCarried'
    BY <1>32 DEF RequestEnds, At, Proceeds
  <1>33. CASE UNCHANGED vars
    BY <1>33 DEF vars
  <1> QED
    BY <1>1, <1>2, <1>3, <1>4, <1>5, <1>6, <1>7, <1>8, <1>9, <1>10, <1>11, <1>12, <1>13, <1>14,
       <1>15, <1>16, <1>17, <1>18, <1>19, <1>20, <1>21, <1>22, <1>23, <1>24, <1>25, <1>26, <1>27, <1>28, <1>29, <1>30, <1>31, <1>32, <1>33
       DEF Next

LEMMA StopStep ==
    ASSUME TypeOK, StopIsFinal, [Next]_vars
    PROVE  StopIsFinal'
  <1> USE PreviewAssumption DEF StopIsFinal, Final, rowVars, processVars, stopVars, browserVars
  <1>1. CASE CommandStops
    BY <1>1 DEF CommandStops, ProcessStops
  <1>2. CASE ProcessDies
    BY <1>2 DEF ProcessDies
  <1>3. CASE RouteExpires
    BY <1>3 DEF RouteExpires
  <1>4. CASE SessionEnds
    BY <1>4 DEF SessionEnds
  <1>5. CASE PermissionEnds
    BY <1>5 DEF PermissionEnds
  <1>6. CASE ListPreviews
    BY <1>6 DEF ListPreviews, Expired
  <1>7. CASE StopCommits
    BY <1>7 DEF StopCommits
  <1>8. CASE StopNotifies
    BY <1>8 DEF StopNotifies, Sending, StreamsEnd
  <1>9. CASE Launch
    BY <1>9 DEF Launch, Expired, Authorized
  <1>10. CASE TicketLapses
    BY <1>10 DEF TicketLapses
  <1>11. ASSUME NEW l \in Link, Dial(l)  PROVE StopIsFinal'
    BY <1>11 DEF Dial, Reconnects, NewLink
  <1>12. ASSUME NEW l \in Link, ReceiveWelcome(l)  PROVE StopIsFinal'
    BY <1>12 DEF ReceiveWelcome
  <1>13. ASSUME NEW l \in Link, ReceiveRouteStop(l)  PROVE StopIsFinal'
    BY <1>13 DEF ReceiveRouteStop, ProcessStops
  <1>14. ASSUME NEW l \in Link, LinkBreaks(l)  PROVE StopIsFinal'
    BY <1>14 DEF LinkBreaks
  <1>15. ASSUME NEW l \in Link, ClientSeesClose(l)  PROVE StopIsFinal'
    BY <1>15 DEF ClientSeesClose
  <1>16. ASSUME NEW l \in Link, Attach(l)  PROVE StopIsFinal'
    BY <1>16 DEF Attach
  <1>17. ASSUME NEW l \in Link, Handle(l)  PROVE StopIsFinal'
    BY <1>17 DEF Handle, Attached, Refused, Closing
  <1>18. ASSUME NEW l \in Link, Sync(l)  PROVE StopIsFinal'
    BY <1>18 DEF Sync, Closing
  <1>19. ASSUME NEW l \in Link, Register(l)  PROVE StopIsFinal'
    BY <1>19 DEF Register, Sending, Closing
  <1>20. ASSUME NEW l \in Link, Drop(l)  PROVE StopIsFinal'
    BY <1>20 DEF Drop, SetStatus, CanTransition
  <1>21. ASSUME NEW l \in Link, Dropped(l)  PROVE StopIsFinal'
    BY <1>21 DEF Dropped
  <1>22. ASSUME NEW l \in Link, Detach(l)  PROVE StopIsFinal'
    BY <1>22 DEF Detach, EndArrives, StreamsEnd
  <1>23. ASSUME NEW l \in Link, MarkOffline(l)  PROVE StopIsFinal'
    BY <1>23 DEF MarkOffline, SetStatus, CanTransition
  <1>24. ASSUME NEW p \in Post, ConsumeTicket(p)  PROVE StopIsFinal'
    BY <1>24 DEF ConsumeTicket, TicketUsable
  <1>25. ASSUME NEW p \in Post, RedeemSession(p)  PROVE StopIsFinal'
    BY <1>25 DEF RedeemSession
  <1>26. ASSUME NEW p \in Post, RedeemRow(p)  PROVE StopIsFinal'
    BY <1>26 DEF RedeemRow, Expired, Authorized
  <1>27. ASSUME NEW q \in Request, RequestComes(q)  PROVE StopIsFinal'
    BY <1>27 DEF RequestComes, At, CookieValid
  <1>28. ASSUME NEW q \in Request, RequestSession(q)  PROVE StopIsFinal'
    BY <1>28 DEF RequestSession, At, Proceeds
  <1>29. ASSUME NEW q \in Request, RequestRow(q)  PROVE StopIsFinal'
    BY <1>29 DEF RequestRow, At, Proceeds, Expired, Authorized
  <1>30. ASSUME NEW q \in Request, RequestConnects(q)  PROVE StopIsFinal'
    BY <1>30 DEF RequestConnects, At
  <1>31. ASSUME NEW q \in Request, Admit(q)  PROVE StopIsFinal'
    BY <1>31 DEF Admit, At, Proceeds, AccessIsActive
  <1>32. ASSUME NEW q \in Request, RequestEnds(q)  PROVE StopIsFinal'
    BY <1>32 DEF RequestEnds, At, Proceeds
  <1>33. CASE UNCHANGED vars
    BY <1>33 DEF vars
  <1> QED
    BY <1>1, <1>2, <1>3, <1>4, <1>5, <1>6, <1>7, <1>8, <1>9, <1>10, <1>11, <1>12, <1>13, <1>14,
       <1>15, <1>16, <1>17, <1>18, <1>19, <1>20, <1>21, <1>22, <1>23, <1>24, <1>25, <1>26, <1>27, <1>28, <1>29, <1>30, <1>31, <1>32, <1>33
       DEF Next

\* A step that the relay does not see.
Quiet(k, m) ==
    /\ m.server = k.server /\ m.routes = k.routes /\ m.task = k.task /\ m.mark = k.mark
    /\ Greets(m) => Greets(k)

LEMMA QuietRelay ==
    ASSUME \A k \in Link : Quiet(links[k], links'[k]), UNCHANGED <<row, missed, routeSocket>>, Relay
    PROVE  Relay'
  BY DEF Quiet, Relay, Relays, RowFollows

LEMMA StopsQuietly ==
    ASSUME links \in [Link -> LinkState], sock \in 0..MaxLinks, ProcessStops
    PROVE  \A k \in Link : Quiet(links[k], links'[k])
  <1>1. CASE sock = 0
    BY <1>1 DEF ProcessStops, Quiet
  <1>2. CASE sock # 0
    <2> DEFINE said == links[sock].up
    <2>1. sock \in Link /\ said \in Seq({"hello", "empty"})
      BY <1>2, PreviewAssumption DEF Link, LinkState
    <2>2. /\ Len(said) \in Nat /\ \A i \in 1..Len(said) : Append(said, "empty")[i] = said[i]
          /\ Append(said, "empty")[Len(said) + 1] = "empty"
          /\ said # <<>> => Len(said) > 0
      BY <2>1, LenProperties, AppendProperties, EmptySeq
    <2>3. Append(said, "empty")[1] = "hello" => said # <<>> /\ said[1] = "hello"
      <3>1. CASE said = <<>>
        BY <2>2, <3>1
      <3>2. CASE said # <<>>
        BY <2>2, <3>2
      <3> QED
        BY <3>1, <3>2
    <2> QED
      BY <1>2, <2>1, <2>3 DEF ProcessStops, Quiet, Greets, LinkState
  <1> QED
    BY <1>1, <1>2

LEMMA DiesQuietly ==
    ASSUME links \in [Link -> LinkState], sock \in 0..MaxLinks, ProcessDies
    PROVE  \A k \in Link : Quiet(links[k], links'[k])
  <1>1. CASE sock = 0
    BY <1>1 DEF ProcessDies, Quiet
  <1>2. CASE sock # 0
    <2>1. sock \in Link
      BY <1>2, PreviewAssumption DEF Link
    <2> QED
      BY <1>2, <2>1 DEF ProcessDies, Quiet, Greets, LinkState
  <1> QED
    BY <1>1, <1>2

LEMMA BreaksQuietly ==
    ASSUME links \in [Link -> LinkState], NEW l \in Link, LinkBreaks(l)
    PROVE  \A k \in Link : Quiet(links[k], links'[k])
  BY EmptySeq DEF LinkBreaks, Quiet, Greets, LinkState

LEMMA TailGreetsNot ==
    ASSUME NEW k \in LinkState, Says(k), k.up # <<>>
    PROVE  LET m == [k EXCEPT !.up = Tail(@)] IN
           m \in LinkState /\ ~Greets(m) /\ Head(k.up) = k.up[1]
  <1>1. /\ k.up \in Seq({"hello", "empty"}) /\ Tail(k.up) \in Seq({"hello", "empty"})
        /\ Len(Tail(k.up)) = Len(k.up) - 1 /\ Len(k.up) \in Nat \ {0} /\ Head(k.up) = k.up[1]
        /\ \A i \in 1..Len(Tail(k.up)) : Tail(k.up)[i] = k.up[i + 1]
    BY HeadTailProperties, EmptySeq DEF LinkState
  <1>2. Tail(k.up) # <<>> => Tail(k.up)[1] = "empty"
    BY <1>1, EmptySeq DEF Says
  <1> QED
    BY <1>1, <1>2 DEF LinkState, Greets

LEMMA RelayStopped ==
    ASSUME links \in [Link -> LinkState], routeSocket \in 0..MaxLinks, StopIsFinal, Relay, StopNotifies
    PROVE  Relay'
  <1>1. row \in Final /\ UNCHANGED <<row, missed>>
    BY DEF StopNotifies, StopIsFinal, rowVars
  <1>2. CASE routeSocket = 0
    <2>1. links' = links /\ routeSocket' = routeSocket
      BY <1>2 DEF StopNotifies
    <2> QED
      BY <1>1, <2>1 DEF Relay, Relays, RowFollows
  <1>3. CASE routeSocket # 0
    <2> DEFINE s == routeSocket
               m == Sending([links[s] EXCEPT !.routes = FALSE], "route.stop")
    <2>1. s \in Link /\ links[s] \in LinkState
      BY <1>3, PreviewAssumption DEF Link
    <2>2. links' = [links EXCEPT ![s] = m] /\ routeSocket' = 0
      BY <1>3 DEF StopNotifies
    <2>3. /\ m.server = links[s].server /\ ~m.routes /\ m.task = links[s].task
          /\ m.mark = links[s].mark /\ (Greets(m) => Greets(links[s]))
      BY <2>1 DEF Sending, LinkState, Greets
    <2> HIDE DEF m
    <2>4. links'[s] = m /\ \A k \in Link : k # s => links'[k] = links[k]
      BY <2>1, <2>2
    <2>5. \A k \in Link : links'[k].task = links[k].task
      BY <2>3, <2>4
    <2>6. SUFFICES ASSUME \A k \in Link : Relays(k)  PROVE (\A k \in Link : Relays(k)') /\ RowFollows'
      BY <1>1 DEF Relay
    <2>7. \A k \in Link : Relays(k)'
      <3> TAKE k \in Link
      <3>0. 0 \notin Link
        BY DEF Link
      <3>1. CASE k = s
        <4>1. Relays(s)
          BY <2>1, <2>6
        <4>2. ~links'[s].routes /\ routeSocket' # s
          BY <1>3, <2>2, <2>3, <2>4, Zenon
        <4>3. links'[s].mark = links[s].mark
          BY <2>3, <2>4, Zenon
        <4>4. /\ links'[s].server = links[s].server /\ links'[s].task = links[s].task
              /\ Greets(links'[s]) => Greets(links[s])
          BY <2>3, <2>4, Zenon
        <4> HIDE DEF s
        <4> QED
          BY <1>1, <3>1, <4>1, <4>2, <4>3, <4>4 DEF Relays, Final
      <3>2. CASE k # s
        BY <1>1, <2>1, <2>2, <2>4, <2>5, <2>6, <3>0, <3>2 DEF Relays
      <3> QED
        BY <3>1, <3>2
    <2> QED
      BY <1>1, <2>7 DEF RowFollows, Final
  <1> QED
    BY <1>2, <1>3

LEMMA RelayDials ==
    ASSUME links \in [Link -> LinkState], routeSocket \in 0..MaxLinks, Relay, NEW l \in Link, Dial(l)
    PROVE  Relay'
  <1>1. /\ links[l].server = "none" /\ links' = [links EXCEPT ![l] = NewLink]
        /\ UNCHANGED <<row, missed, routeSocket>>
    BY DEF Dial, rowVars
  <1>2. /\ NewLink.server = "authenticating" /\ ~NewLink.routes /\ NewLink.task = "none" /\ ~NewLink.mark
    BY DEF NewLink
  <1>3. links'[l] = NewLink /\ \A k \in Link : k # l => links'[k] = links[k]
    BY <1>1
  <1>4. SUFFICES ASSUME \A k \in Link : Relays(k), RowFollows
                 PROVE  (\A k \in Link : Relays(k)') /\ RowFollows'
    BY <1>1 DEF Relay
  <1>5. Relays(l)
    BY <1>4
  <1>6. ~links[l].routes /\ links[l].task # "synced" /\ routeSocket # l
    BY <1>1, <1>5 DEF Relays
  <1>7. \A k \in Link : links'[k].task = "synced" => links[k].task = "synced"
    BY <1>2, <1>3
  <1>8. \A k \in Link : Relays(k)'
    <2> TAKE k \in Link
    <2>1. CASE k = l
      BY <1>1, <1>2, <1>3, <1>6, <2>1 DEF Relays
    <2>2. CASE k # l
      <3>1. Relays(k) /\ links'[k] = links[k]
        BY <1>3, <1>4, <2>2
      <3> QED
        BY <1>1, <1>7, <3>1 DEF Relays
    <2> QED
      BY <2>1, <2>2
  <1>9. RowFollows'
    <2>1. row = "connector_offline" =>
             (routeSocket = 0 /\ \A k \in Link : links[k].task # "synced") \/ "mark" \in missed
      BY <1>4 DEF RowFollows
    <2>2. CASE row = "active" /\ routeSocket = 0
      <3>1. PICK k \in Link : links[k].task = "synced" \/ links[k].mark
        BY <1>4, <2>2 DEF RowFollows
      <3>2. CASE k # l
        <4>1. links'[k].task = "synced" \/ links'[k].mark
          BY <1>3, <3>1, <3>2
        <4> QED
          BY <1>1, <2>2, <4>1 DEF RowFollows
      <3>3. CASE k = l
        <4>1. links[l].mark
          BY <1>6, <3>1, <3>3
        <4> QED
          BY <1>1, <1>5, <4>1 DEF Relays
      <3> QED
        BY <3>2, <3>3
    <2> QED
      BY <1>1, <1>7, <2>1, <2>2 DEF RowFollows
  <1> QED
    BY <1>8, <1>9

LEMMA RelayHandles ==
    ASSUME links \in [Link -> LinkState], Conversation, Relay, NEW l \in Link, Handle(l)
    PROVE  Relay'
  <1> DEFINE link == [links[l] EXCEPT !.up = Tail(@)]
  <1>1. links[l].up # <<>> /\ links[l].task = "none" /\ links[l].server \in {"open", "closing"}
    BY DEF Handle, Attached
  <1>2. /\ links' = [links EXCEPT ![l] =
                     IF Head(links[l].up) = "hello"
                     THEN IF due THEN Closing(link) ELSE [link EXCEPT !.task = "sync"]
                     ELSE IF link.routes THEN [link EXCEPT !.task = "drop"] ELSE link]
        /\ UNCHANGED <<row, routeSocket, missed>>
    BY Zenon DEF Handle, Refused, rowVars
  <1>3. links[l] \in LinkState /\ Says(links[l])
    BY DEF Conversation
  <1>4. link \in LinkState /\ ~Greets(link) /\ Head(links[l].up) = links[l].up[1]
    BY <1>1, <1>3, TailGreetsNot
  <1>5. /\ link.server = links[l].server /\ link.task = "none" /\ link.routes = links[l].routes
        /\ link.mark = links[l].mark
    BY <1>1, <1>3 DEF LinkState
  <1> HIDE DEF link
  <1> DEFINE m == links'[l]
  <1>6. /\ ~Greets(m) /\ m.routes = links[l].routes /\ m.mark = links[l].mark
        /\ Greets(links[l]) => \/ m.server = "closing" /\ m.task = "none"
                               \/ m.server = "open" /\ m.task = "sync"
                               \/ links[l].server = "closing"
        /\ ~Greets(links[l]) => m.server = links[l].server /\ m.task = IF m.routes THEN "drop" ELSE "none"
    BY <1>1, <1>2, <1>4, <1>5 DEF Greets, Closing, LinkState
  <1>7. \A k \in Link : k # l => links'[k] = links[k]
    BY <1>2
  <1> HIDE DEF m
  <1>8. SUFFICES ASSUME \A k \in Link : Relays(k), RowFollows
                 PROVE  (\A k \in Link : Relays(k)') /\ RowFollows'
    BY <1>2 DEF Relay
  <1>9. m.task # "synced" /\ links[l].task # "synced"
    <2>1. Greets(links[l]) => links[l].server = "open"
      BY <1>1, <1>8 DEF Relays
    <2> QED
      BY <1>1, <1>6, <2>1
  <1>10. \A k \in Link : links'[k].task = "synced" <=> links[k].task = "synced"
    BY <1>7, <1>9 DEF m
  <1>11. \A k \in Link : Relays(k)'
    <2> TAKE k \in Link
    <2>1. CASE k = l
      <3>1. Relays(l)
        BY <1>8
      <3> QED
        BY <1>1, <1>2, <1>6, <1>9, <1>10, <2>1, <3>1 DEF Relays, m
    <2>2. CASE k # l
      <3>1. Relays(k) /\ links'[k] = links[k]
        BY <1>7, <1>8, <2>2
      <3> QED
        BY <1>2, <1>10, <3>1 DEF Relays
    <2> QED
      BY <2>1, <2>2
  <1>12. \A k \in Link : links'[k].mark = links[k].mark
    BY <1>6, <1>7 DEF m
  <1> QED
    BY <1>2, <1>8, <1>10, <1>11, <1>12 DEF RowFollows

LEMMA RelayRegisters ==
    ASSUME links \in [Link -> LinkState], routeSocket \in 0..MaxLinks, Relay, NEW l \in Link, Register(l)
    PROVE  Relay'
  <1> DEFINE served == Sending([links[l] EXCEPT !.task = "none", !.routes = TRUE], "welcome")
             lost(k) == Closing([links[k] EXCEPT !.routes = FALSE])
  <1>1. /\ links[l].task = "synced" /\ routeSocket' = l /\ UNCHANGED row
        /\ "mark" \in missed' <=> "mark" \in missed
        /\ links[l].server = "closed" => "end" \in missed'
        /\ links'[l] = served
        /\ \A k \in Link : k # l => links'[k] = IF k = routeSocket THEN lost(k) ELSE links[k]
    BY DEF Register, rowVars
  <1>2. /\ served.server = links[l].server /\ served.routes /\ served.task = "none"
        /\ served.mark = links[l].mark /\ (Greets(served) => Greets(links[l]))
    BY DEF Sending, Greets, LinkState
  <1>3. \A k \in Link :
          /\ lost(k).server = (IF links[k].server = "open" THEN "closing" ELSE links[k].server)
          /\ ~lost(k).routes /\ lost(k).task = links[k].task /\ lost(k).mark = links[k].mark
          /\ Greets(lost(k)) => Greets(links[k])
    BY DEF Closing, Greets, LinkState
  <1> HIDE DEF served, lost
  <1>4. SUFFICES ASSUME \A k \in Link : Relays(k), RowFollows
                 PROVE  (\A k \in Link : Relays(k)') /\ RowFollows'
    BY <1>1 DEF Relay
  <1>5. /\ Relays(l) /\ links[l].server \in {"open", "closed"} /\ ~Greets(links[l])
        /\ row \in {"active"} \cup Final \/ "mark" \in missed
        /\ row # "none" /\ ~links[l].routes
    <2>1. Relays(l) /\ links[l].server \in {"none", "authenticating", "open", "closing", "closed"}
      BY <1>4 DEF LinkState
    <2> QED
      BY <1>1, <2>1 DEF Relays
  <1>7. 0 \notin Link
    BY DEF Link
  <1>8. \A k \in Link : Relays(k)'
    <2> TAKE k \in Link
    <2>1. CASE k = l
      <3>1. /\ links'[l].server = links[l].server /\ links'[l].task = "none" /\ links'[l].routes
            /\ ~Greets(links'[l]) /\ links'[l].mark = links[l].mark
        BY <1>1, <1>2, <1>5, Zenon
      <3>2. links[l].mark => links[l].server = "closed"
        BY <1>5 DEF Relays
      <3>3. row' = row /\ row # "none" /\ routeSocket' = l
        BY <1>1, <1>5
      <3>4. links[l].server = "open" \/ (links[l].server = "closed" /\ "end" \in missed')
        BY <1>1, <1>5
      <3> QED
        BY <2>1, <3>1, <3>2, <3>3, <3>4 DEF Relays
    <2>2. CASE k # l /\ k = routeSocket
      <3>1. Relays(k) /\ links'[k] = lost(k)
        BY <1>1, <1>4, <2>2
      <3>2. links[k].routes /\ links[k].server \in {"open", "closed"}
        BY <2>2, <3>1 DEF Relays
      <3>3. links'[k].server \in {"closing", "closed"} /\ ~links'[k].routes
            /\ links'[k].task = links[k].task /\ links'[k].mark = links[k].mark
            /\ (Greets(links'[k]) => Greets(links[k]))
        BY <1>3, <3>1, <3>2
      <3>4. links[k].server = "open" => ~links[k].mark
        BY <3>1 DEF Relays
      <3>5. links'[k].server = (IF links[k].server = "open" THEN "closing" ELSE links[k].server)
        BY <1>3, <3>1
      <3> QED
        BY <1>1, <2>2, <3>1, <3>2, <3>3, <3>4, <3>5 DEF Relays
    <2>3. CASE k # l /\ k # routeSocket
      <3>1. Relays(k) /\ links'[k] = links[k]
        BY <1>1, <1>4, <2>3
      <3>2. routeSocket # k /\ routeSocket' # k
        BY <1>1, <2>3
      <3> QED
        BY <1>1, <3>1, <3>2 DEF Relays
    <2> QED
      BY <2>1, <2>2, <2>3
  <1>9. (row # "connector_offline" \/ "mark" \in missed') /\ routeSocket' # 0
    BY <1>1, <1>5, <1>7 DEF Final
  <1> QED
    BY <1>1, <1>8, <1>9 DEF RowFollows

LEMMA RelayDropped ==
    ASSUME links \in [Link -> LinkState], routeSocket \in 0..MaxLinks, Relay, NEW l \in Link, Dropped(l)
    PROVE  Relay'
  <1> DEFINE m == [links[l] EXCEPT !.task = "none", !.routes = FALSE]
  <1>1. /\ links[l].task = "dropped" /\ UNCHANGED <<row, missed>>
        /\ routeSocket' = IF routeSocket = l THEN 0 ELSE routeSocket
        /\ links' = [links EXCEPT ![l].task = "none", ![l].routes = FALSE]
    BY DEF Dropped, rowVars
  <1>2. links'[l] = m /\ \A k \in Link : k # l => links'[k] = links[k]
    BY <1>1
  <1>3. /\ m.server = links[l].server /\ ~m.routes /\ m.task = "none" /\ m.mark = links[l].mark
        /\ Greets(m) => Greets(links[l])
    BY DEF Greets, LinkState
  <1> HIDE DEF m
  <1>4. SUFFICES ASSUME \A k \in Link : Relays(k), RowFollows
                 PROVE  (\A k \in Link : Relays(k)') /\ RowFollows'
    BY <1>1 DEF Relay
  <1>5. \A k \in Link : links'[k].task = "synced" => links[k].task = "synced"
    BY <1>2, <1>3
  <1>6. row \in Final /\ 0 \notin Link
    BY <1>1, <1>4 DEF Relays, Link
  <1>7. \A k \in Link : Relays(k)'
    <2> TAKE k \in Link
    <2>1. CASE k = l
      <3>1. Relays(l) /\ routeSocket' # l
        BY <1>1, <1>4, <1>6
      <3> QED
        BY <1>1, <1>2, <1>3, <1>5, <2>1, <3>1 DEF Relays
    <2>2. CASE k # l
      <3>1. Relays(k) /\ links'[k] = links[k] /\ (routeSocket' = k <=> routeSocket = k)
        BY <1>1, <1>2, <1>4, <1>6, <2>2
      <3> QED
        BY <1>1, <1>5, <3>1 DEF Relays
    <2> QED
      BY <2>1, <2>2
  <1> QED
    BY <1>1, <1>6, <1>7 DEF RowFollows, Final

LEMMA RelayDetaches ==
    ASSUME links \in [Link -> LinkState], routeSocket \in 0..MaxLinks, Relay, NEW l \in Link, Detach(l)
    PROVE  Relay'
  <1> DEFINE m == [links[l] EXCEPT !.server = "closed", !.up = <<>>, !.mark = links[l].routes]
  <1>1. /\ links' = [links EXCEPT ![l].server = "closed", ![l].up = <<>>, ![l].mark = links[l].routes]
        /\ routeSocket' = IF links[l].routes /\ routeSocket = l THEN 0 ELSE routeSocket
        /\ links[l].server \notin {"none", "closed"} /\ row' = row /\ missed' = missed
    BY DEF Detach, EndArrives, rowVars
  <1>2. /\ m.server = "closed" /\ m.routes = links[l].routes /\ m.mark = links[l].routes
        /\ m.task = links[l].task /\ ~Greets(m)
    BY DEF LinkState, Greets
  <1>3. links'[l] = m /\ \A k \in Link : k # l => links'[k] = links[k]
    BY <1>1
  <1> HIDE DEF m
  <1>4. SUFFICES ASSUME \A k \in Link : Relays(k), RowFollows
                 PROVE  (\A k \in Link : Relays(k)') /\ RowFollows'
    BY <1>1 DEF Relay
  <1>6. \A k \in Link : links'[k].task = links[k].task
    BY <1>2, <1>3
  <1>7. 0 \notin Link /\ Relays(l)
    BY <1>4 DEF Link
  <1>8. routeSocket' # l
    BY <1>1, <1>7 DEF Relays
  <1>10. \A k \in Link : Relays(k)'
    <2> TAKE k \in Link
    <2>1. CASE k = l
      BY <1>1, <1>2, <1>3, <1>6, <1>7, <1>8, <2>1 DEF Relays
    <2>2. CASE k # l
      <3>1. /\ Relays(k) /\ links'[k] = links[k] /\ (routeSocket' = k <=> routeSocket = k)
            /\ routeSocket = 0 => routeSocket' = 0
        BY <1>1, <1>3, <1>4, <1>7, <2>2
      <3> QED
        BY <1>1, <3>1 DEF Relays
    <2> QED
      BY <2>1, <2>2
  <1>11. RowFollows'
    <2>1. CASE row = "active" /\ routeSocket' = 0
      <3>1. CASE routeSocket = l /\ links[l].routes
        <4>1. links'[l].mark
          BY <1>2, <1>3, <3>1
        <4> QED
          BY <1>1, <2>1, <4>1 DEF RowFollows
      <3>2. CASE ~(routeSocket = l /\ links[l].routes)
        <4>1. routeSocket = 0
          BY <1>1, <2>1, <3>2
        <4>2. PICK k \in Link : links[k].task = "synced" \/ links[k].mark
          BY <1>4, <2>1, <4>1 DEF RowFollows
        <4>3. links'[k].task = "synced" \/ links'[k].mark
          <5>1. CASE k # l
            BY <1>3, <4>2, <5>1
          <5>2. CASE k = l
            <6>1. ~links[l].mark
              BY <1>1, <1>7 DEF Relays
            <6> QED
              BY <1>6, <4>2, <5>2, <6>1
          <5> QED
            BY <5>1, <5>2
        <4> QED
          BY <1>1, <2>1, <4>3 DEF RowFollows
      <3> QED
        BY <3>1, <3>2
    <2>2. CASE row = "connector_offline"
      BY <1>1, <1>4, <1>6, <2>2 DEF RowFollows
    <2> QED
      BY <1>1, <2>1, <2>2 DEF RowFollows
  <1> QED
    BY <1>10, <1>11

LEMMA RelayMarks ==
    ASSUME links \in [Link -> LinkState], Relay, NEW l \in Link, MarkOffline(l)
    PROVE  Relay'
  <1>1. /\ links[l].mark /\ links' = [links EXCEPT ![l].mark = FALSE] /\ routeSocket' = routeSocket
        /\ row' = IF row = "active" THEN "connector_offline" ELSE row
        /\ missed' = IF row = "active" /\ (routeSocket # 0 \/ Synced # {}) THEN missed \cup {"mark"} ELSE missed
    BY DEF MarkOffline, SetStatus, CanTransition
  <1>2. \A k \in Link : /\ links'[k].server = links[k].server /\ links'[k].routes = links[k].routes
                        /\ links'[k].task = links[k].task /\ Greets(links'[k]) = Greets(links[k])
                        /\ links'[k].mark => links[k].mark
    BY <1>1 DEF Greets, LinkState
  <1>3. missed \subseteq missed' /\ ("end" \in missed' <=> "end" \in missed)
    BY <1>1
  <1>4. row = "active" /\ (routeSocket # 0 \/ \E k \in Link : links[k].task = "synced") => "mark" \in missed'
    BY <1>1 DEF Synced
  <1>5. \A k \in Link : Relays(k)'
    <2> TAKE k \in Link
    <2>1. Relays(k)
      BY DEF Relay
    <2>2. links[k].task = "synced" => row' \in {"active"} \cup Final \/ "mark" \in missed'
      BY <1>1, <1>3, <1>4, <2>1 DEF Relays, Final
    <2>3. (row' = "none" => row = "none") /\ (row \in Final => row' = row)
      BY <1>1 DEF Final
    <2> QED
      BY <1>1, <1>2, <1>3, <2>1, <2>2, <2>3 DEF Relays
  <1>6. RowFollows'
    <2>1. row' # "active"
      BY <1>1
    <2>2. CASE row = "active"
      BY <1>1, <1>2, <1>4, <2>1, <2>2 DEF RowFollows
    <2>3. CASE row # "active"
      BY <1>1, <1>2, <1>3, <2>1, <2>3 DEF RowFollows, Relay
    <2> QED
      BY <2>2, <2>3
  <1> QED
    BY <1>5, <1>6 DEF Relay

\* What a synchronization does to the sockets.
LEMMA SyncTouches ==
    ASSUME links \in [Link -> LinkState], NEW l \in Link, Sync(l), NEW k \in Link
    PROVE  /\ links'[k].client = links[k].client /\ links'[k].up = links[k].up
           /\ links'[k].task \in {links[k].task, "none", "synced"}
  <1>1. ASSUME NEW m, links' = [links EXCEPT ![l] = m], m.client = links[l].client, m.up = links[l].up,
               m.task \in {"none", "synced"}
        PROVE  /\ links'[k].client = links[k].client /\ links'[k].up = links[k].up
               /\ links'[k].task \in {links[k].task, "none", "synced"}
    BY <1>1
  <1>2. CASE row \in Final
    <2> DEFINE m == Closing([links[l] EXCEPT !.task = "none"])
    <2>1. links' = [links EXCEPT ![l] = m]
      BY <1>2 DEF Sync
    <2>2. m.client = links[l].client /\ m.up = links[l].up /\ m.task = "none"
      BY DEF Closing, LinkState
    <2> HIDE DEF m
    <2> QED
      BY <1>1, <2>1, <2>2
  <1>3. CASE row \notin Final
    <2> DEFINE m == [links[l] EXCEPT !.task = "synced"]
    <2>1. links' = [links EXCEPT ![l] = m]
      BY <1>3 DEF Sync
    <2>2. m.client = links[l].client /\ m.up = links[l].up /\ m.task = "synced"
      BY DEF LinkState
    <2> HIDE DEF m
    <2> QED
      BY <1>1, <2>1, <2>2
  <1> QED
    BY <1>2, <1>3

LEMMA RelayStep ==
    ASSUME TypeOK, Conversation, StopIsFinal, Relay, [Next]_vars
    PROVE  Relay'
  <1> USE PreviewAssumption DEF TypeOK, Conversation, Says, StopIsFinal, Relay, Relays, RowFollows, Greets, Final, rowVars, processVars, stopVars, browserVars
  <1>0. links \in [Link -> LinkState] /\ sock \in 0..MaxLinks /\ routeSocket \in 0..MaxLinks
    BY DEF LinkState
  <1>1. CASE CommandStops
    BY <1>0, <1>1, StopsQuietly, QuietRelay DEF CommandStops, ProcessStops
  <1>2. CASE ProcessDies
    <2>1. \A k \in Link : Quiet(links[k], links'[k])
      BY <1>0, <1>2, DiesQuietly
    <2> QED
      BY <1>2, <2>1, QuietRelay DEF ProcessDies
  <1>3. CASE RouteExpires
    BY <1>3 DEF RouteExpires
  <1>4. CASE SessionEnds
    BY <1>4 DEF SessionEnds
  <1>5. CASE PermissionEnds
    BY <1>5 DEF PermissionEnds
  <1>6. CASE ListPreviews
    BY <1>6 DEF ListPreviews, Expired
  <1>7. CASE StopCommits
    BY <1>7 DEF StopCommits
  <1>8. CASE StopNotifies
    BY <1>0, <1>8, RelayStopped
  <1>9. CASE Launch
    BY <1>9 DEF Launch, Expired, Authorized
  <1>10. CASE TicketLapses
    BY <1>10 DEF TicketLapses
  <1>11. ASSUME NEW l \in Link, Dial(l)  PROVE Relay'
    BY <1>0, <1>11, RelayDials
  <1>12. ASSUME NEW l \in Link, ReceiveWelcome(l)  PROVE Relay'
    BY <1>12, SMTT(40) DEF ReceiveWelcome
  <1>13. ASSUME NEW l \in Link, ReceiveRouteStop(l)  PROVE Relay'
    BY <1>0, <1>13, StopsQuietly, QuietRelay DEF ReceiveRouteStop, ProcessStops
  <1>14. ASSUME NEW l \in Link, LinkBreaks(l)  PROVE Relay'
    <2>1. \A k \in Link : Quiet(links[k], links'[k])
      BY <1>0, <1>14, BreaksQuietly
    <2> QED
      BY <1>14, <2>1, QuietRelay DEF LinkBreaks
  <1>15. ASSUME NEW l \in Link, ClientSeesClose(l)  PROVE Relay'
    <2>1. links' = [links EXCEPT ![l].client = FALSE, ![l].down = <<>>] /\ UNCHANGED <<row, missed, routeSocket>>
      BY <1>15 DEF ClientSeesClose
    <2>2. \A k \in Link : Quiet(links[k], links'[k])
      BY <2>1 DEF Quiet, Greets, LinkState
    <2> QED
      BY <2>1, <2>2, QuietRelay
  <1>16. ASSUME NEW l \in Link, Attach(l)  PROVE Relay'
    BY <1>16 DEF Attach
  <1>17. ASSUME NEW l \in Link, Handle(l)  PROVE Relay'
    BY <1>0, <1>17, RelayHandles
  <1>18. ASSUME NEW l \in Link, Sync(l)  PROVE Relay'
    <2>1. /\ links[l].task = "sync" /\ routeSocket' = routeSocket
          /\ UNCHANGED stopping
      BY <1>18 DEF Sync
    <2>2. CASE row \in Final
      <3> DEFINE m == Closing([links[l] EXCEPT !.task = "none"])
      <3>1. links' = [links EXCEPT ![l] = m] /\ row' = row /\ missed' = missed
        BY <1>18, <2>2 DEF Sync
      <3>2. /\ m.server = (IF links[l].server = "open" THEN "closing" ELSE links[l].server)
            /\ m.routes = links[l].routes /\ m.task = "none" /\ m.mark = links[l].mark
            /\ Greets(m) => Greets(links[l])
        BY DEF Closing, Greets, LinkState
      <3> HIDE DEF m
      <3>3. links'[l] = m /\ \A k \in Link : k # l => links'[k] = links[k]
        BY <3>1
      <3> HIDE DEF Greets
      <3> QED
        BY <2>1, <2>2, <3>1, <3>2, <3>3
    <2>3. CASE row \notin Final
      <3> DEFINE m == [links[l] EXCEPT !.task = "synced"]
      <3>1. links' = [links EXCEPT ![l] = m] /\ row' = "active" /\ ("end" \in missed' <=> "end" \in missed)
        BY <1>18, <2>3 DEF Sync
      <3>2. /\ m.server = links[l].server
            /\ m.routes = links[l].routes /\ m.task = "synced" /\ m.mark = links[l].mark
            /\ Greets(m) <=> Greets(links[l])
        BY DEF Greets, LinkState
      <3> HIDE DEF m
      <3>3. links'[l] = m /\ \A k \in Link : k # l => links'[k] = links[k]
        BY <3>1
      <3>5. \A k \in Link : links'[k].task = "dropped" => links[k].task = "dropped"
        <4> TAKE k \in Link
        <4>1. CASE k = l
          BY <3>2, <3>3, <4>1
        <4>2. CASE k # l
          BY <3>3, <4>2
        <4> QED
          BY <4>1, <4>2
      <3> HIDE DEF Greets
      <3> QED
        BY <2>1, <2>3, <3>1, <3>2, <3>3, <3>5
    <2> QED
      BY <2>2, <2>3
  <1>19. ASSUME NEW l \in Link, Register(l)  PROVE Relay'
    BY <1>0, <1>19, RelayRegisters
  <1>20. ASSUME NEW l \in Link, Drop(l)  PROVE Relay'
    BY <1>20 DEF Drop, SetStatus, CanTransition
  <1>21. ASSUME NEW l \in Link, Dropped(l)  PROVE Relay'
    BY <1>0, <1>21, RelayDropped
  <1>22. ASSUME NEW l \in Link, Detach(l)  PROVE Relay'
    BY <1>0, <1>22, RelayDetaches
  <1>23. ASSUME NEW l \in Link, MarkOffline(l)  PROVE Relay'
    BY <1>0, <1>23, RelayMarks
  <1>24. ASSUME NEW p \in Post, ConsumeTicket(p)  PROVE Relay'
    BY <1>24 DEF ConsumeTicket, TicketUsable
  <1>25. ASSUME NEW p \in Post, RedeemSession(p)  PROVE Relay'
    BY <1>25 DEF RedeemSession
  <1>26. ASSUME NEW p \in Post, RedeemRow(p)  PROVE Relay'
    BY <1>26 DEF RedeemRow, Expired, Authorized
  <1>27. ASSUME NEW q \in Request, RequestComes(q)  PROVE Relay'
    BY <1>27 DEF RequestComes, At, CookieValid
  <1>28. ASSUME NEW q \in Request, RequestSession(q)  PROVE Relay'
    BY <1>28 DEF RequestSession, At, Proceeds
  <1>29. ASSUME NEW q \in Request, RequestRow(q)  PROVE Relay'
    BY <1>29 DEF RequestRow, At, Proceeds, Expired, Authorized
  <1>30. ASSUME NEW q \in Request, RequestConnects(q)  PROVE Relay'
    BY <1>30 DEF RequestConnects, At
  <1>31. ASSUME NEW q \in Request, Admit(q)  PROVE Relay'
    BY <1>31 DEF Admit, At, Proceeds, AccessIsActive
  <1>32. ASSUME NEW q \in Request, RequestEnds(q)  PROVE Relay'
    BY <1>32 DEF RequestEnds, At, Proceeds
  <1>33. CASE UNCHANGED vars
    BY <1>33 DEF vars
  <1> QED
    BY <1>1, <1>2, <1>3, <1>4, <1>5, <1>6, <1>7, <1>8, <1>9, <1>10, <1>11, <1>12, <1>13, <1>14,
       <1>15, <1>16, <1>17, <1>18, <1>19, <1>20, <1>21, <1>22, <1>23, <1>24, <1>25, <1>26, <1>27, <1>28, <1>29, <1>30, <1>31, <1>32, <1>33
       DEF Next

LEMMA MissedStep ==
    ASSUME missed \subseteq Misses, [Next]_vars
    PROVE  missed' \subseteq Misses
  <1> USE DEF Misses
  <1>1. CASE CommandStops
    BY <1>1 DEF CommandStops, ProcessStops
  <1>2. CASE ProcessDies
    BY <1>2 DEF ProcessDies
  <1>3. CASE RouteExpires
    BY <1>3 DEF RouteExpires
  <1>4. CASE SessionEnds
    BY <1>4 DEF SessionEnds
  <1>5. CASE PermissionEnds
    BY <1>5 DEF PermissionEnds
  <1>6. CASE ListPreviews
    BY <1>6 DEF ListPreviews
  <1>7. CASE StopCommits
    BY <1>7 DEF StopCommits
  <1>8. CASE StopNotifies
    BY <1>8 DEF StopNotifies
  <1>9. CASE Launch
    BY <1>9 DEF Launch
  <1>10. CASE TicketLapses
    BY <1>10 DEF TicketLapses
  <1>11. ASSUME NEW l \in Link, Dial(l)  PROVE missed' \subseteq Misses
    BY <1>11 DEF Dial
  <1>12. ASSUME NEW l \in Link, ReceiveWelcome(l)  PROVE missed' \subseteq Misses
    BY <1>12 DEF ReceiveWelcome
  <1>13. ASSUME NEW l \in Link, ReceiveRouteStop(l)  PROVE missed' \subseteq Misses
    BY <1>13 DEF ReceiveRouteStop, ProcessStops
  <1>14. ASSUME NEW l \in Link, LinkBreaks(l)  PROVE missed' \subseteq Misses
    BY <1>14 DEF LinkBreaks
  <1>15. ASSUME NEW l \in Link, ClientSeesClose(l)  PROVE missed' \subseteq Misses
    BY <1>15 DEF ClientSeesClose
  <1>16. ASSUME NEW l \in Link, Attach(l)  PROVE missed' \subseteq Misses
    BY <1>16 DEF Attach
  <1>17. ASSUME NEW l \in Link, Handle(l)  PROVE missed' \subseteq Misses
    BY <1>17 DEF Handle
  <1>18. ASSUME NEW l \in Link, Sync(l)  PROVE missed' \subseteq Misses
    BY <1>18 DEF Sync
  <1>19. ASSUME NEW l \in Link, Register(l)  PROVE missed' \subseteq Misses
    BY <1>19 DEF Register
  <1>20. ASSUME NEW l \in Link, Drop(l)  PROVE missed' \subseteq Misses
    BY <1>20 DEF Drop
  <1>21. ASSUME NEW l \in Link, Dropped(l)  PROVE missed' \subseteq Misses
    BY <1>21 DEF Dropped
  <1>22. ASSUME NEW l \in Link, Detach(l)  PROVE missed' \subseteq Misses
    BY <1>22 DEF Detach
  <1>23. ASSUME NEW l \in Link, MarkOffline(l)  PROVE missed' \subseteq Misses
    BY <1>23 DEF MarkOffline
  <1>24. ASSUME NEW p \in Post, ConsumeTicket(p)  PROVE missed' \subseteq Misses
    BY <1>24 DEF ConsumeTicket
  <1>25. ASSUME NEW p \in Post, RedeemSession(p)  PROVE missed' \subseteq Misses
    BY <1>25 DEF RedeemSession
  <1>26. ASSUME NEW p \in Post, RedeemRow(p)  PROVE missed' \subseteq Misses
    BY <1>26 DEF RedeemRow
  <1>27. ASSUME NEW q \in Request, RequestComes(q)  PROVE missed' \subseteq Misses
    BY <1>27 DEF RequestComes
  <1>28. ASSUME NEW q \in Request, RequestSession(q)  PROVE missed' \subseteq Misses
    BY <1>28 DEF RequestSession
  <1>29. ASSUME NEW q \in Request, RequestRow(q)  PROVE missed' \subseteq Misses
    BY <1>29 DEF RequestRow
  <1>30. ASSUME NEW q \in Request, RequestConnects(q)  PROVE missed' \subseteq Misses
    BY <1>30 DEF RequestConnects
  <1>31. ASSUME NEW q \in Request, Admit(q)  PROVE missed' \subseteq Misses
    BY <1>31 DEF Admit
  <1>32. ASSUME NEW q \in Request, RequestEnds(q)  PROVE missed' \subseteq Misses
    BY <1>32 DEF RequestEnds
  <1>33. CASE UNCHANGED vars
    BY <1>33 DEF vars
  <1> QED
    BY <1>1, <1>2, <1>3, <1>4, <1>5, <1>6, <1>7, <1>8, <1>9, <1>10, <1>11, <1>12, <1>13, <1>14,
       <1>15, <1>16, <1>17, <1>18, <1>19, <1>20, <1>21, <1>22, <1>23, <1>24, <1>25, <1>26, <1>27, <1>28, <1>29, <1>30, <1>31, <1>32, <1>33
       DEF Next

LEMMA StopsLeaving ==
    ASSUME links \in [Link -> LinkState], Leaving, ProcessStops
    PROVE  Leaving'
  <1>1. process' = "finished" /\ sock' = 0
    BY DEF ProcessStops
  <1>2. \A k \in Link : ~links'[k].client
    BY DEF ProcessStops, Leaving, LinkState, Link
  <1> QED
    BY <1>1, <1>2 DEF Leaving

\* A socket does not come to life, and takes no leave, in the step.
Parted(k, m) ==
    /\ m.client => k.client
    /\ m.up \in {k.up, <<>>}
    /\ m.task \in {"drop", "dropped"} => k.task \in {"drop", "dropped"}

LEMMA LeavesQuietly ==
    ASSUME Leaving, UNCHANGED <<process, sock>>, \A k \in Link : Parted(links[k], links'[k])
    PROVE  Leaving'
  <1>1. Len(<<>>) = 0
    BY EmptySeq
  <1>2. \A k \in Link : Parts(links'[k]) => Parts(links[k])
    BY <1>1 DEF Parts, Parted
  <1> QED
    BY <1>2 DEF Leaving, Parted

LEMMA LeavingStep ==
    ASSUME links \in [Link -> LinkState], Leaving, [Next]_vars
    PROVE  Leaving'
  <1>1. CASE CommandStops
    BY <1>1, StopsLeaving DEF CommandStops
  <1>2. CASE ProcessDies
    <2>1. process' \in {process, "finished"} /\ sock' = 0
          /\ \A k \in Link : /\ links'[k].client => links[k].client /\ k # sock
                             /\ links'[k].task = links[k].task
                             /\ links'[k].up \in {links[k].up, <<>>}
      BY <1>2 DEF ProcessDies, LinkState, Link
    <2>2. Len(<<>>) = 0
      BY EmptySeq
    <2>3. \A k \in Link : Parts(links'[k]) => Parts(links[k])
      BY <2>1, <2>2 DEF Parts
    <2> QED
      BY <1>2, <2>1, <2>3 DEF ProcessDies, Leaving, Link
  <1>3. CASE RouteExpires
    BY <1>3 DEF RouteExpires, Leaving, processVars
  <1>4. CASE SessionEnds
    BY <1>4 DEF SessionEnds, Leaving, processVars
  <1>5. CASE PermissionEnds
    BY <1>5 DEF PermissionEnds, Leaving, processVars
  <1>6. CASE ListPreviews
    BY <1>6 DEF ListPreviews, Leaving, processVars
  <1>7. CASE StopCommits
    BY <1>7 DEF StopCommits, Leaving, processVars
  <1>8. CASE StopNotifies
    <2>1. CASE routeSocket = 0
      BY <1>8, <2>1, LeavesQuietly DEF StopNotifies, processVars, Parted
    <2>2. CASE routeSocket # 0
      <3>1. links' = [links EXCEPT ![routeSocket] = Sending([@ EXCEPT !.routes = FALSE], "route.stop")]
        BY <1>8, <2>2 DEF StopNotifies
      <3>2. \A k \in Link : Parted(links[k], links'[k])
        BY <3>1 DEF Parted, LinkState, Sending
      <3> QED
        BY <1>8, <3>2, LeavesQuietly DEF StopNotifies, processVars
    <2> QED
      BY <2>1, <2>2
  <1>9. CASE Launch
    BY <1>9 DEF Launch, Leaving, processVars
  <1>10. CASE TicketLapses
    BY <1>10 DEF TicketLapses, Leaving, processVars
  <1>11. ASSUME NEW l \in Link, Dial(l)  PROVE Leaving'
    <2>1. /\ process = "running" /\ process' = process /\ sock = 0 /\ sock' = l
          /\ links' = [links EXCEPT ![l] = NewLink]
      BY <1>11 DEF Dial, Reconnects
    <2>2. NewLink.task = "none" /\ NewLink.up = <<"hello">> /\ Len(<<"hello">>) = 1 /\ <<"hello">>[1] = "hello"
      BY DEF NewLink
    <2>3. ~Parts(NewLink)
      BY <2>2 DEF Parts
    <2>4. links'[l] = NewLink /\ \A k \in Link : k # l => links'[k] = links[k]
      BY <2>1
    <2>5. \A k \in Link : ~links[k].client /\ ~Parts(links[k])
      BY <2>1 DEF Leaving, Link
    <2> QED
      BY <2>1, <2>3, <2>4, <2>5 DEF Leaving
  <1>12. ASSUME NEW l \in Link, ReceiveWelcome(l)  PROVE Leaving'
    <2>1. \A k \in Link : Parted(links[k], links'[k])
      BY <1>12 DEF ReceiveWelcome, Parted, LinkState
    <2> QED
      BY <1>12, <2>1, LeavesQuietly DEF ReceiveWelcome, processVars
  <1>13. ASSUME NEW l \in Link, ReceiveRouteStop(l)  PROVE Leaving'
    BY <1>13, StopsLeaving DEF ReceiveRouteStop
  <1>14. ASSUME NEW l \in Link, LinkBreaks(l)  PROVE Leaving'
    <2>1. process' \in {process, "finished"} /\ sock' = 0
          /\ \A k \in Link : /\ links'[k].client => links[k].client /\ k # l
                             /\ links'[k].task = links[k].task
                             /\ links'[k].up \in {links[k].up, <<>>}
      BY <1>14 DEF LinkBreaks, LinkState, Link
    <2>2. Len(<<>>) = 0
      BY EmptySeq
    <2>3. \A k \in Link : Parts(links'[k]) => Parts(links[k])
      BY <2>1, <2>2 DEF Parts
    <2> QED
      BY <1>14, <2>1, <2>3 DEF LinkBreaks, Leaving, Link
  <1>15. ASSUME NEW l \in Link, ClientSeesClose(l)  PROVE Leaving'
    <2>1. process' \in {process, "finished"} /\ sock' = 0
          /\ \A k \in Link : /\ links'[k].client => links[k].client /\ k # l
                             /\ links'[k].task = links[k].task
                             /\ links'[k].up \in {links[k].up, <<>>}
      BY <1>15 DEF ClientSeesClose, LinkState, Link
    <2>2. Len(<<>>) = 0
      BY EmptySeq
    <2>3. \A k \in Link : Parts(links'[k]) => Parts(links[k])
      BY <2>1, <2>2 DEF Parts
    <2> QED
      BY <1>15, <2>1, <2>3 DEF ClientSeesClose, Leaving, Link
  <1>16. ASSUME NEW l \in Link, Attach(l)  PROVE Leaving'
    <2>1. \A k \in Link : Parted(links[k], links'[k])
      BY <1>16 DEF Attach, Parted, LinkState
    <2> QED
      BY <1>16, <2>1, LeavesQuietly DEF Attach, processVars
  <1>17. ASSUME NEW l \in Link, Handle(l)  PROVE Leaving'
    <2>1. /\ UNCHANGED <<process, sock>> /\ links[l].up # <<>>
          /\ links'[l].up = Tail(links[l].up) /\ links'[l].client = links[l].client
          /\ links'[l].task = "drop" => Head(links[l].up) # "hello"
          /\ links'[l].task # "dropped"
          /\ \A k \in Link : k # l => links'[k] = links[k]
      BY <1>17 DEF Handle, Attached, Refused, Closing, LinkState, processVars
    <2>2. links[l].up \in Seq({"hello", "empty"})
      BY DEF LinkState
    <2>3. \A i \in 1..Len(Tail(links[l].up)) : i + 1 \in 1..Len(links[l].up) /\ Tail(links[l].up)[i] = links[l].up[i + 1]
      BY <2>1, <2>2
    <2>4. Head(links[l].up) = links[l].up[1] /\ 1 \in 1..Len(links[l].up) /\ links[l].up[1] \in {"hello", "empty"}
      BY <2>1, <2>2
    <2>5. Parts(links'[l]) => Parts(links[l])
      BY <2>1, <2>3, <2>4 DEF Parts
    <2> QED
      BY <2>1, <2>5 DEF Leaving
  <1>18. ASSUME NEW l \in Link, Sync(l)  PROVE Leaving'
    <2>1. \A k \in Link : Parted(links[k], links'[k])
      BY <1>18, SyncTouches DEF Parted
    <2> QED
      BY <1>18, <2>1, LeavesQuietly DEF Sync, processVars
  <1>19. ASSUME NEW l \in Link, Register(l)  PROVE Leaving'
    <2>1. \A k \in Link : Parted(links[k], links'[k])
      BY <1>19 DEF Register, Parted, LinkState, Closing, Sending
    <2> QED
      BY <1>19, <2>1, LeavesQuietly DEF Register, processVars
  <1>20. ASSUME NEW l \in Link, Drop(l)  PROVE Leaving'
    <2>1. \A k \in Link : Parted(links[k], links'[k])
      BY <1>20 DEF Drop, Parted, LinkState
    <2> QED
      BY <1>20, <2>1, LeavesQuietly DEF Drop, processVars
  <1>21. ASSUME NEW l \in Link, Dropped(l)  PROVE Leaving'
    <2>1. \A k \in Link : Parted(links[k], links'[k])
      BY <1>21 DEF Dropped, Parted, LinkState
    <2> QED
      BY <1>21, <2>1, LeavesQuietly DEF Dropped, processVars
  <1>22. ASSUME NEW l \in Link, Detach(l)  PROVE Leaving'
    <2>1. \A k \in Link : Parted(links[k], links'[k])
      BY <1>22 DEF Detach, Parted, LinkState
    <2> QED
      BY <1>22, <2>1, LeavesQuietly DEF Detach, processVars
  <1>23. ASSUME NEW l \in Link, MarkOffline(l)  PROVE Leaving'
    <2>1. \A k \in Link : Parted(links[k], links'[k])
      BY <1>23 DEF MarkOffline, Parted, LinkState
    <2> QED
      BY <1>23, <2>1, LeavesQuietly DEF MarkOffline, processVars
  <1>24. ASSUME NEW p \in Post, ConsumeTicket(p)  PROVE Leaving'
    BY <1>24 DEF ConsumeTicket, Leaving, processVars
  <1>25. ASSUME NEW p \in Post, RedeemSession(p)  PROVE Leaving'
    BY <1>25 DEF RedeemSession, Leaving, processVars
  <1>26. ASSUME NEW p \in Post, RedeemRow(p)  PROVE Leaving'
    BY <1>26 DEF RedeemRow, Leaving, processVars
  <1>27. ASSUME NEW q \in Request, RequestComes(q)  PROVE Leaving'
    BY <1>27 DEF RequestComes, Leaving, processVars
  <1>28. ASSUME NEW q \in Request, RequestSession(q)  PROVE Leaving'
    BY <1>28 DEF RequestSession, Leaving, processVars
  <1>29. ASSUME NEW q \in Request, RequestRow(q)  PROVE Leaving'
    BY <1>29 DEF RequestRow, Leaving, processVars
  <1>30. ASSUME NEW q \in Request, RequestConnects(q)  PROVE Leaving'
    BY <1>30 DEF RequestConnects, Leaving, processVars
  <1>31. ASSUME NEW q \in Request, Admit(q)  PROVE Leaving'
    BY <1>31 DEF Admit, Leaving, processVars
  <1>32. ASSUME NEW q \in Request, RequestEnds(q)  PROVE Leaving'
    BY <1>32 DEF RequestEnds, Leaving, processVars
  <1>33. CASE UNCHANGED vars
    BY <1>33 DEF vars, Leaving, processVars
  <1> QED
    BY <1>1, <1>2, <1>3, <1>4, <1>5, <1>6, <1>7, <1>8, <1>9, <1>10, <1>11, <1>12, <1>13, <1>14,
       <1>15, <1>16, <1>17, <1>18, <1>19, <1>20, <1>21, <1>22, <1>23, <1>24, <1>25, <1>26, <1>27, <1>28, <1>29, <1>30, <1>31, <1>32, <1>33
       DEF Next

LEMMA HeardQuietly ==
    ASSUME StopHeard, routeSocket \in 0..MaxLinks, UNCHANGED <<row, stopping, missed, routeSocket>>,
           \A k \in Link : links'[k].client => links[k].client
    PROVE  StopHeard'
  <1>1. routeSocket # 0 => routeSocket \in Link
    BY PreviewAssumption DEF Link
  <1> QED
    BY <1>1 DEF StopHeard

LEMMA HeardStep ==
    ASSUME links \in [Link -> LinkState], routeSocket \in 0..MaxLinks, Leaving, Relay, StopHeard, [Next]_vars
    PROVE  StopHeard'
  <1>1. CASE CommandStops
    <2>1. \A k \in Link : links'[k].client => links[k].client
      BY <1>1 DEF CommandStops, ProcessStops, LinkState, Link
    <2> QED
      BY <1>1, <2>1, HeardQuietly DEF CommandStops, rowVars, stopVars
  <1>2. CASE ProcessDies
    <2>1. \A k \in Link : links'[k].client => links[k].client
      BY <1>2 DEF ProcessDies, LinkState, Link
    <2> QED
      BY <1>2, <2>1, HeardQuietly DEF ProcessDies, rowVars, stopVars
  <1>3. CASE RouteExpires
    BY <1>3, HeardQuietly DEF RouteExpires, rowVars, stopVars
  <1>4. CASE SessionEnds
    BY <1>4, HeardQuietly DEF SessionEnds, rowVars, stopVars
  <1>5. CASE PermissionEnds
    BY <1>5, HeardQuietly DEF PermissionEnds, rowVars, stopVars
  <1>6. CASE ListPreviews
    <2>1. (row' = "stopped" => row = "stopped") /\ UNCHANGED <<stopping, missed, routeSocket, links>>
      BY <1>6 DEF ListPreviews, Expired, stopVars
    <2> QED
      BY <2>1 DEF StopHeard
  <1>7. CASE StopCommits
    BY <1>7 DEF StopCommits, StopHeard
  <1>8. CASE StopNotifies
    BY <1>8 DEF StopNotifies, StopHeard
  <1>9. CASE Launch
    BY <1>9, HeardQuietly DEF Launch, rowVars, stopVars
  <1>10. CASE TicketLapses
    BY <1>10, HeardQuietly DEF TicketLapses, rowVars, stopVars
  <1>11. ASSUME NEW l \in Link, Dial(l)  PROVE StopHeard'
    <2>1. /\ links[l].server = "none" /\ links' = [links EXCEPT ![l] = NewLink]
          /\ UNCHANGED <<row, stopping, missed, routeSocket>>
      BY <1>11 DEF Dial, rowVars, stopVars
    <2>2. routeSocket # l
      BY <2>1 DEF Relay, Relays
    <2>3. routeSocket # 0 => routeSocket \in Link
      BY PreviewAssumption DEF Link
    <2>4. \A k \in Link : k # l => links'[k] = links[k]
      BY <2>1
    <2> QED
      BY <2>1, <2>2, <2>3, <2>4 DEF StopHeard
  <1>12. ASSUME NEW l \in Link, ReceiveWelcome(l)  PROVE StopHeard'
    <2>1. \A k \in Link : links'[k].client => links[k].client
      BY <1>12 DEF ReceiveWelcome, LinkState
    <2> QED
      BY <1>12, <2>1, HeardQuietly DEF ReceiveWelcome, rowVars, stopVars
  <1>13. ASSUME NEW l \in Link, ReceiveRouteStop(l)  PROVE StopHeard'
    <2>1. \A k \in Link : links'[k].client => links[k].client
      BY <1>13 DEF ReceiveRouteStop, ProcessStops, LinkState, Link
    <2> QED
      BY <1>13, <2>1, HeardQuietly DEF ReceiveRouteStop, rowVars, stopVars
  <1>14. ASSUME NEW l \in Link, LinkBreaks(l)  PROVE StopHeard'
    <2>1. \A k \in Link : links'[k].client => links[k].client
      BY <1>14 DEF LinkBreaks, LinkState
    <2> QED
      BY <1>14, <2>1, HeardQuietly DEF LinkBreaks, rowVars, stopVars
  <1>15. ASSUME NEW l \in Link, ClientSeesClose(l)  PROVE StopHeard'
    <2>1. \A k \in Link : links'[k].client => links[k].client
      BY <1>15 DEF ClientSeesClose, LinkState
    <2> QED
      BY <1>15, <2>1, HeardQuietly DEF ClientSeesClose, rowVars, stopVars
  <1>16. ASSUME NEW l \in Link, Attach(l)  PROVE StopHeard'
    <2>1. \A k \in Link : links'[k].client => links[k].client
      BY <1>16 DEF Attach, LinkState
    <2> QED
      BY <1>16, <2>1, HeardQuietly DEF Attach, rowVars, stopVars
  <1>17. ASSUME NEW l \in Link, Handle(l)  PROVE StopHeard'
    <2>1. \A k \in Link : links'[k].client => links[k].client
      BY <1>17 DEF Handle, LinkState, Attached, Refused, Closing
    <2> QED
      BY <1>17, <2>1, HeardQuietly DEF Handle, rowVars, stopVars
  <1>18. ASSUME NEW l \in Link, Sync(l)  PROVE StopHeard'
    <2>1. row' = "active" \/ (row' = row /\ missed' = missed)
      BY <1>18 DEF Sync
    <2>2. (\A k \in Link : links'[k].client => links[k].client) /\ UNCHANGED <<stopping, routeSocket>>
      BY <1>18, SyncTouches DEF Sync, stopVars
    <2> QED
      BY <2>1, <2>2, HeardQuietly DEF StopHeard
  <1>19. ASSUME NEW l \in Link, Register(l)  PROVE StopHeard'
    <2>1. row' = row /\ (row \in Final => "stop" \in missed')
      BY <1>19 DEF Register, rowVars
    <2> QED
      BY <2>1 DEF StopHeard, Final
  <1>20. ASSUME NEW l \in Link, Drop(l)  PROVE StopHeard'
    <2>1. process = "finished"
      BY <1>20 DEF Drop, Leaving, Parts
    <2>2. \A k \in Link : ~links[k].client
      BY <2>1 DEF Leaving, Link
    <2>3. routeSocket' = routeSocket /\ \A k \in Link : links'[k].client = links[k].client
      BY <1>20 DEF Drop, LinkState
    <2>4. routeSocket # 0 => routeSocket \in Link
      BY PreviewAssumption DEF Link
    <2> QED
      BY <2>2, <2>3, <2>4 DEF StopHeard
  <1>21. ASSUME NEW l \in Link, Dropped(l)  PROVE StopHeard'
    <2>1. /\ \A k \in Link : links'[k].client = links[k].client
          /\ routeSocket' \in {routeSocket, 0} /\ UNCHANGED <<row, stopping, missed>>
      BY <1>21 DEF Dropped, LinkState, rowVars, stopVars
    <2>2. routeSocket # 0 => routeSocket \in Link
      BY PreviewAssumption DEF Link
    <2> QED
      BY <2>1, <2>2 DEF StopHeard
  <1>22. ASSUME NEW l \in Link, Detach(l)  PROVE StopHeard'
    <2>1. /\ \A k \in Link : links'[k].client = links[k].client
          /\ routeSocket' \in {routeSocket, 0} /\ UNCHANGED <<row, stopping, missed>>
      BY <1>22 DEF Detach, LinkState, rowVars, stopVars
    <2>2. routeSocket # 0 => routeSocket \in Link
      BY PreviewAssumption DEF Link
    <2> QED
      BY <2>1, <2>2 DEF StopHeard
  <1>23. ASSUME NEW l \in Link, MarkOffline(l)  PROVE StopHeard'
    <2>1. /\ \A k \in Link : links'[k].client = links[k].client
          /\ UNCHANGED <<routeSocket, stopping>> /\ (row' = "stopped" => row = "stopped")
      BY <1>23 DEF MarkOffline, LinkState, SetStatus, CanTransition, stopVars
    <2>2. missed' \in {missed, missed \cup {"mark"}}
      BY <1>23 DEF MarkOffline
    <2>3. {"end", "stop"} \cap missed' = {"end", "stop"} \cap missed
      BY <2>2
    <2>4. routeSocket # 0 => routeSocket \in Link
      BY PreviewAssumption DEF Link
    <2> QED
      BY <2>1, <2>3, <2>4 DEF StopHeard
  <1>24. ASSUME NEW p \in Post, ConsumeTicket(p)  PROVE StopHeard'
    BY <1>24, HeardQuietly DEF ConsumeTicket, rowVars, stopVars
  <1>25. ASSUME NEW p \in Post, RedeemSession(p)  PROVE StopHeard'
    BY <1>25, HeardQuietly DEF RedeemSession, rowVars, stopVars
  <1>26. ASSUME NEW p \in Post, RedeemRow(p)  PROVE StopHeard'
    BY <1>26, HeardQuietly DEF RedeemRow, rowVars, stopVars
  <1>27. ASSUME NEW q \in Request, RequestComes(q)  PROVE StopHeard'
    BY <1>27, HeardQuietly DEF RequestComes, rowVars, stopVars
  <1>28. ASSUME NEW q \in Request, RequestSession(q)  PROVE StopHeard'
    BY <1>28, HeardQuietly DEF RequestSession, rowVars, stopVars
  <1>29. ASSUME NEW q \in Request, RequestRow(q)  PROVE StopHeard'
    BY <1>29, HeardQuietly DEF RequestRow, rowVars, stopVars
  <1>30. ASSUME NEW q \in Request, RequestConnects(q)  PROVE StopHeard'
    BY <1>30, HeardQuietly DEF RequestConnects, rowVars, stopVars
  <1>31. ASSUME NEW q \in Request, Admit(q)  PROVE StopHeard'
    BY <1>31, HeardQuietly DEF Admit, rowVars, stopVars
  <1>32. ASSUME NEW q \in Request, RequestEnds(q)  PROVE StopHeard'
    BY <1>32, HeardQuietly DEF RequestEnds, rowVars, stopVars
  <1>33. CASE UNCHANGED vars
    BY <1>33, HeardQuietly DEF vars, rowVars, stopVars
  <1> QED
    BY <1>1, <1>2, <1>3, <1>4, <1>5, <1>6, <1>7, <1>8, <1>9, <1>10, <1>11, <1>12, <1>13, <1>14,
       <1>15, <1>16, <1>17, <1>18, <1>19, <1>20, <1>21, <1>22, <1>23, <1>24, <1>25, <1>26, <1>27, <1>28, <1>29, <1>30, <1>31, <1>32, <1>33
       DEF Next

LEMMA AccessInvHolds == Spec => []AccessInv
  <1>1. AccessInv /\ [Next]_vars => AccessInv'
    <2> SUFFICES ASSUME AccessInv, [Next]_vars  PROVE AccessInv'
      OBVIOUS
    <2> USE DEF AccessInv
    <2>1. links \in [Link -> LinkState] /\ sock \in 0..MaxLinks /\ routeSocket \in 0..MaxLinks
      BY DEF TypeOK, LinkState
    <2>2. TypeOK'
      BY <2>1, LinksStep, RestStep, MissedStep DEF TypeOK, Rest, LinkState
    <2> QED
      BY <2>1, <2>2, TicketStep, DeniedStep, ConversationStep, WaitsStep, CarriedStep, StopStep, RelayStep,
         LeavingStep, HeardStep
  <1> QED
    BY InitAccess, <1>1, PTL DEF Spec

\* Type correctness.
THEOREM AccessTypes == Spec => []TypeOK
  <1>1. AccessInv => TypeOK
    BY DEF AccessInv
  <1> QED
    BY AccessInvHolds, <1>1, PTL

\* A launch ticket opens one browser context, however many posts of it race
\* (consume of preview-gateway.ts takes it before anything is awaited).
THEOREM OneContext == Spec => []OneContextPerTicket
  <1>1. AccessInv => OneContextPerTicket
    BY DEF AccessInv, TicketSpent, Redeeming, OneContextPerTicket
  <1> QED
    BY AccessInvHolds, <1>1, PTL

\* Whoever had no more right when the request came gets no stream, whatever
\* changes between the checks of the gateway.
THEOREM DeniedGetsNoStream == Spec => []DeniedStaysOut
  <1>1. AccessInv => DeniedStaysOut
    BY DEF AccessInv, DeniedSoFar, DeniedStaysOut
  <1> QED
    BY AccessInvHolds, <1>1, PTL

\* A stream is never left on a connection that is gone or that has lost the route
\* without being closed (preview-relay.ts, #accessIsActive and detachConnector).
THEOREM Carried == Spec => []StreamsAreCarried
  <1>1. AccessInv => StreamsAreCarried
    BY DEF AccessInv
  <1> QED
    BY AccessInvHolds, <1>1, PTL

\* When nothing is under way the status users see is what the relay has, up to the
\* three things that the registration misses (preview-relay.ts, #replaceRoutes).
THEOREM StatusFollows == Spec => []StatusIsTrue
  <1>1. ASSUME AccessInv, Settled PROVE StatusIsTrue
    <2>1. routeSocket # 0 => routeSocket \in Link
      BY <1>1, PreviewAssumption DEF AccessInv, TypeOK, Link
    <2>2. routeSocket # 0 => links[routeSocket].client \/ "end" \in missed
      BY <1>1, <2>1 DEF AccessInv, Relay, Relays, Settled
    <2>3. row = "active" => routeSocket # 0
      BY <1>1 DEF AccessInv, Relay, RowFollows, Settled
    <2>4. row = "connector_offline" => routeSocket = 0 \/ "mark" \in missed
      BY <1>1 DEF AccessInv, Relay, RowFollows
    <2>5. row = "stopped" => routeSocket = 0 \/ {"end", "stop"} \cap missed # {}
      BY <1>1, <2>2 DEF AccessInv, StopHeard, Settled
    <2> QED
      BY <2>2, <2>3, <2>4, <2>5 DEF StatusIsTrue
  <1>2. AccessInv => StatusIsTrue
    BY <1>1 DEF StatusIsTrue
  <1> QED
    BY AccessInvHolds, <1>2, PTL

-----------------------------------------------------------------------------
(* Streams: types *)

\* The types of the stream without the bounds of the window.
Letter == [type : MessageType, at : Nat, n : Nat]

ServerSide ==
    [st : {"open", "done", "failed"}, accepted : BOOLEAN, started : BOOLEAN, pressed : BOOLEAN,
     ended : BOOLEAN, owed : Nat, got : Nat, sent : Nat, credit : Nat, asked : BOOLEAN]

TunnelSide ==
    [st : {"none", "open", "gone"}, started : BOOLEAN, taken : Nat, flushed : Nat, asked : BOOLEAN,
     offset : Nat, ack : Nat, credit : Nat, queue : Nat, over : BOOLEAN, closing : BOOLEAN]

StreamTypes ==
    /\ kind \in Kinds /\ body \in Nat
    /\ server \in ServerSide /\ tunnel \in TunnelSide
    /\ down \in Seq(Letter) /\ up \in Seq(Letter) /\ linked \in BOOLEAN

LEMMA Letters ==
    /\ \A type \in MessageType : Plain(type) \in Letter /\ Plain(type).type = type
    /\ \A at \in Nat : Chunk(at) \in Letter /\ Chunk(at).type = "chunk" /\ Chunk(at).at = at
    /\ \A at, n \in Nat : Flow(at, n) \in Letter /\ Flow(at, n).type = "flow"
  BY DEF Plain, Chunk, Flow, Letter, MessageType

\* Only a grant has credit.
LEMMA Uncredited ==
    /\ \A type \in MessageType : Plain(type).at = 0 /\ Plain(type).n = 0
    /\ \A at \in Nat : Chunk(at).n = 0
  BY DEF Plain, Chunk

LEMMA SendOne ==
    ASSUME NEW channel \in Seq(Letter), NEW m \in Letter
    PROVE  /\ Sends(channel, <<m>>) \in Seq(Letter) /\ Sends(channel, <<>>) = channel
           /\ channel \o <<m>> = Append(channel, m)
<1>1. channel \o <<m>> = Append(channel, m) /\ channel \o <<>> = channel
  OBVIOUS
<1> QED BY <1>1, AppendProperties DEF Sends

LEMMA LeastIs ==
    ASSUME NEW a \in Nat, NEW b \in Nat
    PROVE  Least(a, b) \in Nat /\ Least(a, b) <= a /\ Least(a, b) <= b
  BY DEF Least

\* The end of the response, if it is sent.
EndIf(last) == IF last THEN <<Plain("end")>> ELSE <<>>

\* What flush does to the tunnel and to the messages, one by one.
LEMMA FlushSends ==
    ASSUME StreamTypes, NEW t \in TunnelSide, Flush(t)
    PROVE  \E n \in 0..t.queue :
             /\ tunnel' \in TunnelSide /\ up' \in Seq(Letter)
             /\ tunnel'.offset = t.offset + n /\ tunnel'.queue = t.queue - n
             /\ tunnel'.over = t.over /\ tunnel'.started = t.started
             /\ tunnel'.st \in {"open", "gone"} /\ (t.over /\ n = t.queue => tunnel'.st = "gone")
             /\ ~linked => up' = up
             /\ linked => up' = up \o (Chunks(t.offset, n) \o EndIf(t.over /\ n = t.queue))
<1> DEFINE n == Least(t.queue, t.credit)
           last == t.over /\ n = t.queue
<1>1. t.queue \in Nat /\ t.credit \in Nat /\ t.offset \in Nat /\ t.over \in BOOLEAN /\ t.started \in BOOLEAN
  BY DEF TunnelSide
<1>2. n \in Nat /\ n <= t.queue /\ n <= t.credit
  BY <1>1, LeastIs
<1>3. /\ tunnel' = [t EXCEPT !.queue = t.queue - n, !.credit = t.credit - n, !.offset = t.offset + n,
                             !.st = IF last \/ (n > 0 /\ ~linked) THEN "gone" ELSE "open"]
      /\ up' = Sends(up, Chunks(t.offset, n) \o EndIf(last))
  BY DEF Flush, EndIf
<1>4. Chunks(t.offset, n) \o EndIf(last) \in Seq(Letter)
  <2>1. Chunks(t.offset, n) \in Seq(Letter)
    <3>1. \A j \in 1..n : Chunk(t.offset + j - 1) \in Letter
      BY <1>1, <1>2, Letters
    <3> QED BY <1>2, <3>1 DEF Chunks
  <2>2. EndIf(last) \in Seq(Letter)
    BY Letters DEF EndIf, MessageType
  <2> QED BY <2>1, <2>2, ConcatProperties
<1>5. up' \in Seq(Letter)
  BY <1>3, <1>4, ConcatProperties DEF Sends, StreamTypes
<1> HIDE DEF n
<1>6. tunnel' \in TunnelSide
  <2> DEFINE st == IF last \/ (n > 0 /\ ~linked) THEN "gone" ELSE "open"
             queue == t.queue - n
             credit == t.credit - n
             offset == t.offset + n
  <2>1. queue \in Nat /\ credit \in Nat /\ offset \in Nat /\ st \in {"none", "open", "gone"}
    BY <1>1, <1>2
  <2>2. tunnel' = [t EXCEPT !.queue = queue, !.credit = credit, !.offset = offset, !.st = st]
    BY <1>3
  <2> HIDE DEF st, queue, credit, offset, last
  <2> QED BY <2>1, <2>2 DEF TunnelSide
<1>7. /\ tunnel'.offset = t.offset + n /\ tunnel'.queue = t.queue - n
      /\ tunnel'.over = t.over /\ tunnel'.started = t.started
      /\ tunnel'.st = IF last \/ (n > 0 /\ ~linked) THEN "gone" ELSE "open"
  BY <1>3 DEF TunnelSide
<1>8. (~linked => up' = up) /\ (linked => up' = up \o (Chunks(t.offset, n) \o EndIf(last)))
  BY <1>3 DEF Sends
<1>9. n \in 0..t.queue /\ last = (t.over /\ n = t.queue)
  BY <1>1, <1>2
<1>10. tunnel'.st \in {"open", "gone"} /\ (last => tunnel'.st = "gone")
  BY <1>7
<1> HIDE DEF last
<1> QED BY <1>5, <1>6, <1>7, <1>8, <1>9, <1>10

LEMMA StreamInitTypes == StreamInit => StreamTypes
<1>1. <<Plain("open")>> \in Seq(Letter) /\ <<>> \in Seq(Letter)
  BY Letters DEF MessageType
<1> QED BY <1>1, StreamAssumption DEF StreamInit, StreamTypes, ServerSide, TunnelSide

LEMMA GrantTypes ==
    ASSUME NEW s \in ServerSide
    PROVE  /\ Granted(s) \in ServerSide /\ Completed(s) \in ServerSide
           /\ Granted(s).got = s.got /\ Granted(s).started = s.started /\ Granted(s).ended = s.ended
           /\ Granted(s).st \in {s.st, "failed"}
           /\ Completed(s).got = s.got /\ Completed(s).started = s.started /\ Completed(s).ended = s.ended
           /\ Completed(s).st \in {"done", "failed", s.st} /\ (s.st = "open" => Completed(s).st # "open")
           /\ Grant(s) \in {<<>>, <<Flow(s.got, s.owed)>>} /\ Flow(s.got, s.owed) \in Letter
<1>1. /\ Granted(s) \in ServerSide /\ Granted(s).got = s.got /\ Granted(s).started = s.started
      /\ Granted(s).ended = s.ended /\ Granted(s).st \in {s.st, "failed"}
  BY DEF Granted, ServerSide
<1>2. /\ Completed(s) \in ServerSide /\ Completed(s).got = Granted(s).got
      /\ Completed(s).started = Granted(s).started /\ Completed(s).ended = Granted(s).ended
      /\ Completed(s).st = IF Granted(s).st = "open" THEN "done" ELSE Granted(s).st
  BY <1>1 DEF Completed, ServerSide
<1>3. Grant(s) \in {<<>>, <<Flow(s.got, s.owed)>>} /\ Flow(s.got, s.owed) \in Letter
  BY Letters DEF Grant, ServerSide
<1> QED BY <1>1, <1>2, <1>3

\* The stream of the server alone.
LEMMA ServerReceivesTypes ==
    ASSUME StreamTypes, ServerReceives
    PROVE  StreamTypes'
<1> DEFINE m == Head(up)
<1>1. m \in Letter /\ up' \in Seq(Letter) /\ UNCHANGED <<kind, body, tunnel>>
  BY HeadTailProperties DEF ServerReceives, StreamTypes
<1>2. server \in ServerSide /\ m.n \in Nat /\ m.at \in Nat /\ server.got \in Nat /\ server.owed \in Nat
      /\ server.credit \in Nat
  BY <1>1 DEF StreamTypes, ServerSide, Letter
<1>3. /\ linked' \in BOOLEAN
      /\ \/ UNCHANGED <<server, down>>
         \/ server' = [server EXCEPT !.accepted = TRUE] /\ UNCHANGED down
         \/ server' = [server EXCEPT !.started = TRUE] /\ UNCHANGED down
         \/ ServerChunk \/ ServerFrame \/ ServerEnd \/ FailServer \/ ServerFlow(m)
         \/ server' = [server EXCEPT !.st = "done"] /\ UNCHANGED down
  BY DEF ServerReceives, StreamTypes
<1> HIDE DEF m
<1>4. down \in Seq(Letter) /\ Letter # {}
  BY <1>1 DEF StreamTypes
<1>5. server' \in ServerSide /\ down' \in Seq(Letter)
  <2>1. CASE UNCHANGED <<server, down>>
    BY <1>2, <1>4, <2>1
  <2>2. CASE /\ UNCHANGED down
             /\ \/ server' = [server EXCEPT !.accepted = TRUE]
                \/ server' = [server EXCEPT !.started = TRUE]
                \/ server' = [server EXCEPT !.st = "done"]
    <3>1. server' \in ServerSide
      BY <1>2, <2>2 DEF ServerSide
    <3> QED BY <1>4, <2>2, <3>1
  <2>3. CASE ServerChunk
    <3> DEFINE got == server.got + 1
               owed == server.owed + 1
               s == [server EXCEPT !.got = got, !.owed = owed]
    <3>0. got \in Nat /\ owed \in Nat
      BY <1>2
    <3> HIDE DEF got, owed
    <3>1. s \in ServerSide /\ [s EXCEPT !.pressed = TRUE] \in ServerSide
      BY <1>2, <3>0 DEF ServerSide
    <3>2. \/ server' = Granted(s) /\ down' = Sends(down, Grant(s))
          \/ server' = [s EXCEPT !.pressed = TRUE] /\ UNCHANGED down
      BY <2>3 DEF ServerChunk, got, owed
    <3> HIDE DEF s
    <3>3. Sends(down, Grant(s)) \in Seq(Letter)
      BY <1>4, <3>1, GrantTypes, SendOne
    <3> QED BY <1>4, <3>1, <3>2, <3>3, GrantTypes
  <2>4. CASE ServerFrame
    <3>1. server' = [server EXCEPT !.got = server.got + 1] /\ down' = Sends(down, <<Flow(server.got + 1, 1)>>)
      BY <2>4 DEF ServerFrame
    <3>2. Flow(server.got + 1, 1) \in Letter
      BY <1>2, Letters
    <3>3. server' \in ServerSide
      BY <1>2, <3>1 DEF ServerSide
    <3> QED BY <1>4, <3>1, <3>2, <3>3, SendOne
  <2>5. CASE ServerEnd
    <3> DEFINE s == [server EXCEPT !.ended = TRUE]
    <3>1. s \in ServerSide
      BY <1>2 DEF ServerSide
    <3>2. \/ server' = Completed(s) /\ down' = Sends(down, Grant(s))
          \/ server' = s /\ UNCHANGED down
      BY <2>5 DEF ServerEnd
    <3> HIDE DEF s
    <3>3. Sends(down, Grant(s)) \in Seq(Letter)
      BY <1>4, <3>1, GrantTypes, SendOne
    <3>4. Completed(s) \in ServerSide
      BY <3>1, GrantTypes
    <3> QED BY <1>4, <3>1, <3>2, <3>3, <3>4
  <2>6. CASE FailServer
    <3>1. server' \in ServerSide
      BY <1>2, <2>6 DEF FailServer, ServerSide
    <3> QED BY <1>4, <2>6, <3>1, SendOne, Letters DEF FailServer, MessageType
  <2>7. CASE ServerFlow(m)
    <3>1. Least(Window, server.credit + m.n) \in Nat
      <4>1. Window \in Nat /\ server.credit + m.n \in Nat
        BY <1>2, StreamAssumption
      <4> QED BY <4>1, LeastIs
    <3> HIDE DEF Least
    <3>2. server' \in ServerSide
      BY <1>2, <2>7, <3>1 DEF ServerFlow, ServerSide
    <3> QED BY <1>4, <2>7, <3>2 DEF ServerFlow
  <2> QED BY <1>3, <2>1, <2>2, <2>3, <2>4, <2>5, <2>6, <2>7
<1> QED BY <1>1, <1>3, <1>5 DEF StreamTypes

LEMMA ServerTypes ==
    ASSUME StreamTypes, Drain \/ SendChunk \/ SendEnd \/ BrowserCloses \/ ServerGivesUp \/ ServerDetaches
    PROVE  StreamTypes'
<1>1. UNCHANGED <<kind, body, tunnel, up, linked>>
  BY DEF Drain, SendChunk, SendEnd, BrowserCloses, ServerGivesUp, ServerDetaches
<1>2. server \in ServerSide /\ down \in Seq(Letter) /\ server.sent \in Nat
  BY DEF StreamTypes, ServerSide
<1>3. server' \in ServerSide /\ down' \in Seq(Letter)
  <2>1. CASE Drain
    <3> DEFINE s == [server EXCEPT !.pressed = FALSE]
    <3>1. s \in ServerSide
      BY <1>2 DEF ServerSide
    <3>2. server' \in {Completed(s), Granted(s)} /\ down' = Sends(down, Grant(s))
      BY <2>1 DEF Drain
    <3> HIDE DEF s
    <3> QED BY <1>2, <3>1, <3>2, GrantTypes, SendOne
  <2>2. CASE SendChunk
    <3> DEFINE sent == server.sent + 1
               credit == server.credit - 1
    <3>1. server' = [server EXCEPT !.sent = sent, !.credit = credit] /\ down' = Sends(down, <<Chunk(server.sent)>>)
      BY <2>2 DEF SendChunk
    <3>2. server' \in ServerSide
      <4>1. sent \in Nat /\ credit \in Nat
        BY <1>2, <2>2 DEF SendChunk, ServerSide
      <4> HIDE DEF sent, credit
      <4> QED BY <1>2, <3>1, <4>1 DEF ServerSide
    <3> QED BY <1>2, <3>1, <3>2, Letters, SendOne
  <2>3. CASE SendEnd
    <3>1. server' \in ServerSide
      BY <1>2, <2>3 DEF SendEnd, ServerSide
    <3> QED BY <1>2, <2>3, <3>1, Letters, SendOne DEF SendEnd, MessageType
  <2>4. CASE BrowserCloses
    <3>1. server' \in ServerSide
      BY <1>2, <2>4 DEF BrowserCloses, ServerSide
    <3> QED BY <1>2, <2>4, <3>1, Letters, SendOne DEF BrowserCloses, MessageType
  <2>5. CASE ServerGivesUp
    <3>1. server' \in ServerSide
      BY <1>2, <2>5 DEF ServerGivesUp, FailServer, ServerSide
    <3> QED BY <1>2, <2>5, <3>1, Letters, SendOne DEF ServerGivesUp, FailServer, MessageType
  <2>6. CASE ServerDetaches
    BY <1>2, <2>6 DEF ServerDetaches, ServerSide
  <2> QED BY <2>1, <2>2, <2>3, <2>4, <2>5, <2>6
<1> QED BY <1>1, <1>3 DEF StreamTypes

\* The stream of the tunnel alone.  What waits in the queue goes out as credit comes.
LEMMA TunnelTypes ==
    ASSUME StreamTypes,
           \/ TunnelReceives \/ Flushed \/ LocalStarts \/ LocalEnds \/ LocalCloses \/ LocalFails
           \/ TunnelCloses \/ \E k \in 1..MaxResponse : LocalData(k)
    PROVE  StreamTypes'
<1>1. tunnel \in TunnelSide /\ up \in Seq(Letter) /\ down \in Seq(Letter)
  BY DEF StreamTypes
<1>2. tunnel.taken \in Nat /\ tunnel.flushed \in Nat /\ tunnel.credit \in Nat
  BY <1>1 DEF TunnelSide
<1>3. ASSUME NEW t \in TunnelSide, Flush(t)
      PROVE  tunnel' \in TunnelSide /\ up' \in Seq(Letter)
  BY <1>3, FlushSends
<1>4. \A type \in MessageType : Sends(up, <<Plain(type)>>) \in Seq(Letter)
  BY <1>1, Letters, SendOne
<1>5. ASSUME FailTunnel
      PROVE  tunnel' \in TunnelSide /\ up' \in Seq(Letter)
  <2>1. tunnel' \in TunnelSide
    BY <1>1, <1>5 DEF FailTunnel, TunnelSide
  <2> QED BY <1>4, <1>5, <2>1 DEF FailTunnel, MessageType
<1>6. ASSUME TunnelReceives
      PROVE  StreamTypes'
  <2> DEFINE m == Head(down)
  <2>1. m \in Letter /\ down' \in Seq(Letter) /\ UNCHANGED <<kind, body, server, linked>>
    BY <1>1, <1>6, HeadTailProperties DEF TunnelReceives
  <2>2. m.at \in Nat /\ m.n \in Nat
    BY <2>1 DEF Letter
  <2>3. \/ FailTunnel
        \/ tunnel' = [tunnel EXCEPT !.st = "open"] /\ up' \in {up, Sends(up, <<Plain("accepted")>>)}
        \/ Handles(m)
        \/ UNCHANGED tunnel /\ up' \in {up, Sends(up, <<Plain("error")>>)}
    BY <1>6 DEF TunnelReceives
  <2> HIDE DEF m
  <2>4. tunnel' \in TunnelSide /\ up' \in Seq(Letter)
    <3>1. CASE FailTunnel
      BY <1>5, <3>1
    <3>2. CASE tunnel' = [tunnel EXCEPT !.st = "open"] /\ up' \in {up, Sends(up, <<Plain("accepted")>>)}
      <4>1. tunnel' \in TunnelSide
        BY <1>1, <3>2 DEF TunnelSide
      <4> QED BY <1>1, <1>4, <3>2, <4>1 DEF MessageType
    <3>3. CASE UNCHANGED tunnel /\ up' \in {up, Sends(up, <<Plain("error")>>)}
      BY <1>1, <1>4, <3>3 DEF MessageType
    <3>4. CASE TunnelFlow(m)
      <4> DEFINE t == [tunnel EXCEPT !.ack = m.at, !.credit = Least(Window, tunnel.credit + m.n)]
      <4>1. Least(Window, tunnel.credit + m.n) \in Nat
        <5>1. Window \in Nat /\ tunnel.credit + m.n \in Nat
          BY <1>2, <2>2, StreamAssumption
        <5> QED BY <5>1, LeastIs
      <4>2. t \in TunnelSide
        <5> HIDE DEF Least
        <5> QED BY <1>1, <2>2, <4>1 DEF TunnelSide
      <4>3. Flush(t)
        BY <3>4 DEF TunnelFlow
      <4> HIDE DEF t
      <4> QED BY <1>3, <4>2, <4>3
    <3>5. CASE /\ UNCHANGED up
               /\ \/ tunnel' = [tunnel EXCEPT !.taken = tunnel.taken + 1]
                  \/ tunnel' = [tunnel EXCEPT !.asked = TRUE]
                  \/ tunnel' = [tunnel EXCEPT !.st = "gone"]
                  \/ tunnel' = [tunnel EXCEPT !.closing = TRUE]
      <4>1. tunnel' \in TunnelSide
        <5> DEFINE taken == tunnel.taken + 1
        <5>1. taken \in Nat
          BY <1>2
        <5>2. \/ tunnel' = [tunnel EXCEPT !.taken = taken]
              \/ tunnel' = [tunnel EXCEPT !.asked = TRUE]
              \/ tunnel' = [tunnel EXCEPT !.st = "gone"]
              \/ tunnel' = [tunnel EXCEPT !.closing = TRUE]
          BY <3>5
        <5> HIDE DEF taken
        <5> QED BY <1>1, <5>1, <5>2 DEF TunnelSide
      <4> QED BY <1>1, <3>5, <4>1
    <3> QED BY <2>3, <3>1, <3>2, <3>3, <3>4, <3>5 DEF Handles
  <2> QED BY <2>1, <2>4 DEF StreamTypes
<1>7. ASSUME Flushed \/ LocalStarts \/ LocalCloses \/ LocalFails \/ TunnelCloses
      PROVE  StreamTypes'
  <2>1. UNCHANGED <<kind, body, server, down, linked>>
    BY <1>7 DEF Flushed, LocalStarts, LocalCloses, LocalFails, TunnelCloses
  <2>2. tunnel' \in TunnelSide
    <3>1. CASE LocalFails
      BY <1>5, <3>1 DEF LocalFails
    <3>2. CASE Flushed
      <4> DEFINE flushed == tunnel.flushed + 1
      <4>1. flushed \in Nat /\ tunnel' = [tunnel EXCEPT !.flushed = flushed]
        BY <1>2, <3>2 DEF Flushed
      <4> HIDE DEF flushed
      <4> QED BY <1>1, <4>1 DEF TunnelSide
    <3>3. CASE LocalStarts \/ LocalCloses \/ TunnelCloses
      BY <1>1, <3>3 DEF LocalStarts, LocalCloses, TunnelCloses, TunnelSide
    <3> QED BY <1>7, <3>1, <3>2, <3>3
  <2>3. up' \in Seq(Letter)
    <3>1. Sends(up, <<Flow(tunnel.flushed + 1, 1)>>) \in Seq(Letter)
      BY <1>1, <1>2, Letters, SendOne
    <3> QED BY <1>1, <1>4, <1>5, <1>7, <3>1
        DEF Flushed, LocalStarts, LocalCloses, LocalFails, TunnelCloses, MessageType
  <2> QED BY <2>1, <2>2, <2>3 DEF StreamTypes
<1>8. ASSUME LocalEnds \/ \E k \in 1..MaxResponse : LocalData(k)
      PROVE  StreamTypes'
  <2>1. UNCHANGED <<kind, body, server, down, linked>>
    BY <1>8 DEF LocalEnds, LocalData
  <2>2. CASE LocalEnds
    <3>1. [tunnel EXCEPT !.over = TRUE] \in TunnelSide
      BY <1>1 DEF TunnelSide
    <3> QED BY <1>3, <2>1, <2>2, <3>1 DEF LocalEnds, StreamTypes
  <2>3. CASE \E k \in 1..MaxResponse : LocalData(k)
    <3>1. PICK k \in 1..MaxResponse : LocalData(k)
      BY <2>3
    <3>2. [tunnel EXCEPT !.queue = k] \in TunnelSide
      <4>1. k \in Nat
        BY StreamAssumption
      <4> QED BY <1>1, <4>1 DEF TunnelSide
    <3> QED BY <1>3, <2>1, <3>1, <3>2 DEF LocalData, StreamTypes
  <2> QED BY <1>8, <2>2, <2>3
<1> QED BY <1>6, <1>7, <1>8

\* What is left of the messages when the socket breaks.
LEMMA Prefixes ==
    ASSUME NEW S, NEW q \in Seq(S), NEW i \in 0..Len(q)
    PROVE  /\ SubSeq(q, 1, i) \in Seq(S) /\ Len(SubSeq(q, 1, i)) = i
           /\ \A j \in 1..i : SubSeq(q, 1, i)[j] = q[j]
  OBVIOUS

LEMMA StreamStepTypes ==
    ASSUME StreamTypes, [StreamNext]_streamVars
    PROVE  StreamTypes'
<1>1. CASE Break
  <2>1. PICK i \in 0..Len(up), j \in 0..Len(down) : up' = SubSeq(up, 1, i) /\ down' = SubSeq(down, 1, j)
    BY <1>1 DEF Break
  <2>2. up' \in Seq(Letter) /\ down' \in Seq(Letter)
    BY <2>1, Prefixes DEF StreamTypes
  <2> QED BY <1>1, <2>2 DEF Break, StreamTypes
<1>2. CASE UNCHANGED streamVars
  BY <1>2 DEF streamVars, StreamTypes
<1> QED BY <1>1, <1>2, ServerReceivesTypes, ServerTypes, TunnelTypes DEF StreamNext

-----------------------------------------------------------------------------
(* Streams: what is on its way to the server *)

\* The first i - 1 messages of q bring a server that has got bytes up to x.
Gets(got, q, x, i) ==
    x = got \/ \E k \in 1..(i - 1) : q[k].type = "chunk" /\ q[k].at = x - 1

\* The server knows the header of the response, or one of them is the header.
Begins(started, q, i) == started \/ \E k \in 1..(i - 1) : q[k].type = "start"

\* Chunks come behind the header, without a gap and below off; the end comes behind
\* all of them.
InOrder(got, started, off, q) ==
    /\ \A i \in 1..Len(q) : q[i].type = "chunk" =>
         got <= q[i].at /\ q[i].at < off /\ Gets(got, q, q[i].at, i) /\ Begins(started, q, i)
    /\ \A i, j \in 1..Len(q) : i < j /\ q[i].type = "chunk" /\ q[j].type = "chunk" => q[i].at < q[j].at
    /\ \A i \in 1..Len(q) : q[i].type = "end" => Gets(got, q, off, i)

\* What some messages bring, more of them bring.
LEMMA Further ==
    ASSUME NEW i \in Nat, NEW j \in Nat, i <= j, NEW got, NEW started, NEW q, NEW x
    PROVE  /\ Gets(got, q, x, i) => Gets(got, q, x, j)
           /\ Begins(started, q, i) => Begins(started, q, j)
<1>1. \A k \in 1..(i - 1) : k \in 1..(j - 1)
  OBVIOUS
<1> QED BY <1>1 DEF Gets, Begins

\* The tail, by its elements.
LEMMA Tails ==
    ASSUME NEW S, NEW q \in Seq(S), q # <<>>
    PROVE  /\ Tail(q) \in Seq(S) /\ Len(q) \in Nat /\ Len(q) >= 1 /\ Len(Tail(q)) = Len(q) - 1
           /\ Head(q) = q[1] /\ \A i \in 1..(Len(q) - 1) : Tail(q)[i] = q[i + 1]
<1>1. Len(q) \in Nat /\ Len(q) # 0
  BY EmptySeq
<1> QED BY <1>1, HeadTailProperties

\* A message that is no chunk is taken.
LEMMA TakeOther ==
    ASSUME NEW got \in Nat, NEW started \in BOOLEAN, NEW off \in Nat, NEW q \in Seq(Letter), q # <<>>,
           Head(q).type # "chunk", NEW begun \in BOOLEAN, started \/ Head(q).type = "start" => begun
    PROVE  /\ InOrder(got, started, off, q) => InOrder(got, begun, off, Tail(q))
           /\ Gets(got, q, off, Len(q) + 1) => Gets(got, Tail(q), off, Len(Tail(q)) + 1)
           /\ Begins(started, q, Len(q) + 1) => Begins(begun, Tail(q), Len(Tail(q)) + 1)
<1> DEFINE p == Tail(q)
<1>1. /\ Len(q) \in Nat /\ Len(q) >= 1 /\ Len(p) = Len(q) - 1
      /\ Head(q) = q[1] /\ \A i \in 1..(Len(q) - 1) : p[i] = q[i + 1]
  BY Tails
<1>2. ASSUME NEW x, NEW i \in 1..Len(q), Gets(got, q, x, i + 1)
      PROVE  Gets(got, p, x, i)
  <2>1. ASSUME NEW k \in 1..i, q[k].type = "chunk", q[k].at = x - 1
        PROVE  \E l \in 1..(i - 1) : p[l].type = "chunk" /\ p[l].at = x - 1
    <3>1. k # 1 /\ k - 1 \in 1..(i - 1) /\ p[k - 1] = q[k]
      BY <1>1, <2>1
    <3> QED BY <2>1, <3>1
  <2> QED BY <1>2, <2>1 DEF Gets
<1>3. ASSUME NEW i \in 1..Len(q), Begins(started, q, i + 1)
      PROVE  Begins(begun, p, i)
  <2>1. ASSUME NEW k \in 1..i, q[k].type = "start"
        PROVE  begun \/ \E l \in 1..(i - 1) : p[l].type = "start"
    <3>1. CASE k = 1
      BY <1>1, <2>1, <3>1
    <3>2. CASE k # 1
      <4>1. k - 1 \in 1..(i - 1) /\ p[k - 1] = q[k]
        BY <1>1, <3>2
      <4> QED BY <2>1, <4>1
    <3> QED BY <3>1, <3>2
  <2> QED BY <1>3, <2>1 DEF Begins
<1>4. ASSUME InOrder(got, started, off, q)
      PROVE  InOrder(got, begun, off, p)
  <2>1. ASSUME NEW i \in 1..Len(p), p[i].type = "chunk"
        PROVE  got <= p[i].at /\ p[i].at < off /\ Gets(got, p, p[i].at, i) /\ Begins(begun, p, i)
    <3>1. i + 1 \in 1..Len(q) /\ p[i] = q[i + 1] /\ i \in 1..Len(q)
      BY <1>1
    <3> QED BY <1>2, <1>3, <1>4, <2>1, <3>1 DEF InOrder
  <2>2. ASSUME NEW i \in 1..Len(p), NEW j \in 1..Len(p), i < j, p[i].type = "chunk", p[j].type = "chunk"
        PROVE  p[i].at < p[j].at
    <3>1. i + 1 \in 1..Len(q) /\ p[i] = q[i + 1] /\ j + 1 \in 1..Len(q) /\ p[j] = q[j + 1] /\ i + 1 < j + 1
      BY <1>1, <2>2
    <3> QED BY <1>4, <2>2, <3>1 DEF InOrder
  <2>3. ASSUME NEW i \in 1..Len(p), p[i].type = "end"
        PROVE  Gets(got, p, off, i)
    <3>1. i + 1 \in 1..Len(q) /\ p[i] = q[i + 1] /\ i \in 1..Len(q)
      BY <1>1
    <3> QED BY <1>2, <1>4, <2>3, <3>1 DEF InOrder
  <2> HIDE DEF p
  <2> QED BY <2>1, <2>2, <2>3 DEF InOrder
<1>5. Len(q) \in 1..Len(q) /\ Len(p) + 1 = Len(q)
  BY <1>1
<1> HIDE DEF p
<1>6. Gets(got, q, off, Len(q) + 1) => Gets(got, p, off, Len(p) + 1)
  BY <1>2, <1>5
<1>7. Begins(started, q, Len(q) + 1) => Begins(begun, p, Len(p) + 1)
  BY <1>3, <1>5
<1> QED BY <1>4, <1>6, <1>7 DEF p

\* A chunk is taken: it is the one the server waits for.
LEMMA TakeChunk ==
    ASSUME NEW got \in Nat, NEW started \in BOOLEAN, NEW off \in Nat, NEW q \in Seq(Letter), q # <<>>,
           Head(q).type = "chunk", InOrder(got, started, off, q)
    PROVE  /\ started /\ Head(q).at = got /\ got < off
           /\ InOrder(got + 1, started, off, Tail(q))
           /\ Gets(got, q, off, Len(q) + 1) => Gets(got + 1, Tail(q), off, Len(Tail(q)) + 1)
           /\ Begins(started, Tail(q), Len(Tail(q)) + 1)
<1> DEFINE p == Tail(q)
<1>1. /\ Len(q) \in Nat /\ Len(q) >= 1 /\ Len(p) = Len(q) - 1 /\ p \in Seq(Letter)
      /\ Head(q) = q[1] /\ \A i \in 1..(Len(q) - 1) : p[i] = q[i + 1]
  BY Tails
<1>2. started /\ q[1].at = got /\ got < off
  <2>1. 1 \in 1..Len(q) /\ q[1].type = "chunk" /\ 1..(1 - 1) = {}
    BY <1>1
  <2>2. q[1].at < off /\ Gets(got, q, q[1].at, 1) /\ Begins(started, q, 1)
    BY <2>1 DEF InOrder
  <2> QED BY <2>1, <2>2 DEF Gets, Begins
<1>3. \A i \in 1..Len(q) : q[i].at \in Nat
  <2>1. \A i \in 1..Len(q) : q[i] \in Letter
    OBVIOUS
  <2> QED BY <2>1 DEF Letter
<1>4. ASSUME NEW x \in Nat, NEW i \in 1..Len(q), Gets(got, q, x, i + 1), x # got
      PROVE  Gets(got + 1, p, x, i)
  <2>1. PICK k \in 1..i : q[k].type = "chunk" /\ q[k].at = x - 1
    BY <1>4 DEF Gets
  <2>2. CASE k = 1
    BY <1>2, <2>1, <2>2 DEF Gets
  <2>3. CASE k # 1
    <3>1. k - 1 \in 1..(i - 1) /\ p[k - 1] = q[k]
      BY <1>1, <2>3
    <3> QED BY <2>1, <3>1 DEF Gets
  <2> QED BY <2>2, <2>3
<1>5. ASSUME NEW i \in 1..Len(p), p[i].type = "chunk"
      PROVE  got + 1 <= p[i].at /\ p[i].at < off /\ Gets(got + 1, p, p[i].at, i) /\ Begins(started, p, i)
  <2>1. i + 1 \in 1..Len(q) /\ p[i] = q[i + 1] /\ i \in 1..Len(q) /\ 1 \in 1..Len(q) /\ 1 < i + 1
    BY <1>1
  <2>2. q[1].at < p[i].at /\ p[i].at < off /\ Gets(got, q, p[i].at, i + 1)
    BY <1>1, <1>5, <2>1 DEF InOrder
  <2>3. p[i].at \in Nat
    BY <1>3, <2>1
  <2> QED BY <1>2, <1>4, <2>1, <2>2, <2>3 DEF Begins
<1>6. ASSUME NEW i \in 1..Len(p), NEW j \in 1..Len(p), i < j, p[i].type = "chunk", p[j].type = "chunk"
      PROVE  p[i].at < p[j].at
  <2>1. i + 1 \in 1..Len(q) /\ p[i] = q[i + 1] /\ j + 1 \in 1..Len(q) /\ p[j] = q[j + 1] /\ i + 1 < j + 1
    BY <1>1, <1>6
  <2> QED BY <1>6, <2>1 DEF InOrder
<1>7. ASSUME NEW i \in 1..Len(p), p[i].type = "end"
      PROVE  Gets(got + 1, p, off, i)
  <2>1. i + 1 \in 1..Len(q) /\ p[i] = q[i + 1] /\ i \in 1..Len(q)
    BY <1>1
  <2>2. Gets(got, q, off, i + 1)
    BY <1>7, <2>1 DEF InOrder
  <2> QED BY <1>2, <1>4, <2>1, <2>2
<1>8. Gets(got, q, off, Len(q) + 1) => Gets(got + 1, p, off, Len(p) + 1)
  <2>1. Len(q) \in 1..Len(q) /\ Len(p) + 1 = Len(q) /\ off # got
    BY <1>1, <1>2
  <2> HIDE DEF p
  <2> QED BY <1>4, <2>1
<1>9. Begins(started, p, Len(p) + 1)
  BY <1>2 DEF Begins
<1> HIDE DEF p
<1>10. InOrder(got + 1, started, off, p)
  BY <1>5, <1>6, <1>7 DEF InOrder
<1> QED BY <1>1, <1>2, <1>8, <1>9, <1>10 DEF p

\* Nothing is reordered when the end of the messages is lost.
LEMMA PrefixInOrder ==
    ASSUME NEW got, NEW started, NEW off, NEW q \in Seq(Letter), NEW n \in 0..Len(q),
           InOrder(got, started, off, q)
    PROVE  InOrder(got, started, off, SubSeq(q, 1, n))
<1> DEFINE p == SubSeq(q, 1, n)
<1>1. Len(p) = n /\ (\A j \in 1..n : p[j] = q[j]) /\ 1..n \subseteq 1..Len(q) /\ n \in Nat
  BY Prefixes
<1> HIDE DEF p
<1>2. ASSUME NEW i \in 1..n, NEW x, Gets(got, q, x, i)
      PROVE  Gets(got, p, x, i)
  BY <1>1, <1>2 DEF Gets
<1>3. ASSUME NEW i \in 1..n, Begins(started, q, i)
      PROVE  Begins(started, p, i)
  BY <1>1, <1>3 DEF Begins
<1>4. InOrder(got, started, off, p)
  BY <1>1, <1>2, <1>3 DEF InOrder
<1> QED BY <1>4 DEF p

\* Messages behind q do not change what is true of the first ones.
LEMMA Extends ==
    ASSUME NEW got, NEW started, NEW off, NEW to, NEW q \in Seq(Letter), NEW p \in Seq(Letter),
           Len(q) <= Len(p), \A i \in 1..Len(q) : p[i] = q[i],
           InOrder(got, started, off, q),
           off \in Nat, to \in Nat, off <= to,
           off = to \/ \A i \in 1..Len(q) : q[i].type # "end"
    PROVE  /\ \A i \in 1..Len(q) : p[i].type = "chunk" =>
                 got <= p[i].at /\ p[i].at < to /\ Gets(got, p, p[i].at, i) /\ Begins(started, p, i)
           /\ \A i, j \in 1..Len(q) : i < j /\ p[i].type = "chunk" /\ p[j].type = "chunk" => p[i].at < p[j].at
           /\ \A i \in 1..Len(q) : p[i].type = "end" => Gets(got, p, to, i)
           /\ \A x : Gets(got, q, x, Len(q) + 1) => Gets(got, p, x, Len(q) + 1)
           /\ Begins(started, q, Len(q) + 1) => Begins(started, p, Len(q) + 1)
<1>0. Len(q) \in Nat
  OBVIOUS
<1>1. \A i \in 1..Len(q) : q[i].at \in Nat
  <2> TAKE i \in 1..Len(q)
  <2>1. q[i] \in Letter
    OBVIOUS
  <2> QED BY <2>1 DEF Letter
<1>8. \A i \in 1..(Len(q) + 1) : \A k \in 1..(i - 1) : p[k] = q[k]
  BY <1>0
<1>2. \A x : \A i \in 1..(Len(q) + 1) : Gets(got, q, x, i) => Gets(got, p, x, i)
  BY <1>8 DEF Gets
<1>3. \A i \in 1..(Len(q) + 1) : Begins(started, q, i) => Begins(started, p, i)
  <2> TAKE i \in 1..(Len(q) + 1)
  <2>2. \A k \in 1..(i - 1) : q[k].type = "start" => p[k].type = "start"
    BY <1>8
  <2>3. started => Begins(started, p, i)
    BY DEF Begins
  <2>4. (\E k \in 1..(i - 1) : q[k].type = "start") => Begins(started, p, i)
    BY <2>2 DEF Begins
  <2> QED BY <2>3, <2>4 DEF Begins
<1>4. 1..Len(q) \subseteq 1..(Len(q) + 1) /\ Len(q) + 1 \in 1..(Len(q) + 1)
  BY <1>0
<1>5. ASSUME NEW i \in 1..Len(q), p[i].type = "chunk"
      PROVE  got <= p[i].at /\ p[i].at < to /\ Gets(got, p, p[i].at, i) /\ Begins(started, p, i)
  <2>1. p[i] = q[i] /\ got <= q[i].at /\ q[i].at < off /\ Gets(got, q, q[i].at, i) /\ Begins(started, q, i)
    BY <1>5 DEF InOrder
  <2> QED BY <1>1, <1>2, <1>3, <1>4, <2>1
<1>6. ASSUME NEW i \in 1..Len(q), p[i].type = "end"
      PROVE  Gets(got, p, to, i)
  <2>1. p[i] = q[i] /\ off = to
    BY <1>6
  <2>2. Gets(got, q, off, i)
    BY <1>6, <2>1 DEF InOrder
  <2> QED BY <1>2, <1>4, <2>1, <2>2
<1>7. \A i, j \in 1..Len(q) : i < j /\ p[i].type = "chunk" /\ p[j].type = "chunk" => p[i].at < p[j].at
  BY DEF InOrder
<1> QED BY <1>2, <1>3, <1>4, <1>5, <1>6, <1>7

LEMMA Joined ==
    ASSUME NEW S, NEW q \in Seq(S), NEW r \in Seq(S)
    PROVE  /\ q \o r \in Seq(S) /\ Len(q \o r) = Len(q) + Len(r)
           /\ \A i \in 1..(Len(q) + Len(r)) : (q \o r)[i] = IF i <= Len(q) THEN q[i] ELSE r[i - Len(q)]
  BY ConcatProperties

\* A message that is neither a chunk nor the end goes behind the others.
LEMMA SendOther ==
    ASSUME NEW got, NEW started, NEW off \in Nat, NEW q \in Seq(Letter), NEW m \in Letter,
           m.type # "chunk", m.type # "end", InOrder(got, started, off, q)
    PROVE  LET p == Append(q, m) IN
           /\ InOrder(got, started, off, p)
           /\ Gets(got, q, off, Len(q) + 1) => Gets(got, p, off, Len(p) + 1)
           /\ Begins(started, q, Len(q) + 1) => Begins(started, p, Len(p) + 1)
           /\ m.type = "start" => Begins(started, p, Len(p) + 1)
<1> DEFINE p == Append(q, m)
<1>1. /\ p \in Seq(Letter) /\ Len(q) \in Nat /\ Len(p) = Len(q) + 1 /\ p[Len(p)] = m
      /\ \A i \in 1..Len(q) : p[i] = q[i]
  BY AppendProperties
<1> HIDE DEF p
<1>2. /\ \A i \in 1..Len(q) : p[i].type = "chunk" =>
            got <= p[i].at /\ p[i].at < off /\ Gets(got, p, p[i].at, i) /\ Begins(started, p, i)
      /\ \A i, j \in 1..Len(q) : i < j /\ p[i].type = "chunk" /\ p[j].type = "chunk" => p[i].at < p[j].at
      /\ \A i \in 1..Len(q) : p[i].type = "end" => Gets(got, p, off, i)
      /\ \A x : Gets(got, q, x, Len(q) + 1) => Gets(got, p, x, Len(q) + 1)
      /\ Begins(started, q, Len(q) + 1) => Begins(started, p, Len(q) + 1)
  <2>1. Len(q) <= Len(p) /\ off <= off
    BY <1>1
  <2> QED BY <1>1, <2>1, Extends
<1>3. \A i \in 1..Len(p) : i \in 1..Len(q) \/ (p[i] = m /\ p[i].type # "chunk" /\ p[i].type # "end")
  BY <1>1
<1>4. InOrder(got, started, off, p)
  BY <1>2, <1>3 DEF InOrder
<1>5. 1..(Len(q) + 1 - 1) \subseteq 1..(Len(p) + 1 - 1) /\ Len(p) \in 1..(Len(p) + 1 - 1)
  BY <1>1
<1>6. Gets(got, p, off, Len(q) + 1) => Gets(got, p, off, Len(p) + 1)
  BY <1>5 DEF Gets
<1>7. /\ Begins(started, p, Len(q) + 1) => Begins(started, p, Len(p) + 1)
      /\ m.type = "start" => Begins(started, p, Len(p) + 1)
  BY <1>1, <1>5 DEF Begins
<1> QED BY <1>2, <1>4, <1>6, <1>7 DEF p

\* The messages once flush has sent n chunks behind q.
Behind(q, off, n, last) == q \o (Chunks(off, n) \o EndIf(last))

\* What it has sent, one by one.
Continues(p, q, off, n, last) ==
    /\ p \in Seq(Letter) /\ Len(q) \in Nat /\ Len(p) \in Nat
    /\ Len(p) = IF last THEN Len(q) + n + 1 ELSE Len(q) + n
    /\ \A i \in 1..Len(q) : p[i] = q[i]
    /\ \A j \in 1..n :
          p[Len(q) + j].type = "chunk" /\ p[Len(q) + j].at = off + j - 1 /\ p[Len(q) + j].n = 0
    /\ last => p[Len(q) + n + 1].type = "end" /\ p[Len(q) + n + 1].at = 0 /\ p[Len(q) + n + 1].n = 0
    /\ \A i \in 1..Len(p) : \/ i \in 1..Len(q)
                            \/ \E j \in 1..n : i = Len(q) + j
                            \/ last /\ i = Len(q) + n + 1

LEMMA Flushes ==
    ASSUME NEW off \in Nat, NEW q \in Seq(Letter), NEW n \in Nat, NEW last \in BOOLEAN
    PROVE  Continues(Behind(q, off, n, last), q, off, n, last)
<1> DEFINE p == q \o (Chunks(off, n) \o EndIf(last))
           to == off + n
           l == Len(q)
<1>1. /\ p \in Seq(Letter) /\ l \in Nat /\ Len(p) \in Nat
      /\ Len(p) = IF last THEN l + n + 1 ELSE l + n
      /\ \A i \in 1..l : p[i] = q[i]
      /\ \A j \in 1..n : p[l + j] = Chunk(off + j - 1)
      /\ last => p[l + n + 1] = Plain("end")
  <2> DEFINE c == Chunks(off, n)
             e == EndIf(last)
             r == c \o e
  <2>1. c \in Seq(Letter) /\ Len(c) = n /\ \A j \in 1..n : c[j] = Chunk(off + j - 1)
    <3>1. \A j \in 1..n : Chunk(off + j - 1) \in Letter
      <4>1. \A j \in 1..n : off + j - 1 \in Nat
        OBVIOUS
      <4> QED BY <4>1, Letters
    <3>2. c = [j \in 1..n |-> Chunk(off + j - 1)]
      BY DEF Chunks
    <3> HIDE DEF c
    <3> QED BY <3>1, <3>2
  <2>2. e \in Seq(Letter) /\ Len(e) = (IF last THEN 1 ELSE 0) /\ (last => e[1] = Plain("end"))
    <3>1. Plain("end") \in Letter
      BY Letters DEF MessageType
    <3> QED BY <3>1 DEF EndIf
  <2> HIDE DEF c, e
  <2>3. /\ r \in Seq(Letter) /\ Len(r) = n + Len(e) /\ (\A j \in 1..n : r[j] = c[j])
        /\ last => r[n + 1] = e[1]
    <3>1. /\ r \in Seq(Letter) /\ Len(r) = Len(c) + Len(e)
          /\ \A i \in 1..(Len(c) + Len(e)) : r[i] = IF i <= Len(c) THEN c[i] ELSE e[i - Len(c)]
      BY <2>1, <2>2, ConcatProperties
    <3> HIDE DEF r
    <3>2. \A j \in 1..n : j \in 1..(Len(c) + Len(e)) /\ j <= Len(c)
      BY <2>1, <2>2
    <3>3. last => n + 1 \in 1..(Len(c) + Len(e)) /\ ~(n + 1 <= Len(c)) /\ n + 1 - Len(c) = 1
      BY <2>1, <2>2
    <3>4. \A j \in 1..n : r[j] = c[j]
      BY <3>1, <3>2
    <3>5. last => r[n + 1] = e[1]
      BY <3>1, <3>3
    <3>6. Len(r) = n + Len(e)
      BY <2>1, <3>1
    <3> QED BY <3>1, <3>4, <3>5, <3>6
  <2> HIDE DEF r
  <2>4. /\ q \o r \in Seq(Letter) /\ Len(q \o r) = l + Len(r) /\ (\A i \in 1..l : (q \o r)[i] = q[i])
        /\ \A j \in 1..Len(r) : (q \o r)[l + j] = r[j]
    <3> HIDE DEF p, l, to
    <3>0. r \in Seq(Letter) /\ q \in Seq(Letter)
      BY <2>3
    <3>1. /\ q \o r \in Seq(Letter) /\ Len(q \o r) = Len(q) + Len(r)
          /\ \A i \in 1..(Len(q) + Len(r)) : (q \o r)[i] = IF i <= Len(q) THEN q[i] ELSE r[i - Len(q)]
      BY ONLY <3>0, Joined
    <3>2. Len(q) \in Nat /\ Len(r) \in Nat
      BY <2>3
    <3>3. \A i \in 1..Len(q) : i \in 1..(Len(q) + Len(r)) /\ i <= Len(q)
      BY <3>2
    <3>4. \A j \in 1..Len(r) : Len(q) + j \in 1..(Len(q) + Len(r)) /\ ~(Len(q) + j <= Len(q)) /\ Len(q) + j - Len(q) = j
      BY <3>2
    <3> QED BY <3>1, <3>3, <3>4 DEF l
  <2>5. p = q \o r /\ Len(r) = (IF last THEN n + 1 ELSE n) /\ l \in Nat
    BY <2>2, <2>3 DEF c, e, r
  <2>8. l = Len(q)
    OBVIOUS
  <2> HIDE DEF p, l
  <2>6. \A j \in 1..n : j \in 1..Len(r)
    BY <2>5
  <2>7. last => n + 1 \in 1..Len(r) /\ l + (n + 1) = l + n + 1
    BY <2>5
  <2>9. p \in Seq(Letter) /\ Len(p) = l + Len(r) /\ \A i \in 1..l : p[i] = q[i]
    BY <2>4, <2>5, <2>8
  <2>10. \A j \in 1..n : p[l + j] = Chunk(off + j - 1)
    BY <2>1, <2>3, <2>4, <2>5, <2>6
  <2>11. last => p[l + n + 1] = Plain("end")
    BY <2>2, <2>3, <2>4, <2>5, <2>7
  <2>12. Len(p) \in Nat /\ Len(p) = IF last THEN l + n + 1 ELSE l + n
    BY <2>5, <2>9
  <2> QED BY <2>5, <2>9, <2>10, <2>11, <2>12
<1>7. Behind(q, off, n, last) = p /\ l = Len(q)
  BY DEF Behind
<1> HIDE DEF p, l
<1>3. \A j \in 1..n : p[l + j].type = "chunk" /\ p[l + j].at = off + j - 1 /\ p[l + j].n = 0
  <2> TAKE j \in 1..n
  <2> DEFINE at == off + j - 1
  <2>1. at \in Nat /\ p[l + j] = Chunk(at)
    BY <1>1
  <2> HIDE DEF at
  <2>2. Chunk(at).type = "chunk" /\ Chunk(at).at = at /\ Chunk(at).n = 0
    BY <2>1, Letters, Uncredited
  <2> QED BY <2>1, <2>2 DEF at
<1>4. last => p[l + n + 1].type = "end" /\ p[l + n + 1].at = 0 /\ p[l + n + 1].n = 0
  BY <1>1, Letters, Uncredited DEF MessageType
<1>5. \A i \in 1..Len(p) : \/ i \in 1..l
                           \/ \E j \in 1..n : i = l + j
                           \/ last /\ i = l + n + 1
  <2> TAKE i \in 1..Len(p)
  <2>1. CASE i <= l
    BY <1>1, <2>1
  <2>2. CASE l < i /\ i <= l + n
    <3>1. i - l \in 1..n /\ i = l + (i - l)
      BY <1>1, <2>2
    <3> QED BY <3>1
  <2>3. CASE i > l + n
    BY <1>1, <2>3
  <2> QED BY <1>1, <2>1, <2>2, <2>3
<1>6. Continues(p, q, off, n, last)
  BY <1>1, <1>3, <1>4, <1>5, <1>7 DEF Continues
<1> QED BY <1>6, <1>7

\* What flush sends continues where the messages end.
LEMMA SendFlushed ==
    ASSUME NEW got, NEW started, NEW off \in Nat, NEW q \in Seq(Letter), NEW n \in Nat,
           NEW last \in BOOLEAN, got \in Nat, got <= off,
           InOrder(got, started, off, q), Gets(got, q, off, Len(q) + 1),
           n > 0 => Begins(started, q, Len(q) + 1),
           \A i \in 1..Len(q) : q[i].type # "end"
    PROVE  LET p == Behind(q, off, n, last) IN
           /\ InOrder(got, started, off + n, p)
           /\ Gets(got, p, off + n, Len(p) + 1)
           /\ Begins(started, q, Len(q) + 1) => Begins(started, p, Len(p) + 1)
<1> DEFINE p == Behind(q, off, n, last)
           l == Len(q)
           to == off + n
<1>0. Continues(p, q, off, n, last) /\ l = Len(q)
  BY Flushes
<1> HIDE DEF p, l
<1>1. /\ p \in Seq(Letter) /\ l \in Nat /\ Len(p) \in Nat
      /\ Len(p) = IF last THEN l + n + 1 ELSE l + n
      /\ \A i \in 1..l : p[i] = q[i]
  BY <1>0 DEF Continues
<1>3. \A j \in 1..n : p[l + j].type = "chunk" /\ p[l + j].at = off + j - 1
  BY <1>0 DEF Continues
<1>4. last => p[l + n + 1].type = "end"
  BY <1>0 DEF Continues
<1>5. \A i \in 1..Len(p) : \/ i \in 1..l
                           \/ \E j \in 1..n : i = l + j
                           \/ last /\ i = l + n + 1
  BY <1>0 DEF Continues
<1>2. /\ \A i \in 1..l : p[i].type = "chunk" =>
            got <= p[i].at /\ p[i].at < to /\ Gets(got, p, p[i].at, i) /\ Begins(started, p, i)
      /\ \A i, j \in 1..l : i < j /\ p[i].type = "chunk" /\ p[j].type = "chunk" => p[i].at < p[j].at
      /\ \A i \in 1..l : p[i].type = "end" => Gets(got, p, to, i)
      /\ Gets(got, p, off, l + 1)
      /\ Begins(started, q, l + 1) => Begins(started, p, l + 1)
  <2>1. l <= Len(p) /\ off <= to /\ to \in Nat
    BY <1>1
  <2> HIDE DEF to
  <2> QED BY <1>1, <2>1, Extends DEF l
\* Behind j of them, the server has off + j.
<1>6. \A j \in 0..n : Gets(got, p, off + j, l + j + 1)
  <2> TAKE j \in 0..n
  <2>1. CASE j = 0
    BY <1>1, <1>2, <2>1
  <2>2. CASE j # 0
    <3>1. j \in 1..n /\ l + j \in 1..(l + j + 1 - 1) /\ off + j - 1 = (off + j) - 1
      BY <1>1, <2>2
    <3> QED BY <1>3, <3>1 DEF Gets
  <2> QED BY <2>1, <2>2
<1>7. \A i \in Nat : i >= l + 1 /\ Begins(started, q, l + 1) => Begins(started, p, i)
  <2> TAKE i \in Nat
  <2> HAVE i >= l + 1 /\ Begins(started, q, l + 1)
  <2>1. Begins(started, p, l + 1) /\ l + 1 \in Nat
    BY <1>1, <1>2
  <2> QED BY <2>1, Further
<1>8. ASSUME NEW i \in 1..Len(p), p[i].type = "chunk"
      PROVE  got <= p[i].at /\ p[i].at < to /\ Gets(got, p, p[i].at, i) /\ Begins(started, p, i)
  <2>1. CASE i \in 1..l
    BY <1>2, <1>8, <2>1
  <2>2. CASE \E j \in 1..n : i = l + j
    <3>1. PICK j \in 1..n : i = l + j
      BY <2>2
    <3>0. p[i].at = off + j - 1
      BY <1>3, <3>1
    <3>2. p[i].at = off + (j - 1) /\ j - 1 \in 0..n /\ l + (j - 1) + 1 = i /\ i >= l + 1 /\ i \in Nat /\ n > 0
      <4>1. l \in Nat
        BY <1>1
      <4> QED BY <3>0, <3>1, <4>1
    <3>3. Gets(got, p, p[i].at, i)
      BY <1>6, <3>2
    <3>4. Begins(started, p, i)
      BY <1>7, <3>2 DEF l
    <3> QED BY <3>1, <3>2, <3>3, <3>4
  <2> QED BY <1>4, <1>5, <1>8, <2>1, <2>2
<1>9. ASSUME NEW i \in 1..Len(p), NEW j \in 1..Len(p), i < j, p[i].type = "chunk", p[j].type = "chunk"
      PROVE  p[i].at < p[j].at
  <2>1. j \in 1..l \/ \E b \in 1..n : j = l + b
    BY <1>4, <1>5, <1>9
  <2>2. CASE j \in 1..l
    <3>1. i \in 1..l
      BY <1>1, <1>9, <2>2
    <3> QED BY <1>2, <1>9, <2>2, <3>1
  <2>3. CASE \E b \in 1..n : j = l + b
    <3>1. PICK b \in 1..n : j = l + b
      BY <2>3
    <3>2. p[j].at = off + b - 1
      BY <1>3, <3>1
    <3>3. CASE i \in 1..l
      <4>1. p[i].at < off /\ p[i].at \in Nat
        <5>1. p[i] = q[i] /\ q[i] \in Letter
          BY <1>1, <3>3 DEF l
        <5>2. p[i].at < off
          BY <1>9, <3>3, <5>1 DEF InOrder, l
        <5> QED BY <5>1, <5>2 DEF Letter
      <4> QED BY <3>2, <4>1
    <3>4. CASE \E a \in 1..n : i = l + a
      <4>1. PICK a \in 1..n : i = l + a
        BY <3>4
      <4>2. p[i].at = off + a - 1
        BY <1>3, <4>1
      <4>3. a < b
        <5>1. l \in Nat
          BY <1>1
        <5> QED BY <1>9, <3>1, <4>1, <5>1
      <4> QED BY <3>2, <4>2, <4>3
    <3> QED BY <1>4, <1>5, <1>9, <3>3, <3>4
  <2> QED BY <2>1, <2>2, <2>3
<1>10. ASSUME NEW i \in 1..Len(p), p[i].type = "end"
       PROVE  Gets(got, p, to, i) /\ last
  <2>1. i \notin 1..l
    BY <1>1, <1>10 DEF l
  <2>2. last /\ i = l + n + 1
    BY <1>3, <1>5, <1>10, <2>1
  <2>3. n \in 0..n
    OBVIOUS
  <2> QED BY <1>6, <2>2, <2>3
<1>12. Gets(got, p, to, Len(p) + 1)
  <2>1. n \in 0..n /\ l + n + 1 \in Nat /\ Len(p) + 1 \in Nat /\ l + n + 1 <= Len(p) + 1
    BY <1>1
  <2>2. Gets(got, p, to, l + n + 1)
    BY <1>6, <2>1
  <2> HIDE DEF to
  <2> QED BY <2>1, <2>2, Further
<1>13. Begins(started, q, Len(q) + 1) => Begins(started, p, Len(p) + 1)
  BY <1>1, <1>7 DEF l
<1>14. InOrder(got, started, to, p)
  <2> HIDE DEF to
  <2> QED BY <1>8, <1>9, <1>10 DEF InOrder
<1> QED BY <1>12, <1>13, <1>14 DEF p, l

-----------------------------------------------------------------------------
(* Streams: what is complete is whole *)

\* The local server has come to the end of its answer, and all of it was sent.
Over == tunnel.st = "gone" /\ tunnel.over /\ tunnel.queue = 0

\* The end is sent behind everything else, and the browser is shown no end before.
EndsAreLast ==
    /\ \A i \in 1..Len(up) : up[i].type # "close" /\ (up[i].type = "end" => Over)
    /\ server.ended \/ server.st = "done" => Over /\ server.got = tunnel.offset
    /\ server.got <= tunnel.offset
    /\ tunnel.queue > 0 => tunnel.started

\* While the socket is open, the messages bring the server up to what was sent.
Arrives ==
    linked /\ tunnel.st # "gone" =>
        /\ Gets(server.got, up, tunnel.offset, Len(up) + 1)
        /\ tunnel.started => Begins(server.started, up, Len(up) + 1)

HttpInv ==
    kind = "http" =>
        /\ EndsAreLast
        /\ server.st = "open" => InOrder(server.got, server.started, tunnel.offset, up) /\ Arrives

LEMMA HttpInit == StreamInit => HttpInv
<1> SUFFICES ASSUME StreamInit
             PROVE  HttpInv
  OBVIOUS
<1>1. up = <<>> /\ Len(up) = 0 /\ server.got = 0 /\ tunnel.offset = 0 /\ ~server.ended
      /\ server.st = "open" /\ ~tunnel.started /\ tunnel.queue = 0
  BY DEF StreamInit
<1>2. 1..Len(up) = {}
  BY <1>1
<1>3. EndsAreLast
  BY <1>1, <1>2 DEF EndsAreLast
<1>4. InOrder(server.got, server.started, tunnel.offset, up) /\ Arrives
  BY <1>1, <1>2 DEF InOrder, Arrives, Gets
<1> QED BY <1>3, <1>4 DEF HttpInv

\* The steps of the server alone: what it knows of the response stays.
LEMMA ServerKeepsWhole ==
    ASSUME StreamTypes, HttpInv, kind = "http",
           Drain \/ SendChunk \/ SendEnd \/ BrowserCloses \/ ServerGivesUp \/ ServerDetaches
    PROVE  HttpInv'
<1>1. UNCHANGED <<kind, tunnel, up, linked>> /\ server \in ServerSide
  BY DEF Drain, SendChunk, SendEnd, BrowserCloses, ServerGivesUp, ServerDetaches, StreamTypes
<1>2. /\ server'.got = server.got /\ server'.started = server.started /\ server'.ended = server.ended
      /\ server'.st \in {server.st, "failed"} \/ (server'.st = "done" /\ server.ended)
  <2>1. CASE Drain
    <3> DEFINE s == [server EXCEPT !.pressed = FALSE]
    <3>1. s \in ServerSide /\ s.got = server.got /\ s.started = server.started /\ s.ended = server.ended
          /\ s.st = server.st
      BY <1>1 DEF ServerSide
    <3>2. server' = IF s.ended THEN Completed(s) ELSE Granted(s)
      BY <2>1 DEF Drain
    <3> HIDE DEF s
    <3> QED BY <3>1, <3>2, GrantTypes
  <2>2. CASE SendChunk \/ SendEnd \/ ServerGivesUp \/ ServerDetaches
    BY <1>1, <2>2 DEF SendChunk, SendEnd, ServerGivesUp, FailServer, ServerDetaches, ServerSide
  <2>3. CASE BrowserCloses
    BY <2>3 DEF BrowserCloses
  <2> QED BY <2>1, <2>2, <2>3
<1>3. EndsAreLast /\ (server'.st = "open" => server.st = "open")
  BY <1>2 DEF HttpInv
<1>4. EndsAreLast'
  BY <1>1, <1>2, <1>3 DEF EndsAreLast, Over
<1>5. ASSUME server'.st = "open"
      PROVE  InOrder(server'.got, server'.started, tunnel'.offset, up') /\ Arrives'
  <2>1. InOrder(server.got, server.started, tunnel.offset, up) /\ Arrives
    BY <1>3, <1>5 DEF HttpInv
  <2> QED BY <1>1, <1>2, <2>1 DEF Arrives
<1> QED BY <1>4, <1>5 DEF HttpInv

\* The server takes a message.
LEMMA ReceivingKeepsWhole ==
    ASSUME StreamTypes, HttpInv, kind = "http", ServerReceives
    PROVE  HttpInv'
<1> DEFINE m == Head(up)
<1>1. /\ up # <<>> /\ up \in Seq(Letter) /\ up' = Tail(up) /\ UNCHANGED <<kind, tunnel>> /\ kind' = "http"
      /\ Len(up) \in Nat /\ Len(up') = Len(up) - 1 /\ 1 \in 1..Len(up) /\ m = up[1]
      /\ \A i \in 1..Len(up') : i + 1 \in 1..Len(up) /\ up'[i] = up[i + 1]
  <2>1. up # <<>> /\ up \in Seq(Letter) /\ up' = Tail(up) /\ UNCHANGED <<kind, tunnel>> /\ kind' = "http"
    BY DEF ServerReceives, StreamTypes
  <2>2. /\ Len(up) \in Nat /\ Len(up) >= 1 /\ Len(Tail(up)) = Len(up) - 1
        /\ Head(up) = up[1] /\ \A i \in 1..(Len(up) - 1) : Tail(up)[i] = up[i + 1]
    BY <2>1, Tails
  <2> QED BY <2>1, <2>2
<1>2. /\ server \in ServerSide /\ tunnel \in TunnelSide /\ server.got \in Nat /\ tunnel.offset \in Nat
      /\ server.started \in BOOLEAN /\ server.owed \in Nat
  BY DEF StreamTypes, ServerSide, TunnelSide
<1>3. EndsAreLast
  BY DEF HttpInv
<1>4. \A i \in 1..Len(up') : up'[i].type # "close" /\ (up'[i].type = "end" => Over')
  BY <1>1, <1>3 DEF EndsAreLast, Over
<1> HIDE DEF m
\* Taken by nobody, or rejected: the tunnel's bytes do not reach the browser.
<1>5. ASSUME UNCHANGED server, server.st # "open"
      PROVE  HttpInv'
  BY <1>1, <1>3, <1>4, <1>5 DEF HttpInv, EndsAreLast, Over
<1>6. ASSUME server.st = "open", m.type # "chunk", server'.got = server.got, server'.st # "done",
             server'.ended = server.ended, server'.started \in BOOLEAN,
             server.started \/ m.type = "start" => server'.started, linked' => linked
      PROVE  HttpInv'
  <2>1. InOrder(server.got, server.started, tunnel.offset, up) /\ Arrives
    BY <1>6 DEF HttpInv
  <2>2. /\ InOrder(server.got, server'.started, tunnel.offset, up')
        /\ Gets(server.got, up, tunnel.offset, Len(up) + 1) => Gets(server.got, up', tunnel.offset, Len(up') + 1)
        /\ Begins(server.started, up, Len(up) + 1) => Begins(server'.started, up', Len(up') + 1)
    BY <1>1, <1>2, <1>6, <2>1, TakeOther DEF m
  <2>3. EndsAreLast'
    BY <1>1, <1>3, <1>4, <1>6 DEF EndsAreLast, Over
  <2>4. Arrives'
    BY <1>1, <1>6, <2>1, <2>2 DEF Arrives
  <2>5. InOrder(server'.got, server'.started, tunnel'.offset, up')
    BY <1>1, <1>6, <2>2
  <2> QED BY <2>3, <2>4, <2>5 DEF HttpInv
<1>7. ASSUME server.st = "open", m.type = "chunk"
      PROVE  HttpInv'
  <2>1. InOrder(server.got, server.started, tunnel.offset, up) /\ Arrives
    BY <1>7 DEF HttpInv
  <2>2. /\ server.started /\ m.at = server.got /\ server.got < tunnel.offset
        /\ InOrder(server.got + 1, server.started, tunnel.offset, up')
        /\ Gets(server.got, up, tunnel.offset, Len(up) + 1) =>
             Gets(server.got + 1, up', tunnel.offset, Len(up') + 1)
        /\ Begins(server.started, up', Len(up') + 1)
    BY <1>1, <1>2, <1>7, <2>1, TakeChunk DEF m
  <2>3. ServerChunk /\ linked' = linked
    BY <1>7, <2>2 DEF ServerReceives, ServerAccepts, m
  <2>4. /\ server'.got = server.got + 1 /\ server'.started = server.started
        /\ server'.ended = server.ended /\ server'.st \in {"open", "failed"}
    <3> DEFINE got == server.got + 1
               owed == server.owed + 1
               s == [server EXCEPT !.got = got, !.owed = owed]
    <3>1. got \in Nat /\ owed \in Nat
      BY <1>2
    <3>2. \/ server' = Granted(s)
          \/ server' = [s EXCEPT !.pressed = TRUE]
      BY <2>3 DEF ServerChunk
    <3> HIDE DEF got, owed
    <3>3. /\ s \in ServerSide /\ s.got = got /\ s.started = server.started /\ s.ended = server.ended
          /\ s.st = "open"
      BY <1>2, <1>7, <3>1 DEF ServerSide
    <3>4. LET r == [s EXCEPT !.pressed = TRUE]
          IN  r.got = s.got /\ r.started = s.started /\ r.ended = s.ended /\ r.st = s.st
      BY <3>3 DEF ServerSide
    <3> HIDE DEF s
    <3> QED BY <3>2, <3>3, <3>4, GrantTypes DEF got
  <2>5. ~server.ended
    BY <1>2, <1>3, <2>2 DEF EndsAreLast
  <2>6. EndsAreLast'
    BY <1>1, <1>2, <1>3, <1>4, <2>2, <2>4, <2>5 DEF EndsAreLast, Over
  <2>7. Arrives'
    BY <1>1, <2>1, <2>2, <2>3, <2>4 DEF Arrives
  <2>8. InOrder(server'.got, server'.started, tunnel'.offset, up')
    BY <1>1, <2>2, <2>4
  <2> QED BY <2>6, <2>7, <2>8 DEF HttpInv
\* The end is accepted: the browser has everything.
<1>8. ASSUME server.st = "open", m.type = "end", ServerEnd, linked' = linked
      PROVE  HttpInv'
  <2>1. InOrder(server.got, server.started, tunnel.offset, up)
    BY <1>8 DEF HttpInv
  <2>2. Over /\ server.got = tunnel.offset
    <3>1. Gets(server.got, up, tunnel.offset, 1) /\ 1..(1 - 1) = {}
      BY <1>1, <1>8, <2>1 DEF InOrder
    <3>2. Over
      BY <1>1, <1>3, <1>8 DEF EndsAreLast
    <3> QED BY <3>1, <3>2 DEF Gets
  <2>3. server'.got = server.got /\ server'.started = server.started
    <3> DEFINE s == [server EXCEPT !.ended = TRUE]
    <3>1. s \in ServerSide /\ s.got = server.got /\ s.started = server.started
      BY <1>2 DEF ServerSide
    <3>2. server' \in {s, Completed(s)}
      BY <1>8 DEF ServerEnd
    <3> HIDE DEF s
    <3> QED BY <3>1, <3>2, GrantTypes
  <2>4. EndsAreLast'
    BY <1>1, <1>3, <1>4, <2>2, <2>3 DEF EndsAreLast, Over
  <2>5. InOrder(server'.got, server'.started, tunnel'.offset, up')
    <3>1. m.type # "chunk" /\ (server.started \/ m.type = "start" => server.started)
      BY <1>8
    <3> QED BY <1>1, <1>2, <1>8, <2>1, <2>3, TakeOther DEF m
  <2>6. Arrives'
    BY <1>1, <2>2 DEF Arrives, Over
  <2> QED BY <2>4, <2>5, <2>6 DEF HttpInv
<1>9. CASE server.st # "open"
  BY <1>5, <1>9 DEF ServerReceives
<1>10. CASE server.st = "open"
  <2>1. CASE ~ServerAccepts(m)
    <3>1. UNCHANGED server /\ linked' = FALSE
      BY <1>10, <2>1 DEF ServerReceives, m
    <3>2. m.type = "start" => server.started
      BY <2>1 DEF ServerAccepts
    <3> QED BY <1>2, <1>6, <1>7, <1>10, <3>1, <3>2
  <2>2. CASE ServerAccepts(m)
    <3>1. UNCHANGED linked
      BY <1>10, <2>2 DEF ServerReceives, m
    <3>2. \/ m.type = "accepted" /\ server' = [server EXCEPT !.accepted = TRUE]
          \/ m.type = "start" /\ server' = [server EXCEPT !.started = TRUE]
          \/ m.type = "chunk"
          \/ m.type = "end" /\ ServerEnd
          \/ m.type = "error" /\ FailServer
          \/ m.type = "flow" /\ ServerFlow(m)
          \/ m.type = "close"
      BY <1>10, <2>2 DEF ServerReceives, m
    <3>3. m.type # "close"
      BY <1>1, <1>3 DEF EndsAreLast
    <3>4. CASE \/ m.type = "accepted" /\ server' = [server EXCEPT !.accepted = TRUE]
               \/ m.type = "start" /\ server' = [server EXCEPT !.started = TRUE]
               \/ m.type = "error" /\ FailServer
               \/ m.type = "flow" /\ ServerFlow(m)
      <4>1. /\ server'.got = server.got /\ server'.ended = server.ended /\ server'.st # "done"
            /\ server'.started \in BOOLEAN /\ (server.started \/ m.type = "start" => server'.started)
            /\ m.type # "chunk"
        BY <1>2, <1>10, <3>4 DEF FailServer, ServerFlow, ServerSide
      <4> QED BY <1>6, <1>10, <3>1, <4>1
    <3> QED BY <1>7, <1>8, <1>10, <3>1, <3>2, <3>3, <3>4
  <2> QED BY <2>1, <2>2
<1> QED BY <1>9, <1>10

\* The tunnel says something else, or nothing.
LEMMA SayingKeepsWhole ==
    ASSUME StreamTypes, HttpInv, kind = "http", UNCHANGED <<kind, server, linked>>,
           tunnel'.offset = tunnel.offset, tunnel'.queue = tunnel.queue, tunnel'.over = tunnel.over,
           tunnel.st = "gone" => tunnel'.st = "gone", tunnel.started => tunnel'.started,
           \/ up' = up
           \/ \E m \in Letter : /\ m.type \notin {"chunk", "end", "close"}
                                /\ up' = Append(up, m)
                                /\ tunnel'.started => tunnel.started \/ m.type = "start",
           linked /\ up' = up /\ tunnel'.started => tunnel.started
    PROVE  HttpInv'
<1>1. /\ EndsAreLast /\ up \in Seq(Letter) /\ server \in ServerSide /\ tunnel \in TunnelSide
      /\ tunnel.offset \in Nat
  BY DEF HttpInv, StreamTypes, TunnelSide
<1>2. CASE up' = up
  <2>1. EndsAreLast'
    BY <1>1, <1>2 DEF EndsAreLast, Over
  <2>2. server.st = "open" => InOrder(server.got, server.started, tunnel.offset, up) /\ Arrives
    BY DEF HttpInv
  <2>3. server.st = "open" => Arrives'
    BY <1>2, <2>2 DEF Arrives
  <2> QED BY <1>2, <2>1, <2>2, <2>3 DEF HttpInv
<1>3. CASE up' # up
  <2>1. PICK m \in Letter : /\ m.type \notin {"chunk", "end", "close"}
                            /\ up' = Append(up, m)
                            /\ tunnel'.started => tunnel.started \/ m.type = "start"
    BY <1>3
  <2>2. /\ Len(up) \in Nat /\ Len(up') = Len(up) + 1 /\ up'[Len(up')] = m
        /\ \A i \in 1..Len(up) : up'[i] = up[i]
    BY <1>1, <2>1, AppendProperties
  <2>3. \A i \in 1..Len(up') : up'[i].type # "close" /\ (up'[i].type = "end" => Over')
    <3> TAKE i \in 1..Len(up')
    <3>1. i \in 1..Len(up) \/ up'[i] = m
      BY <2>2
    <3> QED BY <1>1, <2>1, <2>2, <3>1 DEF EndsAreLast, Over
  <2>4. EndsAreLast'
    BY <1>1, <2>3 DEF EndsAreLast, Over
  <2>5. ASSUME server.st = "open"
        PROVE  InOrder(server.got, server.started, tunnel.offset, up') /\ Arrives'
    <3>1. InOrder(server.got, server.started, tunnel.offset, up) /\ Arrives
      BY <2>5 DEF HttpInv
    <3>2. /\ InOrder(server.got, server.started, tunnel.offset, up')
          /\ Gets(server.got, up, tunnel.offset, Len(up) + 1) =>
               Gets(server.got, up', tunnel.offset, Len(up') + 1)
          /\ Begins(server.started, up, Len(up) + 1) => Begins(server.started, up', Len(up') + 1)
          /\ m.type = "start" => Begins(server.started, up', Len(up') + 1)
      BY <1>1, <2>1, <3>1, SendOther
    <3> QED BY <2>1, <3>1, <3>2 DEF Arrives
  <2> QED BY <2>4, <2>5 DEF HttpInv
<1> QED BY <1>2, <1>3

\* The tunnel sends what the credit allows.
LEMMA FlushKeepsWhole ==
    ASSUME StreamTypes, HttpInv, kind = "http", UNCHANGED <<kind, server, linked>>,
           tunnel.st = "open", NEW t \in TunnelSide, Flush(t),
           t.offset = tunnel.offset, t.started = tunnel.started, t.queue > 0 => t.started
    PROVE  HttpInv'
<1>1. PICK n \in 0..t.queue :
             /\ tunnel' \in TunnelSide /\ up' \in Seq(Letter)
             /\ tunnel'.offset = t.offset + n /\ tunnel'.queue = t.queue - n
             /\ tunnel'.over = t.over /\ tunnel'.started = t.started
             /\ tunnel'.st \in {"open", "gone"} /\ (t.over /\ n = t.queue => tunnel'.st = "gone")
             /\ ~linked => up' = up
             /\ linked => up' = up \o (Chunks(t.offset, n) \o EndIf(t.over /\ n = t.queue))
  BY FlushSends
<1> DEFINE last == t.over /\ n = t.queue
           off == tunnel.offset
           to == off + n
           got == server.got
           started == server.started
<1>2. /\ t.queue \in Nat /\ n \in Nat /\ off \in Nat /\ got \in Nat /\ started \in BOOLEAN
      /\ t.over \in BOOLEAN /\ last \in BOOLEAN /\ up \in Seq(Letter)
  BY DEF StreamTypes, TunnelSide, ServerSide
<1>3. EndsAreLast /\ ~Over
  BY DEF HttpInv, Over
<1>4. \A i \in 1..Len(up) : up[i].type # "close" /\ up[i].type # "end"
  BY <1>3 DEF EndsAreLast
<1>5. ~server.ended /\ server.st # "done" /\ got <= off
  BY <1>3 DEF EndsAreLast
<1>6. tunnel'.offset = to /\ got <= to /\ off <= to /\ to \in Nat
  BY <1>1, <1>2, <1>5
<1>7. last => Over'
  BY <1>1, <1>2 DEF Over
<1>8. tunnel'.queue > 0 => tunnel'.started
  BY <1>1, <1>2
<1>9. linked => up' = Behind(up, off, n, last)
  BY <1>1 DEF Behind
<1>10. \A i \in 1..Len(up') : up'[i].type # "close" /\ (up'[i].type = "end" => last)
  <2>1. CASE ~linked
    BY <1>1, <1>4, <2>1
  <2>2. CASE linked
    <3> HIDE DEF off, last
    <3> TAKE i \in 1..Len(up')
    <3>1. Continues(up', up, off, n, last)
      BY <1>2, <1>9, <2>2, Flushes
    <3>2. i \in 1..Len(up) \/ (up'[i].type # "close" /\ (up'[i].type = "end" => last))
      BY <3>1 DEF Continues
    <3>3. i \in 1..Len(up) => up'[i] = up[i]
      BY <3>1 DEF Continues
    <3> QED BY <1>4, <3>2, <3>3
  <2> QED BY <2>1, <2>2
<1>11. EndsAreLast'
  <2>1. server' = server
    OBVIOUS
  <2> HIDE DEF last, to
  <2> QED BY <1>5, <1>6, <1>7, <1>8, <1>10, <2>1 DEF EndsAreLast
<1>12. ASSUME server.st = "open"
       PROVE  InOrder(got, started, to, up') /\ Arrives'
  <2>1. InOrder(got, started, off, up) /\ Arrives
    BY <1>12 DEF HttpInv
  <2>2. CASE ~linked
    <3>1. Len(up) <= Len(up)
      BY <1>2
    <3> HIDE DEF to, off, got, started
    <3>2. InOrder(got, started, to, up)
      <4>1. /\ \A i \in 1..Len(up) : up[i].type = "chunk" =>
                 got <= up[i].at /\ up[i].at < to /\ Gets(got, up, up[i].at, i) /\ Begins(started, up, i)
            /\ \A i, j \in 1..Len(up) : i < j /\ up[i].type = "chunk" /\ up[j].type = "chunk" => up[i].at < up[j].at
        BY <1>2, <1>4, <1>6, <2>1, <3>1, Extends
      <4> QED BY <1>4, <4>1 DEF InOrder
    <3> QED BY <1>1, <2>2, <3>2 DEF Arrives
  <2>3. CASE linked
    <3>1. Gets(got, up, off, Len(up) + 1) /\ (tunnel.started => Begins(started, up, Len(up) + 1))
      BY <2>1, <2>3 DEF Arrives
    <3>2. n > 0 => Begins(started, up, Len(up) + 1)
      BY <1>2, <3>1
    <3>3. /\ InOrder(got, started, off + n, up')
          /\ Gets(got, up', off + n, Len(up') + 1)
          /\ Begins(started, up, Len(up) + 1) => Begins(started, up', Len(up') + 1)
      <4> HIDE DEF off, last, got, started
      <4> DEFINE p == Behind(up, off, n, last)
      <4>1. /\ InOrder(got, started, off + n, p)
            /\ Gets(got, p, off + n, Len(p) + 1)
            /\ Begins(started, up, Len(up) + 1) => Begins(started, p, Len(p) + 1)
        BY <1>2, <1>4, <1>5, <2>1, <3>1, <3>2, SendFlushed
      <4>2. up' = p
        BY <1>9, <2>3
      <4> HIDE DEF p
      <4> QED BY <4>1, <4>2
    <3> QED BY <1>1, <1>6, <3>1, <3>3 DEF Arrives
  <2> QED BY <2>2, <2>3
<1> QED BY <1>6, <1>11, <1>12 DEF HttpInv

LEMMA SaidIs ==
    ASSUME StreamTypes, NEW m \in Letter, up' = Sends(up, <<m>>)
    PROVE  IF linked THEN up' = Append(up, m) ELSE up' = up
<1>1. up \in Seq(Letter)
  BY DEF StreamTypes
<1> QED BY <1>1, SendOne DEF Sends

LEMMA TunnelKeepsWhole ==
    ASSUME StreamTypes, HttpInv, kind = "http",
           \/ TunnelReceives \/ Flushed \/ LocalStarts \/ LocalEnds \/ LocalCloses \/ LocalFails
           \/ TunnelCloses \/ \E k \in 1..MaxResponse : LocalData(k)
    PROVE  HttpInv'
<1>1. UNCHANGED <<kind, server, linked>>
  BY DEF TunnelReceives, Flushed, LocalStarts, LocalEnds, LocalCloses, LocalFails, TunnelCloses, LocalData
<1>2. tunnel \in TunnelSide /\ tunnel.flushed \in Nat /\ up \in Seq(Letter) /\ down \in Seq(Letter)
  BY DEF StreamTypes, TunnelSide
<1>3. \A type \in {"accepted", "start", "error"} :
        Plain(type) \in Letter /\ Plain(type).type = type
  BY Letters DEF MessageType
<1>4. tunnel.queue > 0 => tunnel.started
  BY DEF HttpInv, EndsAreLast
\* What the tunnel keeps of the response when it only says something.
<1> DEFINE Keeps == /\ tunnel'.offset = tunnel.offset /\ tunnel'.queue = tunnel.queue
                    /\ tunnel'.over = tunnel.over
                    /\ tunnel.st = "gone" => tunnel'.st = "gone"
<1>5. ASSUME Keeps, tunnel'.started = tunnel.started,
             up' = up \/ \E m \in Letter : m.type \notin {"chunk", "end", "close"} /\ up' = Sends(up, <<m>>)
      PROVE  HttpInv'
  <2>1. \/ up' = up
        \/ \E m \in Letter : m.type \notin {"chunk", "end", "close"} /\ up' = Append(up, m)
    BY <1>5, SaidIs
  <2> QED BY <1>1, <1>5, <2>1, SayingKeepsWhole
<1>6. ASSUME FailTunnel
      PROVE  HttpInv'
  <2>1. Keeps /\ tunnel'.started = tunnel.started
    BY <1>2, <1>6 DEF FailTunnel, TunnelSide
  <2>2. up' = Sends(up, <<Plain("error")>>)
    BY <1>6 DEF FailTunnel
  <2> HIDE DEF Keeps
  <2>3. Plain("error") \in Letter /\ Plain("error").type \notin {"chunk", "end", "close"}
    BY <1>3
  <2> QED BY <1>5, <2>1, <2>2, <2>3
<1>7. ASSUME NEW t \in TunnelSide, Flush(t), tunnel.st = "open",
             t.offset = tunnel.offset, t.started = tunnel.started, t.queue > 0 => t.started
      PROVE  HttpInv'
  BY <1>1, <1>7, FlushKeepsWhole
<1>8. CASE TunnelReceives
  <2> DEFINE m == Head(down)
  <2>1. down # <<>> /\ m \in Letter
    BY <1>2, <1>8, HeadTailProperties DEF TunnelReceives
  <2>2. m.at \in Nat /\ m.n \in Nat
    BY <2>1 DEF Letter
  <2>3. \/ FailTunnel
        \/ /\ tunnel.st = "none" /\ tunnel' = [tunnel EXCEPT !.st = "open"]
           /\ up' = Sends(up, <<Plain("accepted")>>)
        \/ tunnel.st = "open" /\ Handles(m)
        \/ UNCHANGED tunnel /\ up' \in {up, Sends(up, <<Plain("error")>>)}
    BY <1>8 DEF TunnelReceives
  <2> HIDE DEF m
  <2>4. CASE tunnel.st = "open" /\ TunnelFlow(m)
    <3> DEFINE credit == Least(Window, tunnel.credit + m.n)
               at == m.at
               t == [tunnel EXCEPT !.ack = at, !.credit = credit]
    <3>1. credit \in Nat /\ at \in Nat
      <4>1. Window \in Nat /\ tunnel.credit + m.n \in Nat
        BY <1>2, <2>2, StreamAssumption DEF TunnelSide
      <4> QED BY <2>2, <4>1, LeastIs
    <3>2. Flush(t)
      BY <2>4 DEF TunnelFlow
    <3> HIDE DEF credit, at
    <3>3. /\ t \in TunnelSide /\ t.offset = tunnel.offset /\ t.started = tunnel.started
          /\ t.queue = tunnel.queue
      BY <1>2, <3>1 DEF TunnelSide
    <3> HIDE DEF t
    <3> QED BY <1>4, <1>7, <2>4, <3>2, <3>3
  <2>5. CASE /\ UNCHANGED up
             /\ \/ tunnel' = [tunnel EXCEPT !.taken = tunnel.taken + 1]
                \/ tunnel' = [tunnel EXCEPT !.asked = TRUE]
                \/ tunnel' = [tunnel EXCEPT !.st = "gone"]
                \/ tunnel' = [tunnel EXCEPT !.closing = TRUE]
    <3>1. Keeps /\ tunnel'.started = tunnel.started
      BY <1>2, <2>5 DEF TunnelSide
    <3> QED BY <1>5, <2>5, <3>1
  <2>6. CASE /\ tunnel.st = "none" /\ tunnel' = [tunnel EXCEPT !.st = "open"]
             /\ up' = Sends(up, <<Plain("accepted")>>)
    <3>1. Keeps /\ tunnel'.started = tunnel.started
      BY <1>2, <2>6 DEF TunnelSide
    <3> HIDE DEF Keeps
    <3>2. Plain("accepted") \in Letter /\ Plain("accepted").type \notin {"chunk", "end", "close"}
      BY <1>3
    <3> QED BY <1>5, <2>6, <3>1, <3>2
  <2>7. CASE UNCHANGED tunnel /\ up' \in {up, Sends(up, <<Plain("error")>>)}
    <3>1. Keeps /\ tunnel'.started = tunnel.started
      BY <2>7
    <3> HIDE DEF Keeps
    <3>2. Plain("error") \in Letter /\ Plain("error").type \notin {"chunk", "end", "close"}
      BY <1>3
    <3> QED BY <1>5, <2>7, <3>1, <3>2
  <2>8. CASE tunnel.st = "open" /\ Handles(m)
    BY <1>6, <2>4, <2>5, <2>8 DEF Handles
  <2> QED BY <1>6, <2>3, <2>6, <2>7, <2>8
<1>9. CASE Flushed
  <2> DEFINE flushed == tunnel.flushed + 1
  <2>1. tunnel' = [tunnel EXCEPT !.flushed = flushed] /\ up' = Sends(up, <<Flow(flushed, 1)>>) /\ flushed \in Nat
    BY <1>2, <1>9 DEF Flushed
  <2> HIDE DEF flushed
  <2>2. Keeps /\ tunnel'.started = tunnel.started
    BY <1>2, <2>1 DEF TunnelSide
  <2> HIDE DEF Keeps
  <2>3. Flow(flushed, 1) \in Letter /\ Flow(flushed, 1).type \notin {"chunk", "end", "close"}
    BY <2>1, Letters
  <2> QED BY <1>5, <2>1, <2>2, <2>3
<1>10. CASE LocalStarts
  <2>1. /\ tunnel' = [tunnel EXCEPT !.started = TRUE] /\ up' = Sends(up, <<Plain("start")>>)
        /\ UNCHANGED kind
    BY <1>10 DEF LocalStarts
  <2>2. Keeps /\ tunnel'.started
    BY <1>2, <2>1 DEF TunnelSide
  <2>3. Plain("start") \in Letter /\ Plain("start").type = "start"
    BY <1>3
  <2>4. IF linked THEN up' = Append(up, Plain("start")) ELSE up' = up
    BY <2>1, <2>3, SaidIs
  <2>5. linked => Append(up, Plain("start")) # up
    <3>1. Len(Append(up, Plain("start"))) = Len(up) + 1 /\ Len(up) \in Nat
      BY <1>2, <2>3, AppendProperties
    <3> QED BY <3>1
  <2>6. linked => \E m \in Letter : /\ m.type \notin {"chunk", "end", "close"}
                                    /\ up' = Append(up, m)
                                    /\ tunnel'.started => tunnel.started \/ m.type = "start"
    BY <2>3, <2>4
  <2>7. ~linked => up' = up
    BY <2>4
  <2>8. ~(linked /\ up' = up)
    BY <2>4, <2>5
  <2> QED BY <1>1, <2>2, <2>6, <2>7, <2>8, SayingKeepsWhole
<1>11. CASE LocalEnds
  <2> DEFINE t == [tunnel EXCEPT !.over = TRUE]
  <2>1. /\ t \in TunnelSide /\ t.offset = tunnel.offset /\ t.started = tunnel.started
        /\ t.queue = tunnel.queue
    BY <1>2 DEF TunnelSide
  <2>2. Flush(t) /\ tunnel.st = "open"
    BY <1>11 DEF LocalEnds
  <2> HIDE DEF t
  <2> QED BY <1>4, <1>7, <2>1, <2>2
<1>12. CASE LocalCloses
  BY <1>12 DEF LocalCloses
<1>13. CASE LocalFails
  BY <1>6, <1>13 DEF LocalFails
<1>14. CASE TunnelCloses
  <2>1. Keeps /\ tunnel'.started = tunnel.started /\ up' = up
    BY <1>2, <1>14 DEF TunnelCloses, TunnelSide
  <2> QED BY <1>5, <2>1
<1>15. CASE \E k \in 1..MaxResponse : LocalData(k)
  <2>1. PICK k \in 1..MaxResponse : LocalData(k)
    BY <1>15
  <2> DEFINE t == [tunnel EXCEPT !.queue = k]
  <2>2. k \in Nat
    BY StreamAssumption
  <2>3. t \in TunnelSide /\ t.offset = tunnel.offset /\ t.started = tunnel.started
    BY <1>2, <2>2 DEF TunnelSide
  <2>4. Flush(t) /\ tunnel.st = "open" /\ tunnel.started
    BY <2>1 DEF LocalData
  <2> HIDE DEF t
  <2> QED BY <1>7, <2>3, <2>4
<1> QED BY <1>8, <1>9, <1>10, <1>11, <1>12, <1>13, <1>14, <1>15

LEMMA BreakKeepsWhole ==
    ASSUME StreamTypes, HttpInv, kind = "http", Break
    PROVE  HttpInv'
<1>1. PICK n \in 0..Len(up) : up' = SubSeq(up, 1, n)
  BY DEF Break
<1>2. UNCHANGED <<kind, server, tunnel>> /\ ~linked' /\ up \in Seq(Letter)
  BY DEF Break, StreamTypes
<1>3. Len(up') = n /\ \A i \in 1..Len(up') : i \in 1..Len(up) /\ up'[i] = up[i]
  BY <1>1, <1>2, Prefixes
<1>4. EndsAreLast'
  BY <1>2, <1>3 DEF HttpInv, EndsAreLast, Over
<1>5. server.st = "open" => InOrder(server.got, server.started, tunnel.offset, up')
  BY <1>1, <1>2, PrefixInOrder DEF HttpInv
<1>6. Arrives'
  BY <1>2 DEF Arrives
<1> QED BY <1>2, <1>4, <1>5, <1>6 DEF HttpInv

LEMMA HttpStep ==
    ASSUME StreamTypes, HttpInv, [StreamNext]_streamVars
    PROVE  HttpInv'
<1>1. CASE kind # "http"
  <2>1. kind' = kind
    BY DEF StreamNext, streamVars, ServerReceives, Drain, SendChunk, SendEnd, BrowserCloses, ServerGivesUp,
           TunnelReceives, Flushed, LocalStarts, LocalEnds, LocalCloses, LocalFails, LocalData, Break,
           ServerDetaches, TunnelCloses
  <2> QED BY <1>1, <2>1 DEF HttpInv
<1>2. CASE kind = "http" /\ UNCHANGED streamVars
  BY <1>2 DEF streamVars, HttpInv, EndsAreLast, Arrives, Over
<1>3. CASE kind = "http" /\ StreamNext
  BY <1>3, ReceivingKeepsWhole, ServerKeepsWhole, TunnelKeepsWhole, BreakKeepsWhole DEF StreamNext
<1> QED BY <1>1, <1>2, <1>3

\* A response that the browser is shown as complete is the whole answer of the local
\* server, with every window and every cut of the socket.
THEOREM WholeWhenComplete == StreamSpec => []CompleteIsWhole
<1>1. StreamInit => StreamTypes /\ HttpInv
  BY StreamInitTypes, HttpInit
<1>2. StreamTypes /\ HttpInv /\ [StreamNext]_streamVars => StreamTypes' /\ HttpInv'
  BY StreamStepTypes, HttpStep
<1>3. StreamTypes /\ HttpInv => CompleteIsWhole
  BY DEF HttpInv, EndsAreLast, Over, CompleteIsWhole
<1> QED BY <1>1, <1>2, <1>3, PTL DEF StreamSpec

-----------------------------------------------------------------------------
(* Streams: what a queue says *)

\* p is what is left of q, or a part of its beginning.
Part(p, q) ==
    \E d \in Nat : Len(p) + d <= Len(q) /\ \A i \in 1..Len(p) : p[i] = q[i + d]

\* p is q with messages of these types behind it.
More(p, q, types) ==
    /\ Len(q) <= Len(p) /\ \A i \in 1..Len(q) : p[i] = q[i]
    /\ \A i \in 1..Len(p) : i > Len(q) => p[i].type \in types

\* The grants in q are about bytes between low and high, each about bytes behind
\* those of the grants before it.
Flows(low, high, q) ==
    /\ low <= high
    /\ \A i \in 1..Len(q) : q[i].type = "flow" => low <= q[i].at - q[i].n /\ q[i].at <= high
    /\ \A i, j \in 1..Len(q) : i < j /\ q[i].type = "flow" /\ q[j].type = "flow" =>
          q[i].at <= q[j].at - q[j].n

\* A message of this type is sent once, and is in q until it was heard.
Once(said, heard, type, q) ==
    /\ \A i \in 1..Len(q) : q[i].type = type => said /\ ~heard
    /\ heard => said
    /\ \A i, j \in 1..Len(q) : i < j /\ q[i].type = type => q[j].type # type

\* It was heard, or one of the first i - 1 messages of q is of this type.
Known(heard, type, q, i) == heard \/ \E k \in 1..(i - 1) : q[k].type = type

LEMMA Numbers ==
    ASSUME NEW q \in Seq(Letter)
    PROVE  /\ Len(q) \in Nat /\ DOMAIN q = 1..Len(q)
           /\ \A i \in 1..Len(q) : q[i] \in Letter /\ q[i].at \in Nat /\ q[i].n \in Nat
                                   /\ q[i].type \in MessageType
<1>1. \A i \in 1..Len(q) : q[i] \in Letter
  OBVIOUS
<1> QED BY <1>1 DEF Letter

LEMMA TailIsPart ==
    ASSUME NEW q \in Seq(Letter), q # <<>>
    PROVE  Tail(q) \in Seq(Letter) /\ Part(Tail(q), q)
<1>1. /\ Tail(q) \in Seq(Letter) /\ Len(q) \in Nat /\ Len(q) >= 1 /\ Len(Tail(q)) = Len(q) - 1
      /\ \A i \in 1..(Len(q) - 1) : Tail(q)[i] = q[i + 1]
  BY Tails
<1>2. Len(Tail(q)) + 1 <= Len(q) /\ \A i \in 1..Len(Tail(q)) : Tail(q)[i] = q[i + 1]
  BY <1>1
<1> QED BY <1>1, <1>2 DEF Part

LEMMA PrefixIsPart ==
    ASSUME NEW q \in Seq(Letter), NEW n \in 0..Len(q)
    PROVE  SubSeq(q, 1, n) \in Seq(Letter) /\ Part(SubSeq(q, 1, n), q)
<1> DEFINE p == SubSeq(q, 1, n)
<1>1. p \in Seq(Letter) /\ Len(p) = n /\ \A i \in 1..n : p[i] = q[i]
  BY Prefixes
<1> HIDE DEF p
<1>2. Len(p) + 0 <= Len(q) /\ \A i \in 1..Len(p) : p[i] = q[i + 0]
  BY <1>1
<1>3. Part(p, q)
  BY <1>2 DEF Part
<1> QED BY <1>1, <1>3 DEF p

LEMMA AppendIsMore ==
    ASSUME NEW q \in Seq(Letter), NEW m \in Letter
    PROVE  /\ Append(q, m) \in Seq(Letter) /\ More(Append(q, m), q, {m.type})
           /\ Len(Append(q, m)) = Len(q) + 1 /\ Append(q, m)[Len(q) + 1] = m
           /\ \A i \in 1..Len(q) : Append(q, m)[i] = q[i]
<1>1. /\ Append(q, m) \in Seq(Letter) /\ Len(q) \in Nat /\ Len(Append(q, m)) = Len(q) + 1
      /\ Append(q, m)[Len(q) + 1] = m
      /\ \A i \in 1..Len(q) : Append(q, m)[i] = q[i]
  BY AppendProperties
<1>2. \A i \in 1..(Len(q) + 1) : i > Len(q) => i = Len(q) + 1
  BY <1>1
<1> QED BY <1>1, <1>2 DEF More

LEMMA BehindIsMore ==
    ASSUME NEW q \in Seq(Letter), NEW off \in Nat, NEW n \in Nat, NEW last \in BOOLEAN
    PROVE  LET p == Behind(q, off, n, last) IN
           /\ p \in Seq(Letter) /\ More(p, q, {"chunk", "end"})
           /\ ~last => More(p, q, {"chunk"})
           /\ n = 0 => More(p, q, {"end"})
<1> DEFINE p == Behind(q, off, n, last)
<1>1. Continues(p, q, off, n, last)
  BY Flushes
<1> HIDE DEF p
<1>2. /\ p \in Seq(Letter) /\ Len(q) \in Nat /\ Len(p) \in Nat
      /\ Len(p) = IF last THEN Len(q) + n + 1 ELSE Len(q) + n
      /\ \A i \in 1..Len(q) : p[i] = q[i]
  BY <1>1 DEF Continues
<1>6. \A i \in 1..Len(p) : \/ i \in 1..Len(q)
                           \/ \E j \in 1..n : i = Len(q) + j
                           \/ last /\ i = Len(q) + n + 1
  BY <1>1 DEF Continues
<1>7. \A j \in 1..n : p[Len(q) + j].type = "chunk"
  BY <1>1 DEF Continues
<1>3. ASSUME NEW i \in 1..Len(p), i > Len(q)
      PROVE  (p[i].type = "chunk" /\ n > 0) \/ (p[i].type = "end" /\ last)
  <2>1. (\E j \in 1..n : i = Len(q) + j) \/ (last /\ i = Len(q) + n + 1)
    <3>1. i \notin 1..Len(q)
      BY <1>2, <1>3
    <3> QED BY <1>6, <3>1, Zenon
  <2>2. CASE \E j \in 1..n : i = Len(q) + j
    <3>1. PICK j \in 1..n : i = Len(q) + j
      BY <2>2
    <3>2. p[i].type = "chunk"
      BY <1>7, <3>1
    <3> QED BY <3>2
  <2>3. CASE last /\ i = Len(q) + n + 1
    BY <1>1, <2>3 DEF Continues
  <2> QED BY <2>1, <2>2, <2>3
<1>4. Len(q) <= Len(p)
  BY <1>2
<1>5. More(p, q, {"chunk", "end"}) /\ (~last => More(p, q, {"chunk"})) /\ (n = 0 => More(p, q, {"end"}))
  BY <1>2, <1>3, <1>4 DEF More
<1> QED BY <1>2, <1>5 DEF p

LEMMA PartFlows ==
    ASSUME NEW q \in Seq(Letter), NEW p \in Seq(Letter), Part(p, q), NEW low, NEW high, Flows(low, high, q)
    PROVE  Flows(low, high, p)
<1>1. PICK d \in Nat : Len(p) + d <= Len(q) /\ \A i \in 1..Len(p) : p[i] = q[i + d]
  BY DEF Part
<1>2. Len(p) \in Nat /\ Len(q) \in Nat
  OBVIOUS
<1>3. \A i \in 1..Len(p) : i + d \in 1..Len(q)
  BY <1>1, <1>2
<1>4. \A i, j \in 1..Len(p) : i < j => i + d < j + d
  BY <1>1
<1>5. \A i \in 1..Len(p) : p[i].type = "flow" => low <= p[i].at - p[i].n /\ p[i].at <= high
  BY <1>1, <1>3 DEF Flows
<1>6. ASSUME NEW i \in 1..Len(p), NEW j \in 1..Len(p), i < j, p[i].type = "flow", p[j].type = "flow"
      PROVE  p[i].at <= p[j].at - p[j].n
  BY <1>1, <1>3, <1>4, <1>6 DEF Flows
<1> QED BY <1>5, <1>6 DEF Flows

LEMMA PartOnce ==
    ASSUME NEW q \in Seq(Letter), NEW p \in Seq(Letter), Part(p, q), NEW said, NEW heard, NEW type,
           Once(said, heard, type, q)
    PROVE  Once(said, heard, type, p)
<1>1. PICK d \in Nat : Len(p) + d <= Len(q) /\ \A i \in 1..Len(p) : p[i] = q[i + d]
  BY DEF Part
<1>2. Len(p) \in Nat /\ Len(q) \in Nat
  OBVIOUS
<1>3. \A i \in 1..Len(p) : i + d \in 1..Len(q)
  BY <1>1, <1>2
<1>4. \A i, j \in 1..Len(p) : i < j => i + d < j + d
  BY <1>1
<1>5. \A i \in 1..Len(p) : p[i].type = type => said /\ ~heard
  BY <1>1, <1>3 DEF Once
<1>6. ASSUME NEW i \in 1..Len(p), NEW j \in 1..Len(p), i < j, p[i].type = type
      PROVE  p[j].type # type
  BY <1>1, <1>3, <1>4, <1>6 DEF Once
<1>7. heard => said
  BY DEF Once
<1> QED BY <1>5, <1>6, <1>7 DEF Once

LEMMA MoreFlows ==
    ASSUME NEW q \in Seq(Letter), NEW p \in Seq(Letter), NEW types, More(p, q, types), "flow" \notin types,
           NEW low, NEW high, Flows(low, high, q)
    PROVE  Flows(low, high, p)
<1>1. Len(p) \in Nat /\ Len(q) \in Nat
  OBVIOUS
<1>2. \A i \in 1..Len(p) : p[i].type = "flow" => i \in 1..Len(q) /\ p[i] = q[i]
  BY <1>1 DEF More
<1>3. \A i \in 1..Len(p) : p[i].type = "flow" => low <= p[i].at - p[i].n /\ p[i].at <= high
  BY <1>2 DEF Flows
<1>4. ASSUME NEW i \in 1..Len(p), NEW j \in 1..Len(p), i < j, p[i].type = "flow", p[j].type = "flow"
      PROVE  p[i].at <= p[j].at - p[j].n
  BY <1>2, <1>4 DEF Flows
<1> QED BY <1>3, <1>4 DEF Flows

LEMMA MoreOnce ==
    ASSUME NEW q \in Seq(Letter), NEW p \in Seq(Letter), NEW types, More(p, q, types), NEW type, type \notin types,
           NEW said, NEW heard, Once(said, heard, type, q)
    PROVE  Once(said, heard, type, p)
<1>1. Len(p) \in Nat /\ Len(q) \in Nat
  OBVIOUS
<1>2. \A i \in 1..Len(p) : p[i].type = type => i \in 1..Len(q) /\ p[i] = q[i]
  BY <1>1 DEF More
<1>3. \A i \in 1..Len(p) : p[i].type = type => said /\ ~heard
  BY <1>2 DEF Once
<1>4. ASSUME NEW i \in 1..Len(p), NEW j \in 1..Len(p), i < j, p[i].type = type
      PROVE  p[j].type # type
  BY <1>2, <1>4 DEF Once
<1>5. heard => said
  BY DEF Once
<1> QED BY <1>3, <1>4, <1>5 DEF Once

LEMMA WiderFlows ==
    ASSUME NEW q \in Seq(Letter), NEW low \in Int, NEW high \in Int, NEW from \in Int, NEW to \in Int,
           from <= low, high <= to, Flows(low, high, q)
    PROVE  Flows(from, to, q)
<1>1. \A i \in 1..Len(q) : q[i].at \in Nat /\ q[i].n \in Nat
  BY Numbers
<1>2. \A i \in 1..Len(q) : q[i].type = "flow" => from <= q[i].at - q[i].n /\ q[i].at <= to
  BY <1>1 DEF Flows
<1> QED BY <1>2 DEF Flows

\* A grant goes behind the others: it is about what no other is about.
LEMMA AppendFlow ==
    ASSUME NEW q \in Seq(Letter), NEW low \in Int, NEW high \in Int, Flows(low, high, q),
           NEW at \in Nat, NEW n \in Nat, high <= at - n
    PROVE  Flows(low, at, Append(q, Flow(at, n)))
<1> DEFINE m == Flow(at, n)
           p == Append(q, m)
<1>1. m \in Letter /\ m.type = "flow" /\ m.at = at /\ m.n = n
  BY Letters DEF Flow
<1> HIDE DEF m
<1>2. /\ Len(p) = Len(q) + 1 /\ p[Len(q) + 1] = m /\ \A i \in 1..Len(q) : p[i] = q[i]
  BY <1>1, AppendIsMore
<1>3. Len(q) \in Nat /\ \A i \in 1..Len(q) : q[i].at \in Nat /\ q[i].n \in Nat
  BY Numbers
<1> HIDE DEF p
<1>4. \A i \in 1..Len(p) : i \in 1..Len(q) \/ i = Len(q) + 1
  BY <1>2, <1>3
<1>5. low <= at - n /\ low <= at /\ high <= at
  BY DEF Flows
<1>6. ASSUME NEW i \in 1..Len(p), p[i].type = "flow"
      PROVE  low <= p[i].at - p[i].n /\ p[i].at <= at
  <2>1. CASE i = Len(q) + 1
    BY <1>1, <1>2, <1>5, <2>1
  <2>2. CASE i \in 1..Len(q)
    <3>1. p[i] = q[i] /\ low <= q[i].at - q[i].n /\ q[i].at <= high /\ q[i].at \in Nat
      BY <1>2, <1>3, <1>6, <2>2 DEF Flows
    <3> QED BY <1>5, <3>1
  <2> QED BY <1>4, <2>1, <2>2
<1>7. ASSUME NEW i \in 1..Len(p), NEW j \in 1..Len(p), i < j, p[i].type = "flow", p[j].type = "flow"
      PROVE  p[i].at <= p[j].at - p[j].n
  <2>1. i \in 1..Len(q)
    BY <1>2, <1>3, <1>4, <1>7
  <2>2. CASE j = Len(q) + 1
    <3>1. p[i] = q[i] /\ q[i].at <= high /\ q[i].at \in Nat
      BY <1>2, <1>3, <1>7, <2>1 DEF Flows
    <3> QED BY <1>1, <1>2, <2>2, <3>1
  <2>3. CASE j \in 1..Len(q)
    BY <1>2, <1>7, <2>1, <2>3 DEF Flows
  <2> QED BY <1>4, <2>2, <2>3
<1>8. Flows(low, at, p)
  BY <1>5, <1>6, <1>7 DEF Flows
<1> QED BY <1>8 DEF p, m

\* The first grant is taken.
LEMMA TakeFlow ==
    ASSUME NEW q \in Seq(Letter), q # <<>>, NEW low \in Int, NEW high \in Int, Flows(low, high, q),
           Head(q).type = "flow"
    PROVE  /\ low <= Head(q).at - Head(q).n /\ Head(q).at <= high
           /\ Flows(Head(q).at, high, Tail(q))
<1> DEFINE p == Tail(q)
           m == Head(q)
<1>1. /\ p \in Seq(Letter) /\ Len(q) \in Nat /\ Len(q) >= 1 /\ Len(p) = Len(q) - 1
      /\ m = q[1] /\ \A i \in 1..(Len(q) - 1) : p[i] = q[i + 1]
  BY Tails
<1>2. 1 \in 1..Len(q)
  BY <1>1
<1>3. low <= m.at - m.n /\ m.at <= high
  BY <1>1, <1>2 DEF Flows
<1>4. \A i \in 1..Len(q) : q[i].at \in Nat /\ q[i].n \in Nat
  BY Numbers
<1>5. \A i \in 1..Len(p) : i + 1 \in 1..Len(q) /\ p[i] = q[i + 1] /\ 1 < i + 1
  BY <1>1
<1> HIDE DEF p, m
<1>6. ASSUME NEW i \in 1..Len(p), p[i].type = "flow"
      PROVE  m.at <= p[i].at - p[i].n /\ p[i].at <= high
  <2>1. i + 1 \in 1..Len(q) /\ p[i] = q[i + 1] /\ 1 < i + 1
    BY <1>5
  <2> QED BY <1>1, <1>2, <1>6, <2>1 DEF Flows, m
<1>7. ASSUME NEW i \in 1..Len(p), NEW j \in 1..Len(p), i < j, p[i].type = "flow", p[j].type = "flow"
      PROVE  p[i].at <= p[j].at - p[j].n
  <2>1. i + 1 \in 1..Len(q) /\ p[i] = q[i + 1] /\ j + 1 \in 1..Len(q) /\ p[j] = q[j + 1] /\ i + 1 < j + 1
    BY <1>5, <1>7
  <2> QED BY <1>7, <2>1 DEF Flows
<1>8. Flows(m.at, high, p)
  BY <1>3, <1>6, <1>7 DEF Flows
<1> QED BY <1>3, <1>8 DEF p, m

\* The message is said for the first time.
LEMMA AppendOnce ==
    ASSUME NEW q \in Seq(Letter), NEW m \in Letter, NEW heard, Once(FALSE, heard, m.type, q)
    PROVE  Once(TRUE, heard, m.type, Append(q, m))
<1> DEFINE p == Append(q, m)
<1>1. Len(q) \in Nat /\ Len(p) = Len(q) + 1 /\ \A i \in 1..Len(q) : p[i] = q[i]
  BY AppendIsMore
<1> HIDE DEF p
<1>2. \A i \in 1..Len(p) : i \in 1..Len(q) \/ i = Len(q) + 1
  BY <1>1
<1>3. ~heard /\ \A i \in 1..Len(q) : q[i].type # m.type
  BY DEF Once
<1>4. \A i, j \in 1..Len(p) : i < j => i \in 1..Len(q)
  BY <1>1
<1>5. \A i, j \in 1..Len(p) : i < j /\ p[i].type = m.type => p[j].type # m.type
  BY <1>1, <1>3, <1>4
<1> QED BY <1>3, <1>5 DEF Once, p

\* It is heard: there is no other.
LEMMA TakeOnce ==
    ASSUME NEW q \in Seq(Letter), q # <<>>, NEW said, NEW heard, Once(said, heard, Head(q).type, q)
    PROVE  said /\ ~heard /\ Once(said, TRUE, Head(q).type, Tail(q))
<1> DEFINE p == Tail(q)
           m == Head(q)
<1>1. /\ Len(q) \in Nat /\ Len(q) >= 1 /\ Len(p) = Len(q) - 1
      /\ m = q[1] /\ \A i \in 1..(Len(q) - 1) : p[i] = q[i + 1]
  BY Tails
<1>2. 1 \in 1..Len(q)
  BY <1>1
<1>3. \A i \in 1..Len(p) : i + 1 \in 1..Len(q) /\ p[i] = q[i + 1] /\ 1 < i + 1
  BY <1>1
<1>4. said /\ ~heard
  BY <1>1, <1>2 DEF Once
<1>5. \A i \in 1..Len(p) : p[i].type # m.type
  BY <1>1, <1>2, <1>3 DEF Once
<1> HIDE DEF p, m
<1>6. Once(said, TRUE, m.type, p)
  BY <1>4, <1>5 DEF Once
<1> QED BY <1>4, <1>6 DEF p, m

\* One message is taken from before the i-th one.
LEMMA TakeKnown ==
    ASSUME NEW q \in Seq(Letter), q # <<>>, NEW heard, NEW known, NEW type,
           heard \/ Head(q).type = type => known, NEW i \in Nat, i <= Len(q),
           Known(heard, type, q, i + 1)
    PROVE  Known(known, type, Tail(q), i)
<1>1. /\ Len(q) \in Nat /\ Len(q) >= 1 /\ Head(q) = q[1] /\ \A k \in 1..(Len(q) - 1) : Tail(q)[k] = q[k + 1]
  BY Tails
<1>2. ASSUME NEW k \in 1..i, q[k].type = type
      PROVE  known \/ \E l \in 1..(i - 1) : Tail(q)[l].type = type
  <2>1. CASE k = 1
    BY <1>1, <1>2, <2>1
  <2>2. CASE k # 1
    <3>1. k - 1 \in 1..(i - 1) /\ Tail(q)[k - 1] = q[k]
      BY <1>1, <2>2
    <3> QED BY <1>2, <3>1
  <2> QED BY <2>1, <2>2
<1> QED BY <1>2 DEF Known

\* What is behind the i-th message does not matter.
LEMMA SameKnown ==
    ASSUME NEW q, NEW p, NEW i \in Nat, NEW j \in Nat, i <= j, \A k \in 1..(i - 1) : p[k] = q[k],
           NEW heard, NEW type, Known(heard, type, q, i)
    PROVE  Known(heard, type, p, j)
<1>1. \A k \in 1..(i - 1) : k \in 1..(j - 1)
  OBVIOUS
<1> QED BY <1>1 DEF Known

-----------------------------------------------------------------------------
(* Streams: what a step counts *)

\* What is sent when the socket is open.
Added(channel, m) == IF linked THEN Append(channel, m) ELSE channel

\* The server counts nothing; it may tell the tunnel that the stream is over.
ServerQuiet ==
    /\ server'.got = server.got /\ server'.owed = server.owed /\ server'.sent = server.sent
    /\ server'.credit = server.credit /\ server'.asked = server.asked
    /\ \/ down' = down
       \/ \E type \in {"cancel", "close"} : down' = Added(down, Plain(type))

\* A chunk, or a frame, of the browser.
ServerSendsChunk ==
    /\ server'.got = server.got /\ server'.owed = server.owed /\ server'.asked = server.asked
    /\ server.sent < body /\ server'.sent = server.sent + 1
    /\ server.credit > 0 /\ server'.credit = server.credit - 1
    /\ down' = Added(down, Chunk(server.sent))

ServerSendsEnd ==
    /\ server'.got = server.got /\ server'.owed = server.owed /\ server'.sent = server.sent
    /\ server'.credit = server.credit
    /\ ~server.asked /\ server'.asked = TRUE /\ server.sent = body
    /\ down' = Added(down, Plain("end"))

\* Chunks of the response: got, and granted or owed.
ServerGets(k) ==
    /\ server'.got = server.got + k /\ server'.sent = server.sent
    /\ server'.credit = server.credit /\ server'.asked = server.asked
    /\ k = 0 \/ kind = "http"
    /\ \/ server'.owed = server.owed + k /\ down' = down
       \/ server'.owed = 0 /\ server.owed + k = 0 /\ down' = down
       \/ server'.owed = 0 /\ down' = Added(down, Flow(server.got + k, server.owed + k))

\* A frame of the response.
ServerGetsFrame ==
    /\ server'.got = server.got + 1 /\ server'.owed = server.owed /\ server'.sent = server.sent
    /\ server'.credit = server.credit /\ server'.asked = server.asked
    /\ kind = "websocket" /\ down' = Added(down, Flow(server.got + 1, 1))

\* A grant of the tunnel.
ServerCredited(n) ==
    /\ server'.got = server.got /\ server'.owed = server.owed /\ server'.sent = server.sent
    /\ server'.asked = server.asked /\ down' = down
    /\ server'.credit \in Nat /\ server'.credit <= server.credit + n
    /\ server.credit <= Window => server'.credit <= Window

\* What the server does with a message that it takes.
ServerTakes(m) ==
    /\ server'.started = IF m.type = "start" THEN TRUE ELSE server.started
    /\ server'.accepted = IF m.type = "accepted" THEN TRUE ELSE server.accepted
    /\ \/ m.type \notin {"chunk", "flow"} /\ (ServerQuiet \/ ServerGets(0))
       \/ m.type = "chunk" /\ (ServerGets(1) \/ ServerGetsFrame)
       \/ m.type = "flow" /\ ServerCredited(m.n)

LEMMA SentOnSocket ==
    ASSUME NEW channel \in Seq(Letter), NEW m \in Letter
    PROVE  Sends(channel, <<m>>) = Added(channel, m) /\ Sends(channel, <<>>) = channel
  BY SendOne DEF Sends, Added

\* A grant is for what is owed.
LEMMA GrantCounts ==
    ASSUME StreamTypes, NEW s \in ServerSide
    PROVE  /\ Granted(s).owed = 0 /\ Granted(s).got = s.got /\ Granted(s).sent = s.sent
           /\ Granted(s).credit = s.credit /\ Granted(s).asked = s.asked
           /\ Completed(s).owed = 0 /\ Completed(s).got = s.got /\ Completed(s).sent = s.sent
           /\ Completed(s).credit = s.credit /\ Completed(s).asked = s.asked
           /\ Sends(down, Grant(s)) = IF s.owed = 0 THEN down ELSE Added(down, Flow(s.got, s.owed))
<1>1. /\ Granted(s) \in ServerSide
      /\ Granted(s).owed = 0 /\ Granted(s).got = s.got /\ Granted(s).sent = s.sent
      /\ Granted(s).credit = s.credit /\ Granted(s).asked = s.asked
  BY DEF Granted, ServerSide
<1>2. /\ Completed(s).owed = Granted(s).owed /\ Completed(s).got = Granted(s).got
      /\ Completed(s).sent = Granted(s).sent /\ Completed(s).credit = Granted(s).credit
      /\ Completed(s).asked = Granted(s).asked
  BY <1>1 DEF Completed, ServerSide
<1>3. Flow(s.got, s.owed) \in Letter /\ down \in Seq(Letter)
  BY Letters DEF ServerSide, StreamTypes
<1>4. Sends(down, Grant(s)) = IF s.owed = 0 THEN down ELSE Added(down, Flow(s.got, s.owed))
  BY <1>3, SentOnSocket DEF Grant
<1> QED BY <1>1, <1>2, <1>4

LEMMA ServerActs ==
    ASSUME StreamTypes, Drain \/ SendChunk \/ SendEnd \/ BrowserCloses \/ ServerGivesUp \/ ServerDetaches
    PROVE  /\ UNCHANGED <<kind, body, tunnel, up, linked>>
           /\ server'.started = server.started /\ server'.accepted = server.accepted
           /\ server'.st = "open" => server.st = "open"
           /\ ServerQuiet \/ ServerSendsChunk \/ ServerSendsEnd \/ ServerGets(0)
<1>1. UNCHANGED <<kind, body, tunnel, up, linked>> /\ server \in ServerSide /\ down \in Seq(Letter)
  BY DEF Drain, SendChunk, SendEnd, BrowserCloses, ServerGivesUp, ServerDetaches, StreamTypes
<1>2. server.got \in Nat /\ server.owed \in Nat /\ server.sent \in Nat /\ server.credit \in Nat
  BY <1>1 DEF ServerSide
<1>3. \A type \in MessageType : Sends(down, <<Plain(type)>>) = Added(down, Plain(type))
  BY <1>1, Letters, SentOnSocket
<1>4. CASE Drain
  <2> DEFINE s == [server EXCEPT !.pressed = FALSE]
  <2>1. /\ s \in ServerSide /\ s.got = server.got /\ s.owed = server.owed /\ s.sent = server.sent
        /\ s.credit = server.credit /\ s.asked = server.asked /\ s.started = server.started
        /\ s.accepted = server.accepted /\ s.st = server.st
    BY <1>1 DEF ServerSide
  <2>2. /\ server.st = "open" /\ server' = IF s.ended THEN Completed(s) ELSE Granted(s)
        /\ down' = Sends(down, Grant(s))
    BY <1>4 DEF Drain
  <2> HIDE DEF s
  <2>3. /\ Granted(s).started = s.started /\ Granted(s).accepted = s.accepted
        /\ Completed(s).started = s.started /\ Completed(s).accepted = s.accepted
    <3>1. /\ Granted(s) \in ServerSide /\ Granted(s).started = s.started
          /\ Granted(s).accepted = s.accepted
      BY <2>1 DEF Granted, ServerSide
    <3> QED BY <3>1 DEF Completed, ServerSide
  <2>4. /\ server'.owed = 0 /\ server'.got = s.got /\ server'.sent = s.sent /\ server'.credit = s.credit
        /\ server'.asked = s.asked /\ server'.started = s.started /\ server'.accepted = s.accepted
        /\ down' = IF s.owed = 0 THEN down ELSE Added(down, Flow(s.got, s.owed))
    BY <2>1, <2>2, <2>3, GrantCounts
  <2>5. ServerGets(0)
    BY <1>2, <2>1, <2>4 DEF ServerGets
  <2> QED BY <1>1, <2>1, <2>2, <2>4, <2>5
<1>5. CASE SendChunk
  <2>1. /\ server' = [server EXCEPT !.sent = server.sent + 1, !.credit = server.credit - 1]
        /\ down' = Added(down, Chunk(server.sent)) /\ server.st = "open" /\ server.sent < body
        /\ server.credit > 0
    BY <1>1, <1>2, <1>5, Letters, SentOnSocket DEF SendChunk
  <2>2. /\ server'.sent = server.sent + 1 /\ server'.credit = server.credit - 1
        /\ server'.got = server.got /\ server'.owed = server.owed /\ server'.asked = server.asked
        /\ server'.started = server.started /\ server'.accepted = server.accepted
    BY <1>1, <2>1 DEF ServerSide
  <2>3. ServerSendsChunk
    BY <2>1, <2>2 DEF ServerSendsChunk
  <2> QED BY <1>1, <2>1, <2>2, <2>3
<1>6. CASE SendEnd
  <2>1. /\ server' = [server EXCEPT !.asked = TRUE] /\ down' = Added(down, Plain("end"))
        /\ ~server.asked /\ server.sent = body
    BY <1>3, <1>6 DEF SendEnd, MessageType
  <2>2. /\ server'.sent = server.sent /\ server'.credit = server.credit /\ server'.st = server.st
        /\ server'.got = server.got /\ server'.owed = server.owed /\ server'.asked = TRUE
        /\ server'.started = server.started /\ server'.accepted = server.accepted
    BY <1>1, <2>1 DEF ServerSide
  <2>3. ServerSendsEnd
    BY <2>1, <2>2 DEF ServerSendsEnd
  <2> QED BY <1>1, <2>2, <2>3
<1>7. CASE BrowserCloses \/ ServerGivesUp \/ ServerDetaches
  <2>1. /\ \E st \in {"done", "failed"} : server' = [server EXCEPT !.st = st]
        /\ server.st = "open"
        /\ down' = down \/ \E type \in {"cancel", "close"} : down' = Added(down, Plain(type))
    BY <1>3, <1>7 DEF BrowserCloses, ServerGivesUp, FailServer, ServerDetaches, MessageType
  <2>2. /\ server'.sent = server.sent /\ server'.credit = server.credit
        /\ server'.got = server.got /\ server'.owed = server.owed /\ server'.asked = server.asked
        /\ server'.started = server.started /\ server'.accepted = server.accepted
    BY <1>1, <2>1 DEF ServerSide
  <2>3. ServerQuiet
    BY <2>1, <2>2 DEF ServerQuiet
  <2> QED BY <1>1, <2>1, <2>2, <2>3
<1> QED BY <1>4, <1>5, <1>6, <1>7

LEMMA ServerHears ==
    ASSUME StreamTypes, ServerReceives
    PROVE  /\ up # <<>> /\ up' = Tail(up) /\ UNCHANGED <<kind, body, tunnel>>
           /\ server'.st = "open" => server.st = "open"
           /\ \/ server.st # "open" /\ UNCHANGED <<server, down, linked>>
              \/ server.st = "open" /\ ~ServerAccepts(Head(up)) /\ UNCHANGED <<server, down>>
              \/ server.st = "open" /\ ServerAccepts(Head(up)) /\ UNCHANGED linked /\ ServerTakes(Head(up))
<1> DEFINE m == Head(up)
<1>1. /\ up # <<>> /\ up' = Tail(up) /\ UNCHANGED <<kind, body, tunnel>> /\ m \in Letter
      /\ server \in ServerSide /\ down \in Seq(Letter) /\ kind \in {"http", "websocket"}
  BY Tails, StreamAssumption DEF ServerReceives, StreamTypes
<1>2. server.got \in Nat /\ server.owed \in Nat /\ server.sent \in Nat /\ server.credit \in Nat
      /\ m.n \in Nat /\ m.type \in MessageType /\ server.started \in BOOLEAN /\ server.accepted \in BOOLEAN
  BY <1>1 DEF ServerSide, Letter
<1>3. \/ server.st # "open" /\ UNCHANGED <<server, down, linked>>
      \/ server.st = "open" /\ ~ServerAccepts(m) /\ UNCHANGED <<server, down>>
      \/ /\ server.st = "open" /\ ServerAccepts(m) /\ UNCHANGED linked
         /\ \/ m.type = "accepted" /\ server' = [server EXCEPT !.accepted = TRUE] /\ UNCHANGED down
            \/ m.type = "start" /\ server' = [server EXCEPT !.started = TRUE] /\ UNCHANGED down
            \/ m.type = "chunk" /\ kind = "http" /\ ServerChunk
            \/ m.type = "chunk" /\ kind = "websocket" /\ ServerFrame
            \/ m.type = "end" /\ ServerEnd
            \/ m.type = "error" /\ FailServer
            \/ m.type = "flow" /\ ServerFlow(m)
            \/ m.type = "close" /\ server' = [server EXCEPT !.st = "done"] /\ UNCHANGED down
  BY DEF ServerReceives
<1> HIDE DEF m
<1>4. \A type \in MessageType : Sends(down, <<Plain(type)>>) = Added(down, Plain(type))
  BY <1>1, Letters, SentOnSocket
<1>5. ASSUME \/ m.type = "accepted" /\ server' = [server EXCEPT !.accepted = TRUE] /\ UNCHANGED down
             \/ m.type = "start" /\ server' = [server EXCEPT !.started = TRUE] /\ UNCHANGED down
             \/ m.type = "close" /\ server' = [server EXCEPT !.st = "done"] /\ UNCHANGED down
             \/ m.type = "error" /\ FailServer
      PROVE  ServerTakes(m)
  <2>1. /\ server'.got = server.got /\ server'.owed = server.owed /\ server'.sent = server.sent
        /\ server'.credit = server.credit /\ server'.asked = server.asked
        /\ server'.started = IF m.type = "start" THEN TRUE ELSE server.started
        /\ server'.accepted = IF m.type = "accepted" THEN TRUE ELSE server.accepted
    BY <1>1, <1>2, <1>5 DEF ServerSide, FailServer
  <2>2. down' = down \/ down' = Added(down, Plain("cancel"))
    BY <1>4, <1>5 DEF FailServer, MessageType
  <2>3. ServerQuiet
    BY <2>1, <2>2 DEF ServerQuiet
  <2> QED BY <1>5, <2>1, <2>3 DEF ServerTakes
<1>6. ASSUME m.type = "chunk" /\ kind = "http" /\ ServerChunk
      PROVE  ServerTakes(m)
  <2> DEFINE got == server.got + 1
             owed == server.owed + 1
             s == [server EXCEPT !.got = got, !.owed = owed]
  <2>1. got \in Nat /\ owed \in Nat /\ got = server.got + 1 /\ owed = server.owed + 1
    BY <1>2
  <2>2. \/ server' = Granted(s) /\ down' = Sends(down, Grant(s))
        \/ server' = [s EXCEPT !.pressed = TRUE] /\ UNCHANGED down
    BY <1>6 DEF ServerChunk
  <2> HIDE DEF got, owed
  <2>3. /\ s \in ServerSide /\ s.got = got /\ s.owed = owed /\ s.sent = server.sent
        /\ s.credit = server.credit /\ s.asked = server.asked /\ s.started = server.started
        /\ s.accepted = server.accepted
    BY <1>1, <2>1 DEF ServerSide
  <2> HIDE DEF s
  <2>4. CASE server' = Granted(s) /\ down' = Sends(down, Grant(s))
    <3>1. Granted(s).started = s.started /\ Granted(s).accepted = s.accepted
      BY <2>3 DEF Granted, ServerSide
    <3>2. /\ server'.owed = 0 /\ server'.got = s.got /\ server'.sent = s.sent /\ server'.credit = s.credit
          /\ server'.asked = s.asked /\ down' = Added(down, Flow(s.got, s.owed))
      BY <1>2, <2>1, <2>3, <2>4, GrantCounts
    <3>3. ServerGets(1)
      BY <1>6, <2>1, <2>3, <3>2 DEF ServerGets
    <3> QED BY <1>2, <1>6, <2>3, <2>4, <3>1, <3>3 DEF ServerTakes
  <2>5. CASE server' = [s EXCEPT !.pressed = TRUE] /\ UNCHANGED down
    <3>1. /\ server'.owed = s.owed /\ server'.got = s.got /\ server'.sent = s.sent /\ server'.credit = s.credit
          /\ server'.asked = s.asked /\ server'.started = s.started /\ server'.accepted = s.accepted
      BY <2>3, <2>5 DEF ServerSide
    <3>2. ServerGets(1)
      BY <1>6, <2>1, <2>3, <2>5, <3>1 DEF ServerGets
    <3> QED BY <1>2, <1>6, <2>3, <3>1, <3>2 DEF ServerTakes
  <2> QED BY <2>2, <2>4, <2>5
<1>7. ASSUME m.type = "chunk" /\ kind = "websocket" /\ ServerFrame
      PROVE  ServerTakes(m)
  <2>1. /\ server' = [server EXCEPT !.got = server.got + 1]
        /\ down' = Added(down, Flow(server.got + 1, 1))
    <3>1. server.got + 1 \in Nat /\ 1 \in Nat
      BY <1>2
    <3>2. Flow(server.got + 1, 1) \in Letter
      BY <3>1, Letters
    <3> QED BY <1>1, <1>7, <3>2, SentOnSocket DEF ServerFrame
  <2>2. /\ server'.got = server.got + 1 /\ server'.owed = server.owed /\ server'.sent = server.sent
        /\ server'.credit = server.credit /\ server'.asked = server.asked
        /\ server'.started = server.started /\ server'.accepted = server.accepted
    BY <1>1, <2>1 DEF ServerSide
  <2>3. ServerGetsFrame
    BY <1>7, <2>1, <2>2 DEF ServerGetsFrame
  <2> QED BY <1>2, <1>7, <2>2, <2>3 DEF ServerTakes
<1>8. ASSUME m.type = "end" /\ ServerEnd
      PROVE  ServerTakes(m)
  <2> DEFINE s == [server EXCEPT !.ended = TRUE]
  <2>1. /\ s \in ServerSide /\ s.got = server.got /\ s.owed = server.owed /\ s.sent = server.sent
        /\ s.credit = server.credit /\ s.asked = server.asked /\ s.started = server.started
        /\ s.accepted = server.accepted
    BY <1>1 DEF ServerSide
  <2>2. \/ server' = Completed(s) /\ down' = Sends(down, Grant(s))
        \/ server' = s /\ UNCHANGED down
    BY <1>8 DEF ServerEnd
  <2> HIDE DEF s
  <2>3. CASE server' = Completed(s) /\ down' = Sends(down, Grant(s))
    <3>1. Completed(s).started = s.started /\ Completed(s).accepted = s.accepted
      <4>1. Granted(s) \in ServerSide /\ Granted(s).started = s.started /\ Granted(s).accepted = s.accepted
        BY <2>1 DEF Granted, ServerSide
      <4> QED BY <4>1 DEF Completed, ServerSide
    <3>2. /\ server'.owed = 0 /\ server'.got = s.got /\ server'.sent = s.sent /\ server'.credit = s.credit
          /\ server'.asked = s.asked
          /\ down' = IF s.owed = 0 THEN down ELSE Added(down, Flow(s.got, s.owed))
      BY <2>1, <2>3, GrantCounts
    <3>3. ServerGets(0)
      BY <1>2, <2>1, <3>2 DEF ServerGets
    <3> QED BY <1>2, <1>8, <2>1, <2>3, <3>1, <3>3 DEF ServerTakes
  <2>4. CASE server' = s /\ UNCHANGED down
    <3>1. ServerGets(0)
      BY <1>2, <2>1, <2>4 DEF ServerGets
    <3> QED BY <1>2, <1>8, <2>1, <2>4, <3>1 DEF ServerTakes
  <2> QED BY <2>2, <2>3, <2>4
<1>9. ASSUME m.type = "flow" /\ ServerFlow(m)
      PROVE  ServerTakes(m)
  <2> DEFINE credit == IF m.at <= server.sent THEN Least(Window, server.credit + m.n) ELSE server.credit
  <2>1. /\ credit \in Nat /\ credit <= server.credit + m.n
        /\ server.credit <= Window => credit <= Window
    <3>1. Window \in Nat /\ server.credit + m.n \in Nat
      BY <1>2, StreamAssumption
    <3>2. /\ Least(Window, server.credit + m.n) \in Nat /\ Least(Window, server.credit + m.n) <= Window
          /\ Least(Window, server.credit + m.n) <= server.credit + m.n
      BY <3>1, LeastIs
    <3>3. CASE m.at <= server.sent
      BY <3>2, <3>3
    <3>4. CASE ~(m.at <= server.sent)
      BY <1>2, <3>4
    <3> QED BY <3>3, <3>4
  <2>2. server' = [server EXCEPT !.credit = credit] /\ UNCHANGED down
    BY <1>9 DEF ServerFlow
  <2> HIDE DEF credit
  <2>3. /\ server'.got = server.got /\ server'.owed = server.owed /\ server'.sent = server.sent
        /\ server'.credit = credit /\ server'.asked = server.asked
        /\ server'.started = server.started /\ server'.accepted = server.accepted
    BY <1>1, <2>2 DEF ServerSide
  <2>4. ServerCredited(m.n)
    BY <2>1, <2>2, <2>3 DEF ServerCredited
  <2> QED BY <1>2, <1>9, <2>3, <2>4 DEF ServerTakes
<1>10. \/ server.st # "open" /\ UNCHANGED <<server, down, linked>>
       \/ server.st = "open" /\ ~ServerAccepts(m) /\ UNCHANGED <<server, down>>
       \/ server.st = "open" /\ ServerAccepts(m) /\ UNCHANGED linked /\ ServerTakes(m)
  <2> HIDE DEF ServerAccepts, ServerTakes, ServerChunk, ServerFrame, ServerEnd, FailServer, ServerFlow
  <2> QED BY <1>3, <1>5, <1>6, <1>7, <1>8, <1>9
<1>11. server'.st = "open" => server.st = "open"
  BY <1>3
<1> QED BY <1>1, <1>10, <1>11 DEF m

-----------------------------------------------------------------------------
(* Streams: what a step of the tunnel counts *)

\* With this the response begins.
Header == IF kind = "http" THEN "start" ELSE "accepted"

TunnelStill ==
    /\ tunnel'.taken = tunnel.taken /\ tunnel'.flushed = tunnel.flushed /\ tunnel'.asked = tunnel.asked
    /\ tunnel'.offset = tunnel.offset /\ tunnel'.ack = tunnel.ack /\ tunnel'.credit = tunnel.credit
    /\ tunnel'.queue = tunnel.queue /\ tunnel'.over = tunnel.over

\* The tunnel counts nothing; it may tell the server what became of the stream.
TunnelQuiet ==
    /\ TunnelStill /\ tunnel'.started = tunnel.started
    /\ \/ up' = up
       \/ \E type \in {"accepted", "error", "close"} : up' = Added(up, Plain(type))

TunnelStarts ==
    /\ TunnelStill /\ tunnel.st = "open" /\ ~tunnel.started /\ tunnel'.started = TRUE
    /\ up' = Added(up, Plain(Header))

\* A write is flushed.
TunnelWrites ==
    /\ tunnel'.taken = tunnel.taken /\ tunnel'.asked = tunnel.asked /\ tunnel'.offset = tunnel.offset
    /\ tunnel'.ack = tunnel.ack /\ tunnel'.credit = tunnel.credit /\ tunnel'.queue = tunnel.queue
    /\ tunnel'.over = tunnel.over /\ tunnel'.started = tunnel.started
    /\ tunnel.flushed < tunnel.taken /\ tunnel'.flushed = tunnel.flushed + 1
    /\ up' = Added(up, Flow(tunnel.flushed + 1, 1))

\* n of the chunks in the queue are sent, and the end behind the last one.
TunnelSends(n, queue, over, ack, credit) ==
    /\ tunnel'.taken = tunnel.taken /\ tunnel'.flushed = tunnel.flushed /\ tunnel'.asked = tunnel.asked
    /\ tunnel'.started = tunnel.started /\ tunnel.st = "open"
    /\ n <= queue /\ tunnel'.queue = queue - n
    /\ n <= credit /\ tunnel'.credit = credit - n
    /\ tunnel'.offset = tunnel.offset + n /\ tunnel'.ack = ack /\ tunnel'.over = over
    /\ over /\ n = queue => tunnel'.st = "gone"
    /\ up' = IF linked THEN Behind(up, tunnel.offset, n, over /\ n = queue) ELSE up

TunnelTakesChunk ==
    /\ tunnel'.taken = tunnel.taken + 1 /\ tunnel'.flushed = tunnel.flushed /\ tunnel'.asked = tunnel.asked
    /\ tunnel'.offset = tunnel.offset /\ tunnel'.ack = tunnel.ack /\ tunnel'.credit = tunnel.credit
    /\ tunnel'.queue = tunnel.queue /\ tunnel'.over = tunnel.over /\ tunnel'.started = tunnel.started
    /\ up' = up

TunnelTakesEnd ==
    /\ tunnel'.taken = tunnel.taken /\ tunnel'.flushed = tunnel.flushed /\ tunnel'.asked = TRUE
    /\ tunnel'.offset = tunnel.offset /\ tunnel'.ack = tunnel.ack /\ tunnel'.credit = tunnel.credit
    /\ tunnel'.queue = tunnel.queue /\ tunnel'.over = tunnel.over /\ tunnel'.started = tunnel.started
    /\ up' = up

\* What the tunnel does with a message that it takes.
TunnelTakes(m) ==
    \/ m.type = "chunk" /\ TunnelTakesChunk
    \/ m.type = "end" /\ TunnelTakesEnd
    \/ /\ m.type = "flow"
       /\ \E n, credit \in Nat :
             /\ credit <= tunnel.credit + m.n /\ credit <= Window
             /\ TunnelSends(n, tunnel.queue, tunnel.over, m.at, credit)
    \/ m.type \in {"cancel", "close"} /\ TunnelQuiet

LEMMA FlushCounts ==
    ASSUME StreamTypes, NEW t \in TunnelSide, Flush(t)
    PROVE  \E n \in Nat :
             /\ tunnel'.taken = t.taken /\ tunnel'.flushed = t.flushed /\ tunnel'.asked = t.asked
             /\ tunnel'.started = t.started /\ tunnel'.ack = t.ack /\ tunnel'.over = t.over
             /\ n <= t.queue /\ tunnel'.queue = t.queue - n
             /\ n <= t.credit /\ tunnel'.credit = t.credit - n
             /\ tunnel'.offset = t.offset + n
             /\ tunnel'.st \in {"open", "gone"} /\ (t.over /\ n = t.queue => tunnel'.st = "gone")
             /\ up' = IF linked THEN Behind(up, t.offset, n, t.over /\ n = t.queue) ELSE up
<1> DEFINE n == Least(t.queue, t.credit)
           last == t.over /\ n = t.queue
<1>1. t.queue \in Nat /\ t.credit \in Nat /\ t.offset \in Nat
  BY DEF TunnelSide
<1>2. n \in Nat /\ n <= t.queue /\ n <= t.credit
  BY <1>1, LeastIs
<1>3. /\ tunnel' = [t EXCEPT !.queue = t.queue - n, !.credit = t.credit - n, !.offset = t.offset + n,
                             !.st = IF last \/ (n > 0 /\ ~linked) THEN "gone" ELSE "open"]
      /\ up' = Sends(up, Chunks(t.offset, n) \o EndIf(last))
  BY DEF Flush, EndIf
<1> HIDE DEF n
<1>4. /\ tunnel'.taken = t.taken /\ tunnel'.flushed = t.flushed /\ tunnel'.asked = t.asked
      /\ tunnel'.started = t.started /\ tunnel'.ack = t.ack /\ tunnel'.over = t.over
      /\ tunnel'.queue = t.queue - n /\ tunnel'.credit = t.credit - n /\ tunnel'.offset = t.offset + n
      /\ tunnel'.st = IF last \/ (n > 0 /\ ~linked) THEN "gone" ELSE "open"
  BY <1>3 DEF TunnelSide
<1>5. up' = IF linked THEN Behind(up, t.offset, n, last) ELSE up
  BY <1>3 DEF Sends, Behind
<1>6. tunnel'.st \in {"open", "gone"} /\ (last => tunnel'.st = "gone")
  BY <1>4
<1> QED BY <1>2, <1>4, <1>5, <1>6

LEMMA TunnelActs ==
    ASSUME StreamTypes,
           \/ Flushed \/ LocalStarts \/ LocalEnds \/ LocalCloses \/ LocalFails
           \/ TunnelCloses \/ \E k \in 1..MaxResponse : LocalData(k)
    PROVE  /\ UNCHANGED <<kind, body, server, down, linked>>
           /\ tunnel.st = "gone" => tunnel'.st = "gone"
           /\ tunnel'.st = "none" => tunnel.st = "none"
           /\ tunnel'.st = "open" => tunnel.st = "open"
           /\ \/ TunnelQuiet \/ TunnelStarts \/ TunnelWrites
              \/ \E n, queue \in Nat, over \in BOOLEAN :
                    /\ tunnel.offset + queue <= MaxResponse \/ queue = tunnel.queue
                    /\ tunnel.over => over
                    /\ over \/ queue > 0 => tunnel.started
                    /\ TunnelSends(n, queue, over, tunnel.ack, tunnel.credit)
<1>1. UNCHANGED <<kind, body, server, down, linked>> /\ tunnel \in TunnelSide /\ up \in Seq(Letter)
  BY DEF Flushed, LocalStarts, LocalEnds, LocalCloses, LocalFails, TunnelCloses, LocalData, StreamTypes
<1>2. /\ tunnel.taken \in Nat /\ tunnel.flushed \in Nat /\ tunnel.offset \in Nat /\ tunnel.queue \in Nat
      /\ tunnel.over \in BOOLEAN
  BY <1>1 DEF TunnelSide
<1>3. \A type \in MessageType : Sends(up, <<Plain(type)>>) = Added(up, Plain(type))
  BY <1>1, Letters, SentOnSocket
<1>4. CASE Flushed
  <2>1. Flow(tunnel.flushed + 1, 1) \in Letter
    <3>1. tunnel.flushed + 1 \in Nat /\ 1 \in Nat
      BY <1>2
    <3> QED BY <3>1, Letters
  <2>2. /\ tunnel' = [tunnel EXCEPT !.flushed = tunnel.flushed + 1] /\ tunnel.flushed < tunnel.taken
        /\ tunnel.st = "open" /\ up' = Added(up, Flow(tunnel.flushed + 1, 1))
    BY <1>1, <1>4, <2>1, SentOnSocket DEF Flushed
  <2>3. TunnelWrites /\ tunnel'.st = tunnel.st
    BY <1>1, <2>2 DEF TunnelWrites, TunnelSide
  <2> QED BY <1>1, <2>2, <2>3
<1>5. CASE LocalStarts
  <2>1. /\ tunnel' = [tunnel EXCEPT !.started = TRUE] /\ tunnel.st = "open" /\ ~tunnel.started
        /\ up' = Added(up, Plain(Header))
    BY <1>3, <1>5 DEF LocalStarts, Header, MessageType
  <2>2. TunnelStarts /\ tunnel'.st = tunnel.st
    BY <1>1, <2>1 DEF TunnelStarts, TunnelStill, TunnelSide
  <2> QED BY <1>1, <2>1, <2>2
<1>6. CASE LocalCloses \/ LocalFails \/ TunnelCloses
  <2>1. /\ tunnel' = [tunnel EXCEPT !.st = "gone"]
        /\ up' = up \/ \E type \in {"accepted", "error", "close"} : up' = Added(up, Plain(type))
    BY <1>3, <1>6 DEF LocalCloses, LocalFails, FailTunnel, TunnelCloses, MessageType
  <2>2. TunnelQuiet /\ tunnel'.st = "gone"
    BY <1>1, <2>1 DEF TunnelQuiet, TunnelStill, TunnelSide
  <2> QED BY <1>1, <2>2
<1>7. CASE LocalEnds \/ \E k \in 1..MaxResponse : LocalData(k)
  <2>1. PICK t \in TunnelSide :
          /\ Flush(t) /\ tunnel.st = "open" /\ tunnel.started
          /\ t.taken = tunnel.taken /\ t.flushed = tunnel.flushed /\ t.asked = tunnel.asked
          /\ t.started = tunnel.started /\ t.ack = tunnel.ack /\ t.offset = tunnel.offset
          /\ t.credit = tunnel.credit
          /\ tunnel.offset + t.queue <= MaxResponse \/ t.queue = tunnel.queue
          /\ tunnel.over => t.over
    <3>1. CASE LocalEnds
      <4> DEFINE t == [tunnel EXCEPT !.over = TRUE]
      <4>1. /\ t \in TunnelSide /\ t.taken = tunnel.taken /\ t.flushed = tunnel.flushed
            /\ t.asked = tunnel.asked /\ t.started = tunnel.started /\ t.ack = tunnel.ack
            /\ t.offset = tunnel.offset /\ t.credit = tunnel.credit /\ t.queue = tunnel.queue /\ t.over
        BY <1>1 DEF TunnelSide
      <4>2. Flush(t) /\ tunnel.st = "open" /\ tunnel.started
        BY <3>1 DEF LocalEnds
      <4> HIDE DEF t
      <4> QED BY <4>1, <4>2
    <3>2. CASE \E k \in 1..MaxResponse : LocalData(k)
      <4>1. PICK k \in 1..MaxResponse : LocalData(k)
        BY <3>2
      <4> DEFINE t == [tunnel EXCEPT !.queue = k]
      <4>2. k \in Nat
        BY StreamAssumption
      <4>3. /\ t \in TunnelSide /\ t.taken = tunnel.taken /\ t.flushed = tunnel.flushed
            /\ t.asked = tunnel.asked /\ t.started = tunnel.started /\ t.ack = tunnel.ack
            /\ t.offset = tunnel.offset /\ t.credit = tunnel.credit /\ t.queue = k /\ t.over = tunnel.over
        BY <1>1, <4>2 DEF TunnelSide
      <4>4. Flush(t) /\ tunnel.st = "open" /\ tunnel.started /\ tunnel.offset + k <= MaxResponse
        BY <4>1 DEF LocalData
      <4> HIDE DEF t
      <4> QED BY <4>3, <4>4
    <3> QED BY <1>7, <3>1, <3>2
  <2>2. PICK n \in Nat :
             /\ tunnel'.taken = t.taken /\ tunnel'.flushed = t.flushed /\ tunnel'.asked = t.asked
             /\ tunnel'.started = t.started /\ tunnel'.ack = t.ack /\ tunnel'.over = t.over
             /\ n <= t.queue /\ tunnel'.queue = t.queue - n
             /\ n <= t.credit /\ tunnel'.credit = t.credit - n
             /\ tunnel'.offset = t.offset + n
             /\ tunnel'.st \in {"open", "gone"} /\ (t.over /\ n = t.queue => tunnel'.st = "gone")
             /\ up' = IF linked THEN Behind(up, t.offset, n, t.over /\ n = t.queue) ELSE up
    BY <2>1, FlushCounts
  <2>3. TunnelSends(n, t.queue, t.over, tunnel.ack, tunnel.credit)
    BY <2>1, <2>2 DEF TunnelSends
  <2>4. t.queue \in Nat /\ t.over \in BOOLEAN
    BY <2>1 DEF TunnelSide
  <2>5. \E m, queue \in Nat, over \in BOOLEAN :
           /\ tunnel.offset + queue <= MaxResponse \/ queue = tunnel.queue
           /\ tunnel.over => over
           /\ over \/ queue > 0 => tunnel.started
           /\ TunnelSends(m, queue, over, tunnel.ack, tunnel.credit)
    <3> HIDE DEF TunnelSends
    <3> QED BY <2>1, <2>3, <2>4
  <2> QED BY <1>1, <2>1, <2>2, <2>5
<1> QED BY <1>4, <1>5, <1>6, <1>7

LEMMA TunnelHears ==
    ASSUME StreamTypes, TunnelReceives
    PROVE  /\ down # <<>> /\ down' = Tail(down) /\ UNCHANGED <<kind, body, server, linked>>
           /\ tunnel'.st # "none" /\ (tunnel.st = "gone" => tunnel'.st = "gone")
           /\ \/ tunnel.st # "open" /\ TunnelQuiet
              \/ tunnel.st = "open" /\ ~TunnelAccepts(Head(down)) /\ TunnelQuiet /\ tunnel'.st = "gone"
              \/ tunnel.st = "open" /\ TunnelAccepts(Head(down)) /\ TunnelTakes(Head(down))
<1> DEFINE m == Head(down)
<1>1. /\ down # <<>> /\ down' = Tail(down) /\ UNCHANGED <<kind, body, server, linked>> /\ m \in Letter
      /\ tunnel \in TunnelSide /\ up \in Seq(Letter)
  BY Tails DEF TunnelReceives, StreamTypes
<1>2. tunnel.taken \in Nat /\ tunnel.credit \in Nat /\ m.n \in Nat /\ m.at \in Nat /\ m.type \in MessageType
  BY <1>1 DEF TunnelSide, Letter
<1>3. \A type \in MessageType : Sends(up, <<Plain(type)>>) = Added(up, Plain(type))
  BY <1>1, Letters, SentOnSocket
<1>4. \/ /\ tunnel.st = "none"
         /\ \/ tunnel' = [tunnel EXCEPT !.st = "open"] /\ up' \in {up, Sends(up, <<Plain("accepted")>>)}
            \/ FailTunnel
      \/ tunnel.st = "open" /\ Handles(m)
      \/ tunnel.st = "gone" /\ up' \in {up, Sends(up, <<Plain("error")>>)} /\ UNCHANGED tunnel
  BY DEF TunnelReceives
<1> HIDE DEF m
<1>5. ASSUME FailTunnel
      PROVE  TunnelQuiet /\ tunnel'.st = "gone"
  <2>1. tunnel' = [tunnel EXCEPT !.st = "gone"] /\ up' = Added(up, Plain("error"))
    BY <1>3, <1>5 DEF FailTunnel, MessageType
  <2> QED BY <1>1, <2>1 DEF TunnelQuiet, TunnelStill, TunnelSide
<1>6. ASSUME tunnel' = [tunnel EXCEPT !.st = "open"], up' \in {up, Sends(up, <<Plain("accepted")>>)}
      PROVE  TunnelQuiet /\ tunnel'.st = "open"
  <2>1. up' = up \/ up' = Added(up, Plain("accepted"))
    BY <1>3, <1>6 DEF MessageType
  <2> QED BY <1>1, <1>6, <2>1 DEF TunnelQuiet, TunnelStill, TunnelSide
<1>7. ASSUME up' \in {up, Sends(up, <<Plain("error")>>)}, UNCHANGED tunnel
      PROVE  TunnelQuiet
  <2>1. up' = up \/ up' = Added(up, Plain("error"))
    BY <1>3, <1>7 DEF MessageType
  <2> QED BY <1>1, <1>7, <2>1 DEF TunnelQuiet, TunnelStill, TunnelSide
<1>8. ASSUME Handles(m), tunnel.st = "open"
      PROVE  /\ tunnel'.st \in {"open", "gone"}
             /\ \/ ~TunnelAccepts(m) /\ TunnelQuiet /\ tunnel'.st = "gone"
                \/ TunnelAccepts(m) /\ TunnelTakes(m)
  <2>1. CASE ~TunnelAccepts(m)
    BY <1>5, <1>8, <2>1 DEF Handles
  <2>2. CASE TunnelAccepts(m)
    <3>1. \/ /\ m.type = "chunk" /\ UNCHANGED up
             /\ tunnel' = [tunnel EXCEPT !.taken = tunnel.taken + 1]
          \/ m.type = "end" /\ tunnel' = [tunnel EXCEPT !.asked = TRUE] /\ UNCHANGED up
          \/ m.type = "flow" /\ TunnelFlow(m)
          \/ m.type = "cancel" /\ tunnel' = [tunnel EXCEPT !.st = "gone"] /\ UNCHANGED up
          \/ m.type = "close" /\ tunnel' = [tunnel EXCEPT !.closing = TRUE] /\ UNCHANGED up
      BY <1>8, <2>2 DEF Handles
    <3>2. CASE m.type = "chunk" /\ UNCHANGED up /\ tunnel' = [tunnel EXCEPT !.taken = tunnel.taken + 1]
      <4>1. TunnelTakesChunk /\ tunnel'.st = tunnel.st
        BY <1>1, <3>2 DEF TunnelTakesChunk, TunnelSide
      <4> QED BY <1>8, <2>2, <3>2, <4>1 DEF TunnelTakes
    <3>3. CASE m.type = "end" /\ tunnel' = [tunnel EXCEPT !.asked = TRUE] /\ UNCHANGED up
      <4>1. TunnelTakesEnd /\ tunnel'.st = tunnel.st
        BY <1>1, <3>3 DEF TunnelTakesEnd, TunnelSide
      <4> QED BY <1>8, <2>2, <3>3, <4>1 DEF TunnelTakes
    <3>4. CASE m.type = "flow" /\ TunnelFlow(m)
      <4> DEFINE credit == Least(Window, tunnel.credit + m.n)
                 t == [tunnel EXCEPT !.ack = m.at, !.credit = credit]
      <4>1. credit \in Nat /\ credit <= Window /\ credit <= tunnel.credit + m.n
        <5>1. Window \in Nat /\ tunnel.credit + m.n \in Nat
          BY <1>2, StreamAssumption
        <5> QED BY <5>1, LeastIs
      <4>2. Flush(t)
        BY <3>4 DEF TunnelFlow
      <4> HIDE DEF credit
      <4>3. /\ t \in TunnelSide /\ t.taken = tunnel.taken /\ t.flushed = tunnel.flushed
            /\ t.asked = tunnel.asked /\ t.started = tunnel.started /\ t.ack = m.at
            /\ t.offset = tunnel.offset /\ t.credit = credit /\ t.queue = tunnel.queue
            /\ t.over = tunnel.over
        BY <1>1, <1>2, <4>1 DEF TunnelSide
      <4> HIDE DEF t
      <4>4. PICK n \in Nat :
             /\ tunnel'.taken = t.taken /\ tunnel'.flushed = t.flushed /\ tunnel'.asked = t.asked
             /\ tunnel'.started = t.started /\ tunnel'.ack = t.ack /\ tunnel'.over = t.over
             /\ n <= t.queue /\ tunnel'.queue = t.queue - n
             /\ n <= t.credit /\ tunnel'.credit = t.credit - n
             /\ tunnel'.offset = t.offset + n
             /\ tunnel'.st \in {"open", "gone"} /\ (t.over /\ n = t.queue => tunnel'.st = "gone")
             /\ up' = IF linked THEN Behind(up, t.offset, n, t.over /\ n = t.queue) ELSE up
        BY <4>2, <4>3, FlushCounts
      <4>5. TunnelSends(n, tunnel.queue, tunnel.over, m.at, credit)
        BY <1>8, <4>3, <4>4 DEF TunnelSends
      <4>6. TunnelTakes(m)
        BY <3>4, <4>1, <4>5 DEF TunnelTakes
      <4> QED BY <2>2, <4>4, <4>6
    <3>5. CASE \/ m.type = "cancel" /\ tunnel' = [tunnel EXCEPT !.st = "gone"] /\ UNCHANGED up
               \/ m.type = "close" /\ tunnel' = [tunnel EXCEPT !.closing = TRUE] /\ UNCHANGED up
      <4>1. TunnelQuiet /\ tunnel'.st \in {"gone", tunnel.st}
        BY <1>1, <3>5 DEF TunnelQuiet, TunnelStill, TunnelSide
      <4> QED BY <1>8, <2>2, <3>5, <4>1 DEF TunnelTakes
    <3> HIDE DEF TunnelTakes, TunnelAccepts
    <3> QED BY <3>1, <3>2, <3>3, <3>4, <3>5
  <2> QED BY <2>1, <2>2
<1>9. tunnel.st \in {"none", "open", "gone"}
  BY <1>1 DEF TunnelSide
<1>10. tunnel'.st # "none" /\ (tunnel.st = "gone" => tunnel'.st = "gone")
  BY <1>4, <1>5, <1>6, <1>8
<1>11. \/ tunnel.st # "open" /\ TunnelQuiet
       \/ tunnel.st = "open" /\ ~TunnelAccepts(m) /\ TunnelQuiet /\ tunnel'.st = "gone"
       \/ tunnel.st = "open" /\ TunnelAccepts(m) /\ TunnelTakes(m)
  BY <1>4, <1>5, <1>6, <1>7, <1>8
<1> QED BY <1>1, <1>10, <1>11 DEF m

-----------------------------------------------------------------------------
(* Streams: the windows *)

\* The grants of the server cover what the browser has drained; the credit of the
\* tunnel, what it sent and was not granted again, is within the window.
ResponseWindow ==
    /\ Flows(tunnel.ack, server.got - server.owed, down)
    /\ tunnel.credit + tunnel.offset - tunnel.ack <= Window
    /\ tunnel.credit <= Window
    /\ kind = "websocket" => server.owed = 0

\* The same for the request: the credit of the server, beyond what was flushed.
RequestWindow ==
    /\ Flows(server.credit + server.sent - Window, tunnel.flushed, up)
    /\ server.credit <= Window

LEMMA AddedIsMore ==
    ASSUME NEW q \in Seq(Letter), NEW m \in Letter, linked \in BOOLEAN
    PROVE  Added(q, m) \in Seq(Letter) /\ More(Added(q, m), q, {m.type})
<1>1. CASE linked
  BY <1>1, AppendIsMore DEF Added
<1>2. CASE ~linked
  <2>1. Added(q, m) = q /\ Len(q) \in Nat
    BY <1>2 DEF Added
  <2>2. Len(q) <= Len(q) /\ \A i \in 1..Len(q) : ~(i > Len(q))
    BY <2>1
  <2> QED BY <2>1, <2>2 DEF More
<1> QED BY <1>1, <1>2

\* Whoever sends no grant does not change what the grants are about.
LEMMA AddedFlows ==
    ASSUME NEW q \in Seq(Letter), NEW m \in Letter, m.type # "flow", linked \in BOOLEAN,
           NEW low, NEW high, Flows(low, high, q)
    PROVE  Flows(low, high, Added(q, m))
  BY AddedIsMore, MoreFlows

LEMMA AddedFlow ==
    ASSUME NEW q \in Seq(Letter), NEW low \in Int, NEW high \in Int, Flows(low, high, q),
           NEW at \in Nat, NEW n \in Nat, high <= at - n
    PROVE  Flows(low, at, Added(q, Flow(at, n)))
<1>1. CASE linked
  BY <1>1, AppendFlow DEF Added
<1>2. CASE ~linked
  <2>1. high <= at /\ low <= low /\ at \in Int
    OBVIOUS
  <2>2. Flows(low, at, q)
    BY <2>1, WiderFlows
  <2> QED BY <1>2, <2>2 DEF Added
<1> QED BY <1>1, <1>2

\* All that the server does to its counts.
ServerMoves ==
    \/ ServerQuiet \/ ServerSendsChunk \/ ServerSendsEnd
    \/ ServerGets(0) \/ ServerGets(1) \/ ServerGetsFrame
    \/ \E n \in Nat : ServerCredited(n)
    \/ server' = server /\ down' = down

LEMMA StreamNumbers ==
    ASSUME StreamTypes
    PROVE  /\ server.got \in Nat /\ server.owed \in Nat /\ server.sent \in Nat /\ server.credit \in Nat
           /\ tunnel.taken \in Nat /\ tunnel.flushed \in Nat /\ tunnel.offset \in Nat
           /\ tunnel.ack \in Nat /\ tunnel.credit \in Nat /\ tunnel.queue \in Nat
           /\ tunnel.over \in BOOLEAN /\ tunnel.started \in BOOLEAN /\ server.st \in {"open", "done", "failed"}
           /\ tunnel.st \in {"none", "open", "gone"} /\ linked \in BOOLEAN
           /\ Window \in Nat /\ Window > 0 /\ body \in Nat /\ MaxResponse \in Nat /\ MaxRequest \in Nat
           /\ kind \in {"http", "websocket"}
           /\ up \in Seq(Letter) /\ down \in Seq(Letter)
           /\ tunnel.ack \in Int /\ tunnel.flushed \in Int /\ (tunnel.flushed + 1) \in Nat
           /\ (server.got - server.owed) \in Int /\ (server.credit + server.sent - Window) \in Int
<1>1. /\ server.got \in Nat /\ server.owed \in Nat /\ server.sent \in Nat /\ server.credit \in Nat
      /\ tunnel.taken \in Nat /\ tunnel.flushed \in Nat /\ tunnel.offset \in Nat
      /\ tunnel.ack \in Nat /\ tunnel.credit \in Nat /\ tunnel.queue \in Nat
      /\ tunnel.over \in BOOLEAN /\ tunnel.started \in BOOLEAN /\ server.st \in {"open", "done", "failed"}
      /\ tunnel.st \in {"none", "open", "gone"} /\ linked \in BOOLEAN
      /\ Window \in Nat /\ Window > 0 /\ body \in Nat /\ MaxResponse \in Nat /\ MaxRequest \in Nat
      /\ kind \in {"http", "websocket"}
      /\ up \in Seq(Letter) /\ down \in Seq(Letter)
  BY StreamAssumption DEF StreamTypes, ServerSide, TunnelSide
<1>2. \A a, b, c \in Nat : a \in Int /\ a + 1 \in Nat /\ a - b \in Int /\ a + b - c \in Int
  OBVIOUS
<1> QED BY <1>1, <1>2

LEMMA ServerKeepsResponses ==
    ASSUME StreamTypes, ResponseWindow, ServerMoves, UNCHANGED <<kind, tunnel>>
    PROVE  ResponseWindow'
<1> DEFINE low == tunnel.ack
           high == server.got - server.owed
<1>1. /\ server.got \in Nat /\ server.owed \in Nat /\ linked \in BOOLEAN /\ down \in Seq(Letter)
      /\ low \in Int /\ high \in Int /\ server.sent \in Nat /\ kind \in {"http", "websocket"}
  BY StreamNumbers, Zenon
<1>2. Flows(low, high, down)
  BY DEF ResponseWindow
<1>3. ASSUME NEW type \in {"cancel", "close", "end"}
      PROVE  Flows(low, high, Added(down, Plain(type)))
  <2>1. Plain(type) \in Letter /\ Plain(type).type # "flow"
    BY Letters DEF MessageType
  <2> QED BY <1>1, <1>2, <2>1, AddedFlows
<1>4. Flows(low, high, Added(down, Chunk(server.sent)))
  <2>1. Chunk(server.sent) \in Letter /\ Chunk(server.sent).type # "flow"
    BY <1>1, Letters
  <2> QED BY <1>1, <1>2, <2>1, AddedFlows
<1>5. ASSUME NEW k \in Nat
      PROVE  Flows(low, server.got + k, Added(down, Flow(server.got + k, server.owed + k)))
  <2>1. server.got + k \in Nat /\ server.owed + k \in Nat /\ high <= (server.got + k) - (server.owed + k)
    BY <1>1
  <2> QED BY <1>1, <1>2, <2>1, AddedFlow
<1> HIDE DEF low, high
<1>6. (server'.got - server'.owed) \in Int /\ Flows(low, server'.got - server'.owed, down')
      /\ (kind = "websocket" => server'.owed = 0)
  <2>1. CASE ServerQuiet \/ ServerSendsChunk \/ ServerSendsEnd \/ (\E n \in Nat : ServerCredited(n))
             \/ (server' = server /\ down' = down)
    <3>1. server'.got = server.got /\ server'.owed = server.owed
      BY <2>1 DEF ServerQuiet, ServerSendsChunk, ServerSendsEnd, ServerCredited
    <3>2. Flows(low, high, down')
      BY <1>2, <1>3, <1>4, <2>1 DEF ServerQuiet, ServerSendsChunk, ServerSendsEnd, ServerCredited
    <3> QED BY <1>1, <3>1, <3>2 DEF ResponseWindow, high
  <2>2. ASSUME NEW k \in {0, 1}, ServerGets(k)
        PROVE  (server'.got - server'.owed) \in Int /\ Flows(low, server'.got - server'.owed, down')
               /\ (kind = "websocket" => server'.owed = 0)
    <3>1. server'.got = server.got + k /\ (k = 0 \/ kind = "http")
      BY <2>2 DEF ServerGets
    <3>2. CASE server'.owed = server.owed + k /\ down' = down
      <4>1. server'.got - server'.owed = high
        BY <1>1, <3>1, <3>2 DEF high
      <4>2. kind = "websocket" => server'.owed = 0
        BY <1>1, <3>1, <3>2 DEF ResponseWindow
      <4> QED BY <1>1, <1>2, <3>2, <4>1, <4>2
    <3>3. CASE server'.owed = 0 /\ server.owed + k = 0 /\ down' = down
      <4>1. server'.got - server'.owed = high
        BY <1>1, <3>1, <3>3 DEF high
      <4> QED BY <1>1, <1>2, <3>3, <4>1
    <3>4. CASE server'.owed = 0 /\ down' = Added(down, Flow(server.got + k, server.owed + k))
      <4>1. server'.got - server'.owed = server.got + k /\ server.got + k \in Int /\ k \in Nat
        BY <1>1, <3>1, <3>4
      <4>2. Flows(low, server.got + k, down')
        BY <1>5, <3>4, <4>1
      <4> QED BY <3>4, <4>1, <4>2
    <3> QED BY <2>2, <3>2, <3>3, <3>4 DEF ServerGets
  <2>3. CASE ServerGetsFrame
    <3>1. server'.got = server.got + 1 /\ server'.owed = 0 /\ server.owed = 0
          /\ down' = Added(down, Flow(server.got + 1, 1))
      BY <2>3 DEF ServerGetsFrame, ResponseWindow
    <3>2. Flow(server.got + 1, 1) = Flow(server.got + 1, server.owed + 1)
      BY <3>1
    <3>3. server'.got - server'.owed = server.got + 1 /\ server.got + 1 \in Int
      BY <1>1, <3>1
    <3>4. Flows(low, server.got + 1, down')
      BY <1>5, <3>1, <3>2
    <3> QED BY <3>1, <3>3, <3>4
  <2> QED BY <2>1, <2>2, <2>3 DEF ServerMoves
<1> QED BY <1>6 DEF ResponseWindow, low

LEMMA Moved ==
    ASSUME NEW a \in Nat, NEW b \in Nat, NEW w \in Nat
    PROVE  (a - 1) + (b + 1) - w = a + b - w
  OBVIOUS

LEMMA Sums ==
    ASSUME NEW credit \in Nat, NEW sent \in Nat, NEW window \in Nat
    PROVE  /\ credit + sent - window \in Int
           /\ \A at, n, c \in Nat : credit + sent - window <= at - n /\ c <= credit + n =>
                 c + sent - window \in Int /\ c + sent - window <= at
  OBVIOUS

LEMMA ServerKeepsRequests ==
    ASSUME StreamTypes, RequestWindow, UNCHANGED tunnel,
           up' = up \/ (up # <<>> /\ up' = Tail(up)), up' \in Seq(Letter),
           \/ ServerQuiet \/ ServerSendsChunk \/ ServerSendsEnd
           \/ ServerGets(0) \/ ServerGets(1) \/ ServerGetsFrame \/ server' = server
           \/ up # <<>> /\ up' = Tail(up) /\ Head(up).type = "flow" /\ ServerCredited(Head(up).n)
    PROVE  RequestWindow'
<1> DEFINE low == server.credit + server.sent - Window
           high == tunnel.flushed
<1>1. /\ server.credit \in Nat /\ server.sent \in Nat /\ Window \in Nat /\ up \in Seq(Letter)
      /\ low \in Int /\ high \in Int
  BY StreamNumbers, Zenon
<1>2. Flows(low, high, up)
  BY DEF RequestWindow
<1>3. Flows(low, high, up')
  <2>1. CASE up # <<>> /\ up' = Tail(up)
    BY <1>1, <1>2, <2>1, TailIsPart, PartFlows
  <2> QED BY <1>2, <2>1
<1>4. CASE ServerSendsChunk
  <2>1. server'.credit = server.credit - 1 /\ server'.sent = server.sent + 1 /\ server.credit > 0
    BY <1>4 DEF ServerSendsChunk
  <2>2. server'.credit + server'.sent - Window = low /\ server.credit - 1 <= server.credit
    <3>1. (server.credit - 1) + (server.sent + 1) - Window = low
      <4>1. server.credit \in Nat /\ server.sent \in Nat /\ Window \in Nat /\ server.credit > 0
        BY <1>1, <2>1
      <4> QED BY <4>1, Moved
    <3>2. server.credit - 1 <= server.credit
      BY <1>1
    <3> HIDE DEF low
    <3> QED BY <2>1, <3>1, <3>2, Zenon
  <2>3. server'.credit <= Window
    BY <1>1, <2>1, <2>2 DEF RequestWindow
  <2> HIDE DEF low
  <2> QED BY <1>3, <2>2, <2>3 DEF RequestWindow
<1>5. CASE ServerQuiet \/ ServerSendsEnd \/ ServerGets(0) \/ ServerGets(1) \/ ServerGetsFrame \/ server' = server
  <2>1. server'.credit = server.credit /\ server'.sent = server.sent
    BY <1>5 DEF ServerQuiet, ServerSendsEnd, ServerGets, ServerGetsFrame
  <2> QED BY <1>3, <2>1 DEF RequestWindow
<1>6. CASE up # <<>> /\ up' = Tail(up) /\ Head(up).type = "flow" /\ ServerCredited(Head(up).n)
  <2> DEFINE m == Head(up)
             next == server'.credit + server'.sent - Window
  <2>1. low <= m.at - m.n /\ m.at <= high /\ Flows(m.at, high, up')
    BY <1>1, <1>2, <1>6, TakeFlow
  <2>2. m.at \in Nat /\ m.n \in Nat
    <3>1. m \in Letter
      BY <1>1, <1>6, Tails
    <3> QED BY <3>1 DEF Letter
  <2>3. /\ server'.sent = server.sent /\ server'.credit \in Nat /\ server'.credit <= server.credit + m.n
        /\ server'.credit <= Window
    BY <1>6 DEF ServerCredited, RequestWindow
  <2>4. next \in Int /\ m.at \in Int /\ next <= m.at /\ high <= high
    <3>1. /\ server'.credit \in Nat /\ server'.sent = server.sent
          /\ server'.credit <= server.credit + m.n /\ server.credit + server.sent - Window <= m.at - m.n
      BY <2>1, <2>3
    <3> HIDE DEF m, low
    <3>2. server'.credit + server.sent - Window \in Int /\ server'.credit + server.sent - Window <= m.at
      BY <1>1, <2>2, <3>1, Sums
    <3> QED BY <1>1, <2>2, <3>1, <3>2
  <2> HIDE DEF next, m
  <2>5. Flows(next, high, up')
    BY <1>1, <2>1, <2>4, WiderFlows
  <2> QED BY <2>3, <2>5 DEF RequestWindow, next
<1> QED BY <1>4, <1>5, <1>6

\* The tunnel leaves alone what the window is about.
TunnelIdle ==
    /\ tunnel'.offset = tunnel.offset /\ tunnel'.ack = tunnel.ack /\ tunnel'.credit = tunnel.credit

LEMMA Spent ==
    ASSUME NEW a \in Nat, NEW b \in Nat, NEW w \in Nat, NEW n \in Nat
    PROVE  (a - n) + (b + n) - w = a + b - w
  OBVIOUS

LEMMA Regained ==
    ASSUME NEW credit \in Nat, NEW offset \in Nat, NEW ack \in Nat, NEW window \in Nat,
           NEW at \in Nat, NEW n \in Nat, NEW c \in Nat,
           credit + offset - ack <= window, ack <= at - n, c <= credit + n
    PROVE  c + offset - at <= window
  OBVIOUS

LEMMA TunnelKeepsResponses ==
    ASSUME StreamTypes, ResponseWindow, UNCHANGED <<kind, server>>,
           down' = down \/ (down # <<>> /\ down' = Tail(down)),
           \/ TunnelIdle
           \/ \E n, queue \in Nat, over \in BOOLEAN : TunnelSends(n, queue, over, tunnel.ack, tunnel.credit)
           \/ down # <<>> /\ down' = Tail(down) /\ Head(down).type = "flow" /\ TunnelTakes(Head(down))
    PROVE  ResponseWindow'
<1> DEFINE high == server.got - server.owed
           low == tunnel.ack
<1>1. /\ tunnel.ack \in Nat /\ tunnel.credit \in Nat /\ tunnel.offset \in Nat /\ Window \in Nat
      /\ down \in Seq(Letter) /\ low \in Int /\ high \in Int
  BY StreamNumbers, Zenon
<1>2. Flows(low, high, down)
  <2>1. ResponseWindow => Flows(tunnel.ack, server.got - server.owed, down)
    BY ONLY DEF ResponseWindow
  <2> QED BY <2>1, Zenon
<1>3. Flows(low, high, down')
  <2>1. CASE down # <<>> /\ down' = Tail(down)
    BY <1>1, <1>2, <2>1, TailIsPart, PartFlows
  <2> QED BY <1>2, <2>1
<1>4. tunnel.credit + tunnel.offset - tunnel.ack <= Window /\ tunnel.credit <= Window
  BY DEF ResponseWindow
<1>5. (kind = "websocket" => server.owed = 0)' /\ high' = high
  BY DEF ResponseWindow
<1>6. CASE TunnelIdle
  <2> HIDE DEF high
  <2> QED BY <1>3, <1>4, <1>5, <1>6 DEF ResponseWindow, TunnelIdle, high
<1>7. CASE \E n, queue \in Nat, over \in BOOLEAN : TunnelSends(n, queue, over, tunnel.ack, tunnel.credit)
  <2>1. PICK n \in Nat : /\ n <= tunnel.credit /\ tunnel'.credit = tunnel.credit - n
                         /\ tunnel'.offset = tunnel.offset + n /\ tunnel'.ack = tunnel.ack
    BY <1>7 DEF TunnelSends
  <2>2. tunnel'.credit + tunnel'.offset - tunnel'.ack <= Window
    <3>1. (tunnel.credit - n) + (tunnel.offset + n) - tunnel.ack = tunnel.credit + tunnel.offset - tunnel.ack
      BY <1>1, Spent
    <3> QED BY <1>4, <2>1, <3>1
  <2>3. tunnel'.credit <= Window
    BY <1>1, <1>4, <2>1
  <2>4. tunnel'.ack = low
    BY <2>1
  <2> HIDE DEF high, low
  <2> QED BY <1>3, <1>5, <2>2, <2>3, <2>4 DEF ResponseWindow, high
<1>8. CASE down # <<>> /\ down' = Tail(down) /\ Head(down).type = "flow" /\ TunnelTakes(Head(down))
  <2> DEFINE m == Head(down)
  <2>1. m.at \in Nat /\ m.n \in Nat
    <3>1. m \in Letter
      BY <1>1, <1>8, Tails
    <3> QED BY <3>1 DEF Letter
  <2>2. low <= m.at - m.n /\ m.at <= high /\ Flows(m.at, high, down')
    BY <1>1, <1>2, <1>8, TakeFlow
  <2>3. PICK n \in Nat, credit \in Nat :
             /\ credit <= tunnel.credit + m.n /\ credit <= Window
             /\ TunnelSends(n, tunnel.queue, tunnel.over, m.at, credit)
    BY <1>8 DEF TunnelTakes
  <2> HIDE DEF m
  <2>4. /\ n <= credit /\ tunnel'.credit = credit - n
        /\ tunnel'.offset = tunnel.offset + n /\ tunnel'.ack = m.at
    BY <2>3 DEF TunnelSends
  <2>5. credit + tunnel.offset - m.at <= Window
    BY <1>1, <1>4, <2>1, <2>2, <2>3, Regained
  <2>6. tunnel'.credit + tunnel'.offset - tunnel'.ack <= Window
    <3>1. (credit - n) + (tunnel.offset + n) - m.at = credit + tunnel.offset - m.at
      BY <1>1, <2>1, Spent
    <3> QED BY <2>4, <2>5, <3>1
  <2>7. tunnel'.credit <= Window
    BY <1>1, <2>3, <2>4
  <2> HIDE DEF high
  <2> QED BY <1>5, <2>2, <2>4, <2>6, <2>7 DEF ResponseWindow, high
<1> QED BY <1>6, <1>7, <1>8

LEMMA SendsMore ==
    ASSUME StreamTypes, NEW n \in Nat, NEW queue, NEW over \in BOOLEAN, NEW ack, NEW credit,
           TunnelSends(n, queue, over, ack, credit)
    PROVE  up' \in Seq(Letter) /\ More(up', up, {"chunk", "end"})
<1>1. up \in Seq(Letter) /\ tunnel.offset \in Nat /\ linked \in BOOLEAN
  BY StreamNumbers
<1>2. CASE linked
  <2>1. up' = Behind(up, tunnel.offset, n, over /\ n = queue) /\ (over /\ n = queue) \in BOOLEAN
    BY <1>2 DEF TunnelSends
  <2> QED BY <1>1, <2>1, BehindIsMore
<1>3. CASE ~linked
  <2>1. up' = up /\ Len(up) \in Nat
    BY <1>1, <1>3 DEF TunnelSends
  <2> QED BY <1>1, <2>1 DEF More
<1> QED BY <1>1, <1>2, <1>3

\* All that the tunnel says, but for the grants.
TunnelTalks ==
    \/ TunnelQuiet \/ TunnelStarts \/ TunnelTakesChunk \/ TunnelTakesEnd
    \/ \E n \in Nat, queue \in Nat, over \in BOOLEAN, ack \in Nat, credit \in Nat :
          TunnelSends(n, queue, over, ack, credit)

LEMMA TunnelKeepsRequests ==
    ASSUME StreamTypes, RequestWindow, UNCHANGED server, TunnelTalks \/ TunnelWrites
    PROVE  RequestWindow'
<1> DEFINE low == server.credit + server.sent - Window
           high == tunnel.flushed
<1>1. /\ server.credit \in Nat /\ server.sent \in Nat /\ Window \in Nat /\ up \in Seq(Letter)
      /\ low \in Int /\ high \in Nat /\ high \in Int /\ linked \in BOOLEAN /\ kind \in {"http", "websocket"}
  BY StreamNumbers, Zenon
<1>2. Flows(low, high, up) /\ server.credit <= Window
  BY DEF RequestWindow
<1>3. low' = low /\ server'.credit <= Window
  BY <1>2
<1>4. CASE TunnelTalks
  <2>1. tunnel'.flushed = high
    BY <1>4 DEF TunnelTalks, TunnelQuiet, TunnelStarts, TunnelStill, TunnelTakesChunk, TunnelTakesEnd, TunnelSends
  <2>2. ASSUME NEW type \in {"accepted", "error", "close", "start"}
        PROVE  Flows(low, high, Added(up, Plain(type)))
    <3>1. Plain(type) \in Letter /\ Plain(type).type # "flow"
      BY Letters DEF MessageType
    <3> QED BY <1>1, <1>2, <3>1, AddedFlows
  <2>3. Flows(low, high, up')
    <3>1. CASE \E n \in Nat, queue \in Nat, over \in BOOLEAN, ack \in Nat, credit \in Nat :
                  TunnelSends(n, queue, over, ack, credit)
      <4>1. up' \in Seq(Letter) /\ More(up', up, {"chunk", "end"})
        BY <3>1, SendsMore
      <4> QED BY <1>1, <1>2, <4>1, MoreFlows
    <3>2. CASE up' = up
      BY <1>2, <3>2
    <3>3. CASE TunnelQuiet \/ TunnelStarts
      <4>1. up' = up \/ \E type \in {"accepted", "error", "close", "start"} : up' = Added(up, Plain(type))
        BY <1>1, <3>3 DEF TunnelQuiet, TunnelStarts, Header
      <4> HIDE DEF low, high
      <4> QED BY <1>2, <2>2, <4>1
    <3> HIDE DEF low, high
    <3> QED BY <1>4, <3>1, <3>2, <3>3 DEF TunnelTalks, TunnelTakesChunk, TunnelTakesEnd
  <2> HIDE DEF high
  <2> QED BY <1>3, <2>1, <2>3 DEF RequestWindow
<1>5. CASE TunnelWrites
  <2>1. tunnel'.flushed = tunnel.flushed + 1 /\ up' = Added(up, Flow(tunnel.flushed + 1, 1))
    BY <1>5 DEF TunnelWrites
  <2>2. tunnel.flushed + 1 \in Nat /\ 1 \in Nat /\ high <= (tunnel.flushed + 1) - 1
    BY <1>1
  <2>3. Flows(low, tunnel.flushed + 1, up')
    <3> HIDE DEF low
    <3> QED BY <1>1, <1>2, <2>1, <2>2, AddedFlow
  <2> QED BY <1>3, <2>1, <2>3 DEF RequestWindow
<1> QED BY <1>4, <1>5

-----------------------------------------------------------------------------
(* Streams: each side understands the other *)

\* Nothing is counted before it was sent, or beyond what there is.
Counted ==
    /\ body <= MaxRequest /\ server.sent <= body
    /\ tunnel.flushed <= tunnel.taken /\ tunnel.taken <= server.sent
    /\ server.got <= tunnel.offset /\ tunnel.offset + tunnel.queue <= MaxResponse

\* The stream is opened by the first message to the tunnel, and by no other.
Opening ==
    /\ tunnel.st = "none" => (linked => down # <<>>) /\ (down # <<>> => Head(down).type = "open")
    /\ \A i \in 1..Len(down) : down[i].type = "open" => i = 1 /\ tunnel.st # "open"

\* The messages on their way to the tunnel hold the chunks of the request that it does
\* not have, in order and without a gap; the end is behind all of them, and one.
RequestLine ==
    /\ tunnel.st # "gone" =>
          /\ InOrder(tunnel.taken, TRUE, server.sent, down)
          /\ linked => Gets(tunnel.taken, down, server.sent, Len(down) + 1)
          /\ tunnel.asked => tunnel.taken = server.sent
    /\ server.asked => server.sent = body
    /\ Once(server.asked, tunnel.asked, "end", down)

\* With this the server knows that the response begins.
HeaderKnown == IF kind = "http" THEN server.started ELSE server.accepted

\* The messages on their way to the server hold the chunks of the response that it does
\* not have, in order, without a gap and behind the header, and one header.
ResponseLine ==
    /\ server.st = "open" =>
          /\ InOrder(server.got, TRUE, tunnel.offset, up)
          /\ linked /\ tunnel.st # "gone" => Gets(server.got, up, tunnel.offset, Len(up) + 1)
          /\ \A i \in 1..Len(up) : up[i].type \in {"chunk", "end"} => Known(HeaderKnown, Header, up, i)
          /\ linked /\ tunnel.st # "gone" /\ tunnel.started => Known(HeaderKnown, Header, up, Len(up) + 1)
    /\ \A i \in 1..Len(up) : up[i].type = "end" => tunnel.st = "gone"
    /\ tunnel.over \/ tunnel.queue > 0 => tunnel.started
    /\ Once(tunnel.started, server.started, "start", up)

LEMMA ServerUnderstands ==
    ASSUME StreamTypes, ResponseLine, up # <<>>, server.st = "open"
    PROVE  /\ ServerAccepts(Head(up))
           /\ Head(up).type = "chunk" => server.got < tunnel.offset /\ Head(up).at = server.got
<1> DEFINE m == Head(up)
<1>1. /\ up \in Seq(Letter) /\ server.got \in Nat /\ tunnel.offset \in Nat /\ kind \in {"http", "websocket"}
  BY StreamNumbers
<1>2. Len(up) >= 1 /\ m = up[1] /\ 1 \in 1..Len(up) /\ 1..(1 - 1) = {}
  BY <1>1, Tails
<1>3. ASSUME m.type = "chunk"
      PROVE  m.at = server.got /\ server.got < tunnel.offset
  <2>1. InOrder(server.got, TRUE, tunnel.offset, up)
    BY DEF ResponseLine
  <2> QED BY <1>1, <1>3, <2>1, TakeChunk
<1>4. m.type \in {"chunk", "end"} => HeaderKnown
  <2>1. m.type \in {"chunk", "end"} => Known(HeaderKnown, Header, up, 1)
    BY <1>2 DEF ResponseLine
  <2> QED BY <1>2, <2>1 DEF Known
<1>5. m.type = "start" => ~server.started
  <2>1. Once(tunnel.started, server.started, "start", up)
    BY DEF ResponseLine
  <2> QED BY <1>2, <2>1 DEF Once
<1> HIDE DEF m
<1>6. ServerAccepts(m)
  BY <1>1, <1>3, <1>4, <1>5 DEF ServerAccepts, HeaderKnown
<1> QED BY <1>3, <1>6 DEF m

\* A sender that had credit for the chunk leaves room for it.
LEMMA RoomLeft ==
    ASSUME NEW credit \in Nat, NEW sent \in Nat, NEW window \in Nat, NEW flushed \in Nat, NEW taken \in Nat,
           credit + sent - window <= flushed, taken < sent
    PROVE  taken + 1 - flushed <= window
  OBVIOUS

LEMMA TunnelUnderstands ==
    ASSUME StreamTypes, ResponseWindow, RequestWindow, Counted, RequestLine, down # <<>>, tunnel.st = "open"
    PROVE  /\ TunnelAccepts(Head(down))
           /\ Head(down).type = "chunk" => tunnel.taken < server.sent
           /\ Head(down).type = "end" => tunnel.taken = server.sent
<1> DEFINE m == Head(down)
<1>1. /\ down \in Seq(Letter) /\ server.got \in Nat /\ server.owed \in Nat /\ tunnel.offset \in Nat
      /\ tunnel.taken \in Nat /\ tunnel.flushed \in Nat /\ server.sent \in Nat /\ server.credit \in Nat
      /\ Window \in Nat /\ tunnel.ack \in Nat
  BY StreamNumbers
<1>2. Len(down) >= 1 /\ m = down[1] /\ 1 \in 1..Len(down) /\ 1..(1 - 1) = {} /\ m \in Letter
  BY <1>1, Tails
<1>3. m.at \in Nat /\ m.n \in Nat
  BY <1>2 DEF Letter
<1>4. InOrder(tunnel.taken, TRUE, server.sent, down) /\ (tunnel.asked => tunnel.taken = server.sent)
      /\ Once(server.asked, tunnel.asked, "end", down)
  BY DEF RequestLine
<1>5. ASSUME m.type = "chunk"
      PROVE  ~tunnel.asked /\ m.at = tunnel.taken /\ tunnel.taken < server.sent
             /\ tunnel.taken + 1 - tunnel.flushed <= Window
  <2>1. m.at = tunnel.taken /\ tunnel.taken < server.sent
    BY <1>1, <1>4, <1>5, TakeChunk
  <2>2. server.credit + server.sent - Window <= tunnel.flushed
    BY DEF RequestWindow, Flows
  <2>3. ~tunnel.asked
    BY <1>1, <1>4, <2>1
  <2> HIDE DEF m
  <2>4. tunnel.taken + 1 - tunnel.flushed <= Window
    <3>1. tunnel.taken < server.sent
      BY <2>1
    <3> QED BY <1>1, <2>2, <3>1, RoomLeft
  <2> QED BY <2>1, <2>3, <2>4
<1>6. ASSUME m.type = "end"
      PROVE  ~tunnel.asked /\ tunnel.taken = server.sent
  <2>1. ~tunnel.asked
    BY <1>2, <1>4, <1>6 DEF Once
  <2>2. Gets(tunnel.taken, down, server.sent, 1)
    BY <1>2, <1>4, <1>6 DEF InOrder
  <2> QED BY <1>2, <2>1, <2>2 DEF Gets
<1>7. ASSUME m.type = "flow"
      PROVE  tunnel.ack <= m.at /\ m.at <= tunnel.offset
  <2>1. tunnel.ack <= m.at - m.n /\ m.at <= server.got - server.owed
    <3>1. Flows(tunnel.ack, server.got - server.owed, down)
      BY DEF ResponseWindow
    <3> QED BY <1>2, <1>7, <3>1 DEF Flows
  <2>2. server.got <= tunnel.offset
    BY DEF Counted
  <2> HIDE DEF m
  <2>3. \A a, b, c, d, e, f \in Nat : a <= b - c /\ b <= d - e /\ d <= f => a <= b /\ b <= f
    OBVIOUS
  <2> QED BY <1>1, <1>3, <2>1, <2>2, <2>3
<1> HIDE DEF m
<1>8. TunnelAccepts(m)
  BY <1>5, <1>6, <1>7 DEF TunnelAccepts
<1> QED BY <1>5, <1>6, <1>8 DEF m

LEMMA AppendBehind ==
    ASSUME NEW q \in Seq(Letter), NEW off \in Nat
    PROVE  /\ Append(q, Chunk(off)) = Behind(q, off, 1, FALSE)
           /\ Append(q, Plain("end")) = Behind(q, off, 0, TRUE)
<1>1. Chunk(off) \in Letter /\ Plain("end") \in Letter
  BY Letters DEF MessageType
<1>2. Chunks(off, 1) = <<Chunk(off)>>
  <2>1. Chunks(off, 1) = [j \in 1..1 |-> Chunk(off + j - 1)]
    BY DEF Chunks
  <2>2. \A j \in 1..1 : off + j - 1 = off
    OBVIOUS
  <2>3. \A j \in 1..1 : Chunk(off + j - 1) = Chunk(off)
    BY <2>2
  <2> QED BY <2>1, <2>3
<1>3. Chunks(off, 0) = <<>>
  BY DEF Chunks
<1>4. Behind(q, off, 1, FALSE) = q \o (<<Chunk(off)>> \o <<>>)
  BY <1>2 DEF Behind, EndIf
<1>5. Behind(q, off, 0, TRUE) = q \o (<<>> \o <<Plain("end")>>)
  BY <1>3 DEF Behind, EndIf
<1>6. <<Chunk(off)>> \o <<>> = <<Chunk(off)>> /\ <<>> \o <<Plain("end")>> = <<Plain("end")>>
  BY <1>1
<1> QED BY <1>1, <1>4, <1>5, <1>6, SendOne

\* More is sent, and lost.
LEMMA LosesInOrder ==
    ASSUME NEW got, NEW off \in Nat, NEW to \in Nat, off <= to, NEW q \in Seq(Letter),
           InOrder(got, TRUE, off, q), off = to \/ \A i \in 1..Len(q) : q[i].type # "end"
    PROVE  InOrder(got, TRUE, to, q)
<1>1. Len(q) <= Len(q) /\ \A i \in 1..Len(q) : q[i] = q[i]
  OBVIOUS
<1>2. /\ \A i \in 1..Len(q) : q[i].type = "chunk" =>
            got <= q[i].at /\ q[i].at < to /\ Gets(got, q, q[i].at, i) /\ Begins(TRUE, q, i)
      /\ \A i, j \in 1..Len(q) : i < j /\ q[i].type = "chunk" /\ q[j].type = "chunk" => q[i].at < q[j].at
      /\ \A i \in 1..Len(q) : q[i].type = "end" => Gets(got, q, to, i)
  BY <1>1, Extends
<1> QED BY <1>2 DEF InOrder

LEMMA ServerKeepsCounts ==
    ASSUME StreamTypes, Counted, ServerMoves, UNCHANGED <<body, tunnel>>,
           ServerGets(1) \/ ServerGetsFrame => server.got < tunnel.offset
    PROVE  Counted'
<1>1. server.got \in Nat /\ server.sent \in Nat /\ tunnel.offset \in Nat /\ body \in Nat /\ tunnel.taken \in Nat
  BY StreamNumbers
<1>2. /\ server'.got = server.got \/ (server'.got = server.got + 1 /\ server.got < tunnel.offset)
      /\ server'.sent = server.sent \/ (server'.sent = server.sent + 1 /\ server.sent < body)
  <2>1. CASE ServerQuiet \/ ServerSendsChunk \/ ServerSendsEnd \/ (\E n \in Nat : ServerCredited(n))
             \/ server' = server
    BY <2>1 DEF ServerQuiet, ServerSendsChunk, ServerSendsEnd, ServerCredited
  <2>2. CASE ServerGets(0)
    BY <1>1, <2>2 DEF ServerGets
  <2>3. CASE ServerGets(1) \/ ServerGetsFrame
    BY <2>3 DEF ServerGets, ServerGetsFrame
  <2> QED BY <2>1, <2>2, <2>3 DEF ServerMoves
<1>3. server'.got <= tunnel.offset
  BY <1>1, <1>2 DEF Counted
<1>4. server'.sent <= body /\ tunnel.taken <= server'.sent
  BY <1>1, <1>2 DEF Counted
<1> QED BY <1>3, <1>4 DEF Counted

LEMMA TunnelKeepsCounts ==
    ASSUME StreamTypes, Counted, UNCHANGED <<body, server>>,
           \/ TunnelQuiet \/ TunnelStarts \/ TunnelWrites \/ TunnelTakesEnd
           \/ TunnelTakesChunk /\ tunnel.taken < server.sent
           \/ \E n \in Nat, queue \in Nat, over \in BOOLEAN, ack \in Nat, credit \in Nat :
                 /\ TunnelSends(n, queue, over, ack, credit)
                 /\ tunnel.offset + queue <= MaxResponse \/ queue = tunnel.queue
    PROVE  Counted'
<1>1. /\ server.got \in Nat /\ server.sent \in Nat /\ tunnel.offset \in Nat /\ tunnel.taken \in Nat
      /\ tunnel.flushed \in Nat /\ tunnel.queue \in Nat /\ MaxResponse \in Nat
  BY StreamNumbers
<1>2. CASE TunnelQuiet \/ TunnelStarts \/ TunnelTakesEnd
  BY <1>2 DEF TunnelQuiet, TunnelStarts, TunnelStill, TunnelTakesEnd, Counted
<1>3. CASE TunnelWrites
  <2>1. tunnel'.flushed <= tunnel.taken
    BY <1>1, <1>3 DEF TunnelWrites
  <2> QED BY <1>3, <2>1 DEF TunnelWrites, Counted
<1>4. CASE TunnelTakesChunk /\ tunnel.taken < server.sent
  <2>1. tunnel.flushed <= tunnel'.taken /\ tunnel'.taken <= server.sent
    BY <1>1, <1>4 DEF TunnelTakesChunk, Counted
  <2> QED BY <1>4, <2>1 DEF TunnelTakesChunk, Counted
<1>5. CASE \E n \in Nat, queue \in Nat, over \in BOOLEAN, ack \in Nat, credit \in Nat :
                 /\ TunnelSends(n, queue, over, ack, credit)
                 /\ tunnel.offset + queue <= MaxResponse \/ queue = tunnel.queue
  <2>1. PICK n \in Nat, queue \in Nat :
          /\ tunnel'.taken = tunnel.taken /\ tunnel'.flushed = tunnel.flushed /\ tunnel'.queue = queue - n
          /\ tunnel'.offset = tunnel.offset + n
          /\ tunnel.offset + queue <= MaxResponse \/ queue = tunnel.queue
    BY <1>5 DEF TunnelSends
  <2>2. server.got <= tunnel'.offset /\ tunnel'.offset + tunnel'.queue <= MaxResponse
    BY <1>1, <2>1 DEF Counted
  <2> QED BY <2>1, <2>2 DEF Counted
<1> QED BY <1>2, <1>3, <1>4, <1>5

LEMMA ServerKeepsOpening ==
    ASSUME StreamTypes, Opening, ServerMoves, UNCHANGED <<tunnel, linked>>
    PROVE  Opening'
<1>1. down \in Seq(Letter) /\ linked \in BOOLEAN /\ server.got \in Nat /\ server.owed \in Nat /\ server.sent \in Nat
  BY StreamNumbers
<1>2. down' = down \/ \E m \in Letter : m.type # "open" /\ down' = Added(down, m)
  <2>1. /\ \A type \in {"cancel", "close", "end"} : Plain(type) \in Letter /\ Plain(type).type # "open"
        /\ Chunk(server.sent) \in Letter /\ Chunk(server.sent).type # "open"
        /\ \A k \in {0, 1} : Flow(server.got + k, server.owed + k) \in Letter
                             /\ Flow(server.got + k, server.owed + k).type # "open"
        /\ Flow(server.got + 1, 1) \in Letter /\ Flow(server.got + 1, 1).type # "open"
    <3>1. \A k \in {0, 1} : server.got + k \in Nat /\ server.owed + k \in Nat
      BY <1>1
    <3> QED BY <1>1, <3>1, Letters DEF MessageType
  <2>2. CASE ServerGets(0) \/ ServerGets(1) \/ ServerGetsFrame
    BY <2>1, <2>2 DEF ServerGets, ServerGetsFrame
  <2>3. CASE ServerQuiet \/ ServerSendsChunk \/ ServerSendsEnd
    BY <2>1, <2>3 DEF ServerQuiet, ServerSendsChunk, ServerSendsEnd
  <2>4. CASE (\E n \in Nat : ServerCredited(n)) \/ down' = down
    BY <2>4 DEF ServerCredited
  <2> QED BY <2>2, <2>3, <2>4 DEF ServerMoves
<1>3. ASSUME NEW m \in Letter, m.type # "open", linked, down' = Append(down, m)
      PROVE  Opening'
  <2>1. /\ Len(down) \in Nat /\ Len(down') = Len(down) + 1 /\ down'[Len(down) + 1] = m
        /\ \A i \in 1..Len(down) : down'[i] = down[i]
    BY <1>1, <1>3, AppendIsMore
  <2>2. \A i \in 1..Len(down') : i \in 1..Len(down) \/ down'[i].type # "open"
    BY <1>3, <2>1
  <2>3. \A i \in 1..Len(down') : down'[i].type = "open" => i = 1 /\ tunnel.st # "open"
    BY <2>1, <2>2 DEF Opening
  <2>4. ASSUME tunnel.st = "none"
        PROVE  down' # <<>> /\ Head(down').type = "open"
    <3>1. down # <<>> /\ Head(down).type = "open"
      BY <1>3, <2>4 DEF Opening
    <3>2. Head(down) = down[1] /\ 1 \in 1..Len(down)
      BY <1>1, <3>1, Tails
    <3>3. down' \in Seq(Letter) /\ down' # <<>>
      BY <1>1, <1>3, AppendProperties
    <3>4. Head(down') = down'[1]
      BY <3>3, Tails
    <3> QED BY <2>1, <3>1, <3>2, <3>3, <3>4
  <2> QED BY <2>3, <2>4 DEF Opening
<1>4. CASE down' = down
  BY <1>4 DEF Opening
<1> QED BY <1>2, <1>3, <1>4 DEF Added

\* Messages of other types go behind the others.
LEMMA AddedInOrder ==
    ASSUME NEW got, NEW off \in Nat, NEW q \in Seq(Letter), NEW m \in Letter, linked \in BOOLEAN,
           m.type # "chunk", m.type # "end", InOrder(got, TRUE, off, q)
    PROVE  /\ InOrder(got, TRUE, off, Added(q, m))
           /\ Gets(got, q, off, Len(q) + 1) => Gets(got, Added(q, m), off, Len(Added(q, m)) + 1)
<1>1. CASE linked
  <2>1. Added(q, m) = Append(q, m)
    BY <1>1 DEF Added
  <2> QED BY <2>1, SendOther
<1>2. CASE ~linked
  BY <1>2 DEF Added
<1> QED BY <1>1, <1>2

LEMMA AddedOnce ==
    ASSUME NEW q \in Seq(Letter), NEW m \in Letter, linked \in BOOLEAN, NEW type, m.type # type,
           NEW said, NEW heard, Once(said, heard, type, q)
    PROVE  Once(said, heard, type, Added(q, m))
<1>1. Added(q, m) \in Seq(Letter) /\ More(Added(q, m), q, {m.type}) /\ type \notin {m.type}
  BY AddedIsMore
<1> QED BY <1>1, MoreOnce

LEMMA SaidOnce ==
    ASSUME NEW q \in Seq(Letter), NEW m \in Letter, linked \in BOOLEAN, NEW heard,
           Once(FALSE, heard, m.type, q)
    PROVE  Once(TRUE, heard, m.type, Added(q, m))
<1>1. CASE linked
  BY <1>1, AppendOnce DEF Added
<1>2. CASE ~linked
  BY <1>2 DEF Added, Once
<1> QED BY <1>1, <1>2

\* All that is sent to the tunnel but for the request itself.
LEMMA ServerSays ==
    ASSUME StreamTypes, ServerMoves
    PROVE  \/ ServerSendsChunk \/ ServerSendsEnd
           \/ /\ server'.sent = server.sent /\ server'.asked = server.asked
              /\ \/ down' = down
                 \/ \E m \in Letter : m.type \notin {"chunk", "end", "open"} /\ down' = Added(down, m)
<1>1. server.got \in Nat /\ server.owed \in Nat
  BY StreamNumbers
<1>2. /\ \A type \in {"cancel", "close"} : Plain(type) \in Letter /\ Plain(type).type = type
      /\ \A k \in {0, 1} : Flow(server.got + k, server.owed + k) \in Letter
                           /\ Flow(server.got + k, server.owed + k).type = "flow"
      /\ Flow(server.got + 1, 1) \in Letter /\ Flow(server.got + 1, 1).type = "flow"
  <2>1. \A k \in {0, 1} : server.got + k \in Nat /\ server.owed + k \in Nat
    BY <1>1
  <2> QED BY <1>1, <2>1, Letters DEF MessageType
<1>3. CASE ServerGets(0) \/ ServerGets(1) \/ ServerGetsFrame
  BY <1>2, <1>3 DEF ServerGets, ServerGetsFrame
<1>4. CASE ServerQuiet
  BY <1>2, <1>4 DEF ServerQuiet
<1>5. CASE (\E n \in Nat : ServerCredited(n)) \/ (server' = server /\ down' = down)
  BY <1>5 DEF ServerCredited
<1> QED BY <1>3, <1>4, <1>5 DEF ServerMoves

LEMMA ServerKeepsRequestLine ==
    ASSUME StreamTypes, Counted, RequestLine, ServerMoves, UNCHANGED <<body, tunnel, linked>>
    PROVE  RequestLine'
<1>1. /\ down \in Seq(Letter) /\ linked \in BOOLEAN /\ server.sent \in Nat /\ tunnel.taken \in Nat
      /\ tunnel.taken <= server.sent
  BY StreamNumbers DEF Counted
<1>2. CASE /\ server'.sent = server.sent /\ server'.asked = server.asked
           /\ \/ down' = down
              \/ \E m \in Letter : m.type \notin {"chunk", "end", "open"} /\ down' = Added(down, m)
  <2>1. CASE down' = down
    BY <1>2, <2>1 DEF RequestLine
  <2>2. CASE \E m \in Letter : m.type \notin {"chunk", "end", "open"} /\ down' = Added(down, m)
    <3>1. PICK m \in Letter : m.type \notin {"chunk", "end", "open"} /\ down' = Added(down, m)
      BY <2>2
    <3>2. Once(server.asked, tunnel.asked, "end", down')
      BY <1>1, <3>1, AddedOnce DEF RequestLine
    <3>3. tunnel.st # "gone" => InOrder(tunnel.taken, TRUE, server.sent, down')
      BY <1>1, <3>1, AddedInOrder DEF RequestLine
    <3>4. tunnel.st # "gone" /\ linked => Gets(tunnel.taken, down', server.sent, Len(down') + 1)
      BY <1>1, <3>1, AddedInOrder DEF RequestLine
    <3> QED BY <1>2, <3>2, <3>3, <3>4 DEF RequestLine
  <2> QED BY <1>2, <2>1, <2>2
<1>3. CASE ServerSendsChunk
  <2>1. /\ server'.sent = server.sent + 1 /\ server'.asked = server.asked /\ server.sent < body
        /\ down' = Added(down, Chunk(server.sent)) /\ body \in Nat
    BY <1>3, StreamNumbers DEF ServerSendsChunk
  <2>2. ~server.asked
    BY <1>1, <2>1 DEF RequestLine
  <2>3. (\A i \in 1..Len(down) : down[i].type # "end") /\ ~tunnel.asked
    BY <2>2 DEF RequestLine, Once
  <2>4. Once(server.asked, tunnel.asked, "end", down')
    <3>1. Chunk(server.sent) \in Letter /\ Chunk(server.sent).type # "end"
      BY <1>1, Letters
    <3> QED BY <1>1, <2>1, <3>1, AddedOnce DEF RequestLine
  <2>5. ASSUME tunnel.st # "gone"
        PROVE  /\ InOrder(tunnel.taken, TRUE, server.sent + 1, down')
               /\ linked => Gets(tunnel.taken, down', server.sent + 1, Len(down') + 1)
    <3>1. InOrder(tunnel.taken, TRUE, server.sent, down)
          /\ (linked => Gets(tunnel.taken, down, server.sent, Len(down) + 1))
      BY <2>5 DEF RequestLine
    <3>2. CASE linked
      <4>1. down' = Behind(down, server.sent, 1, FALSE)
        <5>1. down' = Append(down, Chunk(server.sent))
          BY <2>1, <3>2 DEF Added
        <5> QED BY <1>1, <5>1, AppendBehind
      <4>2. Begins(TRUE, down, Len(down) + 1)
        BY DEF Begins
      <4> DEFINE p == Behind(down, server.sent, 1, FALSE)
      <4>3. InOrder(tunnel.taken, TRUE, server.sent + 1, p) /\ Gets(tunnel.taken, p, server.sent + 1, Len(p) + 1)
        <5>1. 1 \in Nat /\ FALSE \in BOOLEAN
          OBVIOUS
        <5> HIDE DEF p
        <5> QED BY <1>1, <2>3, <3>1, <3>2, <4>2, <5>1, SendFlushed DEF p
      <4> QED BY <4>1, <4>3
    <3>3. CASE ~linked
      <4>1. down' = down /\ server.sent + 1 \in Nat /\ server.sent <= server.sent + 1
        BY <1>1, <2>1, <3>3 DEF Added
      <4> QED BY <1>1, <2>3, <3>1, <3>3, <4>1, LosesInOrder
    <3> QED BY <1>1, <3>2, <3>3
  <2> QED BY <2>1, <2>2, <2>3, <2>4, <2>5 DEF RequestLine
<1>4. CASE ServerSendsEnd
  <2>1. /\ server'.sent = server.sent /\ server'.asked = TRUE /\ ~server.asked /\ server.sent = body
        /\ down' = Added(down, Plain("end"))
    BY <1>4 DEF ServerSendsEnd
  <2>2. Once(FALSE, tunnel.asked, "end", down)
    BY <2>1 DEF RequestLine, Once
  <2>3. (\A i \in 1..Len(down) : down[i].type # "end") /\ ~tunnel.asked
    BY <2>2 DEF Once
  <2>4. Once(TRUE, tunnel.asked, "end", down')
    <3>1. Plain("end") \in Letter /\ Plain("end").type = "end"
      BY Letters DEF MessageType
    <3>2. Once(TRUE, tunnel.asked, Plain("end").type, Added(down, Plain("end")))
      BY <1>1, <2>2, <3>1, SaidOnce
    <3> QED BY <2>1, <3>1, <3>2
  <2>5. ASSUME tunnel.st # "gone"
        PROVE  /\ InOrder(tunnel.taken, TRUE, server.sent, down')
               /\ linked => Gets(tunnel.taken, down', server.sent, Len(down') + 1)
    <3>1. InOrder(tunnel.taken, TRUE, server.sent, down)
          /\ (linked => Gets(tunnel.taken, down, server.sent, Len(down) + 1))
      BY <2>5 DEF RequestLine
    <3>2. CASE linked
      <4>1. down' = Behind(down, server.sent, 0, TRUE)
        <5>1. down' = Append(down, Plain("end"))
          BY <2>1, <3>2 DEF Added
        <5> QED BY <1>1, <5>1, AppendBehind
      <4> DEFINE p == Behind(down, server.sent, 0, TRUE)
      <4>2. InOrder(tunnel.taken, TRUE, server.sent + 0, p) /\ Gets(tunnel.taken, p, server.sent + 0, Len(p) + 1)
        <5>1. 0 \in Nat /\ TRUE \in BOOLEAN /\ ~(0 > 0)
          OBVIOUS
        <5> HIDE DEF p
        <5> QED BY <1>1, <2>3, <3>1, <3>2, <5>1, SendFlushed DEF p
      <4>3. server.sent + 0 = server.sent
        BY <1>1
      <4> HIDE DEF p
      <4> QED BY <4>1, <4>2, <4>3 DEF p
    <3>3. CASE ~linked
      BY <2>1, <3>1, <3>3 DEF Added
    <3> QED BY <1>1, <3>2, <3>3
  <2> QED BY <2>1, <2>3, <2>4, <2>5 DEF RequestLine
<1> QED BY <1>2, <1>3, <1>4, ServerSays

LEMMA TunnelKeepsOpening ==
    ASSUME StreamTypes, Opening, linked' = linked,
           \/ /\ down' = down
              /\ tunnel'.st = "none" => tunnel.st = "none"
              /\ tunnel'.st = "open" => tunnel.st = "open"
           \/ down # <<>> /\ down' = Tail(down) /\ tunnel'.st # "none"
    PROVE  Opening'
<1>1. CASE /\ down' = down
           /\ tunnel'.st = "none" => tunnel.st = "none"
           /\ tunnel'.st = "open" => tunnel.st = "open"
  BY <1>1 DEF Opening
<1>2. CASE down # <<>> /\ down' = Tail(down) /\ tunnel'.st # "none"
  <2>1. /\ Len(down) \in Nat /\ Len(down') = Len(down) - 1
        /\ \A i \in 1..(Len(down) - 1) : down'[i] = down[i + 1]
    BY <1>2, Tails, StreamNumbers
  <2>2. \A i \in 1..Len(down') : i + 1 \in 1..Len(down) /\ down'[i] = down[i + 1] /\ i + 1 # 1
    BY <2>1
  <2>3. \A i \in 1..Len(down') : down'[i].type # "open"
    BY <2>2 DEF Opening
  <2> QED BY <1>2, <2>3 DEF Opening
<1> QED BY <1>1, <1>2

LEMMA TunnelTakesRequest ==
    ASSUME StreamTypes, Opening, Counted, RequestLine, ResponseWindow, RequestWindow, TunnelReceives
    PROVE  RequestLine'
<1> DEFINE m == Head(down)
<1>1. /\ down # <<>> /\ down' = Tail(down) /\ UNCHANGED <<kind, body, server, linked>>
      /\ tunnel'.st # "none" /\ (tunnel.st = "gone" => tunnel'.st = "gone")
  BY TunnelHears
<1>2. \/ tunnel.st # "open" /\ TunnelQuiet
      \/ tunnel.st = "open" /\ ~TunnelAccepts(m) /\ TunnelQuiet /\ tunnel'.st = "gone"
      \/ tunnel.st = "open" /\ TunnelAccepts(m) /\ TunnelTakes(m)
  BY TunnelHears
<1>3. /\ down \in Seq(Letter) /\ server.sent \in Nat /\ tunnel.taken \in Nat
      /\ tunnel.st \in {"none", "open", "gone"} /\ Tail(down) \in Seq(Letter) /\ Part(Tail(down), down)
  BY <1>1, StreamNumbers, TailIsPart
<1>4. ASSUME tunnel.st # "gone"
      PROVE  /\ InOrder(tunnel.taken, TRUE, server.sent, down)
             /\ linked => Gets(tunnel.taken, down, server.sent, Len(down) + 1)
             /\ tunnel.asked => tunnel.taken = server.sent
  BY <1>4 DEF RequestLine
<1>5. Once(server.asked, tunnel.asked, "end", down) /\ (server.asked => server.sent = body)
  BY DEF RequestLine
<1>6. Once(server.asked, tunnel.asked, "end", down')
  BY <1>1, <1>3, <1>5, PartOnce
\* The end of the request stays where it is, and the tunnel takes no chunk.
<1>7. ASSUME tunnel.st # "gone", m.type # "chunk", tunnel'.taken = tunnel.taken
      PROVE  /\ InOrder(tunnel'.taken, TRUE, server.sent, down')
             /\ linked => Gets(tunnel'.taken, down', server.sent, Len(down') + 1)
  <2> HIDE DEF m
  <2> QED BY <1>1, <1>3, <1>4, <1>7, TakeOther DEF m
<1>8. ASSUME tunnel'.taken = tunnel.taken, tunnel'.asked = tunnel.asked,
             tunnel'.st = "gone" \/ (tunnel.st # "gone" /\ m.type # "chunk")
      PROVE  RequestLine'
  <2>1. CASE tunnel'.st = "gone"
    BY <1>1, <1>5, <1>6, <1>8, <2>1 DEF RequestLine
  <2>2. CASE tunnel.st # "gone" /\ m.type # "chunk"
    <3> HIDE DEF m
    <3> QED BY <1>1, <1>4, <1>5, <1>6, <1>7, <1>8, <2>2 DEF RequestLine
  <2> QED BY <1>8, <2>1, <2>2
<1>9. CASE TunnelQuiet /\ (tunnel'.st = "gone" \/ tunnel.st # "open")
  <2>1. tunnel'.taken = tunnel.taken /\ tunnel'.asked = tunnel.asked
    BY <1>9 DEF TunnelQuiet, TunnelStill
  <2>2. tunnel'.st = "gone" \/ (tunnel.st # "gone" /\ m.type # "chunk")
    BY <1>1, <1>3, <1>9 DEF Opening
  <2> QED BY <1>8, <2>1, <2>2
<1>10. CASE tunnel.st = "open" /\ TunnelAccepts(m) /\ TunnelTakes(m)
  <2>1. CASE m.type = "chunk" /\ TunnelTakesChunk
    <3>1. tunnel'.taken = tunnel.taken + 1 /\ tunnel'.asked = tunnel.asked /\ ~tunnel.asked
      BY <1>10, <2>1 DEF TunnelTakesChunk, TunnelAccepts
    <3>2. InOrder(tunnel.taken + 1, TRUE, server.sent, down')
      BY <1>1, <1>3, <1>4, <1>10, <2>1, TakeChunk
    <3>3. linked => Gets(tunnel.taken + 1, down', server.sent, Len(down') + 1)
      BY <1>1, <1>3, <1>4, <1>10, <2>1, TakeChunk
    <3> HIDE DEF m
    <3> QED BY <1>1, <1>5, <1>6, <3>1, <3>2, <3>3 DEF RequestLine
  <2>2. CASE m.type = "end" /\ TunnelTakesEnd
    <3>1. tunnel'.taken = tunnel.taken /\ tunnel'.asked = TRUE
      BY <2>2 DEF TunnelTakesEnd
    <3>2. tunnel.taken = server.sent
      BY <1>1, <1>10, <2>2, TunnelUnderstands
    <3>3. Once(server.asked, TRUE, "end", down')
      <4>1. Once(server.asked, tunnel.asked, m.type, down)
        BY <1>5, <2>2
      <4>2. Once(server.asked, TRUE, m.type, Tail(down))
        BY <1>1, <1>3, <4>1, TakeOnce
      <4> QED BY <1>1, <2>2, <4>2
    <3> HIDE DEF m
    <3> QED BY <1>1, <1>5, <1>7, <1>10, <2>2, <3>1, <3>2, <3>3 DEF RequestLine
  <2>3. CASE m.type \notin {"chunk", "end"}
    <3>1. tunnel'.taken = tunnel.taken /\ tunnel'.asked = tunnel.asked
      BY <1>10, <2>3 DEF TunnelTakes, TunnelSends, TunnelQuiet, TunnelStill
    <3> QED BY <1>8, <1>10, <2>3, <3>1
  <2> HIDE DEF m
  <2> QED BY <1>10, <2>1, <2>2, <2>3 DEF TunnelTakes
<1> HIDE DEF m
<1> QED BY <1>2, <1>9, <1>10

LEMMA ServerKeepsResponseLine ==
    ASSUME StreamTypes, ResponseLine, UNCHANGED <<kind, tunnel, up>>, linked' => linked,
           server'.started = server.started, server'.accepted = server.accepted,
           server'.st = "open" => server.st = "open", server'.got = server.got
    PROVE  ResponseLine'
<1>1. HeaderKnown' = HeaderKnown /\ Header' = Header
  BY DEF HeaderKnown, Header
<1>2. ASSUME server'.st = "open"
      PROVE  /\ InOrder(server.got, TRUE, tunnel.offset, up)
             /\ linked' /\ tunnel.st # "gone" => Gets(server.got, up, tunnel.offset, Len(up) + 1)
             /\ \A i \in 1..Len(up) : up[i].type \in {"chunk", "end"} => Known(HeaderKnown, Header, up, i)
             /\ linked' /\ tunnel.st # "gone" /\ tunnel.started => Known(HeaderKnown, Header, up, Len(up) + 1)
  BY <1>2 DEF ResponseLine
<1>3. /\ \A i \in 1..Len(up) : up[i].type = "end" => tunnel.st = "gone"
      /\ tunnel.over \/ tunnel.queue > 0 => tunnel.started
      /\ Once(tunnel.started, server'.started, "start", up)
  BY DEF ResponseLine
<1> HIDE DEF HeaderKnown, Header
<1> QED BY <1>1, <1>2, <1>3 DEF ResponseLine

LEMMA ServerTakesResponse ==
    ASSUME StreamTypes, ResponseLine, ServerReceives
    PROVE  ResponseLine'
<1> DEFINE m == Head(up)
<1>1. /\ up # <<>> /\ up' = Tail(up) /\ UNCHANGED <<kind, body, tunnel>>
      /\ server'.st = "open" => server.st = "open"
      /\ \/ server.st # "open" /\ UNCHANGED <<server, down, linked>>
         \/ server.st = "open" /\ UNCHANGED linked /\ ServerTakes(m)
  BY ServerHears, ServerUnderstands
<1>2. /\ up \in Seq(Letter) /\ server.got \in Nat /\ tunnel.offset \in Nat /\ linked \in BOOLEAN
      /\ kind \in {"http", "websocket"} /\ m \in Letter /\ m.type \in MessageType
      /\ Tail(up) \in Seq(Letter) /\ Part(Tail(up), up)
      /\ Len(up) \in Nat /\ Len(up) >= 1 /\ Len(Tail(up)) = Len(up) - 1
      /\ \A i \in 1..(Len(up) - 1) : Tail(up)[i] = up[i + 1]
  <2>1. /\ up \in Seq(Letter) /\ server.got \in Nat /\ tunnel.offset \in Nat /\ linked \in BOOLEAN
        /\ kind \in {"http", "websocket"}
    BY StreamNumbers
  <2>2. /\ Len(up) \in Nat /\ Len(up) >= 1 /\ Len(Tail(up)) = Len(up) - 1 /\ m = up[1]
        /\ \A i \in 1..(Len(up) - 1) : Tail(up)[i] = up[i + 1]
    BY <1>1, <2>1, Tails
  <2>3. m \in Letter /\ m.type \in MessageType
    BY <2>1, <2>2, Numbers
  <2> QED BY <1>1, <2>1, <2>2, <2>3, TailIsPart
<1>3. linked' = linked /\ Header' = Header
  BY <1>1 DEF Header
<1>4. /\ \A i \in 1..Len(up) : up[i].type = "end" => tunnel.st = "gone"
      /\ tunnel.over \/ tunnel.queue > 0 => tunnel.started
      /\ Once(tunnel.started, server.started, "start", up)
  BY DEF ResponseLine
<1>5. \A i \in 1..Len(up') : i \in Nat /\ i <= Len(up) /\ i + 1 \in 1..Len(up) /\ up'[i] = up[i + 1]
  BY <1>1, <1>2
<1>6. \A i \in 1..Len(up') : up'[i].type = "end" => tunnel.st = "gone"
  BY <1>4, <1>5
<1>7. CASE server.st # "open"
  <2>1. UNCHANGED server
    BY <1>1, <1>7
  <2>2. Once(tunnel.started, server.started, "start", up')
    BY <1>1, <1>2, <1>4, PartOnce
  <2> QED BY <1>1, <1>4, <1>6, <1>7, <2>1, <2>2 DEF ResponseLine
<1>8. CASE server.st = "open"
  <2>1. ServerTakes(m)
    BY <1>1, <1>8
  <2>2. /\ server'.started = IF m.type = "start" THEN TRUE ELSE server.started
        /\ server'.accepted = IF m.type = "accepted" THEN TRUE ELSE server.accepted
        /\ server'.got = IF m.type = "chunk" THEN server.got + 1 ELSE server.got
    BY <1>2, <2>1 DEF ServerTakes, ServerQuiet, ServerGets, ServerGetsFrame, ServerCredited
  <2>3. HeaderKnown \/ m.type = Header => HeaderKnown'
    BY <1>1, <1>2, <2>2 DEF HeaderKnown, Header
  <2>4. /\ InOrder(server.got, TRUE, tunnel.offset, up)
        /\ linked /\ tunnel.st # "gone" => Gets(server.got, up, tunnel.offset, Len(up) + 1)
        /\ \A i \in 1..Len(up) : up[i].type \in {"chunk", "end"} => Known(HeaderKnown, Header, up, i)
        /\ linked /\ tunnel.st # "gone" /\ tunnel.started => Known(HeaderKnown, Header, up, Len(up) + 1)
    BY <1>8 DEF ResponseLine
  <2>5. ASSUME NEW i \in Nat, i <= Len(up), Known(HeaderKnown, Header, up, i + 1)
        PROVE  Known(HeaderKnown', Header, up', i)
    <3> HIDE DEF m
    <3>1. HeaderKnown \/ Head(up).type = Header => HeaderKnown'
      BY <2>3 DEF m
    <3> HIDE DEF HeaderKnown, Header
    <3> QED BY <1>1, <1>2, <2>5, <3>1, TakeKnown
  <2>6. ASSUME NEW i \in 1..Len(up'), up'[i].type \in {"chunk", "end"}
        PROVE  Known(HeaderKnown', Header, up', i)
    <3>1. i \in Nat /\ i <= Len(up) /\ i + 1 \in 1..Len(up) /\ up'[i] = up[i + 1]
      BY <1>5
    <3>2. Known(HeaderKnown, Header, up, i + 1)
      BY <2>4, <2>6, <3>1
    <3> QED BY <2>5, <3>1, <3>2
  <2>7. linked /\ tunnel.st # "gone" /\ tunnel.started => Known(HeaderKnown', Header, up', Len(up') + 1)
    <3>1. Len(up') + 1 = Len(up) /\ Len(up) \in Nat /\ Len(up) <= Len(up)
      BY <1>1, <1>2
    <3> QED BY <2>4, <2>5, <3>1
  <2>8. Once(tunnel.started, server'.started, "start", up')
    <3>1. CASE m.type = "start"
      <4>1. Once(tunnel.started, server.started, m.type, up)
        BY <1>4, <3>1
      <4>2. Once(tunnel.started, TRUE, m.type, Tail(up))
        BY <1>1, <1>2, <4>1, TakeOnce
      <4> QED BY <1>1, <2>2, <3>1, <4>2
    <3>2. CASE m.type # "start"
      <4>1. Once(tunnel.started, server.started, "start", Tail(up))
        BY <1>2, <1>4, PartOnce
      <4> QED BY <1>1, <2>2, <3>2, <4>1
    <3> QED BY <3>1, <3>2
  <2>9. /\ InOrder(server'.got, TRUE, tunnel.offset, up')
        /\ linked /\ tunnel.st # "gone" => Gets(server'.got, up', tunnel.offset, Len(up') + 1)
    <3>1. CASE m.type = "chunk"
      <4>1. /\ InOrder(server.got + 1, TRUE, tunnel.offset, Tail(up))
            /\ Gets(server.got, up, tunnel.offset, Len(up) + 1) =>
                  Gets(server.got + 1, Tail(up), tunnel.offset, Len(Tail(up)) + 1)
        BY <1>1, <1>2, <2>4, <3>1, TakeChunk
      <4> QED BY <1>1, <2>2, <2>4, <3>1, <4>1
    <3>2. CASE m.type # "chunk"
      <4>1. /\ InOrder(server.got, TRUE, tunnel.offset, Tail(up))
            /\ Gets(server.got, up, tunnel.offset, Len(up) + 1) =>
                  Gets(server.got, Tail(up), tunnel.offset, Len(Tail(up)) + 1)
        BY <1>1, <1>2, <2>4, <3>2, TakeOther
      <4> QED BY <1>1, <2>2, <2>4, <3>2, <4>1
    <3> QED BY <3>1, <3>2
  <2> HIDE DEF HeaderKnown, Header, m
  <2> QED BY <1>1, <1>3, <1>4, <1>6, <2>6, <2>7, <2>8, <2>9 DEF ResponseLine
<1> QED BY <1>7, <1>8

\* A message that is neither a chunk nor the end goes behind the others: what they
\* need to know is known.
LEMMA AddedKnown ==
    ASSUME NEW q \in Seq(Letter), NEW m \in Letter, m.type \notin {"chunk", "end"}, linked \in BOOLEAN,
           NEW heard, NEW type,
           \A i \in 1..Len(q) : q[i].type \in {"chunk", "end"} => Known(heard, type, q, i)
    PROVE  LET p == Added(q, m) IN
           /\ \A i \in 1..Len(p) : p[i].type \in {"chunk", "end"} => Known(heard, type, p, i)
           /\ Known(heard, type, q, Len(q) + 1) => Known(heard, type, p, Len(p) + 1)
           /\ linked /\ m.type = type => Known(heard, type, p, Len(p) + 1)
<1> DEFINE p == Added(q, m)
<1>1. CASE linked
  <2>1. /\ p \in Seq(Letter) /\ Len(q) \in Nat /\ Len(p) = Len(q) + 1 /\ p[Len(q) + 1] = m
        /\ \A i \in 1..Len(q) : p[i] = q[i]
    BY <1>1, AppendIsMore DEF Added
  <2> HIDE DEF p
  <2>2. \A i \in 1..Len(p) : i \in 1..Len(q) \/ i = Len(q) + 1
    BY <2>1
  <2>3. ASSUME NEW i \in 1..Len(p), p[i].type \in {"chunk", "end"}
        PROVE  Known(heard, type, p, i)
    <3>1. i \in 1..Len(q) /\ p[i] = q[i] /\ i \in Nat /\ i <= i
      BY <2>1, <2>2, <2>3
    <3>2. \A k \in 1..(i - 1) : p[k] = q[k]
      BY <2>1, <3>1
    <3> QED BY <2>3, <3>1, <3>2, SameKnown
  <2>4. ASSUME Known(heard, type, q, Len(q) + 1)
        PROVE  Known(heard, type, p, Len(p) + 1)
    <3> DEFINE i == Len(q) + 1
               j == Len(p) + 1
    <3>1. i \in Nat /\ j \in Nat /\ i <= j /\ \A k \in 1..(i - 1) : p[k] = q[k]
      BY <2>1
    <3>2. Known(heard, type, q, i)
      BY <2>4
    <3> HIDE DEF i, j
    <3>3. Known(heard, type, p, j)
      BY <3>1, <3>2, SameKnown
    <3> QED BY <3>3 DEF j
  <2>5. m.type = type => Known(heard, type, p, Len(p) + 1)
    <3>1. Len(q) + 1 \in 1..((Len(p) + 1) - 1)
      BY <2>1
    <3> QED BY <2>1, <3>1 DEF Known
  <2> QED BY <2>3, <2>4, <2>5 DEF p
<1>2. CASE ~linked
  BY <1>2 DEF Added
<1> QED BY <1>1, <1>2

\* All that the tunnel says but for the response itself.
TunnelSays ==
    /\ tunnel'.started = tunnel.started /\ tunnel'.offset = tunnel.offset
    /\ tunnel'.queue = tunnel.queue /\ tunnel'.over = tunnel.over
    /\ \/ up' = up
       \/ \E m \in Letter : m.type \notin {"chunk", "end", "start"} /\ up' = Added(up, m)

LEMMA TunnelOnlySays ==
    ASSUME StreamTypes, TunnelQuiet \/ TunnelWrites \/ TunnelTakesChunk \/ TunnelTakesEnd
    PROVE  TunnelSays
<1>1. CASE TunnelQuiet
  <2>1. \A type \in {"accepted", "error", "close"} : Plain(type) \in Letter /\ Plain(type).type = type
    BY Letters DEF MessageType
  <2>2. up' = up \/ \E m \in Letter : m.type \notin {"chunk", "end", "start"} /\ up' = Added(up, m)
    BY <1>1, <2>1 DEF TunnelQuiet
  <2> QED BY <1>1, <2>2 DEF TunnelQuiet, TunnelStill, TunnelSays
<1>2. CASE TunnelWrites
  <2>1. tunnel.flushed + 1 \in Nat /\ 1 \in Nat
    <3>1. tunnel.flushed + 1 \in Nat
      BY StreamNumbers, Zenon
    <3> QED BY <3>1
  <2>2. Flow(tunnel.flushed + 1, 1) \in Letter /\ Flow(tunnel.flushed + 1, 1).type = "flow"
    BY <2>1, Letters
  <2> QED BY <1>2, <2>2 DEF TunnelWrites, TunnelSays
<1>3. CASE TunnelTakesChunk \/ TunnelTakesEnd
  BY <1>3 DEF TunnelTakesChunk, TunnelTakesEnd, TunnelSays
<1> QED BY <1>1, <1>2, <1>3

\* The parts of ResponseLine after a step of the tunnel.
LEMMA ResponseLineFollows ==
    ASSUME UNCHANGED <<kind, server, linked>>,
           server.st = "open" => InOrder(server.got, TRUE, tunnel'.offset, up'),
           server.st = "open" /\ linked /\ tunnel'.st # "gone" => Gets(server.got, up', tunnel'.offset, Len(up') + 1),
           server.st = "open" =>
               \A i \in 1..Len(up') : up'[i].type \in {"chunk", "end"} => Known(HeaderKnown, Header, up', i),
           server.st = "open" /\ linked /\ tunnel'.st # "gone" /\ tunnel'.started =>
               Known(HeaderKnown, Header, up', Len(up') + 1),
           \A i \in 1..Len(up') : up'[i].type = "end" => tunnel'.st = "gone",
           tunnel'.over \/ tunnel'.queue > 0 => tunnel'.started,
           Once(tunnel'.started, server.started, "start", up')
    PROVE  ResponseLine'
<1>1. HeaderKnown' = HeaderKnown /\ Header' = Header /\ server' = server /\ linked' = linked
  BY DEF HeaderKnown, Header
<1> HIDE DEF HeaderKnown, Header
<1>2. ASSUME server'.st = "open"
      PROVE  /\ InOrder(server'.got, TRUE, tunnel'.offset, up')
             /\ linked' /\ tunnel'.st # "gone" => Gets(server'.got, up', tunnel'.offset, Len(up') + 1)
             /\ \A i \in 1..Len(up') : up'[i].type \in {"chunk", "end"} => Known(HeaderKnown', Header', up', i)
             /\ linked' /\ tunnel'.st # "gone" /\ tunnel'.started =>
                   Known(HeaderKnown', Header', up', Len(up') + 1)
  <2>1. server.st = "open" /\ server'.got = server.got
    BY <1>1, <1>2
  <2>2. \A i : Known(HeaderKnown, Header, up', i) => Known(HeaderKnown', Header', up', i)
    BY <1>1 DEF Known
  <2>3. InOrder(server'.got, TRUE, tunnel'.offset, up')
    BY <2>1
  <2>4. linked' /\ tunnel'.st # "gone" => Gets(server'.got, up', tunnel'.offset, Len(up') + 1)
    BY <1>1, <2>1
  <2>5. \A i \in 1..Len(up') : up'[i].type \in {"chunk", "end"} => Known(HeaderKnown', Header', up', i)
    BY <2>1, <2>2
  <2>6. linked' /\ tunnel'.st # "gone" /\ tunnel'.started => Known(HeaderKnown', Header', up', Len(up') + 1)
    BY <1>1, <2>1, <2>2
  <2> QED BY <2>3, <2>4, <2>5, <2>6
<1>3. Once(tunnel'.started, server'.started, "start", up')
  BY <1>1
<1> QED BY <1>2, <1>3 DEF ResponseLine

LEMMA TunnelKeepsResponseLine ==
    ASSUME StreamTypes, Counted, ResponseLine, UNCHANGED <<kind, server, linked>>,
           tunnel.st = "gone" => tunnel'.st = "gone",
           \/ TunnelSays \/ TunnelStarts
           \/ \E n \in Nat, queue \in Nat, over \in BOOLEAN, ack \in Nat, credit \in Nat :
                 /\ TunnelSends(n, queue, over, ack, credit)
                 /\ over \/ queue > 0 => tunnel.started
    PROVE  ResponseLine'
<1>1. /\ up \in Seq(Letter) /\ server.got \in Nat /\ tunnel.offset \in Nat /\ linked \in BOOLEAN
      /\ kind \in {"http", "websocket"} /\ server.got <= tunnel.offset /\ tunnel.queue \in Nat
      /\ Len(up) \in Nat
  BY StreamNumbers DEF Counted
<1>2. HeaderKnown' = HeaderKnown /\ Header' = Header /\ server' = server /\ linked' = linked
  BY DEF HeaderKnown, Header
<1>3. ASSUME server.st = "open"
      PROVE  /\ InOrder(server.got, TRUE, tunnel.offset, up)
             /\ linked /\ tunnel.st # "gone" => Gets(server.got, up, tunnel.offset, Len(up) + 1)
             /\ \A i \in 1..Len(up) : up[i].type \in {"chunk", "end"} => Known(HeaderKnown, Header, up, i)
             /\ linked /\ tunnel.st # "gone" /\ tunnel.started => Known(HeaderKnown, Header, up, Len(up) + 1)
  BY <1>3 DEF ResponseLine
<1>4. /\ \A i \in 1..Len(up) : up[i].type = "end" => tunnel.st = "gone"
      /\ tunnel.over \/ tunnel.queue > 0 => tunnel.started
      /\ Once(tunnel.started, server.started, "start", up)
  BY DEF ResponseLine
<1> HIDE DEF HeaderKnown
<1>5. ASSUME NEW m \in Letter, m.type \notin {"chunk", "end"}, up' = Added(up, m),
             tunnel'.offset = tunnel.offset, tunnel'.queue = tunnel.queue, tunnel'.over = tunnel.over,
             tunnel.started => tunnel'.started,
             tunnel'.started => tunnel.started \/ m.type = Header,
             Once(tunnel'.started, server.started, "start", up')
      PROVE  ResponseLine'
  <2>1. ASSUME server.st = "open"
        PROVE  /\ InOrder(server.got, TRUE, tunnel.offset, up')
               /\ linked /\ tunnel.st # "gone" => Gets(server.got, up', tunnel.offset, Len(up') + 1)
    BY <1>1, <1>3, <1>5, <2>1, AddedInOrder
  <2>2. ASSUME server.st = "open"
        PROVE  /\ \A i \in 1..Len(up') : up'[i].type \in {"chunk", "end"} => Known(HeaderKnown, Header, up', i)
               /\ linked /\ tunnel.st # "gone" /\ tunnel'.started => Known(HeaderKnown, Header, up', Len(up') + 1)
    <3> HIDE DEF Header
    <3>1. \A i \in 1..Len(up) : up[i].type \in {"chunk", "end"} => Known(HeaderKnown, Header, up, i)
      BY <1>3, <2>2
    <3>2. /\ \A i \in 1..Len(up') : up'[i].type \in {"chunk", "end"} => Known(HeaderKnown, Header, up', i)
          /\ Known(HeaderKnown, Header, up, Len(up) + 1) => Known(HeaderKnown, Header, up', Len(up') + 1)
          /\ linked /\ m.type = Header => Known(HeaderKnown, Header, up', Len(up') + 1)
      BY <1>1, <1>5, <3>1, AddedKnown
    <3> QED BY <1>3, <1>5, <2>2, <3>2
  <2>3. \A i \in 1..Len(up') : up'[i].type = "end" => tunnel.st = "gone"
    <3>1. More(up', up, {m.type}) /\ up' \in Seq(Letter)
      BY <1>1, <1>5, AddedIsMore
    <3>2. \A i \in 1..Len(up') : i > Len(up) => up'[i].type # "end"
      BY <1>5, <3>1 DEF More
    <3>3. \A i \in 1..Len(up') : i > Len(up) \/ (i \in 1..Len(up) /\ up'[i] = up[i])
      BY <1>1, <3>1 DEF More
    <3> QED BY <1>4, <3>2, <3>3
  <2>4. tunnel'.over \/ tunnel'.queue > 0 => tunnel'.started
    BY <1>4, <1>5
  <2>5. \A i \in 1..Len(up') : up'[i].type = "end" => tunnel'.st = "gone"
    BY <2>3
  <2>6. server.st = "open" /\ linked /\ tunnel'.st # "gone" => Gets(server.got, up', tunnel.offset, Len(up') + 1)
    BY <2>1
  <2>7. server.st = "open" /\ linked /\ tunnel'.st # "gone" /\ tunnel'.started =>
            Known(HeaderKnown, Header, up', Len(up') + 1)
    BY <2>2
  <2> HIDE DEF Header
  <2> QED BY <1>5, <2>1, <2>2, <2>4, <2>5, <2>6, <2>7, ResponseLineFollows
<1>6. CASE TunnelSays
  <2>1. CASE up' = up
    <3>1. ASSUME server.st = "open", linked, tunnel'.st # "gone"
          PROVE  /\ Gets(server.got, up', tunnel'.offset, Len(up') + 1)
                 /\ tunnel'.started => Known(HeaderKnown, Header, up', Len(up') + 1)
      BY <1>3, <1>6, <2>1, <3>1 DEF TunnelSays
    <3>2. \A i \in 1..Len(up') : up'[i].type = "end" => tunnel'.st = "gone"
      BY <1>4, <2>1
    <3>3. server.st = "open" =>
              /\ InOrder(server.got, TRUE, tunnel'.offset, up')
              /\ \A i \in 1..Len(up') : up'[i].type \in {"chunk", "end"} => Known(HeaderKnown, Header, up', i)
      BY <1>3, <1>6, <2>1 DEF TunnelSays
    <3>4. /\ tunnel'.over \/ tunnel'.queue > 0 => tunnel'.started
          /\ Once(tunnel'.started, server.started, "start", up')
      BY <1>4, <1>6, <2>1 DEF TunnelSays
    <3> HIDE DEF Header
    <3> QED BY <3>1, <3>2, <3>3, <3>4, ResponseLineFollows
  <2>2. ASSUME NEW m \in Letter, m.type \notin {"chunk", "end", "start"}, up' = Added(up, m)
        PROVE  ResponseLine'
    <3>1. Once(tunnel'.started, server.started, "start", up')
      BY <1>1, <1>4, <1>6, <2>2, AddedOnce DEF TunnelSays
    <3> QED BY <1>5, <1>6, <2>2, <3>1 DEF TunnelSays
  <2> QED BY <1>6, <2>1, <2>2 DEF TunnelSays
<1>7. CASE TunnelStarts
  <2> DEFINE m == Plain(Header)
  <2>1. m \in Letter /\ m.type = Header /\ Header \in {"start", "accepted"}
    BY <1>1, Letters DEF Header, MessageType
  <2>2. /\ up' = Added(up, m) /\ tunnel'.started = TRUE /\ ~tunnel.started
        /\ tunnel'.offset = tunnel.offset /\ tunnel'.queue = tunnel.queue /\ tunnel'.over = tunnel.over
    BY <1>7 DEF TunnelStarts, TunnelStill
  <2>3. Once(FALSE, server.started, "start", up)
    BY <1>4, <2>2 DEF Once
  <2> HIDE DEF m, Header
  <2>4. Once(TRUE, server.started, "start", up')
    <3>1. CASE m.type = "start"
      <4>1. Once(FALSE, server.started, m.type, up)
        BY <2>3, <3>1
      <4>2. Once(TRUE, server.started, m.type, Added(up, m))
        BY <1>1, <2>1, <4>1, SaidOnce
      <4> QED BY <2>2, <3>1, <4>2
    <3>2. CASE m.type # "start"
      <4>1. Once(FALSE, server.started, "start", Added(up, m))
        BY <1>1, <2>1, <2>3, <3>2, AddedOnce
      <4>2. Once(TRUE, server.started, "start", Added(up, m))
        BY <4>1 DEF Once
      <4> QED BY <2>2, <4>2
    <3> QED BY <3>1, <3>2
  <2> QED BY <1>5, <2>1, <2>2, <2>4
<1>8. CASE \E n \in Nat, queue \in Nat, over \in BOOLEAN, ack \in Nat, credit \in Nat :
              /\ TunnelSends(n, queue, over, ack, credit)
              /\ over \/ queue > 0 => tunnel.started
  <2>1. PICK n \in Nat, queue \in Nat, over \in BOOLEAN, ack \in Nat, credit \in Nat :
              /\ TunnelSends(n, queue, over, ack, credit)
              /\ over \/ queue > 0 => tunnel.started
    BY <1>8
  <2> DEFINE last == over /\ n = queue
  <2>2. /\ tunnel'.started = tunnel.started /\ tunnel.st = "open" /\ n <= queue /\ tunnel'.queue = queue - n
        /\ tunnel'.offset = tunnel.offset + n /\ tunnel'.over = over
        /\ last => tunnel'.st = "gone"
        /\ up' = IF linked THEN Behind(up, tunnel.offset, n, last) ELSE up
    BY <2>1 DEF TunnelSends
  <2>3. /\ last \in BOOLEAN /\ (n > 0 \/ last => tunnel.started)
        /\ (tunnel'.over \/ tunnel'.queue > 0 => tunnel'.started)
    <3>1. n > 0 => queue > 0
      BY <2>2
    <3>2. tunnel'.queue > 0 => queue > 0
      BY <2>2
    <3> QED BY <2>1, <2>2, <3>1, <3>2
  <2> HIDE DEF last
  <2>4. \A i \in 1..Len(up) : up[i].type # "end"
    BY <1>4, <2>2
  <2>5. Once(tunnel'.started, server.started, "start", up')
    <3>1. up' \in Seq(Letter) /\ More(up', up, {"chunk", "end"}) /\ "start" \notin {"chunk", "end"}
      BY <2>1, SendsMore
    <3>2. Once(tunnel.started, server.started, "start", up')
      BY <1>1, <1>4, <3>1, MoreOnce
    <3> QED BY <2>2, <3>2
  <2>6. CASE linked
    <3> DEFINE p == Behind(up, tunnel.offset, n, last)
    <3>1. Continues(p, up, tunnel.offset, n, last) /\ up' = p
      BY <1>1, <2>2, <2>3, <2>6, Flushes
    <3>2. server.st = "open" =>
              /\ InOrder(server.got, TRUE, tunnel.offset + n, p)
              /\ Gets(server.got, p, tunnel.offset + n, Len(p) + 1)
      <4>1. ASSUME server.st = "open"
            PROVE  /\ InOrder(server.got, TRUE, tunnel.offset, up)
                   /\ Gets(server.got, up, tunnel.offset, Len(up) + 1)
                   /\ n > 0 => Begins(TRUE, up, Len(up) + 1)
        BY <1>3, <2>2, <2>6, <4>1 DEF Begins
      <4> HIDE DEF p
      <4> QED BY <1>1, <2>3, <2>4, <4>1, SendFlushed DEF p
    <3> HIDE DEF p
    <3>3. /\ Len(p) \in Nat /\ Len(p) = IF last THEN Len(up) + n + 1 ELSE Len(up) + n
          /\ \A i \in 1..Len(up) : p[i] = up[i]
          /\ \A j \in 1..n : p[Len(up) + j].type = "chunk"
          /\ \A i \in 1..Len(p) : i \in 1..Len(up) \/ (\E j \in 1..n : i = Len(up) + j)
                                  \/ (last /\ i = Len(up) + n + 1)
      BY <1>1, <2>3, <3>1 DEF Continues
    <3>4. \A i \in 1..Len(p) : p[i].type = "end" => last
      BY <2>4, <3>3
    <3>5. \A k \in 1..((Len(up) + 1) - 1) : p[k] = up[k]
      BY <1>1, <3>3
    <3>6. ASSUME server.st = "open", tunnel.started, NEW j \in Nat, Len(up) + 1 <= j
          PROVE  Known(HeaderKnown, Header, p, j)
      <4> DEFINE l == Len(up) + 1
      <4>1. Known(HeaderKnown, Header, up, l)
        BY <1>3, <2>2, <2>6, <3>6
      <4>2. l \in Nat /\ l <= j
        BY <1>1, <3>6
      <4>3. \A k \in 1..(l - 1) : p[k] = up[k]
        BY <3>5
      <4> HIDE DEF Header, l
      <4> QED BY <3>6, <4>1, <4>2, <4>3, SameKnown
    <3>7. ASSUME server.st = "open", NEW i \in 1..Len(p), p[i].type \in {"chunk", "end"}
          PROVE  Known(HeaderKnown, Header, p, i)
      <4>1. CASE i \in 1..Len(up)
        <5>1. Known(HeaderKnown, Header, up, i) /\ i \in Nat /\ i <= i
          BY <1>1, <1>3, <3>3, <3>7, <4>1
        <5>2. \A k \in 1..(i - 1) : p[k] = up[k]
          BY <1>1, <3>3, <4>1
        <5> HIDE DEF Header
        <5> QED BY <5>1, <5>2, SameKnown
      <4>2. CASE i \notin 1..Len(up)
        <5>1. n > 0 \/ last
          BY <3>3, <4>2
        <5>2. i \in Nat /\ Len(up) + 1 <= i
          BY <1>1, <4>2
        <5> QED BY <2>3, <3>6, <3>7, <5>1, <5>2
      <4> QED BY <4>1, <4>2
    <3>8. server.st = "open" /\ tunnel.started => Known(HeaderKnown, Header, p, Len(p) + 1)
      <4>1. Len(p) + 1 \in Nat /\ Len(up) + 1 <= Len(p) + 1
        BY <1>1, <3>3
      <4> QED BY <3>6, <4>1
    <3> HIDE DEF Header
    <3> QED BY <1>2, <2>2, <2>3, <2>5, <2>6, <3>1, <3>2, <3>4, <3>7, <3>8 DEF ResponseLine
  <2>7. CASE ~linked
    <3>1. up' = up
      BY <2>2, <2>7
    <3>2. server.st = "open" => InOrder(server.got, TRUE, tunnel.offset + n, up)
      <4>1. tunnel.offset + n \in Nat /\ tunnel.offset <= tunnel.offset + n
        BY <1>1
      <4> QED BY <1>1, <1>3, <2>4, <4>1, LosesInOrder
    <3>3. server.st = "open" =>
              \A i \in 1..Len(up') : up'[i].type \in {"chunk", "end"} => Known(HeaderKnown, Header, up', i)
      BY <1>3, <3>1
    <3>4. \A i \in 1..Len(up') : up'[i].type = "end" => tunnel'.st = "gone"
      BY <2>4, <3>1
    <3>5. server.st = "open" => InOrder(server.got, TRUE, tunnel'.offset, up')
      BY <2>2, <3>1, <3>2
    <3> HIDE DEF Header
    <3> QED BY <2>3, <2>5, <2>7, <3>3, <3>4, <3>5, ResponseLineFollows
  <2> QED BY <1>1, <2>6, <2>7
<1> QED BY <1>6, <1>7, <1>8

-----------------------------------------------------------------------------
(* Streams: the windows hold in every step *)

WindowInv ==
    /\ StreamTypes /\ Counted
    /\ ResponseWindow /\ RequestWindow
    /\ Opening /\ RequestLine /\ ResponseLine

LEMMA WindowInit == StreamInit => WindowInv
<1> SUFFICES ASSUME StreamInit PROVE WindowInv
  OBVIOUS
<1>1. StreamTypes
  BY StreamInitTypes
<1>2. /\ server.st = "open" /\ ~server.started /\ server.owed = 0 /\ server.got = 0 /\ server.sent = 0
      /\ server.credit = Window /\ ~server.asked /\ server.asked = FALSE /\ server.started = FALSE
  BY DEF StreamInit
<1>3. /\ tunnel.st = "none" /\ tunnel.started = FALSE /\ tunnel.taken = 0 /\ tunnel.flushed = 0
      /\ tunnel.asked = FALSE /\ tunnel.offset = 0 /\ tunnel.ack = 0 /\ tunnel.credit = Window
      /\ tunnel.queue = 0 /\ tunnel.over = FALSE
  BY DEF StreamInit
<1>4. /\ body \in 0..MaxRequest /\ up = <<>> /\ down = <<Plain("open")>>
      /\ MaxRequest \in Nat /\ MaxResponse \in Nat /\ Window \in Nat
  BY StreamAssumption DEF StreamInit
<1>5. /\ Len(up) = 0 /\ 1..Len(up) = {} /\ Len(down) = 1 /\ Head(down) = down[1] /\ down[1] = Plain("open")
      /\ down # <<>> /\ Plain("open").type = "open" /\ 1..Len(down) = {1} /\ 1..0 = {}
  BY <1>4, Letters DEF MessageType
<1>6. \A i \in 1..Len(down) : i = 1 /\ down[i].type = "open"
  BY <1>5
<1>7. Counted
  BY <1>2, <1>3, <1>4 DEF Counted
<1>8. ResponseWindow
  <2>1. Flows(0, 0, down)
    BY <1>6 DEF Flows
  <2> QED BY <1>2, <1>3, <1>4, <2>1 DEF ResponseWindow
<1>9. RequestWindow
  <2>1. Flows(0, 0, up)
    BY <1>5 DEF Flows
  <2>2. server.credit + server.sent - Window = 0
    BY <1>2, <1>4
  <2> QED BY <1>2, <1>3, <1>4, <2>1, <2>2 DEF RequestWindow
<1>10. Opening
  BY <1>3, <1>5, <1>6 DEF Opening
<1>11. RequestLine
  <2>1. Once(FALSE, FALSE, "end", down)
    BY <1>6 DEF Once
  <2>2. InOrder(0, TRUE, 0, down) /\ Gets(0, down, 0, Len(down) + 1)
    BY <1>6 DEF InOrder, Gets
  <2> QED BY <1>2, <1>3, <2>1, <2>2 DEF RequestLine
<1>12. ResponseLine
  <2>1. Once(FALSE, FALSE, "start", up)
    BY <1>5 DEF Once
  <2>2. InOrder(0, TRUE, 0, up) /\ Gets(0, up, 0, Len(up) + 1)
    BY <1>5 DEF InOrder, Gets
  <2>3. \A i \in 1..Len(up) : FALSE
    BY <1>5
  <2>4. /\ server.st = "open" => InOrder(server.got, TRUE, tunnel.offset, up)
        /\ Gets(server.got, up, tunnel.offset, Len(up) + 1)
        /\ Once(tunnel.started, server.started, "start", up)
    BY <1>2, <1>3, <2>1, <2>2
  <2>5. ~tunnel.started /\ ~tunnel.over /\ ~(tunnel.queue > 0)
    BY <1>3
  <2> QED BY <2>3, <2>4, <2>5 DEF ResponseLine
<1> QED BY <1>1, <1>7, <1>8, <1>9, <1>10, <1>11, <1>12 DEF WindowInv

LEMMA ServerKeepsWindows ==
    ASSUME WindowInv, StreamTypes', ServerMoves, UNCHANGED <<kind, body, tunnel, linked>>,
           up' = up \/ (up # <<>> /\ up' = Tail(up)),
           ServerGets(1) \/ ServerGetsFrame => server.got < tunnel.offset,
           \/ ServerQuiet \/ ServerSendsChunk \/ ServerSendsEnd
           \/ ServerGets(0) \/ ServerGets(1) \/ ServerGetsFrame \/ server' = server
           \/ up # <<>> /\ up' = Tail(up) /\ Head(up).type = "flow" /\ ServerCredited(Head(up).n),
           ResponseLine'
    PROVE  WindowInv'
<1>1. StreamTypes /\ Counted /\ ResponseWindow /\ RequestWindow /\ Opening /\ RequestLine
  BY DEF WindowInv
<1>2. Counted'
  BY <1>1, ServerKeepsCounts
<1>3. ResponseWindow'
  BY <1>1, ServerKeepsResponses
<1>4. RequestWindow'
  <2>1. up' \in Seq(Letter)
    BY DEF StreamTypes
  <2> QED BY <1>1, <2>1, ServerKeepsRequests
<1>5. Opening'
  BY <1>1, ServerKeepsOpening
<1>6. RequestLine'
  BY <1>1, ServerKeepsRequestLine
<1> QED BY <1>2, <1>3, <1>4, <1>5, <1>6 DEF WindowInv

LEMMA ReceivingKeepsWindows ==
    ASSUME WindowInv, StreamTypes', ServerReceives
    PROVE  WindowInv'
<1> DEFINE m == Head(up)
<1>1. StreamTypes /\ ResponseLine
  BY DEF WindowInv
<1>2. /\ up # <<>> /\ up' = Tail(up) /\ UNCHANGED <<kind, body, tunnel>>
      /\ \/ server.st # "open" /\ UNCHANGED <<server, down, linked>>
         \/ server.st = "open" /\ ServerAccepts(m) /\ UNCHANGED linked /\ ServerTakes(m)
  BY <1>1, ServerHears, ServerUnderstands
<1>3. ResponseLine'
  BY <1>1, ServerTakesResponse
<1>4. CASE server.st # "open" /\ UNCHANGED <<server, down, linked>>
  <2>1. ServerMoves /\ server' = server /\ ~(ServerGets(1) \/ ServerGetsFrame)
    <3>1. server.got \in Nat /\ server' = server
      BY <1>1, <1>4, StreamNumbers
    <3> QED BY <1>4, <3>1 DEF ServerMoves, ServerGets, ServerGetsFrame
  <2> QED BY <1>2, <1>3, <1>4, <2>1, ServerKeepsWindows
<1>5. CASE server.st = "open" /\ UNCHANGED linked /\ ServerTakes(m)
  <2>1. m \in Letter /\ m.n \in Nat /\ server.got \in Nat
    <3>1. up \in Seq(Letter) /\ server.got \in Nat
      BY <1>1, StreamNumbers
    <3>2. m \in Letter
      BY <1>2, <3>1, Tails
    <3> QED BY <3>1, <3>2 DEF Letter
  <2>2. ServerMoves
    BY <1>5, <2>1 DEF ServerTakes, ServerMoves
  <2>3. ServerGets(1) \/ ServerGetsFrame => server.got < tunnel.offset
    <3>1. ServerGets(1) \/ ServerGetsFrame => server'.got # server.got
      BY <2>1 DEF ServerGets, ServerGetsFrame
    <3>2. m.type # "chunk" => server'.got = server.got
      BY <1>5, <2>1 DEF ServerTakes, ServerQuiet, ServerGets, ServerCredited
    <3> QED BY <1>1, <1>2, <1>5, <3>1, <3>2, ServerUnderstands
  <2>4. \/ ServerQuiet \/ ServerSendsChunk \/ ServerSendsEnd
        \/ ServerGets(0) \/ ServerGets(1) \/ ServerGetsFrame \/ server' = server
        \/ up # <<>> /\ up' = Tail(up) /\ Head(up).type = "flow" /\ ServerCredited(Head(up).n)
    BY <1>2, <1>5 DEF ServerTakes
  <2> HIDE DEF m
  <2> QED BY <1>2, <1>3, <1>5, <2>2, <2>3, <2>4, ServerKeepsWindows
<1> QED BY <1>2, <1>4, <1>5

LEMMA ServingKeepsWindows ==
    ASSUME WindowInv, StreamTypes',
           Drain \/ SendChunk \/ SendEnd \/ BrowserCloses \/ ServerGivesUp \/ ServerDetaches
    PROVE  WindowInv'
<1>1. StreamTypes /\ ResponseLine
  BY DEF WindowInv
<1>2. /\ UNCHANGED <<kind, body, tunnel, up, linked>>
      /\ server'.started = server.started /\ server'.accepted = server.accepted
      /\ server'.st = "open" => server.st = "open"
      /\ ServerQuiet \/ ServerSendsChunk \/ ServerSendsEnd \/ ServerGets(0)
  BY <1>1, ServerActs
<1>3. ServerMoves
  BY <1>2 DEF ServerMoves
<1>4. server'.got = server.got /\ server.got \in Nat
  <2>1. server.got \in Nat
    BY <1>1, StreamNumbers
  <2>2. CASE ServerGets(0)
    BY <2>1, <2>2 DEF ServerGets
  <2>3. CASE ServerQuiet \/ ServerSendsChunk \/ ServerSendsEnd
    BY <2>1, <2>3 DEF ServerQuiet, ServerSendsChunk, ServerSendsEnd
  <2> QED BY <1>2, <2>2, <2>3
<1>5. ~(ServerGets(1) \/ ServerGetsFrame)
  BY <1>4 DEF ServerGets, ServerGetsFrame
<1>6. ResponseLine'
  BY <1>1, <1>2, <1>4, ServerKeepsResponseLine
<1> QED BY <1>2, <1>3, <1>5, <1>6, ServerKeepsWindows

LEMMA TunnelHearingKeepsWindows ==
    ASSUME WindowInv, StreamTypes', TunnelReceives
    PROVE  WindowInv'
<1> DEFINE m == Head(down)
<1>1. StreamTypes /\ Counted /\ ResponseWindow /\ RequestWindow /\ Opening /\ RequestLine /\ ResponseLine
  BY DEF WindowInv
<1>2. /\ down # <<>> /\ down' = Tail(down) /\ UNCHANGED <<kind, body, server, linked>>
      /\ tunnel'.st # "none" /\ (tunnel.st = "gone" => tunnel'.st = "gone")
      /\ \/ TunnelQuiet
         \/ tunnel.st = "open" /\ TunnelTakes(m)
  BY <1>1, TunnelHears
<1>3. tunnel.st = "open" /\ m.type = "chunk" => tunnel.taken < server.sent
  BY <1>1, <1>2, TunnelUnderstands
<1>4. m \in Letter /\ m.n \in Nat /\ m.at \in Nat /\ tunnel.credit \in Nat /\ tunnel.queue \in Nat
      /\ tunnel.over \in BOOLEAN
  <2>1. m \in Letter
    BY <1>1, <1>2, Tails DEF StreamTypes
  <2> QED BY <1>1, <2>1, StreamNumbers DEF Letter
<1>5. RequestLine' /\ Opening'
  BY <1>1, <1>2, TunnelTakesRequest, TunnelKeepsOpening
<1>6. ASSUME TunnelQuiet \/ TunnelTakesEnd \/ (TunnelTakesChunk /\ tunnel.taken < server.sent)
      PROVE  WindowInv'
  <2>1. Counted'
    BY <1>1, <1>2, <1>6, TunnelKeepsCounts
  <2>2. TunnelIdle
    BY <1>6 DEF TunnelIdle, TunnelQuiet, TunnelStill, TunnelTakesEnd, TunnelTakesChunk
  <2>3. ResponseWindow'
    BY <1>1, <1>2, <2>2, TunnelKeepsResponses
  <2>4. TunnelTalks
    BY <1>6 DEF TunnelTalks
  <2>5. RequestWindow'
    BY <1>1, <1>2, <2>4, TunnelKeepsRequests
  <2>6. TunnelSays
    BY <1>1, <1>6, TunnelOnlySays
  <2>7. ResponseLine'
    BY <1>1, <1>2, <2>6, TunnelKeepsResponseLine
  <2> QED BY <1>5, <2>1, <2>3, <2>5, <2>7 DEF WindowInv
<1>7. ASSUME TunnelTakes(m), m.type = "flow"
      PROVE  WindowInv'
  <2>1. PICK n \in Nat, credit \in Nat : TunnelSends(n, tunnel.queue, tunnel.over, m.at, credit)
    BY <1>7 DEF TunnelTakes
  <2>2. Counted'
    BY <1>1, <1>2, <1>4, <2>1, TunnelKeepsCounts
  <2>3. ResponseWindow'
    BY <1>1, <1>2, <1>7, TunnelKeepsResponses
  <2>4. TunnelTalks
    BY <1>4, <2>1 DEF TunnelTalks
  <2>5. RequestWindow'
    BY <1>1, <1>2, <2>4, TunnelKeepsRequests
  <2>6. tunnel.over \/ tunnel.queue > 0 => tunnel.started
    BY <1>1 DEF ResponseLine
  <2>7. ResponseLine'
    BY <1>1, <1>2, <1>4, <2>1, <2>6, TunnelKeepsResponseLine
  <2> QED BY <1>5, <2>2, <2>3, <2>5, <2>7 DEF WindowInv
<1>8. CASE tunnel.st = "open" /\ TunnelTakes(m)
  <2>1. CASE m.type = "flow"
    BY <1>7, <1>8, <2>1
  <2>2. CASE m.type # "flow"
    <3>1. TunnelQuiet \/ TunnelTakesEnd \/ (TunnelTakesChunk /\ m.type = "chunk")
      BY <1>8, <2>2 DEF TunnelTakes
    <3> QED BY <1>3, <1>6, <1>8, <3>1
  <2> QED BY <2>1, <2>2
<1> QED BY <1>2, <1>6, <1>8

LEMMA TunnelingKeepsWindows ==
    ASSUME WindowInv, StreamTypes',
           \/ Flushed \/ LocalStarts \/ LocalEnds \/ LocalCloses \/ LocalFails
           \/ TunnelCloses \/ \E k \in 1..MaxResponse : LocalData(k)
    PROVE  WindowInv'
<1>1. StreamTypes /\ Counted /\ ResponseWindow /\ RequestWindow /\ Opening /\ RequestLine /\ ResponseLine
  BY DEF WindowInv
<1>2. /\ UNCHANGED <<kind, body, server, down, linked>>
      /\ tunnel.st = "gone" => tunnel'.st = "gone"
      /\ tunnel'.st = "none" => tunnel.st = "none"
      /\ tunnel'.st = "open" => tunnel.st = "open"
      /\ \/ TunnelQuiet \/ TunnelStarts \/ TunnelWrites
         \/ \E n, queue \in Nat, over \in BOOLEAN :
               /\ tunnel.offset + queue <= MaxResponse \/ queue = tunnel.queue
               /\ over \/ queue > 0 => tunnel.started
               /\ TunnelSends(n, queue, over, tunnel.ack, tunnel.credit)
  BY <1>1, TunnelActs
<1>3. tunnel.ack \in Nat /\ tunnel.credit \in Nat
  BY <1>1, StreamNumbers
<1>4. \/ TunnelQuiet \/ TunnelStarts \/ TunnelWrites
      \/ \E n \in Nat, queue \in Nat, over \in BOOLEAN, ack \in Nat, credit \in Nat :
            /\ TunnelSends(n, queue, over, ack, credit)
            /\ tunnel.offset + queue <= MaxResponse \/ queue = tunnel.queue
  BY <1>2, <1>3
<1>5. \/ TunnelQuiet \/ TunnelStarts \/ TunnelWrites
      \/ \E n \in Nat, queue \in Nat, over \in BOOLEAN, ack \in Nat, credit \in Nat :
            /\ TunnelSends(n, queue, over, ack, credit)
            /\ over \/ queue > 0 => tunnel.started
  BY <1>2, <1>3
<1>6. Counted'
  BY <1>1, <1>2, <1>4, TunnelKeepsCounts
<1>7. ResponseWindow'
  <2>1. \/ TunnelIdle
        \/ \E n, queue \in Nat, over \in BOOLEAN : TunnelSends(n, queue, over, tunnel.ack, tunnel.credit)
    BY <1>2 DEF TunnelIdle, TunnelQuiet, TunnelStill, TunnelStarts, TunnelWrites
  <2> QED BY <1>1, <1>2, <2>1, TunnelKeepsResponses
<1>8. RequestWindow'
  <2>1. TunnelTalks \/ TunnelWrites
    BY <1>4 DEF TunnelTalks
  <2> QED BY <1>1, <1>2, <2>1, TunnelKeepsRequests
<1>9. Opening'
  BY <1>1, <1>2, TunnelKeepsOpening
<1>10. RequestLine'
  <2>1. tunnel'.taken = tunnel.taken /\ tunnel'.asked = tunnel.asked
    BY <1>2 DEF TunnelQuiet, TunnelStill, TunnelStarts, TunnelWrites, TunnelSends
  <2>2. tunnel'.st # "gone" => tunnel.st # "gone"
    BY <1>2
  <2> QED BY <1>1, <1>2, <2>1, <2>2 DEF RequestLine
<1>11. ResponseLine'
  <2>1. \/ TunnelSays \/ TunnelStarts
        \/ \E n \in Nat, queue \in Nat, over \in BOOLEAN, ack \in Nat, credit \in Nat :
              /\ TunnelSends(n, queue, over, ack, credit)
              /\ over \/ queue > 0 => tunnel.started
    BY <1>1, <1>5, TunnelOnlySays
  <2> QED BY <1>1, <1>2, <2>1, TunnelKeepsResponseLine
<1> QED BY <1>6, <1>7, <1>8, <1>9, <1>10, <1>11 DEF WindowInv

LEMMA BreakKeepsWindows ==
    ASSUME WindowInv, StreamTypes', Break
    PROVE  WindowInv'
<1>1. PICK i \in 0..Len(up), j \in 0..Len(down) : up' = SubSeq(up, 1, i) /\ down' = SubSeq(down, 1, j)
  BY DEF Break
<1>2. UNCHANGED <<kind, body, server, tunnel>> /\ ~linked'
  BY DEF Break
<1>3. StreamTypes /\ Counted /\ ResponseWindow /\ RequestWindow /\ Opening /\ RequestLine /\ ResponseLine
  BY DEF WindowInv
<1>4. up \in Seq(Letter) /\ down \in Seq(Letter)
  BY <1>3, StreamNumbers
<1>5. /\ up' \in Seq(Letter) /\ Part(up', up) /\ down' \in Seq(Letter) /\ Part(down', down)
      /\ Len(up') = i /\ (\A k \in 1..i : up'[k] = up[k])
      /\ Len(down') = j /\ (\A k \in 1..j : down'[k] = down[k])
      /\ 1..i \subseteq 1..Len(up) /\ 1..j \subseteq 1..Len(down)
  <2>1. up' \in Seq(Letter) /\ Part(up', up) /\ down' \in Seq(Letter) /\ Part(down', down)
    BY <1>1, <1>4, PrefixIsPart
  <2>2. /\ Len(up') = i /\ (\A k \in 1..i : up'[k] = up[k])
        /\ Len(down') = j /\ (\A k \in 1..j : down'[k] = down[k])
    BY <1>1, <1>4, Prefixes
  <2>3. 1..i \subseteq 1..Len(up) /\ 1..j \subseteq 1..Len(down)
    BY <1>4
  <2> QED BY <2>1, <2>2, <2>3
<1>6. Counted'
  BY <1>2, <1>3 DEF Counted
<1>7. ResponseWindow'
  BY <1>2, <1>3, <1>4, <1>5, PartFlows DEF ResponseWindow
<1>8. RequestWindow'
  BY <1>2, <1>3, <1>4, <1>5, PartFlows DEF RequestWindow
<1>9. Opening'
  <2>1. \A k \in 1..Len(down') : down'[k].type = "open" => k = 1 /\ tunnel.st # "open"
    BY <1>3, <1>5 DEF Opening
  <2>2. ASSUME tunnel.st = "none", down' # <<>>
        PROVE  Head(down').type = "open"
    <3>1. Head(down') = down'[1] /\ Len(down') >= 1
      BY <1>5, <2>2, Tails
    <3>2. 1 \in 1..j
      BY <1>5, <3>1
    <3>3. down # <<>> /\ down'[1] = down[1]
      BY <1>4, <1>5, <3>2
    <3>4. Head(down) = down[1] /\ Head(down).type = "open"
      BY <1>3, <1>4, <2>2, <3>3, Tails DEF Opening
    <3> QED BY <3>1, <3>3, <3>4
  <2> QED BY <1>2, <2>1, <2>2 DEF Opening
<1>10. RequestLine'
  <2>1. Once(server.asked, tunnel.asked, "end", down')
    BY <1>3, <1>4, <1>5, PartOnce DEF RequestLine
  <2>2. tunnel.st # "gone" => InOrder(tunnel.taken, TRUE, server.sent, down')
    BY <1>1, <1>3, <1>4, PrefixInOrder DEF RequestLine
  <2> QED BY <1>2, <1>3, <2>1, <2>2 DEF RequestLine
<1>11. ResponseLine'
  <2>1. Once(tunnel.started, server.started, "start", up')
    BY <1>3, <1>4, <1>5, PartOnce DEF ResponseLine
  <2>2. server.st = "open" => InOrder(server.got, TRUE, tunnel.offset, up')
    BY <1>1, <1>3, <1>4, PrefixInOrder DEF ResponseLine
  <2>3. ASSUME server.st = "open", NEW k \in 1..Len(up'), up'[k].type \in {"chunk", "end"}
        PROVE  Known(HeaderKnown, Header, up', k)
    <3>1. k \in Nat /\ k <= k /\ k \in 1..Len(up) /\ up'[k] = up[k] /\ \A l \in 1..(k - 1) : up'[l] = up[l]
      <4>1. k \in 1..i /\ \A l \in 1..(k - 1) : l \in 1..i
        BY <1>5
      <4> QED BY <1>5, <4>1
    <3>2. Known(HeaderKnown, Header, up, k)
      BY <1>3, <2>3, <3>1 DEF ResponseLine
    <3> HIDE DEF HeaderKnown, Header
    <3> QED BY <3>1, <3>2, SameKnown
  <2>4. \A k \in 1..Len(up') : up'[k].type = "end" => tunnel.st = "gone"
    BY <1>3, <1>5 DEF ResponseLine
  <2>5. tunnel.over \/ tunnel.queue > 0 => tunnel.started
    BY <1>3 DEF ResponseLine
  <2>6. HeaderKnown' = HeaderKnown /\ Header' = Header
    BY <1>2 DEF HeaderKnown, Header
  <2>7. \A k : Known(HeaderKnown, Header, up', k) => Known(HeaderKnown', Header', up', k)
    <3> HIDE DEF HeaderKnown, Header
    <3> QED BY <2>6 DEF Known
  <2>8. server.st = "open" => \A k \in 1..Len(up') : up'[k].type \in {"chunk", "end"} =>
                                  Known(HeaderKnown', Header', up', k)
    BY <2>3, <2>7
  <2> HIDE DEF HeaderKnown, Header
  <2> QED BY <1>2, <2>1, <2>2, <2>4, <2>5, <2>8 DEF ResponseLine
<1> QED BY <1>6, <1>7, <1>8, <1>9, <1>10, <1>11 DEF WindowInv

LEMMA WindowStep ==
    ASSUME WindowInv, [StreamNext]_streamVars
    PROVE  WindowInv'
<1>1. StreamTypes'
  BY StreamStepTypes DEF WindowInv
<1>2. CASE UNCHANGED streamVars
  BY <1>2 DEF streamVars, WindowInv, StreamTypes, Counted, ResponseWindow, RequestWindow, Opening, RequestLine,
              ResponseLine, HeaderKnown, Header
<1>3. CASE StreamNext
  BY <1>1, <1>3, ReceivingKeepsWindows, ServingKeepsWindows, TunnelHearingKeepsWindows, TunnelingKeepsWindows,
     BreakKeepsWindows DEF StreamNext
<1> QED BY <1>2, <1>3

\* Of the messages that reach a stream, none is one that its side cannot take: neither
\* side ever closes the socket or fails the stream for an overrun of its window, a
\* chunk out of order, or a grant for what was not sent (preview-relay/streams.ts,
\* src/preview/tunnel.ts).
PeersUnderstand ==
    /\ up # <<>> /\ server.st = "open" => ServerAccepts(Head(up))
    /\ down # <<>> /\ tunnel.st = "open" => TunnelAccepts(Head(down))

\* The credit of a sender, what it sent that has not left the buffer of the other side,
\* and what that side owes are never more than the window.
CreditKept ==
    /\ tunnel.credit + (tunnel.offset - server.got) + server.owed <= Window
    /\ server.credit + (server.sent - tunnel.flushed) <= Window

LEMMA WindowsHold == StreamSpec => []WindowInv
  BY WindowInit, WindowStep, PTL DEF StreamSpec

\* Two peers that keep the protocol never accuse each other of breaking it, with every
\* window, every order of grants and writes, and every cut of the socket.
THEOREM PeersAlwaysUnderstand == StreamSpec => []PeersUnderstand
<1>1. WindowInv => PeersUnderstand
  BY ServerUnderstands, TunnelUnderstands DEF WindowInv, PeersUnderstand
<1> QED BY WindowsHold, <1>1, PTL

\* Neither window is ever granted twice.
THEOREM CreditIsKept == StreamSpec => []CreditKept
<1>1. ASSUME WindowInv
      PROVE  CreditKept
  <2>1. /\ server.got \in Nat /\ server.owed \in Nat /\ server.sent \in Nat /\ server.credit \in Nat
        /\ tunnel.flushed \in Nat /\ tunnel.offset \in Nat /\ tunnel.ack \in Nat /\ tunnel.credit \in Nat
        /\ Window \in Nat
    BY <1>1, StreamNumbers DEF WindowInv
  <2>2. /\ tunnel.ack <= server.got - server.owed /\ tunnel.credit + tunnel.offset - tunnel.ack <= Window
        /\ server.credit + server.sent - Window <= tunnel.flushed
    BY <1>1 DEF WindowInv, ResponseWindow, RequestWindow, Flows
  <2> QED BY <2>1, <2>2 DEF CreditKept
<1> QED BY WindowsHold, <1>1, PTL

-----------------------------------------------------------------------------
(* Streams: what the messages are about *)

\* Only a grant has credit; the others are about bytes up to to.
Within(m, to) == m.type # "flow" => m.n = 0 /\ m.at <= to

Addressed ==
    /\ \A i \in 1..Len(up) : Within(up[i], tunnel.offset)
    /\ \A i \in 1..Len(down) : Within(down[i], server.sent)

LEMMA PartWithin ==
    ASSUME NEW q \in Seq(Letter), NEW p \in Seq(Letter), Part(p, q), NEW to,
           \A i \in 1..Len(q) : Within(q[i], to)
    PROVE  \A i \in 1..Len(p) : Within(p[i], to)
<1>1. PICK d \in Nat : Len(p) + d <= Len(q) /\ \A i \in 1..Len(p) : p[i] = q[i + d]
  BY DEF Part
<1>2. \A i \in 1..Len(p) : i + d \in 1..Len(q)
  BY <1>1
<1> QED BY <1>1, <1>2

LEMMA WiderWithin ==
    ASSUME NEW q \in Seq(Letter), NEW off \in Nat, NEW to \in Nat, off <= to,
           \A i \in 1..Len(q) : Within(q[i], off)
    PROVE  \A i \in 1..Len(q) : Within(q[i], to)
<1>1. \A i \in 1..Len(q) : q[i].at \in Nat
  BY Numbers
<1> QED BY <1>1 DEF Within

LEMMA AddedWithin ==
    ASSUME NEW q \in Seq(Letter), NEW m \in Letter, linked \in BOOLEAN, NEW to, Within(m, to),
           \A i \in 1..Len(q) : Within(q[i], to)
    PROVE  \A i \in 1..Len(Added(q, m)) : Within(Added(q, m)[i], to)
<1>1. CASE linked
  <2> DEFINE p == Added(q, m)
  <2>1. /\ Len(q) \in Nat /\ Len(p) = Len(q) + 1 /\ p[Len(q) + 1] = m
        /\ \A i \in 1..Len(q) : p[i] = q[i]
    BY <1>1, AppendIsMore DEF Added
  <2> HIDE DEF p
  <2>2. \A i \in 1..Len(p) : i \in 1..Len(q) \/ i = Len(q) + 1
    BY <2>1
  <2>3. \A i \in 1..Len(p) : Within(p[i], to)
    BY <2>1, <2>2
  <2> QED BY <2>3 DEF p
<1>2. CASE ~linked
  BY <1>2 DEF Added
<1> QED BY <1>1, <1>2

LEMMA BehindWithin ==
    ASSUME NEW q \in Seq(Letter), NEW off \in Nat, NEW n \in Nat, NEW last \in BOOLEAN,
           \A i \in 1..Len(q) : Within(q[i], off)
    PROVE  \A i \in 1..Len(Behind(q, off, n, last)) : Within(Behind(q, off, n, last)[i], off + n)
<1> DEFINE p == Behind(q, off, n, last)
           to == off + n
<1>1. Continues(p, q, off, n, last) /\ to \in Nat /\ off <= to
  BY Flushes
<1>2. \A i \in 1..Len(q) : Within(q[i], to)
  <2> HIDE DEF to
  <2> QED BY <1>1, WiderWithin
<1> HIDE DEF p
<1>3. ASSUME NEW i \in 1..Len(p)
      PROVE  Within(p[i], to)
  <2>1. i \in 1..Len(q) \/ (\E j \in 1..n : i = Len(q) + j) \/ (last /\ i = Len(q) + n + 1)
    BY <1>1 DEF Continues
  <2>2. CASE i \in 1..Len(q)
    BY <1>1, <1>2, <2>2 DEF Continues
  <2>3. CASE \E j \in 1..n : i = Len(q) + j
    <3>1. PICK j \in 1..n : i = Len(q) + j
      BY <2>3
    <3>2. p[i].at = off + j - 1 /\ p[i].n = 0
      BY <1>1, <3>1 DEF Continues
    <3>3. off + j - 1 <= to
      OBVIOUS
    <3> HIDE DEF to
    <3> QED BY <3>2, <3>3 DEF Within
  <2>4. CASE last /\ i = Len(q) + n + 1
    <3>1. p[i].at = 0 /\ p[i].n = 0
      BY <1>1, <2>4 DEF Continues
    <3>2. 0 <= to
      BY <1>1
    <3> HIDE DEF to
    <3> QED BY <3>1, <3>2 DEF Within
  <2> QED BY <2>1, <2>2, <2>3, <2>4
<1> QED BY <1>3 DEF p

LEMMA ServerKeepsAddressed ==
    ASSUME StreamTypes, Addressed, ServerMoves, UNCHANGED tunnel, up' = up \/ (up # <<>> /\ up' = Tail(up))
    PROVE  Addressed'
<1>1. /\ up \in Seq(Letter) /\ down \in Seq(Letter) /\ linked \in BOOLEAN /\ server.sent \in Nat
      /\ server.got \in Nat /\ server.owed \in Nat
  BY StreamNumbers
<1>2. \A i \in 1..Len(up') : Within(up'[i], tunnel.offset)
  <2>1. CASE up # <<>> /\ up' = Tail(up)
    BY <1>1, <2>1, TailIsPart, PartWithin DEF Addressed
  <2> QED BY <2>1 DEF Addressed
<1>3. \A i \in 1..Len(down) : Within(down[i], server.sent)
  BY DEF Addressed
<1>4. ASSUME server'.sent = server.sent, NEW m \in Letter, Within(m, server.sent), down' = Added(down, m)
      PROVE  Addressed'
  <2>1. \A i \in 1..Len(down') : Within(down'[i], server.sent)
    BY <1>1, <1>3, <1>4, AddedWithin
  <2> QED BY <1>2, <1>4, <2>1 DEF Addressed
<1>5. ASSUME server'.sent = server.sent, down' = down
      PROVE  Addressed'
  BY <1>2, <1>3, <1>5 DEF Addressed
<1>6. \A type \in {"cancel", "close", "end"} : Plain(type) \in Letter /\ Within(Plain(type), server.sent)
  BY <1>1, Letters, Uncredited DEF MessageType, Within
<1>7. \A at, n \in Nat : Flow(at, n) \in Letter /\ Within(Flow(at, n), server.sent)
  BY Letters DEF Within
<1>8. CASE ServerQuiet \/ ServerSendsEnd
  BY <1>4, <1>5, <1>6, <1>8 DEF ServerQuiet, ServerSendsEnd
<1>9. ASSUME NEW k \in {0, 1}, ServerGets(k)
      PROVE  Addressed'
  <2>1. server.got + k \in Nat /\ server.owed + k \in Nat
    BY <1>1
  <2>2. Flow(server.got + k, server.owed + k) \in Letter /\ Within(Flow(server.got + k, server.owed + k), server.sent)
    BY <1>7, <2>1
  <2> QED BY <1>4, <1>5, <1>9, <2>2 DEF ServerGets
<1>10. CASE ServerGetsFrame
  <2>1. server.got + 1 \in Nat /\ 1 \in Nat
    BY <1>1
  <2>2. Flow(server.got + 1, 1) \in Letter /\ Within(Flow(server.got + 1, 1), server.sent)
    BY <1>7, <2>1
  <2> QED BY <1>4, <1>10, <2>2 DEF ServerGetsFrame
<1>11. CASE ServerSendsChunk
  <2> DEFINE to == server.sent + 1
             m == Chunk(server.sent)
  <2>1. to \in Nat /\ server.sent <= to /\ m \in Letter /\ m.at = server.sent /\ m.n = 0
    BY <1>1, Letters, Uncredited
  <2>2. server'.sent = to /\ down' = Added(down, m)
    BY <1>11 DEF ServerSendsChunk
  <2> HIDE DEF to, m
  <2>3. Within(m, to)
    BY <2>1 DEF Within
  <2>4. \A i \in 1..Len(down) : Within(down[i], to)
    BY <1>1, <1>3, <2>1, WiderWithin
  <2>5. \A i \in 1..Len(down') : Within(down'[i], to)
    BY <1>1, <2>1, <2>2, <2>3, <2>4, AddedWithin
  <2> QED BY <1>2, <2>2, <2>5 DEF Addressed
<1>12. CASE (\E n \in Nat : ServerCredited(n)) \/ (server' = server /\ down' = down)
  BY <1>5, <1>12 DEF ServerCredited
<1> QED BY <1>8, <1>9, <1>10, <1>11, <1>12 DEF ServerMoves

LEMMA TunnelKeepsAddressed ==
    ASSUME StreamTypes, Addressed, UNCHANGED server, down' = down \/ (down # <<>> /\ down' = Tail(down)),
           TunnelTalks \/ TunnelWrites
    PROVE  Addressed'
<1>1. /\ up \in Seq(Letter) /\ down \in Seq(Letter) /\ linked \in BOOLEAN /\ tunnel.offset \in Nat
      /\ tunnel.flushed \in Nat /\ kind \in {"http", "websocket"}
  BY StreamNumbers
<1>2. \A i \in 1..Len(down') : Within(down'[i], server.sent)
  <2>1. CASE down # <<>> /\ down' = Tail(down)
    BY <1>1, <2>1, TailIsPart, PartWithin DEF Addressed
  <2> QED BY <2>1 DEF Addressed
<1>3. \A i \in 1..Len(up) : Within(up[i], tunnel.offset)
  BY DEF Addressed
<1>4. ASSUME tunnel'.offset = tunnel.offset, NEW m \in Letter, Within(m, tunnel.offset), up' = Added(up, m)
      PROVE  Addressed'
  <2>1. \A i \in 1..Len(up') : Within(up'[i], tunnel.offset)
    BY <1>1, <1>3, <1>4, AddedWithin
  <2> QED BY <1>2, <1>4, <2>1 DEF Addressed
<1>5. ASSUME tunnel'.offset = tunnel.offset, up' = up
      PROVE  Addressed'
  BY <1>2, <1>3, <1>5 DEF Addressed
<1>6. \A type \in {"accepted", "start", "error", "close"} :
          Plain(type) \in Letter /\ Within(Plain(type), tunnel.offset)
  BY <1>1, Letters, Uncredited DEF MessageType, Within
<1>7. CASE TunnelQuiet
  BY <1>4, <1>5, <1>6, <1>7 DEF TunnelQuiet, TunnelStill
<1>8. CASE TunnelStarts
  BY <1>1, <1>4, <1>6, <1>8 DEF TunnelStarts, TunnelStill, Header
<1>9. CASE TunnelTakesChunk \/ TunnelTakesEnd
  BY <1>5, <1>9 DEF TunnelTakesChunk, TunnelTakesEnd
<1>10. CASE TunnelWrites
  <2>1. tunnel.flushed + 1 \in Nat /\ 1 \in Nat
    BY <1>1
  <2>2. Flow(tunnel.flushed + 1, 1) \in Letter /\ Within(Flow(tunnel.flushed + 1, 1), tunnel.offset)
    BY <2>1, Letters DEF Within
  <2> QED BY <1>4, <1>10, <2>2 DEF TunnelWrites
<1>11. ASSUME NEW n \in Nat, NEW queue \in Nat, NEW over \in BOOLEAN, NEW ack \in Nat, NEW credit \in Nat,
              TunnelSends(n, queue, over, ack, credit)
       PROVE  Addressed'
  <2> DEFINE last == over /\ n = queue
             to == tunnel.offset + n
  <2>1. /\ tunnel'.offset = to /\ last \in BOOLEAN
        /\ up' = IF linked THEN Behind(up, tunnel.offset, n, last) ELSE up
    BY <1>11 DEF TunnelSends
  <2> HIDE DEF last
  <2>2. to \in Nat /\ tunnel.offset <= to
    BY <1>1
  <2>3. \A i \in 1..Len(up') : Within(up'[i], to)
    <3>1. CASE linked
      BY <1>1, <1>3, <2>1, <3>1, BehindWithin
    <3>2. CASE ~linked
      <4>1. up' = up
        BY <2>1, <3>2
      <4> HIDE DEF to
      <4> QED BY <1>1, <1>3, <2>2, <4>1, WiderWithin
    <3> QED BY <1>1, <3>1, <3>2
  <2> HIDE DEF to
  <2> QED BY <1>2, <2>1, <2>3 DEF Addressed
<1> QED BY <1>7, <1>8, <1>9, <1>10, <1>11 DEF TunnelTalks

LEMMA AddressedStep ==
    ASSUME StreamTypes, Addressed, [StreamNext]_streamVars
    PROVE  Addressed'
<1>1. CASE UNCHANGED streamVars
  BY <1>1 DEF streamVars, Addressed
<1>2. CASE ServerReceives
  <2>1. /\ up # <<>> /\ up' = Tail(up) /\ UNCHANGED tunnel
        /\ UNCHANGED <<server, down>> \/ ServerTakes(Head(up))
    BY <1>2, ServerHears
  <2>2. Head(up).n \in Nat
    <3>1. Head(up) \in Letter
      BY <2>1, Tails DEF StreamTypes
    <3> QED BY <3>1 DEF Letter
  <2>3. ServerMoves
    BY <2>1, <2>2 DEF ServerTakes, ServerMoves
  <2> QED BY <2>1, <2>3, ServerKeepsAddressed
<1>3. CASE Drain \/ SendChunk \/ SendEnd \/ BrowserCloses \/ ServerGivesUp \/ ServerDetaches
  <2>1. UNCHANGED <<tunnel, up>> /\ (ServerQuiet \/ ServerSendsChunk \/ ServerSendsEnd \/ ServerGets(0))
    BY <1>3, ServerActs
  <2>2. ServerMoves
    BY <2>1 DEF ServerMoves
  <2> QED BY <2>1, <2>2, ServerKeepsAddressed
<1>4. CASE TunnelReceives
  <2> DEFINE m == Head(down)
  <2>1. /\ down # <<>> /\ down' = Tail(down) /\ UNCHANGED server
        /\ TunnelQuiet \/ TunnelTakes(m)
    BY <1>4, TunnelHears
  <2>2. m.at \in Nat /\ tunnel.queue \in Nat /\ tunnel.over \in BOOLEAN
    <3>1. m \in Letter
      BY <2>1, Tails DEF StreamTypes
    <3> QED BY <3>1, StreamNumbers DEF Letter
  <2> HIDE DEF m
  <2>3. TunnelTalks
    BY <2>1, <2>2 DEF TunnelTakes, TunnelTalks
  <2> QED BY <2>1, <2>3, TunnelKeepsAddressed DEF m
<1>5. CASE \/ Flushed \/ LocalStarts \/ LocalEnds \/ LocalCloses \/ LocalFails
           \/ TunnelCloses \/ \E k \in 1..MaxResponse : LocalData(k)
  <2>1. /\ UNCHANGED <<server, down>>
        /\ \/ TunnelQuiet \/ TunnelStarts \/ TunnelWrites
           \/ \E n, queue \in Nat, over \in BOOLEAN : TunnelSends(n, queue, over, tunnel.ack, tunnel.credit)
    BY <1>5, TunnelActs
  <2>2. tunnel.ack \in Nat /\ tunnel.credit \in Nat
    BY StreamNumbers
  <2>3. TunnelTalks \/ TunnelWrites
    BY <2>1, <2>2 DEF TunnelTalks
  <2> QED BY <2>1, <2>3, TunnelKeepsAddressed
<1>6. CASE Break
  <2>1. PICK i \in 0..Len(up), j \in 0..Len(down) : up' = SubSeq(up, 1, i) /\ down' = SubSeq(down, 1, j)
    BY <1>6 DEF Break
  <2>2. up \in Seq(Letter) /\ down \in Seq(Letter) /\ UNCHANGED <<server, tunnel>>
    BY <1>6, StreamNumbers DEF Break
  <2>3. up' \in Seq(Letter) /\ Part(up', up) /\ down' \in Seq(Letter) /\ Part(down', down)
    BY <2>1, <2>2, PrefixIsPart
  <2> QED BY <2>2, <2>3, PartWithin DEF Addressed
<1> QED BY <1>1, <1>2, <1>3, <1>4, <1>5, <1>6 DEF StreamNext

LEMMA Spread ==
    ASSUME NEW low \in Int, NEW high \in Int, NEW at \in Nat, NEW n \in Nat, NEW window \in Nat,
           NEW most \in Nat, low <= at - n, at <= high, high - low <= window, high <= most
    PROVE  n \in 0..window /\ at \in 0..most
  OBVIOUS

\* A queue of letters that are messages.
LEMMA LettersAreMessages ==
    ASSUME NEW q \in Seq(Letter), \A i \in 1..Len(q) : q[i].at \in 0..(MaxRequest + MaxResponse) /\ q[i].n \in 0..Window
    PROVE  q \in Seq(Message)
<1>1. /\ Len(q) \in Nat /\ \A i \in 1..Len(q) : q[i] \in Letter
      /\ q = [i \in 1..Len(q) |-> q[i]]
  OBVIOUS
<1>2. \A i \in 1..Len(q) : q[i] \in Message
  BY <1>1 DEF Letter, Message
<1> QED BY <1>1, <1>2

\* What the counts of the request are bounded by.
LEMMA RequestBounds ==
    ASSUME NEW sent \in Nat, NEW credit \in Nat, NEW taken \in Nat, NEW flushed \in Nat, NEW all \in Nat,
           NEW max \in Nat, NEW window \in Nat, all <= max, sent <= all, flushed <= taken, taken <= sent,
           credit + sent - window <= flushed, credit <= window
    PROVE  /\ sent \in 0..max /\ credit \in 0..window /\ taken \in 0..max /\ flushed \in 0..max
           /\ (credit + sent - window) \in Int /\ flushed - (credit + sent - window) <= window
  OBVIOUS

LEMMA SumBounds ==
    ASSUME NEW a \in Nat, NEW b \in Nat
    PROVE  /\ a + b \in Nat /\ \A x \in Int : x <= a \/ x <= b => x <= a + b
  OBVIOUS

LEMMA WindowTypes ==
    ASSUME WindowInv, Addressed
    PROVE  StreamTypeOK
<1>1. /\ StreamTypes /\ Counted /\ ResponseWindow /\ RequestWindow
  BY DEF WindowInv
<1>2. /\ server.got \in Nat /\ server.owed \in Nat /\ server.sent \in Nat /\ server.credit \in Nat
      /\ tunnel.taken \in Nat /\ tunnel.flushed \in Nat /\ tunnel.offset \in Nat
      /\ tunnel.ack \in Nat /\ tunnel.credit \in Nat /\ tunnel.queue \in Nat
      /\ Window \in Nat /\ body \in Nat /\ MaxResponse \in Nat /\ MaxRequest \in Nat
      /\ up \in Seq(Letter) /\ down \in Seq(Letter)
  BY <1>1, StreamNumbers
<1>3. /\ body <= MaxRequest /\ server.sent <= body
      /\ tunnel.flushed <= tunnel.taken /\ tunnel.taken <= server.sent
      /\ server.got <= tunnel.offset /\ tunnel.offset + tunnel.queue <= MaxResponse
  BY <1>1 DEF Counted
<1>4. /\ tunnel.ack <= server.got - server.owed /\ tunnel.credit + tunnel.offset - tunnel.ack <= Window
      /\ server.credit + server.sent - Window <= tunnel.flushed
      /\ server.credit <= Window /\ tunnel.credit <= Window
  BY <1>1 DEF ResponseWindow, RequestWindow, Flows
<1>5. /\ server.sent \in 0..MaxRequest /\ server.credit \in 0..Window
      /\ tunnel.taken \in 0..MaxRequest /\ tunnel.flushed \in 0..MaxRequest
      /\ (server.credit + server.sent - Window) \in Int
      /\ tunnel.flushed - (server.credit + server.sent - Window) <= Window
  <2> DEFINE sent == server.sent
             credit == server.credit
             taken == tunnel.taken
             flushed == tunnel.flushed
  <2>1. /\ sent \in Nat /\ credit \in Nat /\ taken \in Nat /\ flushed \in Nat
        /\ body <= MaxRequest /\ sent <= body /\ flushed <= taken /\ taken <= sent
        /\ credit + sent - Window <= flushed /\ credit <= Window
    BY <1>2, <1>3, <1>4
  <2> HIDE DEF sent, credit, taken, flushed
  <2>2. /\ sent \in 0..MaxRequest /\ credit \in 0..Window /\ taken \in 0..MaxRequest /\ flushed \in 0..MaxRequest
        /\ (credit + sent - Window) \in Int /\ flushed - (credit + sent - Window) <= Window
    BY <1>2, <2>1, RequestBounds
  <2> QED BY <2>2 DEF sent, credit, taken, flushed
<1>6. /\ server.got \in 0..MaxResponse /\ server.owed \in 0..Window /\ tunnel.offset \in 0..MaxResponse
      /\ tunnel.queue \in 0..MaxResponse /\ tunnel.ack \in 0..MaxResponse /\ tunnel.credit \in 0..Window
      /\ (server.got - server.owed) \in Int /\ (server.got - server.owed) - tunnel.ack <= Window
      /\ server.got - server.owed <= MaxResponse
  <2> DEFINE got == server.got
             owed == server.owed
             offset == tunnel.offset
             queue == tunnel.queue
             ack == tunnel.ack
             credit == tunnel.credit
  <2>1. /\ got \in Nat /\ owed \in Nat /\ offset \in Nat /\ queue \in Nat /\ ack \in Nat /\ credit \in Nat
        /\ got <= offset /\ offset + queue <= MaxResponse
        /\ ack <= got - owed /\ credit + offset - ack <= Window /\ credit <= Window
    BY <1>2, <1>3, <1>4
  <2> HIDE DEF got, owed, offset, queue, ack, credit
  <2>2. /\ got \in 0..MaxResponse /\ owed \in 0..Window /\ offset \in 0..MaxResponse
        /\ queue \in 0..MaxResponse /\ ack \in 0..MaxResponse /\ credit \in 0..Window
        /\ (got - owed) \in Int /\ (got - owed) - ack <= Window /\ got - owed <= MaxResponse
    <3>1. Window \in Nat /\ MaxResponse \in Nat
      BY <1>2
    <3> QED BY ONLY <2>1, <3>1
  <2> QED BY <2>2 DEF got, owed, offset, queue, ack, credit
<1>7. server \in ServerStream
  BY <1>1, <1>5, <1>6 DEF StreamTypes, ServerSide, ServerStream
<1>8. tunnel \in TunnelStream
  BY <1>1, <1>5, <1>6 DEF StreamTypes, TunnelSide, TunnelStream
<1>9. up \in Seq(Message)
  <2>1. ASSUME NEW i \in 1..Len(up)
        PROVE  up[i].at \in 0..(MaxRequest + MaxResponse) /\ up[i].n \in 0..Window
    <3>1. up[i].at \in Nat /\ up[i].n \in Nat
      BY <1>2, Numbers
    <3>2. CASE up[i].type = "flow"
      <4> DEFINE low == server.credit + server.sent - Window
                 high == tunnel.flushed
                 most == MaxRequest + MaxResponse
      <4>1. low <= up[i].at - up[i].n /\ up[i].at <= high
        BY <1>1, <3>2 DEF RequestWindow, Flows
      <4>2. low \in Int /\ high \in Int /\ high - low <= Window /\ most \in Nat /\ high <= most
        <5>1. tunnel.flushed \in Int /\ tunnel.flushed <= MaxRequest
          BY <1>2, <1>5
        <5>2. most \in Nat /\ high <= most
          BY <1>2, <5>1, SumBounds
        <5> HIDE DEF most
        <5> QED BY <1>5, <5>1, <5>2
      <4> HIDE DEF low, high, most
      <4>3. up[i].n \in 0..Window /\ up[i].at \in 0..most
        BY <1>2, <3>1, <4>1, <4>2, Spread
      <4> QED BY <4>3 DEF most
    <3>3. CASE up[i].type # "flow"
      <4>1. up[i].n = 0 /\ up[i].at <= tunnel.offset
        BY <3>3 DEF Addressed, Within
      <4>2. up[i].at <= MaxResponse /\ 0 \in 0..Window
        <5>1. \A a, b, c \in Nat : a <= b /\ b \in 0..c => a <= c
          OBVIOUS
        <5> QED BY <1>2, <1>6, <3>1, <4>1, <5>1
      <4>3. up[i].at <= MaxRequest + MaxResponse
        BY <1>2, <3>1, <4>2, SumBounds
      <4> QED BY <1>2, <3>1, <4>1, <4>2, <4>3
    <3> QED BY <3>2, <3>3
  <2> QED BY <1>2, <2>1, LettersAreMessages
<1>10. down \in Seq(Message)
  <2>1. ASSUME NEW i \in 1..Len(down)
        PROVE  down[i].at \in 0..(MaxRequest + MaxResponse) /\ down[i].n \in 0..Window
    <3>1. down[i].at \in Nat /\ down[i].n \in Nat
      BY <1>2, Numbers
    <3>2. CASE down[i].type = "flow"
      <4> DEFINE low == tunnel.ack
                 high == server.got - server.owed
                 most == MaxRequest + MaxResponse
      <4>1. low <= down[i].at - down[i].n /\ down[i].at <= high
        BY <1>1, <3>2 DEF ResponseWindow, Flows
      <4>2. low \in Int /\ high \in Int /\ high - low <= Window /\ most \in Nat /\ high <= most
        <5>1. most \in Nat /\ high <= most
          BY <1>2, <1>6, SumBounds
        <5> HIDE DEF most
        <5> QED BY <1>2, <1>6, <5>1
      <4> HIDE DEF low, high, most
      <4>3. down[i].n \in 0..Window /\ down[i].at \in 0..most
        BY <1>2, <3>1, <4>1, <4>2, Spread
      <4> QED BY <4>3 DEF most
    <3>3. CASE down[i].type # "flow"
      <4>1. down[i].n = 0 /\ down[i].at <= server.sent
        BY <3>3 DEF Addressed, Within
      <4>2. down[i].at <= MaxRequest /\ 0 \in 0..Window
        <5>1. \A a, b, c \in Nat : a <= b /\ b \in 0..c => a <= c
          OBVIOUS
        <5> QED BY <1>2, <1>5, <3>1, <4>1, <5>1
      <4>3. down[i].at <= MaxRequest + MaxResponse
        BY <1>2, <3>1, <4>2, SumBounds
      <4> QED BY <1>2, <3>1, <4>1, <4>2, <4>3
    <3> QED BY <3>2, <3>3
  <2> QED BY <1>2, <2>1, LettersAreMessages
<1>11. body \in 0..MaxRequest
  BY <1>2, <1>3
<1> QED BY <1>1, <1>7, <1>8, <1>9, <1>10, <1>11 DEF StreamTypes, StreamTypeOK

\* Every count of both sides, and of every message, stays within its window and within
\* what there is to send: no credit is negative and none is more than the window.
THEOREM StreamCountsAreBounded == StreamSpec => []StreamTypeOK
<1>1. StreamInit => Addressed
  <2> SUFFICES ASSUME StreamInit PROVE Addressed
    OBVIOUS
  <2>1. up = <<>> /\ down = <<Plain("open")>> /\ server.sent = 0
    BY DEF StreamInit
  <2>2. Plain("open").n = 0 /\ Plain("open").at = 0
    BY Uncredited DEF MessageType
  <2>3. Within(Plain("open"), server.sent)
    BY <2>1, <2>2 DEF Within
  <2> QED BY <2>1, <2>3 DEF Addressed
<1>2. StreamTypes /\ Addressed /\ [StreamNext]_streamVars => Addressed'
  BY AddressedStep
<1>3. WindowInv => StreamTypes
  BY DEF WindowInv
<1>4. WindowInv /\ Addressed => StreamTypeOK
  BY WindowTypes
<1> QED BY WindowsHold, <1>1, <1>2, <1>3, <1>4, PTL DEF StreamSpec
=============================================================================

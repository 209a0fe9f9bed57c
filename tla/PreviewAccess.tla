--------------------------- MODULE PreviewAccess ---------------------------
(***************************************************************************)
(* Who may reach a development preview, and over which connection:         *)
(*   connector  src/preview/{command,client}.ts, one process per route     *)
(*   server     apps/server/src/preview-{connector,relay,repository,       *)
(*              gateway,security}.ts, preview-relay/capacity.ts            *)
(* The route has a row in the database and, in memory, the connection that *)
(* serves it.  Messages of one connection are handled one after the other; *)
(* its close, a stop by a user and the requests of the browser run between *)
(* the transactions of such a handler.  What travels on an admitted stream *)
(* is the subject of PreviewStream.                                        *)
(***************************************************************************)
EXTENDS Naturals, Sequences, FiniteSets

CONSTANTS MaxLinks,   \* bound: how many sockets the process opens
          MaxStops,   \* bound: how often a user asks to stop the preview
          Post,       \* attempts to redeem the launch ticket
          Request     \* requests of the browser to the preview origin

ASSUME PreviewAssumption == MaxLinks \in Nat /\ MaxStops \in Nat

VARIABLES row,        \* workstation_previews.status
          due,        \* expires_at of the route has passed
          session,    \* the web session is active
          permitted,  \* app_can_preview_workstation
          process,    \* the process of `yurupager preview`
          sock,       \* PreviewTunnelClient.#socket, 0 for undefined
          links,      \* the sockets, at both ends
          routeSocket,\* PreviewRelay.#routeSockets of the route, 0 for none
          stopping,   \* a stop whose transaction is done but not its message
          stops,      \* stops begun
          ticket,     \* the launch ticket of OneTimePreviewTickets
          post,       \* how far each attempt to redeem it is
          request,    \* how far each request is
          missed      \* history: what the registration came too late for, below

rowVars == <<row, due, session, permitted>>
processVars == <<process, sock>>
stopVars == <<stopping, stops>>
browserVars == <<ticket, post, request>>
vars == <<rowVars, processVars, links, routeSocket, stopVars, browserVars, missed>>
-----------------------------------------------------------------------------
Link == 1..MaxLinks

Final == {"stopped", "expired"}

\* client, server: the state of the socket at each end; up, down: what is under
\* way; routes: the connection lists the route; task: the handler that runs;
\* mark: the transaction of its detachConnector has not run yet.
NewLink == [client |-> TRUE, server |-> "authenticating", routes |-> FALSE,
            up |-> <<"hello">>, down |-> <<>>, task |-> "none", mark |-> FALSE]

NoLink == [NewLink EXCEPT !.client = FALSE, !.server = "none", !.up = <<>>]

Attached(l) == links[l].server \in {"open", "closing"}

Synced == {l \in Link : links[l].task = "synced"}

\* What was not seen when the route was registered: that the connection had ended,
\* or that the preview was stopped; and, after it, the write of an earlier
\* connection that had ended.
Misses == {"end", "stop", "mark"}

\* socket.close of the server; the end is noticed later.
Closing(link) == IF link.server = "open" THEN [link EXCEPT !.server = "closing"] ELSE link

\* #send: only an open socket takes a message.
Sending(link, message) ==
    IF link.server = "open" THEN [link EXCEPT !.down = Append(@, message)] ELSE link

\* failAllForConnector and failAllForPreview: the streams of these links end.
StreamsEnd(L) ==
    request' = [q \in Request |->
                   IF request[q].stage = "open" /\ request[q].link \in L
                   THEN [request[q] EXCEPT !.stage = "done"] ELSE request[q]]

Init ==
    /\ row = "none" /\ due = FALSE /\ session = TRUE /\ permitted = TRUE
    /\ process = "running" /\ sock = 0
    /\ links = [l \in Link |-> NoLink]
    /\ routeSocket = 0
    /\ stopping = FALSE /\ stops = 0
    /\ ticket = "none"
    /\ post = [p \in Post |-> "idle"]
    /\ request = [q \in Request |-> [stage |-> "idle", denied |-> FALSE, link |-> 0]]
    /\ missed = {}
-----------------------------------------------------------------------------
(* The process on the workstation. *)

\* #scheduleReconnect, which gives up when the route has expired.
Reconnects == process = "running" /\ sock = 0 /\ ~due

\* #connect, at the start and by the reconnect timer.  The hello goes out when
\* the socket opens.
Dial(l) ==
    /\ Reconnects
    /\ links[l].server = "none"
    /\ \A k \in Link : k < l => links[k].server # "none"
    /\ sock' = l
    /\ links' = [links EXCEPT ![l] = NewLink]
    /\ UNCHANGED <<rowVars, process, routeSocket, stopVars, browserVars, missed>>

\* client.stop: an empty snapshot, then the socket is closed.
ProcessStops ==
    /\ process' = "finished"
    /\ sock' = 0
    /\ links' = IF sock = 0 THEN links
                ELSE [links EXCEPT ![sock].client = FALSE,
                                   ![sock].up = Append(@, "empty"), ![sock].down = <<>>]

\* Ctrl+C, or the timer of the route's expiry.
CommandStops ==
    /\ process = "running"
    /\ ProcessStops
    /\ UNCHANGED <<rowVars, routeSocket, stopVars, browserVars, missed>>

ReceiveWelcome(l) ==
    /\ sock = l /\ links[l].down # <<>> /\ Head(links[l].down) = "welcome"
    /\ links' = [links EXCEPT ![l].down = Tail(@)]
    /\ UNCHANGED <<rowVars, processVars, routeSocket, stopVars, browserVars, missed>>

ReceiveRouteStop(l) ==
    /\ sock = l /\ links[l].down # <<>> /\ Head(links[l].down) = "route.stop"
    /\ ProcessStops
    /\ UNCHANGED <<rowVars, routeSocket, stopVars, browserVars, missed>>

\* The connection is lost, with what was under way; each end notices by itself.
LinkBreaks(l) ==
    /\ links[l].client
    /\ links' = [links EXCEPT ![l].client = FALSE, ![l].up = <<>>, ![l].down = <<>>]
    /\ sock' = 0
    /\ UNCHANGED <<rowVars, process, routeSocket, stopVars, browserVars, missed>>

ProcessDies ==
    /\ process = "running"
    /\ process' = "finished" /\ sock' = 0
    /\ links' = IF sock = 0 THEN links
                ELSE [links EXCEPT ![sock].client = FALSE, ![sock].down = <<>>]
    /\ UNCHANGED <<rowVars, routeSocket, stopVars, browserVars, missed>>

\* The client is told that the server closed the socket.
ClientSeesClose(l) ==
    /\ links[l].client /\ links[l].server \in {"closing", "closed"}
    /\ links' = [links EXCEPT ![l].client = FALSE, ![l].down = <<>>]
    /\ sock' = 0
    /\ UNCHANGED <<rowVars, process, routeSocket, stopVars, browserVars, missed>>
-----------------------------------------------------------------------------
(* The connection on the server. *)

\* findPairedConnectorIdentity returned: attachConnector.  Messages that came
\* earlier were kept.
Attach(l) ==
    /\ links[l].server = "authenticating"
    /\ links' = [links EXCEPT ![l].server = "open"]
    /\ UNCHANGED <<rowVars, processVars, routeSocket, stopVars, browserVars, missed>>

\* validateRoutes, and the same check of readPreviewHello.
Refused == due

\* handleConnectorMessage begins: #replaceRoutes with the route, unless it has
\* expired, or without it.
Handle(l) ==
    /\ Attached(l) /\ links[l].task = "none" /\ links[l].up # <<>>
    /\ LET link == [links[l] EXCEPT !.up = Tail(@)] IN
       links' = [links EXCEPT ![l] =
           IF Head(links[l].up) = "hello"
           THEN IF Refused THEN Closing(link) ELSE [link EXCEPT !.task = "sync"]
           ELSE IF link.routes THEN [link EXCEPT !.task = "drop"] ELSE link]
    /\ UNCHANGED <<rowVars, processVars, routeSocket, stopVars, browserVars, missed>>

\* syncConnectorPreviewRoutes: inserts the row or makes it active, unless it is
\* final: 409, and the socket is closed.
Sync(l) ==
    /\ links[l].task = "sync"
    /\ IF row \in Final
       THEN links' = [links EXCEPT ![l] = Closing([@ EXCEPT !.task = "none"])] /\ UNCHANGED <<row, missed>>
       ELSE /\ links' = [links EXCEPT ![l].task = "synced"] /\ row' = "active"
            /\ missed' = missed \ {"mark"}
    /\ UNCHANGED <<due, session, permitted, processVars, routeSocket, stopVars, browserVars>>

\* The rest of #replaceRoutes: a connection that served the route loses it and is
\* closed; the welcome follows.  Nothing asks whether this one is still attached,
\* or whether the preview was stopped since its transaction.
Register(l) ==
    /\ links[l].task = "synced"
    /\ routeSocket' = l
    /\ links' = [k \in Link |->
           CASE k = l -> Sending([links[k] EXCEPT !.task = "none", !.routes = TRUE], "welcome")
             [] k # l /\ k = routeSocket -> Closing([links[k] EXCEPT !.routes = FALSE])
             [] OTHER -> links[k]]
    /\ missed' = (missed \cap {"mark"}) \cup {what \in {"end", "stop"} :
                     IF what = "end" THEN links[l].server = "closed" ELSE row \in Final}
    /\ UNCHANGED <<rowVars, processVars, stopVars, browserVars>>

\* canTransitionConnectorStatus.
CanTransition(next) ==
    \/ row = "active"
    \/ row = "connector_offline" /\ next = "stopped"

\* setConnectorPreviewRoutesStatus.
SetStatus(next) == row' = IF CanTransition(next) THEN next ELSE row

\* The snapshot no longer lists the route.
Drop(l) ==
    /\ links[l].task = "drop"
    /\ SetStatus("stopped")
    /\ links' = [links EXCEPT ![l].task = "dropped"]
    /\ UNCHANGED <<due, session, permitted, processVars, routeSocket, stopVars, browserVars, missed>>

Dropped(l) ==
    /\ links[l].task = "dropped"
    /\ links' = [links EXCEPT ![l].task = "none", ![l].routes = FALSE]
    /\ routeSocket' = IF routeSocket = l THEN 0 ELSE routeSocket
    /\ UNCHANGED <<rowVars, processVars, stopVars, browserVars, missed>>

\* A message of a socket whose end has arrived finds it detached, unless its
\* handler had begun.
EndArrives(l) ==
    /\ ~links[l].client
    /\ links[l].server \notin {"none", "closed"}
    /\ links[l].up = <<>> \/ links[l].task # "none" \/ links[l].server = "authenticating"

\* Faulty variant: the row is not told.
DetachSilently(l) ==
    /\ EndArrives(l)
    /\ links' = [links EXCEPT ![l].server = "closed", ![l].up = <<>>]
    /\ routeSocket' = IF links[l].routes /\ routeSocket = l THEN 0 ELSE routeSocket
    /\ StreamsEnd({l})
    /\ UNCHANGED <<rowVars, processVars, stopVars, ticket, post, missed>>

\* The close handler: detachConnector up to its transaction.
Detach(l) ==
    /\ EndArrives(l)
    /\ links' = [links EXCEPT ![l].server = "closed", ![l].up = <<>>, ![l].mark = links[l].routes]
    /\ routeSocket' = IF links[l].routes /\ routeSocket = l THEN 0 ELSE routeSocket
    /\ StreamsEnd({l})
    /\ UNCHANGED <<rowVars, processVars, stopVars, ticket, post, missed>>

\* Its transaction, which may come after the synchronization of a later connection.
MarkOffline(l) ==
    /\ links[l].mark
    /\ SetStatus("connector_offline")
    /\ links' = [links EXCEPT ![l].mark = FALSE]
    /\ missed' = IF row = "active" /\ (routeSocket # 0 \/ Synced # {}) THEN missed \cup {"mark"} ELSE missed
    /\ UNCHANGED <<due, session, permitted, processVars, routeSocket, stopVars, browserVars>>
-----------------------------------------------------------------------------
(* The users. *)

RouteExpires ==
    /\ ~due
    /\ due' = TRUE
    /\ UNCHANGED <<row, session, permitted, processVars, links, routeSocket, stopVars, browserVars, missed>>

\* A logout or the end of the session; can_preview is taken away.
SessionEnds ==
    /\ session
    /\ session' = FALSE
    /\ UNCHANGED <<row, due, permitted, processVars, links, routeSocket, stopVars, browserVars, missed>>

PermissionEnds ==
    /\ permitted
    /\ permitted' = FALSE
    /\ UNCHANGED <<row, due, session, processVars, links, routeSocket, stopVars, browserVars, missed>>

\* expireVisiblePreviews, of a listing and within every authorization.
Expired == IF permitted /\ due /\ row \in {"active", "connector_offline"} THEN "expired" ELSE row

ListPreviews ==
    /\ session
    /\ row # Expired /\ row' = Expired
    /\ UNCHANGED <<due, session, permitted, processVars, links, routeSocket, stopVars, browserVars, missed>>

\* stopWorkstationPreview, also of a row that has expired.
StopCommits ==
    /\ session /\ permitted /\ row # "none"
    /\ ~stopping /\ stops < MaxStops
    /\ stopping' = TRUE /\ stops' = stops + 1
    /\ row' = "stopped"
    /\ UNCHANGED <<due, session, permitted, processVars, links, routeSocket, browserVars, missed>>

\* The rest of stopPreview: the process is told, if a connection is registered.
StopNotifies ==
    /\ stopping
    /\ stopping' = FALSE
    /\ IF routeSocket = 0
       THEN UNCHANGED <<links, routeSocket, request>>
       ELSE /\ links' = [links EXCEPT ![routeSocket] =
                            Sending([@ EXCEPT !.routes = FALSE], "route.stop")]
            /\ routeSocket' = 0
            /\ StreamsEnd(Link)
    /\ UNCHANGED <<rowVars, processVars, stops, ticket, post, missed>>

\* authorizeWorkstationPreview.  What it expires is undone with its transaction when
\* it refuses, and it refuses what it has expired.
Authorized == permitted /\ Expired = "active"

\* issueLaunchTicket.
Launch ==
    /\ session /\ ticket = "none"
    /\ Authorized
    /\ ticket' = "issued"
    /\ UNCHANGED <<rowVars, processVars, links, routeSocket, stopVars, post, request, missed>>

\* A minute passes.
TicketLapses ==
    /\ ticket = "issued"
    /\ ticket' = "lapsed"
    /\ UNCHANGED <<rowVars, processVars, links, routeSocket, stopVars, post, request, missed>>

\* consume: the binding that is found, if its minute has not passed.
TicketUsable == ticket = "issued"

\* Faulty variant: the ticket is looked up and deleted when it has been redeemed.
PeekTicket(p) ==
    /\ post[p] = "idle" /\ ticket # "none"
    /\ post' = [post EXCEPT ![p] = IF TicketUsable THEN "session" ELSE "refused"]
    /\ UNCHANGED <<rowVars, processVars, links, routeSocket, stopVars, ticket, request, missed>>

\* redeemLaunchTicket consumes the ticket whatever comes of it.
ConsumeTicket(p) ==
    /\ post[p] = "idle" /\ ticket # "none"
    /\ post' = [post EXCEPT ![p] = IF TicketUsable THEN "session" ELSE "refused"]
    /\ ticket' = "used"
    /\ UNCHANGED <<rowVars, processVars, links, routeSocket, stopVars, request, missed>>

RedeemSession(p) ==
    /\ post[p] = "session"
    /\ post' = [post EXCEPT ![p] = IF session THEN "row" ELSE "refused"]
    /\ UNCHANGED <<rowVars, processVars, links, routeSocket, stopVars, ticket, request, missed>>

RedeemRow(p) ==
    /\ post[p] = "row"
    /\ post' = [post EXCEPT ![p] = IF Authorized THEN "cookie" ELSE "refused"]
    /\ UNCHANGED <<rowVars, processVars, links, routeSocket, stopVars, ticket, request, missed>>

At(q, stage) == request[q].stage = stage

Proceeds(q, stage) == request' = [request EXCEPT ![q].stage = stage]

\* verifyPreviewContext.
CookieValid == ~due /\ \E p \in Post : post[p] = "cookie"

\* A request with the cookie.  "denied" remembers that the
\* browser had no more right when it came.
RequestComes(q) ==
    /\ At(q, "idle") /\ \E p \in Post : post[p] = "cookie"
    /\ request' = [request EXCEPT ![q].stage = IF CookieValid THEN "session" ELSE "done",
                                  ![q].denied = ~session \/ ~permitted \/ row \in Final]
    /\ UNCHANGED <<rowVars, processVars, links, routeSocket, stopVars, ticket, post, missed>>

\* Faulty variant: the signature of the cookie is enough.
RequestTrusted(q) ==
    /\ At(q, "session")
    /\ Proceeds(q, "row")
    /\ UNCHANGED <<rowVars, processVars, links, routeSocket, stopVars, ticket, post, missed>>

RequestSession(q) ==
    /\ At(q, "session")
    /\ Proceeds(q, IF session THEN "row" ELSE "done")
    /\ UNCHANGED <<rowVars, processVars, links, routeSocket, stopVars, ticket, post, missed>>

RequestRow(q) ==
    /\ At(q, "row")
    /\ Proceeds(q, IF Authorized THEN "connect" ELSE "done")
    /\ UNCHANGED <<rowVars, processVars, links, routeSocket, stopVars, ticket, post, missed>>

\* authorizePreviewContext finds the connection, and PreviewCapacity may let the
\* request wait for other streams of the user or the connector.
RequestConnects(q) ==
    /\ At(q, "connect")
    /\ request' = [request EXCEPT
           ![q].stage = IF routeSocket # 0 /\ links[routeSocket].server = "open" THEN "waiting" ELSE "done",
           ![q].link = routeSocket]
    /\ UNCHANGED <<rowVars, processVars, links, routeSocket, stopVars, ticket, post, missed>>

\* #accessIsActive.
AccessIsActive(l) == links[l].server = "open" /\ links[l].routes /\ routeSocket = l

\* Faulty variant: the reservation is granted on what was true when the wait began.
AdmitUnseen(q) ==
    /\ At(q, "waiting")
    /\ Proceeds(q, "open")
    /\ UNCHANGED <<rowVars, processVars, links, routeSocket, stopVars, ticket, post, missed>>

\* The reservation is granted if the connection still serves the route, and the
\* stream is created at once.
Admit(q) ==
    /\ At(q, "waiting")
    /\ Proceeds(q, IF AccessIsActive(request[q].link) THEN "open" ELSE "done")
    /\ UNCHANGED <<rowVars, processVars, links, routeSocket, stopVars, ticket, post, missed>>

\* The wait is cut short, or the stream ends by itself.
RequestEnds(q) ==
    /\ At(q, "waiting") \/ At(q, "open")
    /\ Proceeds(q, "done")
    /\ UNCHANGED <<rowVars, processVars, links, routeSocket, stopVars, ticket, post, missed>>
-----------------------------------------------------------------------------
Next ==
    \/ CommandStops \/ ProcessDies
    \/ RouteExpires \/ SessionEnds \/ PermissionEnds
    \/ ListPreviews \/ StopCommits \/ StopNotifies \/ Launch \/ TicketLapses
    \/ \E l \in Link :
          \/ Dial(l) \/ ReceiveWelcome(l) \/ ReceiveRouteStop(l)
          \/ LinkBreaks(l) \/ ClientSeesClose(l)
          \/ Attach(l) \/ Handle(l) \/ Sync(l) \/ Register(l)
          \/ Drop(l) \/ Dropped(l) \/ Detach(l) \/ MarkOffline(l)
    \/ \E p \in Post : ConsumeTicket(p) \/ RedeemSession(p) \/ RedeemRow(p)
    \/ \E q \in Request :
          \/ RequestComes(q) \/ RequestSession(q) \/ RequestRow(q)
          \/ RequestConnects(q) \/ Admit(q) \/ RequestEnds(q)

Spec == Init /\ [][Next]_vars
-----------------------------------------------------------------------------
(* Properties *)

TypeOK ==
    /\ row \in {"none", "active", "connector_offline"} \cup Final
    /\ {due, session, permitted, stopping} \subseteq BOOLEAN /\ missed \subseteq Misses
    /\ process \in {"running", "finished"} /\ sock \in 0..MaxLinks
    /\ links \in [Link -> [client : BOOLEAN, server : {"none", "authenticating", "open", "closing", "closed"},
                           routes : BOOLEAN, up : Seq({"hello", "empty"}),
                           down : Seq({"welcome", "route.stop"}),
                           task : {"none", "sync", "synced", "drop", "dropped"}, mark : BOOLEAN]]
    /\ routeSocket \in 0..MaxLinks /\ stops \in 0..MaxStops
    /\ ticket \in {"none", "issued", "lapsed", "used"}
    /\ post \in [Post -> {"idle", "session", "row", "cookie", "refused"}]
    /\ request \in [Request -> [stage : {"idle", "session", "row", "connect", "waiting", "open", "done"},
                                denied : BOOLEAN, link : 0..MaxLinks]]

\* One ticket opens one browser context, however often and however
\* simultaneously it is posted.
OneContextPerTicket == \A p, r \in Post : post[p] = "cookie" /\ post[r] = "cookie" => p = r

\* A request that comes after a logout, after can_preview was taken away or after
\* the preview was stopped or has expired never becomes a stream, although its
\* cookie is valid until the route expires.
DeniedStaysOut == \A q \in Request : request[q].denied => request[q].stage # "open"

\* A stream is carried by an attached connection that serves the route or is
\* being closed, however the wait for its admission, a stop, a reconnection and
\* the close of the socket interleave.
StreamsAreCarried ==
    \A q \in Request : request[q].stage = "open" =>
        LET link == links[request[q].link] IN
        /\ link.server \in {"open", "closing"}
        /\ link.routes \/ link.server = "closing" \/ ~link.client

Settled ==
    /\ ~stopping
    /\ \A l \in Link :
          /\ links[l].task = "none" /\ ~links[l].mark /\ links[l].up = <<>>
          /\ links[l].client <=> links[l].server = "open"

\* When nothing is under way, the status that users see says what the relay has:
\* an active route is registered, with a connection that lives; one whose
\* connector is offline, or that was stopped, is not registered.  The exceptions
\* are the three things the registration misses: the connection had ended before
\* it, the preview was stopped before it, or the write of an earlier connection
\* came after the synchronization.  A row that has expired says nothing of the
\* relay, which keeps the route until the process stops.
StatusIsTrue ==
    Settled =>
        /\ row = "active" => routeSocket # 0 /\ (links[routeSocket].client \/ "end" \in missed)
        /\ row = "connector_offline" => routeSocket = 0 \/ "mark" \in missed
        /\ row = "stopped" => routeSocket = 0 \/ {"end", "stop"} \cap missed # {}
=============================================================================

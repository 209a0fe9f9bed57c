---------------------------- MODULE SessionStream ----------------------------
(***************************************************************************)
(* How a collaborator sees the conversation of a running thread:           *)
(*   connector  src/connector/runtime.ts (streams), src/codex/conversation *)
(*   server     apps/server/src/session-relay.ts                           *)
(*   viewer     apps/web/src/{session-timeline,App}.tsx                    *)
(* The agent's process for reading (thread/read) and the processes that    *)
(* run turns are different ones: what a read returns and the notifications *)
(* of a turn arrive in no fixed order, and turns of other clients on the   *)
(* workstation are not notified at all.  The connector sends the history,  *)
(* then every notification at once, and corrects the viewer by patches     *)
(* against the snapshot it believes the viewer has.                        *)
(* Frames that are sent in one synchronous loop are one message; texts are *)
(* sequences of pieces; an image is one frame.                             *)
(***************************************************************************)
EXTENDS Naturals, Sequences, SequencesExt

CONSTANTS MaxChanges,   \* bound: changes of the thread
          MaxText,      \* bound: pieces of a message
          MaxSubs,      \* bound: subscriptions a viewer asks for
          MaxFrames,    \* bound: messages on the way to the server, and to the browser
          MaxFaults,    \* bound: lost connections, failed reads, revoked access
          MaxEvents     \* bound: changes, subscriptions and faults together

ASSUME SessionStreamAssumption == {MaxChanges, MaxText, MaxSubs, MaxFrames, MaxFaults, MaxEvents} \subseteq Nat

VARIABLES
    \* the workstation
    thread,     \* the thread as conversationSnapshot shows it
    notified,   \* the last turn is run by a turn client of the connector
    changes,    \* how often the thread has changed
    notices,    \* notifications the turn clients have not handled yet
    streams,    \* #sessionStreams of the connector: the stream of each subscription
    \* the link of the connector
    link,       \* "up", "broken" (the server has not noticed) or "down"
    control,    \* subscribe and unsubscribe messages for the connector
    up,         \* frames for the server
    stale,      \* frames of the connection before that the server handles yet
    overlap,    \* TRUE once such a frame was handled beside the next connection
    checking,   \* the frame whose image waits for an authorization, and its chain
    \* the server
    route,      \* the subscription of the user's socket, 0 for none
    asked,      \* subscriptions created so far
    pending,    \* TRUE: subscribeUser waits for its authorization
    attached,   \* the server's side of the user's socket is open
    allowed,    \* the user may view the session
    \* the viewer
    intents,    \* messages of the user's socket the server has not handled
    toUser,     \* messages for the browser
    socket,     \* the browser's side of the socket is open
    wants,      \* the session is shown
    view,       \* TimelineState
    asks,       \* subscribe messages sent so far
    faults      \* how many faults happened

agentVars == <<thread, notified, changes, notices>>
linkVars == <<link, control, up, stale, overlap, checking>>
serverVars == <<route, asked, pending, attached, allowed>>
viewerVars == <<socket, wants, view, asks>>
streamVars == <<agentVars, streams, linkVars, serverVars, intents, toUser, viewerVars, faults>>
-----------------------------------------------------------------------------
(* Conversations: sequences of entries, and the frames that change them. *)

Sub == 1..MaxSubs

NoStream == [live |-> FALSE]

Entry(kind, id, val) == [kind |-> kind, id |-> id, val |-> val]

SameKey(e, f) == e.kind = f.kind /\ e.id = f.id

Positions(entries, e) == {i \in DOMAIN entries : SameKey(entries[i], e)}

Position(entries, e) == IF Positions(entries, e) = {} THEN 0 ELSE CHOOSE i \in Positions(entries, e) : TRUE

\* A frame sets an entry ("set": turn.status, activity.upsert, image.*, or a message
\* with its reset), makes sure there is one ("start") or appends to it ("add").
Frame(op, e) == [op |-> op, entry |-> e]

\* One frame of applyConversationFrames.
ApplyOne(entries, frame) ==
    LET e == frame.entry
        i == Position(entries, e)
    IN IF i = 0
       THEN IF frame.op = "add" THEN entries ELSE Append(entries, e)
       ELSE CASE frame.op = "add" -> [entries EXCEPT ![i].val = @ \o e.val]
              [] frame.op = "start" -> entries
              [] OTHER -> [entries EXCEPT ![i] = e]

History(entries) == [history |-> TRUE, frames |-> [i \in DOMAIN entries |-> Frame("set", entries[i])]]

\* Faulty variant: what is not a continuation is appended all the same.
EntryPatchAppends(previous, e) ==
    LET i == Position(previous, e) IN
    IF i # 0 /\ previous[i].val = e.val THEN <<>>
    ELSE IF i # 0 /\ e.kind = "message" THEN <<Frame("add", e)>>
    ELSE <<Frame("set", e)>>

\* The frames conversationPatchFrames pushes for an entry of the next snapshot.
EntryPatch(previous, e) ==
    LET i == Position(previous, e) IN
    IF i # 0 /\ previous[i].val = e.val THEN <<>>
    ELSE IF i # 0 /\ e.kind = "message" /\ IsPrefix(previous[i].val, e.val)
    THEN <<Frame("add", [e EXCEPT !.val = SubSeq(@, Len(previous[i].val) + 1, Len(@))])>>
    ELSE <<Frame("set", e)>>

\* conversationPatchFrames: a snapshot that misses or reorders what the viewer has
\* is sent as a whole.
Patch(previous, next) ==
    LET misses == \E i \in DOMAIN previous : Position(next, previous[i]) = 0
        reorders == \E i, j \in DOMAIN previous :
                       i < j /\ Position(next, previous[i]) > Position(next, previous[j])
    IN IF misses \/ reorders
       THEN History(next)
       ELSE [history |-> FALSE,
             frames |-> FlattenSeq([i \in DOMAIN next |-> EntryPatch(previous, next[i])])]

\* timelineReducer keeps the statuses of turns beside the entries.
NoView(status) == [status |-> status, entries |-> <<>>, turns |-> <<>>]

ShowFrame(v, frame) ==
    IF frame.entry.kind = "turn" THEN [v EXCEPT !.turns = ApplyOne(@, frame)]
    ELSE [v EXCEPT !.entries = ApplyOne(@, frame)]

ShowFrames(v, frames) ==
    LET at[i \in 0..Len(frames)] == IF i = 0 THEN v ELSE ShowFrame(at[i - 1], frames[i])
    IN at[Len(frames)]

\* A history starts from nothing, and makes the view live.
Show(v, batch) ==
    IF batch.history
    THEN [ShowFrames(NoView("loading"), batch.frames) EXCEPT !.status = "live"]
    ELSE ShowFrames(v, batch.frames)

\* What a viewer is to see of a conversation.
Shown(entries) == Show(NoView("live"), History(entries))

\* The same entries with the same texts, in whatever order.
SameView(v, w) == ToSet(v.entries) = ToSet(w.entries) /\ ToSet(v.turns) = ToSet(w.turns)
-----------------------------------------------------------------------------
StreamInit ==
    /\ thread = <<Entry("turn", 1, <<TRUE>>)>> /\ notified \in BOOLEAN
    /\ changes = 0 /\ notices = <<>>
    /\ streams = [s \in Sub |-> NoStream]
    /\ link = "up" /\ control = <<>> /\ up = <<>> /\ stale = <<>>
    /\ overlap = FALSE /\ checking = <<>>
    /\ route = 0 /\ asked = 0 /\ pending = FALSE /\ attached = TRUE /\ allowed = TRUE
    /\ intents = <<>> /\ toUser = <<>>
    /\ socket = TRUE /\ wants = FALSE /\ view = NoView("loading") /\ asks = 0
    /\ faults = 0

Eventful == changes + asks + faults < MaxEvents

Fault == Eventful /\ faults < MaxFaults /\ faults' = faults + 1
-----------------------------------------------------------------------------
(* The agent.  A thread is the items of each turn followed by the turn's status
   (conversationSnapshot); only turns of a turn client are notified. *)

LastTurn == thread[Len(thread)]

Running == LastTurn.val = <<TRUE>>

TurnEntry(open) == Entry("turn", LastTurn.id, <<open>>)

Changes(entries, frame) ==
    /\ Eventful /\ changes < MaxChanges
    /\ changes' = changes + 1
    /\ thread' = entries
    /\ notices' = IF notified' THEN Append(notices, frame) ELSE notices
    /\ UNCHANGED <<streams, linkVars, serverVars, intents, toUser, viewerVars, faults>>

\* turn/started: by a command of a collaborator, or by another client.
TurnStarts(seen) ==
    LET e == [TurnEntry(TRUE) EXCEPT !.id = @ + 1] IN
    /\ ~Running
    /\ notified' = seen
    /\ Changes(Append(thread, e), Frame("set", e))

\* item/started of a message, item/completed of an image.
ItemStarts(kind) ==
    LET e == Entry(kind, Len(thread), <<>>) IN
    /\ Running /\ notified' = notified
    /\ Changes(InsertAt(thread, Len(thread), e),
               Frame(IF kind = "message" THEN "start" ELSE "set", e))

\* item/agentMessage/delta, or item/completed with the whole text.
MessageGrows(complete) ==
    /\ Running /\ notified' = notified
    /\ \E i \in DOMAIN thread :
          LET e == thread[i]
              piece == <<Len(e.val) + 1>>
              grown == [e EXCEPT !.val = IF complete THEN [n \in 1..MaxText |-> n] ELSE @ \o piece]
          IN /\ e.kind = "message" /\ Len(e.val) < MaxText
             /\ \A j \in i..(Len(thread) - 1) : thread[j].kind # "turn"
             /\ Changes([thread EXCEPT ![i] = grown],
                        IF complete THEN Frame("set", grown) ELSE Frame("add", [e EXCEPT !.val = piece]))

TurnCompletes ==
    /\ Running /\ notified' = notified
    /\ Changes([thread EXCEPT ![Len(thread)] = TurnEntry(FALSE)], Frame("set", TurnEntry(FALSE)))

Agent ==
    \/ \E seen \in BOOLEAN : TurnStarts(seen)
    \/ \E kind \in {"message", "image"} : ItemStarts(kind)
    \/ \E complete \in BOOLEAN : MessageGrows(complete)
    \/ TurnCompletes
-----------------------------------------------------------------------------
(* The connector. *)

\* sendEphemeral: a frame without an open socket is gone.
Send(messages) ==
    /\ messages # <<>> => Len(up) < MaxFrames
    /\ up' = IF link = "up" THEN up \o messages ELSE up

Message(sub, batch) == <<[sub |-> sub, failed |-> FALSE, batch |-> batch]>>

NoFrames == [history |-> FALSE, frames |-> <<>>]

ErrorMessage(sub) == <<[sub |-> sub, failed |-> TRUE, batch |-> NoFrames]>>

Frames(sub, batch) == IF batch.history \/ batch.frames # <<>> THEN Message(sub, batch) ELSE <<>>

Live(sub) == streams[sub].live

\* #handleSessionStream for a subscribe message: the stream replaces one of the same
\* subscription, and is read from the agent at once.
NewStream ==
    [live |-> TRUE, loading |-> TRUE, known |-> FALSE, snapshot |-> <<>>,
     moved |-> FALSE, queued |-> FALSE, timer |-> FALSE, polling |-> FALSE,
     sync |-> "reading", initial |-> TRUE, result |-> <<>>]

ReceiveControl ==
    /\ control # <<>> /\ link = "up"
    /\ control' = Tail(control)
    /\ LET m == Head(control) IN
       streams' = [streams EXCEPT ![m.sub] = IF m.type = "subscribe" THEN NewStream ELSE NoStream]
    /\ UNCHANGED <<agentVars, link, up, stale, overlap, checking,
                   serverVars, intents, toUser, viewerVars, faults>>

Ready(s) == s.live /\ ~s.loading /\ s.known

\* #handleCodexNotification: before there is a snapshot a stream is only marked,
\* afterwards the frame is sent, applied to the snapshot, and a sync is due.  (The
\* revision counts while a read is under way; the timer is the poll's if there is one.)
Notified(s, frame) ==
    CASE ~s.live -> s
      [] Ready(s) -> [s EXCEPT !.snapshot = ApplyOne(@, frame),
                               !.moved = s.sync # "none", !.timer = ~s.polling]
      [] OTHER -> [s EXCEPT !.queued = TRUE]

Notify ==
    /\ notices # <<>>
    /\ notices' = Tail(notices)
    /\ streams' = [s \in Sub |-> Notified(streams[s], Head(notices))]
    /\ Send(FlattenSeq([s \in Sub |->
               IF Ready(streams[s])
               THEN Message(s, [history |-> FALSE, frames |-> <<Head(notices)>>]) ELSE <<>>]))
    /\ UNCHANGED <<thread, notified, changes, link, control, stale, overlap, checking,
                   serverVars, intents, toUser, viewerVars, faults>>

Becomes(sub, s) == streams' = [streams EXCEPT ![sub] = s]

\* #syncSessionStream, by the poll or 80 ms after a notification: one read at a time.
\* (A tick during a read queues another read, which the next tick brings as well.)
Sync(sub) ==
    LET s == streams[sub] IN
    /\ s.live /\ s.sync = "none"
    /\ s.polling \/ s.timer
    /\ Becomes(sub, [s EXCEPT !.sync = "reading", !.moved = FALSE, !.timer = FALSE])
    /\ UNCHANGED <<agentVars, linkVars, serverVars, intents, toUser, viewerVars, faults>>

\* The agent answers thread/read; the continuation runs later.
ThreadRead(sub) ==
    /\ Live(sub) /\ streams[sub].sync = "reading"
    /\ Becomes(sub, [streams[sub] EXCEPT !.sync = "read", !.result = thread])
    /\ UNCHANGED <<agentVars, linkVars, serverVars, intents, toUser, viewerVars, faults>>

\* The finally block: a queued sync starts at once.
FinishSync(s) == [s EXCEPT !.sync = IF s.queued THEN "reading" ELSE "none",
                       !.initial = FALSE, !.moved = FALSE, !.queued = FALSE]

\* The answer becomes the snapshot, and only a first read starts the poll.
Adopt(s) == [s EXCEPT !.snapshot = s.result, !.known = TRUE, !.loading = FALSE,
                      !.polling = @ \/ s.initial, !.result = <<>>]

Correction(s) ==
    IF s.initial \/ ~s.known THEN History(s.result) ELSE Patch(s.snapshot, s.result)

\* The answer is used, unless a notification has changed the snapshot since the read
\* began: then the thread is read again.
SyncDone(sub) ==
    LET s == streams[sub] IN
    /\ s.live /\ s.sync = "read"
    /\ IF ~s.initial /\ s.moved
       THEN Becomes(sub, FinishSync([s EXCEPT !.queued = TRUE, !.result = <<>>])) /\ UNCHANGED up
       ELSE Send(Frames(sub, Correction(s))) /\ Becomes(sub, FinishSync(Adopt(s)))
    /\ UNCHANGED <<agentVars, link, control, stale, overlap, checking,
                   serverVars, intents, toUser, viewerVars, faults>>

\* thread/read fails or takes too long.  The viewer is told if there is no history yet.
ReadFails(sub) ==
    LET s == streams[sub] IN
    /\ s.live /\ s.sync = "reading"
    /\ Fault
    /\ IF s.initial \/ ~s.known
       THEN Send(ErrorMessage(sub)) /\ Becomes(sub, FinishSync([s EXCEPT !.loading = FALSE]))
       ELSE Becomes(sub, FinishSync(s)) /\ UNCHANGED up
    /\ UNCHANGED <<agentVars, link, control, stale, overlap, checking,
                   serverVars, intents, toUser, viewerVars>>

Connector ==
    \/ ReceiveControl \/ Notify
    \/ \E s \in Sub : Sync(s) \/ ThreadRead(s) \/ SyncDone(s) \/ ReadFails(s)
-----------------------------------------------------------------------------
(* The server. *)

Status(state) == [type |-> "status", state |-> state]

TellUser(messages) == toUser' = IF attached THEN toUser \o messages ELSE toUser

ToConnector(messages) == IF link = "up" THEN control \o messages ELSE control

\* #removeRoute, with the message to an active connector.
Unsubscribe(sub) == IF sub = 0 THEN <<>> ELSE <<[type |-> "unsubscribe", sub |-> sub]>>

\* unsubscribeUser.
HandleUnsubscribe ==
    /\ intents # <<>> /\ ~pending
    /\ Head(intents) = "unsubscribe"
    /\ intents' = Tail(intents)
    /\ route' = 0
    /\ control' = ToConnector(Unsubscribe(route))
    /\ UNCHANGED <<agentVars, streams, link, up, stale, overlap, checking,
                   asked, pending, attached, allowed, toUser, viewerVars, faults>>

\* subscribeUser until its await: the route before is given up.
HandleSubscribe ==
    /\ intents # <<>> /\ ~pending
    /\ Head(intents) = "subscribe"
    /\ pending' = TRUE
    /\ route' = 0
    /\ control' = ToConnector(Unsubscribe(route))
    /\ TellUser(<<Status("loading")>>)
    /\ UNCHANGED <<agentVars, streams, link, up, stale, overlap, checking,
                   asked, attached, allowed, intents, viewerVars, faults>>

NewRoute ==
    /\ asked' = asked + 1
    /\ route' = asked + 1
    /\ IF link = "down"
       THEN TellUser(<<Status("connector_offline")>>) /\ UNCHANGED control
       ELSE control' = ToConnector(<<[type |-> "subscribe", sub |-> asked + 1]>>) /\ UNCHANGED toUser

\* Faulty variant: neither the version of the intent nor the socket is looked at again.
AuthorizedAnyway ==
    /\ pending
    /\ pending' = FALSE
    /\ intents' = IF attached THEN Tail(intents) ELSE <<>>
    /\ IF ~allowed THEN TellUser(<<Status("denied")>>) /\ UNCHANGED <<asked, route, control>>
       ELSE NewRoute
    /\ UNCHANGED <<agentVars, streams, link, up, stale, overlap, checking,
                   attached, allowed, viewerVars, faults>>

\* subscribeUser after the await.  A socket that has closed meanwhile gets no route.
Authorized ==
    /\ pending
    /\ pending' = FALSE
    /\ intents' = IF attached THEN Tail(intents) ELSE <<>>
    /\ IF ~attached THEN UNCHANGED <<asked, route, control, toUser>>
       ELSE IF ~allowed
       THEN TellUser(<<Status("denied")>>) /\ UNCHANGED <<asked, route, control>>
       ELSE NewRoute
    /\ UNCHANGED <<agentVars, streams, link, up, stale, overlap, checking,
                   attached, allowed, viewerVars, faults>>

HasImage(m) == \E i \in DOMAIN m.batch.frames : m.batch.frames[i].entry.kind = "image"

Forwarded(m) == IF m.failed THEN Status("error") ELSE [type |-> "frames", batch |-> m.batch]

Forward(m) == Len(toUser) < MaxFrames /\ TellUser(<<Forwarded(m)>>)

\* handleConnectorMessage for the next frame of a chain: a frame of another route is
\* dropped, one with an image waits for a new authorization.
HandleFrame(chain, rest) ==
    /\ chain # <<>>
    /\ rest
    /\ LET m == Head(chain) IN
       IF m.sub # route THEN UNCHANGED <<toUser, checking>>
       ELSE IF HasImage(m) THEN checking' = <<m>> /\ UNCHANGED toUser
       ELSE Forward(m) /\ UNCHANGED checking
    /\ UNCHANGED <<agentVars, streams, link, control, serverVars, intents, viewerVars, faults>>

HandleUp ==
    /\ checking = <<>>
    /\ HandleFrame(up, up' = Tail(up) /\ UNCHANGED <<stale, overlap>>)

\* The chain of a closed connection goes on, also beside its successor.
HandleStale ==
    /\ checking = <<>>
    /\ HandleFrame(stale, stale' = Tail(stale) /\ overlap' = (overlap \/ link = "up") /\ UNCHANGED up)

\* The authorization of an image: the frames go to the user, or the route is removed.
ImageChecked ==
    /\ checking # <<>>
    /\ checking' = <<>>
    /\ IF allowed
       THEN Forward(checking[1]) /\ UNCHANGED <<route, control>>
       ELSE /\ TellUser(<<Status("denied")>>)
            /\ route' = IF route = checking[1].sub THEN 0 ELSE route
            /\ control' = ToConnector(Unsubscribe(checking[1].sub))
    /\ UNCHANGED <<agentVars, streams, link, up, stale, overlap,
                   asked, pending, attached, allowed, intents, viewerVars, faults>>

\* detachConnector, in the close handler.
Detach ==
    /\ link = "broken"
    /\ link' = "down"
    /\ IF route = 0 THEN UNCHANGED toUser ELSE TellUser(<<Status("connector_offline")>>)
    /\ UNCHANGED <<agentVars, streams, control, up, stale, overlap, checking,
                   serverVars, intents, viewerVars, faults>>

\* Faulty variant: routes are left to their users.
ActivateSilently ==
    /\ link # "up"
    /\ link' = "up"
    /\ UNCHANGED <<agentVars, streams, control, up, stale, overlap, checking,
                   serverVars, intents, toUser, viewerVars, faults>>

\* activateConnector: every route is subscribed again.
Activate ==
    /\ link # "up"
    /\ link' = "up"
    /\ IF route = 0 THEN UNCHANGED <<toUser, control>>
       ELSE /\ TellUser(<<Status("loading")>>)
            /\ control' = <<[type |-> "subscribe", sub |-> route]>>
    /\ UNCHANGED <<agentVars, streams, up, stale, overlap, checking,
                   serverVars, intents, viewerVars, faults>>

\* removeUser, in the close handler of the user's socket.
RemoveUser ==
    /\ attached /\ ~socket
    /\ attached' = FALSE
    /\ route' = 0
    /\ control' = ToConnector(Unsubscribe(route))
    /\ UNCHANGED <<agentVars, streams, link, up, stale, overlap, checking,
                   asked, pending, allowed, intents, toUser, viewerVars, faults>>

Server ==
    \/ HandleUnsubscribe \/ HandleSubscribe \/ Authorized
    \/ HandleUp \/ HandleStale \/ ImageChecked
    \/ Detach \/ Activate \/ RemoveUser
-----------------------------------------------------------------------------
(* Faults. *)

\* The connection of the connector ends; the server has received some of the frames.
LinkBreaks(received) ==
    /\ link = "up" /\ stale = <<>>
    /\ Fault
    /\ link' = "broken"
    /\ control' = <<>> /\ up' = <<>>
    /\ stale' = SubSeq(up, 1, received)
    /\ UNCHANGED <<agentVars, streams, overlap, checking, serverVars, intents, toUser, viewerVars>>

\* The user's socket ends on the browser's side.
UserBreaks ==
    /\ socket
    /\ Fault
    /\ socket' = FALSE
    /\ toUser' = <<>>
    /\ view' = NoView("loading")
    /\ UNCHANGED <<agentVars, streams, linkVars, serverVars, intents, wants, asks>>

Revoke ==
    /\ allowed
    /\ Fault
    /\ allowed' = FALSE
    /\ UNCHANGED <<agentVars, streams, linkVars, route, asked, pending, attached, intents, toUser, viewerVars>>
-----------------------------------------------------------------------------
(* The viewer. *)

Subscribes == Eventful /\ asks < MaxSubs /\ asks' = asks + 1

\* The session is opened, or retried after an error.
Open ==
    /\ socket
    /\ ~wants \/ view.status \in {"error", "connector_offline", "denied"}
    /\ Subscribes
    /\ wants' = TRUE
    /\ view' = NoView("loading")
    /\ intents' = Append(intents, "subscribe")
    /\ UNCHANGED <<agentVars, streams, linkVars, serverVars, toUser, socket, faults>>

\* Another session or page is shown.
Leave ==
    /\ wants
    /\ wants' = FALSE
    /\ view' = NoView("loading")
    /\ intents' = IF socket THEN Append(intents, "unsubscribe") ELSE intents
    /\ UNCHANGED <<agentVars, streams, linkVars, serverVars, toUser, socket, asks, faults>>

\* The socket is opened again: the effect of the shown session runs anew.  The server
\* has a new socket without routes.
UserReturns ==
    /\ ~socket /\ ~attached /\ ~pending
    /\ socket' = TRUE /\ attached' = TRUE
    /\ IF wants
       THEN Subscribes /\ intents' = <<"unsubscribe", "subscribe">>
       ELSE asks' = asks /\ intents' = <<>>
    /\ UNCHANGED <<agentVars, streams, linkVars, route, asked, pending, allowed, toUser, wants, view, faults>>

\* Every status that the server sends clears the view.
Handled(v, m) == IF m.type = "frames" THEN Show(v, m.batch) ELSE NoView(m.state)

\* A message for a session that is not shown any more finds no handler.
Receive ==
    /\ toUser # <<>> /\ socket
    /\ toUser' = Tail(toUser)
    /\ view' = IF wants THEN Handled(view, Head(toUser)) ELSE view
    /\ UNCHANGED <<agentVars, streams, linkVars, serverVars, intents, socket, wants, asks, faults>>

Viewer == Open \/ Leave \/ UserReturns \/ Receive
-----------------------------------------------------------------------------
StreamNext ==
    \/ Agent \/ Connector \/ Server \/ Viewer
    \/ \E received \in 0..Len(up) : LinkBreaks(received)
    \/ UserBreaks \/ Revoke

StreamSpec == StreamInit /\ [][StreamNext]_streamVars

\* Event loops run, timers fire, the agent answers, sockets are opened again.
StreamFairness ==
    /\ WF_streamVars(ReceiveControl) /\ WF_streamVars(Notify)
    /\ \A s \in Sub : WF_streamVars(Sync(s) \/ ThreadRead(s) \/ SyncDone(s))
    /\ WF_streamVars(HandleUnsubscribe \/ HandleSubscribe \/ Authorized)
    /\ WF_streamVars(HandleUp \/ HandleStale \/ ImageChecked)
    /\ WF_streamVars(Activate)
    /\ WF_streamVars(RemoveUser \/ UserReturns)
    /\ WF_streamVars(Receive)

StreamFairSpec == StreamSpec /\ StreamFairness
-----------------------------------------------------------------------------
(* Properties *)

\* A collaborator who shows the session, may see it, and whose workstation is
\* connected, ends up with the thread as the workstation has it: every text, in
\* order, without repetition, with the status of every turn.  Reads race with
\* notifications of other processes, and changes of other clients are not notified.
\* Excepted are a first read that failed (its stream is not polled) and a chain of an
\* old connection that was handled beside its successor.
LiveViewCatchesUp ==
    <>[](wants /\ socket /\ allowed /\ link = "up" /\ ~overlap /\ view.status # "error"
            => \/ view.status = "live" /\ SameView(view, Shown(thread))
               \/ (route # 0 /\ Live(route) /\ ~streams[route].polling))

\* What is shown once these messages are handled.
AllHandled(v, messages) ==
    LET at[i \in 0..Len(messages)] == IF i = 0 THEN v ELSE Handled(at[i - 1], messages[i])
    IN at[Len(messages)]

\* What the server makes of the frames of a connector for the one with this route.
Forwards(sub, messages) ==
    [i \in DOMAIN messages |->
        IF messages[i].sub = sub THEN Forwarded(messages[i])
        ELSE [type |-> "frames", batch |-> NoFrames]]

Arrived == AllHandled(view, toUser \o Forwards(route, checking) \o Forwards(route, up))

\* The stream of the shown session has sent its history, over the connection of now.
Following ==
    /\ route # 0 /\ wants /\ socket /\ allowed /\ link = "up" /\ ~overlap /\ stale = <<>>
    /\ intents = <<>> /\ control = <<>>
    /\ Live(route) /\ streams[route].known

\* What the connector corrects is what the viewer will have: the frames on their way
\* turn what is shown into the snapshot the next patch is computed against.
ConnectorKnowsView == Following => SameView(Arrived, Shown(streams[route].snapshot))

\* The socket of a user who has gone holds no route.
GoneUsersHaveNoRoute == ~attached => route = 0
=============================================================================

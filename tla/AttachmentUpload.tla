--------------------------- MODULE AttachmentUpload ---------------------------
(***************************************************************************)
(* One image of a draft on its way to the workstation: the composer of the *)
(* browser, which sends a piece and waits for a status                     *)
(* (apps/web/src/attachment-upload.ts, session-composer.tsx), the upload   *)
(* registry of the server (apps/server/src/session-relay/attachments.ts)   *)
(* and the store of the connector (src/codex/local-image-store.ts).        *)
(*                                                                         *)
(* The server awaits an authorization inside a message; the store writes   *)
(* files and rows that outlive a crash.  A draft keeps its uploadId when   *)
(* it is sent again, each begin of the server is a new transfer.  The      *)
(* image is always the same, so offsets stand for bytes: they are counted  *)
(* in chunks.                                                              *)
(***************************************************************************)
EXTENDS Integers, Sequences

CONSTANTS Chunks,      \* chunks of the image
          MaxAttempts, \* bound: clicks on "send"
          MaxFaults    \* bound: sockets lost or replaced, and crashes

ASSUME UploadAssumption == Chunks \in Nat \ {0} /\ MaxAttempts \in Nat /\ MaxFaults \in Nat

VARIABLES web,      \* the composer: phase, offset, attempts, its socket, its ticket
          uploads,  \* #uploads of the server
          busy,     \* the message whose authorization the server awaits
          issued,   \* transfers begun so far
          command,  \* the message with the image is stored
          store,    \* files and rows of the connector
          transfer, \* #attachmentTransfers of the connector, 0 for none
          link,     \* the connector's socket, as the server sees it
          toServer, toWeb, toConnector, fromConnector, \* messages on their way
          lost,     \* the connector's socket was lost or replaced, or it crashed
          cut,      \* a socket was replaced without its peer being told
          faults

servers == <<uploads, busy, issued, command>>
wires == <<toServer, toWeb, toConnector, fromConnector>>
uploadVars == <<web, servers, store, transfer, link, wires, lost, cut, faults>>
-----------------------------------------------------------------------------
Offsets == 0..Chunks
None == -1   \* no row, or no file
Sockets == 1..(MaxFaults + 1)
Transfers == 1..MaxAttempts

Waiting == {"begin", "chunk", "complete"}
Web == [phase : {"idle", "ready", "sent"} \cup Waiting, offset : Offsets,
        attempts : 0..MaxAttempts, socket : Sockets]

\* UploadRoute.  The socket is the user's.
Upload == [transfer : Transfers, socket : Sockets, next : Offsets,
           state : {"transferring", "verifying", "ready"}]

\* row, part: image_uploads and its file; image: image_attachments; stored: its file.
Store == [up : BOOLEAN, row : Offsets \cup {None}, part : Offsets \cup {None},
          image : BOOLEAN, stored : BOOLEAN]

\* To the server: {begin, chunk, complete, cancel}, with the socket of the user.
Request == [type : Waiting \cup {"cancel"}, at : Offsets, socket : Sockets]
\* To the connector, and its status.
Control == [type : Waiting \cup {"cancel"}, at : Offsets, transfer : Transfers]
Status == [state : {"accepted", "progress", "ready", "failed", "cancelled"}, at : Offsets,
           transfer : Transfers]
\* To the browser: "progress" stands for "accepted" too.
Notice == [state : {"progress", "ready", "failed", "cancelled"}, at : Offsets, socket : Sockets]

Idle == [type |-> "none", socket |-> 1, at |-> 0, of |-> 0]

UploadTypeOK ==
    /\ web \in Web
    /\ uploads \subseteq Upload
    /\ busy \in {Idle} \cup [type : Waiting, socket : Sockets, at : Offsets, of : 0..MaxAttempts]
    /\ issued \in 0..MaxAttempts /\ command \in BOOLEAN
    /\ store \in Store /\ transfer \in 0..MaxAttempts
    /\ link \in {"active", "pending", "down"}
    /\ toServer \in Seq(Request) /\ toWeb \in Seq(Notice)
    /\ toConnector \in Seq(Control) /\ fromConnector \in Seq(Status)
    /\ lost \in BOOLEAN /\ cut \in BOOLEAN /\ faults \in 0..MaxFaults
-----------------------------------------------------------------------------
UploadInit ==
    /\ web = [phase |-> "idle", offset |-> 0, attempts |-> 0, socket |-> 1]
    /\ uploads = {} /\ busy = Idle /\ issued = 0 /\ command = FALSE
    /\ store = [up |-> TRUE, row |-> None, part |-> None, image |-> FALSE, stored |-> FALSE]
    /\ transfer = 0 /\ link = "active"
    /\ toServer = <<>> /\ toWeb = <<>> /\ toConnector = <<>> /\ fromConnector = <<>>
    /\ lost = FALSE /\ cut = FALSE /\ faults = 0

Prefixes(channel) == {SubSeq(channel, 1, i) : i \in 0..Len(channel)}
-----------------------------------------------------------------------------
(* The browser *)

Ask(type, at) == toServer' = Append(toServer, [type |-> type, at |-> at, socket |-> web.socket])

\* submit, uploadSessionAttachments: the draft is sent, or sent again.
Send ==
    /\ web.phase = "idle" /\ web.attempts < MaxAttempts
    /\ web' = [web EXCEPT !.phase = "begin", !.offset = 0, !.attempts = web.attempts + 1]
    /\ Ask("begin", 0)
    /\ UNCHANGED <<servers, store, transfer, link, toWeb, toConnector, fromConnector, lost, cut, faults>>

\* Every failure of an attempt cancels what it started and keeps the draft.
GiveUp ==
    /\ web' = [web EXCEPT !.phase = "idle"]
    /\ Ask("cancel", 0)

\* The next piece: a chunk, or the end of the image.
Proceed(at) ==
    IF at < Chunks
    THEN web' = [web EXCEPT !.phase = "chunk", !.offset = at] /\ Ask("chunk", at)
    ELSE web' = [web EXCEPT !.phase = "complete", !.offset = at] /\ Ask("complete", 0)

\* sendAndWait takes the next status of the upload for its answer, whatever it answers.
WebHears ==
    /\ toWeb # <<>>
    /\ toWeb' = Tail(toWeb)
    /\ LET n == Head(toWeb) IN
       IF n.socket # web.socket \/ web.phase \notin Waiting THEN UNCHANGED <<web, toServer>>
       ELSE \/ n.state \in {"failed", "cancelled"} /\ GiveUp
            \/ n.state = "ready" /\ web' = [web EXCEPT !.phase = "ready"] /\ UNCHANGED toServer
            \/ /\ n.state = "progress"
               /\ IF \/ web.phase = "complete"
                     \/ web.phase = "chunk" /\ n.at <= web.offset
                  THEN GiveUp ELSE Proceed(n.at)
    /\ UNCHANGED <<servers, store, transfer, link, toConnector, fromConnector, lost, cut, faults>>

\* The user cancels, or the status does not come in time.
WebAborts ==
    /\ web.phase \in Waiting
    /\ GiveUp
    /\ UNCHANGED <<servers, store, transfer, link, toWeb, toConnector, fromConnector, lost, cut, faults>>

\* sendSessionMessage: the command is stored, and its images are no longer uploads
\* (commit); or it is refused; or the answer is lost.
Post ==
    /\ web.phase = "ready"
    /\ \/ command' = TRUE /\ uploads' = {u \in uploads : u.state # "ready"}
       \/ UNCHANGED <<command, uploads>>
    /\ \/ command' /\ web' = [web EXCEPT !.phase = "sent"] /\ UNCHANGED toServer
       \/ GiveUp
    /\ UNCHANGED <<busy, issued, store, transfer, link, toWeb, toConnector, fromConnector, lost, cut, faults>>
-----------------------------------------------------------------------------
(* The server *)

\* sendUser and sendConnector: a socket that is not open takes nothing.
Tell(socket, state, at) ==
    toWeb' = IF socket = web.socket
             THEN Append(toWeb, [state |-> state, at |-> at, socket |-> socket]) ELSE toWeb
Forward(type, at, of) ==
    toConnector' = IF link = "active"
                   THEN Append(toConnector, [type |-> type, at |-> at, transfer |-> of])
                   ELSE toConnector

\* removeUpload, with the cancel of the connector.
Remove(of) == uploads' = {u \in uploads : u.transfer # of} /\ Forward("cancel", 0, of)
\* failUpload.
FailUpload(of, socket) == Remove(of) /\ Tell(socket, "failed", 0)

UploadsOf(socket) == {u \in uploads : u.socket = socket}

\* Faulty variant: does not tell the connector.
CancelLocally(socket) ==
    /\ Tell(socket, "cancelled", 0)
    /\ uploads' = uploads \ UploadsOf(socket)
    /\ UNCHANGED toConnector

\* cancel.
Cancel(socket) ==
    /\ Tell(socket, "cancelled", 0)
    /\ IF UploadsOf(socket) = {} THEN UNCHANGED <<uploads, toConnector>>
       ELSE \E u \in UploadsOf(socket) : Remove(u.transfer)

\* handleUserMessage up to the first await.
ServerTakes ==
    /\ busy = Idle /\ toServer # <<>>
    /\ toServer' = Tail(toServer)
    /\ LET q == Head(toServer)
           mine == UploadsOf(q.socket)
       IN \/ q.type = "cancel" /\ Cancel(q.socket) /\ UNCHANGED busy
          \/ /\ q.type = "begin" /\ mine # {}
             /\ \E u \in mine : Tell(q.socket, IF u.state = "ready" THEN "ready" ELSE "progress", u.next)
             /\ UNCHANGED <<busy, uploads, toConnector>>
          \/ /\ q.type \in {"chunk", "complete"}
             /\ ~\E u \in mine : u.state = "transferring"
             /\ Tell(q.socket, "failed", 0)
             /\ UNCHANGED <<busy, uploads, toConnector>>
          \/ /\ \/ q.type = "begin" /\ mine = {}
                \/ q.type # "begin" /\ q.type # "cancel" /\ \E u \in mine : u.state = "transferring"
             /\ busy' = [type |-> q.type, socket |-> q.socket,
                         at |-> IF q.type = "complete" THEN (CHOOSE u \in mine : TRUE).next ELSE q.at,
                         of |-> IF mine = {} THEN 0 ELSE (CHOOSE u \in mine : TRUE).transfer]
             /\ UNCHANGED <<uploads, toWeb, toConnector>>
    /\ UNCHANGED <<web, issued, command, store, transfer, link, fromConnector, lost, cut, faults>>

\* begin, after its authorization.
BeginResumes ==
    \/ Tell(busy.socket, "failed", 0) /\ UNCHANGED <<uploads, issued, toConnector>>
    \/ /\ link = "active" /\ issued < MaxAttempts
       /\ issued' = issued + 1
       /\ uploads' = uploads \cup {[transfer |-> issued + 1, socket |-> busy.socket, next |-> 0,
                                    state |-> "transferring"]}
       /\ Forward("begin", 0, issued + 1)
       /\ UNCHANGED toWeb

\* The upload the server looked up before it waited: if it was removed meanwhile, the
\* object is as it was then.
Held == IF \E u \in uploads : u.transfer = busy.of
        THEN CHOOSE u \in uploads : u.transfer = busy.of
        ELSE [transfer |-> busy.of, socket |-> busy.socket, next |-> busy.at, state |-> "transferring"]

\* The registry follows the object if it still holds it.
Becomes(u) == uploads' = {IF v.transfer = u.transfer THEN u ELSE v : v \in uploads}

\* receiveChunk and complete, after the authorization.
PieceResumes ==
    LET u == Held
    IN  /\ IF link # "active"
           THEN /\ Tell(u.socket, "failed", 0)
                /\ uploads' = uploads \ {u} /\ UNCHANGED toConnector
           ELSE \/ FailUpload(u.transfer, u.socket)
                \/ /\ busy.type = "chunk" /\ busy.at = u.next
                   /\ Becomes([u EXCEPT !.next = u.next + 1])
                   /\ Forward("chunk", busy.at, u.transfer)
                   /\ UNCHANGED toWeb
                \/ /\ busy.type = "complete" /\ u.next = Chunks
                   /\ Becomes([u EXCEPT !.state = "verifying"])
                   /\ Forward("complete", 0, u.transfer)
                   /\ UNCHANGED toWeb
        /\ UNCHANGED issued

ServerResumes ==
    /\ busy # Idle
    /\ busy' = Idle
    /\ IF busy.type = "begin" THEN BeginResumes ELSE PieceResumes
    /\ UNCHANGED <<web, command, store, transfer, link, toServer, fromConnector, lost, cut, faults>>

\* handleConnectorStatus.
ServerHears ==
    /\ fromConnector # <<>>
    /\ fromConnector' = Tail(fromConnector)
    /\ LET s == Head(fromConnector)
           known == {u \in uploads : u.transfer = s.transfer}
       IN  IF known = {} THEN UNCHANGED <<uploads, toWeb, toConnector>>
           ELSE \E u \in known :
                \/ /\ s.state \in {"accepted", "progress"}
                   /\ IF u.state = "transferring" /\ s.at = u.next
                      THEN Tell(u.socket, "progress", u.next) /\ UNCHANGED <<uploads, toConnector>>
                      ELSE FailUpload(u.transfer, u.socket)
                \/ /\ s.state = "ready"
                   /\ IF u.state = "verifying"
                      THEN /\ Becomes([u EXCEPT !.state = "ready"])
                           /\ Tell(u.socket, "ready", 0) /\ UNCHANGED toConnector
                      ELSE FailUpload(u.transfer, u.socket)
                \/ /\ s.state \in {"failed", "cancelled"}
                   /\ Tell(u.socket, s.state, 0)
                   /\ uploads' = uploads \ {u} /\ UNCHANGED toConnector
    /\ UNCHANGED <<web, busy, issued, command, store, transfer, link, toServer, lost, cut, faults>>

\* sweepExpired: half an hour after its ticket an upload is forgotten.
Expire ==
    \E u \in uploads :
       /\ u.state = "ready"
       /\ FailUpload(u.transfer, u.socket)
       /\ UNCHANGED <<web, busy, issued, command, store, transfer, link, toServer, fromConnector, lost, cut, faults>>
-----------------------------------------------------------------------------
(* The connector *)

Reply(state, at, of) ==
    fromConnector' = IF link = "down" THEN fromConnector
                     ELSE Append(fromConnector, [state |-> state, at |-> at, transfer |-> of])

\* cancelUpload of the store: an image that is complete stays.
Discarded(s) == IF s.image THEN s ELSE [s EXCEPT !.row = None, !.part = None]

\* What handleAttachment does when the store throws.
Refuse(of) == store' = Discarded(store) /\ transfer' = 0 /\ Reply("failed", 0, of)

\* beginUpload.
StoreBegins(m) ==
    IF store.image THEN transfer' = m.transfer /\ Reply("ready", Chunks, m.transfer) /\ UNCHANGED store
    ELSE IF store.row = None
    THEN /\ store' = [store EXCEPT !.row = 0, !.part = 0]
         /\ transfer' = m.transfer /\ Reply("accepted", 0, m.transfer)
    ELSE transfer' = m.transfer /\ Reply("accepted", store.row, m.transfer) /\ UNCHANGED store

\* appendChunk.
StoreAppends(m) ==
    IF store.row = m.at /\ store.part = m.at /\ m.at < Chunks
    THEN /\ store' = [store EXCEPT !.row = m.at + 1, !.part = m.at + 1]
         /\ Reply("progress", m.at + 1, m.transfer) /\ UNCHANGED transfer
    ELSE Refuse(m.transfer)

\* completeUpload.
StoreCompletes(m) ==
    IF store.image \/ store.row = Chunks
    THEN /\ store' = [store EXCEPT !.row = None, !.part = None, !.image = TRUE, !.stored = TRUE]
         /\ transfer' = 0 /\ Reply("ready", Chunks, m.transfer)
    ELSE Refuse(m.transfer)

\* cancelUpload.
StoreCancels(m) ==
    /\ store' = Discarded(store) /\ transfer' = 0
    /\ Reply(IF store.image THEN "ready" ELSE "cancelled", 0, m.transfer)

\* handleAttachment.  A disk that fails makes any operation throw.
ConnectorHears ==
    /\ store.up /\ toConnector # <<>>
    /\ toConnector' = Tail(toConnector)
    /\ LET m == Head(toConnector) IN
       IF m.type = "begin"
       THEN \/ StoreBegins(m)
            \/ Reply("failed", 0, m.transfer) /\ UNCHANGED <<store, transfer>>
       ELSE IF transfer # m.transfer THEN Refuse(m.transfer)
       ELSE \/ m.type = "chunk" /\ StoreAppends(m)
            \/ m.type = "complete" /\ StoreCompletes(m)
            \/ m.type = "cancel" /\ StoreCancels(m)
            \/ Refuse(m.transfer)
    /\ UNCHANGED <<web, servers, link, toServer, toWeb, lost, cut, faults>>
-----------------------------------------------------------------------------
(* Sockets and crashes *)

Fault == faults < MaxFaults /\ faults' = faults + 1

\* Faulty variant: does not tell the browsers.
OfflineSilent == uploads' = {} /\ UNCHANGED toWeb

\* handleConnectorOffline.
Offline ==
    /\ uploads' = {}
    /\ toWeb' = IF UploadsOf(web.socket) = {} THEN toWeb
                ELSE Append(toWeb, [state |-> "failed", at |-> 0, socket |-> web.socket])

\* The server sees the connector's socket close.
LinkLost ==
    /\ link # "down" /\ Fault
    /\ link' = "down" /\ lost' = TRUE
    /\ Offline
    /\ toConnector' \in Prefixes(toConnector) /\ fromConnector' \in Prefixes(fromConnector)
    /\ UNCHANGED <<web, busy, issued, command, store, transfer, toServer, cut>>

\* The connector is back before the server has seen its old socket close: the uploads
\* are kept.
LinkReplaced ==
    /\ link = "active" /\ Fault
    /\ link' = "pending" /\ lost' = TRUE /\ cut' = TRUE
    /\ toConnector' \in Prefixes(toConnector) /\ fromConnector' \in Prefixes(fromConnector)
    /\ UNCHANGED <<web, servers, store, transfer, toServer, toWeb>>

\* A new socket is registered, and active after its handshake.
LinkRegisters ==
    /\ link = "down" /\ store.up
    /\ link' = "pending"
    /\ UNCHANGED <<web, servers, store, transfer, wires, lost, cut, faults>>
LinkActivates ==
    /\ link = "pending" /\ store.up
    /\ link' = "active"
    /\ UNCHANGED <<web, servers, store, transfer, wires, lost, cut, faults>>

\* The connector dies, also between the rename of an image and its row, or between
\* a file and its row.
Dying ==
    {store} \cup
    (IF toConnector # <<>> /\ Head(toConnector).type = "complete" /\ store.row = Chunks
     THEN {[store EXCEPT !.part = None, !.stored = TRUE]} ELSE {}) \cup
    (IF toConnector # <<>> /\ Head(toConnector).type = "chunk" /\ store.row = Head(toConnector).at
     THEN {[store EXCEPT !.part = store.row + 1]} ELSE {})

Crash ==
    /\ store.up /\ Fault
    /\ \E s \in Dying : store' = [s EXCEPT !.up = FALSE]
    /\ transfer' = 0 /\ toConnector' = <<>>
    /\ link' = "down" /\ lost' = TRUE
    /\ Offline
    /\ UNCHANGED <<web, busy, issued, command, toServer, fromConnector, cut>>

\* Faulty variant: clears the directory.
RestartEmpty ==
    /\ ~store.up
    /\ store' = [store EXCEPT !.up = TRUE, !.row = None, !.part = None, !.stored = FALSE]
    /\ UNCHANGED <<web, servers, transfer, link, wires, lost, cut, faults>>

\* discardIncompleteUploads.
Restart ==
    /\ ~store.up
    /\ store' = [store EXCEPT !.up = TRUE, !.row = None, !.part = None, !.stored = store.image]
    /\ UNCHANGED <<web, servers, transfer, link, wires, lost, cut, faults>>

\* The browser's socket closes, and it opens another: removeUser.  Messages of the
\* old one that have arrived are still handled.
UserReconnects ==
    /\ Fault
    /\ web' = [web EXCEPT !.socket = web.socket + 1]
    /\ cut' = TRUE
    /\ toServer' \in Prefixes(toServer) /\ toWeb' = <<>>
    /\ LET mine == UploadsOf(web.socket)
       IN  IF \E u \in mine : u.state # "ready"
           THEN \E u \in mine : Remove(u.transfer)
           ELSE uploads' = uploads \ mine /\ UNCHANGED toConnector
    /\ UNCHANGED <<busy, issued, command, store, transfer, link, fromConnector, lost>>
-----------------------------------------------------------------------------
UploadNext ==
    \/ Send \/ WebHears \/ WebAborts \/ Post
    \/ ServerTakes \/ ServerResumes \/ ServerHears \/ Expire
    \/ ConnectorHears
    \/ LinkLost \/ LinkReplaced \/ LinkRegisters \/ LinkActivates
    \/ Crash \/ Restart \/ UserReconnects

UploadSpec == UploadInit /\ [][UploadNext]_uploadVars

\* Event loops run, queries return, and a connector that is up connects again.  No
\* timer has to fire.
UploadFairness ==
    /\ WF_uploadVars(WebHears) /\ WF_uploadVars(Post)
    /\ WF_uploadVars(ServerTakes) /\ WF_uploadVars(ServerResumes) /\ WF_uploadVars(ServerHears)
    /\ WF_uploadVars(ConnectorHears)
    /\ WF_uploadVars(LinkRegisters) /\ WF_uploadVars(LinkActivates) /\ WF_uploadVars(Restart)

UploadFairSpec == UploadSpec /\ UploadFairness
-----------------------------------------------------------------------------
(* Properties *)

\* A ticket, and a command that was stored with it, names an image that is recorded
\* and whole on the workstation, across crashes and stale answers.
TicketIsStored ==
    web.phase \in {"ready", "sent"} \/ command \/ (\E u \in uploads : u.state = "ready") =>
        store.image /\ store.stored

\* The browser does not need its timer unless a socket was replaced under it: every
\* piece is answered, also when the connector goes away while the server waits.
AnswerArrives == web.phase \in Waiting /\ ~cut ~> web.phase \notin Waiting \/ cut

\* An attempt that ends without a ticket leaves no part of the image behind, unless a
\* socket was lost or the connector crashed.
NothingLeftBehind ==
    web.phase = "idle" ~> store.part = None \/ web.phase # "idle" \/ lost \/ cut

=============================================================================

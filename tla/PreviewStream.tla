---------------------------- MODULE PreviewStream ----------------------------
(***************************************************************************)
(* One proxied request of a development preview: the stream of the server  *)
(* (apps/server/src/preview-relay.ts and preview-relay/streams.ts) and the *)
(* stream of the tunnel on the workstation (src/preview/tunnel.ts), joined *)
(* by a WebSocket that delivers in order until it breaks.                  *)
(*                                                                         *)
(* Each direction has a window.  The sender counts its credit down; the    *)
(* receiver gives credit back when the bytes have left its own buffer:     *)
(* the server when the browser has drained, the tunnel when the write to   *)
(* the local server was flushed.  Bytes are counted in chunks, each of one *)
(* unit of the window.                                                     *)
(***************************************************************************)
EXTENDS Integers, Sequences

CONSTANTS Kinds,      \* "http", "websocket": the kinds of streams
          Window,     \* initialWindowBytes
          MaxRequest, \* bound: chunks, or frames, of the browser
          MaxResponse \* bound: chunks, or frames, of the local server

ASSUME StreamAssumption ==
    /\ Kinds \subseteq {"http", "websocket"}
    /\ Window \in Nat \ {0} /\ MaxRequest \in Nat /\ MaxResponse \in Nat

VARIABLES kind,    \* HttpStream or BrowserWebSocketStream
          body,    \* chunks the browser has for the request
          server,  \* the server's stream
          tunnel,  \* the tunnel's stream
          down,    \* messages to the tunnel
          up,      \* messages to the server
          linked   \* the socket is open

streamVars == <<kind, body, server, tunnel, down, up, linked>>
-----------------------------------------------------------------------------
\* `at` is an offset, or the sequence of a frame; `n` the credit of a flow message.
MessageType == {"open", "accepted", "start", "chunk", "end", "flow", "error", "cancel", "close"}
Message == [type : MessageType, at : 0..(MaxRequest + MaxResponse), n : 0..Window]

Plain(type) == [type |-> type, at |-> 0, n |-> 0]
Chunk(at) == [type |-> "chunk", at |-> at, n |-> 0]
Flow(at, n) == [type |-> "flow", at |-> at, n |-> n]
Chunks(at, n) == [j \in 1..n |-> Chunk(at + j - 1)]

\* owed: pendingResponseCredit; got: responseOffset; sent: requestOffset; asked:
\* the end of the request was sent; ended: responseEndReceived.
ServerStream ==
    [st : {"open", "done", "failed"}, accepted : BOOLEAN, started : BOOLEAN,
     pressed : BOOLEAN, ended : BOOLEAN, owed : 0..Window, got : 0..MaxResponse,
     sent : 0..MaxRequest, credit : 0..Window, asked : BOOLEAN]

\* taken: requestOffset; flushed: requestAckOffset; offset: responseOffset; ack:
\* responseAckOffset; queue: chunks in responseQueue; over: responseEnded; closing:
\* remoteClosing.
TunnelStream ==
    [st : {"none", "open", "gone"}, started : BOOLEAN, taken : 0..MaxRequest,
     flushed : 0..MaxRequest, asked : BOOLEAN, offset : 0..MaxResponse,
     ack : 0..MaxResponse, credit : 0..Window, queue : 0..MaxResponse,
     over : BOOLEAN, closing : BOOLEAN]

StreamTypeOK ==
    /\ kind \in Kinds /\ body \in 0..MaxRequest
    /\ server \in ServerStream /\ tunnel \in TunnelStream
    /\ down \in Seq(Message) /\ up \in Seq(Message)
    /\ linked \in BOOLEAN

Least(a, b) == IF a <= b THEN a ELSE b

\* A send on a socket that is not open does nothing.
Sends(channel, messages) == IF linked THEN channel \o messages ELSE channel
-----------------------------------------------------------------------------
StreamInit ==
    /\ kind \in Kinds /\ body \in 0..MaxRequest
    /\ server = [st |-> "open", accepted |-> FALSE, started |-> FALSE, pressed |-> FALSE,
                 ended |-> FALSE, owed |-> 0, got |-> 0, sent |-> 0, credit |-> Window,
                 asked |-> FALSE]
    /\ tunnel = [st |-> "none", started |-> FALSE, taken |-> 0, flushed |-> 0, asked |-> FALSE,
                 offset |-> 0, ack |-> 0, credit |-> Window, queue |-> 0, over |-> FALSE,
                 closing |-> FALSE]
    /\ down = <<Plain("open")>> /\ up = <<>> /\ linked = TRUE
-----------------------------------------------------------------------------
(* The server *)

\* failStream: the tunnel is told, the browser's response is cut off.
FailServer ==
    /\ server' = [server EXCEPT !.st = "failed"]
    /\ down' = Sends(down, <<Plain("cancel")>>)

\* grantHttpResponseCredit: a grant that cannot be sent fails the stream.
Granted(s) == [s EXCEPT !.owed = 0, !.st = IF linked \/ s.owed = 0 THEN s.st ELSE "failed"]
Grant(s) == IF s.owed = 0 THEN <<>> ELSE <<Flow(s.got, s.owed)>>

\* completeHttpResponse.
Completed(s) == [Granted(s) EXCEPT !.st = IF @ = "open" THEN "done" ELSE @]

\* The messages that do not make handleStreamMessage throw.
ServerAccepts(m) ==
    IF kind = "http"
    THEN CASE m.type = "start" -> ~server.started
           [] m.type = "chunk" -> server.started /\ m.at = server.got
           [] m.type = "end" -> server.started
           [] OTHER -> TRUE
    ELSE m.type = "chunk" => server.accepted /\ m.at = server.got

\* A chunk is written to the browser's response, which may ask to wait for drain.
ServerChunk ==
    \E writable \in BOOLEAN :
        LET s == [server EXCEPT !.got = server.got + 1, !.owed = server.owed + 1]
        IN  IF writable /\ ~s.pressed
            THEN server' = Granted(s) /\ down' = Sends(down, Grant(s))
            ELSE server' = [s EXCEPT !.pressed = TRUE] /\ UNCHANGED down

\* A frame is handed to the browser, which is not asked whether it keeps up.
ServerFrame ==
    /\ server' = [server EXCEPT !.got = server.got + 1]
    /\ down' = Sends(down, <<Flow(server.got + 1, 1)>>)

\* The end of the response waits until the browser has drained.
ServerEnd ==
    LET s == [server EXCEPT !.ended = TRUE]
    IN  IF s.pressed THEN server' = s /\ UNCHANGED down
        ELSE server' = Completed(s) /\ down' = Sends(down, Grant(s))

\* The credit for the request grows up to the window.
ServerFlow(m) ==
    /\ server' = [server EXCEPT !.credit = IF m.at <= server.sent THEN Least(Window, server.credit + m.n)
                                           ELSE server.credit]
    /\ UNCHANGED down

\* handleStreamMessage, for the next message.  Whoever does not know the stream any
\* more drops it; a message that makes it throw closes the socket.
ServerReceives ==
    /\ up # <<>>
    /\ up' = Tail(up)
    /\ LET m == Head(up) IN
       IF server.st # "open" THEN UNCHANGED <<server, down, linked>>
       ELSE IF ~ServerAccepts(m) THEN linked' = FALSE /\ UNCHANGED <<server, down>>
       ELSE /\ \/ m.type = "accepted" /\ server' = [server EXCEPT !.accepted = TRUE] /\ UNCHANGED down
               \/ m.type = "start" /\ server' = [server EXCEPT !.started = TRUE] /\ UNCHANGED down
               \/ m.type = "chunk" /\ kind = "http" /\ ServerChunk
               \/ m.type = "chunk" /\ kind = "websocket" /\ ServerFrame
               \/ m.type = "end" /\ ServerEnd
               \/ m.type = "error" /\ FailServer
               \/ m.type = "flow" /\ ServerFlow(m)
               \/ m.type = "close" /\ server' = [server EXCEPT !.st = "done"] /\ UNCHANGED down
            /\ UNCHANGED linked
    /\ UNCHANGED <<kind, body, tunnel>>

\* Faulty variant: goes on without a grant.
DrainForgetful ==
    /\ kind = "http" /\ server.st = "open" /\ server.pressed
    /\ server' = [server EXCEPT !.pressed = FALSE, !.st = IF server.ended THEN "done" ELSE @]
    /\ UNCHANGED <<kind, body, tunnel, up, down, linked>>

\* resumeHttpResponse: the browser has drained.
Drain ==
    /\ kind = "http" /\ server.st = "open" /\ server.pressed
    /\ LET s == [server EXCEPT !.pressed = FALSE]
       IN  /\ server' = IF s.ended THEN Completed(s) ELSE Granted(s)
           /\ down' = Sends(down, Grant(s))
    /\ UNCHANGED <<kind, body, tunnel, up, linked>>

\* The loop of relayHttp once waitForCredit let it go, or a frame of the browser
\* for which there is credit.
SendChunk ==
    /\ server.st = "open" /\ server.accepted
    /\ server.sent < body /\ server.credit > 0
    /\ server' = [server EXCEPT !.sent = server.sent + 1, !.credit = server.credit - 1]
    /\ down' = Sends(down, <<Chunk(server.sent)>>)
    /\ UNCHANGED <<kind, body, tunnel, up, linked>>

\* The request is over.  A response that was complete before does not keep the end
\* from being sent.
SendEnd ==
    /\ kind = "http" /\ server.accepted
    /\ server.sent = body /\ ~server.asked
    /\ server' = [server EXCEPT !.asked = TRUE]
    /\ down' = Sends(down, <<Plain("end")>>)
    /\ UNCHANGED <<kind, body, tunnel, up, linked>>

\* The browser closes its WebSocket, or is closed for a frame without credit.  When
\* the listener of the raw socket runs before this one, the step is ServerGivesUp.
BrowserCloses ==
    /\ kind = "websocket" /\ server.st = "open" /\ server.accepted
    /\ server' = [server EXCEPT !.st = "done"]
    /\ down' = Sends(down, <<Plain("close")>>)
    /\ UNCHANGED <<kind, body, tunnel, up, linked>>

\* The browser gives up, a timer of the server fires, the preview is stopped.
ServerGivesUp ==
    /\ server.st = "open"
    /\ FailServer
    /\ UNCHANGED <<kind, body, tunnel, up, linked>>
-----------------------------------------------------------------------------
(* The tunnel *)

\* fail: the server is told, the local connection is destroyed.
FailTunnel ==
    /\ tunnel' = [tunnel EXCEPT !.st = "gone"]
    /\ up' = Sends(up, <<Plain("error")>>)

\* The messages that are not a protocol failure of the stream.
TunnelAccepts(m) ==
    CASE m.type = "chunk" ->
           ~tunnel.asked /\ m.at = tunnel.taken /\ tunnel.taken + 1 - tunnel.flushed <= Window
      [] m.type = "end" -> ~tunnel.asked
      [] m.type = "flow" -> tunnel.ack <= m.at /\ m.at <= tunnel.offset
      [] OTHER -> TRUE

\* Faulty variant: the end overtakes what waits for credit.
FlushEndsEarly(t) ==
    LET n == Least(t.queue, t.credit)
    IN  /\ tunnel' = [t EXCEPT !.queue = t.queue - n, !.credit = t.credit - n,
                               !.offset = t.offset + n,
                               !.st = IF t.over \/ (n > 0 /\ ~linked) THEN "gone" ELSE "open"]
        /\ up' = Sends(up, Chunks(t.offset, n) \o IF t.over THEN <<Plain("end")>> ELSE <<>>)

\* flushHttpResponse, flushWebSocketResponse: what the credit allows is sent, and
\* the end behind the last chunk.  A send that fails cancels the stream.
Flush(t) ==
    LET n == Least(t.queue, t.credit)
        last == t.over /\ n = t.queue
    IN  /\ tunnel' = [t EXCEPT !.queue = t.queue - n, !.credit = t.credit - n,
                               !.offset = t.offset + n,
                               !.st = IF last \/ (n > 0 /\ ~linked) THEN "gone" ELSE "open"]
        /\ up' = Sends(up, Chunks(t.offset, n) \o IF last THEN <<Plain("end")>> ELSE <<>>)

\* grantResponseCredit.
TunnelFlow(m) ==
    Flush([tunnel EXCEPT !.ack = m.at, !.credit = Least(Window, tunnel.credit + m.n)])

\* handle, for the next message of a stream the tunnel knows.
Handles(m) ==
    IF ~TunnelAccepts(m) THEN FailTunnel
    ELSE \/ /\ m.type = "chunk"
            /\ tunnel' = [tunnel EXCEPT !.taken = tunnel.taken + 1]
            /\ UNCHANGED up
         \/ m.type = "end" /\ tunnel' = [tunnel EXCEPT !.asked = TRUE] /\ UNCHANGED up
         \/ m.type = "flow" /\ TunnelFlow(m)
         \/ m.type = "cancel" /\ tunnel' = [tunnel EXCEPT !.st = "gone"] /\ UNCHANGED up
         \/ m.type = "close" /\ tunnel' = [tunnel EXCEPT !.closing = TRUE] /\ UNCHANGED up

\* handle: a stream is opened, or refused for a header of its request; a message
\* for a stream that is gone is answered with an error, unless it cancels it.
TunnelReceives ==
    /\ down # <<>>
    /\ down' = Tail(down)
    /\ LET m == Head(down) IN
       \/ /\ tunnel.st = "none"
          /\ \/ /\ tunnel' = [tunnel EXCEPT !.st = "open"]
                /\ up' = IF kind = "http" THEN Sends(up, <<Plain("accepted")>>) ELSE up
             \/ FailTunnel
       \/ tunnel.st = "open" /\ Handles(m)
       \/ /\ tunnel.st = "gone"
          /\ up' = IF m.type = "cancel" THEN up ELSE Sends(up, <<Plain("error")>>)
          /\ UNCHANGED tunnel
    /\ UNCHANGED <<kind, body, server, linked>>

\* A write to the local server was flushed.
Flushed ==
    /\ tunnel.st = "open" /\ tunnel.flushed < tunnel.taken
    /\ tunnel' = [tunnel EXCEPT !.flushed = tunnel.flushed + 1]
    /\ up' = Sends(up, <<Flow(tunnel.flushed + 1, 1)>>)
    /\ UNCHANGED <<kind, body, server, down, linked>>

\* The local server answers with its header, or accepts the WebSocket.
LocalStarts ==
    /\ tunnel.st = "open" /\ ~tunnel.started
    /\ tunnel' = [tunnel EXCEPT !.started = TRUE]
    /\ up' = Sends(up, <<Plain(IF kind = "http" THEN "start" ELSE "accepted")>>)
    /\ UNCHANGED <<kind, body, server, down, linked>>

\* The local server sends k chunks while its socket is not paused.
LocalData(k) ==
    /\ tunnel.st = "open" /\ tunnel.started /\ ~tunnel.over
    /\ tunnel.queue = 0
    /\ tunnel.offset + k <= MaxResponse
    /\ Flush([tunnel EXCEPT !.queue = k])
    /\ UNCHANGED <<kind, body, server, down, linked>>

\* The response of the local server is over, before or after it was paused.
LocalEnds ==
    /\ kind = "http"
    /\ tunnel.st = "open" /\ tunnel.started /\ ~tunnel.over
    /\ Flush([tunnel EXCEPT !.over = TRUE])
    /\ UNCHANGED <<kind, body, server, down, linked>>

\* The local WebSocket closes.  Frames that wait for credit are lost.
LocalCloses ==
    /\ kind = "websocket" /\ tunnel.st = "open"
    /\ tunnel.started
    /\ tunnel' = [tunnel EXCEPT !.st = "gone"]
    /\ up' = IF tunnel.closing THEN up ELSE Sends(up, <<Plain("close")>>)
    /\ UNCHANGED <<kind, body, server, down, linked>>

\* The local connection fails, or a timer of the tunnel fires.
LocalFails ==
    /\ tunnel.st = "open"
    /\ FailTunnel
    /\ UNCHANGED <<kind, body, server, down, linked>>
-----------------------------------------------------------------------------
(* The socket *)

\* The socket breaks: each side has received a part of what was sent to it.
Break ==
    /\ linked
    /\ linked' = FALSE
    /\ \E i \in 0..Len(up), j \in 0..Len(down) :
          up' = SubSeq(up, 1, i) /\ down' = SubSeq(down, 1, j)
    /\ UNCHANGED <<kind, body, server, tunnel>>

\* detachConnector: failAllForConnector.
ServerDetaches ==
    /\ ~linked /\ server.st = "open"
    /\ server' = [server EXCEPT !.st = "failed"]
    /\ UNCHANGED <<kind, body, tunnel, up, down, linked>>

\* close of the tunnel.
TunnelCloses ==
    /\ ~linked /\ tunnel.st # "gone"
    /\ tunnel' = [tunnel EXCEPT !.st = "gone"]
    /\ UNCHANGED <<kind, body, server, up, down, linked>>
-----------------------------------------------------------------------------
StreamNext ==
    \/ ServerReceives \/ Drain \/ SendChunk \/ SendEnd \/ BrowserCloses \/ ServerGivesUp
    \/ TunnelReceives \/ Flushed \/ LocalStarts \/ LocalEnds \/ LocalCloses \/ LocalFails
    \/ \E k \in 1..MaxResponse : LocalData(k)
    \/ Break \/ ServerDetaches \/ TunnelCloses

StreamSpec == StreamInit /\ [][StreamNext]_streamVars

\* Event loops run, the browser drains what it does not give up, writes are flushed,
\* and a local server answers and comes to the end of its answer.  No timer has to
\* fire for that.
StreamFairness ==
    /\ WF_streamVars(ServerReceives) /\ WF_streamVars(TunnelReceives)
    /\ WF_streamVars(Drain) /\ WF_streamVars(SendChunk) /\ WF_streamVars(SendEnd)
    /\ WF_streamVars(Flushed) /\ WF_streamVars(LocalStarts) /\ WF_streamVars(LocalEnds)
    /\ WF_streamVars(tunnel.closing /\ LocalCloses)
    /\ WF_streamVars(ServerDetaches) /\ WF_streamVars(TunnelCloses)

StreamFairSpec == StreamSpec /\ StreamFairness
-----------------------------------------------------------------------------
(* Properties *)

\* A response that the browser is shown as complete is the whole answer of the local
\* server, whatever waited for credit, and the browser never has more than that.
CompleteIsWhole ==
    kind = "http" =>
        /\ server.got <= tunnel.offset
        /\ server.st = "done" => tunnel.over /\ tunnel.queue = 0 /\ server.got = tunnel.offset

\* Without any timer, a request is answered or fails, however small the window, and
\* the tunnel forgets every stream that the server has forgotten.
BothSidesEnd ==
    /\ kind = "http" /\ server.st = "open" ~> server.st # "open"
    /\ server.st # "open" ~> tunnel.st = "gone"
=============================================================================

--------------------------- MODULE MCSessionStream ---------------------------
(* Instances of SessionStream and ConversationItems for TLC. *)
EXTENDS SessionStream, ConversationItems
-----------------------------------------------------------------------------
Texts == UNION {[1..n -> 1..4] : n \in 0..3}
Bytes == {<<>>, <<1>>, <<2, 1, 1>>, <<3>>, <<1, 1, 1, 1>>}
Files == [there : BOOLEAN, bytes : Bytes]
Encodings == [claim : {Absent, "png", "jpeg"}, strict : BOOLEAN, bytes : Bytes]

Parts == {[type |-> "text", text |-> t] : t \in {<<>>, <<1>>, <<4, 1>>}}
         \cup {[type |-> "localImage", there |-> f.there, bytes |-> f.bytes] : f \in Files}
         \cup {[type |-> "image", claim |-> e.claim, strict |-> e.strict, bytes |-> e.bytes] : e \in Encodings}

Results == {[form |-> "other"]}
           \cup {[form |-> form, claim |-> e.claim, strict |-> e.strict, bytes |-> e.bytes] :
                    form \in {"url", "bare"}, e \in Encodings}
           \cup {[form |-> "tool", content |-> <<e, [e EXCEPT !.strict = TRUE]>>] : e \in Encodings}

States == {"running", "completed", "failed", "declined", "none"}

Messages == [type : {"agentMessage"}, id : {"m"}, phase : {"commentary", "none"}, text : Texts]
            \cup [type : {"userMessage"}, id : {"m"}, parts : UNION {[1..n -> Parts] : n \in 0..2}]
Generations == [type : {"imageGeneration"}, id : {"g"}, status : States, saved : Files \cup {Absent}, result : Results]
Tools == [type : {"commandExecution", "webSearch", "reasoning"}, id : {"a"}, status : States]
         \cup [type : {"subAgentActivity"}, id : {"a"}, status : States, event : {"started", "interrupted"}]
Items == Messages \cup Generations \cup Tools

\* As it was announced: nothing of a text yet, and no outcome.
AtStart(item) ==
    CASE item.type = "agentMessage" -> [item EXCEPT !.text = <<>>]
      [] item.type = "userMessage" -> item
      [] OTHER -> [item EXCEPT !.status = "running"]
-----------------------------------------------------------------------------
\* Text is cut between points, into pieces that fit, and none of it is lost.
ASSUME ChunksFit ==
    \A t \in Texts :
        /\ FlattenSeq(ChunkText(t)) = t
        /\ \A c \in ToSet(ChunkText(t)) : c # <<>> /\ BytesOf(c) <= MaxDelta

\* Whatever a thread has, the frames of an entry are again that entry for who
\* applies them: the connector knows what its view shows without being told.
ASSUME FramesRebuild ==
    \A item \in Items : \A e \in ToSet(ItemEntries(item, "t")) : Replay(<<>>, EntryFrames(e)) = <<e>>

\* What was followed live is what a later read finds, so that no correction is
\* sent.  Not so, and the whole history is sent again, for a picture without a
\* text, which was announced as a message, and for a generated picture, which
\* was announced as an activity and comes before it in a history.
ASSUME LiveIsHistory ==
    \A item \in Items :
        LET live == Replay(<<>>, StartedFrames(AtStart(item), "t") \o CompletedFrames(item, "t"))
            images == ItemImages(item, "t") IN
        live = ItemEntries(item, "t") <=>
            images = <<>> \/ (item.type = "userMessage" /\ ItemMessage(item).text # <<>>)

\* A read during an activity that has no status of its own ends it early.
ASSUME StatuslessLooksDone ==
    \A item \in Tools : item.status = "none" /\ ActivityKind(item.type) # Absent =>
        ItemActivity(item, "t", "started") # ItemActivity(item, "t", "history")
        \/ (item.type = "subAgentActivity" /\ item.event = "interrupted")
-----------------------------------------------------------------------------
\* Two pictures that follow one another under one id.
Picture(bytes) == ImageSnapshot("m", <<"input", 1>>, "t", "user", ReadLocalImage([there |-> TRUE, bytes |-> bytes]))
Pictures == {Picture(<<2, 1, 1>>), Picture(<<2, 4, 4>>)}
PictureFrames == UNION {ToSet(ImageFrames(p)) : p \in Pictures} \cup {[op |-> "history.start"]}

Viewed(frames) == FoldLeft(ViewImage, NoImage, frames)

\* A picture is shown only if it is whole, whatever frames are lost, repeated
\* and mixed up on the way, and it is shown when its own arrive in their order.
ASSUME ShownIsWhole ==
    /\ \A n \in 0..5 : \A frames \in [1..n -> PictureFrames] :
          Viewed(frames).shown = "ready" => Viewed(frames).url \in {p.bytes : p \in Pictures}
    /\ \A p, q \in Pictures : Viewed(ImageFrames(p) \o ImageFrames(q)).url = q.bytes
=============================================================================

--------------------------- MODULE ConversationItems ---------------------------
(***************************************************************************)
(* How the items of a thread become entries, how an entry is sent in       *)
(* frames, and how frames become entries again, on both ends.              *)
(*   src/src/codex/conversation.ts          items, entries, frames          *)
(*   src/src/codex/image-media.ts           pictures                        *)
(*   src/apps/web/src/image-assembly.ts     pictures in the view            *)
(* SessionStream has the protocol and treats an entry as one value.  A text *)
(* is a sequence of points, a point being the bytes it takes in UTF-8; the  *)
(* first byte of a picture tells its type; a digest is the bytes.           *)
(***************************************************************************)
EXTENDS Naturals, Sequences, SequencesExt

CONSTANTS MaxDelta,     \* bytes of text in a frame: MAX_DELTA_BYTES
          ChunkBytes,   \* bytes of a picture in a frame: IMAGE_CHUNK_BYTES
          MaxImage,     \* bytes of a picture: MAX_IMAGE_BYTES
          Absent

ASSUME ItemsAssumption ==
    /\ MaxDelta \in Nat /\ MaxDelta >= 4
    /\ ChunkBytes \in Nat \ {0} /\ MaxImage \in Nat
    /\ Absent \notin {"png", "jpeg", "image_too_large", "image_invalid", "image_incomplete",
                     "image_hash_mismatch", "image_unavailable", "invalid_image",
                     "unsupported_image_type"}

Point == 1..4

BytesOf(text) ==
    LET sum[i \in 0..Len(text)] == IF i = 0 THEN 0 ELSE sum[i - 1] + text[i]
    IN  sum[Len(text)]
-----------------------------------------------------------------------------
\* Pictures. What is read is a picture or an error.

Sniff(bytes) == CASE bytes[1] = 1 -> "png" [] bytes[1] = 2 -> "jpeg" [] OTHER -> Absent

Refused(code) == [error |-> code]

ValidateImage(bytes, claim) ==
    CASE bytes = <<>> -> Refused("invalid_image")
      [] Len(bytes) > MaxImage -> Refused("image_too_large")
      [] OTHER -> IF Sniff(bytes) # Absent /\ claim \in {Absent, Sniff(bytes)}
                  THEN [error |-> Absent, mime |-> Sniff(bytes), bytes |-> bytes]
                  ELSE Refused("invalid_image")

ReadLocalImage(file) ==
    IF file.there THEN ValidateImage(file.bytes, Absent) ELSE Refused("image_unavailable")

\* Only base64 as an encoder writes it is decoded.
DecodeImage(encoded) ==
    IF encoded.strict THEN ValidateImage(encoded.bytes, encoded.claim) ELSE Refused("invalid_image")

\* An address, or a picture of a tool, has to say which of the types it has.
DecodeClaimed(encoded) ==
    IF encoded.claim = Absent THEN Refused("unsupported_image_type") ELSE DecodeImage(encoded)

SafeImageErrorCode(code) ==
    CASE code \in {"hash_mismatch", "image_hash_mismatch"} -> "image_hash_mismatch"
      [] code = "image_too_large" -> "image_too_large"
      [] code \in {"invalid_image", "image_invalid", "unsupported_image_type"} -> "image_invalid"
      [] code \in {"invalid_image_sequence", "image_incomplete"} -> "image_incomplete"
      [] OTHER -> "image_unavailable"

ImageSnapshot(item, place, turn, role, read) ==
    LET image == [kind |-> "image", id |-> <<item, place>>, turn |-> turn, role |-> role,
                  mime |-> Absent, length |-> 0, sha |-> <<>>, bytes |-> <<>>,
                  complete |-> FALSE, next |-> 0, error |-> Absent] IN
    IF read.error # Absent THEN [image EXCEPT !.error = SafeImageErrorCode(read.error)]
    ELSE [image EXCEPT !.mime = read.mime, !.length = Len(read.bytes), !.sha = read.bytes, !.bytes = read.bytes,
                       !.complete = TRUE, !.next = (Len(read.bytes) + ChunkBytes - 1) \div ChunkBytes]
-----------------------------------------------------------------------------
\* What a thread has: messages, pictures and activities.

ItemMessage(item) ==
    CASE item.type = "agentMessage" ->
            [id |-> item.id, role |-> "assistant", text |-> item.text,
             phase |-> IF item.phase \in {"commentary", "final_answer"} THEN item.phase ELSE Absent]
      [] item.type = "userMessage" ->
            [id |-> item.id, role |-> "user", phase |-> Absent,
             text |-> FlattenSeq([i \in DOMAIN item.parts |->
                                     IF item.parts[i].type = "text" THEN item.parts[i].text ELSE <<>>])]
      [] OTHER -> Absent

\* The result of a generation is an address, bare base64, or a record of a tool
\* with pictures among its content; any other text has no picture.
GeneratedResult(result) ==
    CASE result.form = "url" -> <<DecodeClaimed(result)>>
      [] result.form = "bare" ->
            SelectSeq(<<DecodeImage([result EXCEPT !.claim = Absent])>>, LAMBDA read : read.error = Absent)
      [] result.form = "tool" -> [i \in DOMAIN result.content |-> DecodeClaimed(result.content[i])]
      [] OTHER -> <<>>

\* The file comes first; its failure is shown only if the result has nothing.
GeneratedImages(item) ==
    LET result == GeneratedResult(item.result)
        file   == ReadLocalImage(item.saved)
    IN  CASE item.saved = Absent -> result
          [] item.saved # Absent /\ file.error # Absent /\ result # <<>> -> result
          [] OTHER -> <<file>>

PartImage(part) == IF part.type = "localImage" THEN ReadLocalImage(part) ELSE DecodeClaimed(part)

ItemImages(item, turn) ==
    CASE item.type = "userMessage" ->
            FlattenSeq([i \in DOMAIN item.parts |->
                IF item.parts[i].type = "text" THEN <<>>
                ELSE <<ImageSnapshot(item.id, <<"input", i>>, turn, "user", PartImage(item.parts[i]))>>])
      [] item.type = "imageGeneration" ->
            [i \in DOMAIN GeneratedImages(item) |->
                ImageSnapshot(item.id, <<"generation", i>>, turn, "assistant", GeneratedImages(item)[i])]
      [] OTHER -> <<>>

ActivityKind(type) ==
    CASE type = "commandExecution" -> "command"
      [] type = "fileChange" -> "file_change"
      [] type \in {"mcpToolCall", "dynamicToolCall"} -> "tool"
      [] type \in {"collabAgentToolCall", "subAgentActivity"} -> "collaboration"
      [] type = "webSearch" -> "web_search"
      [] type \in {"imageView", "imageGeneration"} -> "image"
      [] type = "sleep" -> "wait"
      [] type \in {"enteredReviewMode", "exitedReviewMode"} -> "review"
      [] type = "contextCompaction" -> "context_compaction"
      [] OTHER -> Absent

ActivityStatus(status) ==
    CASE status \in {"inProgress", "in_progress", "running"} -> "in_progress"
      [] status \in {"completed", "success", "succeeded"} -> "completed"
      [] status \in {"failed", "error"} -> "failed"
      [] status \in {"declined", "cancelled", "interrupted"} -> "cancelled"
      [] OTHER -> Absent

\* What says nothing of its status goes by where it was read: a history calls
\* it completed even when it is not.
ItemActivity(item, turn, lifecycle) ==
    LET fallback == IF lifecycle = "started" THEN "in_progress" ELSE "completed"
        told     == ActivityStatus(item.status)
    IN  IF ActivityKind(item.type) = Absent THEN <<>>
        ELSE <<[kind |-> "activity", id |-> item.id, turn |-> turn, activity |-> ActivityKind(item.type),
                status |-> CASE item.type = "subAgentActivity" /\ item.event = "interrupted" -> "cancelled"
                             [] OTHER -> IF told = Absent THEN fallback ELSE told]>>

TurnStatus(status) ==
    CASE status \in {"completed", "failed", "interrupted"} -> status
      [] status \in {"inProgress", "in_progress", "running"} -> "in_progress"
      [] OTHER -> Absent

HasMessage(item, images) == ItemMessage(item) # Absent /\ (ItemMessage(item).text # <<>> \/ images = <<>>)

MessageOf(item, turn, complete) ==
    LET message == ItemMessage(item) IN
    [kind |-> "message", id |-> message.id, turn |-> turn, role |-> message.role,
     phase |-> message.phase, text |-> message.text, complete |-> complete]

ItemEntries(item, turn) ==
    LET images == ItemImages(item, turn) IN
    (IF HasMessage(item, images) THEN <<MessageOf(item, turn, TRUE)>> ELSE <<>>)
        \o images \o ItemActivity(item, turn, "history")

\* conversationSnapshot: the entries of a thread that was read.
SnapshotEntries(turns) ==
    FlattenSeq([i \in DOMAIN turns |->
        FlattenSeq([j \in DOMAIN turns[i].items |-> ItemEntries(turns[i].items[j], turns[i].id)])
        \o (IF TurnStatus(turns[i].status) = Absent THEN <<>>
            ELSE <<[kind |-> "turn", id |-> turns[i].id, status |-> TurnStatus(turns[i].status)]>>)])
-----------------------------------------------------------------------------
\* Frames.

PutPoint(cut, point) ==
    IF cut.bytes + point > MaxDelta /\ cut.chunk # <<>>
    THEN [done |-> Append(cut.done, cut.chunk), chunk |-> <<point>>, bytes |-> point]
    ELSE [done |-> cut.done, chunk |-> Append(cut.chunk, point), bytes |-> cut.bytes + point]

Cut(text) ==
    LET after[i \in 0..Len(text)] ==
            IF i = 0 THEN [done |-> <<>>, chunk |-> <<>>, bytes |-> 0] ELSE PutPoint(after[i - 1], text[i])
    IN  after[Len(text)]

ChunkText(text) ==
    IF Cut(text).chunk = <<>> THEN Cut(text).done ELSE Append(Cut(text).done, Cut(text).chunk)

TextFrames(id, text) ==
    [i \in DOMAIN ChunkText(text) |-> [op |-> "message.delta", id |-> id, delta |-> ChunkText(text)[i]]]

StartFrame(message) ==
    [op |-> "message.start", id |-> message.id, turn |-> message.turn, role |-> message.role,
     phase |-> message.phase]

OnMessage(op, id) == [op |-> op, id |-> id]

ImageErrorFrame(image, code) ==
    [op |-> "image.error", id |-> image.id, turn |-> image.turn, role |-> image.role, code |-> code]

ImageChunks(bytes) ==
    [i \in 1..((Len(bytes) + ChunkBytes - 1) \div ChunkBytes) |->
        SubSeq(bytes, (i - 1) * ChunkBytes + 1,
               IF i * ChunkBytes < Len(bytes) THEN i * ChunkBytes ELSE Len(bytes))]

ImageFrames(image) ==
    LET chunks == ImageChunks(image.bytes) IN
    CASE image.error # Absent -> <<ImageErrorFrame(image, image.error)>>
      [] image.error = Absent /\ (image.mime = Absent \/ image.length < 1) -> <<ImageErrorFrame(image, "image_invalid")>>
      [] OTHER ->
            <<[op |-> "image.start", id |-> image.id, turn |-> image.turn, role |-> image.role,
               mime |-> image.mime, length |-> image.length]>>
            \o [i \in DOMAIN chunks |->
                   [op |-> "image.chunk", id |-> image.id, sequence |-> i - 1, data |-> chunks[i]]]
            \o <<[op |-> "image.complete", id |-> image.id, sha |-> image.sha]>>

MessageFrames(entry) ==
    <<StartFrame(entry), OnMessage("message.reset", entry.id)>> \o TextFrames(entry.id, entry.text)
        \o (IF entry.complete THEN <<OnMessage("message.complete", entry.id)>> ELSE <<>>)

EntryFrames(entry) ==
    CASE entry.kind = "message" -> MessageFrames(entry)
      [] entry.kind = "image" -> ImageFrames(entry)
      [] entry.kind = "activity" -> <<[op |-> "activity.upsert", entry |-> entry]>>
      [] OTHER -> <<[op |-> "turn.status", entry |-> entry]>>

\* itemFrames: what a notification about an item is sent as.  A message that
\* starts with no text starts, pictures or not.
StartedFrames(item, turn) ==
    LET message == MessageOf(item, turn, FALSE) IN
    (CASE ItemMessage(item) = Absent -> <<>>
       [] ItemMessage(item) # Absent /\ message.text = <<>> -> <<StartFrame(message)>>
       [] OTHER -> MessageFrames(message))
    \o FlattenSeq([i \in DOMAIN ItemActivity(item, turn, "started") |->
                       EntryFrames(ItemActivity(item, turn, "started")[i])])

CompletedFrames(item, turn) ==
    LET images == ItemImages(item, turn)
        entries == (IF HasMessage(item, images) THEN <<MessageOf(item, turn, TRUE)>> ELSE <<>>)
                   \o images \o ItemActivity(item, turn, "completed")
    IN  FlattenSeq([i \in DOMAIN entries |-> EntryFrames(entries[i])])
-----------------------------------------------------------------------------
\* applyConversationFrames: what the connector takes to be in the view.

Places(entries, kind, id) == {i \in DOMAIN entries : entries[i].kind = kind /\ entries[i].id = id}

\* The entry of the kind and the id is replaced, or the entry is put at the end.
Upsert(entries, entry) ==
    LET places == Places(entries, entry.kind, entry.id) IN
    IF places = {} THEN Append(entries, entry)
    ELSE [entries EXCEPT ![CHOOSE i \in places : TRUE] = entry]

MessageFrame(message, frame) ==
    CASE frame.op = "message.start" ->
            [message EXCEPT !.turn = frame.turn, !.role = frame.role, !.complete = FALSE,
                            !.phase = IF frame.phase = Absent THEN @ ELSE frame.phase]
      [] frame.op = "message.reset" -> [message EXCEPT !.text = <<>>, !.complete = FALSE]
      [] frame.op = "message.delta" -> [message EXCEPT !.text = @ \o frame.delta, !.complete = FALSE]
      [] OTHER -> [message EXCEPT !.complete = TRUE]

NewMessage(frame) ==
    [kind |-> "message", id |-> frame.id, turn |-> frame.turn, role |-> frame.role,
     phase |-> frame.phase, text |-> <<>>, complete |-> FALSE]

NewImage(frame) ==
    [kind |-> "image", id |-> frame.id, turn |-> frame.turn, role |-> frame.role,
     mime |-> Absent, length |-> 0, sha |-> <<>>, bytes |-> <<>>, complete |-> FALSE, next |-> 0,
     error |-> Absent]

Broken(image, code) == [image EXCEPT !.bytes = <<>>, !.error = SafeImageErrorCode(code)]

PutChunk(image, frame) ==
    CASE image.mime = Absent \/ image.complete \/ image.error # Absent -> image
      [] OTHER ->
            CASE frame.sequence # image.next -> Broken(image, "invalid_image_sequence")
              [] Len(frame.data) \notin 1..ChunkBytes -> Broken(image, "invalid_image")
              [] Len(image.bytes) + Len(frame.data) > image.length -> Broken(image, "invalid_image")
              [] OTHER -> [image EXCEPT !.bytes = @ \o frame.data, !.next = @ + 1]

Finished(image, frame) ==
    LET read == ValidateImage(image.bytes, image.mime) IN
    CASE image.mime = Absent \/ image.error # Absent -> image
      [] OTHER ->
            CASE Len(image.bytes) # image.length -> Broken(image, "invalid_image")
              [] read.error # Absent -> Broken(image, read.error)
              [] OTHER -> IF frame.sha = image.bytes
                          THEN [image EXCEPT !.sha = image.bytes, !.complete = TRUE]
                          ELSE Broken(image, "hash_mismatch")

ImageFrame(image, frame) ==
    CASE frame.op = "image.chunk" -> PutChunk(image, frame)
      [] frame.op = "image.complete" -> Finished(image, frame)
      [] OTHER -> Broken(image, frame.code)

ApplyFrame(entries, frame) ==
    LET kind   == IF frame.op \in {"message.start", "message.reset", "message.delta", "message.complete"}
                  THEN "message" ELSE "image"
        places == Places(entries, kind, frame.id)
        at     == CHOOSE i \in places : TRUE
    IN  CASE frame.op \in {"activity.upsert", "turn.status"} -> Upsert(entries, frame.entry)
          [] frame.op = "image.start" ->
                Upsert(entries, [NewImage(frame) EXCEPT !.mime = frame.mime, !.length = frame.length])
          [] OTHER ->
                IF places # {}
                THEN [entries EXCEPT ![at] = IF kind = "message" THEN MessageFrame(@, frame) ELSE ImageFrame(@, frame)]
                ELSE CASE frame.op = "message.start" -> Append(entries, NewMessage(frame))
                       [] frame.op = "image.error" -> Append(entries, Broken(NewImage(frame), frame.code))
                       [] OTHER -> entries

Replay(entries, frames) ==
    LET after[i \in 0..Len(frames)] == IF i = 0 THEN entries ELSE ApplyFrame(after[i - 1], frames[i])
    IN  after[Len(frames)]
-----------------------------------------------------------------------------
\* The view of one picture: what is shown, and what is put together for it.
\* A chunk that comes again is left out, one that differs or comes early fails.

NoImage == [shown |-> "none", pending |-> Absent, url |-> Absent]

Failed(view) == [shown |-> IF view.shown = "none" THEN "none" ELSE "failed", pending |-> Absent, url |-> Absent]

Begin(view, frame) ==
    IF frame.length \in 1..MaxImage /\ frame.mime \in {"png", "jpeg"}
    THEN [shown |-> "loading", url |-> Absent, pending |-> [start |-> frame, chunks |-> <<>>]]
    ELSE [shown |-> "failed", url |-> Absent, pending |-> view.pending]

AppendChunk(view, frame) ==
    LET chunks == view.pending.chunks IN
    CASE view.pending = Absent -> Failed(view)
      [] view.pending # Absent /\ frame.sequence < Len(chunks) ->
            IF chunks[frame.sequence + 1] = frame.data THEN view ELSE Failed(view)
      [] OTHER ->
            IF /\ frame.sequence = Len(chunks)
               /\ Len(frame.data) \in 1..ChunkBytes
               /\ Len(FlattenSeq(chunks)) + Len(frame.data) <= view.pending.start.length
            THEN [view EXCEPT !.pending.chunks = Append(@, frame.data)] ELSE Failed(view)

Complete(view, frame) ==
    LET bytes == FlattenSeq(view.pending.chunks) IN
    IF /\ view.pending # Absent
       /\ Len(bytes) = view.pending.start.length
       /\ Sniff(bytes) = view.pending.start.mime
       /\ bytes = frame.sha
    THEN [shown |-> "ready", url |-> bytes, pending |-> Absent]
    ELSE Failed(view)

ViewImage(view, frame) ==
    CASE frame.op = "image.start" -> Begin(view, frame)
      [] frame.op = "image.chunk" -> AppendChunk(view, frame)
      [] frame.op = "image.complete" -> Complete(view, frame)
      [] frame.op = "history.start" -> NoImage
      [] OTHER -> [shown |-> "failed", pending |-> Absent, url |-> Absent]

=============================================================================

------------------------ MODULE EventTransportProofs ------------------------
(***************************************************************************)
(* Proofs about EventTransport for any number of events, connections and   *)
(* breaks.  The argument: whatever a connection still has to handle is     *)
(* complete, in the sense that below each event lies no event that is      *)
(* neither in the inbox nor in front of it in the same connection.  Hence  *)
(* the inbox has no gap, the cursor in a welcome covers only accepted      *)
(* events, and an acknowledged event is an accepted one.  A rejected event *)
(* breaks completeness, which is why these theorems speak of the time      *)
(* before.  Behind them: what TokenUsage does with the snapshots that      *)
(* arrive, for every database, and the images of AttachmentUpload, of      *)
(* which nobody speaks before there is a row.                              *)
(***************************************************************************)
EXTENDS EventTransport, TokenUsage, AttachmentUpload, TLAPS

Batch == SUBSET (0..MaxEvents)

\* The batches start with the hello.
Greets(q) == q # <<>> /\ Hello \in q[1]

\* Below each event of q are only known events and events that q brings first.
Covered(q, known) ==
    \A i \in 1..Len(q) : \A s \in q[i] : \A r \in 1..s :
        r \in known \/ \E j \in 1..i : r \in q[j]

\* The batches q of connection e can be handled safely, when g are greeted and d
\* are being closed: those of a connection that is greeted or may still be.
Sound(e, q, g, d, known) ==
    /\ q \in Seq(Batch)
    /\ e \in g \/ (e \notin d /\ Greets(q)) => Covered(q, known)

AnswersTrue ==
    /\ acks \subseteq inbox
    /\ \A n \in welcomes : 1..n \subseteq inbox

IInv ==
    /\ TypeOK
    /\ \A e \in Connection : Sound(e, up[e], greeted, doomed, inbox)
    /\ AnswersTrue
    /\ AppliedInOrder
    /\ NothingLost
-----------------------------------------------------------------------------
\* Appending a batch keeps the batches complete, if what is below its events is
\* known or in the batch.
LEMMA AppendCovered ==
    ASSUME NEW q \in Seq(Batch), NEW known, NEW p \in Batch, Covered(q, known),
           \A s \in p : \A r \in 1..s : r \in known \cup p
    PROVE  Append(q, p) \in Seq(Batch) /\ Covered(Append(q, p), known)
<1> DEFINE f == Append(q, p)
<1>1. f \in Seq(Batch) /\ Len(f) = Len(q) + 1 /\ Len(q) \in Nat
    OBVIOUS
<1>2. (\A i \in 1..Len(q) : f[i] = q[i]) /\ f[Len(q) + 1] = p
    OBVIOUS
<1> HIDE DEF f
<1>3. SUFFICES ASSUME NEW i \in 1..Len(f), NEW s \in f[i], NEW r \in 1..s
               PROVE  r \in known \/ \E j \in 1..i : r \in f[j]
    BY <1>1 DEF Covered, f
<1>4. CASE i \in 1..Len(q)
    <2>1. r \in known \/ \E j \in 1..i : r \in q[j]
        BY <1>2, <1>3, <1>4 DEF Covered
    <2> QED
        BY <1>1, <1>2, <1>4, <2>1
<1>5. CASE i = Len(q) + 1
    <2>1. r \in known \cup p
        BY <1>2, <1>3, <1>5
    <2>2. i \in 1..i /\ f[i] = p
        BY <1>1, <1>2, <1>5
    <2> QED
        BY <2>1, <2>2
<1> QED
    BY <1>1, <1>4, <1>5

\* What is pending can stand after anything that is complete.
LEMMA FlushCovered ==
    ASSUME NEW q \in Seq(Batch), NEW known, NEW n \in 0..MaxEvents, NEW a, a \subseteq known
    PROVE  /\ Pending(n, a) \in Batch /\ Hello \notin Pending(n, a)
           /\ Flush(q, Pending(n, a)) \in Seq(Batch)
           /\ Covered(q, known) => Covered(Flush(q, Pending(n, a)), known)
<1> USE BoundsAssumption
<1> DEFINE p == Pending(n, a)
<1>1. p \in Batch /\ Hello \notin p
    BY DEF Pending, Batch, Hello
<1>2. \A s \in p : \A r \in 1..s : r \in known \cup p
    BY DEF Pending
<1> HIDE DEF p
<1>3. Covered(q, known) => Covered(Append(q, p), known)
    BY <1>1, <1>2, AppendCovered
<1>4. Flush(q, p) \in Seq(Batch)
    BY <1>1 DEF Flush
<1> QED
    BY <1>1, <1>3, <1>4 DEF Flush, p

\* A flush of what is pending does not bring the hello to the front.
LEMMA FlushGreets ==
    ASSUME NEW q \in Seq(Batch), NEW p \in Batch, Hello \notin p, Greets(Flush(q, p))
    PROVE  Greets(q)
<1>1. CASE p = {}
    BY <1>1 DEF Flush
<1>2. CASE p # {}
    <2>1. Greets(Append(q, p)) /\ Len(q) \in Nat
        BY <1>2 DEF Flush
    <2>2. ASSUME q = <<>> PROVE FALSE
        BY <2>1, <2>2 DEF Greets
    <2>3. Append(q, p)[1] = q[1]
        BY <2>1, <2>2
    <2> QED
        BY <2>1, <2>2, <2>3 DEF Greets
<1> QED
    BY <1>1, <1>2

LEMMA FlushSound ==
    ASSUME NEW e, NEW q, NEW g, NEW d, NEW known, NEW n \in 0..MaxEvents, NEW a,
           Sound(e, q, g, d, known), a \subseteq known
    PROVE  Sound(e, Flush(q, Pending(n, a)), g, d, known)
<1>1. q \in Seq(Batch)
    BY DEF Sound
<1> QED
    BY <1>1, FlushCovered, FlushGreets DEF Sound

\* Handling the first message keeps the batches complete, if it is the hello or
\* becomes known.
LEMMA RestCovered ==
    ASSUME NEW q \in Seq(Batch), NEW known, NEW h, NEW m \in 0..MaxEvents,
           q # <<>>, m \in q[1], known \subseteq h
    PROVE  /\ Rest(q, m) \in Seq(Batch)
           /\ Covered(q, known) /\ (m \in h \/ m = Hello) => Covered(Rest(q, m), h)
<1> USE BoundsAssumption
<1> DEFINE f == Rest(q, m)
<1>1. Len(q) \in Nat \ {0} /\ \A i \in 1..Len(q) : q[i] \in Batch
    OBVIOUS
<1>3. Head(q) = q[1]
    BY <1>1
\* Where each batch of f comes from, and where each batch of q went.
<1>4. /\ f \in Seq(Batch)
      /\ \A i \in 1..Len(f) : \E k \in 1..Len(q) :
            /\ f[i] \subseteq q[k]
            /\ \A j \in 1..k : \A r \in q[j] : r = m \/ \E l \in 1..i : r \in f[l]
    <2>1. CASE q[1] = {m}
        <3>1. f = Tail(q)
            BY <1>3, <2>1 DEF Rest
        <3>2. f \in Seq(Batch) /\ Len(f) = Len(q) - 1 /\ \A i \in 1..Len(f) : f[i] = q[i + 1]
            BY <1>1, <3>1
        <3>3. ASSUME NEW i \in 1..Len(f)
              PROVE  \E k \in 1..Len(q) :
                        /\ f[i] \subseteq q[k]
                        /\ \A j \in 1..k : \A r \in q[j] : r = m \/ \E l \in 1..i : r \in f[l]
            <4>1. i + 1 \in 1..Len(q) /\ i + 1 # 1 /\ f[i] = q[i + 1]
                BY <1>1, <3>2
            <4>2. ASSUME NEW j \in 1..(i + 1), NEW r \in q[j]
                  PROVE  r = m \/ \E l \in 1..i : r \in f[l]
                <5>1. CASE j = 1
                    BY <2>1, <4>2, <5>1
                <5>2. CASE j # 1
                    <6>1. j - 1 \in 1..i /\ f[j - 1] = q[j]
                        BY <3>2, <3>3, <4>2, <5>2
                    <6> QED
                        BY <4>2, <6>1
                <5> QED
                    BY <5>1, <5>2
            <4> QED
                BY <4>1, <4>2
        <3> QED
            BY <3>2, <3>3
    <2>2. CASE q[1] # {m}
        <3>1. f = [q EXCEPT ![1] = q[1] \ {m}]
            BY <1>3, <2>2 DEF Rest
        <3>2. q[1] \ {m} \in Batch
            BY <1>1 DEF Batch
        <3>3. /\ f \in Seq(Batch) /\ Len(f) = Len(q)
              /\ f[1] = q[1] \ {m}
              /\ \A i \in 1..Len(q) : i # 1 => f[i] = q[i]
            BY <1>1, <3>1, <3>2
        <3>4. ASSUME NEW i \in 1..Len(f)
              PROVE  \E k \in 1..Len(q) :
                        /\ f[i] \subseteq q[k]
                        /\ \A j \in 1..k : \A r \in q[j] : r = m \/ \E l \in 1..i : r \in f[l]
            <4>1. i \in 1..Len(q) /\ f[i] \subseteq q[i]
                BY <3>3
            <4>2. ASSUME NEW j \in 1..i, NEW r \in q[j]
                  PROVE  r = m \/ \E l \in 1..i : r \in f[l]
                <5>1. r = m \/ r \in f[j]
                    BY <3>3, <4>1, <4>2
                <5> QED
                    BY <5>1
            <4> QED
                BY <2>2, <4>1, <4>2
        <3> QED
            BY <3>3, <3>4
    <2> QED
        BY <2>1, <2>2
<1> HIDE DEF f
<1>5. ASSUME Covered(q, known), m \in h \/ m = Hello PROVE Covered(f, h)
    <2>1. SUFFICES ASSUME NEW i \in 1..Len(f), NEW s \in f[i], NEW r \in 1..s
                   PROVE  r \in h \/ \E l \in 1..i : r \in f[l]
        BY DEF Covered
    <2>2. PICK k \in 1..Len(q) :
                /\ f[i] \subseteq q[k]
                /\ \A j \in 1..k : \A x \in q[j] : x = m \/ \E l \in 1..i : x \in f[l]
        BY <1>4
    <2>3. r \in known \/ \E j \in 1..k : r \in q[j]
        BY <1>5, <2>2 DEF Covered
    <2>4. r # Hello
        BY <1>1, <2>1, <2>2 DEF Hello, Batch
    <2>5. CASE r \in known
        BY <2>5
    <2>6. CASE \E j \in 1..k : r \in q[j]
        <3>1. r = m \/ \E l \in 1..i : r \in f[l]
            BY <2>2, <2>6
        <3>2. r = m => r \in h
            BY <1>5, <2>4
        <3> QED
            BY <3>1, <3>2
    <2> QED
        BY <2>3, <2>5, <2>6
<1> QED
    BY <1>4, <1>5 DEF f

\* What a broken connection leaves behind is a part of each of its first batches.
LEMMA ReceivedSound ==
    ASSUME NEW e, NEW q, NEW g, NEW d, NEW known, NEW n \in 0..Len(q), NEW s \in 1..(MaxEvents + 1),
           Sound(e, q, g, d, known)
    PROVE  /\ Sound(e, Received(q, n, s), g, d, known)
           /\ Greets(Received(q, n, s)) => Greets(q)
<1> USE BoundsAssumption
<1> DEFINE f == Received(q, n, s)
<1>1. q \in Seq(Batch) /\ Len(q) \in Nat /\ \A i \in 1..Len(q) : q[i] \in Batch
    BY DEF Sound
<1>2. /\ f \in Seq(Batch) /\ Len(f) = n
      /\ \A i \in 1..n : f[i] = IF i = n THEN {r \in q[i] : r < s} ELSE q[i]
    <2>1. \A i \in 1..n : (IF i = n THEN {r \in q[i] : r < s} ELSE q[i]) \in Batch
        BY <1>1 DEF Batch
    <2>2. f \in [1..n -> Batch]
        BY <2>1 DEF Received
    <2>3. n \in Nat
        BY <1>1
    <2>4. f \in Seq(Batch) /\ Len(f) = n
        BY <2>2, <2>3
    <2> QED
        BY <2>4 DEF Received
<1> HIDE DEF f
<1>3. ASSUME NEW i \in 1..n PROVE i \in 1..Len(q) /\ f[i] \subseteq q[i]
    BY <1>1, <1>2
<1>4. Greets(f) => Greets(q)
    <2>1. SUFFICES ASSUME f # <<>>, Hello \in f[1] PROVE Greets(q)
        BY DEF Greets
    <2>2. 1 \in 1..n
        BY <1>2, <2>1
    <2> QED
        BY <1>1, <1>3, <2>1, <2>2 DEF Greets
<1>5. ASSUME Covered(q, known) PROVE Covered(f, known)
    <2>1. SUFFICES ASSUME NEW i \in 1..n, NEW x \in f[i], NEW r \in 1..x
                   PROVE  r \in known \/ \E j \in 1..i : r \in f[j]
        BY <1>2 DEF Covered
    <2>2. r \in known \/ \E j \in 1..i : r \in q[j]
        BY <1>3, <1>5, <2>1 DEF Covered
    <2>3. ASSUME NEW j \in 1..i, r \in q[j] PROVE r \in f[j]
        <3>1. CASE j # n
            BY <1>2, <2>1, <2>3, <3>1
        <3>2. CASE j = n
            <4>1. i = n
                BY <2>1, <2>3, <3>2
            <4>2. x < s /\ x \in 0..MaxEvents /\ r \in 0..MaxEvents
                BY <1>1, <1>2, <1>3, <2>1, <2>3, <4>1 DEF Batch
            <4>3. r < s
                BY <2>1, <4>2
            <4> QED
                BY <1>2, <2>1, <2>3, <3>2, <4>3
        <3> QED
            BY <3>1, <3>2
    <2> QED
        BY <2>2, <2>3
<1> QED
    BY <1>2, <1>4, <1>5 DEF Sound, f

\* More known events keep a connection sound.
LEMMA MoreKnown ==
    ASSUME NEW e, NEW q, NEW g, NEW d, NEW known, NEW h, Sound(e, q, g, d, known), known \subseteq h
    PROVE  Sound(e, q, g, d, h)
BY DEF Sound, Covered
-----------------------------------------------------------------------------
\* The initial state satisfies the invariant.
LEMMA InitInv == Init => IInv
<1> SUFFICES ASSUME Init PROVE IInv
    OBVIOUS
<1> USE BoundsAssumption DEF Init
<1>1. TypeOK
    BY DEF TypeOK, Connection, Event
<1>2. ASSUME NEW e \in Connection PROVE Sound(e, up[e], greeted, doomed, inbox)
    <2>1. up[e] = <<>> /\ <<>> \in Seq(Batch) /\ 1..Len(<<>>) = {}
        OBVIOUS
    <2> QED
        BY <2>1 DEF Sound, Covered
<1> QED
    BY <1>1, <1>2 DEF IInv, AnswersTrue, AppliedInOrder, NothingLost

\* Replacing the batches of one connection by sound ones keeps all of them sound.
LEMMA ReplaceSound ==
    ASSUME IInv, NEW e \in Connection, NEW x, Sound(e, x, greeted, doomed, inbox)
    PROVE  LET new == [up EXCEPT ![e] = x] IN
           /\ new \in [Connection -> Seq(SUBSET (0..MaxEvents))]
           /\ \A c \in Connection : Sound(c, new[c], greeted, doomed, inbox)
<1> DEFINE new == [up EXCEPT ![e] = x]
<1>1. up \in [Connection -> Seq(Batch)] /\ x \in Seq(Batch)
    BY DEF IInv, TypeOK, Batch, Sound
<1>2. new \in [Connection -> Seq(Batch)]
    BY <1>1
<1>3. ASSUME NEW c \in Connection PROVE Sound(c, new[c], greeted, doomed, inbox)
    BY <1>1 DEF IInv
<1> QED
    BY <1>2, <1>3 DEF Batch

LEMMA EnqueueInv == ASSUME IInv, Enqueue PROVE IInv'
<1> USE BoundsAssumption
<1>1. enqueued + 1 \in 0..MaxEvents /\ acked \subseteq inbox /\ conn \in Connection
    BY DEF IInv, TypeOK, Enqueue, NothingLost
<1>2. Sound(conn, Flush(up[conn], Pending(enqueued + 1, acked)), greeted, doomed, inbox)
    BY <1>1, FlushSound DEF IInv
<1>3. /\ up' \in [Connection -> Seq(SUBSET (0..MaxEvents))]
      /\ \A d \in Connection : Sound(d, up'[d], greeted, doomed, inbox)
    BY <1>1, <1>2, ReplaceSound DEF IInv, TypeOK, Enqueue
<1> QED
    BY <1>1, <1>3 DEF IInv, TypeOK, AnswersTrue, AppliedInOrder, NothingLost, Enqueue, serverVars

\* All that is sent when the socket opens is complete, whatever the agents say.
LEMMA OpensCovered ==
    ASSUME NEW n \in 0..MaxEvents, NEW a, NEW known, a \subseteq known, NEW before,
           before \in {<<>>, <<Pending(n, a)>>}
    PROVE  LET q == Flush(Append(before, {Hello}), Pending(n, a)) IN
           q \in Seq(Batch) /\ Covered(q, known)
<1> USE BoundsAssumption
<1>1. <<>> \in Seq(Batch) /\ Covered(<<>>, known)
    BY DEF Covered
<1>2. before \in Seq(Batch) /\ Covered(before, known)
    <2>1. CASE before = <<>>
        BY <1>1, <2>1
    <2>2. CASE before = <<Pending(n, a)>>
        <3>0. Pending(n, a) \in Batch
            BY <1>1, FlushCovered
        <3>1. \A s \in Pending(n, a) : \A r \in 1..s : r \in known \cup Pending(n, a)
            BY DEF Pending
        <3>2. Append(<<>>, Pending(n, a)) = <<Pending(n, a)>>
            OBVIOUS
        <3> QED
            BY <1>1, <2>2, <3>0, <3>1, <3>2, AppendCovered
    <2> QED
        BY <2>1, <2>2
<1>3. {Hello} \in Batch /\ \A s \in {Hello} : 1..s = {}
    BY DEF Hello, Batch
<1>4. Append(before, {Hello}) \in Seq(Batch) /\ Covered(Append(before, {Hello}), known)
    BY <1>2, <1>3, AppendCovered
<1> QED
    BY <1>4, FlushCovered

LEMMA OpenInv == ASSUME IInv, Open PROVE IInv'
<1> USE BoundsAssumption
<1>1. /\ enqueued' \in 0..MaxEvents /\ acked \subseteq inbox
      /\ conn + 1 \in Connection /\ conn' = conn + 1 /\ online' = TRUE
    BY DEF IInv, TypeOK, Open, OpenQuietly, OpenAnnouncing, OpenWith, NothingLost
<1>2. PICK before : /\ before \in {<<>>, <<Pending(enqueued', acked)>>}
                    /\ OpenWith(before)
    BY DEF Open, OpenQuietly, OpenAnnouncing
<1> DEFINE q == Flush(Append(before, {Hello}), Pending(enqueued', acked))
<1>3. Sound(conn + 1, q, greeted, doomed, inbox)
    BY <1>1, <1>2, OpensCovered DEF Sound
<1>4. up' = [up EXCEPT ![conn + 1] = q]
    BY <1>2 DEF OpenWith
<1> HIDE DEF q
<1>5. /\ up' \in [Connection -> Seq(SUBSET (0..MaxEvents))]
      /\ \A d \in Connection : Sound(d, up'[d], greeted, doomed, inbox)
    BY <1>1, <1>3, <1>4, ReplaceSound
<1>6. early' \subseteq Connection
    BY <1>1 DEF IInv, TypeOK, Open, OpenQuietly, OpenAnnouncing
<1> QED
    BY <1>1, <1>2, <1>5, <1>6 DEF IInv, TypeOK, AnswersTrue, AppliedInOrder, NothingLost, OpenWith, serverVars

LEMMA CloseInv ==
    ASSUME IInv, NEW n \in 0..Len(up[conn]), NEW s \in 1..(MaxEvents + 1), Close(n, s),
           breaks' \in 0..MaxBreaks, announces' \in BOOLEAN
    PROVE  IInv'
<1>1. conn \in Connection
    BY DEF IInv, TypeOK
<1>2. Sound(conn, Received(up[conn], n, s), greeted, doomed, inbox)
    BY <1>1, ReceivedSound DEF IInv
<1>3. /\ up' \in [Connection -> Seq(SUBSET (0..MaxEvents))]
      /\ \A d \in Connection : Sound(d, up'[d], greeted, doomed, inbox)
    BY <1>1, <1>2, ReplaceSound DEF Close
<1> QED
    BY <1>3 DEF IInv, TypeOK, AnswersTrue, AppliedInOrder, NothingLost, Close, serverVars

\* Handling message m of e keeps all connections sound.
LEMMA HandlesSound ==
    ASSUME IInv, NEW e \in Connection, NEW m \in 0..MaxEvents, Handles(e, m),
           inbox \subseteq inbox', greeted' \subseteq greeted \cup {e}, doomed \subseteq doomed',
           e \in greeted' \/ e \notin doomed' => /\ e \in greeted \/ (m = Hello /\ e \notin doomed)
                                                 /\ m \in inbox' \/ m = Hello
    PROVE  /\ up' \in [Connection -> Seq(SUBSET (0..MaxEvents))]
           /\ \A c \in Connection : Sound(c, up'[c], greeted', doomed', inbox')
<1> DEFINE h == inbox'
           g == greeted'
           d == doomed'
<1> HIDE DEF h, g, d
<1>0. inbox \subseteq h /\ g \subseteq greeted \cup {e} /\ doomed \subseteq d
    BY DEF h, g, d
<1>1. /\ Head(up[e]) = up[e][1] /\ up \in [Connection -> Seq(Batch)]
      /\ up[e] # <<>> /\ m \in up[e][1]
    BY DEF IInv, TypeOK, Handles, Batch
<1>2. up' = [up EXCEPT ![e] = Rest(up[e], m)]
    BY DEF Handles
<1>3. /\ Rest(up[e], m) \in Seq(Batch)
      /\ Covered(up[e], inbox) /\ (m \in h \/ m = Hello) => Covered(Rest(up[e], m), h)
    BY <1>0, <1>1, RestCovered
<1>4. e \in greeted \/ (m = Hello /\ e \notin doomed) => Covered(up[e], inbox)
    BY <1>1 DEF IInv, Sound, Greets
<1>5. ASSUME NEW c \in Connection PROVE Sound(c, up'[c], g, d, h)
    <2>1. CASE c = e
        BY <1>1, <1>2, <1>3, <1>4, <2>1 DEF Sound, h, g, d
    <2>2. CASE c # e
        <3>1. Sound(c, up[c], greeted, doomed, h)
            BY <1>0, MoreKnown DEF IInv
        <3> QED
            BY <1>0, <1>1, <1>2, <2>2, <3>1 DEF Sound
    <2> QED
        BY <2>1, <2>2
<1> QED
    BY <1>1, <1>2, <1>3, <1>5 DEF Batch, h, g, d

LEMMA HelloInv == ASSUME IInv, NEW e \in Connection, HandleHello(e) PROVE IInv'
<1> USE BoundsAssumption
<1>1. inbox' = inbox /\ acked' = acked /\ acks' = acks
    BY DEF HandleHello, serverVars, connectorVars
<1>2. /\ up' \in [Connection -> Seq(SUBSET (0..MaxEvents))]
      /\ \A d \in Connection : Sound(d, up'[d], greeted', doomed', inbox')
    <2>1. PICK m \in 0..MaxEvents : m = Hello
        BY DEF Hello
    <2>2. Handles(e, m)
        BY <2>1 DEF HandleHello
    <2>3. inbox \subseteq inbox'
        BY <1>1
    <2>4. greeted' \subseteq greeted \cup {e} /\ doomed \subseteq doomed'
        BY DEF HandleHello
    <2>5. e \in greeted' \/ e \notin doomed' => /\ e \in greeted \/ (m = Hello /\ e \notin doomed)
                                                /\ m \in inbox' \/ m = Hello
        BY <2>1 DEF HandleHello
    <2> QED
        BY <2>2, <2>3, <2>4, <2>5, HandlesSound
<1>4. AnswersTrue'
    <2>1. PICK n \in 0..MaxEvents :
              IsCursor(n) /\ welcomes' = IF Hears(e) THEN welcomes \cup {n} ELSE welcomes
        BY DEF HandleHello
    <2>2. 1..n \subseteq inbox
        <3>1. CASE n \in inbox
            BY <3>1 DEF IInv, AppliedInOrder
        <3>2. CASE n = 0
            BY <3>2
        <3> QED
            BY <2>1, <3>1, <3>2 DEF IsCursor
    <2> QED
        BY <1>1, <2>1, <2>2 DEF IInv, AnswersTrue
<1>5. TypeOK'
    BY <1>2 DEF IInv, TypeOK, HandleHello, serverVars, connectorVars
<1> QED
    BY <1>1, <1>2, <1>4, <1>5 DEF IInv, AppliedInOrder, NothingLost

LEMMA EventInv == ASSUME IInv, NEW e \in Connection, NEW s \in Event, HandleEvent(e, s) PROVE IInv'
<1> USE BoundsAssumption
<1>1. /\ inbox' = inbox \cup {s} /\ acked' = acked /\ welcomes' = welcomes
      /\ greeted' = greeted /\ doomed' = doomed
    BY DEF HandleEvent, connectorVars
<1>2. Handles(e, s) /\ s \in 0..MaxEvents /\ e \in greeted
    BY DEF HandleEvent, Event
<1>3. /\ up' \in [Connection -> Seq(SUBSET (0..MaxEvents))]
      /\ \A d \in Connection : Sound(d, up'[d], greeted', doomed', inbox')
    <2>1. /\ inbox \subseteq inbox' /\ greeted' \subseteq greeted \cup {e} /\ doomed \subseteq doomed'
          /\ e \in greeted' \/ e \notin doomed' => /\ e \in greeted \/ (s = Hello /\ e \notin doomed)
                                                   /\ s \in inbox' \/ s = Hello
        BY <1>1, <1>2
    <2> QED
        BY <1>2, <2>1, HandlesSound
<1>4. TypeOK'
    BY <1>3 DEF IInv, TypeOK, HandleEvent, connectorVars
<1>5. AnswersTrue'
    BY <1>1 DEF IInv, AnswersTrue, HandleEvent
<1>6. AppliedInOrder'
    <2>1. ASSUME NEW r \in 1..s PROVE r \in inbox'
        <3>1. Covered(up[e], inbox)
            BY <1>2 DEF IInv, Sound
        <3>2. up[e] \in Seq(SUBSET (0..MaxEvents)) /\ up[e] # <<>> /\ Head(up[e]) = up[e][1]
            BY <1>2 DEF IInv, TypeOK, Handles
        <3>3. 1 \in 1..Len(up[e]) /\ s \in up[e][1] /\ \A x \in up[e][1] : s <= x
            BY <1>2, <3>2 DEF Handles
        <3>4. r \in inbox \/ \E j \in 1..1 : r \in up[e][j]
            BY <3>1, <3>3 DEF Covered
        <3>5. r \in up[e][1] => r = s
            BY <3>3, <1>2, <2>1
        <3> QED
            BY <1>1, <3>4, <3>5
    <2> QED
        BY <1>1, <2>1 DEF IInv, AppliedInOrder
<1>7. NothingLost'
    BY <1>1 DEF IInv, NothingLost
<1> QED
    BY <1>1, <1>3, <1>4, <1>5, <1>6, <1>7 DEF IInv

LEMMA UngreetedInv == ASSUME IInv, NEW e \in Connection, NEW s \in Event, RefuseUngreeted(e, s) PROVE IInv'
<1> USE BoundsAssumption
<1>1. /\ Handles(e, s) /\ s \in 0..MaxEvents /\ e \notin greeted /\ doomed' = doomed \cup {e}
      /\ greeted' = greeted /\ inbox' = inbox
    BY DEF RefuseUngreeted, Event, serverVars
<1>2. /\ up' \in [Connection -> Seq(SUBSET (0..MaxEvents))]
      /\ \A d \in Connection : Sound(d, up'[d], greeted, doomed', inbox)
    <2>1. /\ inbox \subseteq inbox' /\ greeted' \subseteq greeted \cup {e} /\ doomed \subseteq doomed'
          /\ e \in greeted' \/ e \notin doomed' => /\ e \in greeted \/ (s = Hello /\ e \notin doomed)
                                                   /\ s \in inbox' \/ s = Hello
        BY <1>1
    <2>2. /\ up' \in [Connection -> Seq(SUBSET (0..MaxEvents))]
          /\ \A d \in Connection : Sound(d, up'[d], greeted', doomed', inbox')
        BY <1>1, <2>1, HandlesSound
    <2> QED
        BY <1>1, <2>2
<1> QED
    BY <1>1, <1>2 DEF IInv, TypeOK, AnswersTrue, AppliedInOrder, NothingLost, RefuseUngreeted, serverVars, connectorVars

LEMMA WelcomeInv == ASSUME IInv, NEW n \in 0..MaxEvents, WelcomeArrives(n) PROVE IInv'
<1> USE BoundsAssumption
<1>1. acked' \subseteq inbox /\ acked' \subseteq Event
    <2>1. 1..n \subseteq inbox
        BY DEF WelcomeArrives, IInv, AnswersTrue
    <2> QED
        BY <2>1 DEF WelcomeArrives, IInv, NothingLost, TypeOK
<1>2. conn \in Connection /\ enqueued \in 0..MaxEvents
    BY DEF IInv, TypeOK
<1>3. Sound(conn, Flush(up[conn], Pending(enqueued, acked')), greeted, doomed, inbox)
    BY <1>1, <1>2, FlushSound DEF IInv
<1>4. /\ up' \in [Connection -> Seq(SUBSET (0..MaxEvents))]
      /\ \A d \in Connection : Sound(d, up'[d], greeted, doomed, inbox)
    BY <1>2, <1>3, ReplaceSound DEF WelcomeArrives
<1> QED
    BY <1>1, <1>4 DEF IInv, TypeOK, AnswersTrue, AppliedInOrder, NothingLost, WelcomeArrives, serverVars

LEMMA AckInv == ASSUME IInv, NEW s \in Event, AckArrives(s) PROVE IInv'
BY BoundsAssumption
   DEF IInv, TypeOK, AnswersTrue, AppliedInOrder, NothingLost, AckArrives, serverVars, Sound, Covered

LEMMA RestoreInv == ASSUME IInv, RestoreSessions PROVE IInv'
BY DEF IInv, TypeOK, AnswersTrue, AppliedInOrder, NothingLost, RestoreSessions, linkVars, serverVars

LEMMA StutterInv == ASSUME IInv, UNCHANGED vars PROVE IInv'
BY DEF IInv, TypeOK, AnswersTrue, AppliedInOrder, NothingLost, vars, linkVars, serverVars, connectorVars

\* As long as no event is rejected, every step keeps the invariant.
LEMMA NextInv == ASSUME rejects' = 0, IInv, [Next]_vars PROVE IInv'
<1>0. CASE RestoreSessions
    BY <1>0, RestoreInv
<1>1. CASE Enqueue
    BY <1>1, EnqueueInv
<1>2. CASE Open
    BY <1>2, OpenInv
<1>3. CASE Break
    <2>1. breaks' \in 0..MaxBreaks /\ announces' \in BOOLEAN
        <3>1. breaks < MaxBreaks /\ breaks' = breaks + 1 /\ announces' \in {announces, FALSE}
            BY <1>3 DEF Break
        <3>2. breaks' \in 0..MaxBreaks
            BY <3>1, BoundsAssumption DEF IInv, TypeOK
        <3>3. announces \in BOOLEAN
            BY DEF IInv, TypeOK
        <3> QED
            BY <3>1, <3>2, <3>3
    <2> QED
        BY <1>3, <2>1, CloseInv DEF Break
<1>4. CASE CloseDoomed
    <2>1. breaks' \in 0..MaxBreaks /\ announces' \in BOOLEAN
        BY <1>4 DEF CloseDoomed, IInv, TypeOK
    <2> QED
        BY <1>4, <2>1, CloseInv DEF CloseDoomed
<1>5. ASSUME NEW e \in Connection, Serve(e) PROVE IInv'
    <2>1. CASE HandleHello(e)
        BY <2>1, HelloInv
    <2>2. ASSUME NEW s \in Event, HandleEvent(e, s) PROVE IInv'
        BY <2>2, EventInv
    <2>3. ASSUME NEW s \in Event, RejectEvent(e, s) PROVE FALSE
        <3>1. rejects' = rejects + 1 /\ rejects \in 0..MaxRejects
            BY <2>3 DEF RejectEvent, IInv, TypeOK
        <3> QED
            BY <3>1, BoundsAssumption
    <2>4. ASSUME NEW s \in Event, RefuseUngreeted(e, s) PROVE IInv'
        BY <2>4, UngreetedInv
    <2> QED
        BY <1>5, <2>1, <2>2, <2>3, <2>4 DEF Serve
<1>6. CASE Hear
    <2>1. ASSUME NEW s \in Event, AckArrives(s) PROVE IInv'
        BY <2>1, AckInv
    <2>2. ASSUME NEW n \in 0..MaxEvents, WelcomeArrives(n) PROVE IInv'
        BY <2>2, WelcomeInv
    <2> QED
        BY <1>6, <2>1, <2>2 DEF Hear
<1>7. CASE UNCHANGED vars
    BY <1>7, StutterInv
<1> QED
    BY <1>0, <1>1, <1>2, <1>3, <1>4, <1>5, <1>6, <1>7 DEF Next
-----------------------------------------------------------------------------
\* Nothing undoes a rejection.
Unrejected == rejects \in Nat /\ (rejects = 0 => IInv)

LEMMA UnrejectedInv == Spec => []Unrejected
<1>1. Init => Unrejected
    BY InitInv DEF Init, Unrejected
<1>2. ASSUME Unrejected, [Next]_vars PROVE Unrejected'
    <2>1. ASSUME NEW e \in Connection, NEW s \in Event, RejectEvent(e, s) PROVE rejects' = rejects + 1
        BY <2>1 DEF RejectEvent
    <2>2. \/ rejects' = rejects
          \/ \E e \in Connection, s \in Event : RejectEvent(e, s)
        BY <1>2 DEF Next, RestoreSessions, Enqueue, Open, OpenQuietly, OpenAnnouncing, OpenWith, Break, CloseDoomed, Close, Serve, HandleHello, HandleEvent,
                    RefuseUngreeted, Hear, AckArrives, WelcomeArrives, vars, serverVars
    <2>3. rejects' \in {rejects, rejects + 1} /\ rejects \in Nat
        BY <1>2, <2>1, <2>2 DEF Unrejected
    <2>4. ASSUME rejects' = 0 PROVE IInv'
        <3>1. rejects = 0
            BY <2>3, <2>4
        <3>2. IInv
            BY <1>2, <3>1 DEF Unrejected
        <3> QED
            BY <1>2, <2>4, <3>2, NextInv
    <2> QED
        BY <2>3, <2>4 DEF Unrejected
<1> QED
    BY <1>1, <1>2, PTL DEF Spec

\* While the server applies what it is sent, the connector only forgets events
\* that the server has committed, over any number of broken connections.
THEOREM NothingIsLost == Spec => []NothingLostWhileApplied
<1>1. Unrejected => NothingLostWhileApplied
    BY DEF Unrejected, IInv, NothingLostWhileApplied, WhileApplied
<1> QED
    BY UnrejectedInv, <1>1, PTL

\* While the server applies what it is sent, it applies events in the order of
\* their sequence numbers and without a gap.
THEOREM InOrder == Spec => []AppliedInOrderWhileApplied
<1>1. Unrejected => AppliedInOrderWhileApplied
    BY DEF Unrejected, IInv, AppliedInOrderWhileApplied, WhileApplied
<1> QED
    BY UnrejectedInv, <1>1, PTL

\* Once needs no more than the types of the two tables.
OInv == inbox \subseteq Event /\ applied \in [Event -> Nat] /\ AppliedOnce

\* However often an event is sent, rejected and sent again, it changes the state
\* of the server at most once, and exactly when it has an inbox row.
THEOREM Once == Spec => []AppliedOnce
<1>1. Init => OInv
    BY DEF Init, OInv, AppliedOnce
<1>2. ASSUME OInv, [Next]_vars PROVE OInv'
    <2>1. ASSUME NEW e \in Connection, NEW s \in Event, HandleEvent(e, s) PROVE OInv'
        <3>1. CASE s \in inbox
            BY <2>1, <3>1, <1>2 DEF HandleEvent, OInv, AppliedOnce
        <3>2. CASE s \notin inbox
            <4>1. applied[s] = 0
                BY <1>2, <3>2 DEF OInv, AppliedOnce
            <4>2. /\ applied' = [applied EXCEPT ![s] = applied[s] + 1]
                  /\ inbox' = inbox \cup {s}
                BY <2>1, <3>2 DEF HandleEvent
            <4> QED
                BY <1>2, <4>1, <4>2 DEF OInv, AppliedOnce
        <3> QED
            BY <3>1, <3>2
    <2>2. CASE UNCHANGED <<inbox, applied>>
        BY <1>2, <2>2 DEF OInv, AppliedOnce
    <2>3. \/ UNCHANGED <<inbox, applied>>
          \/ \E e \in Connection, s \in Event : HandleEvent(e, s)
        BY <1>2 DEF Next, RestoreSessions, Enqueue, Open, OpenQuietly, OpenAnnouncing, OpenWith, Break, CloseDoomed, Close, Serve, HandleHello, RejectEvent,
                    RefuseUngreeted, Hear, AckArrives, WelcomeArrives, vars, serverVars
    <2> QED
        BY <2>1, <2>2, <2>3
<1>3. OInv => AppliedOnce
    BY DEF OInv
<1> QED
    BY <1>1, <1>2, <1>3, PTL DEF Spec

\* No connection that is still to come is greeted or has anything to handle, and
\* one that was announced starts with another message than the hello until the
\* server is closing it.
AInv ==
    /\ conn \in Nat /\ early \subseteq 0..conn /\ greeted \subseteq 0..conn
    /\ up \in [Connection -> Seq(Batch)]
    /\ \A e \in Connection : e > conn => up[e] = <<>>
    /\ \A e \in early \cap Connection : e \notin greeted /\ (e \in doomed \/ ~Greets(up[e]))
    /\ early \subseteq Connection /\ enqueued \in 0..MaxEvents

LEMMA FrontOfFlush ==
    ASSUME NEW q \in Seq(Batch), NEW n \in 0..MaxEvents, NEW a
    PROVE  /\ Flush(q, Pending(n, a)) \in Seq(Batch)
           /\ Greets(Flush(q, Pending(n, a))) => Greets(q)
<1>1. Pending(n, a) \in Batch /\ Hello \notin Pending(n, a)
    BY BoundsAssumption DEF Pending, Batch, Hello
<1>2. Flush(q, Pending(n, a)) \in Seq(Batch)
    BY <1>1 DEF Flush
<1> QED
    BY <1>1, <1>2, FlushGreets

\* A step that leaves the connections as they are, but for the batches of one.
LEMMA AnnouncedKept ==
    ASSUME AInv, NEW e \in Connection, e <= conn, up'[e] \in Seq(Batch),
           up' = [up EXCEPT ![e] = up'[e]],
           conn' = conn, early' = early, enqueued' \in 0..MaxEvents,
           greeted' \subseteq greeted \cup {e}, doomed \subseteq doomed',
           e \in early => e \notin greeted' /\ (e \in doomed' \/ ~Greets(up'[e]))
    PROVE  AInv'
<1>1. /\ up' \in [Connection -> Seq(Batch)]
      /\ \A d \in Connection : d # e => up'[d] = up[d]
    BY DEF AInv
<1>2. conn \in Nat /\ e \in 0..conn /\ greeted' \subseteq 0..conn
    BY BoundsAssumption DEF AInv, Connection
<1>3. \A d \in Connection : d > conn => up'[d] = <<>>
    BY <1>1, <1>2 DEF AInv
<1>4. \A d \in early \cap Connection : d \notin greeted' /\ (d \in doomed' \/ ~Greets(up'[d]))
    BY <1>1 DEF AInv
<1> QED
    BY <1>1, <1>2, <1>3, <1>4 DEF AInv

LEMMA AnnouncedOpens == ASSUME AInv, Open PROVE AInv'
<1> USE BoundsAssumption
<1> DEFINE p == Pending(enqueued', acked)
<1>1. enqueued' \in 0..MaxEvents /\ conn \in Nat
    BY DEF Open, OpenQuietly, OpenAnnouncing, AInv
<1>2. p \in Batch /\ Hello \notin p
    BY <1>1 DEF Pending, Batch, Hello
<1>3. PICK before \in {<<>>, <<p>>} : OpenWith(before) /\ (before = <<>> => early' = early)
    BY DEF Open, OpenQuietly, OpenAnnouncing
<1>4. early' = early \/ (early' = early \cup {conn + 1} /\ p # {})
    BY DEF Open, OpenQuietly, OpenAnnouncing
<1> DEFINE q == Flush(Append(before, {Hello}), p)
<1>5. /\ conn + 1 \in Connection /\ conn' = conn + 1 /\ greeted' = greeted /\ doomed' = doomed
      /\ up' = [up EXCEPT ![conn + 1] = q]
    BY <1>3 DEF OpenWith
<1> HIDE DEF p
<1>6. {Hello} \in Batch
    BY DEF Batch, Hello
<1> DEFINE r == Append(before, {Hello})
<1> HIDE DEF Batch, r
<1>a. before \in Seq(Batch) /\ (before = <<p>> => Len(before) = 1 /\ before[1] = p)
    <2>1. <<>> \in Seq(Batch) /\ <<p>> \in Seq(Batch) /\ Len(<<p>>) = 1 /\ <<p>>[1] = p
        BY <1>2
    <2> QED
        BY <1>3, <2>1
<1>b. r \in Seq(Batch) /\ (before = <<p>> => Len(r) = 2 /\ r[1] = p)
    <2>1. Len(before) \in Nat /\ r \in Seq(Batch) /\ Len(r) = Len(before) + 1
        BY <1>6, <1>a DEF r
    <2>2. \A i \in 1..Len(before) : r[i] = before[i]
        BY <1>6, <1>a DEF r
    <2> QED
        BY <1>a, <2>1, <2>2
<1>7. q \in Seq(Batch) /\ (before = <<p>> => q[1] = p)
    <2>1. q = r \/ q = Append(r, p)
        BY DEF Flush, r
    <2>2. Append(r, p) \in Seq(Batch) /\ (before = <<p>> => Append(r, p)[1] = p)
        BY <1>2, <1>b
    <2> QED
        BY <1>b, <2>1, <2>2
<1>8. before = <<p>> => ~Greets(q)
    BY <1>2, <1>7 DEF Greets
<1> HIDE DEF q
<1>9. \A e \in Connection : up'[e] = IF e = conn + 1 THEN q ELSE up[e]
    BY <1>5 DEF AInv
<1>10. \A e \in early' \cap Connection : e \notin greeted' /\ (e \in doomed' \/ ~Greets(up'[e]))
    <2>1. SUFFICES ASSUME NEW e \in early' \cap Connection
                   PROVE  e \notin greeted' /\ (e \in doomed' \/ ~Greets(up'[e]))
        OBVIOUS
    <2>2. CASE e \in early
        <3>1. e # conn + 1
            BY <1>1, <2>2 DEF AInv
        <3> QED
            BY <1>5, <1>9, <2>1, <2>2, <3>1 DEF AInv
    <2>3. CASE e \notin early
        <3>1. e = conn + 1 /\ before = <<p>>
            BY <1>3, <1>4, <2>1, <2>3
        <3>2. conn + 1 \notin greeted
            BY <1>1 DEF AInv
        <3> QED
            BY <1>5, <1>8, <1>9, <2>1, <3>1, <3>2
    <2> QED
        BY <2>2, <2>3
<1>11. conn' \in Nat /\ early' \subseteq 0..conn' /\ greeted' \subseteq 0..conn' /\ early' \subseteq Connection
    <2>1. 0..conn \subseteq 0..(conn + 1) /\ conn + 1 \in 0..(conn + 1) /\ conn + 1 \in Nat
        BY <1>1
    <2> QED
        BY <1>4, <1>5, <2>1 DEF AInv
<1>12. up' \in [Connection -> Seq(Batch)] /\ \A e \in Connection : e > conn' => up'[e] = <<>>
    BY <1>1, <1>5, <1>7, <1>9 DEF AInv, Connection
<1> QED
    BY <1>1, <1>10, <1>11, <1>12 DEF AInv

\* A connection on which an agent announces its sessions before the hello is never
\* greeted, whatever breaks, restarts and rejections come between: the server
\* refuses all that is sent on it (connector-cloud-client.ts:175, connector.ts:147).
THEOREM AnnouncedNeverGreeted == Spec => []AnnouncedIsRefused
<1> USE BoundsAssumption
<1>1. Init => AInv
    BY DEF Init, AInv, Connection
<1>2. ASSUME AInv, [Next]_vars PROVE AInv'
    <2> USE <1>2
    <2>0. /\ conn \in Nat /\ up \in [Connection -> Seq(Batch)] /\ enqueued \in 0..MaxEvents
          /\ \A e \in Connection : up[e] # <<>> => e <= conn
        BY DEF AInv, Connection
    <2>1. CASE RestoreSessions
        BY <2>1 DEF RestoreSessions, linkVars, AInv
    <2>2. CASE Enqueue
        <3>1. /\ enqueued' \in 0..MaxEvents /\ enqueued' = enqueued + 1
              /\ UNCHANGED <<conn, greeted, doomed, early>>
            BY <2>0, <2>2 DEF Enqueue
        <3>2. CASE ~online
            BY <2>2, <3>1, <3>2 DEF Enqueue, AInv
        <3>3. CASE online
            <4> DEFINE q == Flush(up[conn], Pending(enqueued', acked))
            <4>1. up' = [up EXCEPT ![conn] = q]
                BY <2>2, <3>1, <3>3 DEF Enqueue
            <4>2. CASE conn \in Connection
                <5>1. q \in Seq(Batch) /\ (Greets(q) => Greets(up[conn]))
                    BY <2>0, <3>1, <4>2, FrontOfFlush
                <5> HIDE DEF q
                <5>2. /\ up'[conn] \in Seq(Batch) /\ up' = [up EXCEPT ![conn] = up'[conn]]
                      /\ conn \in early => conn \notin greeted' /\ (conn \in doomed' \/ ~Greets(up'[conn]))
                    BY <2>0, <3>1, <4>1, <4>2, <5>1 DEF AInv
                <5> QED
                    BY <2>0, <3>1, <4>2, <5>1, <5>2, AnnouncedKept
            <4>3. CASE conn \notin Connection
                <5>1. up' = up
                    BY <2>0, <4>1, <4>3
                <5> QED
                    BY <3>1, <5>1 DEF AInv
            <4> QED
                BY <4>2, <4>3
        <3> QED
            BY <3>2, <3>3
    <2>3. CASE Open
        BY <2>3, AnnouncedOpens
    <2>4. ASSUME NEW n \in 0..Len(up[conn]), NEW s \in 1..(MaxEvents + 1), Close(n, s) PROVE AInv'
        <3> DEFINE q == Received(up[conn], n, s)
        <3>1. /\ up' = [up EXCEPT ![conn] = q]
              /\ enqueued' = enqueued /\ conn' = conn /\ greeted' = greeted /\ doomed' = doomed /\ early' = early
            BY <2>4 DEF Close
        <3>2. CASE conn \in Connection
            <4>1. Sound(conn, up[conn], {}, {conn}, {})
                BY <2>0, <3>2 DEF Sound
            <4>2. Sound(conn, q, {}, {conn}, {}) /\ (Greets(q) => Greets(up[conn]))
                BY <4>1, ReceivedSound
            <4> HIDE DEF q
            <4>3. /\ up'[conn] \in Seq(Batch) /\ up' = [up EXCEPT ![conn] = up'[conn]]
                  /\ conn \in early => conn \notin greeted' /\ (conn \in doomed' \/ ~Greets(up'[conn]))
                BY <2>0, <3>1, <3>2, <4>2 DEF AInv, Sound
            <4>4. /\ conn <= conn /\ enqueued' \in 0..MaxEvents
                  /\ greeted' \subseteq greeted \cup {conn} /\ doomed \subseteq doomed'
                BY <2>0, <3>1
            <4> QED
                BY <3>1, <3>2, <4>3, <4>4, AnnouncedKept
        <3>3. CASE conn \notin Connection
            <4>1. up' = up
                BY <2>0, <3>1, <3>3
            <4> QED
                BY <3>1, <4>1 DEF AInv
        <3> QED
            BY <3>2, <3>3
    <2>5. ASSUME NEW e \in Connection, Serve(e) PROVE AInv'
        <3>1. PICK m \in 0..MaxEvents :
                 /\ Handles(e, m)
                 /\ UNCHANGED <<conn, early, enqueued>>
                 /\ \/ m = Hello /\ e \notin doomed /\ greeted' = greeted \cup {e} /\ doomed' = doomed
                    \/ greeted' = greeted /\ doomed' = doomed \cup {e}
                    \/ e \in greeted /\ greeted' = greeted /\ doomed' = doomed
            BY <2>5 DEF Serve, HandleHello, HandleEvent, RejectEvent, RefuseUngreeted, Event, Hello, connectorVars
        <3>2. /\ up[e] # <<>> /\ m \in Head(up[e]) /\ Head(up[e]) = up[e][1]
              /\ up' = [up EXCEPT ![e] = Rest(up[e], m)]
            BY <2>0, <3>1 DEF Handles
        <3>3. Rest(up[e], m) \in Seq(Batch)
            BY <2>0, <3>2, RestCovered
        <3>4. m = Hello => Greets(up[e])
            BY <3>2 DEF Greets
        <3>5. e \in early => e \notin greeted' /\ e \in doomed'
            BY <3>1, <3>4 DEF AInv
        <3> QED
            BY <2>0, <3>1, <3>2, <3>3, <3>5, AnnouncedKept
    <2>6. ASSUME NEW s \in Event, AckArrives(s) PROVE AInv'
        BY <2>6 DEF AckArrives, AInv
    <2>7. ASSUME NEW n \in 0..MaxEvents, WelcomeArrives(n) PROVE AInv'
        <3> DEFINE q == Flush(up[conn], Pending(enqueued, acked'))
        <3>1. /\ up' = [up EXCEPT ![conn] = q]
              /\ enqueued' = enqueued /\ conn' = conn /\ greeted' = greeted /\ doomed' = doomed /\ early' = early
            BY <2>7 DEF WelcomeArrives
        <3>2. CASE conn \in Connection
            <4>1. q \in Seq(Batch) /\ (Greets(q) => Greets(up[conn]))
                BY <2>0, <3>2, FrontOfFlush
            <4> HIDE DEF q
            <4>2. /\ up'[conn] \in Seq(Batch) /\ up' = [up EXCEPT ![conn] = up'[conn]]
                  /\ conn \in early => conn \notin greeted' /\ (conn \in doomed' \/ ~Greets(up'[conn]))
                BY <2>0, <3>1, <3>2, <4>1 DEF AInv
            <4>3. /\ conn <= conn /\ enqueued' \in 0..MaxEvents
                  /\ greeted' \subseteq greeted \cup {conn} /\ doomed \subseteq doomed'
                BY <2>0, <3>1
            <4> QED
                BY <3>1, <3>2, <4>2, <4>3, AnnouncedKept
        <3>3. CASE conn \notin Connection
            <4>1. up' = up
                BY <2>0, <3>1, <3>3
            <4> QED
                BY <3>1, <4>1 DEF AInv
        <3> QED
            BY <3>2, <3>3
    <2>8. CASE UNCHANGED vars
        BY <2>8 DEF vars, linkVars, connectorVars, AInv
    <2> QED
        BY <2>1, <2>2, <2>3, <2>4, <2>5, <2>6, <2>7, <2>8 DEF Next, Break, CloseDoomed, Hear
<1>3. AInv => AnnouncedIsRefused
    BY DEF AInv, AnnouncedIsRefused
<1> QED
    BY <1>1, <1>2, <1>3, PTL DEF Spec
-----------------------------------------------------------------------------
(* What the token events that travel lead to: the rollups of the server    *)
(* show the newest snapshot of each session and model, and follow the      *)
(* accumulator that ADR-007 gives as the reference.                        *)

LEMMA NewRollupType ==
    ASSUME NEW s \in Snapshot, NEW old \in Rollup \cup {Absent}
    PROVE  /\ NewRollup(old, s) \in Rollup
           /\ NewRollup(old, s) # Absent
           /\ NewRollup(old, s).sequence = s.sequence
           /\ NewRollup(old, s).event = s.event
           /\ NewRollup(old, s).turn = s.turn
           /\ NewRollup(old, s).usage = [c \in Column |-> s.usage[c]]
  <1>1. s.sequence \in Nat /\ s.event \in EventId /\ s.turn \in Turn /\ s.usage \in [Counter -> Nat]
    BY DEF Snapshot, Usage
  <1>2. Column \subseteq Counter
    BY DEF Column
  <1>3. [c \in Column |-> s.usage[c]] \in [Column -> Nat]
    BY <1>1, <1>2
  <1>4. NewRollup(old, s) \in Rollup
    BY <1>1, <1>3 DEF NewRollup, Rollup, Quality
  <1>5. NewRollup(old, s) # Absent
    BY <1>4, AbsentIsNoState
  <1> QED BY <1>4, <1>5 DEF NewRollup

\* A rollup shows the newest stored snapshot of its session and model, whatever
\* snapshot arrives, and in whatever order (connector-repository.ts:548).
THEOREM SnapshotKeepsNewest ==
    ASSUME NEW db \in Database, RollupIsNewest(db), NEW s \in Snapshot
    PROVE  RollupIsNewest(ApplySnapshot(db, s))
  <1> DEFINE key == <<s.thread, s.model>>
             old == db.rollups[key]
             next == ApplySnapshot(db, s)
  <1>1. CASE ~IsNew(db, s)
    BY <1>1 DEF ApplySnapshot
  <1>2. CASE IsNew(db, s)
    <2>1. /\ s.thread \in Thread /\ s.model \in Model /\ s.sequence \in Nat
          /\ db.snapshots \subseteq Snapshot
          /\ db.rollups \in [Thread \X Model -> Rollup \cup {Absent}]
      BY DEF Snapshot, Database
    <2>2. old \in Rollup \cup {Absent}
      BY <2>1
    <2>3. next.snapshots = db.snapshots \cup {s}
      BY <1>2 DEF ApplySnapshot
    <2>4. SUFFICES ASSUME NEW t \in Thread, NEW m \in Model
                   PROVE  IsNewestOf(next.rollups[<<t, m>>], StoredOf(next, t, m))
      BY DEF RollupIsNewest
    <2>5. IsNewestOf(db.rollups[<<t, m>>], StoredOf(db, t, m))
      BY DEF RollupIsNewest
    <2>6. CASE <<t, m>> # key
      <3>1. StoredOf(next, t, m) = StoredOf(db, t, m)
        BY <2>3, <2>6 DEF StoredOf
      <3>2. next.rollups[<<t, m>>] = db.rollups[<<t, m>>]
        BY <1>2, <2>1, <2>6 DEF ApplySnapshot
      <3> QED BY <2>5, <3>1, <3>2
    <2>7. CASE <<t, m>> = key
      <3>1. StoredOf(next, t, m) = StoredOf(db, t, m) \cup {s} /\ t = s.thread /\ m = s.model
        BY <2>3, <2>7 DEF StoredOf
      <3>2. CASE Advances(old, s)
        <4>1. next.rollups[<<t, m>>] = NewRollup(old, s)
          BY <1>2, <2>1, <2>7, <3>2 DEF ApplySnapshot
        <4>2. \A o \in StoredOf(db, t, m) : o.sequence <= s.sequence
          <5>1. CASE old = Absent
            BY <2>5, <2>7, <5>1 DEF IsNewestOf
          <5>2. CASE old # Absent
            <6>1. old.sequence < s.sequence /\ old.sequence \in Nat
              BY <2>2, <3>2, <5>2 DEF Advances, Rollup
            <6>2. \A o \in StoredOf(db, t, m) : o.sequence <= old.sequence /\ o.sequence \in Nat
              BY <2>1, <2>5, <2>7, <5>2 DEF Snapshot, IsNewestOf, StoredOf
            <6> QED BY <2>1, <6>1, <6>2
          <5> QED BY <5>1, <5>2
        <4>3. \A o \in StoredOf(next, t, m) : o.sequence <= s.sequence
          BY <2>1, <3>1, <4>2
        <4>4. s \in StoredOf(next, t, m)
          BY <3>1
        <4> HIDE DEF old, next
        <4>5. PICK row : row = NewRollup(old, s)
          OBVIOUS
        <4>6. /\ row # Absent /\ row.sequence = s.sequence /\ row.event = s.event
              /\ row.usage = [c \in Column |-> s.usage[c]]
          BY <2>2, <4>5, NewRollupType
        <4>7. IsNewestOf(row, StoredOf(next, t, m))
          BY <4>3, <4>4, <4>6 DEF IsNewestOf
        <4> QED BY <4>1, <4>5, <4>7
      <3>3. CASE ~Advances(old, s)
        <4>1. next.rollups[<<t, m>>] = old /\ old # Absent /\ s.sequence <= old.sequence
          BY <1>2, <2>1, <2>2, <2>7, <3>3 DEF ApplySnapshot, Advances, Rollup
        <4>2. PICK n \in StoredOf(db, t, m) :
                 /\ old.sequence = n.sequence /\ old.event = n.event
                 /\ old.usage = [c \in Column |-> n.usage[c]]
                 /\ \A o \in StoredOf(db, t, m) : o.sequence <= n.sequence
          BY <2>5, <2>7, <4>1 DEF IsNewestOf
        <4>3. n \in StoredOf(next, t, m) /\ \A o \in StoredOf(next, t, m) : o.sequence <= n.sequence
          BY <3>1, <4>1, <4>2
        <4> HIDE DEF old, next
        <4> QED BY <4>1, <4>2, <4>3 DEF IsNewestOf
      <3> QED BY <3>2, <3>3
    <2> QED BY <2>6, <2>7
  <1> QED BY <1>1, <1>2

\* The end of a turn changes the quality of the rollups and nothing they show
\* (connector-repository.ts:609).
THEOREM CompletionKeepsNewest ==
    ASSUME NEW db \in Database, RollupIsNewest(db), NEW t \in Thread, NEW turn \in Turn
    PROVE  RollupIsNewest(ApplyCompleted(db, t, turn))
  <1> DEFINE next == ApplyCompleted(db, t, turn)
  <1>1. next.snapshots = db.snapshots
    BY DEF ApplyCompleted, Database
  <1>2. ASSUME NEW u \in Thread, NEW m \in Model
        PROVE  LET was == db.rollups[<<u, m>>]
                   row == next.rollups[<<u, m>>] IN
               IF was = Absent THEN row = Absent
               ELSE row # Absent /\ row.sequence = was.sequence /\ row.event = was.event
                    /\ row.usage = was.usage
    <2> DEFINE was == db.rollups[<<u, m>>]
    <2>1. was \in Rollup \cup {Absent}
      BY DEF Database
    <2>2. next.rollups[<<u, m>>] = IF u = t /\ was # Absent THEN SettledRollup(was, turn) ELSE was
      BY DEF ApplyCompleted, Database
    <2>3. ASSUME was \in Rollup
          PROVE  /\ SettledRollup(was, turn) \in Rollup
                 /\ SettledRollup(was, turn).sequence = was.sequence
                 /\ SettledRollup(was, turn).event = was.event
                 /\ SettledRollup(was, turn).usage = was.usage
      BY <2>3 DEF SettledRollup, Rollup, Quality
    <2> QED BY <2>1, <2>2, <2>3, AbsentIsNoState
  <1>3. SUFFICES ASSUME NEW u \in Thread, NEW m \in Model
                 PROVE  IsNewestOf(next.rollups[<<u, m>>], StoredOf(next, u, m))
    BY DEF RollupIsNewest
  <1>4. IsNewestOf(db.rollups[<<u, m>>], StoredOf(db, u, m)) /\ StoredOf(next, u, m) = StoredOf(db, u, m)
    BY <1>1 DEF RollupIsNewest, StoredOf
  <1> HIDE DEF next
  <1> QED BY <1>2, <1>4 DEF IsNewestOf

\* A report that is taken in adds a natural number to every counter: usage is
\* never subtracted, not even after the agent counted from zero again
\* (token-accumulator.ts:62).
THEOREM DeltaIsNatural ==
    ASSUME NEW acc \in Accumulator, NEW s \in Snapshot
    PROVE  Delta(acc, s) \in Usage
  <1>1. s.usage \in [Counter -> Nat] /\ s.thread \in Thread
    BY DEF Snapshot, Usage
  <1>2. acc.threads[s.thread] \in ThreadState \cup {Absent}
    BY <1>1 DEF Accumulator
  <1>3. ASSUME acc.threads[s.thread] # Absent, ~ResetDetected(acc, s)
        PROVE  SubtractUsage(s.usage, acc.threads[s.thread].total) \in Usage
    <2>1. acc.threads[s.thread].total \in [Counter -> Nat]
      BY <1>2, <1>3 DEF ThreadState, Usage
    <2>2. \A c \in Counter : s.usage[c] >= acc.threads[s.thread].total[c]
      BY <1>1, <1>3, <2>1 DEF ResetDetected, Decreases
    <2> QED BY <1>1, <2>1, <2>2 DEF SubtractUsage, Usage
  <1> QED BY <1>3 DEF Delta, ZeroUsage, Usage

\* The row of the server follows the accumulator: a snapshot that neither has
\* seen, with a number that is free in its epoch and counts cache writes upward,
\* leaves the row and the state in agreement.
THEOREM RollupFollowsAccumulator ==
    ASSUME NEW db \in Database, NEW acc \in Accumulator, NEW s \in Snapshot,
           Corresponds(db.rollups[<<s.thread, s.model>>], acc.threads[s.thread]),
           IsNew(db, s), ~Seen(acc, s),
           acc.threads[s.thread] # Absent =>
               acc.threads[s.thread].total["cacheWrite"] <= s.usage["cacheWrite"]
    PROVE  Corresponds(ApplySnapshot(db, s).rollups[<<s.thread, s.model>>],
                       Ingest(acc, s).threads[s.thread])
  <1> DEFINE old == db.rollups[<<s.thread, s.model>>]
             state == acc.threads[s.thread]
  <1>1. /\ s.thread \in Thread /\ s.model \in Model /\ s.sequence \in Nat
        /\ s.usage \in [Counter -> Nat] /\ s.event \in EventId /\ s.turn \in Turn
    BY DEF Snapshot, Usage
  <1>2. old \in Rollup \cup {Absent} /\ state \in ThreadState \cup {Absent}
    BY <1>1 DEF Database, Accumulator
  <1>3. Advances(old, s) <=> ~OutOfOrder(acc, s)
    BY <1>1, <1>2, AbsentIsNoState DEF Advances, OutOfOrder, Corresponds, Rollup, ThreadState
  <1>4. CASE ~Advances(old, s)
    BY <1>1, <1>3, <1>4 DEF ApplySnapshot, Ingest, Accumulator, Database
  <1>5. CASE Advances(old, s)
    <2>1. ApplySnapshot(db, s).rollups[<<s.thread, s.model>>] = NewRollup(old, s)
      BY <1>1, <1>5 DEF ApplySnapshot, Database
    <2>2. Ingest(acc, s).threads[s.thread] = IngestedState(acc, s)
      BY <1>1, <1>3, <1>5 DEF Ingest, Accumulator
    <2>3. (old # Absent /\ Decreases(old.usage, s.usage)) <=> ResetDetected(acc, s)
      <3>1. CASE state = Absent
        BY <3>1 DEF Corresponds, ResetDetected
      <3>2. CASE state # Absent
        <4>1. old # Absent /\ old.usage = [c \in Column |-> state.total[c]]
          BY <3>2 DEF Corresponds
        <4>2. state.total \in [Counter -> Nat] /\ DOMAIN state.total = Counter
          BY <1>2, <3>2 DEF ThreadState, Usage
        <4>3. state.total["cacheWrite"] <= s.usage["cacheWrite"]
          BY <3>2
        <4>4. Decreases(old.usage, s.usage) <=> \E c \in Column : s.usage[c] < state.total[c]
          BY <4>1 DEF Decreases
        <4>5. ResetDetected(acc, s) <=> \E c \in Counter : s.usage[c] < state.total[c]
          BY <3>2, <4>2 DEF ResetDetected, Decreases
        <4>6. Counter = Column \cup {"cacheWrite"} /\ "cacheWrite" \in Counter
          BY DEF Counter, Column
        <4>7. ~(s.usage["cacheWrite"] < state.total["cacheWrite"])
          BY <1>1, <4>2, <4>3, <4>6
        <4> QED BY <4>1, <4>4, <4>5, <4>6, <4>7
      <3> QED BY <3>1, <3>2
    <2>4. NewRollup(old, s).quality = IngestedState(acc, s).quality
      BY <2>3 DEF NewRollup, IngestedState
    <2>5. IngestedState(acc, s) \in ThreadState
      BY <1>1 DEF IngestedState, ThreadState, Quality, Usage, ResetDetected
    <2>6. /\ IngestedState(acc, s).sequence = s.sequence
          /\ IngestedState(acc, s).event = s.event /\ IngestedState(acc, s).turn = s.turn
          /\ IngestedState(acc, s).total = s.usage
      BY DEF IngestedState
    <2>7. IngestedState(acc, s) # Absent
      BY <2>5, AbsentIsNoState
    <2> HIDE DEF old
    <2> QED BY <1>2, <2>1, <2>2, <2>4, <2>6, <2>7, NewRollupType DEF Corresponds
  <1> QED BY <1>4, <1>5

\* The numbers of the outbox only grow, over threads and lives of the connector:
\* a report of an event that is not stored is therefore taken in, and its thread
\* and model show it, whatever number the runtime gave it
\* (sqlite-message-store.ts:108).
THEOREM ReportIsShown ==
    ASSUME NEW db \in Database, RollupIsNewest(db),
           NEW last \in Nat, \A o \in db.snapshots : o.sequence <= last,
           NEW report \in Snapshot, \A o \in db.snapshots : o.event # report.event
    PROVE  LET s == Sequenced(last, report)
               next == ApplySnapshot(db, s)
               row == next.rollups[<<s.thread, s.model>>] IN
           /\ row # Absent /\ row.event = report.event
           /\ row.usage = [c \in Column |-> report.usage[c]]
           /\ \A o \in next.snapshots : o.sequence <= last + 1
  <1> DEFINE s == Sequenced(last, report)
             old == db.rollups[<<s.thread, s.model>>]
             next == ApplySnapshot(db, s)
  <1>1. /\ s \in Snapshot /\ s.sequence = last + 1 /\ s.event = report.event
        /\ s.usage = report.usage /\ s.thread \in Thread /\ s.model \in Model
    BY DEF Sequenced, Snapshot
  <1>2. /\ db.snapshots \subseteq Snapshot /\ old \in Rollup \cup {Absent}
        /\ db.rollups \in [Thread \X Model -> Rollup \cup {Absent}]
    BY <1>1 DEF Database
  <1>3. \A o \in db.snapshots : o.sequence \in Nat
    BY <1>2 DEF Snapshot
  <1> HIDE DEF s
  <1>4. IsNew(db, s)
    BY <1>1, <1>3 DEF IsNew
  <1>5. Advances(old, s)
    <2>1. CASE old = Absent
      BY <2>1 DEF Advances
    <2>2. CASE old # Absent
      <3>1. \E o \in StoredOf(db, s.thread, s.model) : old.sequence = o.sequence
        BY <1>1, <2>2 DEF RollupIsNewest, IsNewestOf
      <3>2. old.sequence \in Nat /\ old.sequence <= last
        BY <1>3, <3>1 DEF StoredOf
      <3> QED BY <1>1, <3>2 DEF Advances
    <2> QED BY <2>1, <2>2
  <1>6. /\ next.rollups[<<s.thread, s.model>>] = NewRollup(old, s)
        /\ next.snapshots = db.snapshots \cup {s}
    BY <1>1, <1>2, <1>4, <1>5 DEF ApplySnapshot
  <1>7. \A o \in next.snapshots : o.sequence <= last + 1
    BY <1>1, <1>3, <1>6
  <1>8. /\ NewRollup(old, s) # Absent /\ NewRollup(old, s).event = report.event
        /\ NewRollup(old, s).usage = [c \in Column |-> report.usage[c]]
    BY <1>1, <1>2, NewRollupType
  <1> HIDE DEF next, old
  <1> QED BY <1>6, <1>7, <1>8 DEF next, s
-----------------------------------------------------------------------------
(* Images of a draft.  The argument: the row of an image is written once and  *)
(* never deleted, and only with its file; as long as there is none, nothing   *)
(* on the way, at the server or in the browser says that there is one.        *)

\* A piece of the image starts inside it.
Starts(m) == m.type = "chunk" => m.at < Chunks

Requests == {q \in Request : Starts(q)}
Controls == {m \in Control : Starts(m)}

\* What the server waits for: all but a new upload is about one it has looked up.
Awaited ==
    {Idle} \cup {b \in [type : Waiting, socket : Sockets, at : Offsets, of : 0..MaxAttempts] :
                    Starts(b) /\ (b.type # "begin" => b.of \in Transfers)}

\* The next socket of the browser still has a number.
UploadTypes ==
    /\ UploadTypeOK
    /\ busy \in Awaited
    /\ toServer \in Seq(Requests) /\ toConnector \in Seq(Controls)
    /\ web.socket <= faults + 1

\* Nobody speaks of a complete image.
NobodyReady ==
    /\ web.phase \notin {"ready", "sent"} /\ command = FALSE
    /\ \A u \in uploads : u.state # "ready"
    /\ toWeb \in Seq({n \in Notice : n.state # "ready"})
    /\ fromConnector \in Seq({s \in Status : s.state # "ready"})

TicketInv ==
    /\ store.image => store.stored
    /\ ~store.image => NobodyReady
-----------------------------------------------------------------------------
LEMMA AskIsTyped ==
    ASSUME UploadTypes, NEW type \in Waiting \cup {"cancel"}, NEW at \in Offsets,
           type = "chunk" => at < Chunks, Ask(type, at)
    PROVE  toServer' \in Seq(Requests) /\ toServer' \in Seq(Request)
<1> DEFINE q == [type |-> type, at |-> at, socket |-> web.socket]
<1>1. web.socket \in Sockets
    BY DEF UploadTypes, UploadTypeOK, Web
<1>2. q \in Requests
    BY <1>1 DEF Requests, Request, Starts
<1>3. toServer' = Append(toServer, q) /\ toServer \in Seq(Requests) /\ Requests \subseteq Request
    BY DEF Ask, UploadTypes, Requests
<1> QED
    BY <1>2, <1>3

LEMMA TellIsTyped ==
    ASSUME NEW S, toWeb \in Seq(S), NEW socket, NEW state, NEW at, Tell(socket, state, at),
           [state |-> state, at |-> at, socket |-> socket] \in S
    PROVE  toWeb' \in Seq(S)
BY DEF Tell

LEMMA ForwardIsTyped ==
    ASSUME UploadTypes, NEW type \in Waiting \cup {"cancel"}, NEW at \in Offsets, NEW of \in Transfers,
           type = "chunk" => at < Chunks, Forward(type, at, of)
    PROVE  toConnector' \in Seq(Controls)
<1> DEFINE m == [type |-> type, at |-> at, transfer |-> of]
<1>1. m \in Controls
    BY DEF Controls, Control, Starts
<1>2. toConnector \in Seq(Controls)
    BY DEF UploadTypes
<1>3. toConnector' = Append(toConnector, m) \/ toConnector' = toConnector
    BY DEF Forward
<1> QED
    BY <1>1, <1>2, <1>3

LEMMA ReplyIsTyped ==
    ASSUME NEW S, fromConnector \in Seq(S), NEW state, NEW at, NEW of, Reply(state, at, of),
           [state |-> state, at |-> at, transfer |-> of] \in S
    PROVE  fromConnector' \in Seq(S)
BY DEF Reply

LEMMA ControlsAreControl == ASSUME NEW q \in Seq(Controls) PROVE q \in Seq(Control)
BY DEF Controls

LEMMA PrefixIsTyped ==
    ASSUME NEW S, NEW q \in Seq(S), NEW p \in Prefixes(q)
    PROVE  p \in Seq(S)
<1>1. PICK i \in 0..Len(q) : p = SubSeq(q, 1, i)
    BY DEF Prefixes
<1> QED
    BY <1>1

LEMMA RequestHeads ==
    ASSUME UploadTypes, toServer # <<>>
    PROVE  Head(toServer) \in Requests /\ Tail(toServer) \in Seq(Requests) /\ Tail(toServer) \in Seq(Request)
<1>1. toServer \in Seq(Requests) /\ Requests \subseteq Request
    BY DEF UploadTypes, Requests
<1> QED
    BY <1>1

LEMMA ControlHeads ==
    ASSUME UploadTypes, toConnector # <<>>
    PROVE  Head(toConnector) \in Controls /\ Tail(toConnector) \in Seq(Controls)
<1>1. toConnector \in Seq(Controls)
    BY DEF UploadTypes
<1> QED
    BY <1>1

LEMMA GiveUpIsTyped ==
    ASSUME UploadTypes, GiveUp
    PROVE  /\ web' \in Web /\ web'.socket = web.socket /\ web'.phase = "idle"
           /\ toServer' \in Seq(Requests) /\ toServer' \in Seq(Request)
<1>1. 0 \in Offsets
    BY UploadAssumption DEF Offsets
<1>2. toServer' \in Seq(Requests) /\ toServer' \in Seq(Request)
    BY <1>1, AskIsTyped DEF GiveUp
<1>3. web \in Web /\ web' = [web EXCEPT !.phase = "idle"]
    BY DEF GiveUp, UploadTypes, UploadTypeOK
<1>4. web' \in Web /\ web'.socket = web.socket /\ web'.phase = "idle"
    BY <1>3 DEF Web
<1> QED
    BY <1>2, <1>4

LEMMA ProceedIsTyped ==
    ASSUME UploadTypes, NEW at \in Offsets, Proceed(at)
    PROVE  /\ web' \in Web /\ web'.socket = web.socket /\ web'.phase \in Waiting
           /\ toServer' \in Seq(Requests) /\ toServer' \in Seq(Request)
<1>1. 0 \in Offsets /\ web \in Web
    BY UploadAssumption DEF Offsets, UploadTypes, UploadTypeOK
<1>2. CASE at < Chunks
    <2>1. web' = [web EXCEPT !.phase = "chunk", !.offset = at] /\ Ask("chunk", at)
        BY <1>2 DEF Proceed
    <2>2. toServer' \in Seq(Requests) /\ toServer' \in Seq(Request)
        BY <1>2, <2>1, AskIsTyped DEF Waiting
    <2> QED
        BY <1>1, <2>1, <2>2 DEF Web, Waiting
<1>3. CASE ~(at < Chunks)
    <2>1. web' = [web EXCEPT !.phase = "complete", !.offset = at] /\ Ask("complete", 0)
        BY <1>3 DEF Proceed
    <2>2. toServer' \in Seq(Requests) /\ toServer' \in Seq(Request)
        BY <1>1, <2>1, AskIsTyped DEF Waiting
    <2> QED
        BY <1>1, <2>1, <2>2 DEF Web, Waiting
<1> QED
    BY <1>2, <1>3
-----------------------------------------------------------------------------
(* The browser *)

LEMMA SendKeeps ==
    ASSUME UploadTypes, TicketInv, Send
    PROVE  UploadTypes' /\ TicketInv'
<1>1. 0 \in Offsets /\ web \in Web
    BY UploadAssumption DEF Offsets, UploadTypes, UploadTypeOK
<1>2. toServer' \in Seq(Requests) /\ toServer' \in Seq(Request)
    BY <1>1, AskIsTyped DEF Send, Waiting
<1>3. /\ web.attempts + 1 \in 0..MaxAttempts
      /\ web' = [web EXCEPT !.phase = "begin", !.offset = 0, !.attempts = web.attempts + 1]
    BY <1>1, UploadAssumption DEF Send, Web
<1>4. web' \in Web /\ web'.socket = web.socket /\ web'.phase = "begin"
    BY <1>1, <1>3 DEF Web, Waiting
<1>5. UploadTypes'
    BY <1>2, <1>4 DEF UploadTypes, UploadTypeOK, Send, servers
<1>6. TicketInv'
    BY <1>4 DEF TicketInv, NobodyReady, Send, servers
<1> QED
    BY <1>5, <1>6

LEMMA WebHearsKeeps ==
    ASSUME UploadTypes, TicketInv, WebHears
    PROVE  UploadTypes' /\ TicketInv'
<1> DEFINE n == Head(toWeb)
<1>1. toWeb # <<>> /\ toWeb' = Tail(toWeb)
    BY DEF WebHears
<1>2. n \in Notice /\ toWeb' \in Seq(Notice) /\ n.at \in Offsets
    <2>1. toWeb \in Seq(Notice)
        BY DEF UploadTypes, UploadTypeOK
    <2>2. n \in Notice /\ toWeb' \in Seq(Notice)
        BY <1>1, <2>1
    <2> QED
        BY <2>2 DEF Notice
<1>3. ASSUME ~store.image
      PROVE  n.state # "ready" /\ toWeb' \in Seq({m \in Notice : m.state # "ready"})
    BY <1>1, <1>3 DEF TicketInv, NobodyReady
<1>4. \/ UNCHANGED <<web, toServer>> \/ GiveUp \/ Proceed(n.at)
      \/ n.state = "ready" /\ web' = [web EXCEPT !.phase = "ready"] /\ UNCHANGED toServer
    BY DEF WebHears
<1>5. /\ web' \in Web /\ web'.socket = web.socket
      /\ toServer' \in Seq(Requests) /\ toServer' \in Seq(Request)
    <2>1. web \in Web /\ toServer \in Seq(Requests) /\ toServer \in Seq(Request)
        BY DEF UploadTypes, UploadTypeOK
    <2>2. web' = [web EXCEPT !.phase = "ready"] => web' \in Web /\ web'.socket = web.socket
        BY <2>1 DEF Web
    <2> QED
        BY <1>2, <1>4, <2>1, <2>2, GiveUpIsTyped, ProceedIsTyped
<1>6. ASSUME ~store.image PROVE web'.phase \notin {"ready", "sent"}
    <2>1. web.phase \notin {"ready", "sent"}
        BY <1>6 DEF TicketInv, NobodyReady
    <2> QED
        BY <1>2, <1>3, <1>4, <1>6, <2>1, GiveUpIsTyped, ProceedIsTyped DEF Waiting
<1>7. UploadTypes'
    BY <1>2, <1>5 DEF UploadTypes, UploadTypeOK, WebHears, servers
<1>8. TicketInv'
    BY <1>3, <1>6 DEF TicketInv, NobodyReady, WebHears, servers
<1> QED
    BY <1>7, <1>8

LEMMA WebAbortsKeeps ==
    ASSUME UploadTypes, TicketInv, WebAborts
    PROVE  UploadTypes' /\ TicketInv'
<1>1. UploadTypes'
    BY GiveUpIsTyped DEF UploadTypes, UploadTypeOK, WebAborts, servers
<1>2. TicketInv'
    BY GiveUpIsTyped DEF TicketInv, NobodyReady, WebAborts, servers
<1> QED
    BY <1>1, <1>2

LEMMA PostKeeps ==
    ASSUME UploadTypes, TicketInv, Post
    PROVE  UploadTypes' /\ TicketInv'
<1>1. store.image /\ store' = store
    BY DEF Post, TicketInv, NobodyReady
<1>2. uploads' \subseteq uploads /\ command' \in BOOLEAN
    BY DEF Post, UploadTypes, UploadTypeOK
<1>3. /\ web' \in Web /\ web'.socket = web.socket
      /\ toServer' \in Seq(Requests) /\ toServer' \in Seq(Request)
    <2>1. web \in Web /\ toServer \in Seq(Requests) /\ toServer \in Seq(Request)
        BY DEF UploadTypes, UploadTypeOK
    <2>2. CASE GiveUp
        BY <2>2, GiveUpIsTyped
    <2>3. CASE web' = [web EXCEPT !.phase = "sent"] /\ UNCHANGED toServer
        BY <2>1, <2>3 DEF Web
    <2> QED
        BY <2>2, <2>3 DEF Post
<1>4. UploadTypes'
    BY <1>2, <1>3 DEF UploadTypes, UploadTypeOK, Post
<1>5. TicketInv'
    BY <1>1 DEF TicketInv
<1> QED
    BY <1>4, <1>5
-----------------------------------------------------------------------------
(* The server *)

LEMMA RemoveIsTyped ==
    ASSUME UploadTypes, NEW of \in Transfers, Remove(of)
    PROVE  uploads' \subseteq uploads /\ toConnector' \in Seq(Controls)
<1>1. 0 \in Offsets
    BY UploadAssumption DEF Offsets
<1> QED
    BY <1>1, ForwardIsTyped DEF Remove

LEMMA UploadsTransfers ==
    ASSUME UploadTypes, NEW u \in uploads
    PROVE  u \in Upload /\ u.transfer \in Transfers /\ u.socket \in Sockets /\ u.next \in Offsets
BY DEF UploadTypes, UploadTypeOK, Upload

\* What an answer to a browser leaves: a notice that is not about a complete image.
LEMMA TellsNothingReady ==
    ASSUME UploadTypes, TicketInv, NEW socket \in Sockets, NEW at \in Offsets,
           NEW state \in {"progress", "ready", "failed", "cancelled"}, Tell(socket, state, at),
           state = "ready" => store.image
    PROVE  /\ toWeb' \in Seq(Notice)
           /\ ~store.image => toWeb' \in Seq({n \in Notice : n.state # "ready"})
<1> DEFINE n == [state |-> state, at |-> at, socket |-> socket]
<1>1. n \in Notice /\ n.state = state
    BY DEF Notice
<1>2. toWeb' \in Seq(Notice)
    BY <1>1, TellIsTyped DEF UploadTypes, UploadTypeOK
<1>3. ASSUME ~store.image PROVE toWeb' \in Seq({m \in Notice : m.state # "ready"})
    <2>1. n \in {m \in Notice : m.state # "ready"}
        BY <1>1, <1>3
    <2>2. toWeb \in Seq({m \in Notice : m.state # "ready"})
        BY <1>3 DEF TicketInv, NobodyReady
    <2> QED
        BY <2>1, <2>2, TellIsTyped
<1> QED
    BY <1>2, <1>3

\* A step of the server leaves the browser and the store alone, and makes no upload
\* ready unless there is an image.
LEMMA ServerKeeps ==
    ASSUME UploadTypes, TicketInv,
           UNCHANGED <<web, command, store, transfer, link, lost, cut, faults>>,
           uploads' \subseteq Upload, busy' \in Awaited, issued' \in 0..MaxAttempts,
           toServer' \in Seq(Requests), toConnector' \in Seq(Controls),
           toWeb' \in Seq(Notice), fromConnector' \in Seq(Status),
           ~store.image => /\ \A u \in uploads' : u.state # "ready"
                           /\ toWeb' \in Seq({n \in Notice : n.state # "ready"})
                           /\ fromConnector' \in Seq({s \in Status : s.state # "ready"})
    PROVE  UploadTypes' /\ TicketInv'
<1>1. UploadTypes'
    <2>1. toServer' \in Seq(Request) /\ toConnector' \in Seq(Control)
        BY DEF Requests, Controls
    <2>2. busy' \in {Idle} \cup [type : Waiting, socket : Sockets, at : Offsets, of : 0..MaxAttempts]
        BY DEF Awaited
    <2> QED
        BY <2>1, <2>2 DEF UploadTypes, UploadTypeOK
<1>2. TicketInv'
    BY DEF TicketInv, NobodyReady
<1> QED
    BY <1>1, <1>2

LEMMA ServerTakesKeeps ==
    ASSUME UploadTypes, TicketInv, ServerTakes
    PROVE  UploadTypes' /\ TicketInv'
<1> DEFINE q == Head(toServer)
           mine == UploadsOf(q.socket)
<1>1. toServer # <<>> /\ toServer' = Tail(toServer) /\ busy = Idle
    BY DEF ServerTakes
<1>2. q \in Requests /\ toServer' \in Seq(Requests)
    BY <1>1, RequestHeads
<1>3. q.socket \in Sockets /\ q.at \in Offsets /\ q.type \in Waiting \cup {"cancel"} /\ Starts(q)
    BY <1>2 DEF Requests, Request
<1>4. 0 \in Offsets /\ uploads \subseteq Upload /\ busy \in Awaited /\ toWeb \in Seq(Notice)
      /\ toConnector \in Seq(Controls) /\ fromConnector \in Seq(Status) /\ issued \in 0..MaxAttempts
    BY UploadAssumption DEF UploadTypes, UploadTypeOK, Offsets
<1>5. mine \subseteq uploads
    BY DEF UploadsOf
<1>6. ~store.image => /\ \A u \in uploads : u.state # "ready"
                      /\ toWeb \in Seq({n \in Notice : n.state # "ready"})
                      /\ fromConnector \in Seq({s \in Status : s.state # "ready"})
    BY DEF TicketInv, NobodyReady
<1>7. UNCHANGED <<web, command, store, transfer, link, lost, cut, faults, issued, fromConnector>>
    BY DEF ServerTakes
<1>8. CASE Cancel(q.socket) /\ UNCHANGED busy
    <2>1. /\ toWeb' \in Seq(Notice)
          /\ ~store.image => toWeb' \in Seq({n \in Notice : n.state # "ready"})
        BY <1>3, <1>4, <1>8, TellsNothingReady DEF Cancel
    <2>2. uploads' \subseteq uploads /\ toConnector' \in Seq(Controls)
        BY <1>4, <1>5, <1>8, UploadsTransfers, RemoveIsTyped DEF Cancel
    <2> QED
        BY <1>2, <1>4, <1>6, <1>7, <1>8, <2>1, <2>2, ServerKeeps
<1>9. CASE /\ \E u \in mine : Tell(q.socket, IF u.state = "ready" THEN "ready" ELSE "progress", u.next)
           /\ UNCHANGED <<busy, uploads, toConnector>>
    <2>1. PICK u \in mine : Tell(q.socket, IF u.state = "ready" THEN "ready" ELSE "progress", u.next)
        BY <1>9
    <2>2. u.next \in Offsets /\ (u.state = "ready" => store.image)
        BY <1>5, <1>6, UploadsTransfers
    <2>3. /\ toWeb' \in Seq(Notice)
          /\ ~store.image => toWeb' \in Seq({n \in Notice : n.state # "ready"})
        BY <1>3, <2>1, <2>2, TellsNothingReady
    <2> QED
        BY <1>2, <1>4, <1>6, <1>7, <1>9, <2>3, ServerKeeps
<1>10. CASE Tell(q.socket, "failed", 0) /\ UNCHANGED <<busy, uploads, toConnector>>
    <2>1. /\ toWeb' \in Seq(Notice)
          /\ ~store.image => toWeb' \in Seq({n \in Notice : n.state # "ready"})
        BY <1>3, <1>4, <1>10, TellsNothingReady
    <2> QED
        BY <1>2, <1>4, <1>6, <1>7, <1>10, <2>1, ServerKeeps
<1>11. CASE /\ \/ q.type = "begin" /\ mine = {}
               \/ q.type # "begin" /\ q.type # "cancel" /\ \E u \in mine : u.state = "transferring"
            /\ busy' = [type |-> q.type, socket |-> q.socket,
                        at |-> IF q.type = "complete" THEN (CHOOSE u \in mine : TRUE).next ELSE q.at,
                        of |-> IF mine = {} THEN 0 ELSE (CHOOSE u \in mine : TRUE).transfer]
            /\ UNCHANGED <<uploads, toWeb, toConnector>>
    <2> DEFINE of == IF mine = {} THEN 0 ELSE (CHOOSE u \in mine : TRUE).transfer
               at == IF q.type = "complete" THEN (CHOOSE u \in mine : TRUE).next ELSE q.at
    <2>1. q.type \in Waiting
        BY <1>3, <1>11 DEF Waiting
    <2>2. mine # {} => of \in Transfers
        BY <1>5, UploadsTransfers
    <2>3. of \in 0..MaxAttempts /\ (q.type # "begin" => of \in Transfers)
        BY <1>11, <2>2, UploadAssumption DEF Transfers
    <2>6. at \in Offsets /\ (q.type # "complete" => at = q.at)
        <3>1. q.type = "complete" => at \in Offsets
            BY <1>5, <1>11, UploadsTransfers
        <3> QED
            BY <1>3, <3>1 DEF Starts, Offsets
    <2> HIDE DEF of, at
    <2>4. busy' = [type |-> q.type, socket |-> q.socket, at |-> at, of |-> of]
        BY <1>11 DEF of, at
    <2>5. busy' \in Awaited
        BY <1>3, <2>1, <2>3, <2>4, <2>6 DEF Awaited, Starts
    <2> QED
        BY <1>2, <1>4, <1>6, <1>7, <1>11, <2>5, ServerKeeps
<1> QED
    BY <1>8, <1>9, <1>10, <1>11 DEF ServerTakes

LEMMA BecomesIsTyped ==
    ASSUME UploadTypes, NEW u \in Upload, Becomes(u)
    PROVE  /\ uploads' \subseteq Upload
           /\ (\A v \in uploads : v.state # "ready") /\ u.state # "ready"
                => \A v \in uploads' : v.state # "ready"
<1>1. uploads \subseteq Upload
    BY DEF UploadTypes, UploadTypeOK
<1>2. \A w \in uploads' : w = u \/ w \in uploads
    BY DEF Becomes
<1> QED
    BY <1>1, <1>2

LEMMA ServerResumesKeeps ==
    ASSUME UploadTypes, TicketInv, ServerResumes
    PROVE  UploadTypes' /\ TicketInv'
<1>1. busy # Idle /\ busy' = Idle
    BY DEF ServerResumes
<1>2. /\ busy \in [type : Waiting, socket : Sockets, at : Offsets, of : 0..MaxAttempts]
      /\ Starts(busy) /\ (busy.type # "begin" => busy.of \in Transfers)
    BY <1>1 DEF UploadTypes, Awaited
<1>3. busy.socket \in Sockets /\ busy.at \in Offsets /\ busy.type \in Waiting /\ busy' \in Awaited
    BY <1>1, <1>2 DEF Awaited
<1>4. /\ 0 \in Offsets /\ uploads \subseteq Upload /\ toWeb \in Seq(Notice) /\ issued \in 0..MaxAttempts
      /\ toConnector \in Seq(Controls) /\ fromConnector \in Seq(Status) /\ toServer \in Seq(Requests)
    BY UploadAssumption DEF UploadTypes, UploadTypeOK, Offsets
<1>5. ~store.image => /\ \A u \in uploads : u.state # "ready"
                      /\ toWeb \in Seq({n \in Notice : n.state # "ready"})
                      /\ fromConnector \in Seq({s \in Status : s.state # "ready"})
    BY DEF TicketInv, NobodyReady
<1>6. UNCHANGED <<web, command, store, transfer, link, lost, cut, faults, toServer, fromConnector>>
    BY DEF ServerResumes
<1> DEFINE Quiet == /\ toWeb' \in Seq(Notice)
                    /\ ~store.image => toWeb' \in Seq({n \in Notice : n.state # "ready"})
<1>7. ASSUME Tell(busy.socket, "failed", 0) PROVE Quiet
    BY <1>3, <1>4, <1>7, TellsNothingReady
<1>8. CASE busy.type = "begin" /\ Tell(busy.socket, "failed", 0) /\ UNCHANGED <<uploads, issued, toConnector>>
    BY <1>3, <1>4, <1>5, <1>6, <1>7, <1>8, ServerKeeps
<1>9. CASE /\ link = "active" /\ issued < MaxAttempts
           /\ issued' = issued + 1
           /\ uploads' = uploads \cup {[transfer |-> issued + 1, socket |-> busy.socket, next |-> 0,
                                        state |-> "transferring"]}
           /\ Forward("begin", 0, issued + 1)
           /\ UNCHANGED toWeb
    <2> DEFINE u == [transfer |-> issued + 1, socket |-> busy.socket, next |-> 0, state |-> "transferring"]
    <2>1. issued + 1 \in Transfers /\ issued' \in 0..MaxAttempts
        BY <1>4, <1>9, UploadAssumption DEF Transfers
    <2>2. u \in Upload /\ u.state # "ready"
        BY <1>3, <1>4, <2>1 DEF Upload
    <2>3. toConnector' \in Seq(Controls)
        BY <1>4, <1>9, <2>1, ForwardIsTyped DEF Waiting
    <2> HIDE DEF u
    <2>4. uploads' = uploads \cup {u}
        BY <1>9 DEF u
    <2>5. uploads' \subseteq Upload /\ (~store.image => \A v \in uploads' : v.state # "ready")
        BY <1>4, <1>5, <2>2, <2>4
    <2> QED
        BY <1>3, <1>4, <1>5, <1>6, <1>9, <2>1, <2>3, <2>5, ServerKeeps
<1>10. CASE busy.type # "begin" /\ PieceResumes
    <2> DEFINE u == Held
    <2>1. u \in Upload /\ u.transfer = busy.of /\ (~store.image => u.state # "ready")
        <3>1. CASE \E v \in uploads : v.transfer = busy.of
            <4>1. Held \in uploads /\ Held.transfer = busy.of
                BY <3>1 DEF Held
            <4> QED
                BY <1>4, <1>5, <4>1
        <3>2. CASE ~\E v \in uploads : v.transfer = busy.of
            <4>1. Held = [transfer |-> busy.of, socket |-> busy.socket, next |-> busy.at,
                          state |-> "transferring"]
                BY <3>2 DEF Held
            <4> QED
                BY <1>2, <1>3, <1>10, <4>1 DEF Upload
        <3> QED
            BY <3>1, <3>2
    <2>2. u.transfer \in Transfers /\ u.socket \in Sockets /\ u.next \in Offsets
        BY <2>1 DEF Upload
    <2> HIDE DEF u
    <2>3. issued' = issued
        BY <1>10 DEF PieceResumes
    <2>4. ASSUME Tell(u.socket, "failed", 0) PROVE Quiet
        BY <1>4, <2>2, <2>4, TellsNothingReady
    <2>5. CASE /\ Tell(u.socket, "failed", 0)
               /\ uploads' = uploads \ {u} /\ UNCHANGED toConnector
        BY <1>3, <1>4, <1>5, <1>6, <2>3, <2>4, <2>5, ServerKeeps
    <2>6. CASE FailUpload(u.transfer, u.socket)
        <3>1. uploads' \subseteq uploads /\ toConnector' \in Seq(Controls)
            BY <2>2, <2>6, RemoveIsTyped DEF FailUpload
        <3>2. Quiet
            BY <2>4, <2>6 DEF FailUpload
        <3> QED
            BY <1>3, <1>4, <1>5, <1>6, <2>3, <3>1, <3>2, ServerKeeps
    <2>7. CASE /\ busy.type = "chunk" /\ busy.at = u.next
               /\ Becomes([u EXCEPT !.next = u.next + 1])
               /\ Forward("chunk", busy.at, u.transfer)
               /\ UNCHANGED toWeb
        <3> DEFINE w == [u EXCEPT !.next = u.next + 1]
        <3>1. busy.at < Chunks /\ u.next + 1 \in Offsets
            BY <1>2, <1>3, <2>2, <2>7, UploadAssumption DEF Starts, Offsets
        <3>2. w \in Upload /\ w.state = u.state
            BY <2>1, <3>1 DEF Upload
        <3> HIDE DEF w
        <3>3. Becomes(w)
            BY <2>7 DEF w
        <3>4. uploads' \subseteq Upload /\ (~store.image => \A v \in uploads' : v.state # "ready")
            BY <1>5, <2>1, <3>2, <3>3, BecomesIsTyped
        <3>5. toConnector' \in Seq(Controls)
            BY <1>3, <2>2, <2>7, <3>1, ForwardIsTyped DEF Waiting
        <3> QED
            BY <1>3, <1>4, <1>5, <1>6, <2>3, <2>7, <3>4, <3>5, ServerKeeps
    <2>8. CASE /\ busy.type = "complete" /\ u.next = Chunks
               /\ Becomes([u EXCEPT !.state = "verifying"])
               /\ Forward("complete", 0, u.transfer)
               /\ UNCHANGED toWeb
        <3> DEFINE w == [u EXCEPT !.state = "verifying"]
        <3>1. w \in Upload /\ w.state = "verifying"
            BY <2>1 DEF Upload
        <3> HIDE DEF w
        <3>2. Becomes(w)
            BY <2>8 DEF w
        <3>3. uploads' \subseteq Upload /\ (~store.image => \A v \in uploads' : v.state # "ready")
            BY <1>5, <3>1, <3>2, BecomesIsTyped
        <3>4. toConnector' \in Seq(Controls)
            BY <1>4, <2>2, <2>8, ForwardIsTyped DEF Waiting
        <3> QED
            BY <1>3, <1>4, <1>5, <1>6, <2>3, <2>8, <3>3, <3>4, ServerKeeps
    <2> QED
        BY <1>10, <2>5, <2>6, <2>7, <2>8 DEF PieceResumes, u
<1> QED
    BY <1>8, <1>9, <1>10 DEF ServerResumes, BeginResumes

LEMMA ServerHearsKeeps ==
    ASSUME UploadTypes, TicketInv, ServerHears
    PROVE  UploadTypes' /\ TicketInv'
<1> DEFINE s == Head(fromConnector)
<1>1. fromConnector # <<>> /\ fromConnector' = Tail(fromConnector)
    BY DEF ServerHears
<1>2. /\ 0 \in Offsets /\ uploads \subseteq Upload /\ toWeb \in Seq(Notice) /\ issued \in 0..MaxAttempts
      /\ toConnector \in Seq(Controls) /\ fromConnector \in Seq(Status) /\ toServer \in Seq(Requests)
      /\ busy \in Awaited
    BY UploadAssumption DEF UploadTypes, UploadTypeOK, Offsets
<1>3. s \in Status /\ fromConnector' \in Seq(Status)
    BY <1>1, <1>2
<1>4. ~store.image => /\ \A u \in uploads : u.state # "ready"
                      /\ toWeb \in Seq({n \in Notice : n.state # "ready"})
                      /\ fromConnector \in Seq({t \in Status : t.state # "ready"})
    BY DEF TicketInv, NobodyReady
<1>5. ~store.image => s.state # "ready" /\ fromConnector' \in Seq({t \in Status : t.state # "ready"})
    BY <1>1, <1>4
<1>6. UNCHANGED <<web, busy, issued, command, store, transfer, link, toServer, lost, cut, faults>>
    BY DEF ServerHears
<1>7. CASE UNCHANGED <<uploads, toWeb, toConnector>>
    BY <1>2, <1>3, <1>4, <1>5, <1>6, <1>7, ServerKeeps
<1> DEFINE Quiet == /\ toWeb' \in Seq(Notice)
                    /\ ~store.image => toWeb' \in Seq({n \in Notice : n.state # "ready"})
<1>8. ASSUME NEW u \in uploads, FailUpload(u.transfer, u.socket)
      PROVE  UploadTypes' /\ TicketInv'
    <2>1. uploads' \subseteq uploads /\ toConnector' \in Seq(Controls)
        BY <1>8, UploadsTransfers, RemoveIsTyped DEF FailUpload
    <2>2. Quiet
        BY <1>2, <1>8, UploadsTransfers, TellsNothingReady DEF FailUpload
    <2> QED
        BY <1>2, <1>3, <1>4, <1>5, <1>6, <2>1, <2>2, ServerKeeps
<1>9. ASSUME NEW u \in uploads, Tell(u.socket, "progress", u.next), UNCHANGED <<uploads, toConnector>>
      PROVE  UploadTypes' /\ TicketInv'
    <2>1. Quiet
        BY <1>9, UploadsTransfers, TellsNothingReady
    <2> QED
        BY <1>2, <1>3, <1>4, <1>5, <1>6, <1>9, <2>1, ServerKeeps
<1>10. ASSUME NEW u \in uploads, s.state = "ready", Becomes([u EXCEPT !.state = "ready"]),
              Tell(u.socket, "ready", 0), UNCHANGED toConnector
       PROVE  UploadTypes' /\ TicketInv'
    <2> DEFINE w == [u EXCEPT !.state = "ready"]
    <2>1. w \in Upload /\ store.image
        BY <1>5, <1>10, UploadsTransfers DEF Upload
    <2> HIDE DEF w
    <2>2. uploads' \subseteq Upload
        BY <1>10, <2>1, BecomesIsTyped DEF w
    <2>3. Quiet
        BY <1>2, <1>10, <2>1, UploadsTransfers, TellsNothingReady
    <2> QED
        BY <1>2, <1>3, <1>6, <1>10, <2>1, <2>2, <2>3, ServerKeeps
<1>11. ASSUME NEW u \in uploads, s.state \in {"failed", "cancelled"}, Tell(u.socket, s.state, 0),
              uploads' = uploads \ {u}, UNCHANGED toConnector
       PROVE  UploadTypes' /\ TicketInv'
    <2>1. Quiet
        <3>1. s.state \in {"progress", "ready", "failed", "cancelled"} /\ s.state # "ready"
            BY <1>11
        <3> QED
            BY <1>2, <1>11, <3>1, UploadsTransfers, TellsNothingReady
    <2> QED
        BY <1>2, <1>3, <1>4, <1>5, <1>6, <1>11, <2>1, ServerKeeps
<1> HIDE DEF s
<1> QED
    <2> SUFFICES ASSUME NEW u \in uploads, ~UNCHANGED <<uploads, toWeb, toConnector>>,
            \/ /\ s.state \in {"accepted", "progress"}
               /\ IF u.state = "transferring" /\ s.at = u.next
                  THEN Tell(u.socket, "progress", u.next) /\ UNCHANGED <<uploads, toConnector>>
                  ELSE FailUpload(u.transfer, u.socket)
            \/ /\ s.state = "ready"
               /\ IF u.state = "verifying"
                  THEN /\ Becomes([u EXCEPT !.state = "ready"])
                       /\ Tell(u.socket, "ready", 0) /\ UNCHANGED toConnector
                  ELSE FailUpload(u.transfer, u.socket)
            \/ /\ s.state \in {"failed", "cancelled"}
               /\ Tell(u.socket, s.state, 0)
               /\ uploads' = uploads \ {u} /\ UNCHANGED toConnector
                 PROVE  UploadTypes' /\ TicketInv'
        BY <1>7 DEF ServerHears, s
    <2> QED
        BY <1>8, <1>9, <1>10, <1>11

LEMMA ExpireKeeps ==
    ASSUME UploadTypes, TicketInv, Expire
    PROVE  UploadTypes' /\ TicketInv'
<1>1. PICK u \in uploads : FailUpload(u.transfer, u.socket)
    BY DEF Expire
<1>2. UNCHANGED <<web, busy, issued, command, store, transfer, link, toServer, fromConnector, lost, cut, faults>>
    BY DEF Expire
<1>3. /\ 0 \in Offsets /\ uploads \subseteq Upload /\ issued \in 0..MaxAttempts /\ busy \in Awaited
      /\ fromConnector \in Seq(Status) /\ toServer \in Seq(Requests)
    BY UploadAssumption DEF UploadTypes, UploadTypeOK, Offsets
<1>4. uploads' \subseteq uploads /\ toConnector' \in Seq(Controls)
    BY <1>1, UploadsTransfers, RemoveIsTyped DEF FailUpload
<1>5. /\ toWeb' \in Seq(Notice)
      /\ ~store.image => toWeb' \in Seq({n \in Notice : n.state # "ready"})
    BY <1>1, <1>3, UploadsTransfers, TellsNothingReady DEF FailUpload
<1>6. ~store.image => /\ \A v \in uploads : v.state # "ready"
                      /\ fromConnector \in Seq({t \in Status : t.state # "ready"})
    BY DEF TicketInv, NobodyReady
<1> QED
    BY <1>2, <1>3, <1>4, <1>5, <1>6, ServerKeeps
-----------------------------------------------------------------------------
(* The connector *)

\* The store goes on to a legal one, and keeps an image it has.
StoreGoesOn ==
    /\ store' \in Store /\ transfer' \in 0..MaxAttempts
    /\ store'.image => store'.stored
    /\ store.image => store'.image

\* The statuses on their way fit the store of the next state.
StatusesFit ==
    /\ fromConnector' \in Seq(Status)
    /\ ~store'.image => fromConnector' \in Seq({s \in Status : s.state # "ready"})

LEMMA ReplyFits ==
    ASSUME UploadTypes, TicketInv, StoreGoesOn, NEW at \in Offsets, NEW of \in Transfers,
           NEW state \in {"accepted", "progress", "ready", "failed", "cancelled"},
           Reply(state, at, of), state = "ready" => store'.image
    PROVE  StatusesFit
<1> DEFINE s == [state |-> state, at |-> at, transfer |-> of]
<1>1. s \in Status /\ s.state = state
    BY DEF Status
<1>2. fromConnector' \in Seq(Status)
    BY <1>1, ReplyIsTyped DEF UploadTypes, UploadTypeOK
<1>3. ASSUME ~store'.image PROVE fromConnector' \in Seq({t \in Status : t.state # "ready"})
    <2>1. s \in {t \in Status : t.state # "ready"}
        BY <1>1, <1>3
    <2>2. fromConnector \in Seq({t \in Status : t.state # "ready"})
        BY <1>3 DEF TicketInv, NobodyReady, StoreGoesOn
    <2> QED
        BY <2>1, <2>2, ReplyIsTyped
<1> QED
    BY <1>2, <1>3 DEF StatusesFit

LEMMA DiscardedKeeps ==
    ASSUME UploadTypes, TicketInv
    PROVE  /\ Discarded(store) \in Store /\ Discarded(store).image = store.image
           /\ Discarded(store).image => Discarded(store).stored
<1>1. store \in Store
    BY DEF UploadTypes, UploadTypeOK
<1>2. Discarded(store) = store \/ Discarded(store) = [store EXCEPT !.row = None, !.part = None]
    BY DEF Discarded
<1>3. /\ Discarded(store) \in Store /\ Discarded(store).image = store.image
      /\ Discarded(store).stored = store.stored
    BY <1>1, <1>2 DEF Store
<1> QED
    BY <1>3 DEF TicketInv

LEMMA RefuseKeeps ==
    ASSUME UploadTypes, TicketInv, NEW of \in Transfers, Refuse(of)
    PROVE  StoreGoesOn /\ StatusesFit
<1>1. 0 \in Offsets /\ 0 \in 0..MaxAttempts
    BY UploadAssumption DEF Offsets
<1>2. StoreGoesOn
    BY <1>1, DiscardedKeeps DEF StoreGoesOn, Refuse
<1> QED
    BY <1>1, <1>2, ReplyFits DEF Refuse

LEMMA StoreStepsKeep ==
    ASSUME UploadTypes, TicketInv, NEW m \in Controls,
           \/ StoreBegins(m) \/ StoreAppends(m) \/ StoreCompletes(m) \/ StoreCancels(m)
           \/ Refuse(m.transfer)
           \/ Reply("failed", 0, m.transfer) /\ UNCHANGED <<store, transfer>>
    PROVE  StoreGoesOn /\ StatusesFit
<1>1. /\ 0 \in Offsets /\ Chunks \in Offsets /\ 0 \in 0..MaxAttempts
      /\ m.transfer \in Transfers /\ m.at \in Offsets /\ m.transfer \in 0..MaxAttempts
    BY UploadAssumption DEF Offsets, Controls, Control, Transfers
<1>2. store \in Store /\ transfer \in 0..MaxAttempts /\ (store.image => store.stored)
    BY DEF UploadTypes, UploadTypeOK, TicketInv
<1>3. ASSUME UNCHANGED store, transfer' \in 0..MaxAttempts PROVE StoreGoesOn
    BY <1>2, <1>3 DEF StoreGoesOn
<1>4. CASE Reply("failed", 0, m.transfer) /\ UNCHANGED <<store, transfer>>
    BY <1>1, <1>2, <1>3, <1>4, ReplyFits
<1>5. CASE Refuse(m.transfer)
    BY <1>1, <1>5, RefuseKeeps
<1>6. CASE StoreBegins(m)
    <2>1. CASE store.image
        BY <1>1, <1>3, <1>6, <2>1, ReplyFits DEF StoreBegins
    <2>2. CASE ~store.image /\ store.row = None
        <3>1. store' = [store EXCEPT !.row = 0, !.part = 0] /\ transfer' = m.transfer
              /\ Reply("accepted", 0, m.transfer)
            BY <1>6, <2>2 DEF StoreBegins
        <3>2. store' \in Store /\ store'.image = store.image
            BY <1>1, <1>2, <3>1 DEF Store
        <3>3. StoreGoesOn
            BY <1>1, <2>2, <3>1, <3>2 DEF StoreGoesOn
        <3> QED
            BY <1>1, <3>1, <3>3, ReplyFits
    <2>3. CASE ~store.image /\ store.row # None
        <3>1. store.row \in Offsets
            BY <1>2, <2>3 DEF Store
        <3> QED
            BY <1>1, <1>3, <1>6, <2>3, <3>1, ReplyFits DEF StoreBegins
    <2> QED
        BY <2>1, <2>2, <2>3
<1>7. CASE StoreAppends(m)
    <2>1. CASE store.row = m.at /\ store.part = m.at /\ m.at < Chunks
        <3>1. store' = [store EXCEPT !.row = m.at + 1, !.part = m.at + 1] /\ transfer' = transfer
              /\ Reply("progress", m.at + 1, m.transfer)
            BY <1>7, <2>1 DEF StoreAppends
        <3>2. m.at + 1 \in Offsets
            BY <1>1, <2>1, UploadAssumption DEF Offsets
        <3>3. store' \in Store /\ store'.image = store.image /\ store'.stored = store.stored
            BY <1>2, <3>1, <3>2 DEF Store
        <3>4. StoreGoesOn
            BY <1>2, <3>1, <3>3 DEF StoreGoesOn
        <3> QED
            BY <1>1, <3>1, <3>2, <3>4, ReplyFits
    <2>2. CASE ~(store.row = m.at /\ store.part = m.at /\ m.at < Chunks)
        BY <1>1, <1>7, <2>2, RefuseKeeps DEF StoreAppends
    <2> QED
        BY <2>1, <2>2
<1>8. CASE StoreCompletes(m)
    <2>1. CASE store.image \/ store.row = Chunks
        <3>1. store' = [store EXCEPT !.row = None, !.part = None, !.image = TRUE, !.stored = TRUE]
              /\ transfer' = 0 /\ Reply("ready", Chunks, m.transfer)
            BY <1>8, <2>1 DEF StoreCompletes
        <3>2. store' \in Store /\ store'.image /\ store'.stored
            BY <1>2, <3>1 DEF Store
        <3>3. StoreGoesOn
            BY <1>1, <3>1, <3>2 DEF StoreGoesOn
        <3> QED
            BY <1>1, <3>1, <3>2, <3>3, ReplyFits
    <2>2. CASE ~(store.image \/ store.row = Chunks)
        BY <1>1, <1>8, <2>2, RefuseKeeps DEF StoreCompletes
    <2> QED
        BY <2>1, <2>2
<1>9. CASE StoreCancels(m)
    <2>1. StoreGoesOn /\ store'.image = store.image
        BY <1>1, <1>9, DiscardedKeeps DEF StoreCancels, StoreGoesOn
    <2> QED
        BY <1>1, <1>9, <2>1, ReplyFits DEF StoreCancels
<1> QED
    BY <1>4, <1>5, <1>6, <1>7, <1>8, <1>9

LEMMA ConnectorHearsKeeps ==
    ASSUME UploadTypes, TicketInv, ConnectorHears
    PROVE  UploadTypes' /\ TicketInv'
<1> DEFINE m == Head(toConnector)
<1>1. toConnector # <<>> /\ toConnector' = Tail(toConnector)
    BY DEF ConnectorHears
<1>2. m \in Controls /\ toConnector' \in Seq(Controls) /\ toConnector' \in Seq(Control)
    BY <1>1, ControlHeads, ControlsAreControl
<1>3. StoreGoesOn /\ StatusesFit
    <2>1. \/ StoreBegins(m) \/ StoreAppends(m) \/ StoreCompletes(m) \/ StoreCancels(m)
          \/ Refuse(m.transfer)
          \/ Reply("failed", 0, m.transfer) /\ UNCHANGED <<store, transfer>>
        BY DEF ConnectorHears
    <2> QED
        BY <1>2, <2>1, StoreStepsKeep
<1>4. UNCHANGED <<web, servers, link, toServer, toWeb, lost, cut, faults>>
    BY DEF ConnectorHears
<1>5. UploadTypes'
    BY <1>2, <1>3, <1>4 DEF UploadTypes, UploadTypeOK, StoreGoesOn, StatusesFit, servers
<1>6. TicketInv'
    BY <1>3, <1>4 DEF TicketInv, NobodyReady, StoreGoesOn, StatusesFit, servers
<1> QED
    BY <1>5, <1>6
-----------------------------------------------------------------------------
(* Sockets and crashes *)

LEMMA OfflineIsTyped ==
    ASSUME UploadTypes, TicketInv, Offline
    PROVE  /\ uploads' = {} /\ toWeb' \in Seq(Notice)
           /\ ~store.image => toWeb' \in Seq({n \in Notice : n.state # "ready"})
<1> DEFINE n == [state |-> "failed", at |-> 0, socket |-> web.socket]
<1>1. 0 \in Offsets /\ web.socket \in Sockets
    BY UploadAssumption DEF Offsets, UploadTypes, UploadTypeOK, Web
<1>2. n \in Notice /\ n.state # "ready"
    BY <1>1 DEF Notice
<1>3. toWeb' = Append(toWeb, n) \/ toWeb' = toWeb
    BY DEF Offline
<1>4. toWeb' \in Seq(Notice)
    <2>1. toWeb \in Seq(Notice)
        BY DEF UploadTypes, UploadTypeOK
    <2> QED
        BY <1>2, <1>3, <2>1
<1>5. ASSUME ~store.image PROVE toWeb' \in Seq({t \in Notice : t.state # "ready"})
    <2>1. toWeb \in Seq({t \in Notice : t.state # "ready"})
        BY <1>5 DEF TicketInv, NobodyReady
    <2> QED
        BY <1>2, <1>3, <2>1
<1> QED
    BY <1>4, <1>5 DEF Offline

LEMMA FaultIsTyped ==
    ASSUME UploadTypes, Fault
    PROVE  /\ faults' \in 0..MaxFaults /\ faults' = faults + 1 /\ faults + 1 <= MaxFaults
           /\ web.socket <= faults' /\ web.socket + 1 <= faults' + 1
<1>1. faults \in 0..MaxFaults /\ web.socket \in Sockets
    BY DEF UploadTypes, UploadTypeOK, Web
<1> QED
    BY <1>1, UploadAssumption DEF Fault, UploadTypes, Sockets

LEMMA WiresCut ==
    ASSUME UploadTypes, TicketInv,
           toConnector' \in Prefixes(toConnector), fromConnector' \in Prefixes(fromConnector)
    PROVE  /\ toConnector' \in Seq(Controls) /\ toConnector' \in Seq(Control)
           /\ fromConnector' \in Seq(Status)
           /\ ~store.image => fromConnector' \in Seq({s \in Status : s.state # "ready"})
<1>1. toConnector' \in Seq(Controls) /\ fromConnector' \in Seq(Status)
    BY PrefixIsTyped DEF UploadTypes, UploadTypeOK
<1>2. ~store.image => fromConnector' \in Seq({s \in Status : s.state # "ready"})
    BY PrefixIsTyped DEF TicketInv, NobodyReady
<1> QED
    BY <1>1, <1>2, ControlsAreControl

LEMMA LinksKeep ==
    ASSUME UploadTypes, TicketInv, LinkLost \/ LinkReplaced \/ LinkRegisters \/ LinkActivates
    PROVE  UploadTypes' /\ TicketInv'
<1>1. CASE LinkLost
    <2>1. UploadTypes'
        <3>1. /\ web' \in Web /\ uploads' \subseteq Upload /\ busy' \in Awaited
              /\ issued' \in 0..MaxAttempts /\ store' \in Store /\ transfer' \in 0..MaxAttempts
              /\ toServer' \in Seq(Requests) /\ toServer' \in Seq(Request)
              /\ busy' \in {Idle} \cup [type : Waiting, socket : Sockets, at : Offsets, of : 0..MaxAttempts]
            BY <1>1, OfflineIsTyped DEF LinkLost, UploadTypes, UploadTypeOK
        <3>2. command' \in BOOLEAN /\ lost' \in BOOLEAN /\ cut' \in BOOLEAN
              /\ link' \in {"active", "pending", "down"}
            BY <1>1 DEF LinkLost, UploadTypes, UploadTypeOK
        <3>3. faults' \in 0..MaxFaults /\ web'.socket <= faults' + 1
            <4>1. web' = web /\ faults \in 0..MaxFaults /\ web.socket <= faults + 1 /\ web.socket \in Sockets
                BY <1>1 DEF LinkLost, UploadTypes, UploadTypeOK, Web
            <4> QED
                BY <1>1, <4>1, FaultIsTyped DEF LinkLost, Sockets
        <3> QED
            BY <1>1, <3>1, <3>2, <3>3, OfflineIsTyped, WiresCut DEF LinkLost, UploadTypes, UploadTypeOK
    <2>2. TicketInv'
        BY <1>1, OfflineIsTyped, WiresCut DEF LinkLost, TicketInv, NobodyReady
    <2> QED
        BY <2>1, <2>2
<1>2. CASE LinkReplaced
    <2>1. UploadTypes'
        <3>1. /\ web' \in Web /\ uploads' \subseteq Upload /\ busy' \in Awaited
              /\ issued' \in 0..MaxAttempts /\ store' \in Store /\ transfer' \in 0..MaxAttempts
              /\ toServer' \in Seq(Requests) /\ toServer' \in Seq(Request) /\ toWeb' \in Seq(Notice)
              /\ busy' \in {Idle} \cup [type : Waiting, socket : Sockets, at : Offsets, of : 0..MaxAttempts]
            BY <1>2 DEF LinkReplaced, UploadTypes, UploadTypeOK, servers
        <3>2. command' \in BOOLEAN /\ lost' \in BOOLEAN /\ cut' \in BOOLEAN
              /\ link' \in {"active", "pending", "down"}
            BY <1>2 DEF LinkReplaced, UploadTypes, UploadTypeOK, servers
        <3>3. faults' \in 0..MaxFaults /\ web'.socket <= faults' + 1
            <4>1. web' = web /\ faults \in 0..MaxFaults /\ web.socket <= faults + 1 /\ web.socket \in Sockets
                BY <1>2 DEF LinkReplaced, UploadTypes, UploadTypeOK, Web
            <4> QED
                BY <1>2, <4>1, FaultIsTyped DEF LinkReplaced, Sockets
        <3> QED
            BY <1>2, <3>1, <3>2, <3>3, WiresCut DEF LinkReplaced, UploadTypes, UploadTypeOK
    <2>2. TicketInv'
        BY <1>2, WiresCut DEF LinkReplaced, TicketInv, NobodyReady, servers
    <2> QED
        BY <2>1, <2>2
<1>3. CASE LinkRegisters \/ LinkActivates
    <2>1. UploadTypes'
        BY <1>3 DEF LinkRegisters, LinkActivates, UploadTypes, UploadTypeOK, servers, wires
    <2>2. TicketInv'
        BY <1>3 DEF LinkRegisters, LinkActivates, TicketInv, NobodyReady, servers, wires
    <2> QED
        BY <2>1, <2>2
<1> QED
    BY <1>1, <1>2, <1>3

LEMMA DyingIsTyped ==
    ASSUME UploadTypes, TicketInv, NEW d \in Dying
    PROVE  /\ [d EXCEPT !.up = FALSE] \in Store
           /\ [d EXCEPT !.up = FALSE].image = store.image
           /\ store.image => [d EXCEPT !.up = FALSE].stored
<1>1. store \in Store /\ (store.image => store.stored)
    BY DEF UploadTypes, UploadTypeOK, TicketInv
<1>2. d \in Store /\ d.image = store.image /\ (store.image => d.stored)
    <2>1. CASE d = store
        BY <1>1, <2>1
    <2>2. CASE d = [store EXCEPT !.part = None, !.stored = TRUE]
        BY <1>1, <2>2 DEF Store
    <2>3. CASE /\ toConnector # <<>> /\ Head(toConnector).type = "chunk"
               /\ store.row = Head(toConnector).at /\ d = [store EXCEPT !.part = store.row + 1]
        <3>1. Head(toConnector) \in Controls
            BY <2>3, ControlHeads
        <3>2. store.row \in Offsets /\ store.row < Chunks
            BY <2>3, <3>1 DEF Controls, Control, Starts
        <3>3. store.row + 1 \in Offsets
            BY <3>2, UploadAssumption DEF Offsets
        <3> QED
            BY <1>1, <2>3, <3>3 DEF Store
    <2> QED
        BY <2>1, <2>2, <2>3 DEF Dying
<1> QED
    BY <1>2 DEF Store

LEMMA CrashKeeps ==
    ASSUME UploadTypes, TicketInv, Crash
    PROVE  UploadTypes' /\ TicketInv'
<1>1. store' \in Store /\ store'.image = store.image /\ (store.image => store'.stored)
    BY DyingIsTyped DEF Crash
<1>2. toConnector' \in Seq(Controls) /\ toConnector' \in Seq(Control) /\ 0 \in 0..MaxAttempts
    BY UploadAssumption DEF Crash
<1>3. UploadTypes'
    <2>1. /\ web' \in Web /\ uploads' \subseteq Upload /\ busy' \in Awaited
          /\ issued' \in 0..MaxAttempts /\ transfer' \in 0..MaxAttempts
          /\ toServer' \in Seq(Requests) /\ toServer' \in Seq(Request)
          /\ fromConnector' \in Seq(Status)
          /\ busy' \in {Idle} \cup [type : Waiting, socket : Sockets, at : Offsets, of : 0..MaxAttempts]
        BY <1>2, OfflineIsTyped DEF Crash, UploadTypes, UploadTypeOK
    <2>2. command' \in BOOLEAN /\ lost' \in BOOLEAN /\ cut' \in BOOLEAN
          /\ link' \in {"active", "pending", "down"}
        BY DEF Crash, UploadTypes, UploadTypeOK
    <2>3. faults' \in 0..MaxFaults /\ web'.socket <= faults' + 1
        <3>1. web' = web /\ faults \in 0..MaxFaults /\ web.socket <= faults + 1 /\ web.socket \in Sockets
            BY DEF Crash, UploadTypes, UploadTypeOK, Web
        <3> QED
            BY <3>1, FaultIsTyped DEF Crash, Sockets
    <2> QED
        BY <1>1, <1>2, <2>1, <2>2, <2>3, OfflineIsTyped DEF Crash, UploadTypes, UploadTypeOK
<1>4. TicketInv'
    BY <1>1, OfflineIsTyped DEF Crash, TicketInv, NobodyReady
<1> QED
    BY <1>3, <1>4

LEMMA RestartKeeps ==
    ASSUME UploadTypes, TicketInv, Restart
    PROVE  UploadTypes' /\ TicketInv'
<1>1. store \in Store
    BY DEF UploadTypes, UploadTypeOK
<1>2. store' = [store EXCEPT !.up = TRUE, !.row = None, !.part = None, !.stored = store.image]
    BY DEF Restart
<1>3. store' \in Store /\ store'.image = store.image /\ store'.stored = store.image
    BY <1>1, <1>2 DEF Store
<1>4. UploadTypes'
    BY <1>3 DEF Restart, UploadTypes, UploadTypeOK, servers, wires
<1>5. TicketInv'
    BY <1>3 DEF Restart, TicketInv, NobodyReady, servers, wires
<1> QED
    BY <1>4, <1>5

LEMMA UserReconnectsKeeps ==
    ASSUME UploadTypes, TicketInv, UserReconnects
    PROVE  UploadTypes' /\ TicketInv'
<1>1. web \in Web /\ web' = [web EXCEPT !.socket = web.socket + 1]
    BY DEF UploadTypes, UploadTypeOK, UserReconnects
<1>2. faults' = faults + 1 /\ faults' \in 0..MaxFaults /\ web.socket <= faults' /\ faults' <= MaxFaults
    BY FaultIsTyped DEF UserReconnects
<1>3. web.socket + 1 \in Sockets /\ web.socket + 1 <= faults' + 1
    BY <1>1, <1>2, UploadAssumption DEF Sockets, Web
<1>4. web' \in Web /\ web'.socket = web.socket + 1 /\ web'.phase = web.phase
    BY <1>1, <1>3 DEF Web
<1>5. toServer' \in Seq(Requests) /\ toServer' \in Seq(Request)
    BY PrefixIsTyped DEF UserReconnects, UploadTypes, UploadTypeOK
<1>6. uploads' \subseteq uploads /\ toConnector' \in Seq(Controls)
    <2>1. UploadsOf(web.socket) \subseteq uploads /\ toConnector \in Seq(Controls)
        BY DEF UploadsOf, UploadTypes
    <2> QED
        BY <2>1, UploadsTransfers, RemoveIsTyped DEF UserReconnects
<1>7. toWeb' = <<>>
    BY DEF UserReconnects
<1>8. UploadTypes'
    BY <1>2, <1>3, <1>4, <1>5, <1>6, <1>7, ControlsAreControl DEF UserReconnects, UploadTypes, UploadTypeOK
<1>9. TicketInv'
    BY <1>4, <1>6, <1>7 DEF UserReconnects, TicketInv, NobodyReady
<1> QED
    BY <1>8, <1>9
-----------------------------------------------------------------------------
LEMMA UploadStarts == UploadInit => UploadTypes /\ TicketInv
<1> SUFFICES ASSUME UploadInit PROVE UploadTypes /\ TicketInv
    OBVIOUS
<1>1. 0 \in Offsets /\ 1 \in Sockets /\ 0 \in 0..MaxAttempts /\ 0 \in 0..MaxFaults
    BY UploadAssumption DEF Offsets, Sockets
<1>2. web \in Web /\ web.socket = 1
    BY <1>1 DEF UploadInit, Web
<1>3. store \in Store /\ store.image = FALSE
    BY DEF UploadInit, Store
<1>4. UploadTypes
    <2>1. /\ busy \in Awaited /\ uploads \subseteq Upload /\ issued \in 0..MaxAttempts
          /\ transfer \in 0..MaxAttempts /\ faults \in 0..MaxFaults /\ web.socket <= faults + 1
          /\ busy \in {Idle} \cup [type : Waiting, socket : Sockets, at : Offsets, of : 0..MaxAttempts]
        BY <1>1, <1>2 DEF UploadInit, Awaited
    <2>2. /\ toServer \in Seq(Requests) /\ toServer \in Seq(Request) /\ toWeb \in Seq(Notice)
          /\ toConnector \in Seq(Controls) /\ toConnector \in Seq(Control) /\ fromConnector \in Seq(Status)
        BY DEF UploadInit
    <2>3. command \in BOOLEAN /\ lost \in BOOLEAN /\ cut \in BOOLEAN
          /\ link \in {"active", "pending", "down"}
        BY DEF UploadInit
    <2> QED
        BY <1>2, <1>3, <2>1, <2>2, <2>3 DEF UploadTypes, UploadTypeOK
<1>5. TicketInv
    BY <1>3 DEF UploadInit, TicketInv, NobodyReady
<1> QED
    BY <1>4, <1>5

LEMMA UploadStep ==
    ASSUME UploadTypes, TicketInv, [UploadNext]_uploadVars
    PROVE  UploadTypes' /\ TicketInv'
<1>1. CASE UNCHANGED uploadVars
    <2>1. UploadTypes'
        BY <1>1 DEF uploadVars, servers, wires, UploadTypes, UploadTypeOK
    <2>2. TicketInv'
        BY <1>1 DEF uploadVars, servers, wires, TicketInv, NobodyReady
    <2> QED
        BY <2>1, <2>2
<1>2. CASE Send \/ WebHears \/ WebAborts \/ Post
    BY <1>2, SendKeeps, WebHearsKeeps, WebAbortsKeeps, PostKeeps
<1>3. CASE ServerTakes \/ ServerResumes \/ ServerHears \/ Expire
    BY <1>3, ServerTakesKeeps, ServerResumesKeeps, ServerHearsKeeps, ExpireKeeps
<1>4. CASE ConnectorHears
    BY <1>4, ConnectorHearsKeeps
<1>5. CASE LinkLost \/ LinkReplaced \/ LinkRegisters \/ LinkActivates
    BY <1>5, LinksKeep
<1>6. CASE Crash \/ Restart \/ UserReconnects
    BY <1>6, CrashKeeps, RestartKeeps, UserReconnectsKeeps
<1> QED
    BY <1>1, <1>2, <1>3, <1>4, <1>5, <1>6 DEF UploadNext

\* Every variable keeps its type: offsets stay within the image, transfers within
\* the clicks, sockets within the faults (attachment-upload.ts, attachments.ts).
THEOREM UploadsAreTyped == UploadSpec => []UploadTypeOK
<1>1. UploadTypes => UploadTypeOK
    BY DEF UploadTypes
<1> QED
    BY <1>1, UploadStarts, UploadStep, PTL DEF UploadSpec

\* A ticket in the browser, an upload the server calls ready and a stored command
\* name an image with its row and its file, across crashes and stale answers
\* (local-image-store.ts, attachments.ts).
THEOREM TicketsAreStored == UploadSpec => []TicketIsStored
<1>1. UploadTypes /\ TicketInv => TicketIsStored
    BY DEF TicketIsStored, TicketInv, NobodyReady
<1> QED
    BY <1>1, UploadStarts, UploadStep, PTL DEF UploadSpec
=============================================================================

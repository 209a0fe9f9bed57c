------------------------- MODULE SessionStreamProofs -------------------------
(***************************************************************************)
(* Proofs about SessionStream for any number of changes, subscriptions,    *)
(* frames and faults: its types, and that the connector knows what the     *)
(* viewer will have (ConnectorKnowsView).  What is shown is the result of  *)
(* folding frames, so the proof first has the folds: that a recursive      *)
(* function over the positions of a sequence exists and is the only one is *)
(* shown by the least position at which it is not (LeastNumber).  A        *)
(* conversation with distinct keys is then only its set of entries         *)
(* (Content), and each frame a change of that set (Applied).               *)
(* Then the proofs about ConversationItems: texts are cut in chunks, and    *)
(* the frames of a history, replayed one after another, are that history.  *)
(***************************************************************************)
EXTENDS SessionStream, ConversationItems, SequenceTheorems, FiniteSetTheorems, WellFoundedInduction, TLAPS

Item == [kind : {"message", "image"}, id : Nat, val : Seq(Nat)]

TurnEntries == [kind : {"turn"}, id : Nat, val : Seq(BOOLEAN)]

AnyEntry == Item \cup TurnEntries

AnyFrame == [op : {"set", "start", "add"}, entry : AnyEntry]

Batch == [history : BOOLEAN, frames : Seq(AnyFrame)]

FrameMessage == [sub : Sub, failed : BOOLEAN, batch : Batch]

Shape == {"loading", "live", "error", "connector_offline", "denied"}

UserMessage == [type : {"frames"}, batch : Batch] \cup [type : {"status"}, state : Shape]

ControlMessage == [type : {"subscribe", "unsubscribe"}, sub : Sub]

View == [status : Shape, entries : Seq(Item), turns : Seq(TurnEntries)]

LiveStream ==
    [live : {TRUE}, loading : BOOLEAN, known : BOOLEAN, snapshot : Seq(AnyEntry),
     moved : BOOLEAN, queued : BOOLEAN, timer : BOOLEAN, polling : BOOLEAN,
     sync : {"none", "reading", "read"}, initial : BOOLEAN, result : Seq(AnyEntry)]

WorkstationTypes ==
    /\ thread \in Seq(AnyEntry) /\ notified \in BOOLEAN /\ changes \in Nat
    /\ notices \in Seq(AnyFrame) /\ streams \in [Sub -> LiveStream \cup {NoStream}]

LinkTypes ==
    /\ link \in {"up", "broken", "down"} /\ control \in Seq(ControlMessage)
    /\ up \in Seq(FrameMessage) /\ stale \in Seq(FrameMessage) /\ overlap \in BOOLEAN
    /\ checking \in Seq(FrameMessage) /\ Len(checking) <= 1

ServerTypes ==
    /\ route \in Sub \cup {0} /\ asked \in Nat /\ pending \in BOOLEAN
    /\ attached \in BOOLEAN /\ allowed \in BOOLEAN

ViewerTypes ==
    /\ intents \in Seq({"subscribe", "unsubscribe"}) /\ toUser \in Seq(UserMessage)
    /\ socket \in BOOLEAN /\ wants \in BOOLEAN /\ view \in View /\ asks \in Nat /\ faults \in Nat

StreamTypeOK == WorkstationTypes /\ LinkTypes /\ ServerTypes /\ ViewerTypes

\* No two entries of a conversation have one key.
Distinct(entries) == \A i, j \in DOMAIN entries : SameKey(entries[i], entries[j]) => i = j

\* A thread ends with its newest turn, and ids are given in ascending order.
InOrder(entries) ==
    LET n == Len(entries) IN
    /\ entries # <<>> /\ Distinct(entries) /\ entries[n].kind = "turn"
    /\ \A i \in DOMAIN entries : IF entries[i].kind = "turn" THEN entries[i].id <= entries[n].id
                                 ELSE entries[i].id < n

\* A stream knows what its viewer has only after its first read.
StreamInOrder(s) ==
    s.live => /\ Distinct(s.snapshot) /\ Distinct(s.result)
              /\ s.known => ~s.loading /\ ~s.initial

StreamsInOrder == \A s \in Sub : StreamInOrder(streams[s])

\* Subscriptions that are asked for and not yet made.
Asking(q) == {i \in DOMAIN q : q[i] = "subscribe"}

\* No subscription is made that was not asked for, and none while one is authorized.
RoutesInOrder ==
    /\ asked + Cardinality(Asking(intents)) <= asks /\ asks <= MaxSubs
    /\ route <= asked
    /\ pending => route = 0
    /\ pending /\ attached => intents # <<>> /\ Head(intents) = "subscribe"
    /\ socket => attached

Content(v) == ToSet(v.entries) \cup ToSet(v.turns)

\* Following, and also while the connector has messages about other subscriptions.
Synced ==
    /\ route # 0 /\ wants /\ socket /\ allowed /\ link = "up" /\ ~overlap /\ stale = <<>>
    /\ intents = <<>> /\ \A i \in DOMAIN control : control[i].sub # route
    /\ Live(route) /\ streams[route].known

\* The frames on their way turn what is shown into the snapshot.
ArrivesAsSnapshot == Synced => Content(Arrived) = ToSet(streams[route].snapshot)

IsHistory(m) == m.sub = route /\ ~m.failed /\ m.batch.history

\* An image of an earlier subscription is followed by a history of the present one.
HistoryFollows ==
    Synced /\ checking # <<>> /\ checking[1].sub # route =>
        \E i \in DOMAIN up : IsHistory(up[i])

ViewInOrder == Distinct(view.entries) /\ Distinct(view.turns)

StreamInv ==
    /\ StreamTypeOK /\ InOrder(thread) /\ StreamsInOrder /\ RoutesInOrder /\ ViewInOrder
    /\ ArrivesAsSnapshot /\ HistoryFollows
-----------------------------------------------------------------------------
(* Induction over natural numbers by a least counterexample. *)

LEMMA LeastNumber ==
    ASSUME NEW T, T \subseteq Nat, T # {}
    PROVE  \E n \in T : \A m \in T : n <= m
<1> DEFINE U == {0..n : n \in T}
<1>1. U \subseteq FiniteSubsetsOf(Nat) /\ U # {}
    <2>1. ASSUME NEW n \in T PROVE 0..n \in FiniteSubsetsOf(Nat)
        BY FS_Interval DEF FiniteSubsetsOf
    <2> QED
        BY <2>1
<1>2. \E x \in U : \A y \in U : ~(<<y, x>> \in StrictSubsetOrdering(Nat))
    <2> HIDE DEF U
    <2> QED
        BY <1>1, FS_StrictSubsetOrderingWellFounded, WFMin
<1>3. PICK n \in T : \A m \in T : ~(<<0..m, 0..n>> \in StrictSubsetOrdering(Nat))
    BY <1>2
<1>4. ASSUME NEW m \in T, m < n PROVE FALSE
    <2>1. n \in 0..n /\ n \notin 0..m
        BY <1>4
    <2>2. 0..m \subseteq 0..n /\ 0..m # 0..n
        BY <1>4, <2>1
    <2>3. 0..m \in SUBSET Nat /\ 0..n \in SUBSET Nat
        OBVIOUS
    <2>4. <<0..m, 0..n>> \in StrictSubsetOrdering(Nat)
        BY <2>2, <2>3 DEF StrictSubsetOrdering
    <2> QED
        BY <1>3, <2>4
<1> QED
    BY <1>4
-----------------------------------------------------------------------------
(* Frames shown one after another. *)

ShowsFrames(g, v, q) ==
    g = [i \in 0..Len(q) |-> IF i = 0 THEN v ELSE ShowFrame(g[i - 1], q[i])]

LEMMA FramesHaveSteps ==
    ASSUME NEW v, NEW q, Len(q) \in Nat
    PROVE  \E g : ShowsFrames(g, v, q)
<1> DEFINE Upto(n) == \E g : g = [i \in 0..n |-> IF i = 0 THEN v ELSE ShowFrame(g[i - 1], q[i])]
           T == {n \in 0..Len(q) : ~Upto(n)}
<1>1. Upto(0)
    <2> DEFINE g == [i \in 0..0 |-> v]
    <2>1. g = [i \in 0..0 |-> IF i = 0 THEN v ELSE ShowFrame(g[i - 1], q[i])]
        OBVIOUS
    <2> QED
        BY <2>1
<1>2. ASSUME NEW n \in Nat, Upto(n) PROVE Upto(n + 1)
    <2>1. PICK g : g = [i \in 0..n |-> IF i = 0 THEN v ELSE ShowFrame(g[i - 1], q[i])]
        BY <1>2
    <2> DEFINE h == [i \in 0..(n + 1) |-> IF i = n + 1 THEN ShowFrame(g[n], q[n + 1]) ELSE g[i]]
    <2>2. \A i \in 0..(n + 1) : h[i] = IF i = 0 THEN v ELSE ShowFrame(h[i - 1], q[i])
        <3> TAKE i \in 0..(n + 1)
        <3>1. CASE i = 0
            BY <2>1, <3>1
        <3>2. CASE i \in 1..n
            <4>1. h[i] = g[i] /\ h[i - 1] = g[i - 1] /\ i \in 0..n
                BY <3>2
            <4>2. g[i] = ShowFrame(g[i - 1], q[i])
                BY <2>1, <3>2, <4>1
            <4> QED
                BY <3>2, <4>1, <4>2
        <3>3. CASE i = n + 1
            BY <3>3
        <3> QED
            BY <3>1, <3>2, <3>3
    <2>3. h = [i \in 0..(n + 1) |-> IF i = 0 THEN v ELSE ShowFrame(h[i - 1], q[i])]
        BY <2>2
    <2> QED
        BY <2>3
<1> HIDE DEF Upto
<1>3. T = {}
    <2> SUFFICES ASSUME T # {} PROVE FALSE
        OBVIOUS
    <2>0. T \subseteq Nat
        OBVIOUS
    <2>1. PICK n \in T : \A m \in T : n <= m
        <3> HIDE DEF T
        <3> QED
            BY <2>0, LeastNumber
    <2>2. n # 0
        BY <1>1
    <2>3. n - 1 \in 0..Len(q) /\ n - 1 \notin T
        BY <2>1, <2>2
    <2>4. Upto(n - 1)
        BY <2>3
    <2>5. Upto((n - 1) + 1)
        BY <1>2, <2>3, <2>4
    <2> QED
        BY <2>3, <2>5
<1>4. Upto(Len(q))
    BY <1>3
<1> QED
    BY <1>4 DEF Upto, ShowsFrames

LEMMA FramesHaveOneOutcome ==
    ASSUME NEW v, NEW q, Len(q) \in Nat, NEW g, NEW h, ShowsFrames(g, v, q), ShowsFrames(h, v, q)
    PROVE  g = h
<1> DEFINE T == {i \in 0..Len(q) : g[i] # h[i]}
<1>1. \A i \in 0..Len(q) : /\ g[i] = IF i = 0 THEN v ELSE ShowFrame(g[i - 1], q[i])
                           /\ h[i] = IF i = 0 THEN v ELSE ShowFrame(h[i - 1], q[i])
    BY DEF ShowsFrames
<1>2. T = {}
    <2> SUFFICES ASSUME T # {} PROVE FALSE
        OBVIOUS
    <2>0. T \subseteq Nat
        OBVIOUS
    <2>1. PICK i \in T : \A m \in T : i <= m
        <3> HIDE DEF T
        <3> QED
            BY <2>0, LeastNumber
    <2>2. i # 0
        BY <1>1
    <2>3. i - 1 \in 0..Len(q) /\ i - 1 \notin T
        BY <2>1, <2>2
    <2>4. g[i - 1] = h[i - 1]
        BY <2>3
    <2> QED
        BY <1>1, <2>2, <2>4
<1>3. \A i \in 0..Len(q) : g[i] = h[i]
    BY <1>2
<1> QED
    BY <1>3 DEF ShowsFrames

LEMMA FramesShown ==
    ASSUME NEW v, NEW q, Len(q) \in Nat, NEW g, ShowsFrames(g, v, q)
    PROVE  ShowFrames(v, q) = g[Len(q)]
<1> DEFINE c == CHOOSE at : at = [i \in 0..Len(q) |-> IF i = 0 THEN v ELSE ShowFrame(at[i - 1], q[i])]
<1>1. ShowsFrames(c, v, q)
    BY DEF ShowsFrames
<1>2. c = g
    <2> HIDE DEF c
    <2> QED
        BY <1>1, FramesHaveOneOutcome
<1>3. ShowFrames(v, q) = c[Len(q)]
    BY DEF ShowFrames
<1> QED
    BY <1>2, <1>3

LEMMA FramesInTwoParts ==
    ASSUME NEW v, NEW q \in Seq(AnyFrame), NEW r \in Seq(AnyFrame)
    PROVE  ShowFrames(v, q \o r) = ShowFrames(ShowFrames(v, q), r)
<1> DEFINE n == Len(q)
<1>1. /\ n \in Nat /\ Len(r) \in Nat /\ Len(q \o r) = n + Len(r)
      /\ \A i \in 1..n : (q \o r)[i] = q[i]
      /\ \A i \in 1..Len(r) : (q \o r)[i + n] = r[i]
    OBVIOUS
<1> HIDE DEF n
<1>0. Len(q \o r) \in Nat
    BY <1>1
<1>2. PICK h : ShowsFrames(h, v, q \o r)
    BY <1>0, FramesHaveSteps
<1>3. \A i \in 0..(n + Len(r)) : h[i] = IF i = 0 THEN v ELSE ShowFrame(h[i - 1], (q \o r)[i])
    BY <1>1, <1>2 DEF ShowsFrames
<1>4. ShowFrames(v, q) = h[n]
    <2> DEFINE g == [i \in 0..n |-> h[i]]
    <2>1. \A i \in 0..n : g[i] = IF i = 0 THEN v ELSE ShowFrame(g[i - 1], q[i])
        <3> TAKE i \in 0..n
        <3>1. CASE i = 0
            BY <1>1, <1>3, <3>1
        <3>2. CASE i # 0
            <4>1. i \in 1..n /\ i \in 0..(n + Len(r)) /\ i - 1 \in 0..n
                BY <1>1, <3>2
            <4>2. h[i] = ShowFrame(h[i - 1], q[i])
                BY <1>1, <1>3, <3>2, <4>1
            <4> QED
                BY <3>2, <4>1, <4>2
        <3> QED
            BY <3>1, <3>2
    <2>2. ShowsFrames(g, v, q)
        BY <2>1 DEF ShowsFrames, n
    <2>3. g[n] = h[n]
        BY <1>1
    <2> HIDE DEF g
    <2> QED
        BY <1>1, <2>2, <2>3, FramesShown DEF n
<1>5. ShowFrames(h[n], r) = h[n + Len(r)]
    <2> DEFINE g == [i \in 0..Len(r) |-> h[i + n]]
    <2>1. \A i \in 0..Len(r) : g[i] = IF i = 0 THEN h[n] ELSE ShowFrame(g[i - 1], r[i])
        <3> TAKE i \in 0..Len(r)
        <3>1. CASE i = 0
            BY <1>1, <3>1
        <3>2. CASE i # 0
            <4>1. /\ i \in 1..Len(r) /\ i + n \in 0..(n + Len(r)) /\ i + n # 0
                  /\ i - 1 \in 0..Len(r) /\ (i + n) - 1 = (i - 1) + n
                BY <1>1, <3>2
            <4>2. h[i + n] = ShowFrame(h[(i - 1) + n], r[i])
                BY <1>1, <1>3, <4>1
            <4> QED
                BY <3>2, <4>1, <4>2
        <3> QED
            BY <3>1, <3>2
    <2>2. ShowsFrames(g, h[n], r)
        BY <2>1 DEF ShowsFrames
    <2>3. g[Len(r)] = h[n + Len(r)]
        BY <1>1
    <2> HIDE DEF g
    <2> QED
        BY <1>1, <2>2, <2>3, FramesShown
<1>6. ShowFrames(v, q \o r) = h[n + Len(r)]
    <2>1. ShowFrames(v, q \o r) = h[Len(q \o r)]
        BY <1>0, <1>2, FramesShown
    <2> QED
        BY <1>1, <2>1
<1> QED
    BY <1>4, <1>5, <1>6

-----------------------------------------------------------------------------
(* Messages handled one after another. *)

HandlesMessages(g, v, q) ==
    g = [i \in 0..Len(q) |-> IF i = 0 THEN v ELSE Handled(g[i - 1], q[i])]

LEMMA MessagesHaveSteps ==
    ASSUME NEW v, NEW q, Len(q) \in Nat
    PROVE  \E g : HandlesMessages(g, v, q)
<1> DEFINE Upto(n) == \E g : g = [i \in 0..n |-> IF i = 0 THEN v ELSE Handled(g[i - 1], q[i])]
           T == {n \in 0..Len(q) : ~Upto(n)}
<1>1. Upto(0)
    <2> DEFINE g == [i \in 0..0 |-> v]
    <2>1. g = [i \in 0..0 |-> IF i = 0 THEN v ELSE Handled(g[i - 1], q[i])]
        OBVIOUS
    <2> QED
        BY <2>1
<1>2. ASSUME NEW n \in Nat, Upto(n) PROVE Upto(n + 1)
    <2>1. PICK g : g = [i \in 0..n |-> IF i = 0 THEN v ELSE Handled(g[i - 1], q[i])]
        BY <1>2
    <2> DEFINE h == [i \in 0..(n + 1) |-> IF i = n + 1 THEN Handled(g[n], q[n + 1]) ELSE g[i]]
    <2>2. \A i \in 0..(n + 1) : h[i] = IF i = 0 THEN v ELSE Handled(h[i - 1], q[i])
        <3> TAKE i \in 0..(n + 1)
        <3>1. CASE i = 0
            BY <2>1, <3>1
        <3>2. CASE i \in 1..n
            <4>1. h[i] = g[i] /\ h[i - 1] = g[i - 1] /\ i \in 0..n
                BY <3>2
            <4>2. g[i] = Handled(g[i - 1], q[i])
                BY <2>1, <3>2, <4>1
            <4> QED
                BY <3>2, <4>1, <4>2
        <3>3. CASE i = n + 1
            BY <3>3
        <3> QED
            BY <3>1, <3>2, <3>3
    <2>3. h = [i \in 0..(n + 1) |-> IF i = 0 THEN v ELSE Handled(h[i - 1], q[i])]
        BY <2>2
    <2> QED
        BY <2>3
<1> HIDE DEF Upto
<1>3. T = {}
    <2> SUFFICES ASSUME T # {} PROVE FALSE
        OBVIOUS
    <2>0. T \subseteq Nat
        OBVIOUS
    <2>1. PICK n \in T : \A m \in T : n <= m
        <3> HIDE DEF T
        <3> QED
            BY <2>0, LeastNumber
    <2>2. n # 0
        BY <1>1
    <2>3. n - 1 \in 0..Len(q) /\ n - 1 \notin T
        BY <2>1, <2>2
    <2>4. Upto(n - 1)
        BY <2>3
    <2>5. Upto((n - 1) + 1)
        BY <1>2, <2>3, <2>4
    <2> QED
        BY <2>3, <2>5
<1>4. Upto(Len(q))
    BY <1>3
<1> QED
    BY <1>4 DEF Upto, HandlesMessages

LEMMA MessagesHaveOneOutcome ==
    ASSUME NEW v, NEW q, Len(q) \in Nat, NEW g, NEW h, HandlesMessages(g, v, q), HandlesMessages(h, v, q)
    PROVE  g = h
<1> DEFINE T == {i \in 0..Len(q) : g[i] # h[i]}
<1>1. \A i \in 0..Len(q) : /\ g[i] = IF i = 0 THEN v ELSE Handled(g[i - 1], q[i])
                           /\ h[i] = IF i = 0 THEN v ELSE Handled(h[i - 1], q[i])
    BY DEF HandlesMessages
<1>2. T = {}
    <2> SUFFICES ASSUME T # {} PROVE FALSE
        OBVIOUS
    <2>0. T \subseteq Nat
        OBVIOUS
    <2>1. PICK i \in T : \A m \in T : i <= m
        <3> HIDE DEF T
        <3> QED
            BY <2>0, LeastNumber
    <2>2. i # 0
        BY <1>1
    <2>3. i - 1 \in 0..Len(q) /\ i - 1 \notin T
        BY <2>1, <2>2
    <2>4. g[i - 1] = h[i - 1]
        BY <2>3
    <2> QED
        BY <1>1, <2>2, <2>4
<1>3. \A i \in 0..Len(q) : g[i] = h[i]
    BY <1>2
<1> QED
    BY <1>3 DEF HandlesMessages

LEMMA MessagesHandled ==
    ASSUME NEW v, NEW q, Len(q) \in Nat, NEW g, HandlesMessages(g, v, q)
    PROVE  AllHandled(v, q) = g[Len(q)]
<1> DEFINE c == CHOOSE at : at = [i \in 0..Len(q) |-> IF i = 0 THEN v ELSE Handled(at[i - 1], q[i])]
<1>1. HandlesMessages(c, v, q)
    BY DEF HandlesMessages
<1>2. c = g
    <2> HIDE DEF c
    <2> QED
        BY <1>1, MessagesHaveOneOutcome
<1>3. AllHandled(v, q) = c[Len(q)]
    BY DEF AllHandled
<1> QED
    BY <1>2, <1>3

LEMMA MessagesInTwoParts ==
    ASSUME NEW v, NEW q \in Seq(UserMessage), NEW r \in Seq(UserMessage)
    PROVE  AllHandled(v, q \o r) = AllHandled(AllHandled(v, q), r)
<1> DEFINE n == Len(q)
<1>1. /\ n \in Nat /\ Len(r) \in Nat /\ Len(q \o r) = n + Len(r)
      /\ \A i \in 1..n : (q \o r)[i] = q[i]
      /\ \A i \in 1..Len(r) : (q \o r)[i + n] = r[i]
    OBVIOUS
<1> HIDE DEF n
<1>0. Len(q \o r) \in Nat
    BY <1>1
<1>2. PICK h : HandlesMessages(h, v, q \o r)
    BY <1>0, MessagesHaveSteps
<1>3. \A i \in 0..(n + Len(r)) : h[i] = IF i = 0 THEN v ELSE Handled(h[i - 1], (q \o r)[i])
    BY <1>1, <1>2 DEF HandlesMessages
<1>4. AllHandled(v, q) = h[n]
    <2> DEFINE g == [i \in 0..n |-> h[i]]
    <2>1. \A i \in 0..n : g[i] = IF i = 0 THEN v ELSE Handled(g[i - 1], q[i])
        <3> TAKE i \in 0..n
        <3>1. CASE i = 0
            BY <1>1, <1>3, <3>1
        <3>2. CASE i # 0
            <4>1. i \in 1..n /\ i \in 0..(n + Len(r)) /\ i - 1 \in 0..n
                BY <1>1, <3>2
            <4>2. h[i] = Handled(h[i - 1], q[i])
                BY <1>1, <1>3, <3>2, <4>1
            <4> QED
                BY <3>2, <4>1, <4>2
        <3> QED
            BY <3>1, <3>2
    <2>2. HandlesMessages(g, v, q)
        BY <2>1 DEF HandlesMessages, n
    <2>3. g[n] = h[n]
        BY <1>1
    <2> HIDE DEF g
    <2> QED
        BY <1>1, <2>2, <2>3, MessagesHandled DEF n
<1>5. AllHandled(h[n], r) = h[n + Len(r)]
    <2> DEFINE g == [i \in 0..Len(r) |-> h[i + n]]
    <2>1. \A i \in 0..Len(r) : g[i] = IF i = 0 THEN h[n] ELSE Handled(g[i - 1], r[i])
        <3> TAKE i \in 0..Len(r)
        <3>1. CASE i = 0
            BY <1>1, <3>1
        <3>2. CASE i # 0
            <4>1. /\ i \in 1..Len(r) /\ i + n \in 0..(n + Len(r)) /\ i + n # 0
                  /\ i - 1 \in 0..Len(r) /\ (i + n) - 1 = (i - 1) + n
                BY <1>1, <3>2
            <4>2. h[i + n] = Handled(h[(i - 1) + n], r[i])
                BY <1>1, <1>3, <4>1
            <4> QED
                BY <3>2, <4>1, <4>2
        <3> QED
            BY <3>1, <3>2
    <2>2. HandlesMessages(g, h[n], r)
        BY <2>1 DEF HandlesMessages
    <2>3. g[Len(r)] = h[n + Len(r)]
        BY <1>1
    <2> HIDE DEF g
    <2> QED
        BY <1>1, <2>2, <2>3, MessagesHandled
<1>6. AllHandled(v, q \o r) = h[n + Len(r)]
    <2>1. AllHandled(v, q \o r) = h[Len(q \o r)]
        BY <1>0, <1>2, MessagesHandled
    <2> QED
        BY <1>1, <2>1
<1> QED
    BY <1>4, <1>5, <1>6
-----------------------------------------------------------------------------
(* A conversation as a set of entries. *)

\* What a frame makes of the entries of a conversation.
Applied(S, f) ==
    CASE f.op = "add" -> {IF SameKey(x, f.entry) THEN [x EXCEPT !.val = @ \o f.entry.val] ELSE x : x \in S}
      [] f.op = "start" /\ (\E x \in S : SameKey(x, f.entry)) -> S
      [] OTHER -> {x \in S : ~SameKey(x, f.entry)} \cup {f.entry}

\* A kind of entries to which texts can be appended.
Growing(K) == \A x, e \in K : SameKey(x, e) => [x EXCEPT !.val = @ \o e.val] \in K

LEMMA KindsGrow == Growing(Item) /\ Growing(TurnEntries) /\ Growing(AnyEntry)
<1>1. ASSUME NEW x \in Item, NEW e \in Item PROVE [x EXCEPT !.val = @ \o e.val] \in Item
    <2>1. x.val \in Seq(Nat) /\ e.val \in Seq(Nat)
        BY DEF Item
    <2>2. x.val \o e.val \in Seq(Nat)
        BY <2>1
    <2> QED
        BY <2>2 DEF Item
<1>2. ASSUME NEW x \in TurnEntries, NEW e \in TurnEntries PROVE [x EXCEPT !.val = @ \o e.val] \in TurnEntries
    <2>1. x.val \in Seq(BOOLEAN) /\ e.val \in Seq(BOOLEAN)
        BY DEF TurnEntries
    <2>2. x.val \o e.val \in Seq(BOOLEAN)
        BY <2>1
    <2> QED
        BY <2>2 DEF TurnEntries
<1>3. ASSUME NEW x \in AnyEntry, NEW e \in AnyEntry, SameKey(x, e)
      PROVE  [x EXCEPT !.val = @ \o e.val] \in AnyEntry
    <2>1. x \in Item <=> e \in Item
        BY <1>3 DEF AnyEntry, Item, TurnEntries, SameKey
    <2> QED
        BY <1>1, <1>2, <2>1 DEF AnyEntry
<1> QED
    BY <1>1, <1>2, <1>3 DEF Growing

LEMMA KeysAreEqual ==
    ASSUME NEW x \in AnyEntry, NEW y \in AnyEntry, NEW z \in AnyEntry
    PROVE  /\ SameKey(x, x)
           /\ SameKey(x, y) => SameKey(y, x)
           /\ SameKey(x, y) /\ SameKey(y, z) => SameKey(x, z)
           /\ SameKey(x, y) /\ x.val = y.val => x = y
<1>1. /\ SameKey(x, x)
      /\ SameKey(x, y) => SameKey(y, x)
      /\ SameKey(x, y) /\ SameKey(y, z) => SameKey(x, z)
    BY DEF SameKey
<1>2. ASSUME SameKey(x, y), x.val = y.val PROVE x = y
    <2>1. x = [kind |-> x.kind, id |-> x.id, val |-> x.val]
        BY DEF AnyEntry, Item, TurnEntries
    <2>2. y = [kind |-> y.kind, id |-> y.id, val |-> y.val]
        BY DEF AnyEntry, Item, TurnEntries
    <2> QED
        BY <1>2, <2>1, <2>2 DEF SameKey
<1> QED
    BY <1>1, <1>2

LEMMA PositionIsFound ==
    ASSUME NEW q \in Seq(AnyEntry), NEW e \in AnyEntry
    PROVE  \/ /\ Position(q, e) = 0
              /\ \A i \in DOMAIN q : ~SameKey(q[i], e)
           \/ /\ Position(q, e) \in DOMAIN q /\ Position(q, e) # 0
              /\ SameKey(q[Position(q, e)], e)
<1>1. CASE Positions(q, e) = {}
    BY <1>1 DEF Position, Positions
<1>2. CASE Positions(q, e) # {}
    <2>1. Position(q, e) \in Positions(q, e)
        BY <1>2 DEF Position
    <2> QED
        BY <2>1 DEF Positions
<1> QED
    BY <1>1, <1>2

LEMMA FrameIsApplied ==
    ASSUME NEW K, K \subseteq AnyEntry, Growing(K), NEW q \in Seq(K), Distinct(q),
           NEW f \in AnyFrame, f.entry \in K
    PROVE  /\ ApplyOne(q, f) \in Seq(K) /\ Distinct(ApplyOne(q, f))
           /\ ToSet(ApplyOne(q, f)) = Applied(ToSet(q), f)
<1> DEFINE e == f.entry
           i == Position(q, e)
           S == ToSet(q)
           grown == [q[i] EXCEPT !.val = @ \o e.val]
<1>1. q \in Seq(AnyEntry) /\ e \in AnyEntry /\ \A j \in DOMAIN q : q[j] \in K
    BY DEF AnyFrame
<1>2. S = {q[j] : j \in DOMAIN q}
    BY DEF ToSet
<1>3. \/ i = 0 /\ \A j \in DOMAIN q : ~SameKey(q[j], e)
      \/ i \in DOMAIN q /\ i # 0 /\ SameKey(q[i], e)
    BY <1>1, PositionIsFound
<1>4. f.op \in {"set", "start", "add"}
    BY DEF AnyFrame
<1> HIDE DEF i, S
<1>5. CASE i = 0
    <2>1. \A x \in S : ~SameKey(x, e)
        BY <1>2, <1>3, <1>5
    <2>2. CASE f.op = "add"
        <3>1. ApplyOne(q, f) = q
            BY <1>5, <2>2 DEF ApplyOne, i
        <3>2. Applied(S, f) = S
            BY <2>1, <2>2 DEF Applied
        <3> QED
            BY <3>1, <3>2 DEF S
    <2>3. CASE f.op # "add"
        <3>1. ApplyOne(q, f) = Append(q, e)
            BY <1>5, <2>3 DEF ApplyOne, i
        <3>2. Applied(S, f) = S \cup {e}
            BY <2>1, <2>3 DEF Applied
        <3>3. /\ Append(q, e) \in Seq(K) /\ DOMAIN Append(q, e) = 1..(Len(q) + 1)
              /\ DOMAIN q = 1..Len(q) /\ Len(q) \in Nat
              /\ \A j \in 1..Len(q) : Append(q, e)[j] = q[j]
              /\ Append(q, e)[Len(q) + 1] = e
            BY <1>1
        <3>4. Distinct(Append(q, e))
            <4> SUFFICES ASSUME NEW j \in 1..(Len(q) + 1), NEW k \in 1..(Len(q) + 1),
                                SameKey(Append(q, e)[j], Append(q, e)[k])
                         PROVE  j = k
                BY <3>3 DEF Distinct
            <4>1. CASE j \in 1..Len(q) /\ k \in 1..Len(q)
                BY <3>3, <4>1 DEF Distinct
            <4>2. CASE j \in 1..Len(q) /\ k = Len(q) + 1
                BY <1>3, <1>5, <3>3, <4>2
            <4>3. CASE j = Len(q) + 1 /\ k \in 1..Len(q)
                <5>1. SameKey(e, q[k])
                    BY <3>3, <4>3
                <5>2. SameKey(q[k], e)
                    BY <1>1, <3>3, <4>3, <5>1, KeysAreEqual
                <5> QED
                    BY <1>3, <1>5, <3>3, <4>3, <5>2
            <4> QED
                BY <3>3, <4>1, <4>2, <4>3
        <3>5. ToSet(Append(q, e)) = S \cup {e}
            <4>1. ToSet(Append(q, e)) = {Append(q, e)[j] : j \in 1..(Len(q) + 1)}
                BY <3>3 DEF ToSet
            <4>2. S = {q[j] : j \in 1..Len(q)}
                BY <1>2, <3>3
            <4> HIDE DEF e
            <4> QED
                BY <3>3, <4>1, <4>2
        <3> QED
            BY <3>1, <3>2, <3>3, <3>4, <3>5 DEF S
    <2> QED
        BY <2>2, <2>3
<1>6. CASE i # 0
    <2>1. i \in DOMAIN q /\ SameKey(q[i], e) /\ q[i] \in S /\ q[i] \in K
        BY <1>1, <1>2, <1>3, <1>6
    <2>2. \A j \in DOMAIN q : SameKey(q[j], e) => j = i
        <3> SUFFICES ASSUME NEW j \in DOMAIN q, SameKey(q[j], e) PROVE j = i
            OBVIOUS
        <3>1. SameKey(q[j], q[i])
            BY <1>1, <2>1, KeysAreEqual
        <3> QED
            BY <2>1, <3>1 DEF Distinct
    <2>3. CASE f.op = "start"
        <3>1. ApplyOne(q, f) = q
            BY <1>6, <2>3 DEF ApplyOne, i
        <3>2. Applied(S, f) = S
            BY <2>1, <2>3 DEF Applied
        <3> QED
            BY <3>1, <3>2 DEF S
    \* The entry of the key is replaced by one of the same key.
    <2>4. ASSUME NEW y \in K, SameKey(y, q[i])
          PROVE  /\ [q EXCEPT ![i] = y] \in Seq(K) /\ Distinct([q EXCEPT ![i] = y])
                 /\ ToSet([q EXCEPT ![i] = y]) = {x \in S : ~SameKey(x, e)} \cup {y}
        <3> DEFINE r == [q EXCEPT ![i] = y]
        <3>1. r \in Seq(K) /\ DOMAIN r = DOMAIN q /\ r[i] = y /\ \A j \in DOMAIN q : j # i => r[j] = q[j]
            BY <2>1
        <3>2. \A j \in DOMAIN q : SameKey(r[j], q[j]) /\ SameKey(q[j], r[j]) /\ r[j] \in AnyEntry
            <4> TAKE j \in DOMAIN q
            <4>1. r[j] \in AnyEntry /\ SameKey(r[j], q[j])
                BY <1>1, <2>4, <3>1, KeysAreEqual
            <4> QED
                BY <1>1, <4>1, KeysAreEqual
        <3> HIDE DEF r
        <3>3. Distinct(r)
            <4> SUFFICES ASSUME NEW j \in DOMAIN q, NEW k \in DOMAIN q, SameKey(r[j], r[k]) PROVE j = k
                BY <3>1 DEF Distinct
            <4>1. SameKey(q[j], r[k])
                BY <1>1, <3>2, KeysAreEqual
            <4>2. SameKey(q[j], q[k])
                BY <1>1, <3>2, <4>1, KeysAreEqual
            <4> QED
                BY <4>2 DEF Distinct
        <3>4. ToSet(r) = {x \in S : ~SameKey(x, e)} \cup {y}
            <4>1. ToSet(r) = {r[j] : j \in DOMAIN q}
                BY <3>1 DEF ToSet
            <4>2. \A x \in ToSet(r) : x \in {z \in S : ~SameKey(z, e)} \cup {y}
                BY <1>2, <2>2, <3>1, <4>1
            <4>3. \A x \in {z \in S : ~SameKey(z, e)} \cup {y} : x \in ToSet(r)
                BY <1>2, <2>1, <3>1, <4>1
            <4> QED
                BY <4>2, <4>3
        <3> QED
            BY <3>1, <3>3, <3>4 DEF r
    <2>5. CASE f.op = "set"
        <3>1. ApplyOne(q, f) = [q EXCEPT ![i] = e]
            BY <1>6, <2>5 DEF ApplyOne, i
        <3>2. SameKey(e, q[i])
            BY <1>1, <2>1, KeysAreEqual
        <3>3. Applied(S, f) = {x \in S : ~SameKey(x, e)} \cup {e}
            BY <2>5 DEF Applied
        <3> QED
            BY <2>4, <3>1, <3>2, <3>3 DEF S
    <2>6. CASE f.op = "add"
        <3>1. grown \in K
            BY <2>1 DEF Growing
        <3>2. SameKey(grown, q[i])
            BY <1>1, <2>1 DEF SameKey, AnyEntry, Item, TurnEntries
        <3>3. ApplyOne(q, f) = [q EXCEPT ![i] = grown]
            BY <1>6, <2>1, <2>6 DEF ApplyOne, i
        <3>4. Applied(S, f) = {IF SameKey(x, e) THEN [x EXCEPT !.val = @ \o e.val] ELSE x : x \in S}
            BY <2>6 DEF Applied
        <3>5. \A x \in S : SameKey(x, e) => x = q[i]
            BY <1>2, <2>2
        <3>6. Applied(S, f) = {x \in S : ~SameKey(x, e)} \cup {grown}
            BY <2>1, <3>4, <3>5
        <3> HIDE DEF grown
        <3> QED
            BY <2>4, <3>1, <3>2, <3>3, <3>6 DEF S
    <2> QED
        BY <1>4, <2>3, <2>5, <2>6
<1> QED
    BY <1>5, <1>6

-----------------------------------------------------------------------------
(* What is shown, as a set of entries. *)

\* What can be shown: every key once.
Views == {v \in View : Distinct(v.entries) /\ Distinct(v.turns)}

LEMMA KindsDiffer ==
    ASSUME NEW x \in Item, NEW y \in TurnEntries
    PROVE  /\ ~SameKey(x, y) /\ ~SameKey(y, x)
           /\ x.kind # "turn" /\ y.kind = "turn"
           /\ x \in AnyEntry /\ y \in AnyEntry
BY DEF SameKey, AnyEntry, Item, TurnEntries

LEMMA FrameIsShown ==
    ASSUME NEW v \in Views, NEW f \in AnyFrame
    PROVE  ShowFrame(v, f) \in Views /\ Content(ShowFrame(v, f)) = Applied(Content(v), f)
<1> DEFINE e == f.entry
           E == ToSet(v.entries)
           T == ToSet(v.turns)
<1>1. /\ v \in View /\ v.entries \in Seq(Item) /\ v.turns \in Seq(TurnEntries)
      /\ Distinct(v.entries) /\ Distinct(v.turns)
    BY DEF Views, View
<1>2. E \subseteq Item /\ T \subseteq TurnEntries
    BY <1>1 DEF ToSet
<1>3. Item \subseteq AnyEntry /\ TurnEntries \subseteq AnyEntry
    BY DEF AnyEntry
<1>4. f.op \in {"set", "start", "add"} /\ e \in AnyEntry
    BY DEF AnyFrame
<1>5. CASE e.kind = "turn"
    <2>1. e \in TurnEntries
        BY <1>4, <1>5 DEF AnyEntry, Item
    <2> DEFINE r == ApplyOne(v.turns, f)
    <2>2. r \in Seq(TurnEntries) /\ Distinct(r) /\ ToSet(r) = Applied(T, f)
        BY <1>1, <1>3, <2>1, KindsGrow, FrameIsApplied
    <2>3. ShowFrame(v, f) = [v EXCEPT !.turns = r]
        BY <1>5 DEF ShowFrame
    <2> HIDE DEF r
    <2>4. ShowFrame(v, f) \in Views
        BY <1>1, <2>2, <2>3 DEF Views, View
    <2>5. Content(ShowFrame(v, f)) = E \cup Applied(T, f)
        BY <1>1, <2>2, <2>3 DEF Content, View
    <2>6. \A x \in E : ~SameKey(x, e)
        BY <1>2, <2>1, KindsDiffer
    <2> HIDE DEF E, T, e
    <2>7. Applied(E \cup T, f) = E \cup Applied(T, f)
        <3>1. CASE f.op = "add"
            BY <2>6, <3>1 DEF Applied, e
        <3>2. CASE f.op # "add"
            BY <2>6, <3>2 DEF Applied, e
        <3> QED
            BY <3>1, <3>2
    <2> QED
        BY <2>4, <2>5, <2>7 DEF Content, E, T
<1>6. CASE e.kind # "turn"
    <2>1. e \in Item
        BY <1>4, <1>6 DEF AnyEntry, TurnEntries
    <2> DEFINE r == ApplyOne(v.entries, f)
    <2>2. r \in Seq(Item) /\ Distinct(r) /\ ToSet(r) = Applied(E, f)
        BY <1>1, <1>3, <2>1, KindsGrow, FrameIsApplied
    <2>3. ShowFrame(v, f) = [v EXCEPT !.entries = r]
        BY <1>6 DEF ShowFrame
    <2> HIDE DEF r
    <2>4. ShowFrame(v, f) \in Views
        BY <1>1, <2>2, <2>3 DEF Views, View
    <2>5. Content(ShowFrame(v, f)) = Applied(E, f) \cup T
        BY <1>1, <2>2, <2>3 DEF Content, View
    <2>6. \A x \in T : ~SameKey(x, e)
        BY <1>2, <2>1, KindsDiffer
    <2> HIDE DEF E, T, e
    <2>7. Applied(E \cup T, f) = Applied(E, f) \cup T
        <3>1. CASE f.op = "add"
            BY <2>6, <3>1 DEF Applied, e
        <3>2. CASE f.op # "add"
            BY <2>6, <3>2 DEF Applied, e
        <3> QED
            BY <3>1, <3>2
    <2> QED
        BY <2>4, <2>5, <2>7 DEF Content, E, T
<1> QED
    BY <1>5, <1>6

LEMMA NoFrameShown ==
    ASSUME NEW v
    PROVE  ShowFrames(v, <<>>) = v
<1>1. Len(<<>>) \in Nat /\ Len(<<>>) = 0
    OBVIOUS
<1>2. PICK g : ShowsFrames(g, v, <<>>)
    BY <1>1, FramesHaveSteps
<1>3. ShowFrames(v, <<>>) = g[0]
    BY <1>1, <1>2, FramesShown
<1>4. g[0] = v
    BY <1>1, <1>2 DEF ShowsFrames
<1> QED
    BY <1>3, <1>4

LEMMA OneFrameShown ==
    ASSUME NEW v, NEW f
    PROVE  ShowFrames(v, <<f>>) = ShowFrame(v, f)
<1>1. Len(<<f>>) \in Nat /\ Len(<<f>>) = 1 /\ <<f>>[1] = f
    OBVIOUS
<1>2. PICK g : ShowsFrames(g, v, <<f>>)
    BY <1>1, FramesHaveSteps
<1>3. ShowFrames(v, <<f>>) = g[1]
    BY <1>1, <1>2, FramesShown
<1>4. \A i \in 0..1 : g[i] = IF i = 0 THEN v ELSE ShowFrame(g[i - 1], <<f>>[i])
    BY <1>1, <1>2 DEF ShowsFrames
<1>5. g[0] = v /\ g[1] = ShowFrame(g[0], f)
    BY <1>1, <1>4
<1> QED
    BY <1>3, <1>5

LEMMA FramesAreShown ==
    ASSUME NEW v \in Views, NEW q \in Seq(AnyFrame)
    PROVE  ShowFrames(v, q) \in Views
<1>1. Len(q) \in Nat /\ \A i \in 1..Len(q) : q[i] \in AnyFrame
    OBVIOUS
<1>2. PICK g : ShowsFrames(g, v, q)
    BY <1>1, FramesHaveSteps
<1>3. \A i \in 0..Len(q) : g[i] = IF i = 0 THEN v ELSE ShowFrame(g[i - 1], q[i])
    BY <1>2 DEF ShowsFrames
<1> DEFINE T == {i \in 0..Len(q) : g[i] \notin Views}
<1>4. T = {}
    <2> SUFFICES ASSUME T # {} PROVE FALSE
        OBVIOUS
    <2>0. T \subseteq Nat
        OBVIOUS
    <2>1. PICK i \in T : \A m \in T : i <= m
        <3> HIDE DEF T
        <3> QED
            BY <2>0, LeastNumber
    <2>2. i # 0
        BY <1>3
    <2>3. i - 1 \in 0..Len(q) /\ i - 1 \notin T /\ i \in 1..Len(q)
        BY <2>1, <2>2
    <2>4. g[i - 1] \in Views
        BY <2>3
    <2>5. ShowFrame(g[i - 1], q[i]) \in Views
        BY <1>1, <2>3, <2>4, FrameIsShown
    <2> QED
        BY <1>3, <2>2, <2>5
<1>5. g[Len(q)] \in Views
    BY <1>1, <1>4
<1> QED
    BY <1>1, <1>2, <1>5, FramesShown

-----------------------------------------------------------------------------
(* Histories and patches. *)

\* A history shows the entries it is made of.
LEMMA HistoryIsShown ==
    ASSUME NEW v \in Views, Content(v) = {}, NEW q \in Seq(AnyEntry), Distinct(q)
    PROVE  /\ History(q) \in Batch /\ History(q).history
           /\ ShowFrames(v, History(q).frames) \in Views
           /\ Content(ShowFrames(v, History(q).frames)) = ToSet(q)
<1> DEFINE r == [i \in DOMAIN q |-> Frame("set", q[i])]
<1>1. /\ Len(q) \in Nat /\ DOMAIN q = 1..Len(q)
      /\ \A i \in 1..Len(q) : q[i] \in AnyEntry
    OBVIOUS
<1>2. \A i \in 1..Len(q) : Frame("set", q[i]) \in AnyFrame
    BY <1>1 DEF Frame, AnyFrame
<1>3. r \in Seq(AnyFrame) /\ Len(r) = Len(q) /\ \A i \in 1..Len(q) : r[i] = Frame("set", q[i])
    BY <1>1, <1>2
<1> HIDE DEF r
<1>4. History(q) = [history |-> TRUE, frames |-> r]
    BY DEF History, r
<1>5. History(q) \in Batch /\ History(q).history /\ History(q).frames = r
    BY <1>3, <1>4 DEF Batch
<1>6. Len(r) \in Nat
    BY <1>1, <1>3
<1>7. PICK g : ShowsFrames(g, v, r)
    BY <1>6, FramesHaveSteps
<1>8. \A i \in 0..Len(q) : g[i] = IF i = 0 THEN v ELSE ShowFrame(g[i - 1], r[i])
    BY <1>3, <1>7 DEF ShowsFrames
<1> DEFINE Until(i) == {q[j] : j \in 1..i}
           Right(i) == g[i] \in Views /\ Content(g[i]) = Until(i)
           T == {i \in 0..Len(q) : ~Right(i)}
<1>9. Right(0)
    BY <1>8
<1>10. ASSUME NEW i \in 1..Len(q), Right(i - 1) PROVE Right(i)
    <2>1. g[i] = ShowFrame(g[i - 1], Frame("set", q[i]))
        BY <1>1, <1>3, <1>8
    <2>2. g[i] \in Views /\ Content(g[i]) = Applied(Until(i - 1), Frame("set", q[i]))
        BY <1>2, <1>10, <2>1, FrameIsShown
    <2>3. \A x \in Until(i - 1) : ~SameKey(x, q[i])
        BY <1>1 DEF Distinct
    <2>4. Applied(Until(i - 1), Frame("set", q[i])) = Until(i - 1) \cup {q[i]}
        BY <2>3 DEF Applied, Frame
    <2>5. Until(i) = Until(i - 1) \cup {q[i]}
        OBVIOUS
    <2> QED
        BY <2>2, <2>4, <2>5
<1> HIDE DEF Right
<1>11. T = {}
    <2> SUFFICES ASSUME T # {} PROVE FALSE
        OBVIOUS
    <2>0. T \subseteq Nat
        OBVIOUS
    <2>1. PICK i \in T : \A m \in T : i <= m
        <3> HIDE DEF T
        <3> QED
            BY <2>0, LeastNumber
    <2>2. i # 0
        BY <1>9
    <2>3. i - 1 \in 0..Len(q) /\ i - 1 \notin T /\ i \in 1..Len(q)
        BY <2>1, <2>2
    <2> QED
        BY <1>10, <2>1, <2>3
<1>12. g[Len(q)] \in Views /\ Content(g[Len(q)]) = Until(Len(q))
    <2>1. Len(q) \in 0..Len(q) /\ Len(q) \notin T
        BY <1>1, <1>11
    <2>2. Right(Len(q))
        BY <2>1
    <2> QED
        BY <2>2 DEF Right
<1>13. ShowFrames(v, r) = g[Len(q)]
    BY <1>3, <1>6, <1>7, FramesShown
<1>14. Until(Len(q)) = ToSet(q)
    BY <1>1 DEF ToSet
<1> QED
    BY <1>5, <1>12, <1>13, <1>14

\* The patch of an entry takes what the viewer has of it to what it is now.
LEMMA EntryIsPatched ==
    ASSUME NEW v \in Views, NEW p \in Seq(AnyEntry), Distinct(p), NEW e \in AnyEntry,
           \A x \in Content(v) : SameKey(x, e) => x \in ToSet(p),
           \A x \in ToSet(p) : SameKey(x, e) => x \in Content(v)
    PROVE  /\ EntryPatch(p, e) \in Seq(AnyFrame)
           /\ ShowFrames(v, EntryPatch(p, e)) \in Views
           /\ Content(ShowFrames(v, EntryPatch(p, e))) = {x \in Content(v) : ~SameKey(x, e)} \cup {e}
<1> DEFINE i == Position(p, e)
           C == Content(v)
           Goal(q) == /\ q \in Seq(AnyFrame) /\ ShowFrames(v, q) \in Views
                      /\ Content(ShowFrames(v, q)) = {x \in C : ~SameKey(x, e)} \cup {e}
<1>1. \/ i = 0 /\ \A j \in DOMAIN p : ~SameKey(p[j], e)
      \/ i \in DOMAIN p /\ i # 0 /\ SameKey(p[i], e)
    BY PositionIsFound
<1>2. ToSet(p) = {p[j] : j \in DOMAIN p} /\ \A j \in DOMAIN p : p[j] \in AnyEntry
    BY DEF ToSet
<1> HIDE DEF i, C
<1>3. ASSUME NEW f \in AnyFrame, Applied(C, f) = {x \in C : ~SameKey(x, e)} \cup {e}
      PROVE  Goal(<<f>>)
    <2>1. ShowFrames(v, <<f>>) = ShowFrame(v, f) /\ <<f>> \in Seq(AnyFrame)
        BY OneFrameShown
    <2> QED
        BY <1>3, <2>1, FrameIsShown DEF C
<1>4. Frame("set", e) \in AnyFrame
    BY DEF Frame, AnyFrame
<1>5. Applied(C, Frame("set", e)) = {x \in C : ~SameKey(x, e)} \cup {e}
    BY DEF Applied, Frame
<1>6. Goal(<<Frame("set", e)>>)
    <2> HIDE DEF Goal
    <2> QED
        BY <1>3, <1>4, <1>5
<1>7. CASE i = 0
    <2>1. EntryPatch(p, e) = <<Frame("set", e)>>
        BY <1>7 DEF EntryPatch, i
    <2> QED
        BY <1>6, <2>1 DEF C
<1>8. CASE i # 0
    <2> DEFINE y == p[i]
    <2>1. y \in AnyEntry /\ SameKey(y, e) /\ y \in C
        BY <1>1, <1>2, <1>8 DEF C
    <2>2. \A x \in C : SameKey(x, e) => x = y
        <3> SUFFICES ASSUME NEW x \in C, SameKey(x, e) PROVE x = y
            OBVIOUS
        <3>1. PICK j \in DOMAIN p : p[j] = x
            BY <1>2 DEF C
        <3>2. SameKey(p[j], p[i])
            BY <1>1, <1>2, <1>8, <2>1, <3>1, KeysAreEqual
        <3>3. j = i
            BY <1>1, <1>8, <3>2 DEF Distinct
        <3> QED
            BY <3>1, <3>3
    <2>3. CASE y.val = e.val
        <3>1. y = e
            BY <2>1, <2>3, KeysAreEqual
        <3>2. C = {x \in C : ~SameKey(x, e)} \cup {e}
            BY <2>1, <2>2, <3>1
        <3>3. EntryPatch(p, e) = <<>>
            BY <1>8, <2>3 DEF EntryPatch, i
        <3>4. ShowFrames(v, <<>>) = v /\ <<>> \in Seq(AnyFrame)
            BY NoFrameShown
        <3> QED
            BY <3>2, <3>3, <3>4 DEF C
    <2>4. CASE y.val # e.val /\ e.kind = "message" /\ IsPrefix(y.val, e.val)
        <3> DEFINE m == Len(y.val)
                   rest == SubSeq(e.val, m + 1, Len(e.val))
                   f == Frame("add", [e EXCEPT !.val = rest])
        <3>1. e \in Item /\ y \in Item /\ e.val \in Seq(Nat) /\ y.val \in Seq(Nat)
            BY <2>1, <2>4 DEF AnyEntry, Item, TurnEntries, SameKey
        <3>2. m \in Nat /\ m <= Len(e.val) /\ Len(e.val) \in Nat
            BY <2>4, <3>1 DEF IsPrefix
        <3>2a. y.val = SubSeq(e.val, 1, m)
            <4>1. SubSeq(y.val, 1, m) = y.val
                BY <3>1, SubSeqFull
            <4> QED
                BY <2>4, <4>1 DEF IsPrefix
        <3>3. rest \in Seq(Nat) /\ y.val \o rest = e.val
            <4>1. \A j \in (m + 1)..Len(e.val) : e.val[j] \in Nat
                BY <3>1, <3>2
            <4>2. m + 1 \in Int /\ Len(e.val) \in Int
                BY <3>2
            <4>3. rest \in Seq(Nat)
                BY <4>1, <4>2, SubSeqProperties
            <4>4. 1 \in 1..Len(e.val) + 1 /\ m \in (1 - 1)..Len(e.val) /\ Len(e.val) \in m..Len(e.val)
                BY <3>2
            <4>5. SubSeq(e.val, 1, m) \o rest = SubSeq(e.val, 1, Len(e.val))
                BY <3>1, <4>4, ConcatAdjacentSubSeq
            <4>6. SubSeq(e.val, 1, Len(e.val)) = e.val
                BY <3>1, SubSeqFull
            <4> QED
                BY <3>2a, <4>3, <4>5, <4>6
        <3> HIDE DEF rest, m
        <3>4. [e EXCEPT !.val = rest] \in Item
            BY <3>1, <3>3 DEF Item
        <3>5. f \in AnyFrame
            BY <3>4 DEF Frame, AnyFrame, AnyEntry
        <3>6. \A x \in C : SameKey(x, f.entry) <=> SameKey(x, e)
            BY <3>1 DEF Frame, SameKey, Item
        <3>7. [y EXCEPT !.val = @ \o f.entry.val] = e
            <4>1. f.entry.val = rest
                BY <3>1 DEF Frame, Item
            <4>2. y.kind = e.kind /\ y.id = e.id
                BY <2>1 DEF SameKey
            <4>3. [y EXCEPT !.val = e.val] = e
                BY <3>1, <4>2 DEF Item
            <4> QED
                BY <3>3, <4>1, <4>3
        <3>8. Applied(C, f) = {IF SameKey(x, e) THEN [x EXCEPT !.val = @ \o f.entry.val] ELSE x : x \in C}
            BY <3>6 DEF Applied, Frame
        <3>9. Applied(C, f) = {x \in C : ~SameKey(x, e)} \cup {e}
            <4> HIDE DEF f
            <4> QED
                BY <2>1, <2>2, <3>7, <3>8
        <3>10. EntryPatch(p, e) = <<f>>
            BY <1>8, <2>4 DEF EntryPatch, i, m, rest
        <3>11. Goal(<<f>>)
            <4> HIDE DEF f, Goal
            <4> QED
                BY <1>3, <3>5, <3>9
        <3> QED
            BY <3>10, <3>11 DEF C
    <2>5. CASE y.val # e.val /\ ~(e.kind = "message" /\ IsPrefix(y.val, e.val))
        <3>1. EntryPatch(p, e) = <<Frame("set", e)>>
            BY <1>8, <2>5 DEF EntryPatch, i
        <3> QED
            BY <1>6, <3>1 DEF C
    <2> QED
        BY <2>3, <2>4, <2>5
<1> QED
    BY <1>7, <1>8

LEMMA NothingShown ==
    ASSUME NEW s \in Shape
    PROVE  NoView(s) \in Views /\ Content(NoView(s)) = {}
<1>1. <<>> \in Seq(Item) /\ <<>> \in Seq(TurnEntries) /\ DOMAIN <<>> = {}
    OBVIOUS
<1>2. ToSet(<<>>) = {} /\ Distinct(<<>>)
    BY <1>1 DEF ToSet, Distinct
<1> QED
    BY <1>1, <1>2 DEF NoView, Views, View, Content

\* A history is shown the same way whatever was shown before.
LEMMA HistoryStartsAnew ==
    ASSUME NEW v, NEW q \in Seq(AnyEntry), Distinct(q)
    PROVE  /\ History(q) \in Batch /\ History(q).history
           /\ Show(v, History(q)) \in Views /\ Content(Show(v, History(q))) = ToSet(q)
<1> DEFINE w == ShowFrames(NoView("loading"), History(q).frames)
<1>1. NoView("loading") \in Views /\ Content(NoView("loading")) = {}
    BY NothingShown DEF Shape
<1>2. /\ History(q) \in Batch /\ History(q).history
      /\ w \in Views /\ Content(w) = ToSet(q)
    BY <1>1, HistoryIsShown
<1>3. Show(v, History(q)) = [w EXCEPT !.status = "live"]
    BY <1>2 DEF Show
<1> HIDE DEF w
<1>4. [w EXCEPT !.status = "live"] \in Views /\ Content([w EXCEPT !.status = "live"]) = Content(w)
    BY <1>2 DEF Views, View, Shape, Content
<1> QED
    BY <1>2, <1>3, <1>4

LEMMA BatchIsShown ==
    ASSUME NEW v \in Views, NEW b \in Batch
    PROVE  Show(v, b) \in Views
<1>1. b.frames \in Seq(AnyFrame) /\ b.history \in BOOLEAN
    BY DEF Batch
<1>2. CASE b.history
    <2> DEFINE w == ShowFrames(NoView("loading"), b.frames)
    <2>1. NoView("loading") \in Views
        BY NothingShown DEF Shape
    <2>2. w \in Views
        BY <1>1, <2>1, FramesAreShown
    <2>3. Show(v, b) = [w EXCEPT !.status = "live"]
        BY <1>2 DEF Show
    <2> HIDE DEF w
    <2> QED
        BY <2>2, <2>3 DEF Views, View, Shape
<1>3. CASE ~b.history
    <2>1. Show(v, b) = ShowFrames(v, b.frames)
        BY <1>3 DEF Show
    <2> QED
        BY <1>1, <2>1, FramesAreShown
<1> QED
    BY <1>1, <1>2, <1>3

\* Sequences put one after another, step by step.
LEMMA Flattening ==
    ASSUME NEW S, NEW n \in Nat, NEW q \in [1..n -> Seq(S)]
    PROVE  \E g : /\ g \in [0..n -> Seq(S)] /\ g[0] = <<>>
                  /\ \A i \in 1..n : g[i] = g[i - 1] \o q[i]
                  /\ FlattenSeq(q) = g[n]
<1>0. q \in Seq(Seq(S)) /\ Len(q) = n /\ \A i \in 1..n : q[i] \in Seq(S)
    OBVIOUS
<1> DEFINE Joined(g, k) == g = [i \in 1..k |-> IF i = 1 THEN q[i] ELSE g[i - 1] \o q[i]]
           Upto(k) == \E g : Joined(g, k)
           T == {k \in 1..n : ~Upto(k)}
<1>1. n # 0 => Upto(1)
    <2> DEFINE g == [i \in 1..1 |-> q[i]]
    <2>1. Joined(g, 1)
        OBVIOUS
    <2> QED
        BY <2>1
<1>2. ASSUME NEW k \in Nat \ {0}, Upto(k) PROVE Upto(k + 1)
    <2>1. PICK g : Joined(g, k)
        BY <1>2
    <2>2. \A i \in 1..k : g[i] = IF i = 1 THEN q[i] ELSE g[i - 1] \o q[i]
        BY <2>1
    <2> DEFINE h == [i \in 1..(k + 1) |-> IF i = k + 1 THEN g[k] \o q[k + 1] ELSE g[i]]
    <2>4. k \in Nat /\ k > 0 /\ k + 1 \in 1..(k + 1)
        OBVIOUS
    <2>3. k \in 1..k /\ (\A i \in 1..k : h[i] = g[i]) /\ h[k + 1] = g[k] \o q[k + 1]
        <3>1. \A i \in 1..k : i \in 1..(k + 1) /\ i # k + 1
            BY <2>4
        <3>2. h[k + 1] = g[k] \o q[k + 1]
            BY <2>4
        <3>3. \A i \in 1..k : h[i] = g[i]
            BY <3>1
        <3>4. k \in 1..k
            BY <2>4
        <3> HIDE DEF h
        <3> QED
            BY <3>2, <3>3, <3>4
    <2>5. \A i \in 1..(k + 1) : h[i] = IF i = 1 THEN q[i] ELSE h[i - 1] \o q[i]
        <3> HIDE DEF h
        <3> TAKE i \in 1..(k + 1)
        <3>1. CASE i = 1
            BY <2>2, <2>3, <3>1
        <3>2. CASE i \in 2..k
            <4>1. i - 1 \in 1..k /\ i \in 1..k /\ i # 1
                BY <3>2
            <4>2. h[i] = g[i] /\ h[i - 1] = g[i - 1]
                BY <2>3, <4>1
            <4>3. g[i] = g[i - 1] \o q[i]
                BY <2>2, <4>1
            <4> QED
                BY <4>1, <4>2, <4>3
        <3>3. CASE i = k + 1
            <4>0. i - 1 = k /\ i # 1
                BY <2>4, <3>3
            <4>1. h[i] = g[k] \o q[i] /\ h[i - 1] = g[k] /\ i # 1
                BY <2>3, <3>3, <4>0
            <4> QED
                BY <4>1
        <3> QED
            BY <3>1, <3>2, <3>3
    <2>6. Joined(h, k + 1)
        BY <2>5
    <2> QED
        BY <2>6
<1> HIDE DEF Upto
<1>3. T = {}
    <2> SUFFICES ASSUME T # {} PROVE FALSE
        OBVIOUS
    <2>0. T \subseteq Nat
        OBVIOUS
    <2>1. PICK k \in T : \A m \in T : k <= m
        <3> HIDE DEF T
        <3> QED
            BY <2>0, LeastNumber
    <2>2. k # 1
        BY <1>1
    <2>3. k - 1 \in 1..n /\ k - 1 \notin T /\ k - 1 \in Nat \ {0}
        BY <2>1, <2>2
    <2>4. Upto(k - 1)
        BY <2>3
    <2>5. Upto((k - 1) + 1)
        BY <1>2, <2>3, <2>4
    <2> QED
        BY <2>3, <2>5
<1>4. CASE n = 0
    <2> DEFINE g == [i \in 0..0 |-> <<>>]
    <2>1. FlattenSeq(q) = <<>>
        BY <1>0, <1>4 DEF FlattenSeq
    <2>2. g \in [0..n -> Seq(S)] /\ g[0] = <<>> /\ FlattenSeq(q) = g[n]
        BY <1>4, <2>1
    <2>3. \A i \in 1..n : g[i] = g[i - 1] \o q[i]
        BY <1>4
    <2> QED
        BY <2>2, <2>3
<1>5. CASE n # 0
    <2> DEFINE c == CHOOSE g : Joined(g, n)
    <2>1. n \in 1..n /\ n \notin T
        BY <1>3, <1>5
    <2>2. Joined(c, n)
        BY <2>1 DEF Upto
    <2>3. FlattenSeq(q) = c[n]
        BY <1>0, <1>5 DEF FlattenSeq
    <2> HIDE DEF c
    <2>4. \A i \in 1..n : c[i] = IF i = 1 THEN q[i] ELSE c[i - 1] \o q[i]
        BY <2>2
    <2> DEFINE W == {i \in 1..n : c[i] \notin Seq(S)}
    <2>5. W = {}
        <3> SUFFICES ASSUME W # {} PROVE FALSE
            OBVIOUS
        <3>0. W \subseteq Nat
            OBVIOUS
        <3>1. PICK k \in W : \A m \in W : k <= m
            <4> HIDE DEF W
            <4> QED
                BY <3>0, LeastNumber
        <3>2. k # 1
            BY <1>0, <2>4
        <3>3. k - 1 \in 1..n /\ k - 1 \notin W
            BY <3>1, <3>2
        <3>4. c[k - 1] \in Seq(S) /\ q[k] \in Seq(S)
            BY <1>0, <3>3
        <3>5. c[k] = c[k - 1] \o q[k]
            BY <2>4, <3>2
        <3>6. c[k - 1] \o q[k] \in Seq(S)
            BY <3>4, ConcatProperties
        <3> QED
            BY <3>5, <3>6
    <2> DEFINE g == [i \in 0..n |-> IF i = 0 THEN <<>> ELSE c[i]]
    <2>6. g \in [0..n -> Seq(S)]
        <3>1. \A i \in 1..n : c[i] \in Seq(S)
            BY <2>5
        <3>2. <<>> \in Seq(S)
            OBVIOUS
        <3> QED
            BY <3>1, <3>2
    <2>7. g[0] = <<>> /\ \A i \in 1..n : g[i] = c[i]
        OBVIOUS
    <2>8. \A i \in 1..n : g[i] = g[i - 1] \o q[i]
        <3> TAKE i \in 1..n
        <3>1. CASE i = 1
            <4>1. <<>> \o q[i] = q[i]
                BY <1>0, ConcatEmptySeq
            <4> QED
                BY <2>4, <2>7, <3>1, <4>1
        <3>2. CASE i # 1
            <4>1. i - 1 \in 1..n
                BY <3>2
            <4>2. g[i - 1] = c[i - 1] /\ g[i] = c[i]
                BY <2>7, <4>1
            <4> QED
                BY <2>4, <3>2, <4>2
        <3> QED
            BY <3>1, <3>2
    <2>9. FlattenSeq(q) = g[n]
        BY <1>5, <2>1, <2>3, <2>7
    <2> HIDE DEF g
    <2> QED
        BY <2>6, <2>7, <2>8, <2>9
<1> QED
    BY <1>4, <1>5

\* A viewer who sees one conversation sees the next one after the patch between them,
\* whatever was changed, added, removed or moved and in whatever order the viewer has
\* its entries (conversationPatchFrames against timelineReducer).
THEOREM PatchIsShown ==
    ASSUME NEW v \in Views, NEW p \in Seq(AnyEntry), Distinct(p), Content(v) = ToSet(p),
           NEW next \in Seq(AnyEntry), Distinct(next)
    PROVE  /\ Patch(p, next) \in Batch
           /\ Show(v, Patch(p, next)) \in Views /\ Content(Show(v, Patch(p, next))) = ToSet(next)
<1> DEFINE misses == \E i \in DOMAIN p : Position(next, p[i]) = 0
           reorders == \E i, j \in DOMAIN p :
                          i < j /\ Position(next, p[i]) > Position(next, p[j])
           n == Len(next)
           q == [i \in DOMAIN next |-> EntryPatch(p, next[i])]
<1>1. CASE misses \/ reorders
    <2>1. Patch(p, next) = History(next)
        BY <1>1 DEF Patch
    <2> QED
        BY <2>1, HistoryStartsAnew
<1>2. CASE ~misses /\ ~reorders
    <2>1. n \in Nat /\ DOMAIN next = 1..n /\ \A i \in 1..n : next[i] \in AnyEntry
        OBVIOUS
    <2>2. \A i \in 1..n : EntryPatch(p, next[i]) \in Seq(AnyFrame)
        BY <2>1, EntryIsPatched
    <2>3. q \in [1..n -> Seq(AnyFrame)] /\ \A i \in 1..n : q[i] = EntryPatch(p, next[i])
        BY <2>1, <2>2
    <2>4. Patch(p, next) = [history |-> FALSE, frames |-> FlattenSeq(q)]
        BY <1>2 DEF Patch
    <2>5. \A x \in ToSet(p) : \E j \in 1..n : SameKey(x, next[j])
        <3> SUFFICES ASSUME NEW i \in DOMAIN p PROVE \E j \in 1..n : SameKey(p[i], next[j])
            BY DEF ToSet
        <3>1. p[i] \in AnyEntry /\ Position(next, p[i]) # 0
            BY <1>2
        <3>2. PICK j \in DOMAIN next : SameKey(next[j], p[i])
            BY <3>1, PositionIsFound
        <3>3. SameKey(p[i], next[j])
            BY <2>1, <3>1, <3>2, KeysAreEqual
        <3> QED
            BY <2>1, <3>3
    <2> HIDE DEF q, n, misses, reorders
    <2>6. PICK g : /\ g \in [0..n -> Seq(AnyFrame)] /\ g[0] = <<>>
                   /\ \A i \in 1..n : g[i] = g[i - 1] \o q[i]
                   /\ FlattenSeq(q) = g[n]
        BY <2>1, <2>3, Flattening
    <2> DEFINE w(i) == ShowFrames(v, g[i])
               Seen(i) == {next[j] : j \in 1..i} \cup {x \in ToSet(p) : \A j \in 1..i : ~SameKey(x, next[j])}
               Right(i) == w(i) \in Views /\ Content(w(i)) = Seen(i)
               T == {i \in 0..n : ~Right(i)}
    <2>7. Right(0)
        <3>1. w(0) = v
            BY <2>6, NoFrameShown
        <3>2. Seen(0) = ToSet(p)
            OBVIOUS
        <3> QED
            BY <3>1, <3>2
    <2>8. ASSUME NEW i \in 1..n, Right(i - 1) PROVE Right(i)
        <3> DEFINE e == next[i]
        <3>1. e \in AnyEntry /\ i - 1 \in 0..n /\ i \in 0..n
            BY <2>1
        <3>2. g[i - 1] \in Seq(AnyFrame) /\ q[i] \in Seq(AnyFrame)
            BY <2>3, <2>6, <3>1
        <3>3. w(i) = ShowFrames(w(i - 1), q[i])
            <4>1. ShowFrames(v, g[i - 1] \o q[i]) = ShowFrames(ShowFrames(v, g[i - 1]), q[i])
                BY <3>2, FramesInTwoParts
            <4>2. g[i] = g[i - 1] \o q[i]
                BY <2>6
            <4> QED
                BY <4>1, <4>2
        <3>4. \A x \in Content(w(i - 1)) : SameKey(x, e) => x \in ToSet(p)
            <4> SUFFICES ASSUME NEW j \in 1..(i - 1), SameKey(next[j], e) PROVE FALSE
                BY <2>8
            <4>1. j \in 1..n /\ j # i
                BY <2>1
            <4> QED
                BY <2>1, <4>1 DEF Distinct
        <3>5. \A x \in ToSet(p) : SameKey(x, e) => x \in Content(w(i - 1))
            <4> SUFFICES ASSUME NEW x \in ToSet(p), SameKey(x, e), NEW j \in 1..(i - 1), SameKey(x, next[j])
                         PROVE  FALSE
                BY <2>8
            <4>1. j \in 1..n /\ j # i
                BY <2>1
            <4>2. x \in AnyEntry /\ next[j] \in AnyEntry
                BY <2>1, <4>1 DEF ToSet
            <4>3. SameKey(next[j], e)
                BY <3>1, <4>2, KeysAreEqual
            <4> QED
                BY <2>1, <4>1, <4>3 DEF Distinct
        <3>6. /\ ShowFrames(w(i - 1), q[i]) \in Views
              /\ Content(ShowFrames(w(i - 1), q[i])) = {x \in Content(w(i - 1)) : ~SameKey(x, e)} \cup {e}
            <4>1. w(i - 1) \in Views
                BY <2>8
            <4>2. q[i] = EntryPatch(p, e)
                BY <2>3
            <4> HIDE DEF w, e
            <4> QED
                BY <3>1, <3>4, <3>5, <4>1, <4>2, EntryIsPatched
        <3>7. {x \in Seen(i - 1) : ~SameKey(x, e)} \cup {e} = Seen(i)
            <4>1. \A j \in 1..(i - 1) : ~SameKey(next[j], e)
                BY <2>1 DEF Distinct
            <4>2. 1..i = 1..(i - 1) \cup {i}
                BY <2>1
            <4> QED
                BY <4>1, <4>2
        <3>8. Content(w(i - 1)) = Seen(i - 1)
            BY <2>8
        <3> HIDE DEF w, Seen
        <3> QED
            BY <3>3, <3>6, <3>7, <3>8
    <2> HIDE DEF Right
    <2>9. T = {}
        <3> SUFFICES ASSUME T # {} PROVE FALSE
            OBVIOUS
        <3>0. T \subseteq Nat
            OBVIOUS
        <3>1. PICK i \in T : \A m \in T : i <= m
            <4> HIDE DEF T
            <4> QED
                BY <3>0, LeastNumber
        <3>2. i # 0
            BY <2>7
        <3>3. i - 1 \in 0..n /\ i - 1 \notin T /\ i \in 1..n
            BY <2>1, <3>1, <3>2
        <3> QED
            BY <2>8, <3>1, <3>3
    <2>10. n \in 0..n /\ n \notin T
        BY <2>1, <2>9
    <2>11. Right(n)
        BY <2>10
    <2>12. w(n) \in Views /\ Content(w(n)) = Seen(n)
        BY <2>11 DEF Right
    <2>13. Seen(n) = ToSet(next)
        BY <2>1, <2>5 DEF ToSet
    <2>14. g[n] \in Seq(AnyFrame)
        BY <2>6, <2>10
    <2>15. Patch(p, next) \in Batch /\ Show(v, Patch(p, next)) = ShowFrames(v, g[n])
        BY <2>4, <2>6, <2>14 DEF Batch, Show
    <2> QED
        BY <2>12, <2>13, <2>15
<1> QED
    BY <1>1, <1>2

-----------------------------------------------------------------------------
(* What messages show. *)

LEMMA MessageIsHandled ==
    ASSUME NEW v \in Views, NEW m \in UserMessage
    PROVE  Handled(v, m) \in Views
<1>1. CASE m.type = "frames"
    <2>1. m.batch \in Batch
        BY <1>1 DEF UserMessage
    <2> QED
        BY <1>1, <2>1, BatchIsShown DEF Handled
<1>2. CASE m.type # "frames"
    <2>1. m.state \in Shape
        BY <1>2 DEF UserMessage
    <2> QED
        BY <1>2, <2>1, NothingShown DEF Handled
<1> QED
    BY <1>1, <1>2

LEMMA NoMessageHandled ==
    ASSUME NEW v
    PROVE  AllHandled(v, <<>>) = v
<1>1. Len(<<>>) \in Nat /\ Len(<<>>) = 0
    OBVIOUS
<1>2. PICK g : HandlesMessages(g, v, <<>>)
    BY <1>1, MessagesHaveSteps
<1>3. AllHandled(v, <<>>) = g[0]
    BY <1>1, <1>2, MessagesHandled
<1>4. g[0] = v
    BY <1>1, <1>2 DEF HandlesMessages
<1> QED
    BY <1>3, <1>4

LEMMA OneMessageHandled ==
    ASSUME NEW v, NEW m
    PROVE  AllHandled(v, <<m>>) = Handled(v, m)
<1>1. Len(<<m>>) \in Nat /\ Len(<<m>>) = 1 /\ <<m>>[1] = m
    OBVIOUS
<1>2. PICK g : HandlesMessages(g, v, <<m>>)
    BY <1>1, MessagesHaveSteps
<1>3. AllHandled(v, <<m>>) = g[1]
    BY <1>1, <1>2, MessagesHandled
<1>4. \A i \in 0..1 : g[i] = IF i = 0 THEN v ELSE Handled(g[i - 1], <<m>>[i])
    BY <1>1, <1>2 DEF HandlesMessages
<1>5. g[0] = v /\ g[1] = Handled(g[0], m)
    BY <1>1, <1>4
<1> QED
    BY <1>3, <1>5

LEMMA MessagesAreHandled ==
    ASSUME NEW v \in Views, NEW q \in Seq(UserMessage)
    PROVE  AllHandled(v, q) \in Views
<1>1. Len(q) \in Nat /\ \A i \in 1..Len(q) : q[i] \in UserMessage
    OBVIOUS
<1>2. PICK g : HandlesMessages(g, v, q)
    BY <1>1, MessagesHaveSteps
<1>3. \A i \in 0..Len(q) : g[i] = IF i = 0 THEN v ELSE Handled(g[i - 1], q[i])
    BY <1>2 DEF HandlesMessages
<1> DEFINE T == {i \in 0..Len(q) : g[i] \notin Views}
<1>4. T = {}
    <2> SUFFICES ASSUME T # {} PROVE FALSE
        OBVIOUS
    <2>0. T \subseteq Nat
        OBVIOUS
    <2>1. PICK i \in T : \A m \in T : i <= m
        <3> HIDE DEF T
        <3> QED
            BY <2>0, LeastNumber
    <2>2. i # 0
        BY <1>3
    <2>3. i - 1 \in 0..Len(q) /\ i - 1 \notin T /\ i \in 1..Len(q)
        BY <2>1, <2>2
    <2>4. g[i - 1] \in Views
        BY <2>3
    <2>5. Handled(g[i - 1], q[i]) \in Views
        BY <1>1, <2>3, <2>4, MessageIsHandled
    <2> QED
        BY <1>3, <2>2, <2>5
<1>5. g[Len(q)] \in Views
    BY <1>1, <1>4
<1> QED
    BY <1>1, <1>2, <1>5, MessagesHandled

\* One more message, first or last.
LEMMA OneMoreHandled ==
    ASSUME NEW v, NEW q \in Seq(UserMessage), NEW m \in UserMessage
    PROVE  /\ AllHandled(v, q \o <<m>>) = Handled(AllHandled(v, q), m)
           /\ AllHandled(v, <<m>> \o q) = AllHandled(Handled(v, m), q)
<1>1. <<m>> \in Seq(UserMessage)
    OBVIOUS
<1>2. AllHandled(v, q \o <<m>>) = AllHandled(AllHandled(v, q), <<m>>)
    BY <1>1, MessagesInTwoParts
<1>3. AllHandled(v, <<m>> \o q) = AllHandled(AllHandled(v, <<m>>), q)
    BY <1>1, MessagesInTwoParts
<1> QED
    BY <1>2, <1>3, OneMessageHandled

\* A message that shows the same whatever was shown before.
Resets(m) == m.type = "status" \/ (m.type = "frames" /\ m.batch.history)

LEMMA ResetForgets ==
    ASSUME NEW v, NEW w, NEW m, Resets(m)
    PROVE  Handled(v, m) = Handled(w, m)
BY DEF Resets, Handled, Show

\* What was shown before a history does not matter.
LEMMA HistoryForgets ==
    ASSUME NEW v, NEW w, NEW q \in Seq(UserMessage), NEW i \in DOMAIN q, Resets(q[i])
    PROVE  AllHandled(v, q) = AllHandled(w, q)
<1> DEFINE a == SubSeq(q, 1, i - 1)
           b == SubSeq(q, i + 1, Len(q))
           m == q[i]
<1>1. Len(q) \in Nat /\ i \in 1..Len(q) /\ m \in UserMessage /\ \A j \in 1..Len(q) : q[j] \in UserMessage
    OBVIOUS
<1>2. a \in Seq(UserMessage) /\ b \in Seq(UserMessage)
    <2>1. /\ 1 \in Int /\ i - 1 \in Int /\ i + 1 \in Int /\ Len(q) \in Int
          /\ (\A j \in 1..(i - 1) : q[j] \in UserMessage) /\ \A j \in (i + 1)..Len(q) : q[j] \in UserMessage
        BY <1>1
    <2> QED
        BY <2>1, SubSeqProperties
<1>3. q = a \o (<<m>> \o b)
    <2>1. SubSeq(q, i, Len(q)) = <<m>> \o b
        <3>1. Len(q) \in i..Len(q)
            BY <1>1
        <3> QED
            BY <1>1, <3>1, SubSeqRecursiveFirst
    <2>2. 1 \in 1..Len(q) + 1 /\ i - 1 \in (1 - 1)..Len(q) /\ Len(q) \in (i - 1)..Len(q) /\ (i - 1) + 1 = i
        BY <1>1
    <2>3. a \o SubSeq(q, (i - 1) + 1, Len(q)) = SubSeq(q, 1, Len(q))
        BY <2>2, ConcatAdjacentSubSeq
    <2>4. SubSeq(q, 1, Len(q)) = q
        BY SubSeqFull
    <2> QED
        BY <2>1, <2>2, <2>3, <2>4
<1> HIDE DEF a, b, m
<1>4. <<m>> \in Seq(UserMessage)
    BY <1>1
<1>5. <<m>> \o b \in Seq(UserMessage)
    BY <1>2, <1>4, ConcatProperties
<1>6. ASSUME NEW u PROVE AllHandled(u, q) = AllHandled(Handled(AllHandled(u, a), m), b)
    <2>1. AllHandled(u, q) = AllHandled(AllHandled(u, a), <<m>> \o b)
        BY <1>2, <1>3, <1>5, MessagesInTwoParts
    <2> QED
        BY <1>1, <1>2, <2>1, OneMoreHandled
<1>7. Handled(AllHandled(v, a), m) = Handled(AllHandled(w, a), m)
    BY ResetForgets DEF m
<1> QED
    BY <1>6, <1>7

LEMMA ForwardedMessages ==
    ASSUME NEW s, NEW q \in Seq(FrameMessage)
    PROVE  /\ Forwards(s, q) \in Seq(UserMessage) /\ Len(Forwards(s, q)) = Len(q)
           /\ \A i \in 1..Len(q) :
                 /\ Forwards(s, q)[i] = IF q[i].sub = s THEN Forwarded(q[i])
                                        ELSE [type |-> "frames", batch |-> NoFrames]
                 /\ Forwarded(q[i]) \in UserMessage
<1>1. Len(q) \in Nat /\ DOMAIN q = 1..Len(q) /\ \A i \in 1..Len(q) : q[i] \in FrameMessage
    OBVIOUS
<1>2. ASSUME NEW m \in FrameMessage PROVE Forwarded(m) \in UserMessage
    BY DEF FrameMessage, UserMessage, Forwarded, Status, Shape
<1>3. [type |-> "frames", batch |-> NoFrames] \in UserMessage
    <2>1. <<>> \in Seq(AnyFrame)
        OBVIOUS
    <2>2. NoFrames \in Batch
        BY <2>1 DEF NoFrames, Batch
    <2> QED
        BY <2>2 DEF UserMessage
<1> DEFINE F(i) == IF q[i].sub = s THEN Forwarded(q[i]) ELSE [type |-> "frames", batch |-> NoFrames]
<1>4. Forwards(s, q) = [i \in 1..Len(q) |-> F(i)]
    BY <1>1 DEF Forwards
<1>5. \A i \in 1..Len(q) : F(i) \in UserMessage
    BY <1>1, <1>2, <1>3
<1> HIDE DEF F
<1>6. /\ Forwards(s, q) \in Seq(UserMessage) /\ Len(Forwards(s, q)) = Len(q)
      /\ \A i \in 1..Len(q) : Forwards(s, q)[i] = F(i)
    BY <1>1, <1>4, <1>5
<1> QED
    BY <1>1, <1>2, <1>6 DEF F

LEMMA ForwardsInTwoParts ==
    ASSUME NEW s, NEW q \in Seq(FrameMessage), NEW r \in Seq(FrameMessage)
    PROVE  Forwards(s, q \o r) = Forwards(s, q) \o Forwards(s, r)
<1>1. /\ q \o r \in Seq(FrameMessage) /\ Len(q) \in Nat /\ Len(r) \in Nat /\ Len(q \o r) = Len(q) + Len(r)
      /\ \A i \in 1..Len(q) + Len(r) : (q \o r)[i] = IF i <= Len(q) THEN q[i] ELSE r[i - Len(q)]
    BY ConcatProperties
<1> DEFINE a == Forwards(s, q \o r)
           b == Forwards(s, q) \o Forwards(s, r)
<1>2. a \in Seq(UserMessage) /\ Len(a) = Len(q) + Len(r)
    BY <1>1, ForwardedMessages
<1>3. /\ b \in Seq(UserMessage) /\ Len(b) = Len(q) + Len(r)
      /\ \A i \in 1..Len(q) + Len(r) :
            b[i] = IF i <= Len(q) THEN Forwards(s, q)[i] ELSE Forwards(s, r)[i - Len(q)]
    <2>1. /\ Forwards(s, q) \in Seq(UserMessage) /\ Len(Forwards(s, q)) = Len(q)
          /\ Forwards(s, r) \in Seq(UserMessage) /\ Len(Forwards(s, r)) = Len(r)
        BY ForwardedMessages
    <2> DEFINE x == Forwards(s, q)
               y == Forwards(s, r)
    <2> HIDE DEF x, y
    <2>2. /\ x \o y \in Seq(UserMessage) /\ Len(x \o y) = Len(x) + Len(y)
          /\ \A i \in 1..Len(x) + Len(y) : (x \o y)[i] = IF i <= Len(x) THEN x[i] ELSE y[i - Len(x)]
        BY <2>1, ConcatProperties DEF x, y
    <2>3. Len(x) = Len(q) /\ Len(y) = Len(r)
        BY <2>1 DEF x, y
    <2>4. /\ x \o y \in Seq(UserMessage) /\ Len(x \o y) = Len(q) + Len(r)
          /\ \A i \in 1..Len(q) + Len(r) : (x \o y)[i] = IF i <= Len(q) THEN x[i] ELSE y[i - Len(q)]
        BY <2>2, <2>3
    <2> QED
        BY <2>4 DEF x, y
<1> HIDE DEF b
<1>4. ASSUME NEW i \in 1..Len(q) + Len(r) PROVE a[i] = b[i]
    <2>1. a[i] = IF (q \o r)[i].sub = s THEN Forwarded((q \o r)[i])
                 ELSE [type |-> "frames", batch |-> NoFrames]
        <3>1. i \in 1..Len(q \o r)
            BY <1>1
        <3> DEFINE t == q \o r
        <3>2. t \in Seq(FrameMessage) /\ i \in 1..Len(t)
            BY <1>1, <3>1
        <3> HIDE DEF t
        <3>3. Forwards(s, t)[i] = IF t[i].sub = s THEN Forwarded(t[i])
                                  ELSE [type |-> "frames", batch |-> NoFrames]
            BY <3>2, ForwardedMessages
        <3> QED
            BY <3>3 DEF t
    <2>2. CASE i <= Len(q)
        <3>1. i \in 1..Len(q)
            BY <1>1, <2>2
        <3> QED
            BY <1>1, <1>3, <2>1, <2>2, <3>1, ForwardedMessages
    <2>3. CASE ~(i <= Len(q))
        <3>1. i - Len(q) \in 1..Len(r)
            BY <1>1, <2>3
        <3> QED
            BY <1>1, <1>3, <2>1, <2>3, <3>1, ForwardedMessages
    <2> QED
        BY <2>2, <2>3
<1> HIDE DEF a
<1>5. a = b
    BY <1>1, <1>2, <1>3, <1>4, SeqEqual
<1> QED
    BY <1>5 DEF a, b

LEMMA OneForwarded ==
    ASSUME NEW s, NEW m \in FrameMessage
    PROVE  Forwards(s, <<m>>) = << IF m.sub = s THEN Forwarded(m) ELSE [type |-> "frames", batch |-> NoFrames] >>
<1>1. DOMAIN <<m>> = {1} /\ <<m>>[1] = m
    OBVIOUS
<1> QED
    BY <1>1 DEF Forwards

LEMMA NoneForwarded ==
    ASSUME NEW s
    PROVE  Forwards(s, <<>>) = <<>>
BY DEF Forwards

LEMMA NothingIsHandled ==
    ASSUME NEW v
    PROVE  Handled(v, [type |-> "frames", batch |-> NoFrames]) = v
<1>1. Handled(v, [type |-> "frames", batch |-> NoFrames]) = Show(v, NoFrames)
    BY DEF Handled
<1>2. Show(v, NoFrames) = ShowFrames(v, <<>>)
    BY DEF Show, NoFrames
<1> QED
    BY <1>1, <1>2, NoFrameShown

\* A message shows something only to the subscription it is for.
LEMMA OneForwardedIsHandled ==
    ASSUME NEW s, NEW v, NEW m \in FrameMessage
    PROVE  AllHandled(v, Forwards(s, <<m>>)) = IF m.sub = s THEN Handled(v, Forwarded(m)) ELSE v
<1>1. CASE m.sub = s
    BY <1>1, OneForwarded, OneMessageHandled
<1>2. CASE m.sub # s
    BY <1>2, OneForwarded, OneMessageHandled, NothingIsHandled
<1> QED
    BY <1>1, <1>2

\* What is handled after one more message of the connector.
LEMMA OneMoreForwarded ==
    ASSUME NEW s, NEW v, NEW q \in Seq(FrameMessage), NEW m \in FrameMessage
    PROVE  AllHandled(v, Forwards(s, q \o <<m>>)) =
              IF m.sub = s THEN Handled(AllHandled(v, Forwards(s, q)), Forwarded(m))
              ELSE AllHandled(v, Forwards(s, q))
<1>1. <<m>> \in Seq(FrameMessage)
    OBVIOUS
<1>2. Forwards(s, q \o <<m>>) = Forwards(s, q) \o Forwards(s, <<m>>)
    BY <1>1, ForwardsInTwoParts
<1>3. Forwards(s, q) \in Seq(UserMessage) /\ Forwards(s, <<m>>) \in Seq(UserMessage)
    BY <1>1, ForwardedMessages
<1>4. AllHandled(v, Forwards(s, q) \o Forwards(s, <<m>>))
         = AllHandled(AllHandled(v, Forwards(s, q)), Forwards(s, <<m>>))
    BY <1>3, MessagesInTwoParts
<1> DEFINE w == AllHandled(v, Forwards(s, q))
<1>5. AllHandled(v, Forwards(s, q \o <<m>>)) = AllHandled(w, Forwards(s, <<m>>))
    BY <1>2, <1>4
<1> HIDE DEF w
<1>6. AllHandled(w, Forwards(s, <<m>>)) = IF m.sub = s THEN Handled(w, Forwarded(m)) ELSE w
    BY OneForwardedIsHandled
<1>7. AllHandled(v, Forwards(s, q \o <<m>>)) = IF m.sub = s THEN Handled(w, Forwarded(m)) ELSE w
    BY <1>5, <1>6
<1> QED
    BY <1>7 DEF w

Notice(f) == [history |-> FALSE, frames |-> <<f>>]

\* A notification is sent once for every stream that is ready.
Notices(ready, f) == [s \in Sub |-> IF s \in ready THEN Message(s, Notice(f)) ELSE <<>>]

LEMMA NoticesAreSent ==
    ASSUME NEW ready \in SUBSET Sub, NEW f \in AnyFrame
    PROVE  /\ FlattenSeq(Notices(ready, f)) \in Seq(FrameMessage)
           /\ \A r \in ready : \A v : AllHandled(v, Forwards(r, FlattenSeq(Notices(ready, f)))) = ShowFrame(v, f)
<1> DEFINE q == Notices(ready, f)
           M(s) == [sub |-> s, failed |-> FALSE, batch |-> Notice(f)]
<1>1. MaxSubs \in Nat /\ Sub = 1..MaxSubs
    BY SessionStreamAssumption DEF Sub
<1>2. ASSUME NEW s \in Sub PROVE M(s) \in FrameMessage
    <2>1. <<f>> \in Seq(AnyFrame)
        OBVIOUS
    <2> QED
        BY <2>1 DEF FrameMessage, Notice, Batch
<1>3. \A s \in Sub : q[s] = IF s \in ready THEN <<M(s)>> ELSE <<>>
    BY DEF Notices, Message
<1> HIDE DEF M
<1>4. \A s \in Sub : q[s] \in Seq(FrameMessage)
    <2>1. \A s \in Sub : <<M(s)>> \in Seq(FrameMessage)
        BY <1>2
    <2>2. <<>> \in Seq(FrameMessage)
        OBVIOUS
    <2> QED
        BY <1>3, <2>1, <2>2
<1>5. q \in [1..MaxSubs -> Seq(FrameMessage)]
    BY <1>1, <1>4 DEF Notices
<1> HIDE DEF q
<1>6. PICK g : /\ g \in [0..MaxSubs -> Seq(FrameMessage)] /\ g[0] = <<>>
               /\ \A i \in 1..MaxSubs : g[i] = g[i - 1] \o q[i]
               /\ FlattenSeq(q) = g[MaxSubs]
    BY <1>1, <1>5, Flattening
<1>7. MaxSubs \in 0..MaxSubs
    BY <1>1
<1>8. ASSUME NEW r \in ready, NEW v PROVE AllHandled(v, Forwards(r, g[MaxSubs])) = ShowFrame(v, f)
    <2> DEFINE w(i) == AllHandled(v, Forwards(r, g[i]))
               Right(i) == w(i) = IF i < r THEN v ELSE ShowFrame(v, f)
               T == {i \in 0..MaxSubs : ~Right(i)}
    <2>1. r \in 1..MaxSubs
        BY <1>1
    <2>2. Right(0)
        <3>1. w(0) = v
            BY <1>6, NoneForwarded, NoMessageHandled
        <3>2. 0 < r
            BY <2>1
        <3> QED
            BY <3>1, <3>2
    <2>3. ASSUME NEW i \in 1..MaxSubs, Right(i - 1) PROVE Right(i)
        <3>1. g[i - 1] \in Seq(FrameMessage) /\ g[i] = g[i - 1] \o q[i]
            <4>1. i - 1 \in 0..MaxSubs
                BY <1>1
            <4>2. g[i - 1] \in Seq(FrameMessage)
                BY <1>6, <4>1
            <4> QED
                BY <1>6, <4>2
        <3>2. w(i - 1) = IF i - 1 < r THEN v ELSE ShowFrame(v, f)
            BY <2>3
        <3>3. CASE i \in ready
            <4>1. q[i] = <<M(i)>> /\ M(i) \in FrameMessage
                BY <1>1, <1>2, <1>3, <3>3
            <4>2. w(i) = IF M(i).sub = r THEN Handled(w(i - 1), Forwarded(M(i))) ELSE w(i - 1)
                BY <3>1, <4>1, OneMoreForwarded
            <4>3. M(i).sub = i
                BY DEF M
            <4>4. CASE i = r
                <5>1. Forwarded(M(i)) = [type |-> "frames", batch |-> Notice(f)]
                    BY DEF M, Forwarded
                <5>2. Handled(v, Forwarded(M(i))) = Show(v, Notice(f))
                    BY <5>1 DEF Handled
                <5>3. Show(v, Notice(f)) = ShowFrames(v, <<f>>)
                    BY DEF Show, Notice
                <5>4. w(i - 1) = v
                    BY <2>1, <3>2, <4>4
                <5>5. w(i) = ShowFrame(v, f)
                    BY <4>2, <4>3, <4>4, <5>2, <5>3, <5>4, OneFrameShown
                <5> QED
                    BY <2>1, <4>4, <5>5
            <4>5. CASE i # r
                <5>1. w(i) = w(i - 1)
                    BY <4>2, <4>3, <4>5
                <5>2. i - 1 < r <=> i < r
                    BY <2>1, <4>5
                <5> HIDE DEF w
                <5> QED
                    BY <3>2, <5>1, <5>2
            <4> QED
                BY <4>4, <4>5
        <3>4. CASE i \notin ready
            <4>1. q[i] = <<>> /\ i # r
                BY <1>1, <1>3, <3>4
            <4>2. g[i] = g[i - 1]
                BY <3>1, <4>1, ConcatEmptySeq
            <4>3. w(i) = w(i - 1)
                BY <4>2
            <4>4. i - 1 < r <=> i < r
                BY <2>1, <4>1
            <4> HIDE DEF w
            <4> QED
                BY <3>2, <4>3, <4>4
        <3> QED
            BY <3>3, <3>4
    <2> HIDE DEF Right
    <2>4. T = {}
        <3> SUFFICES ASSUME T # {} PROVE FALSE
            OBVIOUS
        <3>0. T \subseteq Nat
            OBVIOUS
        <3>1. PICK i \in T : \A m \in T : i <= m
            <4> HIDE DEF T
            <4> QED
                BY <3>0, LeastNumber
        <3>2. i # 0
            BY <2>2
        <3>3. i - 1 \in 0..MaxSubs /\ i - 1 \notin T /\ i \in 1..MaxSubs
            BY <1>1, <3>1, <3>2
        <3> QED
            BY <2>3, <3>1, <3>3
    <2>5. Right(MaxSubs)
        BY <1>7, <2>4
    <2>6. ~(MaxSubs < r)
        BY <1>1, <2>1
    <2> QED
        BY <2>5, <2>6 DEF Right
<1> QED
    BY <1>6, <1>7, <1>8 DEF q

-----------------------------------------------------------------------------
(* What arrives when a message moves on. *)

LEMMA HeadThenTail ==
    ASSUME NEW S, NEW q \in Seq(S), q # <<>>
    PROVE  /\ q = <<Head(q)>> \o Tail(q) /\ Head(q) = q[1]
           /\ Head(q) \in S /\ Tail(q) \in Seq(S)
<1>1. Len(q) \in Nat /\ 1 \in 1..Len(q) /\ Len(q) \in 1..Len(q) /\ q[1] = Head(q) /\ Tail(q) \in Seq(S)
      /\ q[1] \in S
    OBVIOUS
<1>2. SubSeq(q, 1, Len(q)) = <<q[1]>> \o SubSeq(q, 1 + 1, Len(q))
    BY <1>1, SubSeqRecursiveFirst
<1>3. SubSeq(q, 1, Len(q)) = q /\ Tail(q) = SubSeq(q, 2, Len(q))
    BY SubSeqFull, TailIsSubSeq
<1> QED
    BY <1>1, <1>2, <1>3

\* What a view becomes with the messages t for the user, and those of the connector
\* in a check (c) and behind it (u).
Outcome(v, t, r, c, u) == AllHandled(v, t \o Forwards(r, c) \o Forwards(r, u))

LEMMA OutcomeInParts ==
    ASSUME NEW v, NEW t \in Seq(UserMessage), NEW r,
           NEW c \in Seq(FrameMessage), NEW u \in Seq(FrameMessage)
    PROVE  Outcome(v, t, r, c, u) = AllHandled(AllHandled(AllHandled(v, t), Forwards(r, c)), Forwards(r, u))
<1>1. Forwards(r, c) \in Seq(UserMessage) /\ Forwards(r, u) \in Seq(UserMessage)
    BY ForwardedMessages
<1> DEFINE a == Forwards(r, c)
           b == Forwards(r, u)
<1> HIDE DEF a, b
<1>2. t \o a \in Seq(UserMessage)
    BY <1>1, ConcatProperties DEF a
<1>3. AllHandled(v, (t \o a) \o b) = AllHandled(AllHandled(v, t \o a), b)
    BY <1>1, <1>2, MessagesInTwoParts DEF b
<1>4. AllHandled(v, t \o a) = AllHandled(AllHandled(v, t), a)
    BY <1>1, MessagesInTwoParts DEF a
<1> QED
    BY <1>3, <1>4 DEF Outcome, a, b

LEMMA OutcomeIsView ==
    ASSUME NEW v \in Views, NEW t \in Seq(UserMessage), NEW r,
           NEW c \in Seq(FrameMessage), NEW u \in Seq(FrameMessage)
    PROVE  Outcome(v, t, r, c, u) \in Views
<1>1. Forwards(r, c) \in Seq(UserMessage) /\ Forwards(r, u) \in Seq(UserMessage)
    BY ForwardedMessages
<1>2. AllHandled(v, t) \in Views
    BY MessagesAreHandled
<1>3. AllHandled(AllHandled(v, t), Forwards(r, c)) \in Views
    BY <1>1, <1>2, MessagesAreHandled
<1>4. AllHandled(AllHandled(AllHandled(v, t), Forwards(r, c)), Forwards(r, u)) \in Views
    BY <1>1, <1>3, MessagesAreHandled
<1> QED
    BY <1>4, OutcomeInParts

LEMMA NothingChecked ==
    ASSUME NEW v, NEW t \in Seq(UserMessage), NEW r, NEW u \in Seq(FrameMessage)
    PROVE  Outcome(v, t, r, <<>>, u) = AllHandled(AllHandled(v, t), Forwards(r, u))
<1> DEFINE c == <<>>
<1>1. c \in Seq(FrameMessage) /\ Forwards(r, c) = <<>>
    BY NoneForwarded
<1>2. AllHandled(AllHandled(v, t), Forwards(r, c)) = AllHandled(v, t)
    BY <1>1, NoMessageHandled
<1> HIDE DEF c
<1>3. Outcome(v, t, r, c, u) = AllHandled(AllHandled(AllHandled(v, t), Forwards(r, c)), Forwards(r, u))
    BY <1>1, OutcomeInParts
<1>4. Outcome(v, t, r, c, u) = AllHandled(AllHandled(v, t), Forwards(r, u))
    BY <1>2, <1>3
<1> QED
    BY <1>4 DEF c

\* More frames from the connector are handled last.
LEMMA OutcomeWithMore ==
    ASSUME NEW v, NEW t \in Seq(UserMessage), NEW r,
           NEW c \in Seq(FrameMessage), NEW u \in Seq(FrameMessage), NEW w \in Seq(FrameMessage)
    PROVE  Outcome(v, t, r, c, u \o w) = AllHandled(Outcome(v, t, r, c, u), Forwards(r, w))
<1> DEFINE x == AllHandled(AllHandled(v, t), Forwards(r, c))
<1> DEFINE uw == u \o w
<1>1. uw \in Seq(FrameMessage)
    BY ConcatProperties
<1> HIDE DEF uw
<1>2. Outcome(v, t, r, c, uw) = AllHandled(x, Forwards(r, uw))
    BY <1>1, OutcomeInParts
<1>3. Outcome(v, t, r, c, u) = AllHandled(x, Forwards(r, u))
    BY OutcomeInParts
<1> HIDE DEF x
<1>4. Forwards(r, u) \in Seq(UserMessage) /\ Forwards(r, w) \in Seq(UserMessage)
    BY ForwardedMessages
<1>5. AllHandled(x, Forwards(r, u) \o Forwards(r, w)) = AllHandled(AllHandled(x, Forwards(r, u)), Forwards(r, w))
    BY <1>4, MessagesInTwoParts
<1>6. Forwards(r, u \o w) = Forwards(r, u) \o Forwards(r, w)
    BY ForwardsInTwoParts
<1> QED
    BY <1>2, <1>3, <1>5, <1>6 DEF uw

\* The browser handles the first message.
LEMMA OutcomeReceived ==
    ASSUME NEW v, NEW t \in Seq(UserMessage), t # <<>>, NEW r,
           NEW c \in Seq(FrameMessage), NEW u \in Seq(FrameMessage)
    PROVE  Outcome(Handled(v, Head(t)), Tail(t), r, c, u) = Outcome(v, t, r, c, u)
<1>1. t = <<Head(t)>> \o Tail(t) /\ Head(t) \in UserMessage /\ Tail(t) \in Seq(UserMessage)
    BY HeadThenTail
<1>2. AllHandled(v, <<Head(t)>> \o Tail(t)) = AllHandled(Handled(v, Head(t)), Tail(t))
    BY <1>1, OneMoreHandled
<1>3. AllHandled(v, t) = AllHandled(Handled(v, Head(t)), Tail(t))
    BY <1>1, <1>2
<1> DEFINE y == Handled(v, Head(t))
           rest == Tail(t)
<1>4. rest \in Seq(UserMessage) /\ AllHandled(v, t) = AllHandled(y, rest)
    BY <1>1, <1>3
<1> HIDE DEF y, rest
<1>5. Outcome(y, rest, r, c, u) = AllHandled(AllHandled(AllHandled(y, rest), Forwards(r, c)), Forwards(r, u))
    BY <1>4, OutcomeInParts
<1>6. Outcome(v, t, r, c, u) = AllHandled(AllHandled(AllHandled(v, t), Forwards(r, c)), Forwards(r, u))
    BY OutcomeInParts
<1>7. Outcome(y, rest, r, c, u) = Outcome(v, t, r, c, u)
    BY <1>4, <1>5, <1>6
<1> QED
    BY <1>7 DEF y, rest

\* The server takes a frame of the connector: it drops it, forwards it or checks it.
LEMMA OutcomeTaken ==
    ASSUME NEW v, NEW t \in Seq(UserMessage), NEW r, NEW u \in Seq(FrameMessage), u # <<>>
    PROVE  /\ Outcome(v, t, r, <<Head(u)>>, Tail(u)) = Outcome(v, t, r, <<>>, u)
           /\ Head(u).sub # r => Outcome(v, t, r, <<>>, Tail(u)) = Outcome(v, t, r, <<>>, u)
<1> DEFINE m == Head(u)
           x == AllHandled(v, t)
<1>1. u = <<m>> \o Tail(u) /\ m \in FrameMessage /\ Tail(u) \in Seq(FrameMessage)
    BY HeadThenTail
<1> HIDE DEF m
<1>2. <<m>> \in Seq(FrameMessage) /\ <<>> \in Seq(FrameMessage)
    BY <1>1
<1>3. ASSUME NEW w \in Seq(FrameMessage) PROVE Outcome(v, t, r, <<>>, w) = AllHandled(x, Forwards(r, w))
    BY NothingChecked
<1>4. Outcome(v, t, r, <<m>>, Tail(u)) = AllHandled(AllHandled(x, Forwards(r, <<m>>)), Forwards(r, Tail(u)))
    <2> DEFINE c == <<m>>
               rest == Tail(u)
    <2>1. c \in Seq(FrameMessage) /\ rest \in Seq(FrameMessage)
        BY <1>1, <1>2
    <2> HIDE DEF c, rest
    <2>2. Outcome(v, t, r, c, rest) = AllHandled(AllHandled(x, Forwards(r, c)), Forwards(r, rest))
        BY <2>1, OutcomeInParts
    <2> QED
        BY <2>2 DEF c, rest
<1> HIDE DEF x
<1>5. Forwards(r, <<m>>) \in Seq(UserMessage) /\ Forwards(r, Tail(u)) \in Seq(UserMessage)
    BY <1>1, <1>2, ForwardedMessages
<1>6. AllHandled(x, Forwards(r, <<m>>) \o Forwards(r, Tail(u)))
         = AllHandled(AllHandled(x, Forwards(r, <<m>>)), Forwards(r, Tail(u)))
    BY <1>5, MessagesInTwoParts
<1>7. Forwards(r, <<m>> \o Tail(u)) = Forwards(r, <<m>>) \o Forwards(r, Tail(u))
    BY <1>1, <1>2, ForwardsInTwoParts
<1>8. Outcome(v, t, r, <<>>, u) = Outcome(v, t, r, <<m>>, Tail(u))
    BY <1>1, <1>3, <1>4, <1>6, <1>7
<1>9. m.sub # r => AllHandled(x, Forwards(r, <<m>>)) = x
    BY <1>1, OneForwardedIsHandled
<1>10. m.sub # r => Outcome(v, t, r, <<>>, Tail(u)) = Outcome(v, t, r, <<>>, u)
    BY <1>1, <1>3, <1>4, <1>8, <1>9
<1> QED
    BY <1>8, <1>10 DEF m

\* What was checked is forwarded: as it was counted, if it is for this subscription.
LEMMA OutcomeForwarded ==
    ASSUME NEW v, NEW t \in Seq(UserMessage), NEW r, NEW m \in FrameMessage, NEW u \in Seq(FrameMessage),
           m.sub = r \/ \E i \in DOMAIN u : u[i].sub = r /\ ~u[i].failed /\ u[i].batch.history
    PROVE  Outcome(v, t \o <<Forwarded(m)>>, r, <<>>, u) = Outcome(v, t, r, <<m>>, u)
<1> DEFINE x == AllHandled(v, t)
           f == Forwarded(m)
<1>1. f \in UserMessage /\ <<m>> \in Seq(FrameMessage) /\ <<>> \in Seq(FrameMessage)
    <2>1. <<m>> \in Seq(FrameMessage) /\ Len(<<m>>) = 1 /\ <<m>>[1] = m /\ 1 \in 1..Len(<<m>>)
        OBVIOUS
    <2> DEFINE c == <<m>>
    <2> HIDE DEF c
    <2>2. Forwarded(c[1]) \in UserMessage
        BY <2>1, ForwardedMessages DEF c
    <2> QED
        BY <2>1, <2>2 DEF c
<1>2. t \o <<f>> \in Seq(UserMessage) /\ AllHandled(v, t \o <<f>>) = Handled(x, f)
    <2>1. <<f>> \in Seq(UserMessage)
        BY <1>1
    <2> QED
        BY <1>1, <2>1, ConcatProperties, OneMoreHandled
<1>3. Outcome(v, t \o <<f>>, r, <<>>, u) = AllHandled(Handled(x, f), Forwards(r, u))
    <2> DEFINE y == t \o <<f>>
    <2>1. y \in Seq(UserMessage) /\ AllHandled(v, y) = Handled(x, f)
        BY <1>2
    <2> HIDE DEF y, x, f
    <2>2. Outcome(v, y, r, <<>>, u) = AllHandled(Handled(x, f), Forwards(r, u))
        BY <2>1, NothingChecked
    <2> QED
        BY <2>2 DEF y
<1>4. Outcome(v, t, r, <<m>>, u) = AllHandled(AllHandled(x, Forwards(r, <<m>>)), Forwards(r, u))
    <2> DEFINE c == <<m>>
    <2>1. c \in Seq(FrameMessage)
        BY <1>1
    <2> HIDE DEF c
    <2>2. Outcome(v, t, r, c, u) = AllHandled(AllHandled(x, Forwards(r, c)), Forwards(r, u))
        BY <2>1, OutcomeInParts
    <2> QED
        BY <2>2 DEF c
<1> HIDE DEF x
<1>5. CASE m.sub = r
    <2>1. AllHandled(x, Forwards(r, <<m>>)) = Handled(x, f)
        BY <1>5, OneForwardedIsHandled
    <2> QED
        BY <1>3, <1>4, <2>1
<1>6. CASE \E i \in DOMAIN u : u[i].sub = r /\ ~u[i].failed /\ u[i].batch.history
    <2>1. PICK i \in DOMAIN u : u[i].sub = r /\ ~u[i].failed /\ u[i].batch.history
        BY <1>6
    <2> DEFINE q == Forwards(r, u)
    <2>2. q \in Seq(UserMessage) /\ Len(q) = Len(u) /\ i \in 1..Len(u)
        BY ForwardedMessages
    <2>3. q[i] = Forwarded(u[i])
        BY <2>1, <2>2, ForwardedMessages
    <2>4. Resets(q[i])
        BY <2>1, <2>3 DEF Resets, Forwarded
    <2> HIDE DEF q
    <2>5. i \in DOMAIN q
        BY <2>2
    <2>6. \A y, z : AllHandled(y, q) = AllHandled(z, q)
        BY <2>2, <2>4, <2>5, HistoryForgets
    <2> QED
        BY <1>3, <1>4, <2>6 DEF q
<1> QED
    BY <1>5, <1>6

-----------------------------------------------------------------------------
(* The thread. *)

LEMMA EmptyIsDistinct == Distinct(<<>>)
BY DEF Distinct

LEMMA TurnIsAppended ==
    ASSUME NEW q \in Seq(AnyEntry), InOrder(q), NEW e \in TurnEntries, e.id = q[Len(q)].id + 1
    PROVE  Append(q, e) \in Seq(AnyEntry) /\ InOrder(Append(q, e))
<1> DEFINE n == Len(q)
           r == Append(q, e)
<1>1. n \in Nat /\ n # 0 /\ DOMAIN q = 1..n /\ \A i \in 1..n : q[i] \in AnyEntry
    BY DEF InOrder
<1>2. e \in AnyEntry /\ e.kind = "turn" /\ e.id \in Nat
    BY DEF AnyEntry, TurnEntries
<1>3. /\ r \in Seq(AnyEntry) /\ r # <<>> /\ Len(r) = n + 1
      /\ (\A i \in 1..n : r[i] = q[i]) /\ r[n + 1] = e
    BY <1>2, AppendProperties
<1>4. DOMAIN r = 1..(n + 1)
    BY <1>3
<1>5. \A i \in 1..n : /\ q[i].id \in Nat
                      /\ q[i].kind = "turn" => q[i].id < e.id
                      /\ q[i].kind # "turn" => q[i].id < n
    <2>1. \A x \in AnyEntry : x.id \in Nat
        BY DEF AnyEntry, Item, TurnEntries
    <2> QED
        BY <1>1, <2>1 DEF InOrder
<1> HIDE DEF r, n
<1>6. Distinct(r)
    <2> SUFFICES ASSUME NEW i \in 1..(n + 1), NEW j \in 1..(n + 1), SameKey(r[i], r[j]) PROVE i = j
        BY <1>4 DEF Distinct
    <2>1. CASE i \in 1..n /\ j \in 1..n
        BY <1>1, <1>3, <2>1 DEF Distinct, InOrder
    <2>2. CASE i \in 1..n /\ j = n + 1
        BY <1>2, <1>3, <1>5, <2>2 DEF SameKey
    <2>3. CASE i = n + 1 /\ j \in 1..n
        BY <1>2, <1>3, <1>5, <2>3 DEF SameKey
    <2> QED
        BY <1>1, <2>1, <2>2, <2>3
<1>7. ASSUME NEW i \in 1..(n + 1)
      PROVE  IF r[i].kind = "turn" THEN r[i].id <= e.id ELSE r[i].id < n + 1
    <2>1. CASE i \in 1..n
        BY <1>1, <1>2, <1>3, <1>5, <2>1
    <2>2. CASE i = n + 1
        BY <1>2, <1>3, <2>2
    <2> QED
        BY <1>1, <2>1, <2>2
<1>8. InOrder(r)
    BY <1>2, <1>3, <1>4, <1>6, <1>7 DEF InOrder
<1> QED
    BY <1>3, <1>8 DEF r

LEMMA ItemIsInserted ==
    ASSUME NEW q \in Seq(AnyEntry), InOrder(q), NEW e \in Item, e.id = Len(q)
    PROVE  InsertAt(q, Len(q), e) \in Seq(AnyEntry) /\ InOrder(InsertAt(q, Len(q), e))
<1> DEFINE n == Len(q)
           a == SubSeq(q, 1, n - 1)
           z == SubSeq(q, n, n)
           r == InsertAt(q, n, e)
<1>1. n \in Nat /\ n # 0 /\ DOMAIN q = 1..n /\ \A i \in 1..n : q[i] \in AnyEntry
    BY DEF InOrder
<1>2. e \in AnyEntry /\ e.kind # "turn" /\ e.id \in Nat
    BY DEF AnyEntry, Item
<1>3. a \in Seq(AnyEntry) /\ Len(a) = n - 1 /\ \A i \in 1..(n - 1) : a[i] = q[i]
    BY <1>1
<1>4. z \in Seq(AnyEntry) /\ Len(z) = 1 /\ z[1] = q[n]
    BY <1>1
<1>5. r = (a \o <<e>>) \o z
    BY DEF InsertAt
<1>6. <<e>> \in Seq(AnyEntry) /\ Len(<<e>>) = 1 /\ <<e>>[1] = e
    BY <1>2
<1> HIDE DEF a, z, r, n
<1> DEFINE b == a \o <<e>>
<1>7. b \in Seq(AnyEntry) /\ Len(b) = n /\ (\A i \in 1..(n - 1) : b[i] = q[i]) /\ b[n] = e
    BY <1>1, <1>3, <1>6
<1> HIDE DEF b
<1>8. /\ r \in Seq(AnyEntry) /\ Len(r) = n + 1
      /\ (\A i \in 1..(n - 1) : r[i] = q[i]) /\ r[n] = e /\ r[n + 1] = q[n]
    <2>1. r = b \o z
        BY <1>5 DEF b
    <2>2. /\ b \o z \in Seq(AnyEntry) /\ Len(b \o z) = Len(b) + Len(z)
          /\ \A i \in 1..Len(b) + Len(z) : (b \o z)[i] = IF i <= Len(b) THEN b[i] ELSE z[i - Len(b)]
        BY <1>4, <1>7, ConcatProperties, ZenonT(40)
    <2>3. /\ r \in Seq(AnyEntry) /\ Len(r) = n + 1
          /\ \A i \in 1..n + 1 : r[i] = IF i <= n THEN b[i] ELSE z[i - n]
        BY <1>4, <1>7, <2>1, <2>2
    <2>4. \A i \in 1..n : i \in 1..n + 1 /\ i <= n
        BY <1>1
    <2>5. n + 1 \in 1..n + 1 /\ ~(n + 1 <= n) /\ (n + 1) - n = 1 /\ n \in 1..n
        BY <1>1
    <2>6. r[n + 1] = z[1]
        BY <2>3, <2>5
    <2>7. \A i \in 1..n : r[i] = b[i]
        BY <2>3, <2>4
    <2> QED
        BY <1>1, <1>4, <1>7, <2>3, <2>5, <2>6, <2>7
<1>9. DOMAIN r = 1..(n + 1) /\ r # <<>>
    BY <1>1, <1>8
<1>10. \A i \in 1..n : /\ q[i].id \in Nat
                       /\ q[i].kind = "turn" => q[i].id <= q[n].id
                       /\ q[i].kind # "turn" => q[i].id < n
    BY <1>1 DEF InOrder, AnyEntry, Item, TurnEntries, n
<1>11. q[n].kind = "turn" /\ e.id = n /\ Distinct(q)
    BY DEF InOrder, n
<1> DEFINE from(i) == IF i = n + 1 THEN n ELSE i
<1>12. \A i \in 1..(n + 1) : i # n => r[i] = q[from(i)] /\ from(i) \in 1..n
    BY <1>1, <1>8
<1>13. Distinct(r)
    <2> SUFFICES ASSUME NEW i \in 1..(n + 1), NEW j \in 1..(n + 1), SameKey(r[i], r[j]) PROVE i = j
        BY <1>9 DEF Distinct
    <2>1. CASE i # n /\ j # n
        <3>1. from(i) = from(j)
            BY <1>1, <1>11, <1>12, <2>1 DEF Distinct
        <3> QED
            BY <1>1, <2>1, <3>1
    <2>2. CASE i = n /\ j # n
        BY <1>2, <1>8, <1>10, <1>11, <1>12, <2>2 DEF SameKey
    <2>3. CASE i # n /\ j = n
        BY <1>2, <1>8, <1>10, <1>11, <1>12, <2>3 DEF SameKey
    <2> QED
        BY <2>1, <2>2, <2>3
<1>14. ASSUME NEW i \in 1..(n + 1)
       PROVE  IF r[i].kind = "turn" THEN r[i].id <= q[n].id ELSE r[i].id < n + 1
    <2>1. CASE i # n
        <3>1. r[i] = q[from(i)] /\ from(i) \in 1..n
            BY <1>12, <2>1
        <3> HIDE DEF from
        <3> QED
            BY <1>1, <1>10, <3>1
    <2>2. CASE i = n
        BY <1>1, <1>2, <1>8, <1>11, <2>2
    <2> QED
        BY <2>1, <2>2
<1>15. InOrder(r)
    BY <1>8, <1>9, <1>11, <1>13, <1>14 DEF InOrder
<1> QED
    BY <1>8, <1>15 DEF r, n

LEMMA EntryIsReplaced ==
    ASSUME NEW q \in Seq(AnyEntry), InOrder(q), NEW i \in 1..Len(q), NEW e \in AnyEntry, SameKey(e, q[i])
    PROVE  [q EXCEPT ![i] = e] \in Seq(AnyEntry) /\ InOrder([q EXCEPT ![i] = e])
<1> DEFINE n == Len(q)
           r == [q EXCEPT ![i] = e]
<1>1. n \in Nat /\ n # 0 /\ DOMAIN q = 1..n /\ \A j \in 1..n : q[j] \in AnyEntry
    BY DEF InOrder
<1>2. /\ r \in Seq(AnyEntry) /\ Len(r) = n
      /\ \A j \in 1..n : r[j] = IF j = i THEN e ELSE q[j]
    BY ExceptSeq
<1>3. DOMAIN r = 1..n /\ r # <<>>
    BY <1>1, <1>2
<1> HIDE DEF r
<1>4. \A j \in 1..n : r[j].kind = q[j].kind /\ r[j].id = q[j].id
    BY <1>2 DEF SameKey
<1>5. Distinct(r)
    BY <1>1, <1>3, <1>4 DEF Distinct, InOrder, SameKey
<1>6. InOrder(r)
    BY <1>1, <1>2, <1>3, <1>4, <1>5 DEF InOrder
<1> QED
    BY <1>2, <1>6 DEF r

LEMMA TextIsSet ==
    ASSUME NEW e \in Item, NEW text
    PROVE  [e EXCEPT !.val = text] = [kind |-> e.kind, id |-> e.id, val |-> text]
BY DEF Item

LEMMA AgentKeepsOrder ==
    ASSUME StreamTypeOK, InOrder(thread), Agent
    PROVE  /\ thread' \in Seq(AnyEntry) /\ notified' \in BOOLEAN /\ changes' \in Nat
           /\ notices' \in Seq(AnyFrame) /\ InOrder(thread')
           /\ UNCHANGED <<streams, linkVars, serverVars, intents, toUser, viewerVars, faults>>
<1> DEFINE n == Len(thread)
<1>1. /\ thread \in Seq(AnyEntry) /\ notices \in Seq(AnyFrame) /\ changes \in Nat /\ notified \in BOOLEAN
      /\ MaxText \in Nat
    BY SessionStreamAssumption DEF StreamTypeOK, WorkstationTypes
<1>2. /\ n \in Nat /\ n \in 1..n /\ DOMAIN thread = 1..n /\ \A i \in 1..n : thread[i] \in AnyEntry
    BY <1>1 DEF InOrder
<1>3. LastTurn = thread[n] /\ LastTurn \in TurnEntries /\ LastTurn.kind = "turn"
    BY <1>2 DEF InOrder, LastTurn, AnyEntry, Item
<1>4. ASSUME NEW open \in BOOLEAN
      PROVE  TurnEntry(open) \in TurnEntries /\ SameKey(TurnEntry(open), thread[n])
    BY <1>3 DEF TurnEntry, Entry, TurnEntries, SameKey
<1>5. TurnEntries \subseteq AnyEntry /\ Item \subseteq AnyEntry
    BY DEF AnyEntry
<1>6. ASSUME NEW entries \in Seq(AnyEntry), InOrder(entries), NEW f \in AnyFrame,
             Changes(entries, f), notified' \in BOOLEAN
      PROVE  /\ thread' \in Seq(AnyEntry) /\ notified' \in BOOLEAN /\ changes' \in Nat
             /\ notices' \in Seq(AnyFrame) /\ InOrder(thread')
             /\ UNCHANGED <<streams, linkVars, serverVars, intents, toUser, viewerVars, faults>>
    BY <1>1, <1>6 DEF Changes
<1>7. ASSUME NEW e \in AnyEntry, NEW op \in {"set", "start", "add"} PROVE Frame(op, e) \in AnyFrame
    BY DEF Frame, AnyFrame
<1>8. ASSUME NEW seen \in BOOLEAN, TurnStarts(seen) PROVE thread' \in Seq(AnyEntry) /\ notified' \in BOOLEAN /\ changes' \in Nat
             /\ notices' \in Seq(AnyFrame) /\ InOrder(thread')
             /\ UNCHANGED <<streams, linkVars, serverVars, intents, toUser, viewerVars, faults>>
    <2> DEFINE e == [TurnEntry(TRUE) EXCEPT !.id = @ + 1]
    <2>1. e \in TurnEntries /\ e.id = thread[n].id + 1
        <3>1. TurnEntry(TRUE) \in TurnEntries /\ TurnEntry(TRUE).id = thread[n].id
            BY <1>3, <1>4 DEF TurnEntry, Entry
        <3> DEFINE y == TurnEntry(TRUE)
        <3>2. y \in TurnEntries /\ y.id = thread[n].id /\ e = [y EXCEPT !.id = @ + 1]
            BY <3>1
        <3> HIDE DEF y, e
        <3>3. y.id + 1 \in Nat
            BY <3>2 DEF TurnEntries
        <3> QED
            BY <3>2, <3>3 DEF TurnEntries
    <2>2. Changes(Append(thread, e), Frame("set", e)) /\ notified' = seen
        BY <1>8 DEF TurnStarts
    <2> HIDE DEF e
    <2>3. Append(thread, e) \in Seq(AnyEntry) /\ InOrder(Append(thread, e))
        BY <1>1, <2>1, TurnIsAppended
    <2> QED
        BY <1>5, <1>6, <1>7, <2>1, <2>2, <2>3
<1>9. ASSUME NEW kind \in {"message", "image"}, ItemStarts(kind)
      PROVE  thread' \in Seq(AnyEntry) /\ notified' \in BOOLEAN /\ changes' \in Nat
             /\ notices' \in Seq(AnyFrame) /\ InOrder(thread')
             /\ UNCHANGED <<streams, linkVars, serverVars, intents, toUser, viewerVars, faults>>
    <2> DEFINE e == Entry(kind, Len(thread), <<>>)
               op == IF kind = "message" THEN "start" ELSE "set"
    <2>1. e \in Item /\ e.id = Len(thread)
        BY <1>2 DEF Entry, Item
    <2>2. Changes(InsertAt(thread, Len(thread), e), Frame(op, e)) /\ notified' = notified
        BY <1>9 DEF ItemStarts
    <2>3. op \in {"set", "start", "add"}
        OBVIOUS
    <2> HIDE DEF e, op
    <2>4. InsertAt(thread, Len(thread), e) \in Seq(AnyEntry) /\ InOrder(InsertAt(thread, Len(thread), e))
        BY <1>1, <2>1, ItemIsInserted
    <2> QED
        BY <1>1, <1>5, <1>6, <1>7, <2>1, <2>2, <2>3, <2>4
<1>10. ASSUME NEW complete \in BOOLEAN, MessageGrows(complete)
       PROVE  thread' \in Seq(AnyEntry) /\ notified' \in BOOLEAN /\ changes' \in Nat
              /\ notices' \in Seq(AnyFrame) /\ InOrder(thread')
              /\ UNCHANGED <<streams, linkVars, serverVars, intents, toUser, viewerVars, faults>>
    <2> DEFINE whole == [k \in 1..MaxText |-> k]
               piece(i) == <<Len(thread[i].val) + 1>>
               text(i) == IF complete THEN whole ELSE thread[i].val \o piece(i)
               grown(i) == [thread[i] EXCEPT !.val = IF complete THEN whole ELSE @ \o piece(i)]
               f(i) == IF complete THEN Frame("set", grown(i))
                       ELSE Frame("add", [thread[i] EXCEPT !.val = piece(i)])
    <2>1. PICK i \in 1..n : /\ thread[i].kind = "message"
                            /\ Changes([thread EXCEPT ![i] = grown(i)], f(i))
        BY <1>2, <1>10 DEF MessageGrows
    <2>2. notified' = notified
        BY <1>10 DEF MessageGrows
    <2>3. thread[i] \in Item /\ thread[i].val \in Seq(Nat)
        BY <1>2, <2>1 DEF AnyEntry, Item, TurnEntries
    <2>4. whole \in Seq(Nat) /\ piece(i) \in Seq(Nat)
        <3>1. Len(thread[i].val) + 1 \in Nat
            BY <2>3
        <3>2. \A k \in 1..MaxText : k \in Nat
            BY <1>1
        <3> QED
            BY <1>1, <3>1, <3>2
    <2>5. text(i) \in Seq(Nat)
        BY <2>3, <2>4, ConcatProperties
    <2> HIDE DEF whole, piece
    <2>6. grown(i) = [kind |-> thread[i].kind, id |-> thread[i].id, val |-> text(i)]
        <3>1. CASE complete
            BY <2>3, <3>1 DEF Item
        <3>2. CASE ~complete
            <4>1. text(i) = thread[i].val \o piece(i)
                BY <3>2
            <4>2. grown(i) = [thread[i] EXCEPT !.val = thread[i].val \o piece(i)]
                BY <3>2
            <4> HIDE DEF text, grown
            <4> QED
                BY <2>3, <4>1, <4>2, TextIsSet
        <3> QED
            BY <3>1, <3>2
    <2>7. [thread[i] EXCEPT !.val = piece(i)] = [kind |-> thread[i].kind, id |-> thread[i].id, val |-> piece(i)]
        BY <2>3, SMTT(30) DEF Item
    <2> HIDE DEF text
    <2>8. grown(i) \in Item /\ SameKey(grown(i), thread[i])
        <3> HIDE DEF grown
        <3> QED
            BY <2>3, <2>5, <2>6 DEF Item, SameKey
    <2>9. [thread[i] EXCEPT !.val = piece(i)] \in Item
        BY <2>3, <2>4, <2>7 DEF Item
    <2>10. f(i) \in AnyFrame
        <3> HIDE DEF grown
        <3>1. Frame("set", grown(i)) \in AnyFrame
            BY <1>5, <1>7, <2>8
        <3>2. Frame("add", [thread[i] EXCEPT !.val = piece(i)]) \in AnyFrame
            BY <1>5, <1>7, <2>9
        <3> QED
            BY <3>1, <3>2
    <2> HIDE DEF grown, f
    <2>11. [thread EXCEPT ![i] = grown(i)] \in Seq(AnyEntry) /\ InOrder([thread EXCEPT ![i] = grown(i)])
        BY <1>1, <1>5, <2>8, EntryIsReplaced
    <2> QED
        BY <1>1, <1>6, <2>1, <2>2, <2>10, <2>11
<1>11. ASSUME TurnCompletes PROVE thread' \in Seq(AnyEntry) /\ notified' \in BOOLEAN /\ changes' \in Nat
             /\ notices' \in Seq(AnyFrame) /\ InOrder(thread')
             /\ UNCHANGED <<streams, linkVars, serverVars, intents, toUser, viewerVars, faults>>
    <2> DEFINE e == TurnEntry(FALSE)
    <2>1. Changes([thread EXCEPT ![n] = e], Frame("set", e)) /\ notified' = notified
        BY <1>11 DEF TurnCompletes
    <2>2. e \in AnyEntry /\ SameKey(e, thread[n])
        BY <1>4, <1>5
    <2> HIDE DEF e
    <2>3. [thread EXCEPT ![n] = e] \in Seq(AnyEntry) /\ InOrder([thread EXCEPT ![n] = e])
        BY <1>1, <1>2, <2>2, EntryIsReplaced
    <2>4. Frame("set", e) \in AnyFrame
        BY <1>7, <2>2
    <2> QED
        BY <1>1, <1>6, <2>1, <2>3, <2>4
<1> QED
    BY <1>8, <1>9, <1>10, <1>11 DEF Agent

-----------------------------------------------------------------------------
(* Streams. *)

AnyStream == LiveStream \cup {NoStream}

LEMMA LiveOnes ==
    ASSUME NEW s \in AnyStream, s.live
    PROVE  s \in LiveStream
BY DEF AnyStream, NoStream

LEMMA NewStreamInOrder == NewStream \in LiveStream /\ StreamInOrder(NewStream)
<1>1. <<>> \in Seq(AnyEntry)
    OBVIOUS
<1>2. NewStream \in LiveStream
    BY <1>1 DEF NewStream, LiveStream
<1> QED
    BY <1>2, EmptyIsDistinct DEF NewStream, StreamInOrder

LEMMA NotifiedInOrder ==
    ASSUME NEW s \in AnyStream, StreamInOrder(s), NEW f \in AnyFrame
    PROVE  /\ Notified(s, f) \in AnyStream /\ StreamInOrder(Notified(s, f))
           /\ Notified(s, f).live = s.live
           /\ s.live => Notified(s, f).known = s.known
           /\ s.live /\ s.known => Ready(s) /\ Notified(s, f).snapshot = ApplyOne(s.snapshot, f)
<1>1. CASE ~s.live
    <2>1. Notified(s, f) = s
        BY <1>1 DEF Notified, Ready
    <2> QED
        BY <1>1, <2>1
<1>2. CASE Ready(s)
    <2> DEFINE c == ApplyOne(s.snapshot, f)
               n == Notified(s, f)
    <2>1. s \in LiveStream /\ s.live /\ s.known /\ s.snapshot \in Seq(AnyEntry) /\ Distinct(s.snapshot)
        BY <1>2, LiveOnes DEF Ready, StreamInOrder, LiveStream
    <2>2. f.entry \in AnyEntry
        BY DEF AnyFrame
    <2>3. c \in Seq(AnyEntry) /\ Distinct(c)
        BY <2>1, <2>2, KindsGrow, FrameIsApplied
    <2>4. n = [s EXCEPT !.snapshot = c, !.moved = s.sync # "none", !.timer = ~s.polling]
        BY <1>2, <2>1 DEF Notified
    <2> HIDE DEF c
    <2>5. n \in LiveStream
        BY <2>1, <2>3, <2>4 DEF LiveStream
    <2>6. /\ n.live = s.live /\ n.known = s.known /\ n.snapshot = c /\ n.result = s.result
          /\ n.loading = s.loading /\ n.initial = s.initial
        BY <2>1, <2>4 DEF LiveStream
    <2> HIDE DEF n
    <2>7. StreamInOrder(n)
        BY <2>1, <2>3, <2>6 DEF StreamInOrder
    <2> QED
        BY <1>2, <2>5, <2>6, <2>7 DEF AnyStream, n, c
<1>3. CASE s.live /\ ~Ready(s)
    <2> DEFINE n == Notified(s, f)
    <2>1. s \in LiveStream /\ ~s.known
        BY <1>3, LiveOnes DEF Ready, StreamInOrder
    <2>2. n = [s EXCEPT !.queued = TRUE]
        BY <1>3 DEF Notified
    <2>3. n \in LiveStream /\ n.live = s.live /\ n.known = s.known /\ n.snapshot = s.snapshot /\ n.result = s.result
        BY <2>1, <2>2 DEF LiveStream
    <2> HIDE DEF n
    <2>4. StreamInOrder(n)
        BY <1>3, <2>1, <2>3 DEF StreamInOrder
    <2> QED
        BY <2>1, <2>3, <2>4 DEF AnyStream, n
<1> QED
    BY <1>1, <1>2, <1>3 DEF Ready

LEMMA FinishedInOrder ==
    ASSUME NEW s \in LiveStream, StreamInOrder([s EXCEPT !.initial = FALSE])
    PROVE  /\ FinishSync(s) \in LiveStream /\ StreamInOrder(FinishSync(s))
           /\ FinishSync(s).known = s.known /\ FinishSync(s).snapshot = s.snapshot
<1> DEFINE n == FinishSync(s)
<1>1. n = [s EXCEPT !.sync = IF s.queued THEN "reading" ELSE "none", !.initial = FALSE,
                    !.moved = FALSE, !.queued = FALSE]
    BY DEF FinishSync
<1>2. n \in LiveStream
    BY <1>1 DEF LiveStream
<1>3. /\ n.known = s.known /\ n.snapshot = s.snapshot /\ n.result = s.result
      /\ n.loading = s.loading /\ n.initial = FALSE
    BY <1>1 DEF LiveStream
<1> HIDE DEF n
<1>4. s.live => Distinct(s.snapshot) /\ Distinct(s.result) /\ (s.known => ~s.loading)
    BY DEF StreamInOrder, LiveStream
<1>5. StreamInOrder(n)
    BY <1>2, <1>3, <1>4 DEF StreamInOrder, LiveStream
<1> QED
    BY <1>2, <1>3, <1>5 DEF n

LEMMA BatchIsMessage ==
    ASSUME NEW s \in Sub, NEW b \in Batch
    PROVE  /\ Frames(s, b) \in Seq(FrameMessage) /\ ErrorMessage(s) \in Seq(FrameMessage)
           /\ b.history => Frames(s, b) = <<[sub |-> s, failed |-> FALSE, batch |-> b]>>
           /\ \A r, v : r # s => /\ AllHandled(v, Forwards(r, Frames(s, b))) = v
                                 /\ AllHandled(v, Forwards(r, ErrorMessage(s))) = v
           /\ \A v : AllHandled(v, Forwards(s, Frames(s, b))) = Show(v, b)
<1> DEFINE m == [sub |-> s, failed |-> FALSE, batch |-> b]
           e == [sub |-> s, failed |-> TRUE, batch |-> NoFrames]
<1>1. m \in FrameMessage
    BY DEF FrameMessage
<1>2. e \in FrameMessage
    <2>1. <<>> \in Seq(AnyFrame)
        OBVIOUS
    <2> QED
        BY <2>1 DEF FrameMessage, NoFrames, Batch
<1>3. m.sub = s /\ e.sub = s /\ Forwarded(m) = [type |-> "frames", batch |-> b]
    BY DEF Forwarded
<1>4. \A v : Handled(v, Forwarded(m)) = Show(v, b)
    BY <1>3 DEF Handled
<1>5. Message(s, b) = <<m>> /\ ErrorMessage(s) = <<e>>
    BY DEF Message, ErrorMessage
<1> HIDE DEF m, e
<1>6. <<m>> \in Seq(FrameMessage) /\ <<e>> \in Seq(FrameMessage) /\ <<>> \in Seq(FrameMessage)
    BY <1>1, <1>2
<1>7. ASSUME NEW r, NEW v, r # s
      PROVE  AllHandled(v, Forwards(r, <<m>>)) = v /\ AllHandled(v, Forwards(r, <<e>>)) = v
    BY <1>1, <1>2, <1>3, <1>7, OneForwardedIsHandled
<1>8. \A v : AllHandled(v, Forwards(s, <<m>>)) = Show(v, b)
    BY <1>1, <1>3, <1>4, OneForwardedIsHandled
<1>9. \A r, v : AllHandled(v, Forwards(r, <<>>)) = v
    BY NoneForwarded, NoMessageHandled
<1>10. CASE b.history \/ b.frames # <<>>
    <2>1. Frames(s, b) = <<m>>
        BY <1>5, <1>10 DEF Frames
    <2>2. Frames(s, b) = <<[sub |-> s, failed |-> FALSE, batch |-> b]>>
        BY <2>1 DEF m
    <2>3. \A r, v : r # s => /\ AllHandled(v, Forwards(r, Frames(s, b))) = v
                             /\ AllHandled(v, Forwards(r, ErrorMessage(s))) = v
        BY <1>5, <1>7, <2>1
    <2>4. \A v : AllHandled(v, Forwards(s, Frames(s, b))) = Show(v, b)
        BY <1>8, <2>1
    <2>5. Frames(s, b) \in Seq(FrameMessage) /\ ErrorMessage(s) \in Seq(FrameMessage)
        BY <1>5, <1>6, <2>1
    <2> QED
        BY <2>2, <2>3, <2>4, <2>5
<1>11. CASE ~b.history /\ b.frames = <<>>
    <2>1. Frames(s, b) = <<>>
        BY <1>11 DEF Frames
    <2>2. \A v : Show(v, b) = v
        BY <1>11, NoFrameShown DEF Show
    <2> QED
        BY <1>5, <1>6, <1>7, <1>9, <1>11, <2>1, <2>2
<1> QED
    BY <1>10, <1>11

-----------------------------------------------------------------------------
(* Every step keeps the invariant.  Some change nothing of what arrives. *)

Order == InOrder(thread) /\ StreamsInOrder /\ RoutesInOrder /\ ViewInOrder

LEMMA NothingArrives ==
    ASSUME ArrivesAsSnapshot, HistoryFollows, UNCHANGED <<view, toUser, checking, up>>,
           Synced' => /\ Synced /\ route' = route
                      /\ streams'[route].snapshot = streams[route].snapshot
    PROVE  ArrivesAsSnapshot' /\ HistoryFollows'
<1>1. ASSUME Synced' PROVE Arrived' = Arrived
    BY <1>1 DEF Arrived
<1>2. ArrivesAsSnapshot'
    BY <1>1 DEF ArrivesAsSnapshot
<1>3. HistoryFollows'
    BY DEF HistoryFollows, IsHistory
<1> QED
    BY <1>2, <1>3

LEMMA AgentKeepsInv == StreamInv /\ Agent => StreamInv'
<1> SUFFICES ASSUME StreamInv, Agent PROVE StreamInv'
    OBVIOUS
<1>1. /\ thread' \in Seq(AnyEntry) /\ notified' \in BOOLEAN /\ changes' \in Nat
      /\ notices' \in Seq(AnyFrame) /\ InOrder(thread')
      /\ UNCHANGED <<streams, linkVars, serverVars, intents, toUser, viewerVars, faults>>
    BY AgentKeepsOrder DEF StreamInv
<1>2. StreamTypeOK'
    BY <1>1 DEF StreamInv, StreamTypeOK, WorkstationTypes, LinkTypes, ServerTypes, ViewerTypes,
                linkVars, serverVars, viewerVars
<1>3. StreamsInOrder' /\ RoutesInOrder' /\ ViewInOrder'
    BY <1>1 DEF StreamInv, StreamsInOrder, RoutesInOrder, Asking, ViewInOrder, linkVars, serverVars, viewerVars
<1>4. Synced' => Synced /\ route' = route /\ streams'[route].snapshot = streams[route].snapshot
    BY <1>1 DEF Synced, Live, linkVars, serverVars, viewerVars
<1>5. ArrivesAsSnapshot' /\ HistoryFollows'
    BY <1>1, <1>4, NothingArrives DEF StreamInv, linkVars, viewerVars
<1> QED
    BY <1>1, <1>2, <1>3, <1>5 DEF StreamInv

\* Steps that change nothing of the thread, the routes and the view.
LEMMA ReceiveControlKeepsInv == StreamInv /\ ReceiveControl => StreamInv'
<1> SUFFICES ASSUME StreamInv, ReceiveControl PROVE StreamInv'
    OBVIOUS
<1> DEFINE m == Head(control)
           s == IF m.type = "subscribe" THEN NewStream ELSE NoStream
<1>1. control \in Seq(ControlMessage) /\ control # <<>> /\ streams \in [Sub -> AnyStream]
    BY DEF StreamInv, StreamTypeOK, WorkstationTypes, LinkTypes, AnyStream, ReceiveControl
<1>2. /\ control = <<m>> \o Tail(control) /\ m = control[1] /\ m \in ControlMessage
      /\ Tail(control) \in Seq(ControlMessage)
    BY <1>1, HeadThenTail
<1>3. /\ control' = Tail(control) /\ streams' = [streams EXCEPT ![m.sub] = s]
      /\ UNCHANGED <<agentVars, link, up, stale, overlap, checking, serverVars, intents, toUser, viewerVars, faults>>
    BY DEF ReceiveControl
<1>4. m.sub \in Sub
    BY <1>2 DEF ControlMessage
<1>5. s \in AnyStream /\ StreamInOrder(s) /\ (~s.live \/ ~s.known)
    BY NewStreamInOrder DEF AnyStream, NoStream, StreamInOrder, NewStream
<1> HIDE DEF m, s
<1>6. streams' \in [Sub -> AnyStream] /\ \A r \in Sub : streams'[r] = IF r = m.sub THEN s ELSE streams[r]
    BY <1>1, <1>3, <1>4, <1>5
<1>7. StreamTypeOK'
    BY <1>2, <1>3, <1>6 DEF StreamInv, StreamTypeOK, WorkstationTypes, LinkTypes, ServerTypes, ViewerTypes,
                            agentVars, serverVars, viewerVars, AnyStream
<1>8. Order'
    BY <1>3, <1>5, <1>6 DEF StreamInv, Order, StreamsInOrder, RoutesInOrder, Asking, ViewInOrder,
                            agentVars, serverVars, viewerVars
<1>9. ASSUME Synced' PROVE Synced /\ streams'[route] = streams[route]
    <2>1. route \in Sub /\ route' = route
        BY <1>3, <1>9 DEF StreamInv, StreamTypeOK, ServerTypes, Synced, serverVars
    <2>2. m.sub # route
        BY <1>5, <1>6, <1>9, <2>1 DEF Synced, Live
    <2>3. ASSUME NEW i \in DOMAIN control PROVE control[i].sub # route
        <3>1. CASE i = 1
            BY <1>2, <2>2, <3>1
        <3>2. CASE i # 1
            <4>1. i - 1 \in DOMAIN Tail(control) /\ Tail(control)[i - 1] = control[i]
                BY <1>1, <3>2
            <4> QED
                BY <1>3, <1>9, <2>1, <4>1 DEF Synced
        <3> QED
            BY <3>1, <3>2
    <2> QED
        BY <1>3, <1>6, <1>9, <2>1, <2>2, <2>3 DEF Synced, Live, serverVars, viewerVars
<1>10. ArrivesAsSnapshot' /\ HistoryFollows'
    BY <1>3, <1>9, NothingArrives DEF StreamInv, serverVars, viewerVars
<1> QED
    BY <1>7, <1>8, <1>10 DEF StreamInv, Order

LEMMA SentIsTyped ==
    ASSUME LinkTypes, NEW w \in Seq(FrameMessage), Send(w)
    PROVE  up' \in Seq(FrameMessage)
<1>1. up \in Seq(FrameMessage) /\ up \o w \in Seq(FrameMessage)
    BY ConcatProperties DEF LinkTypes
<1> QED
    BY <1>1 DEF Send

\* Frames that the connector sends are handled after those on their way.
LEMMA MoreArrives ==
    ASSUME StreamTypeOK, ArrivesAsSnapshot, HistoryFollows, NEW w \in Seq(FrameMessage), Send(w),
           UNCHANGED <<view, toUser, checking, route, link>>,
           Synced' =>
              \/ /\ Synced
                 /\ Content(Arrived) = ToSet(streams[route].snapshot) =>
                       Content(AllHandled(Arrived, Forwards(route, w))) = ToSet(streams'[route].snapshot)
              \/ /\ \E i \in DOMAIN w : IsHistory(w[i])
                 /\ Content(AllHandled(Arrived, Forwards(route, w))) = ToSet(streams'[route].snapshot)
    PROVE  ArrivesAsSnapshot' /\ HistoryFollows'
<1>1. /\ up \in Seq(FrameMessage) /\ checking \in Seq(FrameMessage) /\ toUser \in Seq(UserMessage)
    BY DEF StreamTypeOK, LinkTypes, ViewerTypes
<1>2. ASSUME Synced' PROVE up' = up \o w
    BY <1>2 DEF Synced, Send
<1>3. Arrived = Outcome(view, toUser, route, checking, up)
    BY DEF Arrived, Outcome
<1>4. ASSUME Synced' PROVE Arrived' = Outcome(view, toUser, route, checking, up \o w)
    BY <1>2, <1>4 DEF Arrived, Outcome
<1>5. ASSUME Synced' PROVE Arrived' = AllHandled(Arrived, Forwards(route, w))
    BY <1>1, <1>3, <1>4, <1>5, OutcomeWithMore
<1>6. ArrivesAsSnapshot'
    BY <1>5 DEF ArrivesAsSnapshot
<1>7. /\ \A i \in DOMAIN up : i \in DOMAIN (up \o w) /\ (up \o w)[i] = up[i]
      /\ \A i \in DOMAIN w : i + Len(up) \in DOMAIN (up \o w) /\ (up \o w)[i + Len(up)] = w[i]
    BY <1>1
<1>8. HistoryFollows'
    <2> SUFFICES ASSUME Synced', checking # <<>>, checking[1].sub # route
                 PROVE  \E i \in DOMAIN (up \o w) : /\ (up \o w)[i].sub = route /\ ~(up \o w)[i].failed
                                                    /\ (up \o w)[i].batch.history
        BY <1>2 DEF HistoryFollows, IsHistory
    <2>1. CASE Synced
        <3>1. PICK i \in DOMAIN up : up[i].sub = route /\ ~up[i].failed /\ up[i].batch.history
            BY <2>1 DEF HistoryFollows, IsHistory
        <3> QED
            BY <1>7, <3>1
    <2>2. CASE \E i \in DOMAIN w : IsHistory(w[i])
        <3>1. PICK i \in DOMAIN w : w[i].sub = route /\ ~w[i].failed /\ w[i].batch.history
            BY <2>2 DEF IsHistory
        <3> QED
            BY <1>7, <3>1
    <2> QED
        BY <2>1, <2>2
<1> QED
    BY <1>6, <1>8

LEMMA OneStreamChanges ==
    ASSUME StreamTypeOK, StreamsInOrder, NEW sub \in Sub, NEW n \in AnyStream, StreamInOrder(n),
           Becomes(sub, n)
    PROVE  /\ streams' \in [Sub -> AnyStream] /\ StreamsInOrder'
           /\ \A r \in Sub : streams'[r] = IF r = sub THEN n ELSE streams[r]
<1>1. streams \in [Sub -> AnyStream] /\ streams' = [streams EXCEPT ![sub] = n]
    BY DEF StreamTypeOK, WorkstationTypes, AnyStream, Becomes
<1>2. streams' \in [Sub -> AnyStream] /\ \A r \in Sub : streams'[r] = IF r = sub THEN n ELSE streams[r]
    BY <1>1
<1>3. StreamsInOrder'
    BY <1>2 DEF StreamsInOrder
<1> QED
    BY <1>2, <1>3

LEMMA StreamOf ==
    ASSUME StreamTypeOK, StreamsInOrder, NEW sub \in Sub, streams[sub].live
    PROVE  streams[sub] \in LiveStream /\ StreamInOrder(streams[sub])
<1>1. streams[sub] \in AnyStream
    BY DEF StreamTypeOK, WorkstationTypes, AnyStream
<1> QED
    BY <1>1, LiveOnes DEF StreamsInOrder

LEMMA ViewArrives ==
    ASSUME StreamTypeOK, ViewInOrder
    PROVE  Arrived \in Views
<1>1. view \in Views /\ toUser \in Seq(UserMessage) /\ checking \in Seq(FrameMessage) /\ up \in Seq(FrameMessage)
    BY DEF StreamTypeOK, LinkTypes, ViewerTypes, ViewInOrder, Views
<1>2. Arrived = Outcome(view, toUser, route, checking, up)
    BY DEF Arrived, Outcome
<1> QED
    BY <1>1, <1>2, OutcomeIsView

LEMMA NotifyKeepsInv == StreamInv /\ Notify => StreamInv'
<1> SUFFICES ASSUME StreamInv, Notify PROVE StreamInv'
    OBVIOUS
<1> DEFINE f == Head(notices)
           ready == {s \in Sub : Ready(streams[s])}
           w == FlattenSeq(Notices(ready, f))
<1>1. notices \in Seq(AnyFrame) /\ notices # <<>> /\ streams \in [Sub -> AnyStream]
    BY DEF StreamInv, StreamTypeOK, WorkstationTypes, AnyStream, Notify
<1>2. f \in AnyFrame /\ Tail(notices) \in Seq(AnyFrame)
    BY <1>1, HeadThenTail
<1>3. /\ notices' = Tail(notices) /\ streams' = [s \in Sub |-> Notified(streams[s], f)]
      /\ UNCHANGED <<thread, notified, changes, link, control, stale, overlap, checking,
                     serverVars, intents, toUser, viewerVars, faults>>
    BY DEF Notify
<1>4. Notices(ready, f) = [s \in Sub |-> IF Ready(streams[s])
                               THEN Message(s, [history |-> FALSE, frames |-> <<Head(notices)>>]) ELSE <<>>]
    BY DEF Notices, Notice
<1>5. Send(w)
    BY <1>4 DEF Notify
<1> HIDE DEF f, ready
<1>6. /\ w \in Seq(FrameMessage)
      /\ \A r \in ready : \A v : AllHandled(v, Forwards(r, w)) = ShowFrame(v, f)
    BY <1>2, NoticesAreSent DEF ready
<1> HIDE DEF w
<1>7. ASSUME NEW s \in Sub
      PROVE  /\ Notified(streams[s], f) \in AnyStream /\ StreamInOrder(Notified(streams[s], f))
             /\ Notified(streams[s], f).live = streams[s].live
             /\ streams[s].live => Notified(streams[s], f).known = streams[s].known
             /\ streams[s].live /\ streams[s].known =>
                   Ready(streams[s]) /\ Notified(streams[s], f).snapshot = ApplyOne(streams[s].snapshot, f)
    <2>1. streams[s] \in AnyStream /\ StreamInOrder(streams[s])
        BY <1>1 DEF StreamInv, StreamsInOrder
    <2> QED
        BY <1>2, <2>1, NotifiedInOrder
<1>8. streams' \in [Sub -> AnyStream] /\ \A s \in Sub : streams'[s] = Notified(streams[s], f)
    BY <1>3, <1>7
<1>9. up' \in Seq(FrameMessage)
    BY <1>5, <1>6, SentIsTyped DEF StreamInv, StreamTypeOK
<1>10. StreamTypeOK'
    BY <1>2, <1>3, <1>8, <1>9 DEF StreamInv, StreamTypeOK, WorkstationTypes, LinkTypes, ServerTypes, ViewerTypes,
                                  serverVars, viewerVars, AnyStream
<1>11. Order'
    BY <1>3, <1>7, <1>8 DEF StreamInv, Order, StreamsInOrder, RoutesInOrder, Asking, ViewInOrder,
                            serverVars, viewerVars
<1>12. ASSUME Synced'
       PROVE  /\ Synced
              /\ Content(Arrived) = ToSet(streams[route].snapshot) =>
                    Content(AllHandled(Arrived, Forwards(route, w))) = ToSet(streams'[route].snapshot)
    <2>1. route' = route /\ route \in Sub
        BY <1>3, <1>12 DEF StreamInv, StreamTypeOK, ServerTypes, Synced, serverVars
    <2>2. streams[route].live /\ streams[route].known
        BY <1>7, <1>8, <1>12, <2>1 DEF Synced, Live
    <2>3. Synced
        BY <1>3, <1>12, <2>1, <2>2 DEF Synced, Live, serverVars, viewerVars
    <2> DEFINE v == Arrived
               p == streams[route].snapshot
    <2>4. route \in ready /\ streams'[route].snapshot = ApplyOne(p, f)
        BY <1>7, <1>8, <2>1, <2>2 DEF ready
    <2>5. p \in Seq(AnyEntry) /\ Distinct(p)
        BY <2>1, <2>2, StreamOf DEF StreamInv, StreamInOrder, LiveStream
    <2>6. v \in Views
        BY ViewArrives DEF StreamInv
    <2> HIDE DEF v, p
    <2>7. AllHandled(v, Forwards(route, w)) = ShowFrame(v, f)
        BY <1>6, <2>4
    <2>8. Content(ShowFrame(v, f)) = Applied(Content(v), f)
        BY <1>2, <2>6, FrameIsShown
    <2>9. f.entry \in AnyEntry
        BY <1>2 DEF AnyFrame
    <2>10. ToSet(ApplyOne(p, f)) = Applied(ToSet(p), f)
        BY <1>2, <2>5, <2>9, KindsGrow, FrameIsApplied
    <2> QED
        BY <2>3, <2>4, <2>7, <2>8, <2>10 DEF v, p
<1>13. ArrivesAsSnapshot' /\ HistoryFollows'
    BY <1>3, <1>5, <1>6, <1>12, MoreArrives DEF StreamInv, serverVars, viewerVars
<1> QED
    BY <1>10, <1>11, <1>13 DEF StreamInv, Order

\* A step of one stream that sends nothing and leaves its snapshot.
LEMMA QuietStream ==
    ASSUME StreamInv, NEW sub \in Sub, NEW n \in AnyStream, StreamInOrder(n), Becomes(sub, n),
           streams[sub].live, n.known = streams[sub].known, n.snapshot = streams[sub].snapshot,
           UNCHANGED <<agentVars, linkVars, serverVars, intents, toUser, viewerVars>>, faults' \in Nat
    PROVE  StreamInv'
<1>1. /\ streams' \in [Sub -> AnyStream] /\ StreamsInOrder'
      /\ \A r \in Sub : streams'[r] = IF r = sub THEN n ELSE streams[r]
    BY OneStreamChanges DEF StreamInv
<1>2. StreamTypeOK'
    BY <1>1 DEF StreamInv, StreamTypeOK, WorkstationTypes, LinkTypes, ServerTypes, ViewerTypes,
                agentVars, linkVars, serverVars, viewerVars, AnyStream
<1>3. InOrder(thread)' /\ RoutesInOrder' /\ ViewInOrder'
    BY DEF StreamInv, RoutesInOrder, Asking, ViewInOrder, agentVars, serverVars, viewerVars
<1>4. ASSUME Synced'
      PROVE  Synced /\ route' = route /\ streams'[route].snapshot = streams[route].snapshot
    <2>1. route' = route /\ route \in Sub
        BY <1>4 DEF StreamInv, StreamTypeOK, ServerTypes, Synced, serverVars
    <2>2. streams'[route].live /\ streams'[route].known
        BY <1>4, <2>1 DEF Synced, Live
    <2>3. /\ streams[route].live /\ streams[route].known
          /\ streams'[route].snapshot = streams[route].snapshot
        BY <1>1, <2>1, <2>2
    <2> QED
        BY <1>4, <2>1, <2>3 DEF Synced, Live, linkVars, serverVars, viewerVars
<1>5. ArrivesAsSnapshot' /\ HistoryFollows'
    BY <1>4, NothingArrives DEF StreamInv, linkVars, viewerVars
<1> QED
    BY <1>1, <1>2, <1>3, <1>5 DEF StreamInv

LEMMA SyncKeepsInv == \A sub \in Sub : StreamInv /\ Sync(sub) => StreamInv'
<1> SUFFICES ASSUME NEW sub \in Sub, StreamInv, Sync(sub) PROVE StreamInv'
    OBVIOUS
<1> DEFINE s == streams[sub]
           n == [s EXCEPT !.sync = "reading", !.moved = FALSE, !.timer = FALSE]
<1>1. /\ s.live /\ Becomes(sub, n)
      /\ UNCHANGED <<agentVars, linkVars, serverVars, intents, toUser, viewerVars, faults>>
    BY DEF Sync
<1>2. s \in LiveStream /\ StreamInOrder(s)
    BY <1>1, StreamOf DEF StreamInv
<1> HIDE DEF s
<1>3. n \in LiveStream /\ n.live = s.live /\ n.known = s.known /\ n.snapshot = s.snapshot
      /\ n.result = s.result /\ n.loading = s.loading /\ n.initial = s.initial
    BY <1>2 DEF LiveStream
<1> HIDE DEF n
<1>4. StreamInOrder(n)
    BY <1>1, <1>2, <1>3 DEF StreamInOrder
<1>5. faults' \in Nat
    BY <1>1 DEF StreamInv, StreamTypeOK, ViewerTypes
<1> QED
    BY <1>1, <1>3, <1>4, <1>5, QuietStream DEF s, AnyStream

LEMMA ThreadReadKeepsInv == \A sub \in Sub : StreamInv /\ ThreadRead(sub) => StreamInv'
<1> SUFFICES ASSUME NEW sub \in Sub, StreamInv, ThreadRead(sub) PROVE StreamInv'
    OBVIOUS
<1> DEFINE s == streams[sub]
           n == [s EXCEPT !.sync = "read", !.result = thread]
<1>1. /\ s.live /\ Becomes(sub, n)
      /\ UNCHANGED <<agentVars, linkVars, serverVars, intents, toUser, viewerVars, faults>>
    BY DEF ThreadRead, Live
<1>2. s \in LiveStream /\ StreamInOrder(s)
    BY <1>1, StreamOf DEF StreamInv
<1>3. thread \in Seq(AnyEntry) /\ Distinct(thread)
    BY DEF StreamInv, StreamTypeOK, WorkstationTypes, InOrder
<1> HIDE DEF s
<1>4. n \in LiveStream /\ n.live = s.live /\ n.known = s.known /\ n.snapshot = s.snapshot
      /\ n.result = thread /\ n.loading = s.loading /\ n.initial = s.initial
    BY <1>2, <1>3 DEF LiveStream
<1> HIDE DEF n
<1>5. StreamInOrder(n)
    BY <1>1, <1>2, <1>3, <1>4 DEF StreamInOrder
<1>6. faults' \in Nat
    BY <1>1 DEF StreamInv, StreamTypeOK, ViewerTypes
<1> QED
    BY <1>1, <1>4, <1>5, <1>6, QuietStream DEF s, AnyStream

LEMMA CorrectionIsBatch ==
    ASSUME NEW p \in Seq(AnyEntry), Distinct(p), NEW q \in Seq(AnyEntry), Distinct(q)
    PROVE  Patch(p, q) \in Batch
<1> DEFINE v == Show(NoView("live"), History(p))
<1>1. v \in Views /\ Content(v) = ToSet(p)
    BY HistoryStartsAnew
<1> HIDE DEF v
<1> QED
    BY <1>1, PatchIsShown

\* A step of one stream that sends messages for its subscription.
LEMMA SendingStream ==
    ASSUME StreamInv, NEW sub \in Sub, NEW n \in AnyStream, StreamInOrder(n), Becomes(sub, n),
           NEW w \in Seq(FrameMessage), Send(w), streams[sub].live,
           UNCHANGED <<agentVars, link, control, stale, overlap, checking, serverVars, intents, toUser, viewerVars>>,
           faults' \in Nat,
           \A r, v : r # sub => AllHandled(v, Forwards(r, w)) = v,
           route = sub /\ n.known =>
              \/ /\ streams[sub].known
                 /\ Content(Arrived) = ToSet(streams[sub].snapshot) =>
                       Content(AllHandled(Arrived, Forwards(sub, w))) = ToSet(n.snapshot)
              \/ /\ \E i \in DOMAIN w : IsHistory(w[i])
                 /\ Content(AllHandled(Arrived, Forwards(sub, w))) = ToSet(n.snapshot)
    PROVE  StreamInv'
<1>1. /\ streams' \in [Sub -> AnyStream] /\ StreamsInOrder'
      /\ \A r \in Sub : streams'[r] = IF r = sub THEN n ELSE streams[r]
    BY OneStreamChanges DEF StreamInv
<1>2. up' \in Seq(FrameMessage)
    BY SentIsTyped DEF StreamInv, StreamTypeOK
<1>3. StreamTypeOK'
    BY <1>1, <1>2 DEF StreamInv, StreamTypeOK, WorkstationTypes, LinkTypes, ServerTypes, ViewerTypes,
                agentVars, serverVars, viewerVars, AnyStream
<1>4. InOrder(thread)' /\ RoutesInOrder' /\ ViewInOrder'
    BY DEF StreamInv, RoutesInOrder, Asking, ViewInOrder, agentVars, serverVars, viewerVars
<1>5. ASSUME Synced'
      PROVE  \/ /\ Synced
                /\ Content(Arrived) = ToSet(streams[route].snapshot) =>
                      Content(AllHandled(Arrived, Forwards(route, w))) = ToSet(streams'[route].snapshot)
             \/ /\ \E i \in DOMAIN w : IsHistory(w[i])
                /\ Content(AllHandled(Arrived, Forwards(route, w))) = ToSet(streams'[route].snapshot)
    <2>1. route' = route /\ route \in Sub
        BY <1>5 DEF StreamInv, StreamTypeOK, ServerTypes, Synced, serverVars
    <2>2. streams'[route].live /\ streams'[route].known
        BY <1>5, <2>1 DEF Synced, Live
    <2>3. ASSUME streams[route].live, streams[route].known PROVE Synced
        BY <1>5, <2>1, <2>3 DEF Synced, Live, serverVars, viewerVars
    <2>4. CASE route # sub
        <3>1. streams'[route] = streams[route]
            BY <1>1, <2>1, <2>4
        <3>2. AllHandled(Arrived, Forwards(route, w)) = Arrived
            BY <2>4
        <3> QED
            BY <2>2, <2>3, <3>1, <3>2
    <2>5. CASE route = sub
        <3>1. streams'[route] = n /\ n.known
            BY <1>1, <2>1, <2>2, <2>5
        <3> QED
            BY <2>3, <2>5, <3>1
    <2> QED
        BY <2>4, <2>5
<1>6. ArrivesAsSnapshot' /\ HistoryFollows'
    BY <1>5, MoreArrives DEF StreamInv, serverVars, viewerVars
<1> QED
    BY <1>1, <1>3, <1>4, <1>6 DEF StreamInv

LEMMA SyncDoneKeepsInv == \A sub \in Sub : StreamInv /\ SyncDone(sub) => StreamInv'
<1> SUFFICES ASSUME NEW sub \in Sub, StreamInv, SyncDone(sub) PROVE StreamInv'
    OBVIOUS
<1> DEFINE s == streams[sub]
<1>1. /\ s.live
      /\ UNCHANGED <<agentVars, link, control, stale, overlap, checking, serverVars, intents, toUser, viewerVars, faults>>
      /\ IF ~s.initial /\ s.moved
         THEN Becomes(sub, FinishSync([s EXCEPT !.queued = TRUE, !.result = <<>>])) /\ UNCHANGED up
         ELSE Send(Frames(sub, Correction(s))) /\ Becomes(sub, FinishSync(Adopt(s)))
    BY DEF SyncDone
<1>2. s \in LiveStream /\ StreamInOrder(s)
    BY <1>1, StreamOf DEF StreamInv
<1>3. faults' \in Nat
    BY <1>1 DEF StreamInv, StreamTypeOK, ViewerTypes
<1> HIDE DEF s
<1>4. CASE ~s.initial /\ s.moved
    <2> DEFINE a == [s EXCEPT !.queued = TRUE, !.result = <<>>]
               n == FinishSync(a)
    <2>1. a \in LiveStream
        <3>1. <<>> \in Seq(AnyEntry)
            OBVIOUS
        <3> QED
            BY <1>2, <3>1 DEF LiveStream
    <2>2. a.live /\ a.known = s.known /\ a.snapshot = s.snapshot /\ a.result = <<>> /\ a.loading = s.loading
        BY <1>2 DEF LiveStream
    <2>3. Becomes(sub, n) /\ UNCHANGED up
        BY <1>1, <1>4
    <2> HIDE DEF a
    <2>4. StreamInOrder([a EXCEPT !.initial = FALSE])
        BY <1>1, <1>2, <2>1, <2>2, EmptyIsDistinct DEF StreamInOrder, LiveStream
    <2>5. n \in LiveStream /\ StreamInOrder(n) /\ n.known = s.known /\ n.snapshot = s.snapshot
        BY <2>1, <2>2, <2>4, FinishedInOrder
    <2> HIDE DEF n
    <2> QED
        BY <1>1, <1>3, <2>3, <2>5, QuietStream DEF s, AnyStream, linkVars
<1>5. CASE ~(~s.initial /\ s.moved)
    <2> DEFINE a == Adopt(s)
               n == FinishSync(a)
               b == Correction(s)
               w == Frames(sub, b)
    <2>1. s.result \in Seq(AnyEntry) /\ s.snapshot \in Seq(AnyEntry) /\ Distinct(s.result) /\ Distinct(s.snapshot)
        BY <1>1, <1>2 DEF LiveStream, StreamInOrder
    <2>2. a \in LiveStream
        <3>1. <<>> \in Seq(AnyEntry) /\ (s.polling \/ s.initial) \in BOOLEAN
            OBVIOUS
        <3> QED
            BY <1>2, <2>1, <3>1 DEF Adopt, LiveStream
    <2>3. a.live /\ a.known /\ a.snapshot = s.result /\ a.result = <<>> /\ ~a.loading
        BY <1>2 DEF Adopt, LiveStream
    <2>4. Send(w) /\ Becomes(sub, n)
        BY <1>1, <1>5
    <2> HIDE DEF a
    <2>5. StreamInOrder([a EXCEPT !.initial = FALSE])
        BY <2>1, <2>2, <2>3, EmptyIsDistinct DEF StreamInOrder, LiveStream
    <2>6. n \in LiveStream /\ StreamInOrder(n) /\ n.known /\ n.snapshot = s.result
        BY <2>2, <2>3, <2>5, FinishedInOrder
    <2> HIDE DEF n
    <2>7. b \in Batch
        BY <2>1, HistoryStartsAnew, CorrectionIsBatch DEF Correction
    <2>8. /\ w \in Seq(FrameMessage)
          /\ b.history => w = <<[sub |-> sub, failed |-> FALSE, batch |-> b]>>
          /\ \A r, v : r # sub => AllHandled(v, Forwards(r, w)) = v
          /\ \A v : AllHandled(v, Forwards(sub, w)) = Show(v, b)
        <3> HIDE DEF b
        <3> QED
            BY <2>7, BatchIsMessage
    <2> DEFINE v == Arrived
    <2>9. v \in Views
        BY ViewArrives DEF StreamInv
    <2> HIDE DEF v, w
    <2>10. CASE s.initial \/ ~s.known
        <3>1. b = History(s.result)
            BY <2>10 DEF Correction
        <3>2. b.history /\ Content(Show(v, b)) = ToSet(s.result)
            BY <2>1, <3>1, HistoryStartsAnew
        <3> HIDE DEF b
        <3> DEFINE m == [sub |-> sub, failed |-> FALSE, batch |-> b]
        <3>3. w = <<m>> /\ m.sub = sub /\ ~m.failed /\ m.batch = b
            BY <2>8, <3>2
        <3> HIDE DEF m
        <3>4. 1 \in DOMAIN w /\ w[1] = m
            BY <3>3
        <3>5. route = sub => \E i \in DOMAIN w : IsHistory(w[i])
            BY <3>2, <3>3, <3>4 DEF IsHistory
        <3>6. Content(AllHandled(v, Forwards(sub, w))) = ToSet(n.snapshot)
            BY <2>6, <2>8, <3>2
        <3> QED
            BY <1>1, <1>3, <2>4, <2>6, <2>8, <3>5, <3>6, SendingStream DEF s, v, AnyStream, w
    <2>11. CASE ~(s.initial \/ ~s.known)
        <3>1. b = Patch(s.snapshot, s.result)
            BY <2>11 DEF Correction
        <3>2. Content(v) = ToSet(s.snapshot) => Content(Show(v, b)) = ToSet(s.result)
            BY <2>1, <2>9, <3>1, PatchIsShown
        <3>3. Content(v) = ToSet(s.snapshot) => Content(AllHandled(v, Forwards(sub, w))) = ToSet(n.snapshot)
            <4> HIDE DEF b
            <4> QED
                BY <2>6, <2>8, <3>2
        <3> HIDE DEF b
        <3> QED
            BY <1>1, <1>3, <2>4, <2>6, <2>8, <2>11, <3>3, SendingStream DEF s, v, AnyStream, w
    <2> QED
        BY <2>10, <2>11
<1> QED
    BY <1>4, <1>5

LEMMA ReadFailsKeepsInv == \A sub \in Sub : StreamInv /\ ReadFails(sub) => StreamInv'
<1> SUFFICES ASSUME NEW sub \in Sub, StreamInv, ReadFails(sub) PROVE StreamInv'
    OBVIOUS
<1> DEFINE s == streams[sub]
<1>1. /\ s.live /\ Fault
      /\ UNCHANGED <<agentVars, link, control, stale, overlap, checking, serverVars, intents, toUser, viewerVars>>
      /\ IF s.initial \/ ~s.known
         THEN Send(ErrorMessage(sub)) /\ Becomes(sub, FinishSync([s EXCEPT !.loading = FALSE]))
         ELSE Becomes(sub, FinishSync(s)) /\ UNCHANGED up
    BY DEF ReadFails
<1>2. s \in LiveStream /\ StreamInOrder(s)
    BY <1>1, StreamOf DEF StreamInv
<1>3. faults' \in Nat
    BY <1>1 DEF StreamInv, StreamTypeOK, ViewerTypes, Fault
<1> HIDE DEF s
<1>4. CASE s.initial \/ ~s.known
    <2> DEFINE a == [s EXCEPT !.loading = FALSE]
               n == FinishSync(a)
               w == ErrorMessage(sub)
    <2>1. ~s.known
        BY <1>1, <1>2, <1>4 DEF StreamInOrder
    <2>2. /\ a \in LiveStream /\ a.live /\ ~a.known /\ a.snapshot = s.snapshot /\ a.result = s.result
        BY <1>1, <1>2, <2>1 DEF LiveStream
    <2>3. Send(w) /\ Becomes(sub, n)
        BY <1>1, <1>4
    <2> HIDE DEF a
    <2>4. StreamInOrder([a EXCEPT !.initial = FALSE])
        BY <1>1, <1>2, <2>2 DEF StreamInOrder, LiveStream
    <2>5. n \in LiveStream /\ StreamInOrder(n) /\ ~n.known
        BY <2>2, <2>4, FinishedInOrder
    <2> HIDE DEF n
    <2>6. w \in Seq(FrameMessage) /\ \A r, v : r # sub => AllHandled(v, Forwards(r, w)) = v
        <3>1. NoFrames \in Batch
            <4>1. <<>> \in Seq(AnyFrame)
                OBVIOUS
            <4> QED
                BY <4>1 DEF NoFrames, Batch
        <3> QED
            BY <3>1, BatchIsMessage
    <2> HIDE DEF w
    <2> QED
        BY <1>1, <1>3, <2>3, <2>5, <2>6, SendingStream DEF s, AnyStream, w
<1>5. CASE ~(s.initial \/ ~s.known)
    <2> DEFINE n == FinishSync(s)
    <2>1. StreamInOrder([s EXCEPT !.initial = FALSE])
        BY <1>1, <1>2 DEF StreamInOrder, LiveStream
    <2>2. n \in LiveStream /\ StreamInOrder(n) /\ n.known = s.known /\ n.snapshot = s.snapshot
        BY <1>2, <2>1, FinishedInOrder
    <2>3. Becomes(sub, n) /\ UNCHANGED up
        BY <1>1, <1>5
    <2> HIDE DEF n
    <2> QED
        BY <1>1, <1>3, <2>2, <2>3, QuietStream DEF s, AnyStream, linkVars
<1> QED
    BY <1>4, <1>5

-----------------------------------------------------------------------------
(* Intents, routes and messages of the server. *)

Intents == Seq({"subscribe", "unsubscribe"})

LEMMA AskingIsFinite ==
    ASSUME NEW q \in Intents
    PROVE  IsFiniteSet(Asking(q)) /\ Cardinality(Asking(q)) \in Nat
<1>1. Len(q) \in Nat /\ Asking(q) \subseteq 1..Len(q)
    BY DEF Intents, Asking
<1>2. IsFiniteSet(1..Len(q))
    BY <1>1, FS_Interval
<1> QED
    BY <1>1, <1>2, FS_Subset, FS_CardinalityType

LEMMA AskingTwo ==
    /\ Cardinality(Asking(<<>>)) = 0
    /\ Cardinality(Asking(<<"unsubscribe", "subscribe">>)) = 1
<1>1. Asking(<<>>) = {}
    BY DEF Asking
<1>2. Asking(<<"unsubscribe", "subscribe">>) = {2}
    BY DEF Asking
<1> QED
    BY <1>1, <1>2, FS_EmptySet, FS_Singleton

LEMMA AskingMore ==
    ASSUME NEW q \in Intents
    PROVE  /\ Append(q, "subscribe") \in Intents /\ Append(q, "unsubscribe") \in Intents
           /\ Cardinality(Asking(Append(q, "subscribe"))) = Cardinality(Asking(q)) + 1
           /\ Cardinality(Asking(Append(q, "unsubscribe"))) = Cardinality(Asking(q))
<1>1. Len(q) \in Nat /\ DOMAIN q = 1..Len(q)
    BY DEF Intents
<1>2. ASSUME NEW x \in {"subscribe", "unsubscribe"}
      PROVE  /\ Append(q, x) \in Intents /\ DOMAIN Append(q, x) = 1..(Len(q) + 1)
             /\ \A i \in 1..Len(q) : Append(q, x)[i] = q[i]
             /\ Append(q, x)[Len(q) + 1] = x
    BY AppendProperties DEF Intents
<1>3. Asking(Append(q, "subscribe")) = Asking(q) \cup {Len(q) + 1}
    <2> DEFINE r == Append(q, "subscribe")
    <2>1. DOMAIN r = 1..(Len(q) + 1) /\ (\A i \in 1..Len(q) : r[i] = q[i]) /\ r[Len(q) + 1] = "subscribe"
        BY <1>2
    <2> HIDE DEF r
    <2>2. Asking(r) = Asking(q) \cup {Len(q) + 1}
        BY <1>1, <2>1 DEF Asking
    <2> QED
        BY <2>2 DEF r
<1>4. Asking(Append(q, "unsubscribe")) = Asking(q)
    <2> DEFINE r == Append(q, "unsubscribe")
    <2>1. DOMAIN r = 1..(Len(q) + 1) /\ (\A i \in 1..Len(q) : r[i] = q[i]) /\ r[Len(q) + 1] = "unsubscribe"
        BY <1>2
    <2> HIDE DEF r
    <2>2. Asking(r) = Asking(q)
        BY <1>1, <2>1 DEF Asking
    <2> QED
        BY <2>2 DEF r
<1>5. Len(q) + 1 \notin Asking(q)
    BY <1>1 DEF Asking
<1> QED
    BY <1>2, <1>3, <1>4, <1>5, AskingIsFinite, FS_AddElement

LEMMA AskingLess ==
    ASSUME NEW q \in Intents, q # <<>>
    PROVE  /\ Tail(q) \in Intents
           /\ Cardinality(Asking(Tail(q))) <= Cardinality(Asking(q))
           /\ Head(q) = "subscribe" => Cardinality(Asking(Tail(q))) + 1 <= Cardinality(Asking(q))
<1> DEFINE r == Tail(q)
           A == Asking(q) \ {1}
           f == [i \in A |-> i - 1]
<1>1. /\ Len(q) \in Nat /\ Len(q) # 0 /\ DOMAIN q = 1..Len(q) /\ Head(q) = q[1] /\ r \in Intents
      /\ Len(r) = Len(q) - 1 /\ DOMAIN r = 1..(Len(q) - 1) /\ \A i \in 1..(Len(q) - 1) : r[i] = q[i + 1]
    BY DEF Intents
<1> HIDE DEF r
<1>2. Asking(r) = {i - 1 : i \in A}
    <2>1. ASSUME NEW i \in Asking(r) PROVE i + 1 \in A /\ (i + 1) - 1 = i
        BY <1>1 DEF Asking
    <2>2. ASSUME NEW i \in A PROVE i - 1 \in Asking(r)
        BY <1>1 DEF Asking
    <2> HIDE DEF A
    <2> QED
        BY <2>1, <2>2
<1>3. f \in Surjection(A, Asking(r))
    <2> HIDE DEF A
    <2> QED
        BY <1>2 DEF Surjection
<1>4. IsFiniteSet(Asking(q)) /\ IsFiniteSet(A) /\ A \subseteq Asking(q)
    BY AskingIsFinite, FS_Subset
<1>5. Cardinality(Asking(r)) <= Cardinality(A)
    <2> HIDE DEF f, A
    <2> QED
        BY <1>3, <1>4, FS_Surjection
<1>6. Cardinality(A) = IF 1 \in Asking(q) THEN Cardinality(Asking(q)) - 1 ELSE Cardinality(Asking(q))
    BY <1>4, FS_RemoveElement
<1>7. Head(q) = "subscribe" => 1 \in Asking(q)
    BY <1>1 DEF Asking
<1>8. Cardinality(Asking(r)) \in Nat /\ Cardinality(Asking(q)) \in Nat
    BY <1>1, AskingIsFinite
<1> HIDE DEF A
<1> QED
    BY <1>1, <1>5, <1>6, <1>7, <1>8 DEF r

LEMMA StatusIsMessage ==
    ASSUME NEW state \in Shape
    PROVE  Status(state) \in UserMessage /\ <<Status(state)>> \in Seq(UserMessage)
<1>1. Status(state) \in UserMessage
    BY DEF Status, UserMessage
<1> QED
    BY <1>1

LEMMA ToldIsTyped ==
    ASSUME ViewerTypes, NEW w \in Seq(UserMessage), TellUser(w)
    PROVE  toUser' \in Seq(UserMessage)
<1>1. toUser \in Seq(UserMessage) /\ toUser \o w \in Seq(UserMessage)
    BY ConcatProperties DEF ViewerTypes
<1> QED
    BY <1>1 DEF TellUser

LEMMA ControlIsTyped ==
    ASSUME LinkTypes, NEW w \in Seq(ControlMessage), control' = ToConnector(w)
    PROVE  control' \in Seq(ControlMessage)
<1>1. control \in Seq(ControlMessage) /\ control \o w \in Seq(ControlMessage)
    BY ConcatProperties DEF LinkTypes
<1> QED
    BY <1>1 DEF ToConnector

LEMMA ControlMessages ==
    ASSUME NEW sub \in Sub
    PROVE  /\ Unsubscribe(sub) \in Seq(ControlMessage) /\ Unsubscribe(0) \in Seq(ControlMessage)
           /\ <<[type |-> "subscribe", sub |-> sub]>> \in Seq(ControlMessage)
<1>1. [type |-> "subscribe", sub |-> sub] \in ControlMessage /\ [type |-> "unsubscribe", sub |-> sub] \in ControlMessage
    BY DEF ControlMessage
<1> QED
    BY <1>1 DEF Unsubscribe

LEMMA UnsubscribeIsTyped ==
    ASSUME ServerTypes
    PROVE  Unsubscribe(route) \in Seq(ControlMessage)
<1>1. CASE route = 0
    BY <1>1 DEF Unsubscribe
<1>2. CASE route # 0
    BY <1>2, ControlMessages DEF ServerTypes
<1> QED
    BY <1>1, <1>2

-----------------------------------------------------------------------------
(* Steps of the server. *)

\* After a step that leaves nothing synced there is nothing to show.
LEMMA NotSynced ==
    ASSUME ~Synced'
    PROVE  ArrivesAsSnapshot' /\ HistoryFollows'
BY DEF ArrivesAsSnapshot, HistoryFollows

LEMMA RoutesCounted ==
    ASSUME StreamTypeOK, RoutesInOrder
    PROVE  /\ MaxSubs \in Nat /\ asked \in Nat /\ asks \in Nat /\ intents \in Intents /\ route \in Nat
           /\ Cardinality(Asking(intents)) \in Nat /\ asked <= asks
<1>1. MaxSubs \in Nat /\ asked \in Nat /\ asks \in Nat /\ intents \in Intents
    BY SessionStreamAssumption DEF StreamTypeOK, ServerTypes, ViewerTypes, Intents
<1>2. Cardinality(Asking(intents)) \in Nat
    BY <1>1, AskingIsFinite
<1>3. route \in Nat
    BY <1>1 DEF StreamTypeOK, ServerTypes, Sub
<1> QED
    BY <1>1, <1>2, <1>3 DEF RoutesInOrder

LEMMA HandleUnsubscribeKeepsInv == StreamInv /\ HandleUnsubscribe => StreamInv'
<1> SUFFICES ASSUME StreamInv, HandleUnsubscribe PROVE StreamInv'
    OBVIOUS
<1>1. /\ intents # <<>> /\ ~pending /\ Head(intents) = "unsubscribe"
      /\ intents' = Tail(intents) /\ route' = 0 /\ control' = ToConnector(Unsubscribe(route))
      /\ UNCHANGED <<agentVars, streams, link, up, stale, overlap, checking,
                     asked, pending, attached, allowed, toUser, viewerVars, faults>>
    BY DEF HandleUnsubscribe
<1>2. control' \in Seq(ControlMessage)
    BY <1>1, UnsubscribeIsTyped, ControlIsTyped DEF StreamInv, StreamTypeOK
<1>3. intents' \in Intents /\ Cardinality(Asking(intents')) <= Cardinality(Asking(intents))
    BY <1>1, RoutesCounted, AskingLess DEF StreamInv
<1>4. StreamTypeOK'
    BY <1>1, <1>2, <1>3 DEF StreamInv, StreamTypeOK, WorkstationTypes, LinkTypes, ServerTypes, ViewerTypes,
                            agentVars, viewerVars, Intents
<1>5. Cardinality(Asking(intents')) \in Nat
    BY <1>3, AskingIsFinite
<1>6. RoutesInOrder'
    BY <1>1, <1>3, <1>5, RoutesCounted DEF StreamInv, RoutesInOrder, viewerVars
<1>7. InOrder(thread)' /\ StreamsInOrder' /\ ViewInOrder'
    BY <1>1 DEF StreamInv, StreamsInOrder, ViewInOrder, agentVars, viewerVars
<1>8. ~Synced'
    BY <1>1 DEF Synced
<1> QED
    BY <1>4, <1>6, <1>7, <1>8, NotSynced DEF StreamInv

LEMMA HandleSubscribeKeepsInv == StreamInv /\ HandleSubscribe => StreamInv'
<1> SUFFICES ASSUME StreamInv, HandleSubscribe PROVE StreamInv'
    OBVIOUS
<1>1. /\ intents # <<>> /\ Head(intents) = "subscribe" /\ pending' = TRUE
      /\ route' = 0 /\ control' = ToConnector(Unsubscribe(route)) /\ TellUser(<<Status("loading")>>)
      /\ UNCHANGED <<agentVars, streams, link, up, stale, overlap, checking,
                     asked, attached, allowed, intents, viewerVars, faults>>
    BY DEF HandleSubscribe
<1>2. control' \in Seq(ControlMessage)
    BY <1>1, UnsubscribeIsTyped, ControlIsTyped DEF StreamInv, StreamTypeOK
<1>3. toUser' \in Seq(UserMessage)
    BY <1>1, StatusIsMessage, ToldIsTyped DEF StreamInv, StreamTypeOK, Shape
<1>4. StreamTypeOK'
    BY <1>1, <1>2, <1>3 DEF StreamInv, StreamTypeOK, WorkstationTypes, LinkTypes, ServerTypes, ViewerTypes,
                            agentVars, viewerVars
<1>5. RoutesInOrder'
    BY <1>1, RoutesCounted DEF StreamInv, RoutesInOrder, viewerVars
<1>6. InOrder(thread)' /\ StreamsInOrder' /\ ViewInOrder'
    BY <1>1 DEF StreamInv, StreamsInOrder, ViewInOrder, agentVars, viewerVars
<1>7. ~Synced'
    BY <1>1 DEF Synced
<1> QED
    BY <1>4, <1>5, <1>6, <1>7, NotSynced DEF StreamInv

LEMMA AuthorizedKeepsInv == StreamInv /\ Authorized => StreamInv'
<1> SUFFICES ASSUME StreamInv, Authorized PROVE StreamInv'
    OBVIOUS
<1>1. /\ pending /\ pending' = FALSE
      /\ intents' = IF attached THEN Tail(intents) ELSE <<>>
      /\ UNCHANGED <<agentVars, streams, link, up, stale, overlap, checking, attached, allowed, viewerVars, faults>>
      /\ \/ /\ ~attached \/ ~allowed
            /\ UNCHANGED <<asked, route, control>>
            /\ UNCHANGED toUser \/ TellUser(<<Status("denied")>>)
         \/ attached /\ allowed /\ NewRoute
    BY DEF Authorized
<1>2. route = 0 /\ (attached => intents # <<>> /\ Head(intents) = "subscribe")
    BY <1>1 DEF StreamInv, RoutesInOrder
<1>3. /\ intents' \in Intents /\ Cardinality(Asking(intents')) \in Nat
      /\ Cardinality(Asking(intents')) <= Cardinality(Asking(intents))
      /\ attached => Cardinality(Asking(intents')) + 1 <= Cardinality(Asking(intents))
    <2>1. CASE attached
        <3>1. intents' = Tail(intents) /\ intents # <<>> /\ Head(intents) = "subscribe"
            BY <1>1, <1>2, <2>1
        <3> QED
            BY <3>1, RoutesCounted, AskingLess, AskingIsFinite DEF StreamInv
    <2>2. CASE ~attached
        <3>1. intents' = <<>> /\ <<>> \in Intents
            BY <1>1, <2>2 DEF Intents
        <3> QED
            BY <2>2, <3>1, RoutesCounted, AskingTwo DEF StreamInv
    <2> QED
        BY <2>1, <2>2
<1>4. InOrder(thread)' /\ StreamsInOrder' /\ ViewInOrder'
    BY <1>1 DEF StreamInv, StreamsInOrder, ViewInOrder, agentVars, viewerVars
<1>5. CASE /\ UNCHANGED <<asked, route, control>>
           /\ UNCHANGED toUser \/ TellUser(<<Status("denied")>>)
    <2>1. toUser' \in Seq(UserMessage)
        BY <1>5, StatusIsMessage, ToldIsTyped DEF StreamInv, StreamTypeOK, ViewerTypes, Shape
    <2>2. StreamTypeOK'
        BY <1>1, <1>3, <1>5, <2>1 DEF StreamInv, StreamTypeOK, WorkstationTypes, LinkTypes, ServerTypes,
                                      ViewerTypes, agentVars, viewerVars, Intents
    <2>3. RoutesInOrder'
        BY <1>1, <1>3, <1>5, RoutesCounted DEF StreamInv, RoutesInOrder, viewerVars
    <2>4. ~Synced'
        BY <1>2, <1>5 DEF Synced
    <2> QED
        BY <1>4, <2>2, <2>3, <2>4, NotSynced DEF StreamInv
<1>6. CASE attached /\ allowed /\ NewRoute
    <2> DEFINE sub == asked + 1
               w == <<[type |-> "subscribe", sub |-> asked + 1]>>
    <2>1. /\ asked' = sub /\ route' = sub
          /\ \/ link = "down" /\ TellUser(<<Status("connector_offline")>>) /\ UNCHANGED control
             \/ link # "down" /\ control' = ToConnector(w) /\ UNCHANGED toUser
        BY <1>6 DEF NewRoute
    <2>2. sub \in Nat /\ sub + Cardinality(Asking(intents')) <= asks /\ asks <= MaxSubs
        BY <1>3, <1>6, RoutesCounted DEF StreamInv, RoutesInOrder
    <2>3. sub \in Sub
        BY <1>3, <2>2, RoutesCounted DEF StreamInv, Sub
    <2>4. w \in Seq(ControlMessage)
        BY <2>3, ControlMessages
    <2>5. control' \in Seq(ControlMessage)
        <3> HIDE DEF w
        <3> QED
            BY <2>1, <2>4, ControlIsTyped DEF StreamInv, StreamTypeOK, LinkTypes
    <2>6. toUser' \in Seq(UserMessage)
        BY <2>1, StatusIsMessage, ToldIsTyped DEF StreamInv, StreamTypeOK, ViewerTypes, Shape
    <2>7. ~Synced'
        <3> SUFFICES ASSUME Synced' PROVE FALSE
            OBVIOUS
        <3>1. link = "up" /\ \A i \in DOMAIN control' : control'[i].sub # sub
            BY <1>1, <2>1 DEF Synced
        <3>2. control' = control \o w /\ control \in Seq(ControlMessage)
            BY <2>1, <3>1 DEF ToConnector, StreamInv, StreamTypeOK, LinkTypes
        <3>3. Len(w) = 1 /\ w[1].sub = sub
            OBVIOUS
        <3> HIDE DEF w
        <3>4. Len(control) + 1 \in DOMAIN (control \o w) /\ (control \o w)[Len(control) + 1] = w[1]
            <4> DEFINE c == control
                       n == Len(c)
            <4>1. c \in Seq(ControlMessage) /\ n \in Nat
                BY <3>2
            <4> HIDE DEF c
            <4>2. /\ c \o w \in Seq(ControlMessage) /\ Len(c \o w) = n + Len(w)
                  /\ \A i \in 1..n + Len(w) : (c \o w)[i] = IF i <= n THEN c[i] ELSE w[i - n]
                BY <2>4, <4>1, ConcatProperties
            <4> HIDE DEF n
            <4>3. n + 1 \in 1..n + Len(w) /\ ~(n + 1 <= n) /\ (n + 1) - n = 1
                BY <3>3, <4>1
            <4>4. DOMAIN (c \o w) = 1..n + Len(w) /\ (c \o w)[n + 1] = w[1]
                BY <4>2, <4>3
            <4> QED
                BY <4>3, <4>4 DEF c, n
        <3> QED
            BY <3>1, <3>2, <3>3, <3>4
    <2> HIDE DEF sub, w
    <2>8. StreamTypeOK'
        BY <1>1, <1>3, <2>1, <2>2, <2>3, <2>5, <2>6
           DEF StreamInv, StreamTypeOK, WorkstationTypes, LinkTypes, ServerTypes, ViewerTypes,
               agentVars, viewerVars, Intents
    <2>9. RoutesInOrder'
        BY <1>1, <2>1, <2>2 DEF StreamInv, RoutesInOrder, viewerVars
    <2> QED
        BY <1>4, <2>7, <2>8, <2>9, NotSynced DEF StreamInv
<1> QED
    BY <1>1, <1>5, <1>6

LEMMA ForwardIsTyped ==
    ASSUME ViewerTypes, NEW m \in FrameMessage, Forward(m)
    PROVE  /\ toUser' \in Seq(UserMessage)
           /\ attached => toUser' = toUser \o <<Forwarded(m)>>
<1>1. <<m>> \in Seq(FrameMessage) /\ Len(<<m>>) = 1 /\ <<m>>[1] = m /\ 1 \in 1..Len(<<m>>)
    OBVIOUS
<1> DEFINE c == <<m>>
<1> HIDE DEF c
<1>2. Forwarded(c[1]) \in UserMessage
    BY <1>1, ForwardedMessages DEF c
<1>3. Forwarded(m) \in UserMessage
    BY <1>1, <1>2 DEF c
<1>4. <<Forwarded(m)>> \in Seq(UserMessage) /\ TellUser(<<Forwarded(m)>>)
    BY <1>3 DEF Forward
<1> QED
    BY <1>4, ToldIsTyped DEF TellUser

\* The frame that the server takes from a chain.
LEMMA FrameIsTaken ==
    ASSUME StreamTypeOK, checking = <<>>, NEW chain \in Seq(FrameMessage), chain # <<>>,
           \/ Head(chain).sub # route /\ UNCHANGED <<toUser, checking>>
           \/ Head(chain).sub = route /\ checking' = <<Head(chain)>> /\ UNCHANGED toUser
           \/ Head(chain).sub = route /\ Forward(Head(chain)) /\ UNCHANGED checking
    PROVE  /\ toUser' \in Seq(UserMessage) /\ checking' \in Seq(FrameMessage) /\ Len(checking') <= 1
           /\ checking' # <<>> => checking'[1].sub = route
           /\ attached => Outcome(view, toUser', route, checking', Tail(chain))
                              = Outcome(view, toUser, route, <<>>, chain)
<1> DEFINE m == Head(chain)
<1>1. m \in FrameMessage /\ Tail(chain) \in Seq(FrameMessage) /\ ViewerTypes /\ toUser \in Seq(UserMessage)
    BY HeadThenTail DEF StreamTypeOK, ViewerTypes
<1>2. <<>> \in Seq(FrameMessage) /\ Len(<<>>) = 0
    OBVIOUS
<1>3. CASE m.sub # route /\ UNCHANGED <<toUser, checking>>
    <2>1. Outcome(view, toUser, route, <<>>, Tail(chain)) = Outcome(view, toUser, route, <<>>, chain)
        BY <1>1, <1>3, OutcomeTaken
    <2> QED
        BY <1>1, <1>2, <1>3, <2>1
<1>4. CASE m.sub = route /\ checking' = <<m>> /\ UNCHANGED toUser
    <2>1. Outcome(view, toUser, route, <<m>>, Tail(chain)) = Outcome(view, toUser, route, <<>>, chain)
        BY <1>1, OutcomeTaken
    <2> HIDE DEF m
    <2>2. <<m>> \in Seq(FrameMessage) /\ Len(<<m>>) = 1 /\ <<m>>[1] = m
        BY <1>1
    <2> QED
        BY <1>1, <1>4, <2>1, <2>2 DEF m
<1>5. CASE m.sub = route /\ Forward(m) /\ UNCHANGED checking
    <2>1. Outcome(view, toUser, route, <<m>>, Tail(chain)) = Outcome(view, toUser, route, <<>>, chain)
        BY <1>1, OutcomeTaken
    <2>2. /\ toUser' \in Seq(UserMessage)
          /\ attached => toUser' = toUser \o <<Forwarded(m)>>
        BY <1>1, <1>5, ForwardIsTyped
    <2> HIDE DEF m
    <2>3. Outcome(view, toUser \o <<Forwarded(m)>>, route, <<>>, Tail(chain))
             = Outcome(view, toUser, route, <<m>>, Tail(chain))
        BY <1>1, <1>5, OutcomeForwarded
    <2>4. attached => Outcome(view, toUser', route, <<>>, Tail(chain)) = Outcome(view, toUser, route, <<>>, chain)
        BY <2>1, <2>2, <2>3
    <2> QED
        BY <1>2, <1>5, <2>2, <2>4
<1> QED
    BY <1>3, <1>4, <1>5

LEMMA HandleUpKeepsInv == StreamInv /\ HandleUp => StreamInv'
<1> SUFFICES ASSUME StreamInv, HandleUp PROVE StreamInv'
    OBVIOUS
<1> DEFINE m == Head(up)
<1>1. /\ checking = <<>> /\ up # <<>> /\ up' = Tail(up)
      /\ UNCHANGED <<agentVars, streams, link, control, stale, overlap, serverVars, intents, viewerVars, faults>>
      /\ \/ m.sub # route /\ UNCHANGED <<toUser, checking>>
         \/ m.sub = route /\ checking' = <<m>> /\ UNCHANGED toUser
         \/ m.sub = route /\ Forward(m) /\ UNCHANGED checking
    BY DEF HandleUp, HandleFrame
<1>2. up \in Seq(FrameMessage) /\ StreamTypeOK /\ Tail(up) \in Seq(FrameMessage)
    BY <1>1, HeadThenTail DEF StreamInv, StreamTypeOK, LinkTypes
<1>3. /\ toUser' \in Seq(UserMessage) /\ checking' \in Seq(FrameMessage) /\ Len(checking') <= 1
      /\ checking' # <<>> => checking'[1].sub = route
      /\ attached => Outcome(view, toUser', route, checking', Tail(up))
                        = Outcome(view, toUser, route, <<>>, up)
    BY <1>1, <1>2, FrameIsTaken
<1>4. StreamTypeOK'
    BY <1>1, <1>2, <1>3 DEF StreamTypeOK, WorkstationTypes, LinkTypes, ServerTypes, ViewerTypes,
                            agentVars, serverVars, viewerVars
<1>5. Order'
    BY <1>1 DEF StreamInv, Order, StreamsInOrder, RoutesInOrder, ViewInOrder, agentVars, serverVars, viewerVars
<1>6. ASSUME Synced' PROVE Synced /\ attached /\ route' = route /\ streams'[route] = streams[route]
    BY <1>1, <1>6 DEF StreamInv, RoutesInOrder, Synced, Live, serverVars, viewerVars
<1>7. view' = view /\ Arrived = Outcome(view, toUser, route, <<>>, up)
    BY <1>1 DEF Arrived, Outcome, viewerVars
<1>8. ASSUME Synced' PROVE Arrived' = Outcome(view, toUser', route, checking', Tail(up))
    BY <1>1, <1>6, <1>7, <1>8 DEF Arrived, Outcome
<1>9. ArrivesAsSnapshot'
    BY <1>3, <1>6, <1>7, <1>8 DEF StreamInv, ArrivesAsSnapshot
<1>10. HistoryFollows'
    BY <1>3, <1>6 DEF HistoryFollows
<1> QED
    BY <1>4, <1>5, <1>9, <1>10 DEF StreamInv, Order

LEMMA HandleStaleKeepsInv == StreamInv /\ HandleStale => StreamInv'
<1> SUFFICES ASSUME StreamInv, HandleStale PROVE StreamInv'
    OBVIOUS
<1> DEFINE m == Head(stale)
<1>1. /\ checking = <<>> /\ stale # <<>> /\ stale' = Tail(stale) /\ overlap' = (overlap \/ link = "up")
      /\ UNCHANGED <<agentVars, streams, link, control, up, serverVars, intents, viewerVars, faults>>
      /\ \/ m.sub # route /\ UNCHANGED <<toUser, checking>>
         \/ m.sub = route /\ checking' = <<m>> /\ UNCHANGED toUser
         \/ m.sub = route /\ Forward(m) /\ UNCHANGED checking
    BY DEF HandleStale, HandleFrame
<1>2. stale \in Seq(FrameMessage) /\ StreamTypeOK /\ Tail(stale) \in Seq(FrameMessage)
    BY <1>1, HeadThenTail DEF StreamInv, StreamTypeOK, LinkTypes
<1>3. toUser' \in Seq(UserMessage) /\ checking' \in Seq(FrameMessage) /\ Len(checking') <= 1
    BY <1>1, <1>2, FrameIsTaken
<1>4. StreamTypeOK'
    BY <1>1, <1>2, <1>3 DEF StreamTypeOK, WorkstationTypes, LinkTypes, ServerTypes, ViewerTypes,
                            agentVars, serverVars, viewerVars
<1>5. Order'
    BY <1>1 DEF StreamInv, Order, StreamsInOrder, RoutesInOrder, ViewInOrder, agentVars, serverVars, viewerVars
<1>6. ~Synced'
    BY <1>1 DEF Synced
<1> QED
    BY <1>4, <1>5, <1>6, NotSynced DEF StreamInv, Order

LEMMA ImageCheckedKeepsInv == StreamInv /\ ImageChecked => StreamInv'
<1> SUFFICES ASSUME StreamInv, ImageChecked PROVE StreamInv'
    OBVIOUS
<1> DEFINE m == checking[1]
<1>1. /\ checking # <<>> /\ checking' = <<>>
      /\ UNCHANGED <<agentVars, streams, link, up, stale, overlap,
                     asked, pending, attached, allowed, intents, viewerVars, faults>>
      /\ \/ allowed /\ Forward(m) /\ UNCHANGED <<route, control>>
         \/ /\ ~allowed /\ TellUser(<<Status("denied")>>)
            /\ route' = IF route = m.sub THEN 0 ELSE route
            /\ control' = ToConnector(Unsubscribe(m.sub))
    BY DEF ImageChecked
<1>2. /\ checking \in Seq(FrameMessage) /\ Len(checking) <= 1 /\ up \in Seq(FrameMessage)
      /\ toUser \in Seq(UserMessage) /\ StreamTypeOK /\ ViewerTypes
    BY DEF StreamInv, StreamTypeOK, LinkTypes, ViewerTypes
<1>3. m \in FrameMessage /\ checking = <<m>> /\ m.sub \in Sub
    <2>1. Len(checking) \in Nat \ {0}
        BY <1>1, <1>2, EmptySeq
    <2>2. Len(checking) = 1
        <3>1. Len(checking) <= 1
            BY <1>2
        <3> DEFINE n == Len(checking)
        <3>2. n \in Nat /\ n # 0 /\ n <= 1
            BY <2>1, <3>1
        <3> HIDE DEF n
        <3>3. n = 1
            BY <3>2
        <3> QED
            BY <3>3 DEF n
    <2>3. m \in FrameMessage
        <3>1. 1 \in 1..Len(checking)
            BY <2>2
        <3> QED
            BY <1>2, <3>1, ElementOfSeq
    <2>4. checking = <<m>>
        <3> DEFINE c == <<m>>
        <3>1. c \in Seq(FrameMessage) /\ Len(c) = 1 /\ c[1] = m
            BY <2>3
        <3>2. \A i \in 1..Len(checking) : checking[i] = c[i]
            BY <2>2, <3>1
        <3> HIDE DEF c
        <3>3. checking = c
            BY <1>2, <2>2, <3>1, <3>2, SeqEqual
        <3> QED
            BY <3>3 DEF c
    <2> QED
        BY <2>3, <2>4 DEF FrameMessage
<1>4. <<>> \in Seq(FrameMessage) /\ Len(<<>>) = 0
    OBVIOUS
<1>5. CASE allowed /\ Forward(m) /\ UNCHANGED <<route, control>>
    <2>1. /\ toUser' \in Seq(UserMessage)
          /\ attached => toUser' = toUser \o <<Forwarded(m)>>
        BY <1>2, <1>3, <1>5, ForwardIsTyped
    <2>2. StreamTypeOK'
        BY <1>1, <1>2, <1>4, <1>5, <2>1 DEF StreamTypeOK, WorkstationTypes, LinkTypes, ServerTypes, ViewerTypes,
                                            agentVars, viewerVars
    <2>3. Order'
        BY <1>1, <1>5 DEF StreamInv, Order, StreamsInOrder, RoutesInOrder, ViewInOrder, agentVars, viewerVars
    <2>4. ASSUME Synced' PROVE Synced /\ attached /\ route' = route /\ streams'[route] = streams[route]
        BY <1>1, <1>5, <2>4 DEF StreamInv, RoutesInOrder, Synced, Live, viewerVars
    <2>5. ASSUME Synced' PROVE Arrived' = Arrived
        <3>1. Synced /\ m.sub # route => \E i \in DOMAIN up : up[i].sub = route /\ ~up[i].failed /\ up[i].batch.history
            BY <1>1 DEF StreamInv, HistoryFollows, IsHistory
        <3>2. m.sub = route \/ \E i \in DOMAIN up : up[i].sub = route /\ ~up[i].failed /\ up[i].batch.history
            BY <2>4, <2>5, <3>1
        <3>3. Arrived' = Outcome(view, toUser \o <<Forwarded(m)>>, route, <<>>, up)
            BY <1>1, <2>1, <2>4, <2>5 DEF Arrived, Outcome, viewerVars
        <3>4. Arrived = Outcome(view, toUser, route, <<m>>, up)
            BY <1>3 DEF Arrived, Outcome
        <3> HIDE DEF m
        <3>5. Outcome(view, toUser \o <<Forwarded(m)>>, route, <<>>, up) = Outcome(view, toUser, route, <<m>>, up)
            BY <1>2, <1>3, <3>2, OutcomeForwarded
        <3> QED
            BY <3>3, <3>4, <3>5
    <2>6. ArrivesAsSnapshot' /\ HistoryFollows'
        BY <1>1, <2>4, <2>5 DEF StreamInv, ArrivesAsSnapshot, HistoryFollows
    <2> QED
        BY <2>2, <2>3, <2>6 DEF StreamInv, Order
<1>6. CASE /\ ~allowed /\ TellUser(<<Status("denied")>>)
           /\ route' = IF route = m.sub THEN 0 ELSE route
           /\ control' = ToConnector(Unsubscribe(m.sub))
    <2>1. toUser' \in Seq(UserMessage)
        BY <1>2, <1>6, StatusIsMessage, ToldIsTyped DEF Shape
    <2>2. control' \in Seq(ControlMessage)
        <3>1. Unsubscribe(m.sub) \in Seq(ControlMessage)
            BY <1>3, ControlMessages
        <3> QED
            BY <1>2, <1>6, <3>1, ControlIsTyped DEF StreamTypeOK
    <2>3. StreamTypeOK'
        BY <1>1, <1>2, <1>4, <1>6, <2>1, <2>2 DEF StreamTypeOK, WorkstationTypes, LinkTypes, ServerTypes,
                                                  ViewerTypes, agentVars, viewerVars
    <2>4. RoutesInOrder'
        BY <1>1, <1>6, RoutesCounted DEF StreamInv, RoutesInOrder, viewerVars
    <2>5. InOrder(thread)' /\ StreamsInOrder' /\ ViewInOrder'
        BY <1>1 DEF StreamInv, StreamsInOrder, ViewInOrder, agentVars, viewerVars
    <2>6. ~Synced'
        BY <1>1, <1>6 DEF Synced
    <2> QED
        BY <2>3, <2>4, <2>5, <2>6, NotSynced DEF StreamInv
<1> QED
    BY <1>1, <1>5, <1>6

LEMMA DetachKeepsInv == StreamInv /\ Detach => StreamInv'
<1> SUFFICES ASSUME StreamInv, Detach PROVE StreamInv'
    OBVIOUS
<1>1. /\ link' = "down"
      /\ UNCHANGED toUser \/ TellUser(<<Status("connector_offline")>>)
      /\ UNCHANGED <<agentVars, streams, control, up, stale, overlap, checking,
                     serverVars, intents, viewerVars, faults>>
    BY DEF Detach
<1>2. toUser' \in Seq(UserMessage)
    BY <1>1, StatusIsMessage, ToldIsTyped DEF StreamInv, StreamTypeOK, ViewerTypes, Shape
<1>3. StreamTypeOK'
    BY <1>1, <1>2 DEF StreamInv, StreamTypeOK, WorkstationTypes, LinkTypes, ServerTypes, ViewerTypes,
                      agentVars, serverVars, viewerVars
<1>4. Order'
    BY <1>1 DEF StreamInv, Order, StreamsInOrder, RoutesInOrder, ViewInOrder, agentVars, serverVars, viewerVars
<1>5. ~Synced'
    BY <1>1 DEF Synced
<1> QED
    BY <1>3, <1>4, <1>5, NotSynced DEF StreamInv, Order

LEMMA ActivateKeepsInv == StreamInv /\ Activate => StreamInv'
<1> SUFFICES ASSUME StreamInv, Activate PROVE StreamInv'
    OBVIOUS
<1> DEFINE m == [type |-> "subscribe", sub |-> route]
<1>1. /\ link' = "up"
      /\ UNCHANGED <<agentVars, streams, up, stale, overlap, checking, serverVars, intents, viewerVars, faults>>
      /\ \/ route = 0 /\ UNCHANGED <<toUser, control>>
         \/ route # 0 /\ TellUser(<<Status("loading")>>) /\ control' = <<m>>
    BY DEF Activate
<1>2. toUser' \in Seq(UserMessage)
    BY <1>1, StatusIsMessage, ToldIsTyped DEF StreamInv, StreamTypeOK, ViewerTypes, Shape
<1>3. control' \in Seq(ControlMessage)
    <2>1. CASE route = 0
        BY <1>1, <2>1 DEF StreamInv, StreamTypeOK, LinkTypes
    <2>2. CASE route # 0
        <3>1. route \in Sub
            BY <2>2 DEF StreamInv, StreamTypeOK, ServerTypes
        <3> QED
            BY <1>1, <2>2, <3>1, ControlMessages
    <2> QED
        BY <2>1, <2>2
<1>4. StreamTypeOK'
    BY <1>1, <1>2, <1>3 DEF StreamInv, StreamTypeOK, WorkstationTypes, LinkTypes, ServerTypes, ViewerTypes,
                            agentVars, serverVars, viewerVars
<1>5. Order'
    BY <1>1 DEF StreamInv, Order, StreamsInOrder, RoutesInOrder, ViewInOrder, agentVars, serverVars, viewerVars
<1>6. ~Synced'
    <2> SUFFICES ASSUME Synced' PROVE FALSE
        OBVIOUS
    <2>1. control' = <<m>> /\ route' = route
        BY <1>1 DEF Synced, serverVars
    <2>2. 1 \in DOMAIN <<m>> /\ <<m>>[1].sub = route
        OBVIOUS
    <2> QED
        BY <2>1, <2>2 DEF Synced
<1> QED
    BY <1>4, <1>5, <1>6, NotSynced DEF StreamInv, Order

LEMMA RemoveUserKeepsInv == StreamInv /\ RemoveUser => StreamInv'
<1> SUFFICES ASSUME StreamInv, RemoveUser PROVE StreamInv'
    OBVIOUS
<1>1. /\ ~socket /\ attached' = FALSE /\ route' = 0 /\ control' = ToConnector(Unsubscribe(route))
      /\ UNCHANGED <<agentVars, streams, link, up, stale, overlap, checking,
                     asked, pending, allowed, intents, toUser, viewerVars, faults>>
    BY DEF RemoveUser
<1>2. control' \in Seq(ControlMessage)
    BY <1>1, UnsubscribeIsTyped, ControlIsTyped DEF StreamInv, StreamTypeOK
<1>3. StreamTypeOK'
    BY <1>1, <1>2 DEF StreamInv, StreamTypeOK, WorkstationTypes, LinkTypes, ServerTypes, ViewerTypes,
                      agentVars, viewerVars
<1>4. RoutesInOrder'
    BY <1>1, RoutesCounted DEF StreamInv, RoutesInOrder, viewerVars
<1>5. InOrder(thread)' /\ StreamsInOrder' /\ ViewInOrder'
    BY <1>1 DEF StreamInv, StreamsInOrder, ViewInOrder, agentVars, viewerVars
<1>6. ~Synced'
    BY <1>1 DEF Synced
<1> QED
    BY <1>3, <1>4, <1>5, <1>6, NotSynced DEF StreamInv

-----------------------------------------------------------------------------
(* Faults, and steps of the viewer. *)

LEMMA LinkBreaksKeepsInv == \A received \in 0..Len(up) : StreamInv /\ LinkBreaks(received) => StreamInv'
<1> SUFFICES ASSUME NEW received \in 0..Len(up), StreamInv, LinkBreaks(received) PROVE StreamInv'
    OBVIOUS
<1>1. /\ link' = "broken" /\ control' = <<>> /\ up' = <<>> /\ stale' = SubSeq(up, 1, received) /\ Fault
      /\ UNCHANGED <<agentVars, streams, overlap, checking, serverVars, intents, toUser, viewerVars>>
    BY DEF LinkBreaks
<1>2. stale' \in Seq(FrameMessage)
    <2>1. up \in Seq(FrameMessage) /\ Len(up) \in Nat /\ 1 \in Int /\ received \in Int
        BY DEF StreamInv, StreamTypeOK, LinkTypes
    <2>2. \A i \in 1..received : up[i] \in FrameMessage
        BY <2>1
    <2> QED
        BY <1>1, <2>1, <2>2, SubSeqProperties
<1>3. StreamTypeOK'
    BY <1>1, <1>2 DEF StreamInv, StreamTypeOK, WorkstationTypes, LinkTypes, ServerTypes, ViewerTypes,
                      agentVars, serverVars, viewerVars, Fault
<1>4. Order'
    BY <1>1 DEF StreamInv, Order, StreamsInOrder, RoutesInOrder, ViewInOrder, agentVars, serverVars, viewerVars
<1>5. ~Synced'
    BY <1>1 DEF Synced
<1> QED
    BY <1>3, <1>4, <1>5, NotSynced DEF StreamInv, Order

LEMMA NewViewIsTyped ==
    ASSUME NEW s \in Shape
    PROVE  NoView(s) \in View /\ Distinct(NoView(s).entries) /\ Distinct(NoView(s).turns)
BY NothingShown DEF Views

LEMMA UserBreaksKeepsInv == StreamInv /\ UserBreaks => StreamInv'
<1> SUFFICES ASSUME StreamInv, UserBreaks PROVE StreamInv'
    OBVIOUS
<1>1. /\ socket' = FALSE /\ toUser' = <<>> /\ view' = NoView("loading") /\ Fault
      /\ UNCHANGED <<agentVars, streams, linkVars, serverVars, intents, wants, asks>>
    BY DEF UserBreaks
<1>2. view' \in View /\ Distinct(view'.entries) /\ Distinct(view'.turns)
    BY <1>1, NewViewIsTyped DEF Shape
<1>3. StreamTypeOK'
    <2>1. faults' \in Nat
        BY <1>1 DEF StreamInv, StreamTypeOK, ViewerTypes, Fault
    <2>2. toUser' \in Seq(UserMessage)
        BY <1>1, EmptySeq
    <2> QED
        BY <1>1, <1>2, <2>1, <2>2 DEF StreamInv, StreamTypeOK, WorkstationTypes, LinkTypes, ServerTypes,
                                      ViewerTypes, agentVars, linkVars, serverVars
<1>4. Order'
    BY <1>1, <1>2 DEF StreamInv, Order, StreamsInOrder, RoutesInOrder, ViewInOrder, agentVars, serverVars
<1>5. ~Synced'
    BY <1>1 DEF Synced
<1> QED
    BY <1>3, <1>4, <1>5, NotSynced DEF StreamInv, Order

LEMMA RevokeKeepsInv == StreamInv /\ Revoke => StreamInv'
<1> SUFFICES ASSUME StreamInv, Revoke PROVE StreamInv'
    OBVIOUS
<1>1. /\ allowed' = FALSE /\ Fault
      /\ UNCHANGED <<agentVars, streams, linkVars, route, asked, pending, attached, intents, toUser, viewerVars>>
    BY DEF Revoke
<1>2. StreamTypeOK'
    <2>1. faults' \in Nat
        BY <1>1 DEF StreamInv, StreamTypeOK, ViewerTypes, Fault
    <2> QED
        BY <1>1, <2>1 DEF StreamInv, StreamTypeOK, WorkstationTypes, LinkTypes, ServerTypes, ViewerTypes,
                          agentVars, linkVars, viewerVars
<1>3. Order'
    BY <1>1 DEF StreamInv, Order, StreamsInOrder, RoutesInOrder, ViewInOrder, agentVars, viewerVars
<1>4. ~Synced'
    BY <1>1 DEF Synced
<1> QED
    BY <1>2, <1>3, <1>4, NotSynced DEF StreamInv, Order

LEMMA OpenKeepsInv == StreamInv /\ Open => StreamInv'
<1> SUFFICES ASSUME StreamInv, Open PROVE StreamInv'
    OBVIOUS
<1>1. /\ asks < MaxSubs /\ asks' = asks + 1 /\ wants' = TRUE /\ view' = NoView("loading")
      /\ intents' = Append(intents, "subscribe")
      /\ UNCHANGED <<agentVars, streams, linkVars, serverVars, toUser, socket, faults>>
    BY DEF Open, Subscribes
<1>2. view' \in View /\ Distinct(view'.entries) /\ Distinct(view'.turns)
    BY <1>1, NewViewIsTyped DEF Shape
<1>3. /\ intents' \in Intents /\ Cardinality(Asking(intents')) = Cardinality(Asking(intents)) + 1
      /\ intents' # <<>> /\ (intents # <<>> => Head(intents') = Head(intents))
    <2>1. intents \in Seq({"subscribe", "unsubscribe"})
        BY RoutesCounted DEF StreamInv, Intents
    <2>2. intents' # <<>> /\ (intents # <<>> => Head(intents') = Head(intents))
        BY <1>1, <2>1, AppendProperties, HeadTailAppend
    <2> QED
        BY <1>1, <2>2, RoutesCounted, AskingMore DEF StreamInv
<1>4. StreamTypeOK'
    BY <1>1, <1>2, <1>3, RoutesCounted DEF StreamInv, StreamTypeOK, WorkstationTypes, LinkTypes, ServerTypes,
                      ViewerTypes, agentVars, linkVars, serverVars, Intents
<1>5. RoutesInOrder'
    BY <1>1, <1>3, RoutesCounted DEF StreamInv, RoutesInOrder, serverVars
<1>6. InOrder(thread)' /\ StreamsInOrder' /\ ViewInOrder'
    BY <1>1, <1>2 DEF StreamInv, StreamsInOrder, ViewInOrder, agentVars
<1>7. ~Synced'
    BY <1>3 DEF Synced
<1> QED
    BY <1>4, <1>5, <1>6, <1>7, NotSynced DEF StreamInv

LEMMA LeaveKeepsInv == StreamInv /\ Leave => StreamInv'
<1> SUFFICES ASSUME StreamInv, Leave PROVE StreamInv'
    OBVIOUS
<1>1. /\ wants' = FALSE /\ view' = NoView("loading")
      /\ intents' = IF socket THEN Append(intents, "unsubscribe") ELSE intents
      /\ UNCHANGED <<agentVars, streams, linkVars, serverVars, toUser, socket, asks, faults>>
    BY DEF Leave
<1>2. view' \in View /\ Distinct(view'.entries) /\ Distinct(view'.turns)
    BY <1>1, NewViewIsTyped DEF Shape
<1>3. /\ intents' \in Intents /\ Cardinality(Asking(intents')) = Cardinality(Asking(intents))
      /\ intents # <<>> => intents' # <<>> /\ Head(intents') = Head(intents)
    <2>1. intents \in Seq({"subscribe", "unsubscribe"})
        BY RoutesCounted DEF StreamInv, Intents
    <2>2. intents # <<>> => intents' # <<>> /\ Head(intents') = Head(intents)
        BY <1>1, <2>1, AppendProperties, HeadTailAppend
    <2> QED
        BY <1>1, <2>2, RoutesCounted, AskingMore DEF StreamInv
<1>4. StreamTypeOK'
    BY <1>1, <1>2, <1>3 DEF StreamInv, StreamTypeOK, WorkstationTypes, LinkTypes, ServerTypes,
                      ViewerTypes, agentVars, linkVars, serverVars, Intents
<1>5. RoutesInOrder'
    BY <1>1, <1>3, RoutesCounted DEF StreamInv, RoutesInOrder, serverVars
<1>6. InOrder(thread)' /\ StreamsInOrder' /\ ViewInOrder'
    BY <1>1, <1>2 DEF StreamInv, StreamsInOrder, ViewInOrder, agentVars
<1>7. ~Synced'
    BY <1>1 DEF Synced
<1> QED
    BY <1>4, <1>5, <1>6, <1>7, NotSynced DEF StreamInv

LEMMA UserReturnsKeepsInv == StreamInv /\ UserReturns => StreamInv'
<1> SUFFICES ASSUME StreamInv, UserReturns PROVE StreamInv'
    OBVIOUS
<1>1. /\ ~pending /\ socket' = TRUE /\ attached' = TRUE
      /\ \/ /\ wants /\ asks < MaxSubs /\ asks' = asks + 1 /\ intents' = <<"unsubscribe", "subscribe">>
         \/ /\ ~wants /\ asks' = asks /\ intents' = <<>>
      /\ UNCHANGED <<agentVars, streams, linkVars, route, asked, pending, allowed, toUser, wants, view, faults>>
    BY DEF UserReturns, Subscribes
<1>2. <<"unsubscribe", "subscribe">> \in Intents /\ <<>> \in Intents
    BY DEF Intents
<1>3. StreamTypeOK'
    <2>1. asks' \in Nat
        BY <1>1, RoutesCounted DEF StreamInv
    <2>2. intents' \in Seq({"subscribe", "unsubscribe"})
        <3>1. intents' = <<"unsubscribe", "subscribe">> \/ intents' = <<>>
            BY <1>1
        <3> QED
            BY <1>2, <3>1 DEF Intents
    <2> QED
        BY <1>1, <2>1, <2>2 DEF StreamInv, StreamTypeOK, WorkstationTypes, LinkTypes, ServerTypes, ViewerTypes,
                          agentVars, linkVars
<1>4. RoutesInOrder'
    <2>1. asks' \in Nat /\ asked + Cardinality(Asking(intents')) <= asks' /\ asks' <= MaxSubs
        BY <1>1, AskingTwo, RoutesCounted DEF StreamInv, RoutesInOrder
    <2> QED
        BY <1>1, <2>1, RoutesCounted DEF StreamInv, RoutesInOrder
<1>5. InOrder(thread)' /\ StreamsInOrder' /\ ViewInOrder'
    BY <1>1 DEF StreamInv, StreamsInOrder, ViewInOrder, agentVars
<1>6. ~Synced'
    BY <1>1 DEF Synced
<1> QED
    BY <1>3, <1>4, <1>5, <1>6, NotSynced DEF StreamInv

LEMMA ReceiveKeepsInv == StreamInv /\ Receive => StreamInv'
<1> SUFFICES ASSUME StreamInv, Receive PROVE StreamInv'
    OBVIOUS
<1>1. /\ toUser # <<>> /\ toUser' = Tail(toUser)
      /\ view' = IF wants THEN Handled(view, Head(toUser)) ELSE view
      /\ UNCHANGED <<agentVars, streams, linkVars, serverVars, intents, socket, wants, asks, faults>>
    BY DEF Receive
<1>2. /\ toUser \in Seq(UserMessage) /\ checking \in Seq(FrameMessage) /\ up \in Seq(FrameMessage) /\ view \in Views
    BY DEF StreamInv, StreamTypeOK, LinkTypes, ViewerTypes, ViewInOrder, Views
<1>3. Head(toUser) \in UserMessage /\ Tail(toUser) \in Seq(UserMessage)
    BY <1>1, <1>2, HeadThenTail
<1>4. view' \in Views
    BY <1>1, <1>2, <1>3, MessageIsHandled
<1>5. StreamTypeOK'
    BY <1>1, <1>3, <1>4 DEF StreamInv, StreamTypeOK, WorkstationTypes, LinkTypes, ServerTypes, ViewerTypes,
                            agentVars, linkVars, serverVars, Views
<1>6. Order'
    BY <1>1, <1>4 DEF StreamInv, Order, StreamsInOrder, RoutesInOrder, ViewInOrder, agentVars, serverVars, Views
<1>7. ASSUME Synced' PROVE Synced /\ route' = route /\ streams' = streams
    BY <1>1, <1>7 DEF Synced, Live, linkVars, serverVars
<1>8. ASSUME Synced' PROVE Arrived' = Arrived
    <2>1. wants
        BY <1>7, <1>8 DEF Synced
    <2>2. Arrived' = Outcome(Handled(view, Head(toUser)), Tail(toUser), route, checking, up)
        BY <1>1, <1>7, <1>8, <2>1 DEF Arrived, Outcome, linkVars
    <2>3. Arrived = Outcome(view, toUser, route, checking, up)
        BY DEF Arrived, Outcome
    <2> QED
        BY <1>1, <1>2, <2>2, <2>3, OutcomeReceived
<1>9. ArrivesAsSnapshot'
    BY <1>7, <1>8 DEF StreamInv, ArrivesAsSnapshot
<1>10. HistoryFollows'
    BY <1>1, <1>7 DEF StreamInv, HistoryFollows, IsHistory, linkVars
<1> QED
    BY <1>5, <1>6, <1>9, <1>10 DEF StreamInv, Order

-----------------------------------------------------------------------------
(* The invariant holds in every state, and with it the properties. *)

LEMMA InitInv == StreamInit => StreamInv
<1> SUFFICES ASSUME StreamInit PROVE StreamInv
    OBVIOUS
<1> DEFINE e == Entry("turn", 1, <<TRUE>>)
<1>1. /\ thread = <<e>> /\ notified \in BOOLEAN /\ changes = 0 /\ notices = <<>>
      /\ streams = [s \in Sub |-> NoStream]
      /\ link = "up" /\ control = <<>> /\ up = <<>> /\ stale = <<>>
      /\ overlap = FALSE /\ checking = <<>>
      /\ route = 0 /\ asked = 0 /\ pending = FALSE /\ attached = TRUE /\ allowed = TRUE
      /\ intents = <<>> /\ toUser = <<>>
      /\ socket = TRUE /\ wants = FALSE /\ view = NoView("loading") /\ asks = 0
      /\ faults = 0
    BY DEF StreamInit
<1>2. <<TRUE>> \in Seq(BOOLEAN) /\ e.kind = "turn" /\ e.id = 1
    BY DEF Entry
<1>3. e \in AnyEntry
    BY <1>2 DEF AnyEntry, TurnEntries, Entry
<1> HIDE DEF e
<1>4. Len(<<e>>) = 1 /\ DOMAIN <<e>> = {1} /\ <<e>>[1] = e /\ <<e>> # <<>>
    OBVIOUS
<1>5. <<e>> \in Seq(AnyEntry)
    BY <1>3
<1>6. InOrder(thread)
    <2>1. Distinct(<<e>>)
        BY <1>4 DEF Distinct
    <2> QED
        BY <1>1, <1>2, <1>4, <2>1 DEF InOrder
<1>7. streams \in [Sub -> LiveStream \cup {NoStream}]
    BY <1>1
<1>8. view \in View /\ ViewInOrder
    BY <1>1, NewViewIsTyped DEF ViewInOrder, Shape
<1>9. StreamTypeOK
    <2>1. WorkstationTypes
        BY <1>1, <1>5, <1>7, EmptySeq DEF WorkstationTypes
    <2>2. LinkTypes
        <3>1. checking \in Seq(FrameMessage) /\ Len(checking) <= 1
            BY <1>1
        <3>2. control \in Seq(ControlMessage) /\ up \in Seq(FrameMessage) /\ stale \in Seq(FrameMessage)
            BY <1>1
        <3> QED
            BY <1>1, <3>1, <3>2 DEF LinkTypes
    <2>3. ServerTypes
        BY <1>1 DEF ServerTypes
    <2>4. ViewerTypes
        BY <1>1, <1>8, EmptySeq DEF ViewerTypes
    <2> QED
        BY <2>1, <2>2, <2>3, <2>4 DEF StreamTypeOK
<1>10. StreamsInOrder
    BY <1>1 DEF StreamsInOrder, StreamInOrder, NoStream
<1>11. RoutesInOrder
    BY <1>1, AskingTwo, SessionStreamAssumption DEF RoutesInOrder
<1>12. ~Synced
    BY <1>1 DEF Synced
<1> QED
    BY <1>6, <1>8, <1>9, <1>10, <1>11, <1>12 DEF StreamInv, ArrivesAsSnapshot, HistoryFollows

LEMMA StutterKeepsInv == StreamInv /\ UNCHANGED streamVars => StreamInv'
<1> SUFFICES ASSUME StreamInv, UNCHANGED streamVars PROVE StreamInv'
    OBVIOUS
<1>1. UNCHANGED <<agentVars, streams, linkVars, serverVars, intents, toUser, viewerVars, faults>>
    BY DEF streamVars
<1>2. StreamTypeOK'
    BY <1>1 DEF StreamInv, StreamTypeOK, WorkstationTypes, LinkTypes, ServerTypes, ViewerTypes,
                agentVars, linkVars, serverVars, viewerVars
<1>3. InOrder(thread)' /\ StreamsInOrder' /\ RoutesInOrder' /\ ViewInOrder'
    BY <1>1 DEF StreamInv, StreamsInOrder, RoutesInOrder, ViewInOrder, agentVars, serverVars, viewerVars
<1>4. Synced' => Synced /\ route' = route /\ streams'[route].snapshot = streams[route].snapshot
    BY <1>1 DEF Synced, Live, linkVars, serverVars, viewerVars
<1>5. ArrivesAsSnapshot' /\ HistoryFollows'
    BY <1>1, <1>4, NothingArrives DEF StreamInv, linkVars, viewerVars
<1> QED
    BY <1>2, <1>3, <1>5 DEF StreamInv

LEMMA NextKeepsInv == StreamInv /\ [StreamNext]_streamVars => StreamInv'
<1> SUFFICES ASSUME StreamInv, [StreamNext]_streamVars PROVE StreamInv'
    OBVIOUS
<1>1. CASE Agent
    BY <1>1, AgentKeepsInv
<1>2. CASE Connector
    BY <1>2, ReceiveControlKeepsInv, NotifyKeepsInv, SyncKeepsInv, ThreadReadKeepsInv,
       SyncDoneKeepsInv, ReadFailsKeepsInv DEF Connector
<1>3. CASE Server
    BY <1>3, HandleUnsubscribeKeepsInv, HandleSubscribeKeepsInv, AuthorizedKeepsInv, HandleUpKeepsInv,
       HandleStaleKeepsInv, ImageCheckedKeepsInv, DetachKeepsInv, ActivateKeepsInv, RemoveUserKeepsInv
       DEF Server
<1>4. CASE Viewer
    BY <1>4, OpenKeepsInv, LeaveKeepsInv, UserReturnsKeepsInv, ReceiveKeepsInv DEF Viewer
<1>5. CASE \E received \in 0..Len(up) : LinkBreaks(received)
    BY <1>5, LinkBreaksKeepsInv
<1>6. CASE UserBreaks
    BY <1>6, UserBreaksKeepsInv
<1>7. CASE Revoke
    BY <1>7, RevokeKeepsInv
<1>8. CASE UNCHANGED streamVars
    BY <1>8, StutterKeepsInv
<1> QED
    BY <1>1, <1>2, <1>3, <1>4, <1>5, <1>6, <1>7, <1>8 DEF StreamNext

\* Items and statuses of turns do not mix: what is shown is known from its content.
LEMMA ContentIsView ==
    ASSUME NEW v \in Views, NEW w \in Views, Content(v) = Content(w)
    PROVE  SameView(v, w)
<1>1. /\ v.entries \in Seq(Item) /\ v.turns \in Seq(TurnEntries)
      /\ w.entries \in Seq(Item) /\ w.turns \in Seq(TurnEntries)
    BY DEF Views, View
<1>2. /\ ToSet(v.entries) \subseteq Item /\ ToSet(w.entries) \subseteq Item
      /\ ToSet(v.turns) \subseteq TurnEntries /\ ToSet(w.turns) \subseteq TurnEntries
    BY <1>1, ElementOfSeq DEF ToSet
<1>3. Item \cap TurnEntries = {}
    BY DEF Item, TurnEntries
<1> QED
    BY <1>2, <1>3 DEF SameView, Content

LEMMA InvKnowsView == StreamInv => ConnectorKnowsView
<1> SUFFICES ASSUME StreamInv, Following
             PROVE  SameView(Arrived, Shown(streams[route].snapshot))
    BY DEF ConnectorKnowsView
<1>1. Synced /\ route \in Sub
    BY DEF Following, Synced, StreamInv, StreamTypeOK, ServerTypes
<1>2. Content(Arrived) = ToSet(streams[route].snapshot)
    BY <1>1 DEF StreamInv, ArrivesAsSnapshot
<1>3. streams[route] \in LiveStream /\ StreamInOrder(streams[route])
    BY <1>1, LiveOnes DEF Synced, Live, AnyStream, StreamInv, StreamTypeOK, WorkstationTypes, StreamsInOrder
<1>4. streams[route].snapshot \in Seq(AnyEntry) /\ Distinct(streams[route].snapshot)
    BY <1>3 DEF LiveStream, StreamInOrder
<1>5. /\ Shown(streams[route].snapshot) \in Views
      /\ Content(Shown(streams[route].snapshot)) = ToSet(streams[route].snapshot)
    BY <1>4, HistoryStartsAnew DEF Shown
<1>6. Arrived \in Views
    BY OutcomeIsView DEF Arrived, Outcome, StreamInv, StreamTypeOK, LinkTypes, ViewerTypes, ViewInOrder, Views
<1> QED
    BY <1>2, <1>5, <1>6, ContentIsView

\* Streams, frames, messages and what is shown have the shapes that the connector,
\* the server and the browser rely on.
THEOREM StreamTypes == StreamSpec => []StreamTypeOK
<1>1. StreamInv => StreamTypeOK
    BY DEF StreamInv
<1> QED
    BY <1>1, InitInv, NextKeepsInv, PTL DEF StreamSpec

\* What the connector computes its corrections against is what the viewer will have
\* once the frames on their way have arrived: connector, server and browser agree on
\* the conversation without ever exchanging it as a whole again
\* (conversationPatchFrames, applyConversationFrames, timelineReducer).
THEOREM KnowsView == StreamSpec => []ConnectorKnowsView
BY InitInv, NextKeepsInv, InvKnowsView, PTL DEF StreamSpec
-----------------------------------------------------------------------------
(* Routes.  Only a socket that is attached gets one, and it loses it when it goes. *)

LEMMA RouteKept ==
    ASSUME GoneUsersHaveNoRoute, UNCHANGED <<route, attached>>
    PROVE  GoneUsersHaveNoRoute'
BY DEF GoneUsersHaveNoRoute

\* The socket of a user who has gone gets no route back: not by the authorization that
\* it waited for, not by an image, not by a connection that is made anew
\* (session-relay.ts).
THEOREM GoneUsersAreGone == StreamSpec => []GoneUsersHaveNoRoute
<1>1. StreamInit => GoneUsersHaveNoRoute
    BY DEF StreamInit, GoneUsersHaveNoRoute
<1>2. GoneUsersHaveNoRoute /\ [StreamNext]_streamVars => GoneUsersHaveNoRoute'
    <2> SUFFICES ASSUME GoneUsersHaveNoRoute, [StreamNext]_streamVars PROVE GoneUsersHaveNoRoute'
        OBVIOUS
    <2>1. CASE UNCHANGED streamVars
        BY <2>1, RouteKept DEF streamVars, serverVars
    <2>2. CASE Agent
        BY <2>2, RouteKept DEF Agent, TurnStarts, ItemStarts, MessageGrows, TurnCompletes, Changes, serverVars
    <2>3. CASE Connector
        BY <2>3, RouteKept DEF Connector, ReceiveControl, Notify, Sync, ThreadRead, SyncDone, ReadFails, serverVars
    <2>4. CASE HandleUnsubscribe \/ HandleSubscribe
        BY <2>4 DEF HandleUnsubscribe, HandleSubscribe, GoneUsersHaveNoRoute
    <2>5. CASE Authorized
        BY <2>5 DEF Authorized, NewRoute, GoneUsersHaveNoRoute
    <2>6. CASE HandleUp \/ HandleStale
        BY <2>6, RouteKept DEF HandleUp, HandleStale, HandleFrame, serverVars
    <2>7. CASE ImageChecked
        BY <2>7 DEF ImageChecked, GoneUsersHaveNoRoute
    <2>8. CASE Detach \/ Activate
        BY <2>8, RouteKept DEF Detach, Activate, serverVars
    <2>9. CASE RemoveUser
        BY <2>9 DEF RemoveUser, GoneUsersHaveNoRoute
    <2>10. CASE Open \/ Leave \/ Receive
        BY <2>10, RouteKept DEF Open, Leave, Receive, serverVars
    <2>11. CASE UserReturns
        BY <2>11 DEF UserReturns, GoneUsersHaveNoRoute
    <2>12. CASE (\E received \in 0..Len(up) : LinkBreaks(received)) \/ UserBreaks \/ Revoke
        BY <2>12, RouteKept DEF LinkBreaks, UserBreaks, Revoke, serverVars
    <2> QED
        BY <2>1, <2>2, <2>3, <2>4, <2>5, <2>6, <2>7, <2>8, <2>9, <2>10, <2>11, <2>12
        DEF StreamNext, Server, Viewer
<1> QED
    BY <1>1, <1>2, PTL DEF StreamSpec

-----------------------------------------------------------------------------
(* Frames of items replayed one after another. *)

Replays(g, v, q) ==
    g = [i \in 0..Len(q) |-> IF i = 0 THEN v ELSE ApplyFrame(g[i - 1], q[i])]

LEMMA ReplayHasSteps ==
    ASSUME NEW v, NEW q, Len(q) \in Nat
    PROVE  \E g : Replays(g, v, q)
<1> DEFINE Upto(n) == \E g : g = [i \in 0..n |-> IF i = 0 THEN v ELSE ApplyFrame(g[i - 1], q[i])]
           T == {n \in 0..Len(q) : ~Upto(n)}
<1>1. Upto(0)
    <2> DEFINE g == [i \in 0..0 |-> v]
    <2>1. g = [i \in 0..0 |-> IF i = 0 THEN v ELSE ApplyFrame(g[i - 1], q[i])]
        OBVIOUS
    <2> QED
        BY <2>1
<1>2. ASSUME NEW n \in Nat, Upto(n) PROVE Upto(n + 1)
    <2>1. PICK g : g = [i \in 0..n |-> IF i = 0 THEN v ELSE ApplyFrame(g[i - 1], q[i])]
        BY <1>2
    <2> DEFINE h == [i \in 0..(n + 1) |-> IF i = n + 1 THEN ApplyFrame(g[n], q[n + 1]) ELSE g[i]]
    <2>2. \A i \in 0..(n + 1) : h[i] = IF i = 0 THEN v ELSE ApplyFrame(h[i - 1], q[i])
        <3> TAKE i \in 0..(n + 1)
        <3>1. CASE i = 0
            BY <2>1, <3>1
        <3>2. CASE i \in 1..n
            <4>1. h[i] = g[i] /\ h[i - 1] = g[i - 1] /\ i \in 0..n
                BY <3>2
            <4>2. g[i] = ApplyFrame(g[i - 1], q[i])
                BY <2>1, <3>2, <4>1
            <4> QED
                BY <3>2, <4>1, <4>2
        <3>3. CASE i = n + 1
            BY <3>3
        <3> QED
            BY <3>1, <3>2, <3>3
    <2>3. h = [i \in 0..(n + 1) |-> IF i = 0 THEN v ELSE ApplyFrame(h[i - 1], q[i])]
        BY <2>2
    <2> QED
        BY <2>3
<1> HIDE DEF Upto
<1>3. T = {}
    <2> SUFFICES ASSUME T # {} PROVE FALSE
        OBVIOUS
    <2>0. T \subseteq Nat
        OBVIOUS
    <2>1. PICK n \in T : \A m \in T : n <= m
        <3> HIDE DEF T
        <3> QED
            BY <2>0, LeastNumber
    <2>2. n # 0
        BY <1>1
    <2>3. n - 1 \in 0..Len(q) /\ n - 1 \notin T
        BY <2>1, <2>2
    <2>4. Upto(n - 1)
        BY <2>3
    <2>5. Upto((n - 1) + 1)
        BY <1>2, <2>3, <2>4
    <2> QED
        BY <2>3, <2>5
<1>4. Upto(Len(q))
    BY <1>3
<1> QED
    BY <1>4 DEF Upto, Replays

LEMMA ReplayHasOneOutcome ==
    ASSUME NEW v, NEW q, Len(q) \in Nat, NEW g, NEW h, Replays(g, v, q), Replays(h, v, q)
    PROVE  g = h
<1> DEFINE T == {i \in 0..Len(q) : g[i] # h[i]}
<1>1. \A i \in 0..Len(q) : /\ g[i] = IF i = 0 THEN v ELSE ApplyFrame(g[i - 1], q[i])
                           /\ h[i] = IF i = 0 THEN v ELSE ApplyFrame(h[i - 1], q[i])
    BY DEF Replays
<1>2. T = {}
    <2> SUFFICES ASSUME T # {} PROVE FALSE
        OBVIOUS
    <2>0. T \subseteq Nat
        OBVIOUS
    <2>1. PICK i \in T : \A m \in T : i <= m
        <3> HIDE DEF T
        <3> QED
            BY <2>0, LeastNumber
    <2>2. i # 0
        BY <1>1
    <2>3. i - 1 \in 0..Len(q) /\ i - 1 \notin T
        BY <2>1, <2>2
    <2>4. g[i - 1] = h[i - 1]
        BY <2>3
    <2> QED
        BY <1>1, <2>2, <2>4
<1>3. \A i \in 0..Len(q) : g[i] = h[i]
    BY <1>2
<1> QED
    BY <1>3 DEF Replays

LEMMA ReplayIsLast ==
    ASSUME NEW v, NEW q, Len(q) \in Nat, NEW g, Replays(g, v, q)
    PROVE  Replay(v, q) = g[Len(q)]
<1> DEFINE c == CHOOSE at : at = [i \in 0..Len(q) |-> IF i = 0 THEN v ELSE ApplyFrame(at[i - 1], q[i])]
<1>1. Replays(c, v, q)
    BY DEF Replays
<1>2. c = g
    <2> HIDE DEF c
    <2> QED
        BY <1>1, ReplayHasOneOutcome
<1>3. Replay(v, q) = c[Len(q)]
    BY DEF Replay
<1> QED
    BY <1>2, <1>3

LEMMA ReplayInTwoParts ==
    ASSUME NEW S, NEW v, NEW q \in Seq(S), NEW r \in Seq(S)
    PROVE  Replay(v, q \o r) = Replay(Replay(v, q), r)
<1> DEFINE n == Len(q)
<1>1. /\ n \in Nat /\ Len(r) \in Nat /\ Len(q \o r) = n + Len(r)
      /\ \A i \in 1..n : (q \o r)[i] = q[i]
      /\ \A i \in 1..Len(r) : (q \o r)[i + n] = r[i]
    OBVIOUS
<1> HIDE DEF n
<1>0. Len(q \o r) \in Nat
    BY <1>1
<1>2. PICK h : Replays(h, v, q \o r)
    BY <1>0, ReplayHasSteps
<1>3. \A i \in 0..(n + Len(r)) : h[i] = IF i = 0 THEN v ELSE ApplyFrame(h[i - 1], (q \o r)[i])
    BY <1>1, <1>2 DEF Replays
<1>4. Replay(v, q) = h[n]
    <2> DEFINE g == [i \in 0..n |-> h[i]]
    <2>1. \A i \in 0..n : g[i] = IF i = 0 THEN v ELSE ApplyFrame(g[i - 1], q[i])
        <3> TAKE i \in 0..n
        <3>1. CASE i = 0
            BY <1>1, <1>3, <3>1
        <3>2. CASE i # 0
            <4>1. i \in 1..n /\ i \in 0..(n + Len(r)) /\ i - 1 \in 0..n
                BY <1>1, <3>2
            <4>2. h[i] = ApplyFrame(h[i - 1], q[i])
                BY <1>1, <1>3, <3>2, <4>1
            <4> QED
                BY <3>2, <4>1, <4>2
        <3> QED
            BY <3>1, <3>2
    <2>2. Replays(g, v, q)
        BY <2>1 DEF Replays, n
    <2>3. g[n] = h[n]
        BY <1>1
    <2> HIDE DEF g
    <2> QED
        BY <1>1, <2>2, <2>3, ReplayIsLast DEF n
<1>5. Replay(h[n], r) = h[n + Len(r)]
    <2> DEFINE g == [i \in 0..Len(r) |-> h[i + n]]
    <2>1. \A i \in 0..Len(r) : g[i] = IF i = 0 THEN h[n] ELSE ApplyFrame(g[i - 1], r[i])
        <3> TAKE i \in 0..Len(r)
        <3>1. CASE i = 0
            BY <1>1, <3>1
        <3>2. CASE i # 0
            <4>1. /\ i \in 1..Len(r) /\ i + n \in 0..(n + Len(r)) /\ i + n # 0
                  /\ i - 1 \in 0..Len(r) /\ (i + n) - 1 = (i - 1) + n
                BY <1>1, <3>2
            <4>2. h[i + n] = ApplyFrame(h[(i - 1) + n], r[i])
                BY <1>1, <1>3, <4>1
            <4> QED
                BY <3>2, <4>1, <4>2
        <3> QED
            BY <3>1, <3>2
    <2>2. Replays(g, h[n], r)
        BY <2>1 DEF Replays
    <2>3. g[Len(r)] = h[n + Len(r)]
        BY <1>1
    <2> HIDE DEF g
    <2> QED
        BY <1>1, <2>2, <2>3, ReplayIsLast
<1>6. Replay(v, q \o r) = h[n + Len(r)]
    <2>1. Replay(v, q \o r) = h[Len(q \o r)]
        BY <1>0, <1>2, ReplayIsLast
    <2> QED
        BY <1>1, <2>1
<1> QED
    BY <1>4, <1>5, <1>6

LEMMA NothingReplayed ==
    ASSUME NEW v
    PROVE  Replay(v, <<>>) = v
<1>1. Len(<<>>) \in Nat /\ Len(<<>>) = 0
    OBVIOUS
<1>2. PICK g : Replays(g, v, <<>>)
    BY <1>1, ReplayHasSteps
<1>3. Replay(v, <<>>) = g[0]
    BY <1>1, <1>2, ReplayIsLast
<1>4. g[0] = v
    BY <1>1, <1>2 DEF Replays
<1> QED
    BY <1>3, <1>4

LEMMA OneReplayed ==
    ASSUME NEW v, NEW f
    PROVE  Replay(v, <<f>>) = ApplyFrame(v, f)
<1>1. Len(<<f>>) \in Nat /\ Len(<<f>>) = 1 /\ <<f>>[1] = f
    OBVIOUS
<1>2. PICK g : Replays(g, v, <<f>>)
    BY <1>1, ReplayHasSteps
<1>3. Replay(v, <<f>>) = g[1]
    BY <1>1, <1>2, ReplayIsLast
<1>4. \A i \in 0..1 : g[i] = IF i = 0 THEN v ELSE ApplyFrame(g[i - 1], <<f>>[i])
    BY <1>1, <1>2 DEF Replays
<1>5. g[0] = v /\ g[1] = ApplyFrame(g[0], f)
    BY <1>1, <1>4
<1> QED
    BY <1>3, <1>5
-----------------------------------------------------------------------------
(* An entry that is new is put at the end, and its frames change it there. *)

LEMMA ReplayAlong ==
    ASSUME NEW q, Len(q) \in Nat, NEW g,
           \A i \in 1..Len(q) : g[i] = ApplyFrame(g[i - 1], q[i])
    PROVE  Replay(g[0], q) = g[Len(q)]
<1> DEFINE h == [i \in 0..Len(q) |-> g[i]]
<1>1. \A i \in 0..Len(q) : h[i] = IF i = 0 THEN g[0] ELSE ApplyFrame(h[i - 1], q[i])
    <2> TAKE i \in 0..Len(q)
    <2>1. CASE i = 0
        BY <2>1
    <2>2. CASE i # 0
        <3>1. i \in 1..Len(q) /\ i - 1 \in 0..Len(q)
            BY <2>2
        <3>2. h[i] = g[i] /\ h[i - 1] = g[i - 1]
            BY <3>1
        <3> QED
            BY <2>2, <3>1, <3>2
    <2> QED
        BY <2>1, <2>2
<1>2. Replays(h, g[0], q)
    BY <1>1 DEF Replays
<1>3. h[Len(q)] = g[Len(q)]
    OBVIOUS
<1> HIDE DEF h
<1> QED
    BY <1>2, <1>3, ReplayIsLast

LEMMA AtTheEnd ==
    ASSUME NEW S, NEW entries \in Seq(S), NEW x \in S, Places(entries, x.kind, x.id) = {}
    PROVE  /\ Places(Append(entries, x), x.kind, x.id) = {Len(entries) + 1}
           /\ (CHOOSE i \in {Len(entries) + 1} : TRUE) = Len(entries) + 1
           /\ Append(entries, x)[Len(entries) + 1] = x
           /\ \A y \in S : [Append(entries, x) EXCEPT ![Len(entries) + 1] = y] = Append(entries, y)
<1> DEFINE n == Len(entries)
           r == Append(entries, x)
<1>1. /\ n \in Nat /\ DOMAIN entries = 1..n /\ r \in Seq(S) /\ Len(r) = n + 1
      /\ DOMAIN r = 1..(n + 1) /\ (\A i \in 1..n : r[i] = entries[i]) /\ r[n + 1] = x
    BY AppendProperties, LenProperties
<1> HIDE DEF n, r
<1>2. Places(r, x.kind, x.id) = {n + 1}
    <2>1. n + 1 \in Places(r, x.kind, x.id)
        BY <1>1 DEF Places
    <2>2. ASSUME NEW i \in Places(r, x.kind, x.id), i # n + 1 PROVE FALSE
        <3>1. i \in 1..n /\ r[i].kind = x.kind /\ r[i].id = x.id
            BY <1>1, <2>2 DEF Places
        <3>2. i \in Places(entries, x.kind, x.id)
            BY <1>1, <3>1 DEF Places
        <3> QED
            BY <3>2
    <2> QED
        BY <2>1, <2>2
<1>3. ASSUME NEW y \in S PROVE [r EXCEPT ![n + 1] = y] = Append(entries, y)
    <2> DEFINE a == [r EXCEPT ![n + 1] = y]
               b == Append(entries, y)
    <2>1. /\ b \in Seq(S) /\ Len(b) = n + 1 /\ (\A i \in 1..n : b[i] = entries[i]) /\ b[n + 1] = y
        BY <1>1, AppendProperties DEF n
    <2>2. n + 1 \in 1..Len(r)
        BY <1>1
    <2>3. /\ a \in Seq(S) /\ Len(a) = Len(r)
          /\ \A j \in 1..Len(r) : a[j] = IF j = n + 1 THEN y ELSE r[j]
        BY <1>1, <2>2, ExceptSeq
    <2> HIDE DEF a, b
    <2>4. \A j \in 1..Len(a) : a[j] = b[j]
        BY <1>1, <2>1, <2>3
    <2> QED
        BY <1>1, <2>1, <2>3, <2>4, SeqEqual DEF a, b
<1> QED
    BY <1>1, <1>2, <1>3 DEF n, r

MessageOps == {"message.start", "message.reset", "message.delta", "message.complete"}

LEMMA LastMessageChanges ==
    ASSUME NEW S, NEW entries \in Seq(S), NEW x \in S, x.kind = "message",
           Places(entries, "message", x.id) = {}, NEW f, f.op \in MessageOps, f.id = x.id,
           MessageFrame(x, f) \in S
    PROVE  ApplyFrame(Append(entries, x), f) = Append(entries, MessageFrame(x, f))
<1> DEFINE r == Append(entries, x)
           n == Len(entries) + 1
<1>1. /\ Places(r, "message", f.id) = {n} /\ (CHOOSE i \in Places(r, "message", f.id) : TRUE) = n
      /\ r[n] = x /\ [r EXCEPT ![n] = MessageFrame(x, f)] = Append(entries, MessageFrame(x, f))
    <2>1. Places(entries, x.kind, x.id) = {}
        OBVIOUS
    <2>2. Places(r, x.kind, x.id) = {n} /\ (CHOOSE i \in {n} : TRUE) = n /\ r[n] = x
        BY <2>1, AtTheEnd
    <2>3. \A y \in S : [r EXCEPT ![n] = y] = Append(entries, y)
        BY <2>1, AtTheEnd
    <2> HIDE DEF r, n
    <2> QED
        BY <2>2, <2>3
<1> HIDE DEF r, n
<1>2. ApplyFrame(r, f) = [r EXCEPT ![n] = MessageFrame(r[n], f)]
    BY <1>1 DEF ApplyFrame, MessageOps
<1> QED
    BY <1>1, <1>2 DEF r

LEMMA LastImageChanges ==
    ASSUME NEW S, NEW entries \in Seq(S), NEW x \in S, x.kind = "image",
           Places(entries, "image", x.id) = {}, NEW f, f.op \in {"image.chunk", "image.complete"}, f.id = x.id,
           ImageFrame(x, f) \in S
    PROVE  ApplyFrame(Append(entries, x), f) = Append(entries, ImageFrame(x, f))
<1> DEFINE r == Append(entries, x)
           n == Len(entries) + 1
<1>1. /\ Places(r, "image", f.id) = {n} /\ (CHOOSE i \in Places(r, "image", f.id) : TRUE) = n
      /\ r[n] = x /\ [r EXCEPT ![n] = ImageFrame(x, f)] = Append(entries, ImageFrame(x, f))
    <2>1. Places(entries, x.kind, x.id) = {}
        OBVIOUS
    <2>2. Places(r, x.kind, x.id) = {n} /\ (CHOOSE i \in {n} : TRUE) = n /\ r[n] = x
        BY <2>1, AtTheEnd
    <2>3. \A y \in S : [r EXCEPT ![n] = y] = Append(entries, y)
        BY <2>1, AtTheEnd
    <2> HIDE DEF r, n
    <2> QED
        BY <2>2, <2>3
<1> HIDE DEF r, n
<1>2. ApplyFrame(r, f) = [r EXCEPT ![n] = ImageFrame(r[n], f)]
    BY <1>1 DEF ApplyFrame
<1> QED
    BY <1>1, <1>2 DEF r

LEMMA PositionsAreSeq ==
    ASSUME NEW n \in Nat, NEW q, q = [i \in 1..n |-> q[i]]
    PROVE  q \in Seq(ToSet(q)) /\ Len(q) = n /\ DOMAIN q = 1..n
<1>1. DOMAIN q = 1..n
    OBVIOUS
<1>2. \A i \in 1..n : q[i] \in ToSet(q)
    BY <1>1 DEF ToSet
<1>3. q \in [1..n -> ToSet(q)]
    BY <1>2
<1>4. q \in Seq(ToSet(q))
    BY <1>3, SeqDef, Zenon
<1>5. Len(q) \in Nat /\ DOMAIN q = 1..Len(q)
    BY <1>4, LenProperties
<1>6. Len(q) = n
    BY <1>1, <1>5
<1> QED
    BY <1>1, <1>4, <1>6

LEMMA SeqOfItsElements ==
    ASSUME NEW S, NEW q \in Seq(S)
    PROVE  q \in Seq(ToSet(q))
<1>1. Len(q) \in Nat /\ q \in [1..Len(q) -> S]
    BY LenProperties
<1>2. q = [i \in 1..Len(q) |-> q[i]]
    BY <1>1
<1> QED
    BY <1>1, <1>2, PositionsAreSeq

LEMMA ReplayInParts ==
    ASSUME NEW v, NEW q, NEW r, q \in Seq(ToSet(q)), r \in Seq(ToSet(r))
    PROVE  /\ q \o r \in Seq(ToSet(q \o r))
           /\ Replay(v, q \o r) = Replay(Replay(v, q), r)
<1> DEFINE S == ToSet(q) \cup ToSet(r)
<1>1. ToSet(q) \subseteq S /\ ToSet(r) \subseteq S
    OBVIOUS
<1> HIDE DEF S
<1>2. q \in Seq(S) /\ r \in Seq(S)
    BY <1>1, SeqMonotonic
<1>3. q \o r \in Seq(S)
    BY <1>2, ConcatProperties
<1>4. q \o r \in Seq(ToSet(q \o r))
    BY <1>3, SeqOfItsElements
<1>5. Replay(v, q \o r) = Replay(Replay(v, q), r)
    BY <1>2, ReplayInTwoParts
<1> QED
    BY <1>4, <1>5

\* Messages, with anything for their ids, their turns, roles and phases.
MessageEntry(V) ==
    [kind : {"message"}, id : V, turn : V, role : V, phase : V, text : Seq(Point), complete : BOOLEAN]

LEMMA MessageIsAppended ==
    ASSUME NEW V, NEW e \in MessageEntry(V), NEW S, MessageEntry(V) \subseteq S, NEW entries \in Seq(S),
           Places(entries, "message", e.id) = {}, NEW c \in Nat, ChunkText(e.text) \in [1..c -> Seq(Point)],
           FlattenSeq(ChunkText(e.text)) = e.text
    PROVE  /\ MessageFrames(e) \in Seq(ToSet(MessageFrames(e)))
           /\ Replay(entries, MessageFrames(e)) = Append(entries, e)
<1> DEFINE M(t, b) == [e EXCEPT !.text = t, !.complete = b]
           start == <<StartFrame(e), OnMessage("message.reset", e.id)>>
           deltas == TextFrames(e.id, e.text)
           end == IF e.complete THEN <<OnMessage("message.complete", e.id)>> ELSE <<>>
<1>1. ASSUME NEW t \in Seq(Point), NEW b \in BOOLEAN
      PROVE  /\ M(t, b) \in MessageEntry(V) /\ M(t, b) \in S /\ M(t, b).kind = "message" /\ M(t, b).id = e.id
             /\ M(t, b).text = t /\ M(t, b).complete = b
             /\ \A u \in Seq(Point), d \in BOOLEAN : [M(t, b) EXCEPT !.text = u, !.complete = d] = M(u, d)
             /\ \A d \in BOOLEAN : [M(t, b) EXCEPT !.complete = d] = M(t, d)
    <2>1. M(t, b) \in MessageEntry(V) /\ M(t, b).kind = "message" /\ M(t, b).id = e.id
        BY DEF MessageEntry
    <2>2. M(t, b).text = t /\ M(t, b).complete = b
        BY DEF MessageEntry
    <2>3. ASSUME NEW u \in Seq(Point), NEW d \in BOOLEAN
          PROVE  [M(t, b) EXCEPT !.text = u, !.complete = d] = M(u, d)
        BY DEF MessageEntry
    <2>4. ASSUME NEW d \in BOOLEAN PROVE [M(t, b) EXCEPT !.complete = d] = M(t, d)
        BY DEF MessageEntry
    <2> QED
        BY <2>1, <2>2, <2>3, <2>4
<1>2. <<>> \in Seq(Point) /\ e.text \in Seq(Point) /\ e.complete \in BOOLEAN /\ M(e.text, e.complete) = e
    <2>1. <<>> \in Seq(Point) /\ e.text \in Seq(Point) /\ e.complete \in BOOLEAN
        BY DEF MessageEntry
    <2>2. M(e.text, e.complete) = e
        BY DEF MessageEntry
    <2> QED
        BY <2>1, <2>2
<1>3. Replay(entries, start) = Append(entries, M(<<>>, FALSE))
    <2> DEFINE f == StartFrame(e)
               h == OnMessage("message.reset", e.id)
               m == M(<<>>, FALSE)
    <2>1. ApplyFrame(entries, f) = Append(entries, m)
        <3>1. f.op = "message.start" /\ f.id = e.id /\ Places(entries, "message", f.id) = {}
            BY DEF StartFrame
        <3>2. ApplyFrame(entries, f) = Append(entries, NewMessage(f))
            BY <3>1 DEF ApplyFrame
        <3>3. NewMessage(f) = m
            <4>1. NewMessage(f) =
                    [kind |-> "message", id |-> e.id, turn |-> e.turn, role |-> e.role, phase |-> e.phase,
                     text |-> <<>>, complete |-> FALSE]
                BY DEF NewMessage, StartFrame
            <4>2. m.kind = "message" /\ m.id = e.id /\ m.turn = e.turn /\ m.role = e.role
                  /\ m.phase = e.phase /\ m.text = <<>> /\ m.complete = FALSE /\ m \in MessageEntry(V)
                BY <1>1, <1>2 DEF MessageEntry
            <4>3. m = [kind |-> "message", id |-> e.id, turn |-> e.turn, role |-> e.role, phase |-> e.phase,
                       text |-> <<>>, complete |-> FALSE]
                <5> HIDE DEF m
                <5> QED
                    BY <4>2 DEF MessageEntry
            <4> QED
                BY <4>1, <4>3
        <3> QED
            BY <3>2, <3>3
    <2>2. ApplyFrame(Append(entries, m), h) = Append(entries, m)
        <3>1. h.op = "message.reset" /\ h.id = e.id
            BY DEF OnMessage
        <3>2. MessageFrame(m, h) = [m EXCEPT !.text = <<>>, !.complete = FALSE]
            BY <3>1 DEF MessageFrame
        <3>3. m \in S /\ m.kind = "message" /\ m.id = e.id
              /\ [m EXCEPT !.text = <<>>, !.complete = FALSE] = m
            BY <1>1, <1>2
        <3> HIDE DEF m, h
        <3> QED
            BY <3>1, <3>2, <3>3, LastMessageChanges DEF MessageOps
    <2> HIDE DEF f, h, m
    <2>3. Len(<<f, h>>) = 2 /\ Len(<<f, h>>) \in Nat /\ <<f, h>>[1] = f /\ <<f, h>>[2] = h
        OBVIOUS
    <2> DEFINE g == [i \in 0..2 |-> IF i = 0 THEN entries ELSE Append(entries, m)]
    <2>4. \A i \in 1..2 : g[i] = ApplyFrame(g[i - 1], <<f, h>>[i])
        <3>1. g[0] = entries /\ g[1] = Append(entries, m) /\ g[2] = Append(entries, m)
            OBVIOUS
        <3> HIDE DEF g
        <3>2. g[1] = ApplyFrame(g[0], <<f, h>>[1])
            BY <2>1, <2>3, <3>1
        <3>3. g[2] = ApplyFrame(g[1], <<f, h>>[2])
            BY <2>2, <2>3, <3>1
        <3>4. \A i \in 1..2 : (i = 1 /\ i - 1 = 0) \/ (i = 2 /\ i - 1 = 1)
            OBVIOUS
        <3> QED
            BY <3>2, <3>3, <3>4
    <2>5. Replay(g[0], <<f, h>>) = g[2]
        <3> HIDE DEF g
        <3> QED
            BY <2>3, <2>4, ReplayAlong
    <2>6. g[0] = entries /\ g[2] = Append(entries, m)
        OBVIOUS
    <2> HIDE DEF g
    <2> QED
        BY <2>5, <2>6 DEF f, h, m
<1>4. /\ deltas \in Seq(ToSet(deltas)) /\ Len(deltas) = c
      /\ Replay(Append(entries, M(<<>>, FALSE)), deltas) = Append(entries, M(e.text, FALSE))
    <2> DEFINE q == ChunkText(e.text)
    <2>1. PICK J : /\ J \in [0..c -> Seq(Point)] /\ J[0] = <<>>
                   /\ \A i \in 1..c : J[i] = J[i - 1] \o q[i]
                   /\ FlattenSeq(q) = J[c]
        BY Flattening
    <2>2. /\ DOMAIN q = 1..c
          /\ deltas = [i \in 1..c |-> [op |-> "message.delta", id |-> e.id, delta |-> q[i]]]
        BY DEF TextFrames
    <2> HIDE DEF q, deltas
    <2>3. deltas \in Seq(ToSet(deltas)) /\ Len(deltas) = c
        BY <2>2, PositionsAreSeq
    <2> DEFINE g == [i \in 0..c |-> Append(entries, M(J[i], FALSE))]
    <2>4. ASSUME NEW i \in 1..c PROVE g[i] = ApplyFrame(g[i - 1], deltas[i])
        <3> DEFINE x == M(J[i - 1], FALSE)
                   f == deltas[i]
        <3>1. i \in 0..c /\ i - 1 \in 0..c /\ J[i] \in Seq(Point) /\ J[i - 1] \in Seq(Point)
            BY <2>1
        <3>2. g[i] = Append(entries, M(J[i], FALSE)) /\ g[i - 1] = Append(entries, x)
            BY <3>1
        <3>3. x \in S /\ x.kind = "message" /\ x.id = e.id /\ x.text = J[i - 1]
            BY <1>1, <3>1
        <3>4. f.op = "message.delta" /\ f.id = e.id /\ f.delta = q[i]
            BY <2>2
        <3>5. MessageFrame(x, f) = M(J[i], FALSE)
            <4>1. MessageFrame(x, f) = [x EXCEPT !.text = x.text \o f.delta, !.complete = FALSE]
                BY <3>4 DEF MessageFrame
            <4>2. x.text \o f.delta = J[i]
                BY <2>1, <3>3, <3>4
            <4> QED
                BY <1>1, <3>1, <4>1, <4>2
        <3>6. M(J[i], FALSE) \in S
            BY <1>1, <3>1
        <3> HIDE DEF x, f, M, g
        <3>7. ApplyFrame(Append(entries, x), f) = Append(entries, M(J[i], FALSE))
            <4>1. f.op \in MessageOps /\ f.id = x.id /\ Places(entries, "message", x.id) = {}
                  /\ MessageFrame(x, f) \in S
                BY <3>3, <3>4, <3>5, <3>6 DEF MessageOps
            <4>2. ApplyFrame(Append(entries, x), f) = Append(entries, MessageFrame(x, f))
                BY <3>3, <4>1, LastMessageChanges
            <4> QED
                BY <3>5, <4>2
        <3> QED
            BY <3>2, <3>7 DEF f
    <2>5. g[0] = Append(entries, M(<<>>, FALSE)) /\ g[c] = Append(entries, M(e.text, FALSE))
        <3>1. 0 \in 0..c /\ c \in 0..c /\ J[c] = e.text
            BY <2>1 DEF q
        <3> QED
            BY <2>1, <3>1
    <2> HIDE DEF g
    <2>6. Replay(g[0], deltas) = g[c]
        BY <2>3, <2>4, ReplayAlong
    <2> QED
        BY <2>3, <2>5, <2>6
<1>5. Replay(Append(entries, M(e.text, FALSE)), end) = Append(entries, e)
    <2>1. CASE e.complete
        <3> DEFINE x == M(e.text, FALSE)
                   f == OnMessage("message.complete", e.id)
        <3>1. f.op = "message.complete" /\ f.id = e.id
            BY DEF OnMessage
        <3>2. x \in S /\ x.kind = "message" /\ x.id = e.id
            BY <1>1, <1>2
        <3>3. MessageFrame(x, f) = M(e.text, TRUE)
            BY <1>1, <1>2, <3>1 DEF MessageFrame
        <3>4. M(e.text, TRUE) = e /\ e \in S
            BY <1>2, <2>1
        <3> HIDE DEF x, f, M
        <3>5. ApplyFrame(Append(entries, x), f) = Append(entries, e)
            <4>1. f.op \in MessageOps /\ f.id = x.id /\ Places(entries, "message", x.id) = {}
                  /\ MessageFrame(x, f) \in S
                BY <3>1, <3>2, <3>3, <3>4 DEF MessageOps
            <4>2. ApplyFrame(Append(entries, x), f) = Append(entries, MessageFrame(x, f))
                BY <3>2, <4>1, LastMessageChanges
            <4> QED
                BY <3>3, <3>4, <4>2
        <3>6. end = <<f>>
            BY <2>1 DEF f
        <3> QED
            BY <3>5, <3>6, OneReplayed DEF x
    <2>2. CASE ~e.complete
        <3>1. end = <<>> /\ M(e.text, FALSE) = e
            BY <1>2, <2>2
        <3> QED
            BY <3>1, NothingReplayed
    <2> QED
        BY <2>1, <2>2
<1>6. MessageFrames(e) = (start \o deltas) \o end
    BY DEF MessageFrames
<1>7. start \in Seq(ToSet(start)) /\ end \in Seq(ToSet(end))
    <2>1. start \in Seq({StartFrame(e), OnMessage("message.reset", e.id)})
        OBVIOUS
    <2>2. end \in Seq({OnMessage("message.complete", e.id)})
        <3>1. CASE e.complete
            BY <3>1
        <3>2. CASE ~e.complete
            BY <3>2
        <3> QED
            BY <3>1, <3>2
    <2> HIDE DEF start, end
    <2> QED
        BY <2>1, <2>2, SeqOfItsElements
<1> HIDE DEF M, start, deltas, end
<1>8. /\ start \o deltas \in Seq(ToSet(start \o deltas))
      /\ Replay(entries, start \o deltas) = Append(entries, M(e.text, FALSE))
    <2>1. start \in Seq(ToSet(start)) /\ deltas \in Seq(ToSet(deltas))
        BY <1>4, <1>7
    <2>2. start \o deltas \in Seq(ToSet(start \o deltas))
        BY <2>1, ReplayInParts
    <2>3. Replay(entries, start \o deltas) = Replay(Replay(entries, start), deltas)
        BY <2>1, ReplayInParts
    <2> QED
        BY <1>3, <1>4, <2>2, <2>3
<1> DEFINE q == start \o deltas
<1>9. q \in Seq(ToSet(q)) /\ Replay(entries, q) = Append(entries, M(e.text, FALSE)) /\ MessageFrames(e) = q \o end
    BY <1>6, <1>8
<1> HIDE DEF q
<1> QED
    <2>1. q \in Seq(ToSet(q)) /\ end \in Seq(ToSet(end))
        BY <1>7, <1>9
    <2>2. q \o end \in Seq(ToSet(q \o end))
        BY <2>1, ReplayInParts
    <2>3. Replay(entries, q \o end) = Replay(Replay(entries, q), end)
        BY <2>1, ReplayInParts
    <2> QED
        BY <1>5, <1>9, <2>2, <2>3
-----------------------------------------------------------------------------
(* Text is cut into chunks. *)

IsStep(F, n, X) == F \in [X -> [1..n -> X]]

StepsFrom(g, v, F, n, X) ==
    /\ g \in [0..n -> X] /\ g[0] = v
    /\ \A i \in 1..n : g[i] = F[g[i - 1]][i]

\* A function that gives each value from the one before exists.
LEMMA Stepping ==
    ASSUME NEW n \in Nat, NEW X, NEW v \in X, NEW F, IsStep(F, n, X)
    PROVE  \E g : StepsFrom(g, v, F, n, X)
<1> DEFINE Upto(k) == \E g \in [0..k -> X] : g[0] = v /\ \A i \in 1..k : g[i] = F[g[i - 1]][i]
           T == {k \in 0..n : ~Upto(k)}
<1>0. \A x \in X, i \in 1..n : F[x][i] \in X
    BY DEF IsStep
<1>1. Upto(0)
    <2> DEFINE g == [i \in 0..0 |-> v]
    <2>1. g \in [0..0 -> X] /\ g[0] = v /\ \A i \in 1..0 : g[i] = F[g[i - 1]][i]
        OBVIOUS
    <2> QED
        BY <2>1
<1>2. ASSUME NEW k \in 0..(n - 1), Upto(k) PROVE Upto(k + 1)
    <2>1. PICK g \in [0..k -> X] : g[0] = v /\ \A i \in 1..k : g[i] = F[g[i - 1]][i]
        BY <1>2
    <2> DEFINE h == [i \in 0..(k + 1) |-> IF i = k + 1 THEN F[g[k]][k + 1] ELSE g[i]]
    <2>2. k \in Nat /\ k \in 0..k /\ k + 1 \in 1..n /\ k + 1 # 0 /\ (k + 1) - 1 = k
        OBVIOUS
    <2>3. g[k] \in X /\ F[g[k]][k + 1] \in X
        <3>1. g[k] \in X
            BY <2>1, <2>2
        <3> QED
            BY <1>0, <2>2, <3>1
    <2>4. /\ \A i \in 0..k : h[i] = g[i]
          /\ h[k + 1] = F[g[k]][k + 1]
        BY <2>2
    <2>5. h \in [0..(k + 1) -> X]
        BY <2>1, <2>3
    <2> HIDE DEF h
    <2>6. ASSUME NEW i \in 1..(k + 1) PROVE h[i] = F[h[i - 1]][i]
        <3>1. CASE i = k + 1
            <4>1. i - 1 = k /\ h[k] = g[k] /\ h[i] = F[g[k]][i]
                BY <2>2, <2>4, <3>1
            <4> QED
                BY <4>1
        <3>2. CASE i # k + 1
            <4>1. i \in 1..k /\ i \in 0..k /\ i - 1 \in 0..k
                BY <2>2, <3>2
            <4>2. h[i] = g[i] /\ h[i - 1] = g[i - 1] /\ g[i] = F[g[i - 1]][i]
                BY <2>1, <2>4, <4>1
            <4> QED
                BY <4>2
        <3> QED
            BY <3>1, <3>2
    <2>7. h[0] = v
        BY <2>1, <2>2, <2>4
    <2>8. \A i \in 1..(k + 1) : h[i] = F[h[i - 1]][i]
        BY <2>6
    <2> QED
        BY <2>5, <2>7, <2>8
<1> HIDE DEF Upto
<1>3. T = {}
    <2> SUFFICES ASSUME T # {} PROVE FALSE
        OBVIOUS
    <2>0. T \subseteq Nat
        OBVIOUS
    <2>1. PICK k \in T : \A m \in T : k <= m
        <3> HIDE DEF T
        <3> QED
            BY <2>0, LeastNumber
    <2>2. k # 0
        BY <1>1
    <2>3. k - 1 \in 0..(n - 1) /\ k - 1 \in 0..n /\ k - 1 \notin T /\ (k - 1) + 1 = k
        BY <2>1, <2>2
    <2>4. Upto(k - 1)
        BY <2>3
    <2>5. Upto((k - 1) + 1)
        BY <1>2, <2>3, <2>4
    <2> QED
        BY <2>3, <2>5
<1>4. Upto(n)
    BY <1>3
<1> QED
    BY <1>4 DEF Upto, StepsFrom

LEMMA BytesInSteps ==
    ASSUME NEW q \in Seq(Nat)
    PROVE  \E a : /\ a \in [0..Len(q) -> Nat] /\ a[0] = 0
                  /\ \A i \in 1..Len(q) : a[i] = a[i - 1] + q[i]
                  /\ BytesOf(q) = a[Len(q)]
<1> DEFINE n == Len(q)
           F == [x \in Nat |-> [i \in 1..n |-> x + q[i]]]
           Sums(g) == g = [i \in 0..n |-> IF i = 0 THEN 0 ELSE g[i - 1] + q[i]]
           a == CHOOSE g : Sums(g)
<1>1. n \in Nat /\ \A i \in 1..n : q[i] \in Nat
    BY ElementOfSeq, LenProperties
<1>2. F \in [Nat -> [1..n -> Nat]]
    BY <1>1
<1>3. \E g : Sums(g)
    <2> HIDE DEF n
    <2>1. \A x \in Nat, i \in 1..n : F[x][i] = x + q[i]
        OBVIOUS
    <2> HIDE DEF F
    <2>2. PICK g \in [0..n -> Nat] : g[0] = 0 /\ \A i \in 1..n : g[i] = F[g[i - 1]][i]
        <3> DEFINE v == 0
        <3>1. n \in Nat /\ v \in Nat /\ IsStep(F, n, Nat)
            BY <1>1, <1>2 DEF IsStep
        <3> HIDE DEF v
        <3>2. \E g : StepsFrom(g, v, F, n, Nat)
            BY <3>1, Stepping
        <3> QED
            BY <3>2 DEF v, StepsFrom
    <2>3. \A i \in 0..n : g[i] = IF i = 0 THEN 0 ELSE g[i - 1] + q[i]
        <3> TAKE i \in 0..n
        <3>1. CASE i = 0
            BY <2>2, <3>1
        <3>2. CASE i # 0
            <4>1. i \in 1..n /\ i - 1 \in 0..n
                BY <1>1, <3>2
            <4> QED
                BY <2>1, <2>2, <3>2, <4>1
        <3> QED
            BY <3>1, <3>2
    <2>4. Sums(g)
        BY <2>2, <2>3
    <2> QED
        BY <2>4
<1>4. Sums(a)
    <2> HIDE DEF Sums
    <2> QED
        BY <1>3
<1>5. BytesOf(q) = a[n]
    BY DEF BytesOf
<1> HIDE DEF a
<1>6. a[0] = 0 /\ \A i \in 1..n : a[i] = a[i - 1] + q[i]
    <2> HIDE DEF n
    <2>1. \A i \in 0..n : a[i] = IF i = 0 THEN 0 ELSE a[i - 1] + q[i]
        BY <1>4
    <2>2. 0 \in 0..n /\ \A i \in 1..n : i \in 0..n /\ i # 0
        BY <1>1
    <2> QED
        BY <2>1, <2>2
<1>7. \A i \in 0..n : a[i] \in Nat
    <2> DEFINE T == {i \in 0..n : a[i] \notin Nat}
    <2> SUFFICES ASSUME T # {} PROVE FALSE
        OBVIOUS
    <2>0. T \subseteq Nat
        BY <1>1
    <2>1. PICK i \in T : \A m \in T : i <= m
        <3> HIDE DEF T
        <3> QED
            BY <2>0, LeastNumber
    <2> HIDE DEF n
    <2>2. i \in 1..n /\ i - 1 \in 0..n
        BY <1>1, <1>6, <2>1
    <2>3. i - 1 \notin T
        BY <1>1, <2>1, <2>2
    <2>4. a[i - 1] \in Nat
        BY <2>2, <2>3
    <2> QED
        <3>1. a[i] = a[i - 1] + q[i]
            BY <1>6, <2>2
        <3>2. q[i] \in Nat
            BY <1>1, <2>2
        <3>3. a[i] \notin Nat
            BY <2>1
        <3> QED
            BY <2>4, <3>1, <3>2, <3>3
<1>8. a \in [0..n -> Nat]
    <2>1. a = [i \in 0..n |-> a[i]]
        BY <1>4
    <2> QED
        BY <1>7, <2>1
<1> QED
    BY <1>5, <1>6, <1>8

LEMMA BytesAreSums ==
    ASSUME NEW q \in Seq(Nat), NEW g, g[0] = 0, \A i \in 1..Len(q) : g[i] = g[i - 1] + q[i]
    PROVE  BytesOf(q) = g[Len(q)]
<1> DEFINE n == Len(q)
<1>1. n \in Nat
    BY LenProperties
<1>2. PICK a : /\ a \in [0..n -> Nat] /\ a[0] = 0
               /\ \A i \in 1..n : a[i] = a[i - 1] + q[i]
               /\ BytesOf(q) = a[n]
    BY BytesInSteps
<1> DEFINE T == {i \in 0..n : a[i] # g[i]}
<1>3. T = {}
    <2> SUFFICES ASSUME T # {} PROVE FALSE
        OBVIOUS
    <2>0. T \subseteq Nat
        BY <1>1
    <2>1. PICK i \in T : \A m \in T : i <= m
        <3> HIDE DEF T
        <3> QED
            BY <2>0, LeastNumber
    <2> HIDE DEF n
    <2>2. i \in 1..n /\ i - 1 \in 0..n
        BY <1>1, <1>2, <2>1
    <2>3. i - 1 \notin T
        BY <1>1, <2>1, <2>2
    <2>4. a[i - 1] = g[i - 1]
        BY <2>2, <2>3
    <2>5. a[i] = a[i - 1] + q[i] /\ g[i] = g[i - 1] + q[i]
        BY <1>2, <2>2 DEF n
    <2>6. a[i] = g[i]
        BY <2>4, <2>5
    <2> QED
        BY <2>1, <2>6
<1>4. n \in 0..n
    BY <1>1
<1>5. a[n] = g[n]
    BY <1>3, <1>4
<1> QED
    BY <1>2, <1>5

LEMMA BytesOfMore ==
    ASSUME NEW q \in Seq(Nat), NEW p \in Nat
    PROVE  BytesOf(q) \in Nat /\ BytesOf(Append(q, p)) = BytesOf(q) + p
<1> DEFINE n == Len(q)
           r == Append(q, p)
<1>1. /\ n \in Nat /\ r \in Seq(Nat) /\ Len(r) = n + 1
      /\ (\A i \in 1..n : r[i] = q[i]) /\ r[n + 1] = p
    BY AppendProperties, LenProperties
<1>2. PICK a : /\ a \in [0..n -> Nat] /\ a[0] = 0
               /\ \A i \in 1..n : a[i] = a[i - 1] + q[i]
               /\ BytesOf(q) = a[n]
    BY BytesInSteps
<1> DEFINE g == [i \in 0..(n + 1) |-> IF i = n + 1 THEN a[n] + p ELSE a[i]]
<1> HIDE DEF n, r
<1>3. /\ \A i \in 0..n : g[i] = a[i]
      /\ g[n + 1] = a[n] + p
    BY <1>1
<1>4. g[0] = 0
    BY <1>1, <1>2, <1>3
<1> HIDE DEF g
<1>5. ASSUME NEW i \in 1..(n + 1) PROVE g[i] = g[i - 1] + r[i]
    <2>1. CASE i = n + 1
        <3>1. i - 1 = n /\ n \in 0..n
            BY <1>1, <2>1
        <3> QED
            BY <1>1, <1>3, <2>1, <3>1
    <2>2. CASE i # n + 1
        <3>1. i \in 1..n /\ i \in 0..n /\ i - 1 \in 0..n
            BY <1>1, <2>2
        <3> QED
            BY <1>1, <1>2, <1>3, <3>1
    <2> QED
        BY <2>1, <2>2
<1>6. BytesOf(r) = g[n + 1]
    BY <1>1, <1>4, <1>5, BytesAreSums
<1>7. a[n] \in Nat
    BY <1>1, <1>2
<1> QED
    BY <1>2, <1>3, <1>6, <1>7 DEF r

\* What is put into chunks so far is the text so far, in chunks that fit.
Fits(chunk) == chunk # <<>> /\ BytesOf(chunk) <= MaxDelta

CutSoFar(z, t) ==
    /\ z.done \in Seq(Seq(Point)) /\ z.chunk \in Seq(Point) /\ FlattenSeq(z.done) \in Seq(Point)
    /\ \A i \in 1..Len(z.done) : Fits(z.done[i])
    /\ FlattenSeq(z.done) \o z.chunk = t
    /\ z.bytes = BytesOf(z.chunk) /\ z.bytes <= MaxDelta
    /\ z.done = <<>> \/ z.chunk # <<>>

LEMMA OneMoreFlattened ==
    ASSUME NEW S, NEW q \in Seq(Seq(S)), NEW x \in Seq(S)
    PROVE  FlattenSeq(q) \in Seq(S) /\ FlattenSeq(Append(q, x)) = FlattenSeq(q) \o x
<1> DEFINE n == Len(q)
           r == Append(q, x)
<1>1. /\ n \in Nat /\ q \in [1..n -> Seq(S)] /\ r \in Seq(Seq(S)) /\ Len(r) = n + 1
      /\ (\A i \in 1..n : r[i] = q[i]) /\ r[n + 1] = x
    BY AppendProperties, LenProperties
<1>2. r \in [1..(n + 1) -> Seq(S)] /\ n + 1 \in Nat
    BY <1>1, LenProperties
<1> HIDE DEF n, r
<1>3. PICK g : /\ g \in [0..n -> Seq(S)] /\ g[0] = <<>>
               /\ \A i \in 1..n : g[i] = g[i - 1] \o q[i]
               /\ FlattenSeq(q) = g[n]
    BY <1>1, Flattening
<1>4. PICK h : /\ h \in [0..(n + 1) -> Seq(S)] /\ h[0] = <<>>
               /\ \A i \in 1..(n + 1) : h[i] = h[i - 1] \o r[i]
               /\ FlattenSeq(r) = h[n + 1]
    BY <1>2, Flattening
<1> DEFINE T == {i \in 0..n : g[i] # h[i]}
<1>5. T = {}
    <2> SUFFICES ASSUME T # {} PROVE FALSE
        OBVIOUS
    <2>0. T \subseteq Nat
        BY <1>1
    <2>1. PICK i \in T : \A m \in T : i <= m
        <3> HIDE DEF T
        <3> QED
            BY <2>0, LeastNumber
    <2>2. i \in 1..n /\ i - 1 \in 0..n /\ i \in 1..(n + 1)
        BY <1>1, <1>3, <1>4, <2>1
    <2>3. i - 1 \notin T
        <3>1. ~(i <= i - 1)
            BY <2>2
        <3> HIDE DEF T
        <3> QED
            BY <2>1, <3>1
    <2>4. g[i - 1] = h[i - 1]
        BY <2>2, <2>3
    <2>5. g[i] = g[i - 1] \o q[i] /\ h[i] = h[i - 1] \o q[i]
        BY <1>1, <1>3, <1>4, <2>2
    <2>6. g[i] = h[i]
        BY <2>4, <2>5
    <2> QED
        BY <2>1, <2>6
<1>6. n \in 0..n /\ n + 1 \in 1..(n + 1) /\ (n + 1) - 1 = n
    BY <1>1
<1>7. h[n] = g[n]
    BY <1>5, <1>6
<1>8. h[n + 1] = h[n] \o r[n + 1]
    BY <1>4, <1>6
<1>9. g[n] \in Seq(S)
    BY <1>3, <1>6
<1> QED
    BY <1>1, <1>3, <1>4, <1>7, <1>8, <1>9 DEF r

LEMMA CutInSteps ==
    ASSUME NEW text \in Seq(Point)
    PROVE  \E a : /\ a[0] = [done |-> <<>>, chunk |-> <<>>, bytes |-> 0]
                  /\ \A i \in 1..Len(text) : a[i] = PutPoint(a[i - 1], text[i])
                  /\ Cut(text) = a[Len(text)]
<1> DEFINE n == Len(text)
           X == [done : Seq(Seq(Point)), chunk : Seq(Point), bytes : Nat]
           v == [done |-> <<>>, chunk |-> <<>>, bytes |-> 0]
           F == [x \in X |-> [i \in 1..n |-> PutPoint(x, text[i])]]
           Cuts(g) == g = [i \in 0..n |-> IF i = 0 THEN v ELSE PutPoint(g[i - 1], text[i])]
           a == CHOOSE g : Cuts(g)
<1>1. n \in Nat /\ \A i \in 1..n : text[i] \in Point
    BY ElementOfSeq, LenProperties
<1>2. v \in X
    OBVIOUS
<1>3. ASSUME NEW x \in X, NEW p \in Point PROVE PutPoint(x, p) \in X
    <2>1. x.done \in Seq(Seq(Point)) /\ x.chunk \in Seq(Point) /\ x.bytes \in Nat /\ p \in Nat
        BY DEF Point
    <2>2. <<p>> \in Seq(Point) /\ Append(x.chunk, p) \in Seq(Point) /\ x.bytes + p \in Nat
        BY <2>1, AppendProperties
    <2>3. Append(x.done, x.chunk) \in Seq(Seq(Point))
        BY <2>1, AppendProperties
    <2> QED
        BY <2>1, <2>2, <2>3 DEF PutPoint
<1>4. \A x \in X, i \in 1..n : F[x][i] = PutPoint(x, text[i])
    OBVIOUS
<1>5. F \in [X -> [1..n -> X]]
    <2>1. \A x \in X, i \in 1..n : PutPoint(x, text[i]) \in X
        <3> HIDE DEF X
        <3> QED
            BY <1>1, <1>3
    <2> HIDE DEF X
    <2> QED
        BY <2>1
<1> HIDE DEF F, X, v, n
<1>6. \E g : Cuts(g)
    <2>0. PICK g : StepsFrom(g, v, F, n, X)
        <3>1. IsStep(F, n, X)
            BY <1>5 DEF IsStep
        <3> QED
            BY <1>1, <1>2, <3>1, Stepping
    <2>1. /\ g \in [0..n -> X] /\ g[0] = v
          /\ \A i \in 1..n : g[i] = F[g[i - 1]][i]
        BY <2>0 DEF StepsFrom
    <2>2. \A i \in 0..n : g[i] = IF i = 0 THEN v ELSE PutPoint(g[i - 1], text[i])
        <3> TAKE i \in 0..n
        <3>1. CASE i = 0
            BY <2>1, <3>1
        <3>2. CASE i # 0
            <4>1. i \in 1..n /\ i - 1 \in 0..n
                BY <1>1, <3>2
            <4>2. g[i - 1] \in X
                BY <2>1, <4>1
            <4>3. g[i] = PutPoint(g[i - 1], text[i])
                BY <1>4, <2>1, <4>1, <4>2
            <4> QED
                BY <3>2, <4>3
        <3> QED
            BY <3>1, <3>2
    <2>3. Cuts(g)
        BY <2>1, <2>2
    <2> QED
        BY <2>3
<1>7. Cuts(a)
    <2> HIDE DEF Cuts
    <2> QED
        BY <1>6
<1>8. Cut(text) = a[n]
    BY DEF Cut, n, v
<1> HIDE DEF a
<1>9. \A i \in 0..n : a[i] = IF i = 0 THEN v ELSE PutPoint(a[i - 1], text[i])
    BY <1>7
<1>10. 0 \in 0..n /\ \A i \in 1..n : i \in 0..n /\ i # 0
    BY <1>1
<1>11. a[0] = v /\ \A i \in 1..n : a[i] = PutPoint(a[i - 1], text[i])
    BY <1>9, <1>10
<1> QED
    BY <1>8, <1>11 DEF n, v

LEMMA NothingCut ==
    CutSoFar([done |-> <<>>, chunk |-> <<>>, bytes |-> 0], <<>>)
<1>1. FlattenSeq(<<>>) = <<>> /\ <<>> \in Seq(Seq(Point)) /\ <<>> \in Seq(Point) /\ <<>> \in Seq(Nat)
    <2> DEFINE n == 0
               e == <<>>
    <2>1. n \in Nat /\ e \in [1..n -> Seq(Point)]
        OBVIOUS
    <2> HIDE DEF n, e
    <2>2. PICK g : /\ g \in [0..n -> Seq(Point)] /\ g[0] = <<>>
                   /\ \A i \in 1..n : g[i] = g[i - 1] \o e[i]
                   /\ FlattenSeq(e) = g[n]
        BY <2>1, Flattening
    <2> QED
        BY <2>2 DEF n, e
<1>2. BytesOf(<<>>) = 0
    <2> DEFINE g == [i \in {0} |-> 0]
    <2>1. Len(<<>>) = 0 /\ g[0] = 0 /\ \A i \in 1..Len(<<>>) : g[i] = g[i - 1] + <<>>[i]
        OBVIOUS
    <2> HIDE DEF g
    <2> QED
        BY <1>1, <2>1, BytesAreSums
<1>3. Len(<<>>) = 0 /\ <<>> \o <<>> = <<>> /\ 0 <= MaxDelta
    BY ItemsAssumption
<1> DEFINE z == [done |-> <<>>, chunk |-> <<>>, bytes |-> 0]
<1>4. z.done = <<>> /\ z.chunk = <<>> /\ z.bytes = 0
    OBVIOUS
<1> HIDE DEF z
<1>5. CutSoFar(z, <<>>)
    <2>1. Len(z.done) = 0
        BY <1>3, <1>4
    <2>2. \A i \in 1..Len(z.done) : FALSE
        BY <2>1
    <2> QED
        BY <1>1, <1>2, <1>3, <1>4, <2>2 DEF CutSoFar
<1> QED
    BY <1>5 DEF z

LEMMA PointIsPut ==
    ASSUME NEW z, NEW t \in Seq(Point), CutSoFar(z, t), NEW p \in Point
    PROVE  CutSoFar(PutPoint(z, p), Append(t, p))
<1>1. /\ z.done \in Seq(Seq(Point)) /\ z.chunk \in Seq(Point) /\ FlattenSeq(z.done) \in Seq(Point)
      /\ (\A i \in 1..Len(z.done) : Fits(z.done[i]))
      /\ FlattenSeq(z.done) \o z.chunk = t
      /\ z.bytes = BytesOf(z.chunk) /\ z.bytes <= MaxDelta
      /\ z.done = <<>> \/ z.chunk # <<>>
    BY DEF CutSoFar
<1>2. /\ p \in Nat /\ p <= 4 /\ p <= MaxDelta /\ MaxDelta \in Nat /\ Point \subseteq Nat
    BY ItemsAssumption DEF Point
<1>3. z.chunk \in Seq(Nat) /\ BytesOf(z.chunk) \in Nat /\ BytesOf(Append(z.chunk, p)) = BytesOf(z.chunk) + p
    <2>1. z.chunk \in Seq(Nat)
        BY <1>1, <1>2, SeqMonotonic
    <2> QED
        BY <1>2, <2>1, BytesOfMore
<1>4. CASE z.bytes + p > MaxDelta /\ z.chunk # <<>>
    <2> DEFINE w == [done |-> Append(z.done, z.chunk), chunk |-> <<p>>, bytes |-> p]
    <2>1. PutPoint(z, p) = w
        BY <1>4 DEF PutPoint
    <2>2. /\ w.done \in Seq(Seq(Point)) /\ Len(w.done) = Len(z.done) + 1
          /\ (\A i \in 1..Len(z.done) : w.done[i] = z.done[i]) /\ w.done[Len(z.done) + 1] = z.chunk
        BY <1>1, AppendProperties
    <2>3. Fits(z.chunk)
        BY <1>1, <1>4 DEF Fits
    <2>4. \A i \in 1..Len(w.done) : Fits(w.done[i])
        <3> HIDE DEF w
        <3>0. Len(z.done) \in Nat
            BY <1>1, LenProperties
        <3> TAKE i \in 1..Len(w.done)
        <3>1. i \in 1..Len(z.done) \/ i = Len(z.done) + 1
            BY <2>2, <3>0
        <3> QED
            BY <1>1, <2>2, <2>3, <3>1
    <2>5. FlattenSeq(w.done) = FlattenSeq(z.done) \o z.chunk /\ FlattenSeq(w.done) = t
        BY <1>1, OneMoreFlattened
    <2>6. t \o <<p>> = Append(t, p) /\ <<p>> \in Seq(Point) /\ <<p>> # <<>>
        <3>1. t \o <<p>> = Append(t, p)
            BY AppendIsConcat
        <3> QED
            BY <3>1
    <2>7. BytesOf(<<p>>) = p
        <3> DEFINE g == [i \in 0..1 |-> IF i = 0 THEN 0 ELSE p]
        <3>1. <<p>> \in Seq(Nat) /\ Len(<<p>>) = 1 /\ <<p>>[1] = p /\ g[0] = 0 /\ g[1] = p
            BY <1>2
        <3> HIDE DEF g
        <3>2. \A i \in 1..Len(<<p>>) : i = 1 /\ i - 1 = 0
            BY <3>1
        <3>3. \A i \in 1..Len(<<p>>) : g[i] = g[i - 1] + <<p>>[i]
            BY <1>2, <3>1, <3>2
        <3> QED
            BY <3>1, <3>3, BytesAreSums
    <2>8. w.chunk = <<p>> /\ w.bytes = p
        OBVIOUS
    <2> HIDE DEF w
    <2> QED
        BY <1>2, <2>1, <2>2, <2>4, <2>5, <2>6, <2>7, <2>8 DEF CutSoFar
<1>5. CASE ~(z.bytes + p > MaxDelta /\ z.chunk # <<>>)
    <2> DEFINE w == [done |-> z.done, chunk |-> Append(z.chunk, p), bytes |-> z.bytes + p]
    <2>1. PutPoint(z, p) = w
        BY <1>5 DEF PutPoint
    <2>5. w.done = z.done /\ w.chunk = Append(z.chunk, p) /\ w.bytes = z.bytes + p
        OBVIOUS
    <2> HIDE DEF w
    <2>2. w.chunk \in Seq(Point) /\ w.chunk # <<>>
        <3>1. Append(z.chunk, p) \in Seq(Point) /\ Append(z.chunk, p) # <<>>
            BY <1>1, AppendProperties
        <3> QED
            BY <2>5, <3>1
    <2>3. z.bytes + p <= MaxDelta
        <3>1. CASE z.chunk # <<>>
            BY <1>1, <1>2, <1>3, <1>5, <3>1
        <3>2. CASE z.chunk = <<>>
            <4>1. BytesOf(<<>>) = 0
                BY NothingCut DEF CutSoFar
            <4> QED
                BY <1>1, <1>2, <3>2, <4>1
        <3> QED
            BY <3>1, <3>2
    <2>4. FlattenSeq(z.done) \o Append(z.chunk, p) = Append(t, p)
        <3>0. <<p>> \in Seq(Point)
            OBVIOUS
        <3>1. Append(z.chunk, p) = z.chunk \o <<p>> /\ Append(t, p) = t \o <<p>> /\ <<p>> \in Seq(Point)
            BY <1>1, <3>0, AppendIsConcat
        <3>2. (FlattenSeq(z.done) \o z.chunk) \o <<p>> = FlattenSeq(z.done) \o (z.chunk \o <<p>>)
            <4> DEFINE a == FlattenSeq(z.done)
                       b == z.chunk
                       c == <<p>>
            <4>1. a \in Seq(Point) /\ b \in Seq(Point) /\ c \in Seq(Point)
                BY <1>1, <3>0
            <4> HIDE DEF a, b, c
            <4>2. (a \o b) \o c = a \o (b \o c)
                BY <4>1, ConcatAssociative
            <4> QED
                BY <4>2 DEF a, b, c
        <3> QED
            BY <1>1, <3>1, <3>2
    <2> QED
        BY <1>1, <1>3, <2>1, <2>2, <2>3, <2>4, <2>5 DEF CutSoFar
<1> QED
    BY <1>4, <1>5

LEMMA PrefixGrows ==
    ASSUME NEW S, NEW q \in Seq(S), NEW i \in 1..Len(q)
    PROVE  /\ SubSeq(q, 1, i - 1) \in Seq(S) /\ SubSeq(q, 1, i) = Append(SubSeq(q, 1, i - 1), q[i])
           /\ SubSeq(q, 1, i) \in Seq(S) /\ Len(SubSeq(q, 1, i - 1)) = i - 1
<1> DEFINE a == SubSeq(q, 1, i - 1)
           b == SubSeq(q, 1, i)
<1>1. /\ Len(q) \in Nat /\ i \in Nat /\ 1 <= i /\ i <= Len(q) /\ i - 1 \in Int /\ i \in Int /\ 1 \in Int
      /\ (\A j \in 1..i : q[j] \in S) /\ \A j \in 1..(i - 1) : q[j] \in S
    BY LenProperties, ElementOfSeq
<1>2. a \in Seq(S) /\ Len(a) = i - 1 /\ \A j \in 1..(i - 1) : a[j] = q[j]
    <2>1. /\ a \in Seq(S) /\ Len(a) = IF 1 <= i - 1 THEN (i - 1) - 1 + 1 ELSE 0
          /\ \A j \in 1..((i - 1) - 1 + 1) : a[j] = q[1 + j - 1]
        BY <1>1, SubSeqProperties
    <2>2. (i - 1) - 1 + 1 = i - 1 /\ \A j \in 1..(i - 1) : 1 + j - 1 = j
        BY <1>1
    <2> HIDE DEF a
    <2> QED
        BY <1>1, <2>1, <2>2
<1>3. b \in Seq(S) /\ Len(b) = i /\ \A j \in 1..i : b[j] = q[j]
    <2>1. /\ b \in Seq(S) /\ Len(b) = IF 1 <= i THEN i - 1 + 1 ELSE 0
          /\ \A j \in 1..(i - 1 + 1) : b[j] = q[1 + j - 1]
        BY <1>1, SubSeqProperties
    <2>2. i - 1 + 1 = i /\ \A j \in 1..i : 1 + j - 1 = j
        BY <1>1
    <2> HIDE DEF b
    <2> QED
        BY <1>1, <2>1, <2>2
<1> HIDE DEF a, b
<1>4. q[i] \in S
    BY <1>1
<1> DEFINE c == Append(a, q[i])
<1>5. /\ c \in Seq(S) /\ Len(c) = (i - 1) + 1 /\ (\A j \in 1..(i - 1) : c[j] = a[j])
      /\ c[(i - 1) + 1] = q[i]
    BY <1>2, <1>4, AppendProperties
<1> HIDE DEF c
<1>6. Len(b) = Len(c) /\ \A j \in 1..Len(b) : b[j] = c[j]
    <2>1. (i - 1) + 1 = i
        BY <1>1
    <2>2. ASSUME NEW j \in 1..i PROVE b[j] = c[j]
        <3>1. CASE j = i
            BY <1>3, <1>5, <2>1, <3>1
        <3>2. CASE j # i
            <4>1. j \in 1..(i - 1)
                BY <1>1, <3>2
            <4> QED
                BY <1>2, <1>3, <1>5, <4>1
        <3> QED
            BY <3>1, <3>2
    <2> QED
        BY <1>3, <1>5, <2>1, <2>2
<1>7. b = c
    BY <1>3, <1>5, <1>6, SeqEqual
<1> QED
    BY <1>2, <1>3, <1>7 DEF a, b, c

LEMMA CutIsRight ==
    ASSUME NEW text \in Seq(Point)
    PROVE  CutSoFar(Cut(text), text)
<1> DEFINE n == Len(text)
           P(i) == SubSeq(text, 1, i)
<1>1. n \in Nat /\ \A i \in 1..n : text[i] \in Point
    BY ElementOfSeq, LenProperties
<1>2. PICK a : /\ a[0] = [done |-> <<>>, chunk |-> <<>>, bytes |-> 0]
               /\ \A i \in 1..n : a[i] = PutPoint(a[i - 1], text[i])
               /\ Cut(text) = a[n]
    BY CutInSteps
<1> DEFINE T == {i \in 0..n : ~CutSoFar(a[i], P(i))}
<1>3. CutSoFar(a[0], P(0))
    <2>1. P(0) = <<>>
        BY SubSeqEmpty
    <2> QED
        BY <1>2, <2>1, NothingCut
<1>4. ASSUME NEW i \in 1..n, CutSoFar(a[i - 1], P(i - 1)) PROVE CutSoFar(a[i], P(i))
    <2>1. P(i - 1) \in Seq(Point) /\ P(i) = Append(P(i - 1), text[i])
        BY PrefixGrows
    <2>2. a[i] = PutPoint(a[i - 1], text[i]) /\ text[i] \in Point
        BY <1>1, <1>2
    <2> HIDE DEF P
    <2>3. CutSoFar(PutPoint(a[i - 1], text[i]), Append(P(i - 1), text[i]))
        BY <1>4, <2>1, <2>2, PointIsPut
    <2> QED
        BY <2>1, <2>2, <2>3
<1> HIDE DEF P
<1>5. T = {}
    <2> SUFFICES ASSUME T # {} PROVE FALSE
        OBVIOUS
    <2>0. T \subseteq Nat
        BY <1>1
    <2>1. PICK i \in T : \A m \in T : i <= m
        <3> HIDE DEF T
        <3> QED
            BY <2>0, LeastNumber
    <2> HIDE DEF n
    <2>2. i \in 1..n /\ i - 1 \in 0..n
        BY <1>1, <1>3, <2>1
    <2>3. i - 1 \notin T
        <3>1. ~(i <= i - 1)
            BY <2>2
        <3> HIDE DEF T
        <3> QED
            BY <2>1, <3>1
    <2>4. CutSoFar(a[i - 1], P(i - 1))
        BY <2>2, <2>3
    <2>5. CutSoFar(a[i], P(i))
        BY <1>4, <2>2, <2>4 DEF n
    <2> QED
        BY <2>1, <2>5
<1>6. CutSoFar(a[n], P(n))
    <2>1. n \in 0..n
        BY <1>1
    <2> QED
        BY <1>5, <2>1
<1>7. P(n) = text
    <2>1. n \in Int /\ 1 \in Int /\ \A j \in 1..n : text[j] \in Point
        BY <1>1
    <2>2. /\ P(n) \in Seq(Point) /\ Len(P(n)) = IF 1 <= n THEN n - 1 + 1 ELSE 0
          /\ \A j \in 1..(n - 1 + 1) : P(n)[j] = text[1 + j - 1]
        <3> HIDE DEF n
        <3> QED
            BY <2>1, SubSeqProperties DEF P
    <2>3. Len(P(n)) = n /\ \A j \in 1..n : P(n)[j] = text[j]
        <3>1. n - 1 + 1 = n /\ \A j \in 1..n : 1 + j - 1 = j
            BY <1>1
        <3> HIDE DEF n
        <3> QED
            BY <1>1, <2>2, <3>1
    <2> QED
        BY <2>2, <2>3, SeqEqual
<1> QED
    BY <1>2, <1>6, <1>7

\* Every text is sent whole: its chunks one after another are the text, no point is cut
\* in two, none is empty, and each fits into a frame (chunkText; a point is the bytes
\* that it takes, so a chunk is measured in bytes and cut between points).
THEOREM TextIsChunked ==
    \A text \in Seq(Point) :
        LET chunks == ChunkText(text) IN
        /\ chunks \in Seq(Seq(Point)) /\ FlattenSeq(chunks) = text
        /\ \A i \in 1..Len(chunks) : chunks[i] # <<>> /\ BytesOf(chunks[i]) <= MaxDelta
<1> SUFFICES ASSUME NEW text \in Seq(Point)
             PROVE  LET chunks == ChunkText(text) IN
                    /\ chunks \in Seq(Seq(Point)) /\ FlattenSeq(chunks) = text
                    /\ \A i \in 1..Len(chunks) : chunks[i] # <<>> /\ BytesOf(chunks[i]) <= MaxDelta
    OBVIOUS
<1> DEFINE z == Cut(text)
           q == ChunkText(text)
<1>1. CutSoFar(z, text)
    BY CutIsRight
<1>2. q = IF z.chunk = <<>> THEN z.done ELSE Append(z.done, z.chunk)
    BY DEF ChunkText
<1> HIDE DEF z, q
<1>3. /\ z.done \in Seq(Seq(Point)) /\ z.chunk \in Seq(Point) /\ FlattenSeq(z.done) \in Seq(Point)
      /\ (\A i \in 1..Len(z.done) : Fits(z.done[i]))
      /\ FlattenSeq(z.done) \o z.chunk = text
      /\ z.bytes = BytesOf(z.chunk) /\ z.bytes <= MaxDelta
    BY <1>1 DEF CutSoFar
<1>4. CASE z.chunk = <<>>
    <2>1. q = z.done /\ FlattenSeq(q) = text
        <3>1. FlattenSeq(z.done) \o <<>> = FlattenSeq(z.done)
            BY <1>3, ConcatEmptySeq
        <3> QED
            BY <1>2, <1>3, <1>4, <3>1
    <2> QED
        BY <1>3, <2>1 DEF Fits, q
<1>5. CASE z.chunk # <<>>
    <2>1. /\ q = Append(z.done, z.chunk) /\ q \in Seq(Seq(Point)) /\ Len(q) = Len(z.done) + 1
          /\ (\A i \in 1..Len(z.done) : q[i] = z.done[i]) /\ q[Len(z.done) + 1] = z.chunk
        BY <1>2, <1>3, <1>5, AppendProperties
    <2>2. FlattenSeq(q) = text
        BY <1>3, <2>1, OneMoreFlattened
    <2>3. Fits(z.chunk)
        BY <1>3, <1>5 DEF Fits
    <2>4. ASSUME NEW i \in 1..Len(q) PROVE Fits(q[i])
        <3>1. Len(z.done) \in Nat
            BY <1>3, LenProperties
        <3>2. i \in 1..Len(z.done) \/ i = Len(z.done) + 1
            BY <2>1, <3>1
        <3> QED
            BY <1>3, <2>1, <2>3, <3>2
    <2> QED
        BY <2>1, <2>2, <2>4 DEF Fits, q
<1> QED
    BY <1>4, <1>5
-----------------------------------------------------------------------------
(* Pictures are sent in chunks of bytes. *)

LEMMA PrefixAndRest ==
    ASSUME NEW S, NEW q \in Seq(S), NEW a \in Nat, NEW b \in Nat, a <= b, b <= Len(q)
    PROVE  /\ SubSeq(q, 1, a) \in Seq(S) /\ Len(SubSeq(q, 1, a)) = a
           /\ SubSeq(q, a + 1, b) \in Seq(S) /\ Len(SubSeq(q, a + 1, b)) = b - a
           /\ SubSeq(q, 1, a) \o SubSeq(q, a + 1, b) = SubSeq(q, 1, b)
<1> DEFINE x == SubSeq(q, 1, a)
           y == SubSeq(q, a + 1, b)
           z == SubSeq(q, 1, b)
<1>1. /\ Len(q) \in Nat /\ a \in Int /\ b \in Int /\ a + 1 \in Int /\ 1 \in Int
      /\ \A j \in 1..Len(q) : q[j] \in S
    BY LenProperties, ElementOfSeq
<1>2. x \in Seq(S) /\ Len(x) = a /\ \A j \in 1..a : x[j] = q[j]
    <2>1. \A j \in 1..a : q[j] \in S
        BY <1>1
    <2>2. /\ x \in Seq(S) /\ Len(x) = IF 1 <= a THEN a - 1 + 1 ELSE 0
          /\ \A j \in 1..(a - 1 + 1) : x[j] = q[1 + j - 1]
        BY <1>1, <2>1, SubSeqProperties
    <2>3. a - 1 + 1 = a /\ (~(1 <= a) => a = 0) /\ \A j \in 1..a : 1 + j - 1 = j
        OBVIOUS
    <2> HIDE DEF x
    <2> QED
        BY <2>2, <2>3
<1>3. z \in Seq(S) /\ Len(z) = b /\ \A j \in 1..b : z[j] = q[j]
    <2>1. \A j \in 1..b : q[j] \in S
        BY <1>1
    <2>2. /\ z \in Seq(S) /\ Len(z) = IF 1 <= b THEN b - 1 + 1 ELSE 0
          /\ \A j \in 1..(b - 1 + 1) : z[j] = q[1 + j - 1]
        BY <1>1, <2>1, SubSeqProperties
    <2>3. b - 1 + 1 = b /\ (~(1 <= b) => b = 0) /\ \A j \in 1..b : 1 + j - 1 = j
        OBVIOUS
    <2> HIDE DEF z
    <2> QED
        BY <2>2, <2>3
<1>4. y \in Seq(S) /\ Len(y) = b - a /\ \A j \in 1..(b - a) : y[j] = q[a + j]
    <2>1. \A j \in (a + 1)..b : q[j] \in S
        BY <1>1
    <2>2. /\ y \in Seq(S) /\ Len(y) = IF a + 1 <= b THEN b - (a + 1) + 1 ELSE 0
          /\ \A j \in 1..(b - (a + 1) + 1) : y[j] = q[(a + 1) + j - 1]
        BY <1>1, <2>1, SubSeqProperties
    <2>3. /\ b - (a + 1) + 1 = b - a /\ (~(a + 1 <= b) => b - a = 0)
          /\ \A j \in 1..(b - a) : (a + 1) + j - 1 = a + j
        OBVIOUS
    <2> HIDE DEF y
    <2> QED
        BY <2>2, <2>3
<1> HIDE DEF x, y, z
<1>5. x \o y = z
    <2> DEFINE c == x \o y
    <2>1. /\ c \in Seq(S) /\ Len(c) = Len(x) + Len(y)
          /\ \A j \in 1..(Len(x) + Len(y)) : c[j] = IF j <= Len(x) THEN x[j] ELSE y[j - Len(x)]
        BY <1>2, <1>4, ConcatProperties
    <2> HIDE DEF c
    <2>2. Len(c) = b /\ Len(z) = b
        BY <1>2, <1>3, <1>4, <2>1
    <2>3. ASSUME NEW j \in 1..b PROVE c[j] = z[j]
        <3>1. c[j] = IF j <= a THEN x[j] ELSE y[j - a]
            BY <1>2, <1>4, <2>1
        <3>2. CASE j <= a
            BY <1>2, <1>3, <3>1, <3>2
        <3>3. CASE ~(j <= a)
            <4>1. j - a \in 1..(b - a) /\ a + (j - a) = j
                BY <3>3
            <4> QED
                BY <1>3, <1>4, <3>1, <3>3, <4>1
        <3> QED
            BY <3>2, <3>3
    <2>4. c = z
        BY <1>3, <2>1, <2>2, <2>3, SeqEqual
    <2> QED
        BY <2>4 DEF c
<1> QED
    BY <1>2, <1>4, <1>5 DEF x, y, z

\* Where a chunk ends.
ChunkEnd(n, k) == IF k * ChunkBytes < n THEN k * ChunkBytes ELSE n

ChunkCount(n) == (n + ChunkBytes - 1) \div ChunkBytes

LEMMA ChunkEnds ==
    ASSUME NEW n \in Nat
    PROVE  /\ ChunkCount(n) \in Nat /\ ChunkEnd(n, 0) = 0 /\ ChunkEnd(n, ChunkCount(n)) = n
           /\ \A k \in Nat : ChunkEnd(n, k) \in 0..n
           /\ \A k \in 1..ChunkCount(n) :
                 /\ ChunkEnd(n, k - 1) = (k - 1) * ChunkBytes
                 /\ ChunkEnd(n, k) - ChunkEnd(n, k - 1) \in 1..ChunkBytes
<1> DEFINE B == ChunkBytes
           c == ChunkCount(n)
<1>1. B \in Nat \ {0}
    BY ItemsAssumption
<1>2. c \in Nat /\ c * B >= n /\ c * B < n + B
    <2> DEFINE r == (n + B - 1) % B
    <2>1. n + B - 1 \in Nat
        BY <1>1
    <2>2. n + B - 1 = B * c + r /\ r \in 0..(B - 1)
        BY <1>1, <2>1 DEF ChunkCount
    <2>3. c \in Nat
        BY <1>1, <2>1 DEF ChunkCount
    <2> HIDE DEF c, B, r
    <2> QED
        BY <1>1, <2>1, <2>2, <2>3
<1>3. \A k \in Nat : k * B \in Nat
    BY <1>1
<1> HIDE DEF B, c
<1>4. ASSUME NEW k \in 1..c PROVE /\ k - 1 \in Nat /\ (k - 1) * B < n /\ k * B = (k - 1) * B + B
    <2>1. k - 1 \in Nat /\ c - 1 \in Nat /\ k - 1 <= c - 1
        BY <1>2
    <2>2. (k - 1) * B <= (c - 1) * B
        <3>1. \A x, y, z \in Nat : x <= y => x * z <= y * z
            OBVIOUS
        <3> QED
            BY <1>1, <2>1, <3>1
    <2>3. c * B = (c - 1) * B + B
        BY <1>1, <1>2, <2>1
    <2>4. k * B = (k - 1) * B + B
        BY <1>1, <2>1
    <2>5. (k - 1) * B \in Nat /\ (c - 1) * B \in Nat /\ c * B \in Nat
        BY <1>2, <1>3, <2>1
    <2> QED
        BY <1>1, <1>2, <2>1, <2>2, <2>3, <2>4, <2>5
<1>5. \A k \in Nat : ChunkEnd(n, k) = IF k * B < n THEN k * B ELSE n
    BY DEF ChunkEnd, B
<1>6. ChunkEnd(n, 0) = 0
    <2>1. 0 * B = 0
        BY <1>1
    <2> QED
        BY <1>5, <2>1
<1>7. ChunkEnd(n, c) = n
    BY <1>2, <1>3, <1>5
<1>8. \A k \in Nat : ChunkEnd(n, k) \in 0..n
    BY <1>3, <1>5
<1>9. ASSUME NEW k \in 1..c
      PROVE  /\ ChunkEnd(n, k - 1) = (k - 1) * B
             /\ ChunkEnd(n, k) - ChunkEnd(n, k - 1) \in 1..B
    <2>1. ChunkEnd(n, k - 1) = (k - 1) * B
        BY <1>4, <1>5
    <2>2. k \in Nat /\ (k - 1) * B \in Nat /\ k * B \in Nat
        BY <1>2, <1>3, <1>4
    <2>3. CASE k * B < n
        BY <1>1, <1>4, <1>5, <2>1, <2>2, <2>3
    <2>4. CASE ~(k * B < n)
        <3>1. ChunkEnd(n, k) = n
            BY <1>5, <2>2, <2>4
        <3> QED
            BY <1>1, <1>4, <2>1, <2>2, <2>4, <3>1
    <2> QED
        BY <2>1, <2>3, <2>4
<1> QED
    BY <1>2, <1>6, <1>7, <1>8, <1>9 DEF B, c

\* P[k] is what the first k chunks bring.
InChunks(bytes, c, P) ==
    /\ c \in Nat /\ DOMAIN ImageChunks(bytes) = 1..c /\ P[0] = <<>> /\ P[c] = bytes
    /\ \A i \in 1..c :
          /\ P[i - 1] \in Seq(Nat) /\ ImageChunks(bytes)[i] \in Seq(Nat) /\ P[i] \in Seq(Nat)
          /\ P[i] = P[i - 1] \o ImageChunks(bytes)[i]
          /\ Len(ImageChunks(bytes)[i]) \in 1..ChunkBytes
          /\ Len(P[i - 1]) + Len(ImageChunks(bytes)[i]) <= Len(bytes)

LEMMA ChunksOfAPicture ==
    ASSUME NEW bytes \in Seq(Nat), NEW c, c = ChunkCount(Len(bytes)),
           NEW P, P = [k \in 0..c |-> SubSeq(bytes, 1, ChunkEnd(Len(bytes), k))]
    PROVE  InChunks(bytes, c, P)
<1> DEFINE n == Len(bytes)
           q == ImageChunks(bytes)
           E(k) == ChunkEnd(n, k)
<1>1. n \in Nat
    BY LenProperties
<1>2. c \in Nat /\ E(0) = 0 /\ E(c) = n /\ (\A k \in Nat : E(k) \in 0..n)
      /\ \A k \in 1..c : E(k - 1) = (k - 1) * ChunkBytes /\ E(k) - E(k - 1) \in 1..ChunkBytes
    BY <1>1, ChunkEnds
<1>3. q = [i \in 1..c |-> SubSeq(bytes, (i - 1) * ChunkBytes + 1, E(i))]
    BY DEF ImageChunks, ChunkCount, ChunkEnd
<1> HIDE DEF q, E, n
<1>4. P = [k \in 0..c |-> SubSeq(bytes, 1, E(k))]
    BY DEF E, n
<1>5. P[0] = <<>> /\ P[c] = bytes
    <2>1. P[0] = SubSeq(bytes, 1, 0) /\ P[c] = SubSeq(bytes, 1, n)
        <3>1. 0 \in 0..c /\ c \in 0..c
            BY <1>2
        <3>2. P[0] = SubSeq(bytes, 1, E(0)) /\ P[c] = SubSeq(bytes, 1, E(c))
            BY <1>4, <3>1
        <3> QED
            BY <1>2, <3>2
    <2>2. SubSeq(bytes, 1, 0) = <<>>
        BY SubSeqEmpty
    <2>3. SubSeq(bytes, 1, n) \in Seq(Nat) /\ Len(SubSeq(bytes, 1, n)) = n
          /\ \A j \in 1..n : SubSeq(bytes, 1, n)[j] = bytes[j]
        <3>1. n \in Int /\ 1 \in Int /\ \A j \in 1..n : bytes[j] \in Nat
            BY <1>1, ElementOfSeq DEF n
        <3>2. /\ SubSeq(bytes, 1, n) \in Seq(Nat)
              /\ Len(SubSeq(bytes, 1, n)) = IF 1 <= n THEN n - 1 + 1 ELSE 0
              /\ \A j \in 1..(n - 1 + 1) : SubSeq(bytes, 1, n)[j] = bytes[1 + j - 1]
            BY <3>1, SubSeqProperties
        <3>3. n - 1 + 1 = n /\ (~(1 <= n) => n = 0) /\ \A j \in 1..n : 1 + j - 1 = j
            BY <1>1
        <3> QED
            BY <3>2, <3>3
    <2>4. SubSeq(bytes, 1, n) = bytes
        BY <2>3, SeqEqual DEF n
    <2> QED
        BY <2>1, <2>2, <2>4
<1>6. ASSUME NEW i \in 1..c
      PROVE  /\ P[i - 1] \in Seq(Nat) /\ q[i] \in Seq(Nat) /\ P[i] \in Seq(Nat)
             /\ P[i] = P[i - 1] \o q[i] /\ Len(q[i]) \in 1..ChunkBytes
             /\ Len(P[i - 1]) + Len(q[i]) <= n
    <2> DEFINE a == E(i - 1)
               b == E(i)
    <2>1. i \in Nat /\ i - 1 \in Nat /\ i \in 0..c /\ i - 1 \in 0..c
        BY <1>2
    <2>2. a \in Nat /\ b \in Nat /\ a <= b /\ b <= n /\ b - a \in 1..ChunkBytes /\ a = (i - 1) * ChunkBytes
        <3>1. a \in 0..n /\ b \in 0..n /\ b - a \in 1..ChunkBytes /\ a = (i - 1) * ChunkBytes
            BY <1>2, <2>1
        <3>2. ChunkBytes \in Nat
            BY ItemsAssumption
        <3> HIDE DEF a, b
        <3> QED
            BY <1>1, <3>1, <3>2
    <2>3. P[i - 1] = SubSeq(bytes, 1, a) /\ P[i] = SubSeq(bytes, 1, b) /\ q[i] = SubSeq(bytes, a + 1, b)
        BY <1>3, <1>4, <2>1, <2>2
    <2> HIDE DEF a, b
    <2>4. /\ SubSeq(bytes, 1, a) \in Seq(Nat) /\ Len(SubSeq(bytes, 1, a)) = a
          /\ SubSeq(bytes, a + 1, b) \in Seq(Nat) /\ Len(SubSeq(bytes, a + 1, b)) = b - a
          /\ SubSeq(bytes, 1, a) \o SubSeq(bytes, a + 1, b) = SubSeq(bytes, 1, b)
        <3>1. a \in Nat /\ b \in Nat /\ a <= b /\ b <= Len(bytes)
            BY <2>2 DEF n
        <3>2. SubSeq(bytes, 1, a) \in Seq(Nat) /\ Len(SubSeq(bytes, 1, a)) = a
            BY <3>1, PrefixAndRest
        <3>3. SubSeq(bytes, a + 1, b) \in Seq(Nat) /\ Len(SubSeq(bytes, a + 1, b)) = b - a
            BY <3>1, PrefixAndRest
        <3>4. SubSeq(bytes, 1, a) \o SubSeq(bytes, a + 1, b) = SubSeq(bytes, 1, b)
            BY <3>1, PrefixAndRest
        <3> QED
            BY <3>2, <3>3, <3>4
    <2>5. P[i] \in Seq(Nat)
        <3>1. SubSeq(bytes, 1, a) \o SubSeq(bytes, a + 1, b) \in Seq(Nat)
            BY <2>4, ConcatProperties
        <3> QED
            BY <2>3, <2>4, <3>1
    <2>6. Len(P[i - 1]) + Len(q[i]) <= n
        <3>1. a + (b - a) = b
            BY <2>2
        <3> QED
            BY <2>2, <2>3, <2>4, <3>1
    <2> QED
        BY <2>2, <2>3, <2>4, <2>5, <2>6
<1>7. DOMAIN q = 1..c
    BY <1>3
<1> QED
    BY <1>2, <1>5, <1>6, <1>7 DEF q, n, InChunks

LEMMA PictureIsInChunks ==
    ASSUME NEW bytes \in Seq(Nat)
    PROVE  \E P : InChunks(bytes, ChunkCount(Len(bytes)), P)
<1> DEFINE c == ChunkCount(Len(bytes))
           P == [k \in 0..c |-> SubSeq(bytes, 1, ChunkEnd(Len(bytes), k))]
<1>1. c = ChunkCount(Len(bytes))
    OBVIOUS
<1> HIDE DEF c
<1>2. P = [k \in 0..c |-> SubSeq(bytes, 1, ChunkEnd(Len(bytes), k))]
    OBVIOUS
<1> HIDE DEF P
<1>3. InChunks(bytes, c, P)
    BY <1>1, <1>2, ChunksOfAPicture
<1> QED
    BY <1>1, <1>3

ImageErrors ==
    {"image_hash_mismatch", "image_too_large", "image_invalid", "image_incomplete", "image_unavailable"}

\* Pictures, read or not, whole or on their way.
ImageRecord(V) ==
    [kind : {"image"}, id : V \X V, turn : V, role : V, mime : {"png", "jpeg", Absent}, length : Nat,
     sha : Seq(Nat), bytes : Seq(Nat), complete : BOOLEAN, next : Nat, error : ImageErrors \cup {Absent}]

\* Two pictures that agree in every field are the same.
LEMMA ImagesAreEqual ==
    ASSUME NEW V, NEW x \in ImageRecord(V), NEW y \in ImageRecord(V),
           x.id = y.id, x.turn = y.turn, x.role = y.role, x.mime = y.mime, x.length = y.length,
           x.sha = y.sha, x.bytes = y.bytes, x.complete = y.complete, x.next = y.next, x.error = y.error
    PROVE  x = y
<1>1. x = [kind |-> x.kind, id |-> x.id, turn |-> x.turn, role |-> x.role, mime |-> x.mime,
           length |-> x.length, sha |-> x.sha, bytes |-> x.bytes, complete |-> x.complete,
           next |-> x.next, error |-> x.error]
    BY DEF ImageRecord
<1>2. y = [kind |-> y.kind, id |-> y.id, turn |-> y.turn, role |-> y.role, mime |-> y.mime,
           length |-> y.length, sha |-> y.sha, bytes |-> y.bytes, complete |-> y.complete,
           next |-> y.next, error |-> y.error]
    BY DEF ImageRecord
<1>3. x.kind = y.kind
    BY DEF ImageRecord
<1> QED
    BY <1>1, <1>2, <1>3, Zenon

\* A picture of which the first k chunks, with the bytes b, have come.
PartOf(e, b, k) ==
    [kind |-> "image", id |-> e.id, turn |-> e.turn, role |-> e.role, mime |-> e.mime, length |-> e.length,
     sha |-> <<>>, bytes |-> b, complete |-> FALSE, next |-> k, error |-> Absent]

IsPart(x, V, e, b, k) ==
    /\ x \in ImageRecord(V) /\ x.kind = "image" /\ x.id = e.id /\ x.turn = e.turn
    /\ x.role = e.role /\ x.mime = e.mime /\ x.length = e.length /\ x.sha = <<>> /\ x.bytes = b
    /\ x.complete = FALSE /\ x.next = k /\ x.error = Absent

LEMMA PartIsImage ==
    ASSUME NEW V, NEW e \in ImageRecord(V), NEW b \in Seq(Nat), NEW k \in Nat
    PROVE  IsPart(PartOf(e, b, k), V, e, b, k)
BY DEF PartOf, ImageRecord, IsPart

Grown(x, b, k) == [x EXCEPT !.bytes = b, !.next = k]

LEMMA PartGrows ==
    ASSUME NEW V, NEW e \in ImageRecord(V), NEW b \in Seq(Nat), NEW k \in Nat,
           NEW d \in Seq(Nat), NEW j \in Nat
    PROVE  Grown(PartOf(e, b, k), d, j) = PartOf(e, d, j)
<1> DEFINE x == PartOf(e, b, k)
           y == [x EXCEPT !.bytes = d, !.next = j]
<1>1. /\ x \in ImageRecord(V) /\ x.id = e.id /\ x.turn = e.turn /\ x.role = e.role /\ x.mime = e.mime
      /\ x.length = e.length /\ x.sha = <<>> /\ x.complete = FALSE /\ x.error = Absent
    <2>1. IsPart(x, V, e, b, k)
        BY PartIsImage
    <2> HIDE DEF x
    <2> QED
        BY <2>1 DEF IsPart
<1> HIDE DEF x
<1>2. /\ y \in ImageRecord(V) /\ y.id = x.id /\ y.turn = x.turn /\ y.role = x.role /\ y.mime = x.mime
      /\ y.length = x.length /\ y.sha = x.sha /\ y.bytes = d /\ y.complete = x.complete /\ y.next = j
      /\ y.error = x.error
    BY <1>1 DEF ImageRecord
<1> HIDE DEF y
<1>3. y = PartOf(e, d, j)
    <2> DEFINE z == PartOf(e, d, j)
    <2>1. IsPart(z, V, e, d, j)
        BY PartIsImage
    <2> HIDE DEF z
    <2>2. y = z
        BY <1>1, <1>2, <2>1, ImagesAreEqual DEF IsPart
    <2> QED
        BY <2>2 DEF z
<1> QED
    BY <1>3 DEF x, y, Grown

LEMMA PartIsWhole ==
    ASSUME NEW V, NEW e \in ImageRecord(V), e.error = Absent, e.complete = TRUE, e.sha = e.bytes
    PROVE  [PartOf(e, e.bytes, e.next) EXCEPT !.sha = e.bytes, !.complete = TRUE] = e
<1> DEFINE x == PartOf(e, e.bytes, e.next)
           y == [x EXCEPT !.sha = e.bytes, !.complete = TRUE]
<1>0. e.bytes \in Seq(Nat) /\ e.next \in Nat
    BY DEF ImageRecord
<1>1. /\ x \in ImageRecord(V) /\ x.id = e.id /\ x.turn = e.turn /\ x.role = e.role /\ x.mime = e.mime
      /\ x.length = e.length /\ x.bytes = e.bytes /\ x.next = e.next /\ x.error = Absent
    <2>1. IsPart(x, V, e, e.bytes, e.next)
        BY <1>0, PartIsImage
    <2> HIDE DEF x
    <2> QED
        BY <2>1 DEF IsPart
<1> HIDE DEF x
<1>2. /\ y \in ImageRecord(V) /\ y.id = x.id /\ y.turn = x.turn /\ y.role = x.role /\ y.mime = x.mime
      /\ y.length = x.length /\ y.sha = e.bytes /\ y.bytes = x.bytes /\ y.complete = TRUE /\ y.next = x.next
      /\ y.error = x.error
    BY <1>0, <1>1 DEF ImageRecord
<1> HIDE DEF y
<1>3. y = e
    BY <1>1, <1>2, ImagesAreEqual
<1> QED
    BY <1>3 DEF x, y

IsNew(x, V, f) ==
    /\ x \in ImageRecord(V) /\ x.id = f.id /\ x.turn = f.turn /\ x.role = f.role /\ x.mime = Absent
    /\ x.length = 0 /\ x.sha = <<>> /\ x.bytes = <<>> /\ x.complete = FALSE /\ x.next = 0 /\ x.error = Absent

LEMMA ANewImage ==
    ASSUME NEW V, NEW f, f.id \in V \X V, f.turn \in V, f.role \in V
    PROVE  IsNew(NewImage(f), V, f)
BY DEF NewImage, ImageRecord, IsNew

LEMMA PartStarts ==
    ASSUME NEW V, NEW e \in ImageRecord(V), NEW f, f.id = e.id, f.turn = e.turn, f.role = e.role
    PROVE  [NewImage(f) EXCEPT !.mime = e.mime, !.length = e.length] = PartOf(e, <<>>, 0)
<1> DEFINE x == NewImage(f)
           y == [x EXCEPT !.mime = e.mime, !.length = e.length]
<1>0. /\ e.id \in V \X V /\ e.turn \in V /\ e.role \in V
      /\ e.mime \in {"png", "jpeg", Absent} /\ e.length \in Nat
    BY DEF ImageRecord
<1>1. /\ x \in ImageRecord(V) /\ x.id = e.id /\ x.turn = e.turn /\ x.role = e.role /\ x.sha = <<>>
      /\ x.bytes = <<>> /\ x.complete = FALSE /\ x.next = 0 /\ x.error = Absent
    <2>1. IsNew(x, V, f)
        BY <1>0, ANewImage
    <2> HIDE DEF x
    <2> QED
        BY <2>1 DEF IsNew
<1> HIDE DEF x
<1>2. /\ y \in ImageRecord(V) /\ y.id = x.id /\ y.turn = x.turn /\ y.role = x.role /\ y.mime = e.mime
      /\ y.length = e.length /\ y.sha = x.sha /\ y.bytes = x.bytes /\ y.complete = x.complete /\ y.next = x.next
      /\ y.error = x.error
    BY <1>0, <1>1 DEF ImageRecord
<1> HIDE DEF y
<1>3. <<>> \in Seq(Nat) /\ 0 \in Nat
    OBVIOUS
<1> DEFINE b == <<>>
           k == 0
<1>4. b \in Seq(Nat) /\ k \in Nat /\ x.bytes = b /\ x.next = k
    BY <1>1
<1> HIDE DEF b, k
<1>5. y = PartOf(e, b, k)
    <2> DEFINE z == PartOf(e, b, k)
    <2>1. IsPart(z, V, e, b, k)
        BY <1>4, PartIsImage
    <2> HIDE DEF z
    <2>2. y = z
        BY <1>1, <1>2, <1>4, <2>1, ImagesAreEqual DEF IsPart
    <2> QED
        BY <2>2 DEF z
<1> QED
    BY <1>5 DEF x, y, b, k

LEMMA FailureIsNew ==
    ASSUME NEW V, NEW e \in ImageRecord(V), e.error \in ImageErrors, e.mime = Absent, e.length = 0,
           e.sha = <<>>, e.bytes = <<>>, e.complete = FALSE, e.next = 0,
           NEW f, f.id = e.id, f.turn = e.turn, f.role = e.role, SafeImageErrorCode(f.code) = e.error
    PROVE  Broken(NewImage(f), f.code) = e
<1> DEFINE x == NewImage(f)
           y == [x EXCEPT !.bytes = <<>>, !.error = e.error]
<1>0. e.id \in V \X V /\ e.turn \in V /\ e.role \in V
    BY DEF ImageRecord
<1>1. /\ x \in ImageRecord(V) /\ x.id = e.id /\ x.turn = e.turn /\ x.role = e.role /\ x.sha = <<>>
      /\ x.mime = Absent /\ x.length = 0
      /\ x.bytes = <<>> /\ x.complete = FALSE /\ x.next = 0 /\ x.error = Absent
    <2>1. IsNew(x, V, f)
        BY <1>0, ANewImage
    <2> HIDE DEF x
    <2> QED
        BY <2>1 DEF IsNew
<1> HIDE DEF x
<1>2. /\ y \in ImageRecord(V) /\ y.id = x.id /\ y.turn = x.turn /\ y.role = x.role /\ y.mime = x.mime
      /\ y.length = x.length /\ y.sha = x.sha /\ y.bytes = <<>> /\ y.complete = x.complete /\ y.next = x.next
      /\ y.error = e.error
    BY <1>0, <1>1 DEF ImageRecord
<1>4. Broken(x, f.code) = y
    BY DEF Broken
<1> HIDE DEF y
<1>3. y = e
    BY <1>1, <1>2, ImagesAreEqual
<1> QED
    BY <1>3, <1>4 DEF x

\* What reading a picture gives: one that is valid, or why there is none.
Reads ==
    {ValidateImage(bytes, claim) : bytes \in Seq(Nat), claim \in {Absent, "png", "jpeg"}}
    \cup {Refused(code) : code \in {"invalid_image", "image_too_large", "image_unavailable", "unsupported_image_type"}}

PictureEntry(V) ==
    {ImageSnapshot(v[1], v[2], v[3], v[4], read) : v \in V \X V \X V \X V, read \in Reads}

IsFailed(e) ==
    /\ e.error \in ImageErrors /\ e.mime = Absent /\ e.length = 0 /\ e.sha = <<>> /\ e.bytes = <<>>
    /\ e.complete = FALSE /\ e.next = 0

IsWhole(e) ==
    /\ e.error = Absent /\ e.bytes # <<>> /\ Len(e.bytes) <= MaxImage
    /\ e.mime = Sniff(e.bytes) /\ e.mime \in {"png", "jpeg"}
    /\ e.length = Len(e.bytes) /\ e.sha = e.bytes /\ e.complete = TRUE /\ e.next = ChunkCount(Len(e.bytes))

LEMMA WhatIsRead ==
    ASSUME NEW read \in Reads
    PROVE  \/ /\ read.error = Absent /\ read.bytes \in Seq(Nat) /\ read.bytes # <<>>
              /\ Len(read.bytes) <= MaxImage /\ read.mime = Sniff(read.bytes)
              /\ read.mime \in {"png", "jpeg"}
           \/ read.error # Absent /\ SafeImageErrorCode(read.error) \in ImageErrors
<1>0. Absent \notin {"png", "jpeg", "image_too_large", "image_invalid", "image_incomplete",
                     "image_hash_mismatch", "image_unavailable", "invalid_image",
                     "unsupported_image_type"}
    BY ItemsAssumption
<1>1. ASSUME NEW code \in {"invalid_image", "image_too_large", "image_unavailable", "unsupported_image_type"},
             read = Refused(code)
      PROVE  read.error # Absent /\ SafeImageErrorCode(read.error) \in ImageErrors
    <2>1. read.error = code
        BY <1>1 DEF Refused
    <2> QED
        BY <1>0, <2>1 DEF SafeImageErrorCode, ImageErrors
<1>2. ASSUME NEW bytes \in Seq(Nat), NEW claim \in {Absent, "png", "jpeg"}, read = ValidateImage(bytes, claim)
      PROVE  \/ /\ read.error = Absent /\ read.bytes \in Seq(Nat) /\ read.bytes # <<>>
                /\ Len(read.bytes) <= MaxImage /\ read.mime = Sniff(read.bytes)
                /\ read.mime \in {"png", "jpeg"}
             \/ read.error # Absent /\ SafeImageErrorCode(read.error) \in ImageErrors
    <2>1. CASE bytes = <<>> \/ Len(bytes) > MaxImage \/ ~(Sniff(bytes) # Absent /\ claim \in {Absent, Sniff(bytes)})
        <3>1. read = Refused("invalid_image") \/ read = Refused("image_too_large")
            BY <1>2, <2>1 DEF ValidateImage
        <3> QED
            BY <1>1, <3>1
    <2>2. CASE bytes # <<>> /\ ~(Len(bytes) > MaxImage) /\ Sniff(bytes) # Absent /\ claim \in {Absent, Sniff(bytes)}
        <3>1. read = [error |-> Absent, mime |-> Sniff(bytes), bytes |-> bytes]
            BY <1>2, <2>2 DEF ValidateImage
        <3>2. Len(bytes) \in Nat /\ MaxImage \in Nat
            BY LenProperties, ItemsAssumption
        <3>3. Sniff(bytes) \in {"png", "jpeg"}
            BY <2>2 DEF Sniff
        <3> QED
            BY <2>2, <3>1, <3>2, <3>3
    <2> QED
        BY <2>1, <2>2
<1> QED
    BY <1>1, <1>2 DEF Reads

LEMMA SnapshotOfARead ==
    ASSUME NEW V, NEW item \in V, NEW place \in V, NEW turn \in V, NEW role \in V, NEW read \in Reads
    PROVE  LET e == ImageSnapshot(item, place, turn, role, read) IN
           e \in ImageRecord(V) /\ (IsWhole(e) \/ IsFailed(e))
<1> DEFINE e == ImageSnapshot(item, place, turn, role, read)
<1>1. CASE /\ read.error = Absent /\ read.bytes \in Seq(Nat) /\ read.bytes # <<>>
           /\ Len(read.bytes) <= MaxImage /\ read.mime = Sniff(read.bytes)
           /\ read.mime \in {"png", "jpeg"}
    <2> DEFINE n == Len(read.bytes)
               w == [kind |-> "image", id |-> <<item, place>>, turn |-> turn, role |-> role,
                     mime |-> read.mime, length |-> n, sha |-> read.bytes, bytes |-> read.bytes,
                     complete |-> TRUE, next |-> ChunkCount(n), error |-> Absent]
    <2>1. e = w
        BY <1>1 DEF ImageSnapshot, ChunkCount
    <2>2. n \in Nat /\ ChunkCount(n) \in Nat
        <3>1. n \in Nat
            BY <1>1, LenProperties
        <3> HIDE DEF n
        <3> QED
            BY <3>1, ChunkEnds
    <2>3. <<item, place>> \in V \X V
        OBVIOUS
    <2>4. w \in ImageRecord(V)
        <3> HIDE DEF n
        <3> QED
            BY <1>1, <2>2, <2>3 DEF ImageRecord
    <2>5. IsWhole(w)
        BY <1>1 DEF IsWhole
    <2> QED
        BY <2>1, <2>4, <2>5
<1>2. CASE read.error # Absent /\ SafeImageErrorCode(read.error) \in ImageErrors
    <2> DEFINE code == SafeImageErrorCode(read.error)
               w == [kind |-> "image", id |-> <<item, place>>, turn |-> turn, role |-> role,
                     mime |-> Absent, length |-> 0, sha |-> <<>>, bytes |-> <<>>,
                     complete |-> FALSE, next |-> 0, error |-> code]
    <2>1. e = w
        BY <1>2 DEF ImageSnapshot
    <2>2. <<item, place>> \in V \X V /\ code \in ImageErrors
        BY <1>2
    <2> HIDE DEF code
    <2>3. w \in ImageRecord(V) /\ IsFailed(w)
        BY <2>2 DEF ImageRecord, IsFailed
    <2> QED
        BY <2>1, <2>3
<1> QED
    BY <1>1, <1>2, WhatIsRead

LEMMA PictureIsWholeOrFailed ==
    ASSUME NEW V, NEW e \in PictureEntry(V)
    PROVE  e \in ImageRecord(V) /\ (IsWhole(e) \/ IsFailed(e))
<1>1. PICK v \in V \X V \X V \X V, read \in Reads : e = ImageSnapshot(v[1], v[2], v[3], v[4], read)
    BY DEF PictureEntry
<1>2. v[1] \in V /\ v[2] \in V /\ v[3] \in V /\ v[4] \in V
    OBVIOUS
<1> QED
    BY <1>1, <1>2, SnapshotOfARead

LEMMA FailureIsAppended ==
    ASSUME NEW V, NEW e \in ImageRecord(V), IsFailed(e), NEW entries,
           Places(entries, "image", e.id) = {}
    PROVE  /\ ImageFrames(e) \in Seq(ToSet(ImageFrames(e)))
           /\ Replay(entries, ImageFrames(e)) = Append(entries, e)
<1> DEFINE f == ImageErrorFrame(e, e.error)
<1>1. e.error # Absent
    BY ItemsAssumption DEF IsFailed, ImageErrors
<1>2. ImageFrames(e) = <<f>>
    BY <1>1 DEF ImageFrames
<1>3. /\ f.op = "image.error" /\ f.id = e.id /\ f.turn = e.turn /\ f.role = e.role /\ f.code = e.error
      /\ Places(entries, "image", f.id) = {}
    BY DEF ImageErrorFrame
<1> HIDE DEF f
<1>4. ApplyFrame(entries, f) = Append(entries, Broken(NewImage(f), f.code))
    BY <1>3 DEF ApplyFrame
<1>5. SafeImageErrorCode(e.error) = e.error
    BY DEF SafeImageErrorCode, IsFailed, ImageErrors
<1>6. SafeImageErrorCode(f.code) = e.error
    BY <1>3, <1>5
<1>7. Broken(NewImage(f), f.code) = e
    BY <1>3, <1>6, FailureIsNew DEF IsFailed
<1>8. Replay(entries, <<f>>) = Append(entries, e)
    BY <1>4, <1>7, OneReplayed
<1>9. <<f>> \in Seq(ToSet(<<f>>))
    BY DEF ToSet
<1> QED
    BY <1>2, <1>8, <1>9

LEMMA WholeIsAppended ==
    ASSUME NEW V, NEW e \in ImageRecord(V), IsWhole(e), NEW S, ImageRecord(V) \subseteq S,
           NEW entries \in Seq(S), Places(entries, "image", e.id) = {}
    PROVE  /\ ImageFrames(e) \in Seq(ToSet(ImageFrames(e)))
           /\ Replay(entries, ImageFrames(e)) = Append(entries, e)
<1> DEFINE n == Len(e.bytes)
           c == ChunkCount(n)
           chunks == ImageChunks(e.bytes)
           I(b, k) == PartOf(e, b, k)
           f == [op |-> "image.start", id |-> e.id, turn |-> e.turn, role |-> e.role,
                 mime |-> e.mime, length |-> e.length]
           middle == [i \in DOMAIN chunks |->
                         [op |-> "image.chunk", id |-> e.id, sequence |-> i - 1, data |-> chunks[i]]]
           h == [op |-> "image.complete", id |-> e.id, sha |-> e.sha]
<1>1. /\ e.error = Absent /\ e.bytes # <<>> /\ Len(e.bytes) <= MaxImage
      /\ e.mime = Sniff(e.bytes) /\ e.mime \in {"png", "jpeg"} /\ e.mime # Absent
      /\ e.length = n /\ e.sha = e.bytes /\ e.complete = TRUE /\ e.next = c
      /\ e.bytes \in Seq(Nat) /\ n \in Nat /\ n >= 1
    <2>1. e.bytes \in Seq(Nat)
        BY DEF ImageRecord
    <2>2. n \in Nat /\ n >= 1
        BY <2>1, EmptySeq DEF IsWhole
    <2> QED
        BY <2>1, <2>2, ItemsAssumption DEF IsWhole
<1>2. PICK P : InChunks(e.bytes, c, P)
    BY <1>1, PictureIsInChunks
<1>3. /\ c \in Nat /\ DOMAIN chunks = 1..c /\ P[0] = <<>> /\ P[c] = e.bytes
      /\ \A i \in 1..c :
            /\ P[i - 1] \in Seq(Nat) /\ chunks[i] \in Seq(Nat) /\ P[i] \in Seq(Nat)
            /\ P[i] = P[i - 1] \o chunks[i] /\ Len(chunks[i]) \in 1..ChunkBytes
            /\ Len(P[i - 1]) + Len(chunks[i]) <= n
    BY <1>2 DEF InChunks
<1>4. ASSUME NEW b \in Seq(Nat), NEW k \in Nat
      PROVE  IsPart(I(b, k), V, e, b, k) /\ I(b, k) \in S
    <2>1. IsPart(I(b, k), V, e, b, k)
        BY PartIsImage
    <2> QED
        BY <2>1 DEF IsPart
<1>5. ImageFrames(e) = (<<f>> \o middle) \o <<h>>
    BY <1>1 DEF ImageFrames
<1>6. Replay(entries, <<f>>) = Append(entries, I(<<>>, 0))
    <2> DEFINE b == <<>>
               k == 0
               x == I(b, k)
    <2>1. /\ f.op = "image.start" /\ f.mime = e.mime /\ f.length = e.length
          /\ f.id = e.id /\ f.turn = e.turn /\ f.role = e.role
        OBVIOUS
    <2>2. b \in Seq(Nat) /\ k \in Nat
        OBVIOUS
    <2> HIDE DEF f
    <2>3. [NewImage(f) EXCEPT !.mime = e.mime, !.length = e.length] = x
        BY <2>1, PartStarts
    <2>4. x.kind = "image" /\ x.id = e.id
        <3> HIDE DEF b, k, I
        <3>1. IsPart(x, V, e, b, k)
            BY <1>4, <2>2
        <3> HIDE DEF x
        <3> QED
            BY <3>1 DEF IsPart
    <2> HIDE DEF x
    <2>5. ApplyFrame(entries, f) = Upsert(entries, x)
        BY <2>1, <2>3 DEF ApplyFrame
    <2>6. Upsert(entries, x) = Append(entries, x)
        BY <2>4 DEF Upsert
    <2> QED
        BY <2>5, <2>6, OneReplayed DEF x, b, k
<1>7. /\ middle \in Seq(ToSet(middle)) /\ Len(middle) = c
      /\ Replay(Append(entries, I(<<>>, 0)), middle) = Append(entries, I(e.bytes, c))
    <2> HIDE DEF n, c, chunks, I
    <2>1. middle = [i \in 1..c |-> [op |-> "image.chunk", id |-> e.id, sequence |-> i - 1, data |-> chunks[i]]]
        BY <1>3
    <2> HIDE DEF middle
    <2>2. middle \in Seq(ToSet(middle)) /\ Len(middle) = c
        BY <1>3, <2>1, PositionsAreSeq
    <2> DEFINE g == [i \in 0..c |-> Append(entries, I(P[i], i))]
    <2>3. ASSUME NEW i \in 1..c PROVE g[i] = ApplyFrame(g[i - 1], middle[i])
        <3> DEFINE x == I(P[i - 1], i - 1)
                   y == I(P[i], i)
                   m == middle[i]
        <3>1. /\ i \in 0..c /\ i - 1 \in 0..c /\ i \in Nat /\ i - 1 \in Nat /\ (i - 1) + 1 = i
              /\ P[i] \in Seq(Nat) /\ P[i - 1] \in Seq(Nat)
            BY <1>3
        <3>2. g[i] = Append(entries, y) /\ g[i - 1] = Append(entries, x)
            BY <3>1
        <3>3. IsPart(x, V, e, P[i - 1], i - 1) /\ x \in S /\ y \in S
            BY <1>4, <3>1
        <3>8. Grown(x, P[i], i) = y
            <4> DEFINE a == P[i - 1]
                       b == P[i]
                       k == i - 1
            <4>1. a \in Seq(Nat) /\ b \in Seq(Nat) /\ k \in Nat /\ i \in Nat
                BY <3>1
            <4> HIDE DEF a, b, k
            <4>2. Grown(PartOf(e, a, k), b, i) = PartOf(e, b, i)
                BY <4>1, PartGrows
            <4> QED
                BY <4>2 DEF a, b, k, I
        <3>4. m.op = "image.chunk" /\ m.id = e.id /\ m.sequence = i - 1 /\ m.data = chunks[i]
            BY <2>1
        <3> HIDE DEF x, y, m, g
        <3>9. /\ x.kind = "image" /\ x.id = e.id /\ x.bytes = P[i - 1] /\ x.next = i - 1
              /\ x.mime = e.mime /\ x.length = n /\ x.complete = FALSE /\ x.error = Absent
            BY <1>1, <3>3 DEF IsPart
        <3>5. ImageFrame(x, m) = y
            <4>1. ImageFrame(x, m) = PutChunk(x, m)
                BY <3>4 DEF ImageFrame
            <4>2. /\ ~(x.mime = Absent \/ x.complete \/ x.error # Absent) /\ m.sequence = x.next
                  /\ Len(m.data) \in 1..ChunkBytes /\ ~(Len(x.bytes) + Len(m.data) > x.length)
                <5>1. Len(P[i - 1]) \in Nat /\ Len(chunks[i]) \in Nat
                    BY <1>3, <3>1, LenProperties
                <5> QED
                    <6>1. ~(x.mime = Absent \/ x.complete \/ x.error # Absent) /\ m.sequence = x.next
                        BY <1>1, <3>4, <3>9
                    <6>2. Len(chunks[i]) \in 1..ChunkBytes /\ Len(P[i - 1]) + Len(chunks[i]) <= n
                        BY <1>3
                    <6>3. ~(Len(P[i - 1]) + Len(chunks[i]) > n)
                        <7> DEFINE a == Len(P[i - 1])
                                   b == Len(chunks[i])
                        <7>1. a \in Nat /\ b \in Nat /\ n \in Nat /\ a + b <= n
                            BY <1>1, <5>1, <6>2
                        <7> HIDE DEF a, b
                        <7>2. ~(a + b > n)
                            BY <7>1
                        <7> QED
                            BY <7>2 DEF a, b
                    <6> QED
                        BY <3>4, <3>9, <6>1, <6>2, <6>3
            <4>3. PutChunk(x, m) = Grown(x, x.bytes \o m.data, x.next + 1)
                BY <4>2 DEF PutChunk, Grown
            <4>4. x.bytes \o m.data = P[i] /\ x.next + 1 = i
                BY <1>3, <3>1, <3>4, <3>9
            <4> QED
                BY <3>8, <4>1, <4>3, <4>4
        <3>6. ApplyFrame(Append(entries, x), m) = Append(entries, y)
            <4>1. m.op \in {"image.chunk", "image.complete"} /\ m.id = x.id /\ ImageFrame(x, m) \in S
                  /\ Places(entries, "image", x.id) = {}
                BY <3>3, <3>4, <3>5, <3>9
            <4>2. ApplyFrame(Append(entries, x), m) = Append(entries, ImageFrame(x, m))
                BY <3>3, <3>9, <4>1, LastImageChanges
            <4> QED
                BY <3>5, <4>2
        <3> QED
            BY <3>2, <3>6 DEF m
    <2>4. g[0] = Append(entries, I(<<>>, 0)) /\ g[c] = Append(entries, I(e.bytes, c))
        <3>1. 0 \in 0..c /\ c \in 0..c
            BY <1>3
        <3> QED
            BY <1>3, <3>1
    <2> HIDE DEF g
    <2>5. Replay(g[0], middle) = g[c]
        BY <2>2, <2>3, ReplayAlong
    <2> QED
        BY <2>2, <2>4, <2>5
<1>8. Replay(Append(entries, I(e.bytes, c)), <<h>>) = Append(entries, e)
    <2> DEFINE x == I(e.bytes, c)
    <2>1. /\ x \in S /\ x.kind = "image" /\ x.id = e.id /\ x.bytes = e.bytes /\ x.mime = e.mime
          /\ x.length = n /\ x.error = Absent
        <3> HIDE DEF n, c, chunks, I
        <3>1. IsPart(x, V, e, e.bytes, c) /\ x \in S
            BY <1>1, <1>3, <1>4
        <3> HIDE DEF x
        <3> QED
            BY <1>1, <3>1 DEF IsPart
    <2>7. [x EXCEPT !.sha = e.bytes, !.complete = TRUE] = e
        BY <1>1, PartIsWhole
    <2>2. h.op = "image.complete" /\ h.id = e.id /\ h.sha = e.bytes
        BY <1>1
    <2>3. e \in S
        OBVIOUS
    <2>4. ValidateImage(e.bytes, e.mime).error = Absent
        <3>1. ValidateImage(e.bytes, e.mime) = [error |-> Absent, mime |-> Sniff(e.bytes), bytes |-> e.bytes]
            <4>1. ~(Len(e.bytes) > MaxImage)
                BY <1>1, ItemsAssumption
            <4> QED
                BY <1>1, <4>1 DEF ValidateImage
        <3> QED
            BY <3>1
    <2>5. ImageFrame(x, h) = e
        <3> HIDE DEF x, h, I, n, c
        <3>1. ImageFrame(x, h) = Finished(x, h)
            BY <2>2 DEF ImageFrame
        <3>2. Finished(x, h) = [x EXCEPT !.sha = x.bytes, !.complete = TRUE]
            BY <1>1, <2>1, <2>2, <2>4 DEF Finished, n
        <3> QED
            BY <2>1, <2>7, <3>1, <3>2
    <2> HIDE DEF x, h, I, n, c
    <2>6. ApplyFrame(Append(entries, x), h) = Append(entries, e)
        <3>1. h.op \in {"image.chunk", "image.complete"} /\ h.id = x.id /\ ImageFrame(x, h) \in S
              /\ Places(entries, "image", x.id) = {}
            BY <2>1, <2>2, <2>3, <2>5
        <3>2. ApplyFrame(Append(entries, x), h) = Append(entries, ImageFrame(x, h))
            BY <2>1, <3>1, LastImageChanges
        <3> QED
            BY <2>5, <3>2
    <2> QED
        BY <2>6, OneReplayed DEF x
<1>9. <<f>> \in Seq(ToSet(<<f>>)) /\ <<h>> \in Seq(ToSet(<<h>>))
    <2> HIDE DEF f, h
    <2>1. <<f>> \in Seq({f}) /\ <<h>> \in Seq({h})
        OBVIOUS
    <2> QED
        BY <2>1, SeqOfItsElements
<1> HIDE DEF f, h, middle, I, c, n
<1> DEFINE q == <<f>> \o middle
           r == <<h>>
           s == <<f>>
<1>10. s \in Seq(ToSet(s)) /\ r \in Seq(ToSet(r)) /\ middle \in Seq(ToSet(middle)) /\ q = s \o middle
    BY <1>7, <1>9
<1>11. ImageFrames(e) = q \o r
    BY <1>5
<1> HIDE DEF q, r, s
<1>12. q \in Seq(ToSet(q))
    BY <1>10, ReplayInParts
<1>13. Replay(entries, q) = Replay(Replay(entries, s), middle)
    BY <1>10, ReplayInParts
<1>14. Replay(entries, q) = Append(entries, I(e.bytes, c))
    BY <1>6, <1>7, <1>13 DEF s
<1>15. q \o r \in Seq(ToSet(q \o r))
    <2> DEFINE S1 == ToSet(q) \cup ToSet(r)
    <2>1. q \in Seq(S1) /\ r \in Seq(S1)
        <3>1. ToSet(q) \subseteq S1 /\ ToSet(r) \subseteq S1
            OBVIOUS
        <3> HIDE DEF S1
        <3> QED
            BY <1>10, <1>12, <3>1, SeqMonotonic
    <2> HIDE DEF S1
    <2>2. q \o r \in Seq(S1)
        BY <2>1, ConcatProperties
    <2> QED
        BY <2>2, SeqOfItsElements
<1>16. Replay(entries, q \o r) = Replay(Replay(entries, q), r)
    <2> DEFINE S1 == ToSet(q) \cup ToSet(r)
    <2>1. q \in Seq(S1) /\ r \in Seq(S1)
        <3>1. ToSet(q) \subseteq S1 /\ ToSet(r) \subseteq S1
            OBVIOUS
        <3> HIDE DEF S1
        <3> QED
            BY <1>10, <1>12, <3>1, SeqMonotonic
    <2> HIDE DEF S1
    <2> QED
        BY <2>1, ReplayInTwoParts
<1> QED
    BY <1>8, <1>11, <1>14, <1>15, <1>16 DEF r
-----------------------------------------------------------------------------
(* A history is sent in frames and put together from them. *)

\* What says how an action or a turn stands.
StatusEntry(V) ==
    [kind : {"activity"}, id : V, turn : V, activity : V, status : V] \cup [kind : {"turn"}, id : V, status : V]

HistoryEntry(V) == MessageEntry(V) \cup PictureEntry(V) \cup StatusEntry(V)

EntryOrPart(V) == MessageEntry(V) \cup ImageRecord(V) \cup StatusEntry(V)

LEMMA EntryIsAppended ==
    ASSUME NEW V, NEW e \in HistoryEntry(V), NEW entries \in Seq(EntryOrPart(V)),
           Places(entries, e.kind, e.id) = {}
    PROVE  /\ e \in EntryOrPart(V) /\ EntryFrames(e) \in Seq(ToSet(EntryFrames(e)))
           /\ Replay(entries, EntryFrames(e)) = Append(entries, e)
<1> DEFINE S == EntryOrPart(V)
<1>0. MessageEntry(V) \subseteq S /\ ImageRecord(V) \subseteq S /\ StatusEntry(V) \subseteq S
    BY DEF EntryOrPart
<1> HIDE DEF S
<1>1. CASE e \in MessageEntry(V)
    <2> DEFINE c == Len(ChunkText(e.text))
    <2>1. e.kind = "message" /\ e.text \in Seq(Point)
        BY <1>1 DEF MessageEntry
    <2>2. ChunkText(e.text) \in Seq(Seq(Point)) /\ FlattenSeq(ChunkText(e.text)) = e.text
        BY <2>1, TextIsChunked
    <2>3. c \in Nat /\ ChunkText(e.text) \in [1..c -> Seq(Point)]
        BY <2>2, LenProperties
    <2> HIDE DEF c
    <2>4. EntryFrames(e) = MessageFrames(e) /\ Places(entries, "message", e.id) = {}
        BY <2>1 DEF EntryFrames
    <2>5. entries \in Seq(S)
        BY DEF S
    <2>6. MessageFrames(e) \in Seq(ToSet(MessageFrames(e)))
        BY <1>0, <1>1, <2>2, <2>3, <2>4, <2>5, MessageIsAppended
    <2>7. Replay(entries, MessageFrames(e)) = Append(entries, e)
        BY <1>0, <1>1, <2>2, <2>3, <2>4, <2>5, MessageIsAppended
    <2>8. e \in S
        BY <1>0, <1>1
    <2> QED
        BY <2>4, <2>6, <2>7, <2>8 DEF S
<1>2. CASE e \in PictureEntry(V)
    <2>1. e \in ImageRecord(V) /\ (IsWhole(e) \/ IsFailed(e))
        BY <1>2, PictureIsWholeOrFailed
    <2>2. e.kind = "image"
        BY <2>1 DEF ImageRecord
    <2>3. EntryFrames(e) = ImageFrames(e) /\ Places(entries, "image", e.id) = {}
        BY <2>2 DEF EntryFrames
    <2>4. entries \in Seq(S)
        BY DEF S
    <2>5. CASE IsWhole(e)
        <3>1. ImageFrames(e) \in Seq(ToSet(ImageFrames(e)))
            BY <1>0, <2>1, <2>3, <2>4, <2>5, WholeIsAppended
        <3>2. Replay(entries, ImageFrames(e)) = Append(entries, e)
            BY <1>0, <2>1, <2>3, <2>4, <2>5, WholeIsAppended
        <3>3. e \in S
            BY <1>0, <2>1
        <3> QED
            BY <2>3, <3>1, <3>2, <3>3 DEF S
    <2>6. CASE IsFailed(e)
        <3>1. ImageFrames(e) \in Seq(ToSet(ImageFrames(e)))
            BY <2>1, <2>3, <2>6, FailureIsAppended
        <3>2. Replay(entries, ImageFrames(e)) = Append(entries, e)
            BY <2>1, <2>3, <2>6, FailureIsAppended
        <3>3. e \in S
            BY <1>0, <2>1
        <3> QED
            BY <2>3, <3>1, <3>2, <3>3 DEF S
    <2> QED
        BY <2>1, <2>5, <2>6
<1>3. CASE e \in StatusEntry(V)
    <2> DEFINE f == [op |-> IF e.kind = "activity" THEN "activity.upsert" ELSE "turn.status", entry |-> e]
    <2>1. e.kind \in {"activity", "turn"}
        BY <1>3 DEF StatusEntry
    <2>2. EntryFrames(e) = <<f>>
        BY <2>1 DEF EntryFrames
    <2>3. f.op \in {"activity.upsert", "turn.status"} /\ f.entry = e
        BY <2>1
    <2> HIDE DEF f
    <2>4. ApplyFrame(entries, f) = Upsert(entries, e)
        BY <2>3 DEF ApplyFrame
    <2>5. Upsert(entries, e) = Append(entries, e)
        BY DEF Upsert
    <2>6. Replay(entries, <<f>>) = Append(entries, e)
        BY <2>4, <2>5, OneReplayed
    <2>7. <<f>> \in Seq({f})
        OBVIOUS
    <2>8. <<f>> \in Seq(ToSet(<<f>>))
        BY <2>7, SeqOfItsElements
    <2>9. e \in S
        BY <1>0, <1>3
    <2> QED
        BY <2>2, <2>6, <2>8, <2>9 DEF S
<1> QED
    BY <1>1, <1>2, <1>3 DEF HistoryEntry

HistoryFrames(entries) == FlattenSeq([i \in DOMAIN entries |-> EntryFrames(entries[i])])

\* No two entries are of the same kind with the same id.
HasKeys(entries) ==
    \A i, j \in 1..Len(entries) :
        entries[i].kind = entries[j].kind /\ entries[i].id = entries[j].id => i = j

\* A history comes back as it was: whatever the entries of a thread are - messages of
\* any text, pictures that were read or were not, what was done, and how a turn ended -
\* replaying the frames that conversationFrames makes of them, from nothing, gives those
\* entries in that order, as long as no two are of the same kind with the same id.
THEOREM HistoryIsRebuilt ==
    ASSUME NEW V, NEW entries \in Seq(HistoryEntry(V)), HasKeys(entries)
    PROVE  Replay(<<>>, HistoryFrames(entries)) = entries
<1> DEFINE n == Len(entries)
           S == EntryOrPart(V)
           q == [i \in DOMAIN entries |-> EntryFrames(entries[i])]
           F == UNION {ToSet(q[i]) : i \in 1..n}
           P(i) == SubSeq(entries, 1, i)
<1>1. n \in Nat /\ DOMAIN entries = 1..n /\ \A i \in 1..n : entries[i] \in HistoryEntry(V)
    BY LenProperties, ElementOfSeq
<1>2. \A i \in 1..n : q[i] = EntryFrames(entries[i])
    BY <1>1
<1>3. ASSUME NEW i \in 1..n
      PROVE  entries[i] \in S /\ q[i] \in Seq(ToSet(q[i]))
    <2> DEFINE e == entries[i]
               none == <<>>
    <2>1. e \in HistoryEntry(V) /\ none \in Seq(EntryOrPart(V)) /\ Places(none, e.kind, e.id) = {}
        BY <1>1 DEF Places
    <2>2. q[i] = EntryFrames(e)
        BY <1>2
    <2> HIDE DEF e, none, q
    <2>3. e \in EntryOrPart(V)
        BY <2>1, EntryIsAppended
    <2>4. EntryFrames(e) \in Seq(ToSet(EntryFrames(e)))
        BY <2>1, EntryIsAppended
    <2> QED
        BY <2>2, <2>3, <2>4 DEF e, S
<1>4. q = [i \in 1..n |-> q[i]]
    BY <1>1
<1> HIDE DEF n, S
<1>5. q \in [1..n -> Seq(F)]
    <2> HIDE DEF q
    <2>1. ASSUME NEW i \in 1..n PROVE q[i] \in Seq(F)
        <3> DEFINE A == ToSet(q[i])
        <3>1. A \subseteq F
            OBVIOUS
        <3>2. q[i] \in Seq(A)
            BY <1>3
        <3> HIDE DEF A, F
        <3> QED
            BY <3>1, <3>2, SeqMonotonic
    <2> HIDE DEF F
    <2> QED
        BY <1>4, <2>1
<1>6. HistoryFrames(entries) = FlattenSeq(q)
    BY DEF HistoryFrames
<1> HIDE DEF q, F
<1>7. PICK G : /\ G \in [0..n -> Seq(F)] /\ G[0] = <<>>
               /\ \A i \in 1..n : G[i] = G[i - 1] \o q[i]
               /\ FlattenSeq(q) = G[n]
    <2>1. n \in Nat /\ q \in [1..n -> Seq(F)]
        BY <1>1, <1>5
    <2> QED
        BY <2>1, Flattening
<1> DEFINE T == {i \in 0..n : Replay(<<>>, G[i]) # P(i)}
<1>8. entries \in Seq(S)
    <2>1. \A i \in 1..n : entries[i] \in S
        BY <1>3
    <2>2. entries \in [1..n -> S]
        <3>1. entries = [i \in 1..n |-> entries[i]]
            BY <1>1, LenProperties DEF n
        <3> QED
            BY <2>1, <3>1
    <2> QED
        <3>1. n \in Nat
            BY <1>1
        <3> QED
            BY <2>2, <3>1
<1>9. Replay(<<>>, G[0]) = P(0)
    <2>1. SubSeq(entries, 1, 0) = <<>>
        BY SubSeqProperties
    <2> QED
        BY <1>7, <2>1, NothingReplayed
<1>10. ASSUME NEW i \in 1..n, Replay(<<>>, G[i - 1]) = P(i - 1)
       PROVE  Replay(<<>>, G[i]) = P(i)
    <2> DEFINE a == P(i - 1)
               e == entries[i]
    <2>1. i \in Nat /\ i - 1 \in 0..n /\ i \in 0..n /\ i - 1 \in Nat
        BY <1>1
    <2>2. G[i - 1] \in Seq(F) /\ q[i] \in Seq(F) /\ G[i] = G[i - 1] \o q[i]
        BY <1>5, <1>7, <2>1
    <2>3. Replay(<<>>, G[i]) = Replay(a, q[i])
        <3> HIDE DEF a
        <3>1. Replay(<<>>, G[i - 1] \o q[i]) = Replay(Replay(<<>>, G[i - 1]), q[i])
            BY <2>2, ReplayInTwoParts
        <3> QED
            BY <1>10, <2>2, <3>1 DEF a
    <2>4. a \in Seq(S) /\ P(i) = Append(a, e) /\ Len(a) = i - 1
        <3>1. i \in 1..Len(entries)
            BY DEF n
        <3>2. SubSeq(entries, 1, i - 1) \in Seq(S)
            BY <1>8, <3>1, PrefixGrows
        <3>3. SubSeq(entries, 1, i) = Append(SubSeq(entries, 1, i - 1), entries[i])
            BY <1>8, <3>1, PrefixGrows
        <3>4. Len(SubSeq(entries, 1, i - 1)) = i - 1
            BY <1>8, <3>1, PrefixGrows
        <3> QED
            BY <3>2, <3>3, <3>4
    <2>5. ASSUME NEW j \in 1..(i - 1) PROVE a[j] = entries[j]
        <3>1. /\ 1 \in Int /\ i - 1 \in Int /\ \A k \in 1..(i - 1) : entries[k] \in S
            BY <1>3, <2>1, <1>1
        <3>2. j \in 1..((i - 1) - 1 + 1) /\ 1 + j - 1 = j
            BY <2>1
        <3>3. a[j] = entries[1 + j - 1]
            BY <3>1, <3>2, SubSeqProperties
        <3> QED
            BY <3>2, <3>3
    <2>6. Places(a, e.kind, e.id) = {}
        <3> HIDE DEF a
        <3>1. DOMAIN a = 1..(i - 1)
            BY <2>4, LenProperties
        <3>2. ASSUME NEW j \in 1..(i - 1) PROVE ~(a[j].kind = e.kind /\ a[j].id = e.id)
            <4>1. j \in 1..n /\ j # i
                BY <1>1, <2>1
            <4> QED
                BY <2>5, <4>1 DEF n, HasKeys
        <3> QED
            BY <3>1, <3>2 DEF Places
    <2>7. e \in HistoryEntry(V) /\ q[i] = EntryFrames(e)
        BY <1>1, <1>2
    <2> HIDE DEF a, e
    <2>8. Replay(a, EntryFrames(e)) = Append(a, e)
        BY <2>4, <2>6, <2>7, EntryIsAppended DEF S
    <2> QED
        BY <2>3, <2>4, <2>7, <2>8
<1>11. T = {}
    <2> SUFFICES ASSUME T # {} PROVE FALSE
        OBVIOUS
    <2>0. T \subseteq Nat
        OBVIOUS
    <2>1. PICK i \in T : \A j \in T : i <= j
        <3> HIDE DEF T
        <3> QED
            BY <2>0, LeastNumber
    <2>2. i \in 0..n /\ Replay(<<>>, G[i]) # P(i)
        BY <2>1
    <2>3. i # 0
        BY <1>9, <2>2
    <2>4. i \in 1..n /\ i - 1 \in 0..n /\ ~(i <= i - 1)
        BY <1>1, <2>2, <2>3
    <2>5. i - 1 \notin T
        <3> HIDE DEF T
        <3> QED
            BY <2>1, <2>4
    <2>6. Replay(<<>>, G[i - 1]) = P(i - 1)
        BY <2>4, <2>5
    <2>7. Replay(<<>>, G[i]) = P(i)
        BY <1>10, <2>4, <2>6
    <2> QED
        BY <2>2, <2>7
<1>12. Replay(<<>>, G[n]) = P(n)
    <2>1. n \in 0..n
        BY <1>1
    <2> QED
        BY <1>11, <2>1
<1>13. P(n) = entries
    BY <1>8, SubSeqFull DEF n
<1> QED
    BY <1>6, <1>7, <1>12, <1>13

=============================================================================

------------------------ MODULE CommandDeliveryProofs ------------------------
(***************************************************************************)
(* Proofs about CommandQueue and about CommandDelivery, which extends it,  *)
(* for every set of commands and threads and every number of lost          *)
(* connections and restarts.                                               *)
(*                                                                         *)
(* The queues: type correctness, at most one turn/start per command, and   *)
(* the implementation of CommandLatch.  The answers: the promises of       *)
(* #handleSessionCommand belong exactly to the commands that are queued or *)
(* being dispatched, and what the cloud is told of a command is the        *)
(* journal's outcome for ever after.                                       *)
(*                                                                         *)
(* The delivery: every step of it is a step of CommandQueue or leaves its  *)
(* variables alone, so what is shown of the queues, the journal and the    *)
(* reports holds here too.  What is acknowledged, stored as processed or   *)
(* resolved has an outcome in the journal; the status of the server is one *)
(* of the reports, and a command with a report never changes its outcome.  *)
(***************************************************************************)
EXTENDS CommandDelivery, SequenceTheorems, FiniteSetTheorems, TLAPS

\* A turn client serves a command of its own thread; the journal agrees with
\* what the client is waiting for, and an unblocked queue is the only one that
\* starts clients.
ClientsAgree ==
    \A t \in Thread :
        LET a == queue[t].active IN
        a # NoClient =>
            /\ running
            /\ thread[a.job] = t
            /\ a.phase \in {"starting", "resuming"} => ~queue[t].blocked
            /\ a.phase = "resuming" => journal[a.job] = "prepared"
            /\ a.phase = "turn_start" => journal[a.job] = "sent_unknown"

\* Commands wait in the queue of their own thread.
PendingAtHome ==
    \A t \in Thread : \A i \in 1..Len(queue[t].pending) : thread[queue[t].pending[i]] = t

\* An unknown outcome blocks its thread, unless it is the one whose turn/start
\* is being awaited right now.
UnknownBlocks ==
    \A c \in Command :
        running /\ journal[c] = "sent_unknown" =>
            LET q == queue[thread[c]] IN
            \/ q.blocked
            \/ q.active # NoClient /\ q.active.job = c /\ q.active.phase = "turn_start"

\* turn/start is written only by the step that makes the outcome unknown.
WrittenOnce ==
    \A c \in Command :
        /\ written[c] \in {0, 1}
        /\ journal[c] \notin {"sent_unknown", "delivered"} => written[c] = 0
        /\ turn[c] # "none" => written[c] = 1

\* A running turn belongs to the client that is active for its thread.
TurnsOwned ==
    \A c \in Command :
        turn[c] = "running" =>
            /\ queue[thread[c]].active # NoClient
            /\ queue[thread[c]].active.job = c
            /\ queue[thread[c]].active.phase \notin {"starting", "resuming"}

IInv == /\ TypeOK /\ ClientsAgree /\ PendingAtHome /\ UnknownBlocks
        /\ WrittenOnce /\ TurnsOwned
-----------------------------------------------------------------------------
\* Pumping keeps a queue well-typed.
LEMMA PumpType ==
    ASSUME NEW q \in Queue
    PROVE  Pump(q) \in Queue
<1>1. CASE q.blocked \/ q.active # NoClient \/ q.pending = <<>>
    BY <1>1 DEF Pump
<1>2. CASE ~(q.blocked \/ q.active # NoClient \/ q.pending = <<>>)
    <2>1. q.pending \in Seq(Command) /\ q.pending # <<>>
        BY <1>2 DEF Queue
    <2>2. Head(q.pending) \in Command /\ Tail(q.pending) \in Seq(Command)
        BY <2>1
    <2>3. NewClient(Head(q.pending)) \in Client
        BY <2>2 DEF NewClient, Client, Phase
    <2>4. QED
        BY <1>2, <2>2, <2>3 DEF Pump, Queue
<1>3. QED
    BY <1>1, <1>2

\* A client that changes its own fields leaves the queues well-typed.
LEMMA BecomeType ==
    ASSUME TypeOK, NEW t \in Thread, NEW a \in Client, NEW b \in BOOLEAN, Become(t, a, b)
    PROVE  queue' \in [Thread -> Queue]
<1>1. queue \in [Thread -> Queue] /\ queue[t] \in Queue
    BY DEF TypeOK
<1>2. [queue[t] EXCEPT !.active = a, !.blocked = b] \in Queue
    BY <1>1 DEF Queue
<1>3. QED
    BY <1>1, <1>2 DEF Become

\* The active client of a well-typed queue.
LEMMA ActiveType ==
    ASSUME TypeOK, NEW t \in Thread, queue[t].active # NoClient
    PROVE  queue[t].active \in Client /\ queue[t].active.job \in Command
<1>1. queue[t] \in Queue
    BY DEF TypeOK
<1>2. queue[t].active \in Client
    BY <1>1 DEF Queue
<1>3. QED
    BY <1>2 DEF Client

\* Settling a command writes values of the right type.
LEMMA ConcludeType ==
    ASSUME TypeOK, NEW t \in Thread, queue[t].active # NoClient,
           NEW s \in Reached, Conclude(t, s)
    PROVE  /\ journal' \in [Command -> JournalState]
           /\ reports' \in [Command -> SUBSET Reached]
           /\ handler' \in [Command -> Handler]
<1>1. queue[t].active.job \in Command
    BY ActiveType
<1>2. reports[queue[t].active.job] \cup {s} \in SUBSET Reached
    BY <1>1 DEF TypeOK
<1>3. QED
    BY <1>1, <1>2 DEF Conclude, TypeOK, JournalState, Reached, Handler

\* Going down resets the volatile state.
LEMMA ProcessDownType ==
    ASSUME TypeOK, ProcessDown
    PROVE  /\ running' \in BOOLEAN
           /\ restarts' \in 0..MaxRestarts
           /\ queue' \in [Thread -> Queue]
           /\ handler' \in [Command -> Handler]
           /\ turn' \in [Command -> TurnState]
<1>1. IdleQueue(FALSE) \in Queue
    BY DEF IdleQueue, Queue
<1>2. queue' \in [Thread -> Queue]
    BY <1>1 DEF ProcessDown
<1>3. restarts' \in 0..MaxRestarts
    BY RestartsAssumption DEF ProcessDown, TypeOK
<1>4. turn' \in [Command -> TurnState]
    BY DEF ProcessDown, TurnsLost, TypeOK, TurnState
<1>5. QED
    BY <1>2, <1>3, <1>4 DEF ProcessDown, Handler

\* A step of a turn client keeps the types.
LEMMA ClientStepType ==
    ASSUME TypeOK, NEW t \in Thread, ClientStep(t)
    PROVE  TypeOK'
<1> DEFINE a == queue[t].active
<1>0. /\ queue[t].blocked \in BOOLEAN
      /\ a # NoClient => a \in Client /\ a.job \in Command /\ a.terminals \in SUBSET {"own", "foreign"}
    <2>1. queue[t] \in Queue
        BY DEF TypeOK
    <2>2. QED
        BY <2>1 DEF Queue, Client
<1>a. ASSUME NEW p \in Phase, NEW b \in BOOLEAN, a # NoClient, Proceed(t, p, b)
      PROVE  queue' \in [Thread -> Queue]
    <2>1. [a EXCEPT !.phase = p] \in Client
        BY <1>0, <1>a DEF Client
    <2>2. QED
        BY <2>1, <1>a, BecomeType DEF Proceed
<1>1. CASE ClientFails(t)
    <2>1. queue' \in [Thread -> Queue]
        BY <1>1, <1>a DEF ClientFails, InPhase, Phase
    <2>2. QED
        BY <1>0, <1>1, <2>1 DEF ClientFails, InPhase, TypeOK, agentVars, Handler
<1>2. CASE ClientReady(t)
    <2>0. a # NoClient
        BY <1>2 DEF ClientReady, InPhase
    <2>1. CASE journal[a.job] \in Reached
        <3>1. Conclude(t, journal[a.job])
            BY <1>2, <2>1 DEF ClientReady
        <3>2. /\ journal' \in [Command -> JournalState]
              /\ reports' \in [Command -> SUBSET Reached]
              /\ handler' \in [Command -> Handler]
            BY <2>0, <2>1, <3>1, ConcludeType
        <3>3. queue' \in [Thread -> Queue]
            BY <1>0, <1>2, <2>0, <2>1, <1>a DEF ClientReady, Phase
        <3>4. QED
            BY <1>2, <3>2, <3>3 DEF ClientReady, TypeOK, agentVars
    <2>2. CASE journal[a.job] \notin Reached
        <3>1. queue' \in [Thread -> Queue]
            BY <1>0, <1>2, <2>0, <2>2, <1>a DEF ClientReady, Phase
        <3>2. QED
            BY <1>0, <1>2, <2>0, <2>2, <3>1 DEF ClientReady, TypeOK, agentVars, JournalState
    <2>3. QED
        BY <2>1, <2>2
<1>3. CASE AttachmentsRejected(t)
    <2>1. a # NoClient
        BY <1>3 DEF AttachmentsRejected, InPhase
    <2>2. queue' \in [Thread -> Queue]
        BY <1>0, <1>3, <2>1, <1>a DEF AttachmentsRejected, Phase
    <2>3. QED
        BY <1>3, <2>1, <2>2, ConcludeType DEF AttachmentsRejected, TypeOK, agentVars, Reached
<1>4. CASE ResumeFails(t)
    <2>1. a # NoClient
        BY <1>4 DEF ResumeFails, InPhase
    <2>2. queue' \in [Thread -> Queue]
        BY <1>0, <1>4, <2>1, <1>a DEF ResumeFails, Phase
    <2>3. QED
        BY <1>4, <2>1, <2>2, ConcludeType DEF ResumeFails, TypeOK, agentVars, Reached
<1>5. CASE BeginDispatch(t)
    <2>1. a # NoClient
        BY <1>5 DEF BeginDispatch, InPhase
    <2>2. queue' \in [Thread -> Queue]
        BY <1>0, <1>5, <2>1, <1>a DEF BeginDispatch, Phase
    <2>3. QED
        BY <1>0, <1>5, <2>1, <2>2 DEF BeginDispatch, TypeOK, JournalState
<1>6. CASE TurnStartSucceeds(t)
    <2>1. a # NoClient
        BY <1>6 DEF TurnStartSucceeds, InPhase
    <2>x. ("own" \in a.terminals) \in BOOLEAN
        OBVIOUS
    <2>2. [a EXCEPT !.phase = "open", !.release = "own" \in a.terminals] \in Client
        BY <1>0, <2>1, <2>x DEF Client, Phase
    <2>3. queue' \in [Thread -> Queue]
        BY <1>0, <1>6, <2>2, BecomeType DEF TurnStartSucceeds
    <2>4. QED
        BY <1>6, <2>1, <2>3, ConcludeType DEF TurnStartSucceeds, TypeOK, agentVars, Reached
<1>7. CASE TurnStartUnknown(t)
    <2>1. a # NoClient
        BY <1>7 DEF TurnStartUnknown, InPhase
    <2>2. [a EXCEPT !.phase = "ambiguous", !.release = a.terminals # {}] \in Client
        BY <1>0, <2>1 DEF Client, Phase
    <2>3. queue' \in [Thread -> Queue]
        BY <1>7, <2>2, BecomeType DEF TurnStartUnknown
    <2>4. QED
        BY <1>7, <2>1, <2>3, ConcludeType DEF TurnStartUnknown, TypeOK, agentVars, Reached
<1>8. CASE ReleaseTimer(t)
    <2>1. queue' \in [Thread -> Queue]
        BY <1>0, <1>8, <1>a DEF ReleaseTimer, Phase
    <2>2. QED
        BY <1>8, <2>1 DEF ReleaseTimer, TypeOK, agentVars
<1>9. CASE UnknownTimer(t)
    <2>1. queue' \in [Thread -> Queue]
        BY <1>0, <1>9, <1>a DEF UnknownTimer, InPhase, Phase
    <2>2. QED
        BY <1>9, <2>1 DEF UnknownTimer, TypeOK, agentVars
<1>10. CASE ClientClosed(t)
    <2>1. queue[t] \in Queue
        BY DEF TypeOK
    <2>2. [queue[t] EXCEPT !.active = NoClient] \in Queue
        BY <2>1 DEF Queue
    <2>3. Pump([queue[t] EXCEPT !.active = NoClient]) \in Queue
        BY <2>2, PumpType
    <2>4. queue' \in [Thread -> Queue]
        BY <1>10, <2>3 DEF ClientClosed, TypeOK
    <2>5. turn' \in [Command -> TurnState]
        BY <1>0, <1>10 DEF ClientClosed, InPhase, TypeOK, TurnState
    <2>6. QED
        BY <1>10, <2>4, <2>5 DEF ClientClosed, TypeOK
<1>11. QED
    BY <1>1, <1>2, <1>3, <1>4, <1>5, <1>6, <1>7, <1>8, <1>9, <1>10 DEF ClientStep

\* What an agent does keeps the types.
LEMMA AgentStepType ==
    ASSUME TypeOK, NEW t \in Thread, AgentStep(t)
    PROVE  TypeOK'
<1> DEFINE a == queue[t].active
<1>0. queue[t].blocked \in BOOLEAN
    <2>1. queue[t] \in Queue
        BY DEF TypeOK
    <2>2. QED
        BY <2>1 DEF Queue
<1>1. a # NoClient /\ a \in Client /\ a.job \in Command
    BY ActiveType DEF AgentStep, AgentStartsTurn, TurnEnds, ForeignTurnEnds, ChildExits
<1>a. ASSUME NEW whose \in {"own", "foreign"}, Observe(t, whose)
      PROVE  queue' \in [Thread -> Queue]
    <2> DEFINE rel == a.release \/ a.phase = "ambiguous" \/ (a.phase = "open" /\ whose = "own")
               b == [a EXCEPT !.terminals = a.terminals \cup {whose}, !.release = rel]
    <2>1. rel \in BOOLEAN /\ a.terminals \cup {whose} \in SUBSET {"own", "foreign"}
        BY <1>1 DEF Client
    <2>2. b \in Client
        BY <1>1, <2>1 DEF Client
    <2>3. Become(t, b, queue[t].blocked)
        BY <1>a DEF Observe
    <2>4. QED
        BY <1>0, <2>2, <2>3, BecomeType
<1>2. CASE AgentStartsTurn(t)
    BY <1>1, <1>2 DEF AgentStartsTurn, TypeOK, TurnState
<1>3. CASE TurnEnds(t)
    <2>1. queue' \in [Thread -> Queue]
        BY <1>3, <1>a DEF TurnEnds
    <2>2. QED
        BY <1>1, <1>3, <2>1 DEF TurnEnds, TypeOK, TurnState
<1>4. CASE ForeignTurnEnds(t)
    <2>1. queue' \in [Thread -> Queue]
        BY <1>4, <1>a DEF ForeignTurnEnds
    <2>2. QED
        BY <1>4, <2>1 DEF ForeignTurnEnds, TypeOK, agentVars
<1>5. CASE ChildExits(t)
    <2>1. [a EXCEPT !.exited = TRUE] \in Client
        BY <1>1 DEF Client
    <2>2. queue' \in [Thread -> Queue]
        BY <1>0, <1>5, <2>1, BecomeType DEF ChildExits
    <2>3. QED
        BY <1>5, <2>2 DEF ChildExits, TypeOK, agentVars
<1>6. QED
    BY <1>2, <1>3, <1>4, <1>5 DEF AgentStep

\* Every step keeps the types.
LEMMA StepType ==
    ASSUME TypeOK, ClientsAgree, [Next]_vars
    PROVE  TypeOK'
<1>0. thread \in [Command -> Thread] /\ \A t \in Thread : queue[t] \in Queue
    BY ThreadAssumption DEF TypeOK
<1>1. CASE UNCHANGED vars
    BY <1>1 DEF vars, TypeOK
<1>2. ASSUME NEW c \in Command, HandleFresh(c) PROVE TypeOK'
    <2>1. thread[c] \in Thread /\ queue[thread[c]] \in Queue
        BY <1>0
    <2>2. Append(queue[thread[c]].pending, c) \in Seq(Command)
        BY <2>1 DEF Queue
    <2>3. Enqueue(queue[thread[c]], c) \in Queue
        BY <2>1, <2>2 DEF Queue, Enqueue
    <2>x. Pump(Enqueue(queue[thread[c]], c)) \in Queue
        BY <2>3, PumpType
    <2>4. queue' \in [Thread -> Queue]
        BY <1>2, <2>1, <2>x DEF HandleFresh, TypeOK
    <2>5. QED
        BY <1>2, <2>4 DEF HandleFresh, TypeOK, agentVars, Handler
<1>3. ASSUME NEW c \in Command, HandleKnown(c) PROVE TypeOK'
    <2>1. thread[c] \in Thread /\ queue[thread[c]] \in Queue
        BY <1>0
    <2>2. \A b \in BOOLEAN :
             [queue[thread[c]] EXCEPT !.active = queue[thread[c]].active, !.blocked = b] \in Queue
        BY <2>1 DEF Queue
    <2>3. (queue[thread[c]].blocked \/ journal[c] = "sent_unknown") \in BOOLEAN
        OBVIOUS
    <2>4. queue' \in [Thread -> Queue]
        BY <1>3, <2>1, <2>2, <2>3 DEF HandleKnown, Become, TypeOK
    <2>5. reports' \in [Command -> SUBSET Reached]
        BY <1>3 DEF HandleKnown, TypeOK
    <2>6. QED
        BY <1>3, <2>4, <2>5 DEF HandleKnown, TypeOK, agentVars, Handler
<1>4. ASSUME NEW t \in Thread, CrashBeforeWrite(t) PROVE TypeOK'
    <2>1. queue[t].active.job \in Command
        BY <1>4, ActiveType DEF CrashBeforeWrite, InPhase
    <2>2. journal' \in [Command -> JournalState]
        BY <1>4, <2>1 DEF CrashBeforeWrite, TypeOK, JournalState
    <2>3. QED
        BY <1>4, <2>2, ProcessDownType DEF CrashBeforeWrite, TypeOK
<1>5. CASE Crash
    BY <1>5, ProcessDownType DEF Crash, TypeOK
<1>6. ASSUME NEW T \in SUBSET Thread, Stop(T) PROVE TypeOK'
    <2>1. journal' \in [Command -> JournalState]
        BY <1>6 DEF Stop, TypeOK, JournalState
    <2>2. ASSUME NEW c \in Command PROVE reports'[c] \in SUBSET Reached
        <3> DEFINE q == queue[thread[c]]
        <3>1. CASE thread[c] \in T /\ InPhase(thread[c], "resuming") /\ q.active.job = c
            BY <1>6, <3>1 DEF Stop, TypeOK, Reached
        <3>2. CASE thread[c] \in T /\ InPhase(thread[c], "turn_start") /\ q.active.job = c
            <4>1. ~InPhase(thread[c], "resuming") /\ journal[c] = "sent_unknown"
                BY <1>0, <3>2 DEF InPhase, ClientsAgree
            <4>2. QED
                BY <1>6, <3>2, <4>1 DEF Stop, TypeOK, Reached
        <3>3. CASE ~(thread[c] \in T /\ q.active.job = c /\
                      (InPhase(thread[c], "resuming") \/ InPhase(thread[c], "turn_start")))
            BY <1>6, <3>3 DEF Stop, TypeOK
        <3>4. QED
            BY <3>1, <3>2, <3>3
    <2>x. reports' \in [Command -> SUBSET Reached]
        BY <1>6, <2>2 DEF Stop
    <2>3. QED
        BY <1>6, <2>1, <2>x, <2>2, ProcessDownType DEF Stop, TypeOK
<1>7. CASE Restart
    <2>1. \A b \in BOOLEAN : IdleQueue(b) \in Queue
        BY DEF IdleQueue, Queue
    <2>2. queue' \in [Thread -> Queue]
        BY <1>7, <2>1 DEF Restart
    <2>3. QED
        BY <1>7, <2>2 DEF Restart, TypeOK, agentVars
<1>8. QED
    BY <1>1, <1>2, <1>3, <1>4, <1>5, <1>6, <1>7, ClientStepType, AgentStepType DEF Next

\* Initial states are well-typed.
LEMMA InitType == Init => TypeOK
    BY RestartsAssumption DEF Init, TypeOK, IdleQueue, Queue, JournalState, Handler, TurnState

\* What a client that changes its own fields leaves alone.
LEMMA BecomeFacts ==
    ASSUME TypeOK, NEW t \in Thread, NEW a, NEW b, Become(t, a, b)
    PROVE  /\ queue'[t].active = a
           /\ queue'[t].blocked = b
           /\ queue'[t].pending = queue[t].pending
           /\ \A u \in Thread \ {t} : queue'[u] = queue[u]
<1>1. queue[t] \in Queue /\ queue \in [Thread -> Queue]
    BY DEF TypeOK
<1>2. QED
    BY <1>1 DEF Become, Queue

\* A pumped queue is the same, or its head moved to a new client.
LEMMA PumpFacts ==
    ASSUME NEW q \in Queue
    PROVE  /\ Pump(q).blocked = q.blocked
           /\ \/ /\ Pump(q) = q
                 /\ q.blocked \/ q.active # NoClient \/ q.pending = <<>>
              \/ /\ ~q.blocked /\ q.active = NoClient /\ q.pending # <<>>
                 /\ Pump(q).active = NewClient(Head(q.pending))
                 /\ Pump(q).active # NoClient
                 /\ Pump(q).pending = Tail(q.pending)
<1>1. CASE q.blocked \/ q.active # NoClient \/ q.pending = <<>>
    BY <1>1 DEF Pump
<1>2. CASE ~(q.blocked \/ q.active # NoClient \/ q.pending = <<>>)
    <2>1. q.pending \in Seq(Command) /\ q.pending # <<>>
        BY <1>2 DEF Queue
    <2>2. NewClient(Head(q.pending)) \in Client
        BY <2>1 DEF NewClient, Client, Phase
    <2>3. NewClient(Head(q.pending)) # NoClient
        BY <2>2, NoClientAssumption
    <2>4. QED
        BY <1>2, <2>3 DEF Pump, Queue
<1>3. QED
    BY <1>1, <1>2

\* A step of a client that stays within its phases keeps what the journal, the
\* blocks and the agent's turns have to do with each other: it changes the
\* journal only for its own job, and only as its phase allows.
LEMMA MoveInv ==
    ASSUME IInv, NEW t \in Thread, queue[t].active # NoClient,
           NEW a \in Client, NEW b \in BOOLEAN, Become(t, a, b),
           a.job = queue[t].active.job,
           running' = running,
           queue[t].blocked => b,
           a.phase \in {"starting", "resuming"} => ~b,
           a.phase = "resuming" => journal'[a.job] = "prepared",
           a.phase = "turn_start" => journal'[a.job] = "sent_unknown",
           journal'[a.job] = "sent_unknown" => b \/ a.phase = "turn_start",
           \A d \in Command \ {a.job} : /\ journal'[d] = journal[d]
                                        /\ written'[d] = written[d]
                                        /\ turn'[d] = turn[d],
           written'[a.job] \in {0, 1},
           journal'[a.job] \notin {"sent_unknown", "delivered"} => written'[a.job] = 0,
           turn'[a.job] # "none" => written'[a.job] = 1,
           turn'[a.job] = "running" => a.phase \notin {"starting", "resuming"}
    PROVE  ClientsAgree' /\ PendingAtHome' /\ UnknownBlocks' /\ WrittenOnce' /\ TurnsOwned'
<1> USE DEF IInv
<1>0. /\ queue'[t].active = a /\ queue'[t].blocked = b
      /\ queue'[t].pending = queue[t].pending
      /\ \A u \in Thread \ {t} : queue'[u] = queue[u]
    BY BecomeFacts
<1>1. /\ a # NoClient /\ a.job \in Command /\ thread[a.job] = t
      /\ \A d \in Command : thread[d] \in Thread
    BY ThreadAssumption, NoClientAssumption, ActiveType DEF ClientsAgree
<1>2. ClientsAgree'
    <2> SUFFICES ASSUME NEW u \in Thread, queue'[u].active # NoClient
                 PROVE  LET x == queue'[u].active IN
                        /\ running'
                        /\ thread[x.job] = u
                        /\ x.phase \in {"starting", "resuming"} => ~queue'[u].blocked
                        /\ x.phase = "resuming" => journal'[x.job] = "prepared"
                        /\ x.phase = "turn_start" => journal'[x.job] = "sent_unknown"
        BY DEF ClientsAgree
    <2>1. CASE u = t
        BY <1>0, <1>1, <2>1 DEF ClientsAgree
    <2>2. CASE u # t
        <3>1. queue[u].active.job \in Command /\ thread[queue[u].active.job] = u
            BY <1>0, <2>2, ActiveType DEF ClientsAgree
        <3>2. journal'[queue[u].active.job] = journal[queue[u].active.job]
            BY <1>1, <2>2, <3>1
        <3>3. QED
            BY <1>0, <2>2, <3>1, <3>2 DEF ClientsAgree
    <2>3. QED
        BY <2>1, <2>2
<1>3. PendingAtHome'
    BY <1>0 DEF PendingAtHome
<1>4. UnknownBlocks'
    <2> SUFFICES ASSUME NEW c \in Command, running', journal'[c] = "sent_unknown"
                 PROVE  LET q == queue'[thread[c]] IN
                        \/ q.blocked
                        \/ q.active # NoClient /\ q.active.job = c /\ q.active.phase = "turn_start"
        BY DEF UnknownBlocks
    <2>1. CASE c = a.job
        BY <1>0, <1>1, <2>1
    <2>2. CASE c # a.job
        <3>1. journal[c] = "sent_unknown" /\ running
            BY <2>2
        <3>2. CASE thread[c] = t
            BY <1>0, <2>2, <3>1, <3>2 DEF UnknownBlocks
        <3>3. CASE thread[c] # t
            BY <1>0, <1>1, <3>1, <3>3 DEF UnknownBlocks
        <3>4. QED
            BY <3>2, <3>3
    <2>3. QED
        BY <2>1, <2>2
<1>5. WrittenOnce'
    BY <1>1 DEF WrittenOnce
<1>6. TurnsOwned'
    <2> SUFFICES ASSUME NEW c \in Command, turn'[c] = "running"
                 PROVE  /\ queue'[thread[c]].active # NoClient
                        /\ queue'[thread[c]].active.job = c
                        /\ queue'[thread[c]].active.phase \notin {"starting", "resuming"}
        BY DEF TurnsOwned
    <2>1. CASE c = a.job
        BY <1>0, <1>1, <2>1
    <2>2. CASE c # a.job
        BY <1>0, <1>1, <2>2 DEF TurnsOwned
    <2>3. QED
        BY <2>1, <2>2
<1>7. QED
    BY <1>2, <1>3, <1>4, <1>5, <1>6

\* Pumping a queue that got a command, or lost its closed client, keeps the
\* same facts.
LEMMA PumpedInv ==
    ASSUME IInv, NEW t \in Thread, NEW q \in Queue,
           queue' = [queue EXCEPT ![t] = Pump(q)],
           q.blocked = queue[t].blocked,
           \A i \in 1..Len(q.pending) : thread[q.pending[i]] = t,
           \/ q.active = queue[t].active
           \/ q.active = NoClient /\ queue[t].active.phase = "closing",
           running, running' = running, journal' = journal, written' = written,
           \A c \in Command : turn'[c] # turn[c] => turn[c] = "running" /\ turn'[c] = "lost",
           \A c \in Command : thread[c] = t /\ turn'[c] = "running" =>
               q.active # NoClient /\ turn[c] = "running"
    PROVE  ClientsAgree' /\ PendingAtHome' /\ UnknownBlocks' /\ WrittenOnce' /\ TurnsOwned'
<1> USE DEF IInv
<1> DEFINE n == Pump(q)
<1>0. /\ queue'[t] = n
      /\ \A u \in Thread \ {t} : queue'[u] = queue[u]
      /\ \A d \in Command : thread[d] \in Thread
    BY ThreadAssumption DEF TypeOK
<1>1. /\ n.blocked = q.blocked
      /\ \/ n = q
         \/ /\ ~q.blocked /\ q.active = NoClient /\ q.pending # <<>>
            /\ n.active = NewClient(Head(q.pending))
            /\ n.active # NoClient
            /\ n.pending = Tail(q.pending)
    BY PumpFacts
<1>2. q.pending \in Seq(Command)
    BY DEF Queue
<1>3. n.active # q.active =>
          /\ thread[n.active.job] = t /\ n.active.phase = "starting"
          /\ ~q.blocked /\ q.active = NoClient
    <2>1. q.pending # <<>> => Head(q.pending) = q.pending[1] /\ 1 \in 1..Len(q.pending)
        BY <1>2
    <2>2. QED
        BY <1>1, <2>1 DEF NewClient
<1>4. ClientsAgree'
    <2> SUFFICES ASSUME NEW u \in Thread, queue'[u].active # NoClient
                 PROVE  LET x == queue'[u].active IN
                        /\ running'
                        /\ thread[x.job] = u
                        /\ x.phase \in {"starting", "resuming"} => ~queue'[u].blocked
                        /\ x.phase = "resuming" => journal'[x.job] = "prepared"
                        /\ x.phase = "turn_start" => journal'[x.job] = "sent_unknown"
        BY DEF ClientsAgree
    <2>1. CASE u = t /\ n.active # q.active
        BY <1>0, <1>1, <1>3, <2>1
    <2>2. CASE u = t /\ n.active = q.active
        BY <1>0, <1>1, <2>2 DEF ClientsAgree
    <2>3. CASE u # t
        BY <1>0, <2>3 DEF ClientsAgree
    <2>4. QED
        BY <2>1, <2>2, <2>3
<1>5. PendingAtHome'
    <2>1. \A i \in 1..Len(n.pending) : thread[n.pending[i]] = t
        <3>1. CASE n = q
            BY <3>1
        <3>2. CASE q.pending # <<>> /\ n.pending = Tail(q.pending)
            <4>1. \A i \in 1..Len(n.pending) :
                      i + 1 \in 1..Len(q.pending) /\ n.pending[i] = q.pending[i + 1]
                BY <1>2, <3>2
            <4>2. QED
                BY <4>1
        <3>3. QED
            BY <1>1, <3>1, <3>2
    <2>2. QED
        BY <1>0, <2>1 DEF PendingAtHome
<1>6. UnknownBlocks'
    <2> SUFFICES ASSUME NEW c \in Command, journal[c] = "sent_unknown"
                 PROVE  LET x == queue'[thread[c]] IN
                        \/ x.blocked
                        \/ x.active # NoClient /\ x.active.job = c /\ x.active.phase = "turn_start"
        BY DEF UnknownBlocks
    <2>1. CASE thread[c] = t
        BY <1>0, <1>1, <2>1 DEF UnknownBlocks
    <2>2. CASE thread[c] # t
        BY <1>0, <2>2 DEF UnknownBlocks
    <2>3. QED
        BY <2>1, <2>2
<1>7. WrittenOnce'
    BY DEF WrittenOnce
<1>8. TurnsOwned'
    <2> SUFFICES ASSUME NEW c \in Command, turn'[c] = "running"
                 PROVE  /\ queue'[thread[c]].active # NoClient
                        /\ queue'[thread[c]].active.job = c
                        /\ queue'[thread[c]].active.phase \notin {"starting", "resuming"}
        BY DEF TurnsOwned
    <2>1. turn[c] = "running"
        OBVIOUS
    <2>2. CASE thread[c] = t
        BY <1>0, <1>1, <2>1, <2>2 DEF TurnsOwned
    <2>3. CASE thread[c] # t
        BY <1>0, <2>1, <2>3 DEF TurnsOwned
    <2>4. QED
        BY <2>2, <2>3
<1>9. QED
    BY <1>4, <1>5, <1>6, <1>7, <1>8

\* Every step of a client keeps them.
LEMMA ClientStepInv ==
    ASSUME IInv, NEW t \in Thread, ClientStep(t)
    PROVE  ClientsAgree' /\ PendingAtHome' /\ UnknownBlocks' /\ WrittenOnce' /\ TurnsOwned'
<1> DEFINE x == queue[t].active
           c == x.job
<1> USE DEF IInv
<1>0. x # NoClient
    BY DEF ClientStep, ClientFails, ClientReady, AttachmentsRejected, ResumeFails,
           BeginDispatch, TurnStartSucceeds, TurnStartUnknown, ReleaseTimer, UnknownTimer,
           ClientClosed, InPhase
<1>1. /\ x \in Client /\ c \in Command /\ x.terminals \in SUBSET {"own", "foreign"}
      /\ queue[t].blocked \in BOOLEAN /\ thread[c] = t /\ running
      /\ queue[t] \in Queue
    BY <1>0, ActiveType DEF TypeOK, Queue, Client, ClientsAgree
<1>2. \A p \in Phase : [x EXCEPT !.phase = p] \in Client
    BY <1>1 DEF Client
<1>3. /\ written[c] \in {0, 1}
      /\ journal[c] \notin {"sent_unknown", "delivered"} => written[c] = 0
      /\ turn[c] # "none" => written[c] = 1
      /\ x.phase \in {"starting", "resuming"} => turn[c] # "running" /\ ~queue[t].blocked
      /\ x.phase = "resuming" => journal[c] = "prepared"
      /\ x.phase = "turn_start" => journal[c] = "sent_unknown"
      /\ journal[c] = "sent_unknown" => queue[t].blocked \/ x.phase = "turn_start"
    BY <1>0, <1>1 DEF WrittenOnce, TurnsOwned, ClientsAgree, UnknownBlocks
<1>4. CASE ClientFails(t)
    <2> DEFINE a == [x EXCEPT !.phase = "closing"]
    <2>1. a \in Client /\ a.job = c /\ a.phase = "closing"
        BY <1>1, <1>2 DEF Client, Phase
    <2>2. Become(t, a, TRUE) /\ UNCHANGED <<running, journal, written, turn>>
        BY <1>4 DEF ClientFails, Proceed, agentVars
    <2>3. QED
        BY <1>0, <1>3, <2>1, <2>2, MoveInv
<1>5. CASE ClientReady(t)
    <2>1. CASE journal[c] \in Reached
        <3> DEFINE a == [x EXCEPT !.phase = "closing"]
                   b == queue[t].blocked \/ journal[c] = "sent_unknown"
        <3>1. a \in Client /\ a.job = c /\ a.phase = "closing"
            BY <1>1, <1>2 DEF Client, Phase
        <3>2. Become(t, a, b) /\ UNCHANGED <<running, written, turn>>
            BY <1>5, <2>1 DEF ClientReady, Proceed, agentVars
        <3>3. \A d \in Command : journal'[d] = journal[d]
            BY <1>1, <1>5, <2>1 DEF ClientReady, Conclude, TypeOK
        <3>4. QED
            BY <1>0, <1>1, <1>3, <3>1, <3>2, <3>3, MoveInv
    <2>2. CASE journal[c] \notin Reached
        <3> DEFINE a == [x EXCEPT !.phase = "resuming"]
        <3>1. a \in Client /\ a.job = c /\ a.phase = "resuming"
            BY <1>1, <1>2 DEF Client, Phase
        <3>2. Become(t, a, queue[t].blocked) /\ UNCHANGED <<running, written, turn>>
            BY <1>5, <2>2 DEF ClientReady, Proceed, agentVars
        <3>3. /\ journal'[c] = "prepared"
              /\ \A d \in Command \ {c} : journal'[d] = journal[d]
            BY <1>1, <1>5, <2>2 DEF ClientReady, TypeOK
        <3>4. x.phase = "starting" /\ written[c] = 0
            BY <1>3, <1>5, <2>2 DEF ClientReady, InPhase, Reached
        <3> HIDE DEF a
        <3>5. QED
            BY <1>0, <1>1, <1>3, <3>1, <3>2, <3>3, <3>4, MoveInv
    <2>3. QED
        BY <2>1, <2>2
<1>6. CASE AttachmentsRejected(t) \/ ResumeFails(t)
    <2> DEFINE a == [x EXCEPT !.phase = "closing"]
    <2>1. a \in Client /\ a.job = c /\ a.phase = "closing"
        BY <1>1, <1>2 DEF Client, Phase
    <2>2. /\ Become(t, a, queue[t].blocked) /\ UNCHANGED <<running, written, turn>>
          /\ x.phase \in {"starting", "resuming"}
          /\ journal[c] \notin Reached
        BY <1>3, <1>6 DEF AttachmentsRejected, ResumeFails, Proceed, agentVars, InPhase, Reached
    <2>3. /\ journal'[c] = "failed"
          /\ \A d \in Command \ {c} : journal'[d] = journal[d]
        BY <1>1, <1>6 DEF AttachmentsRejected, ResumeFails, Conclude, TypeOK
    <2>4. written[c] = 0
        BY <1>3, <2>2 DEF Reached
    <2> HIDE DEF a
    <2>5. QED
        BY <1>0, <1>1, <1>3, <2>1, <2>2, <2>3, <2>4, MoveInv
<1>7. CASE BeginDispatch(t)
    <2> DEFINE a == [x EXCEPT !.phase = "turn_start"]
    <2>1. a \in Client /\ a.job = c /\ a.phase = "turn_start"
        BY <1>1, <1>2 DEF Client, Phase
    <2>2. /\ Become(t, a, queue[t].blocked) /\ UNCHANGED <<running, turn>>
          /\ x.phase = "resuming"
        BY <1>7 DEF BeginDispatch, Proceed, InPhase
    <2>3. written[c] = 0
        BY <1>3, <2>2
    <2>4. /\ journal'[c] = "sent_unknown" /\ written'[c] = 1
          /\ \A d \in Command \ {c} : journal'[d] = journal[d] /\ written'[d] = written[d]
        BY <1>1, <1>7, <2>3 DEF BeginDispatch, TypeOK
    <2> HIDE DEF a
    <2>5. QED
        BY <1>0, <1>1, <1>3, <2>1, <2>2, <2>3, <2>4, MoveInv
<1>8. CASE TurnStartSucceeds(t)
    <2> DEFINE a == [x EXCEPT !.phase = "open", !.release = "own" \in x.terminals]
    <2>1. a \in Client /\ a.job = c /\ a.phase = "open"
        <3>1. ("own" \in x.terminals) \in BOOLEAN
            OBVIOUS
        <3>2. QED
            BY <1>1, <3>1 DEF Client, Phase
    <2>2. Become(t, a, queue[t].blocked) /\ UNCHANGED <<running, written, turn>>
        BY <1>8 DEF TurnStartSucceeds, agentVars
    <2>3. /\ journal'[c] = "delivered"
          /\ \A d \in Command \ {c} : journal'[d] = journal[d]
        BY <1>1, <1>8 DEF TurnStartSucceeds, Conclude, TypeOK
    <2> HIDE DEF a
    <2>4. QED
        BY <1>0, <1>1, <1>3, <2>1, <2>2, <2>3, MoveInv
<1>9. CASE TurnStartUnknown(t)
    <2> DEFINE a == [x EXCEPT !.phase = "ambiguous", !.release = x.terminals # {}]
    <2>1. a \in Client /\ a.job = c /\ a.phase = "ambiguous"
        BY <1>1 DEF Client, Phase
    <2>2. Become(t, a, TRUE) /\ UNCHANGED <<running, written, turn>>
        BY <1>9 DEF TurnStartUnknown, agentVars
    <2>3. /\ x.phase = "turn_start" /\ journal'[c] = "sent_unknown"
          /\ \A d \in Command \ {c} : journal'[d] = journal[d]
        BY <1>1, <1>9 DEF TurnStartUnknown, Conclude, TypeOK, InPhase
    <2>4. QED
        BY <1>0, <1>1, <1>3, <2>1, <2>2, <2>3, MoveInv
<1>10. CASE ReleaseTimer(t) \/ UnknownTimer(t)
    <2> DEFINE a == [x EXCEPT !.phase = "closing"]
    <2>1. a \in Client /\ a.job = c /\ a.phase = "closing"
        BY <1>1, <1>2 DEF Client, Phase
    <2>2. /\ Become(t, a, queue[t].blocked) /\ UNCHANGED <<running, journal, written, turn>>
          /\ x.phase # "turn_start"
        BY <1>10 DEF ReleaseTimer, UnknownTimer, Proceed, agentVars, InPhase
    <2> HIDE DEF a
    <2>3. QED
        BY <1>0, <1>1, <1>3, <2>1, <2>2, MoveInv
<1>11. CASE ClientClosed(t)
    <2> DEFINE q == [queue[t] EXCEPT !.active = NoClient]
    <2>1. /\ q \in Queue /\ q.blocked = queue[t].blocked /\ q.active = NoClient
          /\ q.pending = queue[t].pending
        BY <1>1 DEF Queue
    <2>2. /\ queue' = [queue EXCEPT ![t] = Pump(q)] /\ x.phase = "closing"
          /\ UNCHANGED <<running, journal, written>>
        BY <1>11 DEF ClientClosed, InPhase
    <2>3. \A i \in 1..Len(q.pending) : thread[q.pending[i]] = t
        BY <2>1 DEF PendingAtHome
    <2>4. \A d \in Command : turn'[d] # turn[d] => turn[d] = "running" /\ turn'[d] = "lost"
        BY <1>1, <1>11 DEF ClientClosed, TypeOK
    <2>5. \A d \in Command : thread[d] = t => turn'[d] # "running"
        <3> SUFFICES ASSUME NEW d \in Command, thread[d] = t, turn'[d] = "running" PROVE FALSE
            OBVIOUS
        <3>1. turn[d] = "running"
            BY <2>4
        <3>2. d = c
            BY <3>1 DEF TurnsOwned
        <3>3. QED
            BY <1>1, <1>11, <3>1, <3>2 DEF ClientClosed, TypeOK
    <2> HIDE DEF q
    <2>6. QED
        <3>1. /\ q.active = queue[t].active \/ (q.active = NoClient /\ queue[t].active.phase = "closing")
              /\ running /\ running' = running /\ journal' = journal /\ written' = written
            BY <1>1, <2>1, <2>2
        <3>2. \A d \in Command : thread[d] = t /\ turn'[d] = "running" =>
                  q.active # NoClient /\ turn[d] = "running"
            BY <2>5
        <3>3. q \in Queue /\ q.blocked = queue[t].blocked /\ queue' = [queue EXCEPT ![t] = Pump(q)]
            BY <2>1, <2>2
        <3>4. QED
            BY <3>1, <3>2, <3>3, <2>3, <2>4, PumpedInv, Zenon
<1>12. QED
    BY <1>4, <1>5, <1>6, <1>7, <1>8, <1>9, <1>10, <1>11 DEF ClientStep

\* So does everything an agent does.
LEMMA AgentStepInv ==
    ASSUME IInv, NEW t \in Thread, AgentStep(t)
    PROVE  ClientsAgree' /\ PendingAtHome' /\ UnknownBlocks' /\ WrittenOnce' /\ TurnsOwned'
<1> DEFINE x == queue[t].active
           c == x.job
<1> USE DEF IInv
<1>0. x # NoClient
    BY DEF AgentStep, AgentStartsTurn, TurnEnds, ForeignTurnEnds, ChildExits
<1>1. /\ x \in Client /\ c \in Command /\ x.terminals \in SUBSET {"own", "foreign"}
      /\ queue[t].blocked \in BOOLEAN /\ thread[c] = t /\ running
    BY <1>0, ActiveType DEF TypeOK, Queue, Client, ClientsAgree
<1>2. /\ written[c] \in {0, 1}
      /\ journal[c] \notin {"sent_unknown", "delivered"} => written[c] = 0
      /\ turn[c] # "none" => written[c] = 1
      /\ turn[c] = "running" => x.phase \notin {"starting", "resuming"}
      /\ x.phase \in {"starting", "resuming"} => ~queue[t].blocked
      /\ x.phase = "resuming" => journal[c] = "prepared"
      /\ x.phase = "turn_start" => journal[c] = "sent_unknown"
      /\ journal[c] = "sent_unknown" => queue[t].blocked \/ x.phase = "turn_start"
    BY <1>0, <1>1 DEF WrittenOnce, TurnsOwned, ClientsAgree, UnknownBlocks
<1>3. ASSUME NEW whose \in {"own", "foreign"}, Observe(t, whose)
      PROVE  \E a \in Client : /\ a.job = c /\ a.phase = x.phase
                               /\ Become(t, a, queue[t].blocked)
    <2> DEFINE rel == x.release \/ x.phase = "ambiguous" \/ (x.phase = "open" /\ whose = "own")
               a == [x EXCEPT !.terminals = x.terminals \cup {whose}, !.release = rel]
    <2>1. rel \in BOOLEAN /\ x.terminals \cup {whose} \in SUBSET {"own", "foreign"}
        BY <1>1 DEF Client
    <2>2. a \in Client /\ a.job = c /\ a.phase = x.phase
        BY <1>1, <2>1 DEF Client
    <2>3. Become(t, a, queue[t].blocked)
        BY <1>3 DEF Observe
    <2>4. QED
        BY <2>2, <2>3
<1>4. CASE AgentStartsTurn(t)
    <2>1. /\ UNCHANGED <<running, journal, queue, written>>
          /\ x.phase \in {"turn_start", "ambiguous"} /\ written[c] = 1
          /\ turn'[c] = "running"
          /\ \A d \in Command \ {c} : turn'[d] = turn[d]
        BY <1>1, <1>2, <1>4 DEF AgentStartsTurn, TypeOK
    <2>2. ClientsAgree' /\ PendingAtHome' /\ UnknownBlocks'
        BY <2>1 DEF ClientsAgree, PendingAtHome, UnknownBlocks
    <2>3. WrittenOnce'
        BY <1>1, <2>1 DEF WrittenOnce
    <2>4. TurnsOwned'
        BY <1>0, <1>1, <2>1 DEF TurnsOwned
    <2>5. QED
        BY <2>2, <2>3, <2>4
<1>5. CASE TurnEnds(t)
    <2>1. PICK a \in Client : a.job = c /\ a.phase = x.phase /\ Become(t, a, queue[t].blocked)
        BY <1>3, <1>5 DEF TurnEnds
    <2>2. /\ UNCHANGED <<running, journal, written>>
          /\ turn[c] = "running" /\ turn'[c] = "ended"
          /\ \A d \in Command \ {c} : turn'[d] = turn[d]
        BY <1>1, <1>5 DEF TurnEnds, TypeOK
    <2>3. QED
        BY <1>0, <1>1, <1>2, <2>1, <2>2, MoveInv
<1>6. CASE ForeignTurnEnds(t)
    <2>1. PICK a \in Client : a.job = c /\ a.phase = x.phase /\ Become(t, a, queue[t].blocked)
        BY <1>3, <1>6 DEF ForeignTurnEnds
    <2>2. UNCHANGED <<running, journal, written, turn>>
        BY <1>6 DEF ForeignTurnEnds, agentVars
    <2>3. QED
        BY <1>0, <1>1, <1>2, <2>1, <2>2, MoveInv
<1>7. CASE ChildExits(t)
    <2> DEFINE a == [x EXCEPT !.exited = TRUE]
    <2>1. a \in Client /\ a.job = c /\ a.phase = x.phase
        BY <1>1 DEF Client
    <2>2. Become(t, a, queue[t].blocked) /\ UNCHANGED <<running, journal, written, turn>>
        BY <1>7 DEF ChildExits, agentVars
    <2> HIDE DEF a
    <2>3. QED
        BY <1>0, <1>1, <1>2, <2>1, <2>2, MoveInv
<1>8. QED
    BY <1>4, <1>5, <1>6, <1>7 DEF AgentStep

\* Going down erases queues, clients and running turns; what the journal says
\* of commands that were written stays.
LEMMA DownInv ==
    ASSUME IInv, ProcessDown, written' = written,
           \A c \in Command : journal'[c] \notin {"sent_unknown", "delivered"} => written[c] = 0
    PROVE  ClientsAgree' /\ PendingAtHome' /\ UnknownBlocks' /\ WrittenOnce' /\ TurnsOwned'
<1> USE DEF IInv
<1>1. /\ running' = FALSE
      /\ \A t \in Thread : queue'[t] = IdleQueue(FALSE)
      /\ \A c \in Command : turn'[c] = turn[c] \/ (turn[c] = "running" /\ turn'[c] = "lost")
      /\ \A c \in Command : turn'[c] # "running"
    BY DEF ProcessDown, TurnsLost, TypeOK
<1>2. ClientsAgree' /\ PendingAtHome'
    BY <1>1 DEF ClientsAgree, PendingAtHome, IdleQueue
<1>3. UnknownBlocks'
    BY <1>1 DEF UnknownBlocks
<1>4. WrittenOnce'
    BY <1>1 DEF WrittenOnce
<1>5. TurnsOwned'
    BY <1>1 DEF TurnsOwned
<1>6. QED
    BY <1>2, <1>3, <1>4, <1>5

\* The invariant is inductive.
LEMMA StepIInv ==
    ASSUME IInv, [Next]_vars
    PROVE  IInv'
<1> USE DEF IInv
<1> DEFINE Kept == ClientsAgree' /\ PendingAtHome' /\ UnknownBlocks' /\ WrittenOnce' /\ TurnsOwned'
<1>0. /\ thread \in [Command -> Thread]
      /\ \A t \in Thread : queue[t] \in Queue
    BY ThreadAssumption DEF TypeOK
<1>1. TypeOK'
    BY StepType
<1>2. CASE UNCHANGED vars
    BY <1>1, <1>2 DEF vars, ClientsAgree, PendingAtHome, UnknownBlocks, WrittenOnce, TurnsOwned
<1>3. ASSUME NEW c \in Command, HandleFresh(c) PROVE Kept
    <2> DEFINE t == thread[c]
               q == Enqueue(queue[t], c)
    <2>1. t \in Thread /\ queue[t] \in Queue
        BY <1>0
    <2>2. queue[t].pending \in Seq(Command)
        BY <2>1 DEF Queue
    <2>3. /\ q \in Queue /\ q.blocked = queue[t].blocked /\ q.active = queue[t].active
          /\ q.pending = Append(queue[t].pending, c)
        <3>1. Append(queue[t].pending, c) \in Seq(Command)
            BY <2>2
        <3>2. QED
            BY <2>1, <3>1 DEF Enqueue, Queue
    <2>4. \A i \in 1..Len(q.pending) : thread[q.pending[i]] = t
        BY <2>1, <2>2, <2>3 DEF PendingAtHome
    <2>5. /\ queue' = [queue EXCEPT ![t] = Pump(q)]
          /\ running /\ running' = running /\ journal' = journal /\ written' = written
          /\ turn' = turn
        BY <1>3 DEF HandleFresh, agentVars
    <2>6. \A d \in Command : thread[d] = t /\ turn'[d] = "running" =>
              q.active # NoClient /\ turn[d] = "running"
        BY <2>3, <2>5 DEF TurnsOwned
    <2>7. \A d \in Command : turn'[d] # turn[d] => turn[d] = "running" /\ turn'[d] = "lost"
        BY <2>5
    <2> HIDE DEF q, t
    <2>8. QED
        BY <2>1, <2>3, <2>4, <2>5, <2>6, <2>7, PumpedInv, Zenon
<1>4. ASSUME NEW c \in Command, HandleKnown(c) PROVE Kept
    <2> DEFINE t == thread[c]
               b == queue[t].blocked \/ journal[c] = "sent_unknown"
    <2>1. t \in Thread /\ queue[t] \in Queue
        BY <1>0
    <2>2. /\ queue'[t].active = queue[t].active /\ queue'[t].blocked = b
          /\ queue'[t].pending = queue[t].pending
          /\ \A u \in Thread \ {t} : queue'[u] = queue[u]
        BY <1>4, <2>1, BecomeFacts DEF HandleKnown
    <2>3. UNCHANGED <<running, journal, written, turn>> /\ running
        BY <1>4 DEF HandleKnown, agentVars
    <2>4. b => \/ queue[t].blocked
               \/ queue[t].active # NoClient /\ queue[t].active.phase = "turn_start"
        BY <2>3 DEF UnknownBlocks
    <2>5. ClientsAgree'
        <3> HIDE DEF t, b
        <3>1. ASSUME NEW u \in Thread, queue'[u].active # NoClient
              PROVE  LET x == queue'[u].active IN
                     /\ running'
                     /\ thread[x.job] = u
                     /\ x.phase \in {"starting", "resuming"} => ~queue'[u].blocked
                     /\ x.phase = "resuming" => journal'[x.job] = "prepared"
                     /\ x.phase = "turn_start" => journal'[x.job] = "sent_unknown"
            <4>1. CASE u = t
                BY <2>2, <2>3, <2>4, <3>1, <4>1 DEF ClientsAgree
            <4>2. CASE u # t
                BY <2>2, <2>3, <3>1, <4>2 DEF ClientsAgree
            <4>3. QED
                BY <4>1, <4>2
        <3>2. QED
            BY <3>1 DEF ClientsAgree
    <2>6. PendingAtHome'
        BY <2>2 DEF PendingAtHome
    <2>7. UnknownBlocks'
        <3>1. ASSUME NEW d \in Command, journal[d] = "sent_unknown"
              PROVE  \/ queue'[thread[d]].blocked
                     \/ /\ queue'[thread[d]].active # NoClient
                        /\ queue'[thread[d]].active.job = d
                        /\ queue'[thread[d]].active.phase = "turn_start"
            <4>1. CASE thread[d] = t
                <5>1. \/ queue[t].blocked
                      \/ /\ queue[t].active # NoClient /\ queue[t].active.job = d
                         /\ queue[t].active.phase = "turn_start"
                    BY <2>3, <3>1, <4>1 DEF UnknownBlocks
                <5>2. queue[t].blocked => b
                    OBVIOUS
                <5> HIDE DEF b, t
                <5>3. queue[t].blocked => queue'[t].blocked
                    BY <2>2, <5>2, Zenon
                <5>4. QED
                    BY <2>2, <4>1, <5>1, <5>3
            <4>2. CASE thread[d] # t
                BY <1>0, <2>2, <2>3, <3>1, <4>2 DEF UnknownBlocks
            <4>3. QED
                BY <4>1, <4>2
        <3>2. QED
            BY <2>3, <3>1 DEF UnknownBlocks
    <2>8. WrittenOnce'
        BY <2>3 DEF WrittenOnce
    <2>9. TurnsOwned'
        BY <1>0, <2>2, <2>3 DEF TurnsOwned
    <2>10. QED
        BY <2>5, <2>6, <2>7, <2>8, <2>9
<1>5. ASSUME NEW t \in Thread, CrashBeforeWrite(t) PROVE Kept
    <2>1. \A c \in Command : journal'[c] \notin {"sent_unknown", "delivered"} => written[c] = 0
        BY <1>5 DEF CrashBeforeWrite, TypeOK, WrittenOnce
    <2>2. QED
        BY <1>5, <2>1, DownInv DEF CrashBeforeWrite
<1>6. ASSUME Crash PROVE Kept
    <2>1. ProcessDown /\ journal' = journal /\ written' = written
        BY <1>6 DEF Crash
    <2>2. \A c \in Command : journal'[c] \notin {"sent_unknown", "delivered"} => written[c] = 0
        BY <2>1 DEF WrittenOnce
    <2>3. QED
        BY <2>1, <2>2, DownInv
<1>7. ASSUME NEW T \in SUBSET Thread, Stop(T) PROVE Kept
    <2>1. ASSUME NEW c \in Command, journal'[c] \notin {"sent_unknown", "delivered"}
          PROVE  written[c] = 0
        <3>1. CASE journal'[c] = journal[c]
            BY <2>1, <3>1 DEF WrittenOnce
        <3>2. CASE journal'[c] # journal[c]
            <4>1. InPhase(thread[c], "resuming") /\ queue[thread[c]].active.job = c
                BY <1>7, <3>2 DEF Stop
            <4>2. journal[c] = "prepared"
                BY <1>0, <4>1 DEF InPhase, ClientsAgree
            <4>3. QED
                BY <4>2 DEF WrittenOnce
        <3>3. QED
            BY <3>1, <3>2
    <2>2. QED
        BY <1>7, <2>1, DownInv DEF Stop
<1>8. ASSUME Restart PROVE Kept
    <2>1. /\ \A t \in Thread :
                 /\ queue'[t].active = NoClient /\ queue'[t].pending = <<>>
                 /\ queue'[t].blocked = (\E c \in Command : thread[c] = t /\ journal[c] = "sent_unknown")
          /\ UNCHANGED <<journal, written, turn>> /\ ~running
        BY <1>8 DEF Restart, IdleQueue, agentVars
    <2>2. ClientsAgree' /\ PendingAtHome'
        <3>0. 1..Len(<<>>) = {}
            OBVIOUS
        <3>1. \A t \in Thread : 1..Len(queue'[t].pending) = {}
            BY <2>1, <3>0, Zenon
        <3>2. QED
            BY <2>1, <3>1 DEF ClientsAgree, PendingAtHome
    <2>3. UnknownBlocks'
        BY <1>0, <2>1 DEF UnknownBlocks
    <2>4. WrittenOnce'
        BY <2>1 DEF WrittenOnce
    <2>5. TurnsOwned'
        <3>1. \A c \in Command : turn[c] # "running"
            BY <1>0, <2>1 DEF TurnsOwned, ClientsAgree
        <3>2. QED
            BY <2>1, <3>1 DEF TurnsOwned
    <2>6. QED
        BY <2>2, <2>3, <2>4, <2>5
<1>9. QED
    BY <1>1, <1>2, <1>3, <1>4, <1>5, <1>6, <1>7, <1>8, ClientStepInv, AgentStepInv DEF Next

\* Initially the invariant holds.
LEMMA InitIInv == Init => IInv
<1> SUFFICES ASSUME Init PROVE IInv
    OBVIOUS
<1>1. TypeOK
    BY InitType
<1>2. \A t \in Thread : queue[t].active = NoClient /\ queue[t].pending = <<>>
    BY DEF Init, IdleQueue
<1>3. \A c \in Command : journal[c] = "absent" /\ written[c] = 0 /\ turn[c] = "none"
    BY DEF Init
<1>4. QED
    BY <1>1, <1>2, <1>3
    DEF IInv, ClientsAgree, PendingAtHome, UnknownBlocks, WrittenOnce, TurnsOwned

LEMMA InvariantHolds == Spec => []IInv
    BY InitIInv, StepIInv, PTL DEF Spec

\* Every value of the variables that the initial states and the steps produce
\* is of its type.
THEOREM TypeCorrect == Spec => []TypeOK
    BY InvariantHolds, PTL DEF IInv

\* turn/start is written at most once per command, over all deliveries,
\* crashes and restarts (the promise of dispatchSessionCommand and the journal).
THEOREM AtMostOne == Spec => []AtMostOneTurnStart
<1>1. IInv => AtMostOneTurnStart
    <2>1. \A n \in {0, 1} : n <= 1
        OBVIOUS
    <2>2. QED
        BY <2>1 DEF IInv, WrittenOnce, AtMostOneTurnStart
<1>2. QED
    BY <1>1, InvariantHolds, PTL

\* Turns of one thread never run side by side.
THEOREM Serial == Spec => []SerialTurns
<1>1. IInv => SerialTurns
    BY DEF IInv, TurnsOwned, SerialTurns
<1>2. QED
    BY <1>1, InvariantHolds, PTL
-----------------------------------------------------------------------------
\* Steps that keep the journal's decided states and write nothing are
\* invisible to the latch.
LEMMA LatchStutters ==
    ASSUME written' = written,
           \A c \in Command : journal'[c] # journal[c] =>
               journal[c] \notin Reached /\ journal'[c] \notin Reached
    PROVE  UNCHANGED Latch!vars
<1>1. fateBar' = fateBar
    BY DEF fateBar
<1>2. QED
    BY <1>1 DEF Latch!vars

\* Failing open commands before anything was written is the latch's Refuse.
LEMMA LatchRefuses ==
    ASSUME NEW C \in SUBSET Command, written' = written,
           \A c \in C : journal[c] \notin Reached /\ journal'[c] = "failed",
           \A c \in Command \ C : journal'[c] = journal[c]
    PROVE  Latch!Next
<1>1. \A c \in C : fateBar[c] = "open"
    BY DEF fateBar
<1>2. fateBar' = [c \in Command |-> IF c \in C THEN "failed" ELSE fateBar[c]]
    BY DEF fateBar, Reached
<1>3. QED
    BY <1>1, <1>2 DEF Latch!Next, Latch!Refuse

\* Turning a prepared command of an unblocked thread to sent_unknown is the
\* latch's Start, written or not.
LEMMA LatchStarts ==
    ASSUME IInv, NEW t \in Thread, InPhase(t, "resuming"),
           journal' = [journal EXCEPT ![queue[t].active.job] = "sent_unknown"],
           \/ written' = [written EXCEPT ![queue[t].active.job] = @ + 1]
           \/ written' = written
    PROVE  Latch!Next
<1> DEFINE c == queue[t].active.job
<1>1. /\ c \in Command /\ thread[c] = t /\ running
      /\ journal[c] = "prepared" /\ ~queue[t].blocked
    BY ActiveType DEF InPhase, IInv, ClientsAgree
<1>2. journal \in [Command -> JournalState]
    BY DEF IInv, TypeOK
<1>3. fateBar[c] = "open"
    BY <1>1 DEF fateBar, Reached
<1>4. \A d \in Latch!Siblings(c) : fateBar[d] # "sent_unknown"
    <2> SUFFICES ASSUME NEW d \in Command, d # c, thread[d] = t, fateBar[d] = "sent_unknown"
                 PROVE  FALSE
        BY <1>1 DEF Latch!Siblings
    <2>1. journal[d] = "sent_unknown"
        BY DEF fateBar
    <2>2. QED
        BY <1>1, <2>1 DEF IInv, UnknownBlocks
<1>5. fateBar' = [fateBar EXCEPT ![c] = "sent_unknown"]
    BY <1>1, <1>2 DEF fateBar, Reached
<1> HIDE DEF c
<1>6. Latch!Start(c)
    BY <1>3, <1>4, <1>5 DEF Latch!Start, c
<1>7. QED
    BY <1>1, <1>6 DEF Latch!Next

\* A confirmed turn/start is the latch's Confirm.
LEMMA LatchConfirms ==
    ASSUME IInv, NEW t \in Thread, TurnStartSucceeds(t)
    PROVE  Latch!Next
<1> DEFINE c == queue[t].active.job
<1>1. /\ c \in Command /\ journal[c] = "sent_unknown"
      /\ turn[c] \in {"running", "ended"}
    BY ActiveType DEF TurnStartSucceeds, InPhase, IInv, ClientsAgree
<1>2. written[c] = 1 /\ written' = written
    BY <1>1 DEF IInv, WrittenOnce, TurnStartSucceeds, agentVars
<1>3. journal' = [journal EXCEPT ![c] = "delivered"] /\ journal \in [Command -> JournalState]
    BY DEF TurnStartSucceeds, Conclude, IInv, TypeOK
<1>4. fateBar[c] = "sent_unknown"
    BY <1>1 DEF fateBar, Reached
<1>5. fateBar' = [fateBar EXCEPT ![c] = "delivered"]
    BY <1>1, <1>3 DEF fateBar, Reached
<1> HIDE DEF c
<1>6. Latch!Confirm(c)
    BY <1>2, <1>4, <1>5 DEF Latch!Confirm
<1>7. QED
    BY <1>1, <1>6 DEF Latch!Next

\* A step of a client is a step of the latch or invisible to it.
LEMMA ClientStepLatch ==
    ASSUME IInv, NEW t \in Thread, ClientStep(t)
    PROVE  [Latch!Next]_Latch!vars
<1> DEFINE c == queue[t].active.job
<1>0. queue[t].active # NoClient
    BY DEF ClientStep, ClientFails, ClientReady, AttachmentsRejected, ResumeFails,
           BeginDispatch, TurnStartSucceeds, TurnStartUnknown, ReleaseTimer, UnknownTimer,
           ClientClosed, InPhase
<1>1. c \in Command /\ journal \in [Command -> JournalState]
    BY <1>0, ActiveType DEF IInv, TypeOK
<1>2. CASE AttachmentsRejected(t) \/ ResumeFails(t)
    <2>1. journal[c] \notin Reached
        BY <1>0, <1>2 DEF AttachmentsRejected, ResumeFails, InPhase, IInv, ClientsAgree, Reached
    <2>2. journal' = [journal EXCEPT ![c] = "failed"] /\ written' = written
        BY <1>2 DEF AttachmentsRejected, ResumeFails, Conclude, agentVars
    <2>3. {c} \in SUBSET Command
        BY <1>1
    <2> HIDE DEF c
    <2>4. QED
        BY <1>1, <2>1, <2>2, <2>3, LatchRefuses
<1>3. CASE BeginDispatch(t)
    BY <1>3, LatchStarts DEF BeginDispatch
<1>4. CASE TurnStartSucceeds(t)
    BY <1>4, LatchConfirms
<1>5. CASE ClientReady(t)
    <2>1. written' = written
        BY <1>5 DEF ClientReady, agentVars
    <2>2. CASE journal[c] \in Reached
        <3>1. journal' = [journal EXCEPT ![c] = journal[c]]
            BY <1>5, <2>2 DEF ClientReady, Conclude
        <3>2. QED
            BY <1>1, <2>1, <3>1, LatchStutters
    <2>3. CASE journal[c] \notin Reached
        <3>1. journal' = [journal EXCEPT ![c] = "prepared"]
            BY <1>5, <2>3 DEF ClientReady
        <3>2. QED
            BY <1>1, <2>1, <2>3, <3>1, LatchStutters DEF Reached
    <2>4. QED
        BY <2>2, <2>3
<1>6. CASE TurnStartUnknown(t)
    <2>1. journal[c] = "sent_unknown" /\ written' = written
        BY <1>0, <1>6 DEF TurnStartUnknown, InPhase, IInv, ClientsAgree, agentVars
    <2>2. journal' = [journal EXCEPT ![c] = "sent_unknown"]
        BY <1>6 DEF TurnStartUnknown, Conclude
    <2>3. QED
        BY <1>1, <2>1, <2>2, LatchStutters
<1>7. CASE ClientFails(t) \/ ReleaseTimer(t) \/ UnknownTimer(t) \/ ClientClosed(t)
    <2>1. journal' = journal /\ written' = written
        BY <1>7 DEF ClientFails, ReleaseTimer, UnknownTimer, ClientClosed, agentVars
    <2>2. QED
        BY <2>1, LatchStutters
<1>8. QED
    BY <1>2, <1>3, <1>4, <1>5, <1>6, <1>7 DEF ClientStep

\* Every step is.
LEMMA StepLatch ==
    ASSUME IInv, [Next]_vars
    PROVE  [Latch!Next]_Latch!vars
<1>1. CASE UNCHANGED vars
    BY <1>1, LatchStutters DEF vars
<1>2. ASSUME NEW c \in Command, HandleFresh(c) \/ HandleKnown(c)
      PROVE  UNCHANGED Latch!vars
    <2>1. journal' = journal /\ written' = written
        BY <1>2 DEF HandleFresh, HandleKnown, agentVars
    <2>2. QED
        BY <2>1, LatchStutters
<1>3. ASSUME NEW t \in Thread, AgentStep(t)
      PROVE  UNCHANGED Latch!vars
    <2>1. journal' = journal /\ written' = written
        BY <1>3 DEF AgentStep, AgentStartsTurn, TurnEnds, ForeignTurnEnds, ChildExits, agentVars
    <2>2. QED
        BY <2>1, LatchStutters
<1>4. ASSUME NEW t \in Thread, CrashBeforeWrite(t)
      PROVE  Latch!Next
    BY <1>4, LatchStarts DEF CrashBeforeWrite
<1>5. CASE Crash \/ Restart
    <2>1. journal' = journal /\ written' = written
        BY <1>5 DEF Crash, Restart, agentVars
    <2>2. QED
        BY <2>1, LatchStutters
<1>6. ASSUME NEW T \in SUBSET Thread, Stop(T)
      PROVE  Latch!Next
    <2> DEFINE C == {c \in Command : /\ thread[c] \in T /\ InPhase(thread[c], "resuming")
                                     /\ queue[thread[c]].active.job = c}
    <2>1. \A c \in C : journal[c] \notin Reached
        BY ThreadAssumption DEF InPhase, IInv, ClientsAgree, Reached
    <2>2. /\ \A c \in C : journal'[c] = "failed"
          /\ \A c \in Command \ C : journal'[c] = journal[c]
          /\ written' = written
        BY <1>6 DEF Stop
    <2>3. C \in SUBSET Command
        OBVIOUS
    <2> HIDE DEF C
    <2>4. QED
        BY <2>1, <2>2, <2>3, LatchRefuses
<1>7. QED
    BY <1>1, <1>2, <1>3, <1>4, <1>5, <1>6, ClientStepLatch DEF Next

\* The queues, clients, crashes and restarts of the connector implement
\* CommandLatch: one turn/start per command, none after a refusal, and an
\* unknown outcome that latches its thread against every other command.
THEOREM Implements == Spec => ImplementsLatch
<1>1. Init => Latch!Init
    BY DEF Init, Latch!Init, fateBar, Reached
<1>2. QED
    BY <1>1, StepLatch, InvariantHolds, PTL DEF Spec, ImplementsLatch, Latch!Spec
-----------------------------------------------------------------------------
(* The answers. *)

\* The client of q has not settled the promise of its job.
Dispatches(q) == q.active # NoClient /\ q.active.phase \in Dispatching

\* The commands of thread t with queue q, promises h and reports r: none waits
\* twice or while it is dispatched; what is queued or dispatched is awaited and
\* unreported; and what is awaited is queued or dispatched.
Answers(t, q, h, r) ==
    /\ \A i, j \in 1..Len(q.pending) : q.pending[i] = q.pending[j] => i = j
    /\ \A i \in 1..Len(q.pending) : h[q.pending[i]] = "waiting" /\ r[q.pending[i]] = {}
    /\ Dispatches(q) =>
           /\ h[q.active.job] = "waiting" /\ r[q.active.job] = {}
           /\ \A i \in 1..Len(q.pending) : q.pending[i] # q.active.job
    /\ \A c \in Command :
           thread[c] = t /\ h[c] = "waiting" =>
               \/ \E i \in 1..Len(q.pending) : q.pending[i] = c
               \/ Dispatches(q) /\ q.active.job = c

QueuesAnswer == \A t \in Thread : Answers(t, queue[t], handler, reports)

\* The report of a command is its journal state, and a delivered command has
\* the turn that was confirmed.
ReportsFollow ==
    \A c \in Command :
        /\ reports[c] \subseteq {journal[c]}
        /\ journal[c] = "delivered" => turn[c] # "none"

\* A process that is down has no queues.
DownIsEmpty == ~running => \A t \in Thread : queue[t].pending = <<>>

AInv == IInv /\ QueuesAnswer /\ ReportsFollow /\ DownIsEmpty
-----------------------------------------------------------------------------
\* Pumping moves the head of a queue to a client that dispatches it.
LEMMA PumpAnswers ==
    ASSUME NEW t, NEW q \in Queue, NEW h, NEW r, Answers(t, q, h, r)
    PROVE  Answers(t, Pump(q), h, r)
<1> DEFINE n == Pump(q)
<1>1. CASE n = q
    BY <1>1
<1>2. CASE /\ q.active = NoClient /\ q.pending # <<>>
           /\ n.active = NewClient(Head(q.pending)) /\ n.active # NoClient
           /\ n.pending = Tail(q.pending)
    <2>1. q.pending \in Seq(Command)
        BY DEF Queue
    <2>2. /\ Head(q.pending) = q.pending[1] /\ 1 \in 1..Len(q.pending)
          /\ \A i \in 1..Len(n.pending) : i + 1 \in 1..Len(q.pending)
                                          /\ n.pending[i] = q.pending[i + 1]
          /\ \A i \in 1..Len(q.pending) : i = 1 \/ (i - 1 \in 1..Len(n.pending)
                                                    /\ n.pending[i - 1] = q.pending[i])
        BY <1>2, <2>1
    <2>3. /\ ~Dispatches(q) /\ Dispatches(n) /\ n.active.job = q.pending[1]
        BY <1>2, <2>2 DEF Dispatches, NewClient, Dispatching
    <2>x. /\ \A i \in 1..Len(q.pending) : h[q.pending[i]] = "waiting" /\ r[q.pending[i]] = {}
          /\ \A i, j \in 1..Len(q.pending) : q.pending[i] = q.pending[j] => i = j
        BY DEF Answers
    <2> HIDE DEF n
    <2>4. \A i, j \in 1..Len(n.pending) : n.pending[i] = n.pending[j] => i = j
        BY <2>2 DEF Answers
    <2>5. \A i \in 1..Len(n.pending) : h[n.pending[i]] = "waiting" /\ r[n.pending[i]] = {}
        <3> SUFFICES ASSUME NEW i \in 1..Len(n.pending)
                     PROVE  h[n.pending[i]] = "waiting" /\ r[n.pending[i]] = {}
            OBVIOUS
        <3>1. PICK k \in 1..Len(q.pending) : n.pending[i] = q.pending[k]
            BY <2>2
        <3>2. QED
            BY <2>x, <3>1
    <2>6. /\ h[n.active.job] = "waiting" /\ r[n.active.job] = {}
          /\ \A i \in 1..Len(n.pending) : n.pending[i] # n.active.job
        <3>1. h[q.pending[1]] = "waiting" /\ r[q.pending[1]] = {}
            BY <2>2, <2>x
        <3>2. ASSUME NEW i \in 1..Len(n.pending) PROVE n.pending[i] # q.pending[1]
            <4>1. i + 1 \in 1..Len(q.pending) /\ n.pending[i] = q.pending[i + 1] /\ i + 1 # 1
                BY <2>2
            <4>2. QED
                BY <2>2, <2>x, <4>1
        <3>3. QED
            BY <2>3, <3>1, <3>2
    <2>7. ASSUME NEW c \in Command, thread[c] = t, h[c] = "waiting"
          PROVE  (\E i \in 1..Len(n.pending) : n.pending[i] = c) \/ n.active.job = c
        <3>1. PICK i \in 1..Len(q.pending) : q.pending[i] = c
            BY <2>3, <2>7 DEF Answers
        <3>2. QED
            BY <2>2, <2>3, <3>1
    <2>8. QED
        BY <2>3, <2>4, <2>5, <2>6, <2>7 DEF Answers, n
<1>3. QED
    BY <1>1, <1>2, PumpFacts

\* A step on the commands of one thread leaves those of another alone.
LEMMA AnswersElsewhere ==
    ASSUME IInv, QueuesAnswer, NEW t \in Thread, NEW u \in Thread \ {t},
           queue'[u] = queue[u],
           \A c \in Command : thread[c] # t => /\ handler'[c] = handler[c]
                                               /\ reports'[c] = reports[c]
    PROVE  Answers(u, queue'[u], handler', reports')
<1> DEFINE q == queue[u]
<1>1. /\ Answers(u, q, handler, reports)
      /\ q.pending \in Seq(Command)
      /\ \A i \in 1..Len(q.pending) : thread[q.pending[i]] = u
    BY DEF QueuesAnswer, IInv, TypeOK, Queue, PendingAtHome
<1>2. \A i \in 1..Len(q.pending) : q.pending[i] \in Command
    BY <1>1
<1>3. q.active # NoClient => q.active.job \in Command /\ thread[q.active.job] = u
    BY ActiveType DEF IInv, ClientsAgree
<1> HIDE DEF q
<1>4. \A i \in 1..Len(q.pending) : handler'[q.pending[i]] = "waiting" /\ reports'[q.pending[i]] = {}
    BY <1>1, <1>2 DEF Answers
<1>5. Dispatches(q) => /\ handler'[q.active.job] = "waiting" /\ reports'[q.active.job] = {}
                       /\ \A i \in 1..Len(q.pending) : q.pending[i] # q.active.job
    BY <1>1, <1>3 DEF Answers, Dispatches
<1>6. ASSUME NEW c \in Command, thread[c] = u, handler'[c] = "waiting"
      PROVE  \/ \E i \in 1..Len(q.pending) : q.pending[i] = c
             \/ Dispatches(q) /\ q.active.job = c
    BY <1>1, <1>6 DEF Answers
<1>7. Answers(u, q, handler', reports')
    BY <1>1, <1>4, <1>5, <1>6 DEF Answers
<1>8. QED
    BY <1>7 DEF q

\* A client that moves on keeps the answers of its thread: while it dispatches,
\* its job stays awaited and unreported, and it settles the promise when it
\* stops dispatching.
LEMMA MoveAnswers ==
    ASSUME AInv, NEW t \in Thread, queue[t].active # NoClient,
           NEW a \in Client, NEW b, Become(t, a, b),
           a.job = queue[t].active.job,
           a.phase \in Dispatching => /\ queue[t].active.phase \in Dispatching
                                      /\ handler'[a.job] = handler[a.job]
                                      /\ reports'[a.job] = reports[a.job],
           queue[t].active.phase \in Dispatching /\ a.phase \notin Dispatching =>
               handler'[a.job] # "waiting",
           queue[t].active.phase \notin Dispatching =>
               handler'[a.job] = handler[a.job] /\ reports'[a.job] = reports[a.job],
           \A d \in Command \ {a.job} : handler'[d] = handler[d] /\ reports'[d] = reports[d]
    PROVE  QueuesAnswer'
<1> DEFINE x == queue[t].active
           c == a.job
           p == queue[t].pending
           n == queue'[t]
<1>0. /\ n.active = a /\ n.pending = p
      /\ \A u \in Thread \ {t} : queue'[u] = queue[u]
    BY BecomeFacts DEF AInv, IInv
<1>1. /\ a # NoClient /\ c \in Command /\ thread[c] = t
      /\ Answers(t, queue[t], handler, reports)
      /\ p \in Seq(Command)
    BY NoClientAssumption, ActiveType DEF AInv, IInv, ClientsAgree, QueuesAnswer, TypeOK, Queue
<1>2. /\ Dispatches(queue[t]) <=> x.phase \in Dispatching
      /\ Dispatches(n) <=> a.phase \in Dispatching
    BY <1>0, <1>1 DEF Dispatches
<1>3. \A i \in 1..Len(p) : p[i] \in Command
    BY <1>1
<1>4. x.phase \in Dispatching => \A i \in 1..Len(p) : p[i] # c
    BY <1>1, <1>2 DEF Answers
<1>5. \A i \in 1..Len(p) : handler'[p[i]] = "waiting" /\ reports'[p[i]] = {}
    <2> SUFFICES ASSUME NEW i \in 1..Len(p)
                 PROVE  handler'[p[i]] = handler[p[i]] /\ reports'[p[i]] = reports[p[i]]
        <3>1. \A i \in 1..Len(p) : handler[p[i]] = "waiting" /\ reports[p[i]] = {}
            BY <1>1 DEF Answers
        <3> HIDE DEF p
        <3>2. QED
            BY <3>1
    <2>1. CASE p[i] = c
        <3>1. x.phase \notin Dispatching
            BY <1>4, <2>1
        <3>2. QED
            BY <2>1, <3>1
    <2>2. CASE p[i] # c
        BY <1>3, <2>2
    <2>3. QED
        BY <2>1, <2>2
<1>6. a.phase \in Dispatching => handler'[c] = "waiting" /\ reports'[c] = {}
    BY <1>1, <1>2 DEF Answers
<1>7. ASSUME NEW d \in Command, thread[d] = t, handler'[d] = "waiting"
      PROVE  (\E i \in 1..Len(p) : p[i] = d) \/ (a.phase \in Dispatching /\ c = d)
    <2>1. CASE d = c
        <3>1. handler[d] = "waiting" /\ (x.phase \in Dispatching => a.phase \in Dispatching)
            BY <1>7, <2>1
        <3>2. QED
            BY <1>1, <1>2, <1>7, <2>1, <3>1 DEF Answers
    <2>2. CASE d # c
        BY <1>1, <1>7, <2>2 DEF Answers
    <2>3. QED
        BY <2>1, <2>2
<1>8. Answers(t, n, handler', reports')
    <2>1. \A i, j \in 1..Len(p) : p[i] = p[j] => i = j
        BY <1>1 DEF Answers
    <2> HIDE DEF n, p, c, x
    <2>2. QED
        BY <1>0, <1>2, <1>4, <1>5, <1>6, <1>7, <2>1 DEF Answers, c, x
<1>9. ASSUME NEW u \in Thread \ {t} PROVE Answers(u, queue'[u], handler', reports')
    <2>1. \A d \in Command : thread[d] # t => handler'[d] = handler[d] /\ reports'[d] = reports[d]
        BY <1>1
    <2>2. QED
        BY <1>0, <2>1, AnswersElsewhere DEF AInv
<1>10. QED
    BY <1>8, <1>9 DEF QueuesAnswer

\* Every step of a client keeps the answers, and reports what it journals.
LEMMA ClientStepAnswers ==
    ASSUME AInv, NEW t \in Thread, ClientStep(t)
    PROVE  QueuesAnswer' /\ ReportsFollow'
<1> DEFINE x == queue[t].active
           c == x.job
<1> USE DEF AInv
<1>0. x # NoClient
    BY DEF ClientStep, ClientFails, ClientReady, AttachmentsRejected, ResumeFails,
           BeginDispatch, TurnStartSucceeds, TurnStartUnknown, ReleaseTimer, UnknownTimer,
           ClientClosed, InPhase
<1>1. /\ x \in Client /\ c \in Command /\ x.terminals \in SUBSET {"own", "foreign"}
      /\ queue[t] \in Queue /\ TypeOK
    BY <1>0, ActiveType DEF IInv, TypeOK, Queue, Client
<1>2. /\ \A p \in Phase : /\ [x EXCEPT !.phase = p] \in Client
                          /\ [x EXCEPT !.phase = p].job = c
                          /\ [x EXCEPT !.phase = p].phase = p
    BY <1>1 DEF Client
<1>3. /\ x.phase \in Dispatching => reports[c] = {} /\ handler[c] = "waiting"
      /\ x.phase = "turn_start" => journal[c] = "sent_unknown"
      /\ x.phase = "resuming" => journal[c] = "prepared"
    BY <1>0 DEF QueuesAnswer, Answers, Dispatches, IInv, ClientsAgree
<1>4. /\ reports[c] \subseteq {journal[c]}
      /\ journal[c] = "delivered" => turn[c] # "none"
    BY <1>1 DEF ReportsFollow
<1>a. ASSUME NEW s \in Reached, Conclude(t, s)
      PROVE  /\ journal'[c] = s /\ reports'[c] = reports[c] \cup {s} /\ handler'[c] = "resolved"
             /\ \A d \in Command \ {c} : /\ journal'[d] = journal[d]
                                         /\ reports'[d] = reports[d] /\ handler'[d] = handler[d]
    BY <1>1, <1>a DEF Conclude, TypeOK
<1>b. ASSUME \A d \in Command \ {c} : journal'[d] = journal[d] /\ reports'[d] = reports[d],
             \A d \in Command : turn[d] # "none" => turn'[d] # "none",
             reports'[c] \subseteq {journal'[c]},
             journal'[c] = "delivered" => turn[c] # "none"
      PROVE  ReportsFollow'
    <2> HIDE DEF c
    <2>1. QED
        BY <1>1, <1>b DEF ReportsFollow
<1>5. CASE ClientFails(t)
    <2> DEFINE a == [x EXCEPT !.phase = "closing"]
    <2>1. a \in Client /\ a.job = c /\ a.phase = "closing"
        BY <1>2 DEF Phase
    <2>2. /\ Become(t, a, TRUE) /\ UNCHANGED <<journal, reports, turn>>
          /\ handler'[c] = "rejected" /\ \A d \in Command \ {c} : handler'[d] = handler[d]
          /\ x.phase = "starting"
        BY <1>1, <1>5 DEF ClientFails, Proceed, agentVars, InPhase, TypeOK
    <2> HIDE DEF a
    <2>3. QueuesAnswer'
        BY <1>0, <2>1, <2>2, MoveAnswers DEF Dispatching
    <2>4. QED
        BY <1>4, <1>b, <2>2, <2>3
<1>6. CASE ClientReady(t) /\ journal[c] \in Reached
    <2> DEFINE a == [x EXCEPT !.phase = "closing"]
               b == queue[t].blocked \/ journal[c] = "sent_unknown"
    <2>1. a \in Client /\ a.job = c /\ a.phase = "closing"
        BY <1>2 DEF Phase
    <2>2. /\ Become(t, a, b) /\ Conclude(t, journal[c]) /\ turn' = turn
          /\ x.phase = "starting"
        BY <1>6 DEF ClientReady, Proceed, agentVars, InPhase
    <2> HIDE DEF a, b
    <2>3. QueuesAnswer'
        BY <1>0, <1>6, <1>a, <2>1, <2>2, MoveAnswers DEF Dispatching
    <2>4. QED
        BY <1>4, <1>6, <1>a, <1>b, <2>2, <2>3
<1>7. CASE ClientReady(t) /\ journal[c] \notin Reached
    <2> DEFINE a == [x EXCEPT !.phase = "resuming"]
    <2>1. a \in Client /\ a.job = c /\ a.phase = "resuming"
        BY <1>2 DEF Phase
    <2>2. /\ Become(t, a, queue[t].blocked) /\ UNCHANGED <<reports, handler, turn>>
          /\ x.phase = "starting" /\ journal'[c] = "prepared"
          /\ \A d \in Command \ {c} : journal'[d] = journal[d]
        BY <1>1, <1>7 DEF ClientReady, Proceed, agentVars, InPhase, TypeOK
    <2> HIDE DEF a
    <2>3. QueuesAnswer'
        BY <1>0, <2>1, <2>2, MoveAnswers DEF Dispatching
    <2>4. reports[c] = {}
        BY <1>3, <2>2 DEF Dispatching
    <2>5. QED
        BY <1>b, <2>2, <2>3, <2>4
<1>8. CASE AttachmentsRejected(t) \/ ResumeFails(t)
    <2> DEFINE a == [x EXCEPT !.phase = "closing"]
    <2>1. a \in Client /\ a.job = c /\ a.phase = "closing"
        BY <1>2 DEF Phase
    <2>2. /\ Become(t, a, queue[t].blocked) /\ Conclude(t, "failed") /\ turn' = turn
          /\ x.phase \in Dispatching
        BY <1>8 DEF AttachmentsRejected, ResumeFails, Proceed, agentVars, InPhase, Dispatching
    <2> HIDE DEF a
    <2>3. QueuesAnswer'
        BY <1>0, <1>a, <2>1, <2>2, MoveAnswers DEF Dispatching, Reached
    <2>4. QED
        BY <1>3, <1>a, <1>b, <2>2, <2>3 DEF Reached
<1>9. CASE BeginDispatch(t)
    <2> DEFINE a == [x EXCEPT !.phase = "turn_start"]
    <2>1. a \in Client /\ a.job = c /\ a.phase = "turn_start"
        BY <1>2 DEF Phase
    <2>2. /\ Become(t, a, queue[t].blocked) /\ UNCHANGED <<reports, handler, turn>>
          /\ x.phase = "resuming" /\ journal'[c] = "sent_unknown"
          /\ \A d \in Command \ {c} : journal'[d] = journal[d]
        BY <1>1, <1>9 DEF BeginDispatch, Proceed, InPhase, TypeOK
    <2> HIDE DEF a
    <2>3. QueuesAnswer'
        BY <1>0, <2>1, <2>2, MoveAnswers DEF Dispatching
    <2>4. reports[c] = {}
        BY <1>3, <2>2 DEF Dispatching
    <2>5. QED
        BY <1>b, <2>2, <2>3, <2>4
<1>10. CASE TurnStartSucceeds(t)
    <2> DEFINE a == [x EXCEPT !.phase = "open", !.release = "own" \in x.terminals]
    <2>1. a \in Client /\ a.job = c /\ a.phase = "open"
        <3>1. ("own" \in x.terminals) \in BOOLEAN
            OBVIOUS
        <3>2. QED
            BY <1>1, <3>1 DEF Client, Phase
    <2>2. /\ Become(t, a, queue[t].blocked) /\ Conclude(t, "delivered") /\ turn' = turn
          /\ x.phase = "turn_start" /\ turn[c] # "none"
        BY <1>10 DEF TurnStartSucceeds, agentVars, InPhase
    <2> HIDE DEF a
    <2>3. QueuesAnswer'
        BY <1>0, <1>a, <2>1, <2>2, MoveAnswers DEF Dispatching, Reached
    <2>4. reports[c] = {}
        BY <1>3, <2>2 DEF Dispatching
    <2>5. QED
        BY <1>a, <1>b, <2>2, <2>3, <2>4 DEF Reached
<1>11. CASE TurnStartUnknown(t)
    <2> DEFINE a == [x EXCEPT !.phase = "ambiguous", !.release = x.terminals # {}]
    <2>1. a \in Client /\ a.job = c /\ a.phase = "ambiguous"
        BY <1>1 DEF Client, Phase
    <2>2. /\ Become(t, a, TRUE) /\ Conclude(t, "sent_unknown") /\ turn' = turn
          /\ x.phase = "turn_start"
        BY <1>11 DEF TurnStartUnknown, agentVars, InPhase
    <2> HIDE DEF a
    <2>3. QueuesAnswer'
        BY <1>0, <1>a, <2>1, <2>2, MoveAnswers DEF Dispatching, Reached
    <2>4. reports[c] = {}
        BY <1>3, <2>2 DEF Dispatching
    <2>5. QED
        BY <1>a, <1>b, <2>2, <2>3, <2>4 DEF Reached
<1>12. CASE ReleaseTimer(t) \/ UnknownTimer(t)
    <2> DEFINE a == [x EXCEPT !.phase = "closing"]
    <2>1. a \in Client /\ a.job = c /\ a.phase = "closing"
        BY <1>2 DEF Phase
    <2>2. /\ Become(t, a, queue[t].blocked) /\ UNCHANGED <<journal, reports, handler, turn>>
          /\ x.phase \in {"open", "ambiguous"}
        BY <1>12 DEF ReleaseTimer, UnknownTimer, Proceed, agentVars, InPhase
    <2> HIDE DEF a
    <2>3. QueuesAnswer'
        BY <1>0, <2>1, <2>2, MoveAnswers DEF Dispatching
    <2>4. QED
        BY <1>4, <1>b, <2>2, <2>3
<1>13. CASE ClientClosed(t)
    <2> DEFINE q == [queue[t] EXCEPT !.active = NoClient]
    <2>1. /\ q \in Queue /\ q.active = NoClient /\ q.pending = queue[t].pending
        BY <1>1 DEF Queue
    <2>2. /\ queue' = [queue EXCEPT ![t] = Pump(q)] /\ x.phase = "closing"
          /\ UNCHANGED <<journal, reports, handler>>
          /\ \A d \in Command : turn[d] # "none" => turn'[d] # "none"
        BY <1>1, <1>13 DEF ClientClosed, InPhase, TypeOK
    <2>3. queue'[t] = Pump(q) /\ \A u \in Thread \ {t} : queue'[u] = queue[u]
        BY <1>1, <2>2 DEF TypeOK
    <2> HIDE DEF q
    <2>4. Answers(t, q, handler, reports)
        <3>1. ~Dispatches(q) /\ ~Dispatches(queue[t])
            BY <2>1, <2>2 DEF Dispatches, Dispatching
        <3>2. Answers(t, queue[t], handler, reports)
            BY DEF QueuesAnswer
        <3>3. QED
            BY <2>1, <3>1, <3>2 DEF Answers
    <2>5. Answers(t, queue'[t], handler', reports')
        BY <2>1, <2>2, <2>3, <2>4, PumpAnswers
    <2>6. \A u \in Thread \ {t} : Answers(u, queue'[u], handler', reports')
        BY <2>2, <2>3, AnswersElsewhere
    <2>7. QueuesAnswer'
        BY <2>5, <2>6 DEF QueuesAnswer
    <2>8. QED
        BY <1>4, <1>b, <2>2, <2>7
<1>14. QED
    BY <1>5, <1>6, <1>7, <1>8, <1>9, <1>10, <1>11, <1>12, <1>13 DEF ClientStep

\* An agent settles no promise and reports nothing.
LEMMA AgentStepAnswers ==
    ASSUME AInv, NEW t \in Thread, AgentStep(t)
    PROVE  QueuesAnswer' /\ ReportsFollow'
<1> DEFINE x == queue[t].active
<1> USE DEF AInv
<1>0. x # NoClient
    BY DEF AgentStep, AgentStartsTurn, TurnEnds, ForeignTurnEnds, ChildExits
<1>1. /\ x \in Client /\ x.job \in Command /\ x.terminals \in SUBSET {"own", "foreign"} /\ TypeOK
    BY <1>0, ActiveType DEF IInv, Client
<1>2. /\ UNCHANGED <<journal, reports, handler>>
      /\ \A d \in Command : turn[d] # "none" => turn'[d] # "none"
    BY <1>1 DEF AgentStep, AgentStartsTurn, TurnEnds, ForeignTurnEnds, ChildExits, agentVars, TypeOK
<1>3. ReportsFollow'
    BY <1>2 DEF ReportsFollow
<1>4. CASE queue' = queue
    BY <1>2, <1>3, <1>4 DEF QueuesAnswer
<1>5. CASE \E a \in Client : /\ a.job = x.job /\ a.phase = x.phase
                             /\ Become(t, a, queue[t].blocked)
    <2>1. PICK a \in Client : /\ a.job = x.job /\ a.phase = x.phase
                              /\ Become(t, a, queue[t].blocked)
        BY <1>5
    <2>2. QueuesAnswer'
        BY <1>0, <1>2, <2>1, MoveAnswers
    <2>3. QED
        BY <1>3, <2>2
<1>6. ASSUME NEW whose \in {"own", "foreign"}, Observe(t, whose)
      PROVE  \E a \in Client : /\ a.job = x.job /\ a.phase = x.phase
                               /\ Become(t, a, queue[t].blocked)
    <2> DEFINE rel == x.release \/ x.phase = "ambiguous" \/ (x.phase = "open" /\ whose = "own")
               a == [x EXCEPT !.terminals = x.terminals \cup {whose}, !.release = rel]
    <2>1. rel \in BOOLEAN /\ x.terminals \cup {whose} \in SUBSET {"own", "foreign"}
        BY <1>1 DEF Client
    <2>2. a \in Client /\ a.job = x.job /\ a.phase = x.phase
        BY <1>1, <2>1 DEF Client
    <2>3. Become(t, a, queue[t].blocked)
        BY <1>6 DEF Observe
    <2>4. QED
        BY <2>2, <2>3
<1>7. CASE ChildExits(t)
    <2> DEFINE a == [x EXCEPT !.exited = TRUE]
    <2>1. a \in Client /\ a.job = x.job /\ a.phase = x.phase
        BY <1>1 DEF Client
    <2>2. Become(t, a, queue[t].blocked)
        BY <1>7 DEF ChildExits
    <2> HIDE DEF a
    <2>3. QED
        BY <1>5, <2>1, <2>2
<1>8. CASE TurnEnds(t) \/ ForeignTurnEnds(t)
    BY <1>5, <1>6, <1>8 DEF TurnEnds, ForeignTurnEnds
<1>9. CASE AgentStartsTurn(t)
    BY <1>4, <1>9 DEF AgentStartsTurn
<1>10. QED
    BY <1>7, <1>8, <1>9 DEF AgentStep

\* Empty queues and no promises agree.
LEMMA EmptyAnswers ==
    ASSUME NEW t, NEW h, NEW r, NEW q, q.pending = <<>>, q.active = NoClient,
           \A c \in Command : h[c] # "waiting"
    PROVE  Answers(t, q, h, r)
<1>1. 1..Len(q.pending) = {}
    <2>1. 1..Len(<<>>) = {}
        OBVIOUS
    <2>2. QED
        BY <2>1, Zenon
<1>2. QED
    BY <1>1 DEF Answers, Dispatches

\* Only a running process queues commands.
LEMMA StepDown ==
    ASSUME AInv, [Next]_vars
    PROVE  DownIsEmpty'
<1> USE DEF AInv
<1>1. CASE UNCHANGED vars
    BY <1>1 DEF vars, DownIsEmpty
<1>2. ASSUME NEW c \in Command, HandleFresh(c) \/ HandleKnown(c) PROVE DownIsEmpty'
    BY <1>2 DEF HandleFresh, HandleKnown, DownIsEmpty
<1>3. ASSUME NEW t \in Thread, ClientStep(t) \/ AgentStep(t) PROVE DownIsEmpty'
    <2>1. queue[t].active # NoClient /\ running' = running
        BY <1>3 DEF ClientStep, ClientFails, ClientReady, AttachmentsRejected, ResumeFails,
           BeginDispatch, TurnStartSucceeds, TurnStartUnknown, ReleaseTimer, UnknownTimer,
           ClientClosed, InPhase, AgentStep, AgentStartsTurn, TurnEnds, ForeignTurnEnds, ChildExits
    <2>2. QED
        BY <2>1 DEF IInv, ClientsAgree, DownIsEmpty
<1>4. CASE ProcessDown
    BY <1>4 DEF ProcessDown, IdleQueue, DownIsEmpty
<1>5. CASE Restart
    BY <1>5 DEF Restart, DownIsEmpty
<1>6. QED
    BY <1>1, <1>2, <1>3, <1>4, <1>5 DEF Next, CrashBeforeWrite, Crash, Stop

\* The invariant is inductive.
LEMMA StepAInv ==
    ASSUME AInv, [Next]_vars
    PROVE  AInv'
<1> USE DEF AInv
<1>1. IInv'
    BY StepIInv
<1>2. TypeOK /\ \A d \in Command : thread[d] \in Thread
    BY ThreadAssumption DEF IInv
<1>3. CASE UNCHANGED vars
    BY <1>1, <1>3, StepDown DEF vars, QueuesAnswer, ReportsFollow
<1>4. ASSUME NEW c \in Command, HandleFresh(c) PROVE QueuesAnswer' /\ ReportsFollow'
    <2> DEFINE t == thread[c]
               q == Enqueue(queue[t], c)
               p == queue[t].pending
    <2>1. /\ t \in Thread /\ queue[t] \in Queue /\ p \in Seq(Command)
          /\ Answers(t, queue[t], handler, reports)
        BY <1>2 DEF TypeOK, Queue, QueuesAnswer
    <2>2. /\ q \in Queue /\ q.active = queue[t].active /\ q.pending = Append(p, c)
        <3>1. Append(p, c) \in Seq(Command)
            BY <2>1
        <3>2. QED
            BY <2>1, <3>1 DEF Enqueue, Queue
    <2>3. /\ queue'[t] = Pump(q) /\ \A u \in Thread \ {t} : queue'[u] = queue[u]
          /\ handler[c] # "waiting" /\ handler'[c] = "waiting"
          /\ \A d \in Command \ {c} : handler'[d] = handler[d]
          /\ UNCHANGED <<journal, reports, turn>>
          /\ journal[c] \notin Reached
        BY <1>2, <1>4, <2>1 DEF HandleFresh, TypeOK, agentVars
    <2>4. reports[c] = {}
        BY <1>2, <2>3 DEF ReportsFollow, TypeOK
    <2>5. Answers(t, q, handler', reports')
        <3>1. /\ \A i \in 1..Len(p) : p[i] \in Command /\ p[i] # c
              /\ Dispatches(queue[t]) => queue[t].active.job # c /\ queue[t].active.job \in Command
            BY <2>1, <2>3, <1>2, ActiveType DEF Answers, Dispatches
        <3>2. /\ Len(q.pending) = Len(p) + 1 /\ Len(p) \in Nat
              /\ q.pending[Len(p) + 1] = c
              /\ \A i \in 1..Len(p) : q.pending[i] = p[i]
            BY <2>1, <2>2
        <3>3. Dispatches(q) <=> Dispatches(queue[t])
            BY <2>2 DEF Dispatches
        <3>4. /\ \A i, j \in 1..Len(p) : p[i] = p[j] => i = j
              /\ \A i \in 1..Len(p) : handler[p[i]] = "waiting" /\ reports[p[i]] = {}
            BY <2>1 DEF Answers
        <3>5. \A i \in 1..Len(q.pending) : i \in 1..Len(p) \/ i = Len(p) + 1
            BY <3>2
        <3> HIDE DEF q, p
        <3>6. \A i, j \in 1..Len(q.pending) : q.pending[i] = q.pending[j] => i = j
            BY <3>1, <3>2, <3>4, <3>5
        <3>7. \A i \in 1..Len(q.pending) : handler'[q.pending[i]] = "waiting" /\ reports'[q.pending[i]] = {}
            <4> SUFFICES ASSUME NEW i \in 1..Len(q.pending)
                         PROVE  handler'[q.pending[i]] = "waiting" /\ reports'[q.pending[i]] = {}
                OBVIOUS
            <4>1. CASE i \in 1..Len(p)
                <5>1. q.pending[i] = p[i] /\ p[i] \in Command /\ p[i] # c
                    BY <3>1, <3>2, <4>1
                <5>2. handler[p[i]] = "waiting" /\ reports[p[i]] = {}
                    BY <3>4, <4>1
                <5>3. QED
                    BY <2>3, <5>1, <5>2
            <4>2. CASE i = Len(p) + 1
                BY <2>3, <2>4, <3>2, <4>2
            <4>3. QED
                BY <3>5, <4>1, <4>2
        <3>8. Dispatches(q) =>
                  /\ handler'[q.active.job] = "waiting" /\ reports'[q.active.job] = {}
                  /\ \A i \in 1..Len(q.pending) : q.pending[i] # q.active.job
            <4> SUFFICES ASSUME Dispatches(queue[t])
                         PROVE  /\ handler'[queue[t].active.job] = "waiting"
                                /\ reports'[queue[t].active.job] = {}
                                /\ \A i \in 1..Len(q.pending) : q.pending[i] # queue[t].active.job
                BY <2>2, <3>3
            <4>1. /\ handler[queue[t].active.job] = "waiting" /\ reports[queue[t].active.job] = {}
                  /\ \A i \in 1..Len(p) : p[i] # queue[t].active.job
                BY <2>1 DEF Answers, p
            <4>2. QED
                BY <2>3, <3>1, <3>2, <3>5, <4>1
        <3>9. ASSUME NEW d \in Command, thread[d] = t, handler'[d] = "waiting"
              PROVE  \/ \E i \in 1..Len(q.pending) : q.pending[i] = d
                     \/ Dispatches(q) /\ q.active.job = d
            <4>1. CASE d = c
                BY <3>2, <4>1
            <4>2. CASE d # c
                <5>1. \/ \E i \in 1..Len(p) : p[i] = d
                      \/ Dispatches(queue[t]) /\ queue[t].active.job = d
                    BY <2>1, <2>3, <3>9, <4>2 DEF Answers, p
                <5>2. QED
                    BY <2>2, <3>2, <3>3, <5>1
            <4>3. QED
                BY <4>1, <4>2
        <3>10. QED
            BY <3>6, <3>7, <3>8, <3>9 DEF Answers
    <2> HIDE DEF q
    <2>6. Answers(t, queue'[t], handler', reports')
        BY <2>2, <2>3, <2>5, PumpAnswers
    <2>7. \A u \in Thread \ {t} : Answers(u, queue'[u], handler', reports')
        <3>1. \A d \in Command : thread[d] # t => handler'[d] = handler[d] /\ reports'[d] = reports[d]
            BY <2>3
        <3>2. QED
            BY <2>1, <2>3, <3>1, AnswersElsewhere
    <2>8. QueuesAnswer'
        BY <2>6, <2>7 DEF QueuesAnswer
    <2>9. ReportsFollow'
        BY <2>3 DEF ReportsFollow
    <2>10. QED
        BY <2>8, <2>9
<1>5. ASSUME NEW c \in Command, HandleKnown(c) PROVE QueuesAnswer' /\ ReportsFollow'
    <2> DEFINE t == thread[c]
    <2>1. t \in Thread /\ Answers(t, queue[t], handler, reports)
        BY <1>2 DEF QueuesAnswer
    <2>2. /\ queue'[t].active = queue[t].active /\ queue'[t].pending = queue[t].pending
          /\ \A u \in Thread \ {t} : queue'[u] = queue[u]
        BY <1>2, <1>5, <2>1, BecomeFacts DEF HandleKnown
    <2>3. /\ handler[c] # "waiting" /\ handler'[c] = "resolved"
          /\ reports'[c] = reports[c] \cup {journal[c]}
          /\ \A d \in Command \ {c} : handler'[d] = handler[d] /\ reports'[d] = reports[d]
          /\ UNCHANGED <<journal, turn>>
        BY <1>2, <1>5 DEF HandleKnown, TypeOK, agentVars
    <2>4. ReportsFollow'
        BY <2>3 DEF ReportsFollow
    <2>5. Answers(t, queue'[t], handler', reports')
        <3>1. /\ \A i \in 1..Len(queue[t].pending) : queue[t].pending[i] \in Command \ {c}
              /\ Dispatches(queue[t]) => queue[t].active.job \in Command \ {c}
            BY <1>2, <2>1, <2>3, ActiveType DEF Answers, Dispatches, TypeOK, Queue
        <3>2. Dispatches(queue'[t]) <=> Dispatches(queue[t])
            BY <2>2 DEF Dispatches
        <3>3. \A i \in 1..Len(queue[t].pending) :
                  /\ handler'[queue[t].pending[i]] = "waiting"
                  /\ reports'[queue[t].pending[i]] = {}
            BY <2>1, <2>3, <3>1 DEF Answers
        <3>4. QED
            BY <2>1, <2>2, <2>3, <3>1, <3>2, <3>3, SMTT(40) DEF Answers
    <2>6. \A u \in Thread \ {t} : Answers(u, queue'[u], handler', reports')
        <3>1. \A d \in Command : thread[d] # t => handler'[d] = handler[d] /\ reports'[d] = reports[d]
            BY <2>3
        <3>2. QED
            BY <2>1, <2>2, <3>1, AnswersElsewhere
    <2>7. QueuesAnswer'
        BY <2>5, <2>6 DEF QueuesAnswer
    <2>8. QED
        BY <2>4, <2>7
<1>a. ASSUME \A t \in Thread : queue'[t].pending = <<>> /\ queue'[t].active = NoClient,
             \A d \in Command : handler'[d] # "waiting"
      PROVE  QueuesAnswer'
    BY <1>a, EmptyAnswers DEF QueuesAnswer
<1>b. ASSUME ProcessDown
      PROVE  QueuesAnswer' /\ \A d \in Command : turn[d] # "none" => turn'[d] # "none"
    <2>1. /\ \A t \in Thread : queue'[t].pending = <<>> /\ queue'[t].active = NoClient
          /\ \A d \in Command : handler'[d] # "waiting"
        BY <1>b DEF ProcessDown, IdleQueue
    <2>2. QED
        BY <1>a, <1>b, <2>1 DEF ProcessDown, TurnsLost
<1>c. ASSUME NEW t \in Thread, InPhase(t, "resuming")
      PROVE  /\ queue[t].active.job \in Command
             /\ reports[queue[t].active.job] = {}
             /\ journal[queue[t].active.job] = "prepared"
    BY <1>2, <1>c, ActiveType DEF InPhase, QueuesAnswer, Answers, Dispatches, Dispatching, IInv, ClientsAgree
<1>6. ASSUME NEW t \in Thread, CrashBeforeWrite(t) PROVE QueuesAnswer' /\ ReportsFollow'
    <2>1. /\ reports' = reports /\ journal'[queue[t].active.job] = "sent_unknown"
          /\ \A d \in Command \ {queue[t].active.job} : journal'[d] = journal[d]
        BY <1>2, <1>6, <1>c DEF CrashBeforeWrite, TypeOK
    <2>2. reports[queue[t].active.job] = {} /\ ProcessDown
        BY <1>6, <1>c DEF CrashBeforeWrite
    <2>3. ReportsFollow'
        BY <1>b, <2>1, <2>2 DEF ReportsFollow
    <2>4. QED
        BY <1>b, <2>2, <2>3
<1>7. ASSUME Crash PROVE QueuesAnswer' /\ ReportsFollow'
    BY <1>7, <1>b DEF Crash, ReportsFollow
<1>8. ASSUME NEW T \in SUBSET Thread, Stop(T) PROVE QueuesAnswer' /\ ReportsFollow'
    <2>1. QueuesAnswer' /\ \A d \in Command : turn[d] # "none" => turn'[d] # "none"
        BY <1>8, <1>b DEF Stop
    <2>2. ASSUME NEW c \in Command
          PROVE  /\ reports'[c] \subseteq {journal'[c]}
                 /\ journal'[c] = "delivered" => turn[c] # "none"
        <3> DEFINE cut == InPhase(thread[c], "resuming") /\ queue[thread[c]].active.job = c
        <3>1. reports[c] \subseteq {journal[c]} /\ (journal[c] = "delivered" => turn[c] # "none")
            BY DEF ReportsFollow
        <3>2. /\ journal'[c] = journal[c] \/ (cut /\ journal'[c] = "failed")
              /\ reports'[c] = reports[c] \/ reports'[c] = reports[c] \cup {journal'[c]}
            BY <1>8 DEF Stop
        <3>3. cut => reports[c] = {}
            BY <1>2, <1>c
        <3> HIDE DEF cut
        <3>4. QED
            BY <3>1, <3>2, <3>3
    <2>3. ReportsFollow'
        BY <2>1, <2>2 DEF ReportsFollow
    <2>4. QED
        BY <2>1, <2>3
<1>9. ASSUME Restart PROVE QueuesAnswer' /\ ReportsFollow'
    <2>1. \A d \in Command : handler[d] # "waiting"
        <3> SUFFICES ASSUME NEW d \in Command, handler[d] = "waiting" PROVE FALSE
            OBVIOUS
        <3>1. /\ queue[thread[d]].pending = <<>>
              /\ ~Dispatches(queue[thread[d]])
            BY <1>2, <1>9 DEF Restart, DownIsEmpty, Dispatches, IInv, ClientsAgree
        <3>2. \E i \in 1..Len(queue[thread[d]].pending) : queue[thread[d]].pending[i] = d
            BY <1>2, <3>1 DEF QueuesAnswer, Answers
        <3>3. 1..Len(<<>>) = {}
            OBVIOUS
        <3>4. QED
            BY <3>1, <3>2, <3>3, Zenon
    <2>2. /\ \A t \in Thread : queue'[t].pending = <<>> /\ queue'[t].active = NoClient
          /\ UNCHANGED <<journal, reports, handler, turn>>
        BY <1>9 DEF Restart, IdleQueue, agentVars
    <2>3. ReportsFollow'
        BY <2>2 DEF ReportsFollow
    <2>4. QED
        BY <1>a, <2>1, <2>2, <2>3
<1>10. QED
    BY <1>1, <1>3, <1>4, <1>5, <1>6, <1>7, <1>8, <1>9, ClientStepAnswers, AgentStepAnswers,
       StepDown DEF Next

\* Initially the invariant holds.
LEMMA InitAInv == Init => AInv
<1> SUFFICES ASSUME Init PROVE AInv
    OBVIOUS
<1>1. IInv
    BY InitIInv
<1>2. /\ \A t \in Thread : queue[t].pending = <<>> /\ queue[t].active = NoClient
      /\ \A d \in Command : /\ handler[d] # "waiting" /\ reports[d] = {}
                            /\ journal[d] = "absent"
      /\ running
    BY DEF Init, IdleQueue
<1>3. QueuesAnswer
    BY <1>2, EmptyAnswers DEF QueuesAnswer
<1>4. ReportsFollow /\ DownIsEmpty
    BY <1>2 DEF ReportsFollow, DownIsEmpty
<1>5. QED
    BY <1>1, <1>3, <1>4 DEF AInv

LEMMA AnswersHold == Spec => []AInv
    BY InitAInv, StepAInv, PTL DEF Spec

\* What session.command.updated told the cloud of a command stays true: it is
\* the one outcome the journal keeps, "failed" was written to no agent and
\* "delivered" was started by one.
THEOREM ReportsAreFinal == Spec => []ReportedOutcomeIsFinal
<1>1. AInv => ReportedOutcomeIsFinal
    <2> SUFFICES ASSUME AInv, NEW c \in Command
                 PROVE  /\ reports[c] \subseteq {journal[c]}
                        /\ "failed" \in reports[c] => written[c] = 0
                        /\ "delivered" \in reports[c] => turn[c] # "none"
        BY DEF ReportedOutcomeIsFinal
    <2>1. /\ reports[c] \subseteq {journal[c]}
          /\ journal[c] = "delivered" => turn[c] # "none"
          /\ journal[c] \notin {"sent_unknown", "delivered"} => written[c] = 0
        BY DEF AInv, ReportsFollow, IInv, WrittenOnce
    <2>2. QED
        BY <2>1
<1>2. QED
    BY <1>1, AnswersHold, PTL

\* The promise of #handleSessionCommand is unsettled exactly while the command
\* is queued or dispatched, and it is so in one place only.
THEOREM AwaitedOnce == Spec => []QueuedOnce
<1>1. AInv => QueuedOnce
    <2> SUFFICES ASSUME AInv, NEW c \in Command
                 PROVE  LET q == queue[thread[c]]
                            places == {i \in 1..Len(q.pending) : q.pending[i] = c}
                            dispatching == /\ q.active # NoClient
                                           /\ q.active.job = c
                                           /\ q.active.phase \in Dispatching
                        IN  /\ \A i, j \in places : i = j
                            /\ dispatching => places = {}
                            /\ handler[c] = "waiting" <=> (places # {} \/ dispatching)
        BY DEF QueuedOnce
    <2> DEFINE q == queue[thread[c]]
    <2>1. Answers(thread[c], q, handler, reports)
        BY ThreadAssumption DEF AInv, QueuesAnswer
    <2> HIDE DEF q
    <2>2. /\ \A i, j \in 1..Len(q.pending) : q.pending[i] = q.pending[j] => i = j
          /\ \A i \in 1..Len(q.pending) : q.pending[i] = c => handler[c] = "waiting"
          /\ Dispatches(q) /\ q.active.job = c =>
                 /\ handler[c] = "waiting"
                 /\ \A i \in 1..Len(q.pending) : q.pending[i] # c
          /\ handler[c] = "waiting" =>
                 \/ \E i \in 1..Len(q.pending) : q.pending[i] = c
                 \/ Dispatches(q) /\ q.active.job = c
        BY <2>1 DEF Answers
    <2>3. QED
        BY <2>2 DEF Dispatches, q
<1>2. QED
    BY <1>1, AnswersHold, PTL
-----------------------------------------------------------------------------
(* The delivery of the commands. *)

Numbered == {c \in Command : sequence[c] > 0}

\* The rows of connector_outbox are numbered in the order of their insertion.
Numbers ==
    /\ IsFiniteSet(Numbered)
    /\ \A c \in Numbered : sequence[c] <= Cardinality(Numbered)
    /\ \A c, d \in Numbered : sequence[c] = sequence[d] => c = d
    /\ \A c \in Command : status[c] = "none" <=> c \notin Numbered
    /\ replay \subseteq Numbered /\ held \subseteq Numbered /\ sent \subseteq Numbered
    /\ pushing \subseteq Numbered /\ answered \subseteq Numbered

\* A promise that resolved was given an outcome.
ResolvedIsReached == \A c \in Command : handler[c] = "resolved" => journal[c] \in Reached

\* What the connector or the server takes for done has passed the journal.
DoneIsReached ==
    awaits => \A c \in Command :
        c \in acks \/ inbox[c] = "processed" \/ outbox[c] = "acked" => journal[c] \in Reached

StatusIsReported == \A c \in Command : status[c] \in Reached => status[c] \in reports[c]

\* The server, the link and the inbox of the connector.
LinkInv ==
    /\ DeliveryTypeOK /\ Numbers /\ ResolvedIsReached /\ DoneIsReached
    /\ StatusIsReported /\ SentOncePerConnection

DeliveryInv == AInv /\ LinkInv
-----------------------------------------------------------------------------
\* The delivery hands commands to the queues of CommandQueue and does nothing
\* else to them.
LEMMA DeliverySteps == DeliveryNext => [Next]_vars
<1> SUFFICES ASSUME DeliveryNext, ~(UNCHANGED vars)  PROVE Next
    OBVIOUS
<1>1. ASSUME NEW c \in Command, Deliver(c)  PROVE Next
    BY <1>1 DEF Deliver, Next
<1>2. ASSUME NEW c \in Command,
             \/ SendCommand(c) \/ RetryPost(c) \/ PushCommand(c) \/ AckArrives(c) \/ ReportArrives(c)
             \/ DeliverKnown(c) \/ HandlerResolves(c) \/ HandlerRejects(c)
      PROVE  UNCHANGED vars
    BY <1>2 DEF SendCommand, RetryPost, PushCommand, AckArrives, ReportArrives, DeliverKnown,
                HandlerResolves, HandlerRejects
<1>3. CASE ReadReplay \/ Activate \/ Connect
    BY <1>3 DEF ReadReplay, Activate, Connect
<1>4. ASSUME NEW lost \in SUBSET acks, Disconnect(lost) \/ ServerRestart(lost)  PROVE UNCHANGED vars
    BY <1>4 DEF Disconnect, ServerRestart
<1>5. ASSUME NEW lost \in SUBSET acks, GoesDown(lost)  PROVE Next
    BY <1>5 DEF GoesDown, Next
<1>6. CASE RuntimeStep
    BY <1>6 DEF RuntimeStep, Next, ClientStep
<1> QED
    BY <1>1, <1>2, <1>3, <1>4, <1>5, <1>6 DEF DeliveryNext, ServerStep, ConnectorStep

\* A step of the queues: reports are never taken back, nor is an outcome once it
\* is reached, a promise resolves with one, and is forgotten only when the process
\* goes down.
Advances ==
    /\ \A c \in Command : reports[c] \subseteq reports'[c]
    /\ \A c \in Command : journal[c] \in Reached => journal'[c] \in Reached
    /\ \A c \in Command : handler'[c] = "resolved" => handler[c] = "resolved" \/ journal'[c] \in Reached
    /\ \A c \in Command : handler[c] = "waiting" =>
           \/ handler'[c] \in {"waiting", "rejected"} \/ journal'[c] \in Reached
           \/ restarts' # restarts

LEMMA QueueAdvances ==
    ASSUME TypeOK, [Next]_vars
    PROVE  Advances
<1> USE DEF TypeOK
<1>1. CASE UNCHANGED vars
    BY <1>1 DEF vars, Advances
<1>2. ASSUME NEW c \in Command, HandleFresh(c)  PROVE Advances
    BY <1>2 DEF HandleFresh, Advances
<1>3. ASSUME NEW c \in Command, HandleKnown(c)  PROVE Advances
    BY <1>3 DEF HandleKnown, Advances
<1>4. ASSUME NEW t \in Thread, NEW s \in Reached, Conclude(t, s)  PROVE Advances
    BY <1>4 DEF Conclude, Advances
<1>5. ASSUME NEW t \in Thread, ClientStep(t)  PROVE Advances
    <2>1. CASE ClientFails(t)
        BY <2>1 DEF ClientFails, Advances
    <2>2. CASE ClientReady(t)
        <3>1. CASE journal[queue[t].active.job] \in Reached
            BY <1>4, <2>2, <3>1 DEF ClientReady
        <3>2. CASE journal[queue[t].active.job] \notin Reached
            BY <2>2, <3>2 DEF ClientReady, Advances
        <3> QED
            BY <3>1, <3>2
    <2>3. CASE AttachmentsRejected(t) \/ ResumeFails(t)
        BY <1>4, <2>3 DEF AttachmentsRejected, ResumeFails, Reached
    <2>4. CASE BeginDispatch(t)
        BY <2>4 DEF BeginDispatch, Advances, Reached
    <2>5. CASE TurnStartSucceeds(t) \/ TurnStartUnknown(t)
        BY <1>4, <2>5 DEF TurnStartSucceeds, TurnStartUnknown, Reached
    <2>6. CASE ReleaseTimer(t) \/ UnknownTimer(t) \/ ClientClosed(t)
        BY <2>6 DEF ReleaseTimer, UnknownTimer, ClientClosed, Advances
    <2> QED
        BY <1>5, <2>1, <2>2, <2>3, <2>4, <2>5, <2>6 DEF ClientStep
<1>6. ASSUME NEW t \in Thread, AgentStep(t)  PROVE Advances
    BY <1>6 DEF AgentStep, AgentStartsTurn, TurnEnds, ForeignTurnEnds, ChildExits, Advances
<1>7. ASSUME NEW t \in Thread, CrashBeforeWrite(t)  PROVE Advances
    BY <1>7 DEF CrashBeforeWrite, ProcessDown, Advances, Reached
<1>8. CASE Crash
    BY <1>8 DEF Crash, ProcessDown, Advances
<1>9. ASSUME NEW T \in SUBSET Thread, Stop(T)  PROVE Advances
    BY <1>9 DEF Stop, ProcessDown, Advances, Reached
<1>10. CASE Restart
    BY <1>10 DEF Restart, Advances
<1> QED
    BY <1>1, <1>2, <1>3, <1>5, <1>6, <1>7, <1>8, <1>9, <1>10 DEF Next
-----------------------------------------------------------------------------
\* The replay is a list of its commands, each of them once.
LEMMA Sorted ==
    ASSUME sequence \in [Command -> Nat], Numbers, NEW C \in SUBSET Numbered
    PROVE  /\ IsFiniteSet(C) /\ Cardinality(C) \in Nat
           /\ Len(BySequence(C)) = Cardinality(C) /\ BySequence(C) \in Seq(C)
           /\ \A i, j \in 1..Cardinality(C) : BySequence(C)[i] = BySequence(C)[j] => i = j
           /\ \A c \in C : \E i \in 1..Cardinality(C) : BySequence(C)[i] = c
           /\ \A i, j \in 1..Cardinality(C) :
                  i < j => sequence[BySequence(C)[i]] < sequence[BySequence(C)[j]]
<1> DEFINE n == Cardinality(C)
           Upto(c) == {d \in C : sequence[d] <= sequence[c]}
<1>1. IsFiniteSet(C) /\ n \in Nat
    BY FS_Subset, FS_CardinalityType DEF Numbers
<1>2. \A c \in C : sequence[c] \in Nat
    BY DEF Numbered
<1>3. \A c \in C : /\ Upto(c) \in SUBSET C /\ c \in Upto(c) /\ IsFiniteSet(Upto(c))
                   /\ Cardinality(Upto(c)) \in Nat /\ Cardinality(Upto(c)) <= n
    BY <1>1, <1>2, FS_Subset, FS_CardinalityType
<1>4. \A c \in C : Place(c, C) \in 1..n /\ Place(c, C) = Cardinality(Upto(c))
    <2> SUFFICES ASSUME NEW c \in C  PROVE Place(c, C) \in 1..n /\ Place(c, C) = Cardinality(Upto(c))
        OBVIOUS
    <2>1. Place(c, C) = Cardinality(Upto(c))
        BY DEF Place
    <2>2. Upto(c) # {}
        BY <1>3
    <2> HIDE DEF Upto, n
    <2>3. Cardinality(Upto(c)) # 0
        BY <1>3, <2>2, FS_EmptySet, Zenon
    <2> QED
        BY <1>1, <1>3, <2>1, <2>3
<1>5. ASSUME NEW c \in C, NEW d \in C, sequence[c] < sequence[d]  PROVE Place(c, C) < Place(d, C)
    <2>1. Upto(c) \in SUBSET Upto(d) /\ d \notin Upto(c)
        BY <1>2, <1>5
    <2> HIDE DEF Upto
    <2>2. Cardinality(Upto(c)) <= Cardinality(Upto(d)) /\ Cardinality(Upto(c)) # Cardinality(Upto(d))
        BY <1>3, <2>1, FS_Subset
    <2> HIDE DEF n
    <2> QED
        BY <1>3, <1>4, <2>2
<1> DEFINE f == [c \in C |-> Place(c, C)]
<1>6. \A c, d \in C : f[c] = f[d] => c = d
    <2> SUFFICES ASSUME NEW c \in C, NEW d \in C, Place(c, C) = Place(d, C)  PROVE c = d
        OBVIOUS
    <2> HIDE DEF n, Upto
    <2>0. Place(c, C) \in Nat
        BY <1>4
    <2>1. ~(sequence[c] < sequence[d]) /\ ~(sequence[d] < sequence[c])
        BY <2>0, <1>5
    <2>2. sequence[c] = sequence[d]
        BY <1>2, <2>1
    <2> QED
        BY <2>2 DEF Numbers
<1>7. f \in Injection(C, 1..n)
    BY <1>4, <1>6, Zenon DEF Injection, IsInjective
<1> HIDE DEF n, Upto
<1>8. f \in Surjection(C, 1..n)
    <2>1. IsFiniteSet(1..n) /\ Cardinality(1..n) = n
        BY <1>1, FS_Interval
    <2>2. Cardinality(C) = Cardinality(1..n)
        BY <2>1 DEF n
    <2> HIDE DEF f
    <2> QED
        BY <1>7, <2>1, <2>2, FS_Injection, ZenonT(30)
<1>9. \A i \in 1..n : \E c \in C : Place(c, C) = i
    BY <1>8, Zenon DEF Surjection
<1>b. \A c, d \in C : Place(c, C) = Place(d, C) => c = d
    BY <1>6
<1> HIDE DEF f
<1>10. \A i \in 1..n : BySequence(C)[i] \in C /\ Place(BySequence(C)[i], C) = i
    BY <1>9 DEF BySequence, n
<1>11. BySequence(C) \in [1..n -> C]
    BY <1>10 DEF BySequence, n
<1>12. BySequence(C) \in Seq(C) /\ Len(BySequence(C)) = n
    BY <1>1, <1>11
<1>13. \A i, j \in 1..n : BySequence(C)[i] = BySequence(C)[j] => i = j
    BY <1>10
<1>14. \A i, j \in 1..n : i < j => sequence[BySequence(C)[i]] < sequence[BySequence(C)[j]]
    <2> SUFFICES ASSUME NEW i \in 1..n, NEW j \in 1..n, i < j
                 PROVE  sequence[BySequence(C)[i]] < sequence[BySequence(C)[j]]
        OBVIOUS
    <2> DEFINE c == BySequence(C)[i]
               d == BySequence(C)[j]
    <2>1. c \in C /\ d \in C /\ Place(c, C) = i /\ Place(d, C) = j
        BY <1>10
    <2> HIDE DEF c, d
    <2>2. ~(sequence[d] < sequence[c]) /\ c # d
        BY <1>1, <1>5, <2>1
    <2>3. sequence[c] # sequence[d]
        BY <2>1, <2>2 DEF Numbers
    <2>4. sequence[c] < sequence[d]
        BY <1>2, <2>1, <2>2, <2>3
    <2> QED
        BY <2>4 DEF c, d
<1>15. \A c \in C : \E i \in 1..n : BySequence(C)[i] = c
    BY <1>4, <1>10, <1>b
<1> QED
    BY <1>1, <1>12, <1>13, <1>14, <1>15 DEF n
-----------------------------------------------------------------------------
\* Lists of different commands, each of them once, in one list.
LEMMA Joined ==
    ASSUME NEW R \in SUBSET Command, NEW H \in SUBSET Command, R \cap H = {},
           NEW r \in Seq(R), NEW h \in Seq(H),
           \A i, j \in 1..Len(r) : r[i] = r[j] => i = j,
           \A i, j \in 1..Len(h) : h[i] = h[j] => i = j
    PROVE  /\ r \o h \in Seq(Command) /\ Len(r \o h) = Len(r) + Len(h)
           /\ Len(r) \in Nat /\ Len(h) \in Nat
           /\ \A i, j \in 1..Len(r \o h) : (r \o h)[i] = (r \o h)[j] => i = j
           /\ \A i \in 1..Len(r \o h) : (r \o h)[i] \in R \cup H
           /\ \A i \in 1..Len(r \o h) : (r \o h)[i] = IF i <= Len(r) THEN r[i] ELSE h[i - Len(r)]
<1>1. r \in Seq(Command) /\ h \in Seq(Command) /\ Len(r) \in Nat /\ Len(h) \in Nat
    OBVIOUS
<1> DEFINE s == r \o h
<1>2. /\ s \in Seq(Command) /\ Len(s) = Len(r) + Len(h)
      /\ \A i \in 1..Len(s) : s[i] = IF i <= Len(r) THEN r[i] ELSE h[i - Len(r)]
    BY <1>1, ConcatProperties
<1>3. /\ \A i \in 1..Len(r) : r[i] \in R
      /\ \A i \in 1..Len(h) : h[i] \in H
    OBVIOUS
<1> HIDE DEF s
<1>4. \A i \in 1..Len(s) : IF i <= Len(r) THEN i \in 1..Len(r) ELSE i - Len(r) \in 1..Len(h)
    BY <1>1, <1>2
<1>5. ASSUME NEW i \in 1..Len(s), NEW j \in 1..Len(s), s[i] = s[j]  PROVE i = j
    <2>1. (i <= Len(r) <=> j <= Len(r))
        BY <1>2, <1>3, <1>4, <1>5
    <2>2. CASE i <= Len(r)
        <3>1. i \in 1..Len(r) /\ j \in 1..Len(r) /\ r[i] = r[j]
            BY <1>2, <1>4, <1>5, <2>1, <2>2
        <3> QED
            BY <3>1
    <2>3. CASE ~(i <= Len(r))
        <3>1. i - Len(r) \in 1..Len(h) /\ j - Len(r) \in 1..Len(h) /\ h[i - Len(r)] = h[j - Len(r)]
            BY <1>2, <1>4, <1>5, <2>1, <2>3
        <3>2. i - Len(r) = j - Len(r)
            BY <3>1
        <3> QED
            BY <1>1, <1>2, <3>2
    <2> QED
        BY <2>2, <2>3
<1>6. \A i \in 1..Len(s) : s[i] \in R \cup H
    BY <1>2, <1>3, <1>4
<1> QED
    BY <1>1, <1>2, <1>5, <1>6 DEF s

\* Only SendCommand numbers a row.
LEMMA NumbersKept ==
    ASSUME Numbers, UNCHANGED sequence,
           \A c \in Command : status'[c] = "none" <=> status[c] = "none",
           replay' \subseteq Numbered, held' \subseteq Numbered, sent' \subseteq Numbered,
           pushing' \subseteq Numbered, answered' \subseteq Numbered
    PROVE  Numbers'
<1>1. Numbered' = Numbered
    BY DEF Numbered
<1>2. \A c \in Numbered : sequence'[c] = sequence[c]
    OBVIOUS
<1> QED
    BY <1>1, <1>2 DEF Numbers

\* Steps that move nothing but commands the server has a row for.
LEMMA ServerStepInv ==
    ASSUME TypeOK, ReportsFollow, LinkInv, UNCHANGED awaits, dropped' \in SUBSET Command,
           \/ \E c \in Command : RetryPost(c) \/ PushCommand(c) \/ AckArrives(c) \/ ReportArrives(c)
           \/ Connect \/ ReadReplay \/ Activate
    PROVE  LinkInv'
<1> USE DEF LinkInv, DeliveryTypeOK, TypeOK
<1>1. ASSUME UNCHANGED vars  PROVE ResolvedIsReached'
    BY <1>1 DEF ResolvedIsReached, vars
<1>2. ASSUME NEW c \in Command, RetryPost(c)  PROVE LinkInv'
    <2> USE <1>2 DEF RetryPost, vars, connVars, inboxVars
    <2>1. pushing' \subseteq Numbered
        BY DEF Numbers, Pending
    <2>2. Numbers'
        BY <2>1, NumbersKept DEF Numbers
    <2>3. DeliveryTypeOK'
        BY DEF Conn, Status
    <2>4. DoneIsReached' /\ StatusIsReported' /\ SentOncePerConnection'
        BY DEF DoneIsReached, StatusIsReported, SentOncePerConnection
    <2> QED
        BY <1>1, <2>2, <2>3, <2>4
<1>3. ASSUME NEW c \in Command, PushCommand(c)  PROVE LinkInv'
    <2> USE <1>3 DEF PushCommand, vars, inboxVars
    <2>1. /\ pushing' \subseteq Numbered /\ answered' \subseteq Numbered
          /\ held' \subseteq Numbered /\ sent' \subseteq Numbered
        BY DEF Numbers
    <2>2. Numbers'
        BY <2>1, NumbersKept DEF Numbers
    <2>3. down' \in Seq(Command) /\ SentOncePerConnection'
        <3>1. CASE UNCHANGED <<down, sent>>
            BY <3>1 DEF SentOncePerConnection
        <3>2. CASE c \notin sent /\ down' = Append(down, c) /\ sent' = sent \cup {c}
            BY <3>2, AppendProperties, SMTT(40) DEF SentOncePerConnection
        <3> QED
            BY <3>1, <3>2
    <2>4. DeliveryTypeOK'
        BY <2>3 DEF Conn, Status
    <2>5. DoneIsReached' /\ StatusIsReported'
        BY DEF DoneIsReached, StatusIsReported
    <2> QED
        BY <1>1, <2>2, <2>3, <2>4, <2>5
<1>4. ASSUME NEW c \in Command, AckArrives(c)  PROVE LinkInv'
    <2> USE <1>4 DEF AckArrives, vars, inboxVars
    <2>1. Numbers'
        BY NumbersKept DEF Numbers
    <2>2. DeliveryTypeOK'
        BY DEF Conn, Status
    <2>3. DoneIsReached' /\ StatusIsReported' /\ SentOncePerConnection'
        BY DEF DoneIsReached, StatusIsReported, SentOncePerConnection
    <2> QED
        BY <1>1, <2>1, <2>2, <2>3
<1>5. ASSUME NEW c \in Command, ReportArrives(c)  PROVE LinkInv'
    <2> USE <1>5 DEF ReportArrives, vars, inboxVars, connVars
    <2>1. PICK s \in reports[c] : status' = [status EXCEPT ![c] = s]
        OBVIOUS
    <2>2. s \in Reached /\ journal[c] = s
        BY <2>1 DEF ReportsFollow
    <2>3. Numbers'
        BY <2>1, <2>2, NumbersKept DEF Numbers, Reached
    <2>4. DeliveryTypeOK'
        BY <2>1, <2>2 DEF Conn, Status
    <2>5. DoneIsReached' /\ StatusIsReported' /\ SentOncePerConnection'
        BY <2>1, <2>2 DEF DoneIsReached, StatusIsReported, SentOncePerConnection
    <2> QED
        BY <1>1, <2>3, <2>4, <2>5
<1>6. CASE Connect
    <2> USE <1>6 DEF Connect, vars, serverVars, inboxVars
    <2>1. Numbers'
        BY NumbersKept DEF Numbers
    <2> QED
        BY <1>1, <2>1 DEF Conn, Status, DoneIsReached, StatusIsReported, SentOncePerConnection
<1>7. CASE ReadReplay
    <2> USE <1>7 DEF ReadReplay, vars, serverVars, inboxVars
    <2>1. Pending \in SUBSET Numbered
        BY DEF Numbers, Pending
    <2>2. Numbers'
        BY <2>1, NumbersKept DEF Numbers
    <2>3. replay' \in SUBSET Command
        BY DEF Pending
    <2> QED
        BY <1>1, <2>2, <2>3 DEF Conn, Status, DoneIsReached, StatusIsReported, SentOncePerConnection
<1>8. CASE Activate
    <2> USE <1>8 DEF Activate, vars, serverVars, inboxVars
    <2>1. replay \in SUBSET Numbered /\ held \ replay \in SUBSET Numbered
        BY DEF Numbers
    <2>2. Numbers'
        BY <2>1, NumbersKept DEF Numbers
    <2>3. /\ down' \in Seq(Command)
          /\ \A i, j \in 1..Len(down') : down'[i] = down'[j] => i = j
          /\ \A i \in 1..Len(down') : down'[i] \in sent'
        <3> DEFINE r == BySequence(replay)
                   h == BySequence(held \ replay)
        <3>1. /\ r \in Seq(replay) /\ \A i, j \in 1..Len(r) : r[i] = r[j] => i = j
              /\ h \in Seq(held \ replay) /\ \A i, j \in 1..Len(h) : h[i] = h[j] => i = j
            BY <2>1, Sorted
        <3>2. down' = r \o h /\ sent' = replay \cup (held \ replay)
            OBVIOUS
        <3>3. /\ replay \in SUBSET Command /\ held \ replay \in SUBSET Command
              /\ replay \cap (held \ replay) = {}
            OBVIOUS
        <3> HIDE DEF r, h, Activate
        <3> QED
            <4> DEFINE d == r \o h
            <4>1. /\ d \in Seq(Command)
                  /\ \A i, j \in 1..Len(d) : d[i] = d[j] => i = j
                  /\ \A i \in 1..Len(d) : d[i] \in replay \cup (held \ replay)
                BY ONLY <3>1, <3>3, Joined, ZenonT(30)
            <4> HIDE DEF d
            <4>2. down' = d
                BY <3>2 DEF d
            <4> QED
                BY ONLY <3>2, <4>1, <4>2
    <2>8. SentOncePerConnection'
        BY <2>3, Zenon DEF SentOncePerConnection
    <2>9. DeliveryTypeOK'
        BY <2>3 DEF Conn, Status
    <2> QED
        BY <1>1, <2>2, <2>8, <2>9 DEF DoneIsReached, StatusIsReported
<1> QED
    BY <1>2, <1>3, <1>4, <1>5, <1>6, <1>7, <1>8

\* A new command gets the number after the last one.
LEMMA SendInv ==
    ASSUME TypeOK, LinkInv, UNCHANGED awaits, dropped' \in SUBSET Command,
           NEW c \in Command, SendCommand(c)
    PROVE  LinkInv'
<1> USE DEF LinkInv, DeliveryTypeOK, TypeOK, SendCommand
<1> DEFINE n == Cardinality(Numbered) + 1
<1>0. IsFiniteSet(Numbered) /\ Cardinality(Numbered) \in Nat
    BY FS_CardinalityType DEF Numbers
<1>1. /\ c \notin Numbered /\ sequence' = [sequence EXCEPT ![c] = n]
      /\ n \in Nat /\ n > 0
    <2>1. c \notin Numbered
        BY DEF Numbers
    <2>2. sequence' = [sequence EXCEPT ![c] = n]
        BY DEF Numbered
    <2> QED
        BY ONLY <1>0, <2>1, <2>2
<1>2. \A d \in Numbered : sequence[d] < n
    <2>1. \A d \in Numbered : sequence[d] \in Nat /\ sequence[d] <= Cardinality(Numbered)
        BY DEF Numbers, Numbered
    <2> QED
        BY ONLY <1>0, <2>1
<1>3. Numbered' = Numbered \cup {c} /\ \A d \in Numbered : sequence'[d] = sequence[d]
    <2>1. \A d \in Command : sequence'[d] = IF d = c THEN n ELSE sequence[d]
        BY <1>1
    <2> HIDE DEF n, SendCommand
    <2>2. \A d \in Command : sequence'[d] > 0 <=> d = c \/ sequence[d] > 0
        BY <1>1, <2>1
    <2> QED
        BY <1>1, <2>1, <2>2 DEF Numbered
<1>4. IsFiniteSet(Numbered') /\ Cardinality(Numbered') = n
    BY <1>0, <1>1, <1>3, FS_AddElement
<1> HIDE DEF n
<1>a. \A d \in Numbered' : sequence'[d] <= n
    BY <1>1, <1>2, <1>3 DEF Numbered
<1>b. \A d, e \in Numbered' : sequence'[d] = sequence'[e] => d = e
    <2> SUFFICES ASSUME NEW d \in Numbered', NEW e \in Numbered', sequence'[d] = sequence'[e]
                 PROVE  d = e
        OBVIOUS
    <2>1. CASE d \in Numbered /\ e \in Numbered
        BY <1>3, <2>1 DEF Numbers
    <2>2. CASE d = c \/ e = c
        BY <1>1, <1>2, <1>3, <2>2 DEF Numbered
    <2> QED
        BY <1>3, <2>1, <2>2
<1>c. /\ \A d \in Command : status'[d] = "none" <=> d \notin Numbered'
      /\ replay' \subseteq Numbered' /\ held' \subseteq Numbered' /\ sent' \subseteq Numbered'
      /\ pushing' \subseteq Numbered' /\ answered' \subseteq Numbered'
    BY <1>3 DEF Numbers, connVars
<1>d. Numbers'
    BY ONLY <1>4, <1>a, <1>b, <1>c DEF Numbers
<1>5. DeliveryTypeOK'
    BY <1>1 DEF Conn, Status, connVars, inboxVars, vars
<1>6. (ResolvedIsReached /\ DoneIsReached /\ StatusIsReported /\ SentOncePerConnection)'
    BY DEF ResolvedIsReached, DoneIsReached, StatusIsReported, SentOncePerConnection, Reached,
           vars, connVars, inboxVars
<1> QED
    BY <1>d, <1>5, <1>6

\* Whatever a step of the queues does, it takes nothing back.
LEMMA Done ==
    ASSUME LinkInv, Advances, UNCHANGED awaits, DeliveryTypeOK',
           awaits => /\ acks' \subseteq acks \cup {c \in Command : journal'[c] \in Reached}
                     /\ \A c \in Command : inbox'[c] = "processed" =>
                            inbox[c] = "processed" \/ journal'[c] \in Reached
    PROVE  (UNCHANGED <<status, outbox>>
                => ResolvedIsReached' /\ DoneIsReached' /\ StatusIsReported')
<1>1. ResolvedIsReached'
    BY DEF LinkInv, Advances, ResolvedIsReached
<1>2. ASSUME UNCHANGED <<status, outbox>>  PROVE DoneIsReached'
    <2> SUFFICES ASSUME awaits, NEW c \in Command,
                        c \in acks' \/ inbox'[c] = "processed" \/ outbox'[c] = "acked"
                 PROVE  journal'[c] \in Reached
        BY DEF DoneIsReached
    <2>1. (journal[c] \in Reached => journal'[c] \in Reached)
        BY DEF Advances
    <2>2. (c \in acks \/ inbox[c] = "processed" \/ outbox[c] = "acked" => journal[c] \in Reached)
        BY DEF LinkInv, DoneIsReached
    <2> QED
        BY <1>2, <2>1, <2>2
<1>3. ASSUME UNCHANGED <<status, outbox>>  PROVE StatusIsReported'
    BY <1>3 DEF LinkInv, Advances, StatusIsReported
<1> QED
    BY <1>1, <1>2, <1>3

\* The connector takes messages from the link and settles its handlers.
LEMMA ConnectorStepInv ==
    ASSUME TypeOK, LinkInv, Advances, UNCHANGED awaits, dropped' \in SUBSET Command, NEW c \in Command,
           Deliver(c) \/ DeliverKnown(c) \/ HandlerResolves(c) \/ HandlerRejects(c)
    PROVE  LinkInv'
<1> USE DEF LinkInv, DeliveryTypeOK, TypeOK
<1>1. UNCHANGED serverVars /\ UNCHANGED disconnects
    BY DEF Deliver, DeliverKnown, HandlerResolves, HandlerRejects, Receives
<1>2. CASE Deliver(c) \/ DeliverKnown(c)
    <2>1. /\ down' = Tail(down) /\ down # <<>> /\ Head(down) = c
          /\ UNCHANGED <<conn, replay, held, sent>>
        BY <1>2 DEF Deliver, DeliverKnown, Receives
    <2>2. Numbers'
        BY <1>1, <2>1, NumbersKept DEF Numbers, serverVars
    <2>3. /\ down' \in Seq(Command) /\ Len(down') = Len(down) - 1 /\ Len(down) \in Nat
          /\ \A i \in 1..Len(down') : down'[i] = down[i + 1]
        BY <2>1
    <2>4. SentOncePerConnection'
        <3>1. \A i \in 1..Len(down') : i + 1 \in 1..Len(down)
            BY ONLY <2>3
        <3> QED
            BY <2>1, <2>3, <3>1 DEF SentOncePerConnection
    <2>5. /\ acks' \subseteq acks \cup {c} /\ inbox' \in [Command -> {"none", "received", "processed"}]
          /\ processing' \in [Command -> {"no", "this", "earlier"}]
          /\ \A d \in Command : d # c => inbox'[d] = inbox[d]
        <3>1. CASE Deliver(c)
            <4>1. CASE /\ inbox' = [inbox EXCEPT ![c] = "received"]
                       /\ processing' = [processing EXCEPT ![c] = "this"] /\ UNCHANGED acks
                BY <4>1
            <4>2. CASE /\ inbox' = [inbox EXCEPT ![c] = "processed"]
                       /\ acks' = acks \cup {c} /\ UNCHANGED processing
                BY <4>2
            <4> QED
                BY <3>1, <4>1, <4>2, Zenon DEF Deliver, Ack
        <3>2. CASE DeliverKnown(c)
            BY <3>2 DEF DeliverKnown, Ack, inboxVars
        <3> QED
            BY <1>2, <3>1, <3>2
    <2>6. DeliveryTypeOK'
        BY <1>1, <2>1, <2>3, <2>5 DEF Conn, Status, serverVars
    <2>7. ASSUME awaits, c \in acks' \/ inbox'[c] = "processed"
          PROVE  c \in acks \/ inbox[c] = "processed" \/ journal'[c] \in Reached
        BY <1>2, <2>7 DEF Deliver, DeliverKnown, Ack, inboxVars, HandleKnown
    <2>8. ASSUME awaits, c \in acks' \/ inbox'[c] = "processed"  PROVE journal'[c] \in Reached
        BY <2>7, <2>8 DEF DoneIsReached, Advances
    <2>9. ResolvedIsReached' /\ DoneIsReached' /\ StatusIsReported'
        BY <1>1, <2>5, <2>6, <2>8, Done DEF serverVars
    <2> QED
        BY <2>2, <2>4, <2>6, <2>9
<1>3. CASE HandlerResolves(c)
    <2> USE <1>3 DEF HandlerResolves
    <2>1. Numbers'
        BY <1>1, NumbersKept DEF Numbers, serverVars
    <2>2. DeliveryTypeOK'
        BY <1>1 DEF Conn, Status, serverVars
    <2>3. journal'[c] \in Reached
        BY DEF ResolvedIsReached, vars
    <2>4. ResolvedIsReached' /\ DoneIsReached' /\ StatusIsReported'
        BY <1>1, <2>2, <2>3, Done DEF serverVars
    <2> QED
        BY <2>1, <2>2, <2>4 DEF SentOncePerConnection
<1>4. CASE HandlerRejects(c)
    <2>1. /\ UNCHANGED <<acks, inbox>> /\ conn' \in Conn
          /\ \/ UNCHANGED <<down, replay, held, sent>>
             \/ down' = <<>> /\ replay' = {} /\ held' = {} /\ sent' = {}
          /\ processing' \in [Command -> {"no", "this", "earlier"}]
        BY <1>4 DEF HandlerRejects, Conn
    <2>2. Numbers'
        BY <1>1, <2>1, NumbersKept DEF Numbers, serverVars
    <2>a. /\ down' \in Seq(Command) /\ replay' \subseteq Command /\ held' \subseteq Command
          /\ sent' \subseteq Command
        BY <2>1, EmptySeq
    <2>3. DeliveryTypeOK'
        BY <1>1, <2>1, <2>a DEF Status, serverVars
    <2>4. SentOncePerConnection'
        <3>1. CASE UNCHANGED <<down, sent>>
            BY <3>1 DEF SentOncePerConnection
        <3>2. CASE down' = <<>>
            BY <3>2 DEF SentOncePerConnection
        <3> QED
            BY <2>1, <3>1, <3>2
    <2>5. ResolvedIsReached' /\ DoneIsReached' /\ StatusIsReported'
        BY <1>1, <2>1, <2>3, Done DEF serverVars
    <2> QED
        BY <2>2, <2>3, <2>4, <2>5
<1> QED
    BY <1>2, <1>3, <1>4

\* A connection, or a process on either side of it, goes away.
LEMMA BreakInv ==
    ASSUME TypeOK, LinkInv, Advances, UNCHANGED awaits, dropped' \in SUBSET Command,
           NEW lost \in SUBSET acks,
           Disconnect(lost) \/ ServerRestart(lost) \/ GoesDown(lost)
    PROVE  LinkInv'
<1> USE DEF LinkInv, DeliveryTypeOK, TypeOK
<1>1. /\ conn' = "down" /\ down' = <<>> /\ replay' = {} /\ held' = {} /\ sent' = {}
      /\ acks' = acks \ lost /\ UNCHANGED <<status, outbox, sequence, answered, earlier, inbox>>
      /\ pushing' \subseteq pushing /\ disconnects' \in 0..MaxDisconnects
      /\ processing' \in [Command -> {"no", "this", "earlier"}]
    BY DeliveryAssumption DEF Disconnect, ServerRestart, GoesDown, LinkBreaks, serverVars
<1>2. Numbers'
    BY <1>1, NumbersKept DEF Numbers
<1>3. DeliveryTypeOK'
    BY <1>1 DEF Conn, Status
<1>4. SentOncePerConnection'
    BY <1>1 DEF SentOncePerConnection
<1>5. ResolvedIsReached' /\ DoneIsReached' /\ StatusIsReported'
    BY <1>1, <1>3, Done
<1> QED
    BY <1>2, <1>3, <1>4, <1>5

LEMMA RuntimeStepInv ==
    ASSUME TypeOK, LinkInv, Advances, UNCHANGED awaits, dropped' \in SUBSET Command, RuntimeStep
    PROVE  LinkInv'
<1> USE DEF LinkInv, DeliveryTypeOK
<1>1. UNCHANGED <<serverVars, connVars, inboxVars>>
    BY DEF RuntimeStep
<1>2. Numbers'
    BY <1>1, NumbersKept DEF Numbers, serverVars, connVars
<1>3. DeliveryTypeOK'
    BY <1>1 DEF serverVars, connVars, inboxVars, Status, Conn
<1>4. SentOncePerConnection'
    BY <1>1 DEF SentOncePerConnection, connVars
<1>5. ResolvedIsReached' /\ DoneIsReached' /\ StatusIsReported'
    BY <1>1, <1>3, Done DEF serverVars, connVars, inboxVars
<1> QED
    BY <1>2, <1>3, <1>4, <1>5

LEMMA InitDeliveryInv == DeliveryInit => DeliveryInv
<1> SUFFICES ASSUME DeliveryInit  PROVE DeliveryInv
    OBVIOUS
<1>1. AInv
    BY InitAInv DEF DeliveryInit
<1>2. DeliveryTypeOK
    BY DeliveryAssumption, EmptySeq DEF DeliveryInit, DeliveryTypeOK, Status, Conn
<1>3. Numbered = {}
    BY DEF DeliveryInit, Numbered
<1>4. Numbers
    BY <1>3, FS_EmptySet DEF DeliveryInit, Numbers
<1>5. ResolvedIsReached /\ DoneIsReached /\ StatusIsReported /\ SentOncePerConnection
    BY DEF DeliveryInit, Init, ResolvedIsReached, DoneIsReached, StatusIsReported, SentOncePerConnection,
           Reached
<1> QED
    BY <1>1, <1>2, <1>4, <1>5 DEF DeliveryInv, LinkInv

LEMMA StepDeliveryInv ==
    ASSUME DeliveryInv, [DeliveryNext]_deliveryVars
    PROVE  DeliveryInv'
<1>1. TypeOK /\ ReportsFollow /\ LinkInv
    BY DEF DeliveryInv, AInv, IInv
<1>2. [Next]_vars
    BY DeliverySteps DEF deliveryVars
<1>3. AInv'
    BY <1>2, StepAInv DEF DeliveryInv
<1>4. Advances
    BY <1>1, <1>2, QueueAdvances
<1>5. CASE DeliveryNext
    <2>1. UNCHANGED awaits /\ dropped' \in SUBSET Command
        BY <1>1, <1>5 DEF DeliveryNext, LinkInv, DeliveryTypeOK
    <2>2. ASSUME NEW c \in Command, SendCommand(c)  PROVE LinkInv'
        BY <1>1, <2>1, <2>2, SendInv
    <2>3. ASSUME \/ \E c \in Command : RetryPost(c) \/ PushCommand(c) \/ AckArrives(c) \/ ReportArrives(c)
                 \/ Connect \/ ReadReplay \/ Activate
          PROVE  LinkInv'
        BY <1>1, <2>1, <2>3, ServerStepInv
    <2>4. ASSUME NEW c \in Command,
                 Deliver(c) \/ DeliverKnown(c) \/ HandlerResolves(c) \/ HandlerRejects(c)
          PROVE  LinkInv'
        BY <1>1, <1>4, <2>1, <2>4, ConnectorStepInv
    <2>5. ASSUME NEW lost \in SUBSET acks, Disconnect(lost) \/ ServerRestart(lost) \/ GoesDown(lost)
          PROVE  LinkInv'
        BY <1>1, <1>4, <2>1, <2>5, BreakInv
    <2>6. ASSUME RuntimeStep  PROVE LinkInv'
        BY <1>1, <1>4, <2>1, <2>6, RuntimeStepInv
    <2> QED
        BY <1>3, <1>5, <2>2, <2>3, <2>4, <2>5, <2>6
        DEF DeliveryNext, ServerStep, ConnectorStep, DeliveryInv
<1>6. CASE UNCHANGED deliveryVars
    <2> USE <1>1, <1>6 DEF deliveryVars, vars, serverVars, connVars, inboxVars
    <2>1. Numbers'
        BY NumbersKept DEF LinkInv, Numbers
    <2>2. (DeliveryTypeOK /\ ResolvedIsReached /\ DoneIsReached /\ StatusIsReported
              /\ SentOncePerConnection)'
        BY DEF LinkInv, DeliveryTypeOK, ResolvedIsReached, DoneIsReached, StatusIsReported,
               SentOncePerConnection, Status, Conn
    <2> QED
        BY <1>3, <2>1, <2>2 DEF DeliveryInv, LinkInv
<1> QED
    BY <1>5, <1>6

LEMMA DeliveryHolds == DeliverySpec => []DeliveryInv
    BY InitDeliveryInv, StepDeliveryInv, PTL DEF DeliverySpec

\* The delivery implements the queues of CommandQueue: whatever the link and the
\* server do, a command reaches the queues only in the ways CommandQueue allows,
\* so its theorems (one turn/start per command, one final report, serial turns)
\* hold of commands that are pushed, replayed and redelivered.
THEOREM DeliversToQueues == DeliverySpec => Spec
<1>1. DeliveryInit => Init
    BY DEF DeliveryInit
<1>2. [DeliveryNext]_deliveryVars => [Next]_vars
    BY DeliverySteps DEF deliveryVars
<1> QED
    BY <1>1, <1>2, PTL DEF DeliverySpec, Spec

\* The variables of the delivery keep their types, the list in flight included.
THEOREM DeliveryTypes == DeliverySpec => []DeliveryTypeOK
<1>1. DeliveryInv => DeliveryTypeOK
    BY DEF DeliveryInv, LinkInv
<1> QED
    BY <1>1, DeliveryHolds, PTL

\* The handler of MultiAgentRuntime: no promise rejects in a process that lives on,
\* and what is acknowledged is decided, still awaited by its queue, or was when the
\* process went down.
FanOutKeeps ==
    ~awaits => \A c \in Command :
        /\ handler[c] # "rejected"
        /\ c \in acks \/ inbox[c] = "processed" \/ outbox[c] = "acked" =>
               journal[c] \in Reached \/ handler[c] = "waiting" \/ c \in dropped

LEMMA NoneRejects ==
    ASSUME TypeOK, DeliveryNext, ~awaits, \A c \in Command : handler[c] # "rejected"
    PROVE  \A c \in Command : handler'[c] # "rejected"
<1> USE DEF TypeOK
<1>1. CASE UNCHANGED handler
    BY <1>1
<1>2. ASSUME NEW c \in Command, HandleFresh(c) \/ HandleKnown(c)
      PROVE  \A d \in Command : handler'[d] # "rejected"
    BY <1>2 DEF HandleFresh, HandleKnown
<1>3. ASSUME NEW t \in Thread, NEW s \in Reached, Conclude(t, s)
      PROVE  \A d \in Command : handler'[d] # "rejected"
    BY <1>3 DEF Conclude
<1>4. ASSUME ProcessDown  PROVE \A d \in Command : handler'[d] # "rejected"
    BY <1>4 DEF ProcessDown
<1>5. ASSUME NEW c \in Command, Deliver(c)  PROVE \A d \in Command : handler'[d] # "rejected"
    BY <1>2, <1>5 DEF Deliver
<1>6. ASSUME NEW lost \in SUBSET acks, GoesDown(lost)
      PROVE  \A d \in Command : handler'[d] # "rejected"
    BY <1>4, <1>6 DEF GoesDown, Crash, CrashBeforeWrite, Stop
<1>7. ASSUME NEW t \in Thread,
             \/ ClientReady(t) \/ AttachmentsRejected(t) \/ ResumeFails(t)
             \/ TurnStartSucceeds(t) \/ TurnStartUnknown(t)
      PROVE  \A d \in Command : handler'[d] # "rejected"
    <2>1. CASE ClientReady(t)
        BY <1>1, <1>3, <2>1 DEF ClientReady
    <2>2. CASE AttachmentsRejected(t) \/ ResumeFails(t) \/ TurnStartSucceeds(t) \/ TurnStartUnknown(t)
        BY <1>3, <2>2 DEF AttachmentsRejected, ResumeFails, TurnStartSucceeds, TurnStartUnknown, Reached
    <2> QED
        BY <1>7, <2>1, <2>2
<1>8. ASSUME NEW t \in Thread,
             AgentStep(t) \/ BeginDispatch(t) \/ ReleaseTimer(t) \/ UnknownTimer(t) \/ ClientClosed(t)
      PROVE  UNCHANGED handler
    BY <1>8 DEF AgentStep, AgentStartsTurn, TurnEnds, ForeignTurnEnds, ChildExits, BeginDispatch,
                ReleaseTimer, UnknownTimer, ClientClosed
<1>9. CASE RuntimeStep
    BY <1>1, <1>7, <1>8, <1>9 DEF RuntimeStep, Restart
<1>10. CASE \/ \E c \in Command :
                 \/ SendCommand(c) \/ RetryPost(c) \/ PushCommand(c) \/ AckArrives(c) \/ ReportArrives(c)
                 \/ DeliverKnown(c) \/ HandlerResolves(c) \/ HandlerRejects(c)
            \/ ReadReplay \/ Activate \/ Connect
            \/ \E lost \in SUBSET acks : Disconnect(lost) \/ ServerRestart(lost)
    BY <1>1, <1>10 DEF SendCommand, RetryPost, PushCommand, AckArrives, ReportArrives, DeliverKnown,
                HandlerResolves, HandlerRejects, ReadReplay, Activate, Connect, Disconnect,
                ServerRestart, vars
<1> QED
    BY <1>5, <1>6, <1>9, <1>10 DEF DeliveryNext, ServerStep, ConnectorStep

\* A command is acknowledged when it is in the queue, or when it already was.
LEMMA NewlyDone ==
    ASSUME TypeOK, ReportsFollow, LinkInv, Advances, DeliveryNext, ~awaits, NEW c \in Command,
           c \in acks' \/ inbox'[c] = "processed" \/ outbox'[c] = "acked"
    PROVE  \/ c \in acks \/ inbox[c] = "processed" \/ outbox[c] = "acked"
           \/ journal'[c] \in Reached \/ handler'[c] = "waiting"
<1> USE DEF TypeOK, LinkInv, DeliveryTypeOK
<1>1. ASSUME NEW d \in Command, Deliver(d)
      PROVE  \/ c \in acks \/ inbox[c] = "processed" \/ outbox[c] = "acked"
             \/ journal'[c] \in Reached \/ handler'[c] = "waiting"
    <2>1. UNCHANGED outbox /\ acks' = acks \cup {d}
          /\ inbox' = [inbox EXCEPT ![d] = "processed"] /\ (HandleKnown(d) \/ HandleFresh(d))
        BY <1>1 DEF Deliver, Receives, Ack, serverVars
    <2>2. journal'[d] \in Reached \/ handler'[d] = "waiting"
        BY <2>1 DEF HandleKnown, HandleFresh
    <2> QED
        BY <2>1, <2>2
<1>2. ASSUME NEW d \in Command, HandlerResolves(d)
      PROVE  \/ c \in acks \/ inbox[c] = "processed" \/ outbox[c] = "acked"
             \/ journal'[c] \in Reached
    <2>1. journal'[d] \in Reached
        BY <1>2 DEF HandlerResolves, ResolvedIsReached, vars
    <2>2. UNCHANGED outbox /\ acks' \subseteq acks \cup {d}
          /\ inbox' = [inbox EXCEPT ![d] = "processed"]
        BY <1>2 DEF HandlerResolves, serverVars
    <2> QED
        BY <2>1, <2>2
<1>3. ASSUME NEW d \in Command, ReportArrives(d)
      PROVE  \/ c \in acks \/ inbox[c] = "processed" \/ outbox[c] = "acked"
             \/ journal'[c] \in Reached
    <2>1. journal'[d] \in Reached
        BY <1>3 DEF ReportArrives, ReportsFollow, vars
    <2>2. UNCHANGED <<acks, inbox>> /\ outbox' = [outbox EXCEPT ![d] = "acked"]
        BY <1>3 DEF ReportArrives, connVars, inboxVars
    <2> QED
        BY <2>1, <2>2
<1>4. ASSUME NEW d \in Command, SendCommand(d) \/ AckArrives(d) \/ DeliverKnown(d)
      PROVE  c \in acks \/ inbox[c] = "processed" \/ outbox[c] = "acked"
    BY <1>4 DEF SendCommand, AckArrives, DeliverKnown, Receives, Ack, serverVars, connVars, inboxVars
<1>5. ASSUME NEW lost \in SUBSET acks, Disconnect(lost) \/ ServerRestart(lost) \/ GoesDown(lost)
      PROVE  c \in acks \/ inbox[c] = "processed" \/ outbox[c] = "acked"
    BY <1>5 DEF Disconnect, ServerRestart, GoesDown, LinkBreaks, serverVars
<1>6. ASSUME \/ \E d \in Command : RetryPost(d) \/ PushCommand(d) \/ HandlerRejects(d)
             \/ ReadReplay \/ Activate \/ Connect \/ RuntimeStep
      PROVE  c \in acks \/ inbox[c] = "processed" \/ outbox[c] = "acked"
    BY <1>6 DEF RetryPost, PushCommand, HandlerRejects, ReadReplay, Activate, Connect, RuntimeStep,
                serverVars, connVars, inboxVars
<1> QED
    BY <1>1, <1>2, <1>3, <1>4, <1>5, <1>6 DEF DeliveryNext, ServerStep, ConnectorStep

LEMMA FanOutHolds == DeliverySpec => []FanOutKeeps
<1>1. DeliveryInit => FanOutKeeps
    BY DEF DeliveryInit, Init, FanOutKeeps
<1>2. DeliveryInv /\ DeliveryInv' /\ FanOutKeeps /\ [DeliveryNext]_deliveryVars => FanOutKeeps'
    <2> SUFFICES ASSUME DeliveryInv, DeliveryInv', FanOutKeeps, [DeliveryNext]_deliveryVars
                 PROVE  FanOutKeeps'
        OBVIOUS
    <2>1. TypeOK /\ TypeOK' /\ ReportsFollow /\ LinkInv
        BY DEF DeliveryInv, AInv, IInv
    <2>2. CASE UNCHANGED deliveryVars
        BY <2>2 DEF FanOutKeeps, deliveryVars, vars, serverVars, connVars, inboxVars
    <2>3. CASE DeliveryNext
        <3> SUFFICES ASSUME ~awaits, NEW c \in Command
                     PROVE  /\ handler'[c] # "rejected"
                            /\ c \in acks' \/ inbox'[c] = "processed" \/ outbox'[c] = "acked" =>
                                   journal'[c] \in Reached \/ handler'[c] = "waiting" \/ c \in dropped'
            BY <2>3 DEF FanOutKeeps, DeliveryNext
        <3>1. handler'[c] # "rejected"
            BY <2>1, <2>3, NoneRejects DEF FanOutKeeps
        <3>2. Advances
            BY <2>1, <2>3, DeliverySteps, QueueAdvances
        <3>3. ASSUME journal[c] \in Reached \/ handler[c] = "waiting" \/ c \in dropped
              PROVE  journal'[c] \in Reached \/ handler'[c] = "waiting" \/ c \in dropped'
            BY <2>3, <3>1, <3>2, <3>3 DEF Advances, DeliveryNext
        <3>4. ASSUME c \in acks' \/ inbox'[c] = "processed" \/ outbox'[c] = "acked"
              PROVE  journal'[c] \in Reached \/ handler'[c] = "waiting" \/ c \in dropped'
            <4>1. CASE c \in acks \/ inbox[c] = "processed" \/ outbox[c] = "acked"
                BY <3>3, <4>1 DEF FanOutKeeps
            <4>2. CASE journal'[c] \in Reached \/ handler'[c] = "waiting"
                BY <4>2
            <4> QED
                BY <2>1, <2>3, <3>2, <3>4, <4>1, <4>2, NewlyDone
        <3> QED
            BY <3>1, <3>4
    <2> QED
        BY <2>2, <2>3
<1> QED
    BY <1>1, <1>2, DeliveryHolds, PTL DEF DeliverySpec

\* An acknowledged command is decided in the journal, or a queue of the process that
\* acknowledged it still holds it, or held it when that process went down: broken
\* connections, lost ACKs, replays and restarts of the server lose nothing.
THEOREM AckedIsHeld == DeliverySpec => []AckedIsKept
<1>1. DeliveryInv /\ FanOutKeeps /\ QueuedOnce => AckedIsKept
    BY DEF DeliveryInv, LinkInv, DoneIsReached, FanOutKeeps, QueuedOnce, AckedIsKept, InQueue
<1>2. DeliverySpec => []QueuedOnce
    BY DeliversToQueues, AwaitedOnce, PTL
<1> QED
    BY <1>1, <1>2, DeliveryHolds, FanOutHolds, PTL

\* The status of the server is the outcome in the connector's journal, and no
\* other report of the command is in the outbox or ever will be.
THEOREM ServerIsRight == DeliverySpec => []ServerAgrees
<1>1. DeliveryInv => ServerAgrees
    BY DEF DeliveryInv, LinkInv, AInv, StatusIsReported, ReportsFollow, ServerAgrees
<1> QED
    BY <1>1, DeliveryHolds, PTL

\* A push that races with the replay does not put a command on a connection
\* twice.
THEOREM SentOnce == DeliverySpec => []SentOncePerConnection
<1>1. DeliveryInv => SentOncePerConnection
    BY DEF DeliveryInv, LinkInv
<1> QED
    BY <1>1, DeliveryHolds, PTL
-----------------------------------------------------------------------------
Open(c) == journal[c] \notin Reached

\* Answered by the server, and neither decided nor with the connector's runtime.
Due(d) == d \in answered /\ Open(d) /\ handler[d] = "idle"

\* What was taken by the runtime has a row, was taken by this process, and is
\* still in its hands.
TakenAreKnown ==
    \A c \in Command :
        /\ handler[c] # "idle" => running /\ c \in Numbered
        /\ journal[c] # "absent" => c \in Numbered
        /\ c \in Numbered => outbox[c] # "none"
        /\ processing[c] # "no" => handler[c] # "idle"
        /\ handler[c] = "rejected" => queue[thread[c]].blocked

\* The commands a command must not overtake have smaller numbers.
EarlierAreBefore ==
    \A c \in Command : \A d \in earlier[c] :
        d \in answered /\ thread[d] = thread[c] /\ c \in Numbered /\ sequence[d] < sequence[c]

\* What is done with a command happens after the runtime took it.
DoneIsTaken ==
    \A c \in Command :
        c \in acks \/ inbox[c] = "processed" \/ outbox[c] = "acked" => ~Open(c) \/ handler[c] # "idle"

\* Every answered command that was not taken yet is carried by the connection.
DueIsCarried ==
    /\ \A d \in Command : Open(d) /\ handler[d] = "idle" /\ d \in sent =>
           \E i \in 1..Len(down) : down[i] = d
    /\ \A d \in Command : Due(d) =>
           /\ conn = "replaying" => d \in replay \cup held
           /\ conn = "active" => d \in sent

\* On the link it is ahead of the commands that must not overtake it.
LinkOrder ==
    \A c \in Command : \A d \in earlier[c] : Due(d) =>
        /\ c \in replay => d \in replay
        /\ \A i \in 1..Len(down) : down[i] = c => \E j \in 1..(i - 1) : down[j] = d

\* In queue q command c is not dispatched, and does not come next, before d.
Ahead(q, c, d) ==
    /\ Dispatches(q) => q.active.job # c
    /\ \A i \in 1..Len(q.pending) : q.pending[i] = c =>
           \/ q.blocked
           \/ Dispatches(q) /\ q.active.job = d
           \/ \E j \in 1..(i - 1) : q.pending[j] = d

QueueOrder ==
    \A c \in Command : \A d \in earlier[c] : Open(d) =>
        journal[c] \notin {"sent_unknown", "delivered"} /\ Ahead(queue[thread[c]], c, d)

\* The connector keeps what it acknowledged.
Keeps == awaits \/ restarts = 0

OrderInv ==
    /\ TakenAreKnown /\ EarlierAreBefore
    /\ Keeps => DoneIsTaken /\ DueIsCarried /\ LinkOrder /\ QueueOrder

Dispatched(c) == Dispatches(queue[thread[c]]) /\ queue[thread[c]].active.job = c

\* The client of queue q goes on, and its job is decided when it is given up,
\* unless the queue blocks.
Moves(q, n, j) ==
    /\ n.pending = q.pending
    /\ q.blocked => n.blocked
    /\ Dispatches(n) => Dispatches(q) /\ n.active.job = q.active.job
    /\ Dispatches(q) /\ ~Dispatches(n) => n.blocked \/ j[q.active.job] \in Reached

\* What a step does to the queue of a thread.
QueueSteps(t) ==
    \/ Moves(queue[t], queue'[t], journal')
    \/ \E c \in Command : HandleFresh(c) /\ thread[c] = t /\ queue'[t] = Pump(Enqueue(queue[t], c))
    \/ ~Dispatches(queue[t]) /\ queue'[t] = Pump([queue[t] EXCEPT !.active = NoClient])
    \/ (ProcessDown \/ Restart) /\ queue'[t].pending = <<>> /\ queue'[t].active = NoClient

LEMMA MovedBy ==
    ASSUME TypeOK, NEW t \in Thread, queue[t].active # NoClient, NEW a \in Client, NEW b \in BOOLEAN,
           Become(t, a, b), a.job = queue[t].active.job, queue[t].blocked => b,
           a.phase \in Dispatching => queue[t].active.phase \in Dispatching,
           queue[t].active.phase \in Dispatching /\ a.phase \notin Dispatching =>
               b \/ journal'[a.job] \in Reached,
           NEW u \in Thread
    PROVE  Moves(queue[u], queue'[u], journal')
<1>1. CASE u = t
    BY <1>1, BecomeFacts, NoClientAssumption DEF Moves, Dispatches
<1>2. CASE u # t
    BY <1>2, BecomeFacts DEF Moves
<1> QED
    BY <1>1, <1>2

LEMMA ClientMoves ==
    ASSUME AInv, NEW t \in Thread, ClientStep(t), NEW u \in Thread
    PROVE  QueueSteps(u)
<1> DEFINE x == queue[t].active
<1>0. x # NoClient /\ TypeOK
    BY DEF ClientStep, ClientFails, ClientReady, AttachmentsRejected, ResumeFails,
           BeginDispatch, TurnStartSucceeds, TurnStartUnknown, ReleaseTimer, UnknownTimer,
           ClientClosed, InPhase, AInv, IInv
<1>1. x \in Client /\ x.job \in Command /\ x.terminals \in SUBSET {"own", "foreign"}
      /\ queue[t].blocked \in BOOLEAN
    BY <1>0, ActiveType DEF Client, TypeOK, Queue
<1>2. ASSUME NEW a \in Client, NEW b \in BOOLEAN, Become(t, a, b), a.job = x.job, queue[t].blocked => b,
             a.phase \in Dispatching => x.phase \in Dispatching,
             x.phase \in Dispatching /\ a.phase \notin Dispatching => b \/ journal'[a.job] \in Reached
      PROVE  QueueSteps(u)
    BY <1>0, <1>2, MovedBy DEF QueueSteps
<1>3. ASSUME NEW p \in Phase, NEW b \in BOOLEAN, Proceed(t, p, b), queue[t].blocked => b,
             p \in Dispatching => x.phase \in Dispatching,
             x.phase \in Dispatching /\ p \notin Dispatching => b \/ journal'[x.job] \in Reached
      PROVE  QueueSteps(u)
    <2> DEFINE a == [x EXCEPT !.phase = p]
    <2>1. a \in Client /\ a.job = x.job /\ a.phase = p /\ Become(t, a, b)
        BY <1>1, <1>3 DEF Client, Proceed
    <2> HIDE DEF a
    <2> QED
        BY <1>2, <1>3, <2>1
<1>4. ASSUME NEW s \in Reached, Conclude(t, s)  PROVE journal'[x.job] \in Reached
    BY <1>0, <1>1, <1>4 DEF Conclude, TypeOK
<1>5. CASE ClientFails(t)
    BY <1>3, <1>5 DEF ClientFails, Phase, Dispatching
<1>6. CASE ClientReady(t)
    <2>1. CASE journal[x.job] \in Reached
        BY <1>1, <1>3, <1>4, <1>6, <2>1 DEF ClientReady, Phase, Dispatching
    <2>2. CASE journal[x.job] \notin Reached
        BY <1>1, <1>3, <1>6, <2>2 DEF ClientReady, Phase, Dispatching, InPhase
    <2> QED
        BY <2>1, <2>2
<1>7. CASE AttachmentsRejected(t) \/ ResumeFails(t)
    BY <1>1, <1>3, <1>4, <1>7 DEF AttachmentsRejected, ResumeFails, Phase, Dispatching, Reached
<1>8. CASE BeginDispatch(t)
    BY <1>1, <1>3, <1>8 DEF BeginDispatch, Phase, Dispatching, InPhase
<1>9. CASE TurnStartSucceeds(t)
    <2> DEFINE a == [x EXCEPT !.phase = "open", !.release = "own" \in x.terminals]
    <2>1. a \in Client /\ a.job = x.job /\ a.phase = "open"
        <3>1. ("own" \in x.terminals) \in BOOLEAN
            OBVIOUS
        <3> QED
            BY <1>1, <3>1 DEF Client, Phase
    <2>3. Become(t, a, queue[t].blocked)
        BY <1>9 DEF TurnStartSucceeds
    <2>2. journal'[x.job] \in Reached
        BY <1>4, <1>9 DEF TurnStartSucceeds, Reached
    <2> HIDE DEF a
    <2> QED
        BY <1>1, <1>2, <2>1, <2>2, <2>3 DEF Dispatching
<1>10. CASE TurnStartUnknown(t)
    <2> DEFINE a == [x EXCEPT !.phase = "ambiguous", !.release = x.terminals # {}]
    <2>1. a \in Client /\ a.job = x.job /\ a.phase = "ambiguous" /\ Become(t, a, TRUE)
        BY <1>1, <1>10 DEF Client, Phase, TurnStartUnknown
    <2> HIDE DEF a
    <2> QED
        BY <1>1, <1>2, <2>1 DEF Dispatching
<1>11. CASE ReleaseTimer(t) \/ UnknownTimer(t)
    BY <1>1, <1>3, <1>11 DEF ReleaseTimer, UnknownTimer, InPhase, Phase, Dispatching
<1>12. CASE ClientClosed(t)
    <2>1. CASE u = t
        <3>1. queue'[t] = Pump([queue[t] EXCEPT !.active = NoClient])
            BY <1>0, <1>12 DEF ClientClosed, TypeOK
        <3>2. ~Dispatches(queue[t])
            BY <1>12 DEF ClientClosed, InPhase, Dispatches, Dispatching
        <3> QED
            BY <2>1, <3>1, <3>2 DEF QueueSteps
    <2>2. CASE u # t
        <3>1. queue'[u] = queue[u]
            BY <1>0, <1>12, <2>2 DEF ClientClosed, TypeOK
        <3> QED
            BY <3>1 DEF QueueSteps, Moves
    <2> QED
        BY <2>1, <2>2
<1> QED
    BY <1>5, <1>6, <1>7, <1>8, <1>9, <1>10, <1>11, <1>12 DEF ClientStep

\* Every step does to a queue what the queues allow.
LEMMA QueueStep ==
    ASSUME AInv, [Next]_vars, NEW u \in Thread
    PROVE  QueueSteps(u)
<1>0. TypeOK
    BY DEF AInv, IInv
<1>1. CASE UNCHANGED queue
    BY <1>1 DEF QueueSteps, Moves
<1>2. ASSUME NEW c \in Command, HandleFresh(c)  PROVE QueueSteps(u)
    <2>1. CASE thread[c] = u
        <3>1. queue'[u] = Pump(Enqueue(queue[u], c))
            BY <1>0, <1>2, <2>1 DEF HandleFresh, TypeOK
        <3> QED
            BY <1>2, <2>1, <3>1 DEF QueueSteps
    <2>2. CASE thread[c] # u
        <3>1. queue'[u] = queue[u]
            BY <1>0, <1>2, <2>2 DEF HandleFresh, TypeOK
        <3> QED
            BY <3>1 DEF QueueSteps, Moves
    <2> QED
        BY <2>1, <2>2
<1>3. ASSUME NEW c \in Command, HandleKnown(c)  PROVE QueueSteps(u)
    <2> DEFINE t == thread[c]
               b == queue[t].blocked \/ journal[c] = "sent_unknown"
    <2>1. t \in Thread /\ Become(t, queue[t].active, b)
        BY <1>3, ThreadAssumption DEF HandleKnown
    <2>2. queue[t].blocked => b
        OBVIOUS
    <2> HIDE DEF t, b
    <2>3. CASE u = t
        BY <1>0, <2>1, <2>2, <2>3, BecomeFacts DEF QueueSteps, Moves, Dispatches
    <2>4. CASE u # t
        BY <1>0, <2>1, <2>4, BecomeFacts DEF QueueSteps, Moves
    <2> QED
        BY <2>3, <2>4
<1>4. ASSUME NEW t \in Thread, ClientStep(t)  PROVE QueueSteps(u)
    BY <1>4, ClientMoves
<1>5. ASSUME NEW t \in Thread, AgentStep(t)  PROVE QueueSteps(u)
    <2> DEFINE x == queue[t].active
    <2>1. x # NoClient
        BY <1>5 DEF AgentStep, AgentStartsTurn, TurnEnds, ForeignTurnEnds, ChildExits
    <2>2. x \in Client /\ x.terminals \in SUBSET {"own", "foreign"} /\ queue[t].blocked \in BOOLEAN
        BY <1>0, <2>1, ActiveType DEF Client, TypeOK, Queue
    <2>3. ASSUME NEW a \in Client, a.job = x.job, a.phase = x.phase, Become(t, a, queue[t].blocked)
          PROVE  QueueSteps(u)
        BY <1>0, <2>1, <2>2, <2>3, MovedBy DEF QueueSteps
    <2>4. ASSUME NEW w \in {"own", "foreign"}, Observe(t, w)  PROVE QueueSteps(u)
        <3> DEFINE r == x.release \/ x.phase = "ambiguous" \/ (x.phase = "open" /\ w = "own")
                   a == [x EXCEPT !.terminals = x.terminals \cup {w}, !.release = r]
        <3>1. Become(t, a, queue[t].blocked)
            BY <2>4 DEF Observe
        <3>2. a \in Client /\ a.job = x.job /\ a.phase = x.phase
            <4>1. r \in BOOLEAN
                OBVIOUS
            <4> HIDE DEF r
            <4> QED
                BY <2>2, <4>1 DEF Client
        <3> HIDE DEF a
        <3> QED
            BY <2>3, <3>1, <3>2
    <2>5. CASE ChildExits(t)
        <3> DEFINE a == [x EXCEPT !.exited = TRUE]
        <3>1. a \in Client /\ a.job = x.job /\ a.phase = x.phase /\ Become(t, a, queue[t].blocked)
            BY <2>2, <2>5 DEF Client, ChildExits
        <3> HIDE DEF a
        <3> QED
            BY <2>3, <3>1
    <2> QED
        BY <1>1, <1>5, <2>4, <2>5 DEF AgentStep, AgentStartsTurn, TurnEnds, ForeignTurnEnds
<1>6. ASSUME ProcessDown  PROVE QueueSteps(u)
    BY <1>6 DEF ProcessDown, IdleQueue, QueueSteps
<1>7. CASE Restart
    BY <1>7 DEF Restart, IdleQueue, QueueSteps
<1> QED
    BY <1>1, <1>2, <1>3, <1>4, <1>5, <1>6, <1>7 DEF Next, CrashBeforeWrite, Crash, Stop, vars

\* Pumping does not change the order of a queue.
LEMMA PumpAhead ==
    ASSUME NEW q \in Queue, NEW c \in Command, NEW d \in Command, c # d, Ahead(q, c, d)
    PROVE  Ahead(Pump(q), c, d)
<1> DEFINE n == Pump(q)
<1>1. CASE n = q
    BY <1>1
<1>2. CASE /\ ~q.blocked /\ q.active = NoClient /\ q.pending # <<>>
           /\ n.active = NewClient(Head(q.pending)) /\ n.active # NoClient
           /\ n.pending = Tail(q.pending)
    <2> HIDE DEF n
    <2>1. q.pending \in Seq(Command)
        BY DEF Queue
    <2>2. /\ Len(n.pending) = Len(q.pending) - 1 /\ Len(q.pending) \in Nat \ {0}
          /\ \A i \in 1..Len(n.pending) : i + 1 \in 1..Len(q.pending) /\ n.pending[i] = q.pending[i + 1]
          /\ Head(q.pending) = q.pending[1]
        BY <1>2, <2>1
    <2>3. /\ Dispatches(n) /\ n.active.job = q.pending[1] /\ ~Dispatches(q)
        BY <1>2, <2>2 DEF Dispatches, Dispatching, NewClient
    <2>4. \A i \in 1..Len(q.pending) : q.pending[i] = c => \E j \in 1..(i - 1) : q.pending[j] = d
        BY <1>2, <2>3 DEF Ahead
    <2>5. n.active.job # c
        BY <2>2, <2>3, <2>4
    <2>6. ASSUME NEW i \in 1..Len(n.pending), n.pending[i] = c
          PROVE  n.active.job = d \/ \E j \in 1..(i - 1) : n.pending[j] = d
        <3>1. PICK j \in 1..i : q.pending[j] = d
            BY <2>2, <2>4, <2>6, SMTT(40)
        <3>2. CASE j = 1
            BY <2>3, <3>1, <3>2
        <3>3. CASE j # 1
            <4>1. j - 1 \in 1..(i - 1) /\ j - 1 \in 1..Len(n.pending) /\ (j - 1) + 1 = j
                BY <3>3, <2>2
            <4>2. n.pending[j - 1] = d
                BY <2>2, <3>1, <4>1
            <4> QED
                BY <4>1, <4>2
        <3> QED
            BY <3>2, <3>3
    <2>7. Ahead(n, c, d)
        BY <2>3, <2>5, <2>6 DEF Ahead
    <2> QED
        BY <2>7 DEF n
<1> QED
    BY <1>1, <1>2, PumpFacts

\* A step keeps the order of a queue; a command that joins it joins at its end.
LEMMA AheadKept ==
    ASSUME AInv, [Next]_vars, NEW c \in Command, NEW d \in Command, c # d, thread[c] = thread[d],
           Ahead(queue[thread[c]], c, d), Open(d)',
           HandleFresh(c) => handler[d] # "idle",
           handler[d] = "resolved" => ~Open(d),
           handler[d] = "rejected" => queue[thread[d]].blocked
    PROVE  Ahead(queue[thread[c]], c, d)'
<1> DEFINE q == queue[thread[c]]
           n == queue'[thread[c]]
<1>0. /\ thread[c] \in Thread /\ q \in Queue /\ q.pending \in Seq(Command)
      /\ Answers(thread[c], q, handler, reports) /\ TypeOK
    BY ThreadAssumption DEF AInv, IInv, TypeOK, Queue, QueuesAnswer
<1>a. Ahead(q, c, d)
    OBVIOUS
<1>1. CASE Moves(q, n, journal')
    BY <1>0, <1>1 DEF Ahead, Moves, Open
<1>2. ASSUME NEW e \in Command, HandleFresh(e), n = Pump(Enqueue(q, e))  PROVE Ahead(n, c, d)
    <2> DEFINE m == Enqueue(q, e)
    <2>1. /\ m \in Queue /\ m.blocked = q.blocked /\ m.active = q.active
          /\ m.pending = Append(q.pending, e)
        BY <1>0, AppendProperties DEF Enqueue, Queue
    <2>2. /\ Len(m.pending) = Len(q.pending) + 1 /\ Len(q.pending) \in Nat
          /\ \A i \in 1..Len(q.pending) : m.pending[i] = q.pending[i]
          /\ m.pending[Len(q.pending) + 1] = e
        BY <1>0, <2>1, AppendProperties
    <2> HIDE DEF m, q
    <2>3. Dispatches(m) <=> Dispatches(q)
        BY <2>1 DEF Dispatches
    <2>4. \A i \in 1..Len(m.pending) : i \in 1..Len(q.pending) \/ i = Len(q.pending) + 1
        BY <2>2
    <2>5. ASSUME e = c
          PROVE  \/ q.blocked \/ (Dispatches(q) /\ q.active.job = d)
                 \/ \E j \in 1..Len(q.pending) : q.pending[j] = d
        <3>1. handler[d] \in {"waiting", "resolved", "rejected"}
            BY <1>0, <1>2, <2>5 DEF TypeOK, Handler
        <3>2. UNCHANGED journal
            BY <1>2 DEF HandleFresh
        <3>3. CASE handler[d] = "waiting"
            BY <1>0, <3>3 DEF Answers
        <3>4. CASE handler[d] = "resolved"
            BY <3>2, <3>4 DEF Open
        <3>5. CASE handler[d] = "rejected"
            BY <3>5 DEF q
        <3> QED
            BY <3>1, <3>3, <3>4, <3>5
    <2>6. Ahead(m, c, d)
        <3>1. ASSUME NEW i \in 1..Len(m.pending), m.pending[i] = c
              PROVE  \/ m.blocked \/ (Dispatches(m) /\ m.active.job = d)
                     \/ \E j \in 1..(i - 1) : m.pending[j] = d
            <4>1. CASE i \in 1..Len(q.pending)
                <5>1. q.pending[i] = c
                    BY <2>2, <3>1, <4>1
                <5>2. \/ q.blocked \/ (Dispatches(q) /\ q.active.job = d)
                      \/ \E j \in 1..(i - 1) : q.pending[j] = d
                    BY <1>a, <4>1, <5>1 DEF Ahead
                <5>3. \A j \in 1..(i - 1) : j \in 1..Len(q.pending)
                    BY <4>1, <2>2
                <5> QED
                    BY <2>1, <2>2, <2>3, <5>2, <5>3
            <4>2. CASE i = Len(q.pending) + 1
                <5>1. e = c
                    BY <2>2, <3>1, <4>2
                <5>2. i - 1 = Len(q.pending)
                    BY <2>2, <4>2
                <5> QED
                    BY <2>1, <2>2, <2>3, <2>5, <5>1, <5>2
            <4> QED
                BY <2>4, <4>1, <4>2
        <3>2. (Dispatches(m) => m.active.job # c)
            BY <1>a, <2>1, <2>3 DEF Ahead
        <3> QED
            BY <3>1, <3>2 DEF Ahead
    <2> QED
        BY <1>2, <2>1, <2>6, PumpAhead DEF m
<1>3. CASE ~Dispatches(q) /\ n = Pump([q EXCEPT !.active = NoClient])
    <2> DEFINE m == [q EXCEPT !.active = NoClient]
    <2>1. m \in Queue /\ m.pending = q.pending /\ m.blocked = q.blocked /\ m.active = NoClient
        BY <1>0 DEF Queue
    <2> HIDE DEF m
    <2>2. Ahead(m, c, d)
        BY <1>3, <2>1 DEF Ahead, Dispatches
    <2> QED
        BY <1>3, <2>1, <2>2, PumpAhead DEF m
<1>4. CASE n.pending = <<>> /\ n.active = NoClient
    BY <1>4 DEF Ahead, Dispatches
<1> QED
    BY <1>0, <1>1, <1>2, <1>3, <1>4, QueueStep DEF QueueSteps

\* Only the command that is dispatched changes in the journal.
LEMMA JournalStep ==
    ASSUME AInv, [Next]_vars, NEW c \in Command, journal'[c] # journal[c]
    PROVE  Dispatched(c)
<1>0. /\ TypeOK
      /\ \A t \in Thread : queue[t].active # NoClient =>
             queue[t].active.job \in Command /\ thread[queue[t].active.job] = t
    BY ActiveType DEF AInv, IInv, ClientsAgree
<1>1. ASSUME NEW t \in Thread, queue[t].active # NoClient, queue[t].active.phase \in Dispatching,
             NEW s, journal' = [journal EXCEPT ![queue[t].active.job] = s]
      PROVE  Dispatched(c)
    <2>1. queue[t].active.job = c
        BY <1>0, <1>1 DEF TypeOK
    <2> QED
        BY <1>0, <1>1, <2>1 DEF Dispatched, Dispatches
<1>2. ASSUME NEW t \in Thread, ClientStep(t)  PROVE Dispatched(c)
    <2>1. CASE ClientReady(t)
        BY <1>1, <2>1 DEF ClientReady, Conclude, InPhase, Dispatching
    <2>2. CASE AttachmentsRejected(t) \/ ResumeFails(t) \/ BeginDispatch(t)
               \/ TurnStartSucceeds(t) \/ TurnStartUnknown(t)
        BY <1>1, <2>2 DEF AttachmentsRejected, ResumeFails, BeginDispatch, TurnStartSucceeds,
                          TurnStartUnknown, Conclude, InPhase, Dispatching
    <2> QED
        BY <1>2, <2>1, <2>2 DEF ClientStep, ClientFails, ReleaseTimer, UnknownTimer, ClientClosed
<1>3. ASSUME NEW t \in Thread, CrashBeforeWrite(t)  PROVE Dispatched(c)
    BY <1>1, <1>3 DEF CrashBeforeWrite, InPhase, Dispatching
<1>4. ASSUME NEW T \in SUBSET Thread, Stop(T)  PROVE Dispatched(c)
    BY <1>4 DEF Stop, Dispatched, Dispatches, InPhase, Dispatching, TypeOK
<1> QED
    BY <1>2, <1>3, <1>4 DEF Next, vars, HandleFresh, HandleKnown, AgentStep, AgentStartsTurn, TurnEnds,
                            ForeignTurnEnds, ChildExits, Crash, Restart

\* A queue is unblocked only by a process that starts.
LEMMA BlockStep ==
    ASSUME AInv, [Next]_vars, NEW u \in Thread, queue[u].blocked, ~queue'[u].blocked
    PROVE  ProcessDown \/ ~running
<1>0. TypeOK /\ queue[u] \in Queue
    BY DEF AInv, IInv, TypeOK
<1>1. CASE Moves(queue[u], queue'[u], journal')
    BY <1>1 DEF Moves
<1>2. ASSUME NEW c \in Command, queue'[u] = Pump(Enqueue(queue[u], c))  PROVE FALSE
    <2> DEFINE m == Enqueue(queue[u], c)
    <2>1. m \in Queue /\ m.blocked = queue[u].blocked
        BY <1>0, AppendProperties DEF Enqueue, Queue
    <2> HIDE DEF m
    <2> QED
        BY <1>2, <2>1, PumpFacts DEF m
<1>3. ASSUME queue'[u] = Pump([queue[u] EXCEPT !.active = NoClient])  PROVE FALSE
    <2> DEFINE m == [queue[u] EXCEPT !.active = NoClient]
    <2>1. m \in Queue /\ m.blocked = queue[u].blocked
        BY <1>0 DEF Queue
    <2> HIDE DEF m
    <2> QED
        BY <1>3, <2>1, PumpFacts DEF m
<1> QED
    BY <1>1, <1>2, <1>3, QueueStep DEF QueueSteps, Restart

\* A client settles the promise of its own job.
LEMMA ClientHandlers ==
    ASSUME NEW t \in Thread, ClientStep(t)
    PROVE  /\ UNCHANGED <<running, restarts>>
           /\ \/ UNCHANGED handler
              \/ /\ Dispatches(queue[t])
                 /\ handler' = [handler EXCEPT ![queue[t].active.job] = "resolved"]
              \/ ClientFails(t)
           /\ queue[t].active # NoClient
<1>1. CASE ClientReady(t)
    BY <1>1 DEF ClientReady, Conclude, InPhase, Dispatches, Dispatching
<1> QED
    BY <1>1 DEF Dispatches, Dispatching, ClientStep, ClientFails, AttachmentsRejected, ResumeFails,
                BeginDispatch, TurnStartSucceeds, TurnStartUnknown, ReleaseTimer, UnknownTimer,
                ClientClosed, Conclude, InPhase

\* A promise is lost only with its process, and one that rejects blocks its
\* queue.
LEMMA HandlerStep ==
    ASSUME AInv, [Next]_vars, NEW c \in Command,
           handler[c] # "idle" => running,
           handler[c] = "rejected" => queue[thread[c]].blocked
    PROVE  /\ handler'[c] # "idle" =>
                  running' /\ (handler[c] # "idle" \/ HandleFresh(c) \/ HandleKnown(c))
           /\ handler[c] # "idle" /\ handler'[c] = "idle" => ProcessDown
           /\ handler'[c] = "rejected" => queue'[thread[c]].blocked
<1>0. /\ TypeOK /\ thread[c] \in Thread
      /\ \A t \in Thread : queue[t].active # NoClient =>
             queue[t].active.job \in Command /\ thread[queue[t].active.job] = t
    BY ActiveType, ThreadAssumption DEF AInv, IInv, ClientsAgree
<1>1. ASSUME UNCHANGED <<running, restarts>>,
             handler'[c] = handler[c] \/ handler'[c] \in {"waiting", "resolved"},
             handler'[c] # "idle" => running /\ (handler[c] # "idle" \/ HandleFresh(c) \/ HandleKnown(c)),
             handler[c] # "idle" => handler'[c] # "idle"
      PROVE  /\ handler'[c] # "idle" =>
                    running' /\ (handler[c] # "idle" \/ HandleFresh(c) \/ HandleKnown(c))
             /\ handler[c] # "idle" /\ handler'[c] = "idle" => ProcessDown
             /\ handler'[c] = "rejected" => queue'[thread[c]].blocked
    BY <1>0, <1>1, BlockStep DEF ProcessDown
<1>2. ASSUME NEW e \in Command, HandleFresh(e) \/ HandleKnown(e)
      PROVE  /\ UNCHANGED <<running, restarts>> /\ running
             /\ handler'[e] \in {"waiting", "resolved"}
             /\ \A d \in Command \ {e} : handler'[d] = handler[d]
    BY <1>0, <1>2 DEF HandleFresh, HandleKnown, TypeOK
<1>3. ASSUME NEW e \in Command, HandleFresh(e) \/ HandleKnown(e)
      PROVE  /\ handler'[c] # "idle" =>
                    running' /\ (handler[c] # "idle" \/ HandleFresh(c) \/ HandleKnown(c))
             /\ handler[c] # "idle" /\ handler'[c] = "idle" => ProcessDown
             /\ handler'[c] = "rejected" => queue'[thread[c]].blocked
    <2>1. CASE e = c
        BY <1>1, <1>2, <1>3, <2>1
    <2>2. CASE e # c
        BY <1>1, <1>2, <1>3, <2>2
    <2> QED
        BY <2>1, <2>2
<1>4. ASSUME NEW t \in Thread, ClientStep(t)
      PROVE  /\ UNCHANGED <<running, restarts>>
             /\ \/ UNCHANGED handler
                \/ /\ Dispatches(queue[t])
                   /\ handler' = [handler EXCEPT ![queue[t].active.job] = "resolved"]
                \/ ClientFails(t)
             /\ queue[t].active # NoClient
    BY <1>4, ClientHandlers
<1>5. ASSUME NEW t \in Thread, ClientStep(t)
      PROVE  /\ handler'[c] # "idle" =>
                    running' /\ (handler[c] # "idle" \/ HandleFresh(c) \/ HandleKnown(c))
             /\ handler[c] # "idle" /\ handler'[c] = "idle" => ProcessDown
             /\ handler'[c] = "rejected" => queue'[thread[c]].blocked
    <2>1. Dispatches(queue[t]) => handler[queue[t].active.job] = "waiting"
        BY DEF AInv, QueuesAnswer, Answers
    <2>2. CASE UNCHANGED handler
        BY <1>1, <1>4, <1>5, <2>2
    <2>3. CASE Dispatches(queue[t]) /\ handler' = [handler EXCEPT ![queue[t].active.job] = "resolved"]
        <3>1. CASE queue[t].active.job = c
            BY <1>0, <1>1, <1>4, <1>5, <2>1, <2>3, <3>1 DEF TypeOK
        <3>2. CASE queue[t].active.job # c
            BY <1>0, <1>1, <1>4, <1>5, <2>3, <3>2 DEF TypeOK
        <3> QED
            BY <3>1, <3>2
    <2>4. CASE ClientFails(t)
        <3>1. queue'[t].blocked /\ handler' = [handler EXCEPT ![queue[t].active.job] = "rejected"]
            <4> DEFINE a == [queue[t].active EXCEPT !.phase = "closing"]
            <4>1. Become(t, a, TRUE)
                BY <2>4 DEF ClientFails, Proceed
            <4>2. handler' = [handler EXCEPT ![queue[t].active.job] = "rejected"]
                BY <2>4 DEF ClientFails
            <4> HIDE DEF a
            <4>3. queue'[t].blocked = TRUE
                <5>1. queue \in [Thread -> Queue] /\ queue[t] \in Queue
                    BY <1>0 DEF TypeOK
                <5> QED
                    BY <4>1, <5>1 DEF Become, Queue
            <4> QED
                BY <4>2, <4>3
        <3>2. CASE queue[t].active.job = c
            <4>1. thread[c] = t /\ handler[c] = "waiting"
                BY <1>0, <1>4, <1>5, <2>1, <2>4, <3>2 DEF ClientFails, InPhase, Dispatches, Dispatching
            <4> QED
                BY <1>0, <1>4, <1>5, <3>1, <3>2, <4>1 DEF TypeOK
        <3>3. CASE queue[t].active.job # c
            BY <1>0, <1>1, <1>4, <1>5, <3>1, <3>3 DEF TypeOK
        <3> QED
            BY <3>2, <3>3
    <2> QED
        BY <1>4, <1>5, <2>2, <2>3, <2>4
<1>6. ASSUME ProcessDown  PROVE handler'[c] = "idle"
    BY <1>6 DEF ProcessDown
<1>7. CASE Restart \/ UNCHANGED vars \/ \E t \in Thread : AgentStep(t)
    <2>1. CASE Restart
        BY <2>1 DEF Restart
    <2>2. ASSUME \E t \in Thread : AgentStep(t)  PROVE UNCHANGED <<running, restarts, handler>>
        BY <2>2 DEF AgentStep, AgentStartsTurn, TurnEnds, ForeignTurnEnds, ChildExits
    <2>3. CASE UNCHANGED <<running, restarts, handler>>
        BY <1>1, <2>3
    <2> QED
        BY <1>7, <2>1, <2>2, <2>3 DEF vars
<1> QED
    BY <1>3, <1>5, <1>6, <1>7 DEF Next, CrashBeforeWrite, Crash, Stop

\* The delivery is what hands a command to the runtime, and only the end of the
\* process takes it away.
LEMMA TakenByDelivery ==
    ASSUME AInv, TakenAreKnown, DeliveryNext, NEW c \in Command
    PROVE  /\ handler[c] = "idle" /\ handler'[c] # "idle" => Deliver(c)
           /\ handler[c] # "waiting" /\ handler'[c] = "waiting" => Deliver(c)
           /\ handler[c] # "idle" /\ handler'[c] = "idle" => \E lost \in SUBSET acks : GoesDown(lost)
<1>0. TypeOK
    BY DEF AInv, IInv
<1>1. CASE UNCHANGED handler
    BY <1>1
<1>2. ASSUME NEW e \in Command, Deliver(e)
      PROVE  handler'[e] \in {"waiting", "resolved"} /\ \A d \in Command \ {e} : handler'[d] = handler[d]
    BY <1>0, <1>2 DEF Deliver, HandleFresh, HandleKnown, TypeOK
<1>3. CASE \E e \in Command : Deliver(e)
    BY <1>2, <1>3
<1>4. ASSUME NEW lost \in SUBSET acks, GoesDown(lost)  PROVE handler'[c] = "idle"
    <2>1. ProcessDown
        BY <1>4 DEF GoesDown, Crash, CrashBeforeWrite, Stop
    <2> QED
        BY <2>1 DEF ProcessDown
<1>5. ASSUME NEW t \in Thread, ClientStep(t)
      PROVE  \/ handler'[c] = handler[c]
             \/ handler[c] = "waiting" /\ handler'[c] \in {"resolved", "rejected"}
    <2>1. Dispatches(queue[t]) => /\ handler[queue[t].active.job] = "waiting"
                                  /\ queue[t].active.job \in Command
        BY ActiveType, <1>0 DEF AInv, QueuesAnswer, Answers, Dispatches
    <2>2. CASE Dispatches(queue[t]) /\ handler' = [handler EXCEPT ![queue[t].active.job] = "resolved"]
        BY <1>0, <2>1, <2>2 DEF TypeOK
    <2>3. CASE ClientFails(t)
        BY <1>0, <2>1, <2>3 DEF ClientFails, InPhase, Dispatches, Dispatching, TypeOK
    <2> QED
        BY <1>5, <2>2, <2>3, ClientHandlers
<1>6. CASE RuntimeStep
    BY <1>1, <1>5, <1>6 DEF RuntimeStep, ClientStep, Restart, AgentStep, AgentStartsTurn, TurnEnds,
                            ForeignTurnEnds, ChildExits
<1>7. CASE \/ \E e \in Command : \/ SendCommand(e) \/ RetryPost(e) \/ PushCommand(e) \/ AckArrives(e)
                                 \/ ReportArrives(e) \/ DeliverKnown(e) \/ HandlerResolves(e)
                                 \/ HandlerRejects(e)
           \/ ReadReplay \/ Activate \/ Connect
           \/ \E lost \in SUBSET acks : Disconnect(lost) \/ ServerRestart(lost)
    <2>1. UNCHANGED vars
        BY <1>7 DEF SendCommand, RetryPost, PushCommand, AckArrives, ReportArrives, DeliverKnown,
                    HandlerResolves, HandlerRejects, ReadReplay, Activate, Connect, Disconnect, ServerRestart
    <2> QED
        BY <1>1, <2>1 DEF vars
<1> QED
    BY <1>3, <1>4, <1>6, <1>7 DEF DeliveryNext, ServerStep, ConnectorStep

\* What an action other than SendCommand and PushCommand leaves alone.
LEMMA RowsKept ==
    ASSUME DeliveryNext
    PROVE  /\ UNCHANGED <<sequence, earlier>> \/ \E c \in Command : SendCommand(c)
           /\ UNCHANGED answered \/ \E c \in Command : PushCommand(c)
BY DEF DeliveryNext, ServerStep, ConnectorStep, RetryPost, PushCommand, AckArrives, ReportArrives,
       ReadReplay, Activate, Connect, Deliver, DeliverKnown, Receives, HandlerResolves, HandlerRejects,
       Disconnect, ServerRestart, GoesDown, RuntimeStep, SendCommand, serverVars

\* A new row has the largest number, and the other rows keep theirs.
LEMMA RowSteps ==
    ASSUME DeliveryInv, DeliveryNext
    PROVE  /\ Numbered \subseteq Numbered'
           /\ \A d \in Numbered : sequence'[d] = sequence[d]
           /\ \A c \in Command : SendCommand(c) =>
                  /\ c \notin Numbered /\ c \in Numbered'
                  /\ \A d \in Numbered : sequence[d] < sequence'[c]
<1>0. /\ IsFiniteSet(Numbered) /\ Cardinality(Numbered) \in Nat
      /\ sequence \in [Command -> Nat] /\ Numbers
    BY FS_CardinalityType DEF DeliveryInv, LinkInv, Numbers, DeliveryTypeOK
<1>1. ASSUME NEW c \in Command, SendCommand(c)
      PROVE  /\ Numbered \subseteq Numbered' /\ c \notin Numbered /\ c \in Numbered'
             /\ \A d \in Numbered : sequence'[d] = sequence[d] /\ sequence[d] < sequence'[c]
    <2> DEFINE n == Cardinality(Numbered) + 1
    <2>1. c \notin Numbered
        BY <1>0, <1>1 DEF SendCommand, Numbers
    <2>2. sequence' = [sequence EXCEPT ![c] = n]
        BY <1>1 DEF SendCommand, Numbered
    <2>a. \A d \in Numbered : sequence[d] \in Nat /\ sequence[d] <= Cardinality(Numbered)
        BY <1>0 DEF Numbers, Numbered
    <2>3. n \in Nat /\ n > 0 /\ \A d \in Numbered : sequence[d] \in Nat /\ sequence[d] < n
        BY ONLY <1>0, <2>a
    <2> HIDE DEF n
    <2>4. sequence'[c] = n /\ \A d \in Command \ {c} : sequence'[d] = sequence[d]
        BY <1>0, <2>2
    <2> QED
        BY <2>1, <2>3, <2>4 DEF Numbered
<1>2. CASE UNCHANGED sequence
    BY <1>1, <1>2 DEF Numbered
<1> QED
    BY <1>1, <1>2, RowsKept

LEMMA TakenStep ==
    ASSUME DeliveryInv, TakenAreKnown, EarlierAreBefore, DeliveryNext
    PROVE  TakenAreKnown' /\ EarlierAreBefore'
<1> USE DEF TakenAreKnown
<1>0. /\ AInv /\ LinkInv /\ TypeOK /\ DeliveryTypeOK /\ Numbers /\ [Next]_vars
    BY DeliverySteps DEF DeliveryInv, LinkInv, AInv, IInv
<1>1. ASSUME NEW c \in Command  PROVE handler'[c] # "idle" => running' /\ c \in Numbered'
    <2>1. ASSUME Deliver(c)  PROVE c \in Numbered
        <3>1. down \in Seq(Command) /\ down # <<>> /\ c = down[1]
            BY <1>0, <2>1 DEF Deliver, Receives, DeliveryTypeOK
        <3>2. 1 \in 1..Len(down)
            BY <3>1
        <3> QED
            BY <1>0, <3>1, <3>2 DEF LinkInv, SentOncePerConnection, Numbers
    <2>2. (handler'[c] # "idle" => running')
        BY <1>0, HandlerStep
    <2> QED
        BY <1>0, <2>1, <2>2, TakenByDelivery, RowSteps
<1>2. ASSUME NEW c \in Command, journal'[c] # "absent"  PROVE c \in Numbered'
    <2>1. CASE journal'[c] = journal[c]
        BY <1>2, <2>1, RowSteps
    <2>2. CASE journal'[c] # journal[c]
        <3>1. Dispatched(c)
            BY <1>0, <2>2, JournalStep
        <3>2. handler[c] = "waiting"
            BY <1>0, <3>1, ThreadAssumption DEF Dispatched, AInv, QueuesAnswer, Answers
        <3> QED
            BY <3>2, RowSteps
    <2> QED
        BY <2>1, <2>2
<1>3. ASSUME NEW c \in Command, c \in Numbered'  PROVE outbox'[c] # "none"
    <2>1. ASSUME NEW e \in Command, SendCommand(e)  PROVE outbox'[c] # "none"
        <3>1. Numbered' \subseteq Numbered \cup {e}
            BY <1>0, <2>1 DEF SendCommand, Numbered, DeliveryTypeOK
        <3> QED
            BY <1>0, <1>3, <2>1, <3>1 DEF SendCommand, DeliveryTypeOK
    <2>2. ASSUME UNCHANGED outbox \/ \E e \in Command : outbox' = [outbox EXCEPT ![e] = "acked"],
                 UNCHANGED sequence
          PROVE  outbox'[c] # "none"
        BY <1>0, <1>3, <2>2 DEF DeliveryTypeOK, Numbered
    <2>3. UNCHANGED outbox \/ (\E e \in Command : outbox' = [outbox EXCEPT ![e] = "acked"])
             \/ \E e \in Command : SendCommand(e)
        BY DEF DeliveryNext, ServerStep, ConnectorStep, RetryPost, PushCommand, AckArrives, ReportArrives,
               ReadReplay, Activate, Connect, Deliver, DeliverKnown, Receives, HandlerResolves,
               HandlerRejects, Disconnect, ServerRestart, GoesDown, RuntimeStep, serverVars
    <2> QED
        BY <2>1, <2>2, <2>3, RowsKept
<1>4. ASSUME NEW c \in Command, processing'[c] # "no"  PROVE handler'[c] # "idle"
    <2>1. ASSUME Deliver(c)  PROVE handler'[c] # "idle"
        BY <1>0, <2>1 DEF Deliver, HandleFresh, HandleKnown, TypeOK
    <2>2. ASSUME NEW lost \in SUBSET acks, GoesDown(lost)  PROVE FALSE
        BY <1>4, <2>2 DEF GoesDown
    <2>3. ASSUME ~Deliver(c)  PROVE processing[c] # "no"
        <3>1. ASSUME NEW e \in Command, e # c, Deliver(e)  PROVE processing'[c] = processing[c]
            BY <1>0, <3>1 DEF Deliver, DeliveryTypeOK
        <3>2. ASSUME NEW lost \in SUBSET acks, Disconnect(lost) \/ ServerRestart(lost)
              PROVE  processing[c] # "no"
            BY <1>4, <3>2 DEF Disconnect, ServerRestart, LinkBreaks
        <3>3. ASSUME NEW e \in Command, HandlerResolves(e)  PROVE processing[c] # "no"
            BY <1>0, <1>4, <3>3 DEF HandlerResolves, DeliveryTypeOK
        <3>4. ASSUME NEW e \in Command, HandlerRejects(e)  PROVE processing[c] # "no"
            BY <1>4, <3>4 DEF HandlerRejects
        <3>5. ASSUME UNCHANGED processing  PROVE processing[c] # "no"
            BY <1>4, <3>5
        <3>6. \/ UNCHANGED processing
              \/ \E e \in Command : Deliver(e) \/ HandlerResolves(e) \/ HandlerRejects(e)
              \/ \E lost \in SUBSET acks : Disconnect(lost) \/ ServerRestart(lost) \/ GoesDown(lost)
            BY DEF DeliveryNext, ServerStep, ConnectorStep, RetryPost, SendCommand, PushCommand, AckArrives,
                   ReportArrives, ReadReplay, Activate, Connect, DeliverKnown, RuntimeStep, inboxVars
        <3>7. ASSUME NEW e \in Command, Deliver(e)  PROVE processing[c] # "no"
            BY <1>4, <2>3, <3>1, <3>7
        <3> QED
            BY <2>2, <3>2, <3>3, <3>4, <3>5, <3>6, <3>7
    <2> QED
        BY <1>0, <2>1, <2>2, <2>3, TakenByDelivery
<1>5. ASSUME NEW c \in Command, handler'[c] = "rejected"  PROVE queue'[thread[c]].blocked
    BY <1>0, <1>5, HandlerStep
<1>6. TakenAreKnown'
    BY <1>1, <1>2, <1>3, <1>4, <1>5
<1>7. EarlierAreBefore'
    <2> SUFFICES ASSUME NEW c \in Command, NEW d \in earlier'[c]
                 PROVE  /\ d \in answered' /\ thread[d] = thread[c] /\ c \in Numbered'
                        /\ sequence'[d] < sequence'[c]
        BY DEF EarlierAreBefore
    <2>1. answered \subseteq Numbered /\ answered \subseteq answered'
        BY <1>0, RowsKept DEF Numbers, PushCommand
    <2>2. CASE SendCommand(c)
        <3>1. d \in answered /\ thread[d] = thread[c]
            BY <1>0, <2>2 DEF SendCommand, DeliveryTypeOK
        <3> QED
            BY <2>1, <2>2, <3>1, RowSteps
    <2>3. CASE ~SendCommand(c)
        <3>1. earlier'[c] = earlier[c]
            <4>1. ASSUME NEW e \in Command, SendCommand(e)  PROVE earlier'[c] = earlier[c]
                BY <1>0, <2>3, <4>1 DEF SendCommand, DeliveryTypeOK
            <4> QED
                BY <4>1, RowsKept
        <3>2. d \in answered /\ thread[d] = thread[c] /\ c \in Numbered /\ sequence[d] < sequence[c]
            BY <3>1 DEF EarlierAreBefore
        <3> QED
            BY <2>1, <3>2, RowSteps
    <2> QED
        BY <2>2, <2>3
<1> QED
    BY <1>6, <1>7

LEMMA DueStays ==
    ASSUME DeliveryInv, TakenAreKnown, DeliveryNext, NEW c \in Command, Open(c)', handler'[c] = "idle"
    PROVE  (Open(c) /\ handler[c] = "idle") \/ \E lost \in SUBSET acks : GoesDown(lost)
<1>1. AInv /\ TypeOK /\ [Next]_vars
    BY DeliverySteps DEF DeliveryInv, AInv, IInv
<1>2. Open(c)
    BY <1>1, QueueAdvances DEF Advances, Open
<1> QED
    BY <1>1, <1>2, TakenByDelivery

\* The connector keeps what it acknowledged, unless its process ends.
LEMMA KeepsStep ==
    ASSUME DeliveryInv, DeliveryNext, Keeps'
    PROVE  /\ Keeps
           /\ awaits \/ \A lost \in SUBSET acks : ~GoesDown(lost)
<1>0. restarts \in Nat /\ [Next]_vars /\ AInv
    BY DeliverySteps, RestartsAssumption DEF DeliveryInv, AInv, IInv, TypeOK
<1>1. UNCHANGED awaits
    BY DEF DeliveryNext
<1>2. ASSUME ProcessDown  PROVE awaits
    BY <1>0, <1>1, <1>2 DEF ProcessDown, Keeps
<1>3. ASSUME NEW lost \in SUBSET acks, GoesDown(lost)  PROVE awaits
    BY <1>2, <1>3 DEF GoesDown, Crash, CrashBeforeWrite, Stop
<1>4. ASSUME ~awaits  PROVE restarts = 0
    <2>1. restarts' = 0
        BY <1>1, <1>4 DEF Keeps
    <2>2. restarts' = restarts \/ restarts' = restarts + 1
        BY <1>0 DEF Next, HandleFresh, HandleKnown, ClientStep, ClientFails, ClientReady,
           AttachmentsRejected, ResumeFails, BeginDispatch, TurnStartSucceeds, TurnStartUnknown,
           ReleaseTimer, UnknownTimer, ClientClosed, AgentStep, AgentStartsTurn, TurnEnds,
           ForeignTurnEnds, ChildExits, CrashBeforeWrite, Crash, Stop, ProcessDown, Restart, vars
    <2> QED
        BY <1>0, <2>1, <2>2
<1> QED
    BY <1>3, <1>4 DEF Keeps

LEMMA DoneStep ==
    ASSUME DeliveryInv, DeliveryInv', TakenAreKnown, DoneIsTaken, DeliveryNext, Keeps'
    PROVE  DoneIsTaken'
<1>0. /\ AInv /\ TypeOK /\ [Next]_vars /\ Advances /\ DeliveryTypeOK /\ UNCHANGED awaits
    BY DeliverySteps, QueueAdvances DEF DeliveryInv, AInv, IInv, LinkInv, DeliveryNext
<1>1. CASE awaits
    BY <1>0, <1>1 DEF DeliveryInv, LinkInv, DoneIsReached, DoneIsTaken, Open
<1> SUFFICES ASSUME ~awaits, NEW c \in Command, handler'[c] = "idle", Open(c)',
                    c \in acks' \/ inbox'[c] = "processed" \/ outbox'[c] = "acked"
             PROVE  FALSE
    BY <1>1 DEF DoneIsTaken
<1>2. Open(c) /\ handler[c] = "idle" /\ ~Deliver(c) /\ \A lost \in SUBSET acks : ~GoesDown(lost)
    <2>1. ASSUME Deliver(c)  PROVE FALSE
        BY <1>0, <2>1 DEF Deliver, HandleFresh, HandleKnown, TypeOK
    <2> QED
        BY <2>1, DueStays, KeepsStep
<1>3. c \notin acks /\ inbox[c] # "processed" /\ outbox[c] # "acked" /\ processing[c] = "no"
    BY <1>2 DEF DoneIsTaken, TakenAreKnown
<1>4. ASSUME NEW e \in Command, Deliver(e)  PROVE FALSE
    <2>1. e # c
        BY <1>2, <1>4
    <2> QED
        BY <1>0, <1>3, <1>4, <2>1 DEF Deliver, Receives, Ack, DeliveryTypeOK, serverVars
<1>5. ASSUME NEW e \in Command, DeliverKnown(e)  PROVE FALSE
    BY <1>0, <1>3, <1>5 DEF DeliverKnown, Receives, Ack, inboxVars, serverVars
<1>6. ASSUME NEW e \in Command, HandlerResolves(e)  PROVE FALSE
    BY <1>0, <1>3, <1>6 DEF HandlerResolves, DeliveryTypeOK, serverVars
<1>7. ASSUME NEW e \in Command, AckArrives(e)  PROVE FALSE
    BY <1>0, <1>3, <1>7 DEF AckArrives, DeliveryTypeOK, inboxVars
<1>8. ASSUME NEW e \in Command, ReportArrives(e)  PROVE FALSE
    <2>1. e = c
        BY <1>0, <1>3, <1>8 DEF ReportArrives, DeliveryTypeOK, inboxVars, connVars
    <2>2. status'[c] \in Reached
        BY <1>0, <1>8, <2>1 DEF ReportArrives, DeliveryTypeOK, TypeOK
    <2>3. journal'[c] \in Reached
        BY <2>2 DEF DeliveryInv, LinkInv, StatusIsReported, AInv, ReportsFollow
    <2> QED
        BY <2>3 DEF Open
<1>9. ASSUME NEW e \in Command, SendCommand(e)  PROVE FALSE
    BY <1>0, <1>3, <1>9 DEF SendCommand, DeliveryTypeOK, connVars, inboxVars
<1>10. ASSUME acks' \subseteq acks, UNCHANGED <<inbox, outbox>>  PROVE FALSE
    BY <1>3, <1>10
<1> QED
    BY <1>2, <1>4, <1>5, <1>6, <1>7, <1>8, <1>9, <1>10
    DEF DeliveryNext, ServerStep, ConnectorStep, RetryPost, PushCommand, ReadReplay, Activate, Connect,
        HandlerRejects, Disconnect, ServerRestart, LinkBreaks, RuntimeStep, serverVars, connVars, inboxVars

LEMMA QuietLink ==
    ASSUME DueIsCarried, LinkOrder, UNCHANGED <<replay, held, sent, down, answered>>,
           conn' = conn \/ conn' \in {"down", "pending"},
           \A c \in Command : \/ earlier'[c] = earlier[c]
                              \/ c \notin replay /\ \A i \in 1..Len(down) : down[i] # c,
           \A d \in Command : Open(d)' /\ handler'[d] = "idle" => Open(d) /\ handler[d] = "idle",
           \A c \in Command : earlier'[c] \subseteq Command
    PROVE  DueIsCarried' /\ LinkOrder'
<1>1. \A d \in Command : Due(d)' => Due(d)
    BY DEF Due
<1>2. DueIsCarried'
    BY <1>1 DEF DueIsCarried
<1>3. ASSUME NEW c \in Command, NEW d \in earlier'[c], Due(d)'
      PROVE  /\ c \in replay' => d \in replay'
             /\ \A i \in 1..Len(down') : down'[i] = c => \E j \in 1..(i - 1) : down'[j] = d
    BY <1>1, <1>3 DEF LinkOrder
<1> QED
    BY <1>2, <1>3 DEF LinkOrder

LEMMA EmptyLink ==
    ASSUME conn' = "down", replay' = {}, sent' = {}, down' = <<>>
    PROVE  DueIsCarried' /\ LinkOrder'
BY DEF DueIsCarried, LinkOrder

\* A push puts the command behind everything that is on the link.
LEMMA PushLink ==
    ASSUME DeliveryInv, EarlierAreBefore, DueIsCarried, LinkOrder, NEW c \in Command, PushCommand(c)
    PROVE  DueIsCarried' /\ LinkOrder'
<1> USE DEF PushCommand
<1>0. down \in Seq(Command) /\ Len(down) \in Nat /\ earlier \in [Command -> SUBSET Command] /\ Numbers
      /\ sequence \in [Command -> Nat]
    BY DEF DeliveryInv, LinkInv, DeliveryTypeOK
<1>1. UNCHANGED <<journal, handler, conn, replay, earlier>>
    BY DEF vars
<1>2. /\ answered' = answered \cup {c} /\ held \subseteq held' /\ sent \subseteq sent'
      /\ conn \in {"pending", "replaying"} => c \in held'
      /\ conn = "active" => c \in sent'
      /\ \A d \in sent' : d \in sent \/ (conn = "active" /\ d = c /\ down' = Append(down, c))
      /\ UNCHANGED down \/ (conn = "active" /\ c \notin sent /\ down' = Append(down, c))
    OBVIOUS
<1> HIDE DEF PushCommand
<1>3. /\ \A i \in 1..Len(down) : i \in 1..Len(down') /\ down'[i] = down[i]
      /\ \A i \in 1..Len(down') : i \in 1..Len(down) \/ (i = Len(down) + 1 /\ down'[i] = c)
      /\ down' = Append(down, c) => Len(down') = Len(down) + 1 /\ down'[Len(down) + 1] = c
    BY <1>0, <1>2, AppendProperties
<1>4. ASSUME NEW d \in Command, Open(d), handler[d] = "idle", d \in sent'
      PROVE  \E i \in 1..Len(down') : down'[i] = d
    <2>1. CASE d \in sent
        BY <1>3, <1>4, <2>1 DEF DueIsCarried
    <2>2. CASE d = c /\ down' = Append(down, c)
        <3>1. Len(down) + 1 \in 1..Len(down')
            BY <1>0, <1>3, <2>2
        <3> QED
            BY <1>3, <2>2, <3>1
    <2> QED
        BY <1>2, <1>4, <2>1, <2>2
<1>5. ASSUME NEW d \in Command, Due(d)'
      PROVE  /\ conn' = "replaying" => d \in replay' \cup held'
             /\ conn' = "active" => d \in sent'
    BY <1>1, <1>2, <1>5 DEF Due, DueIsCarried, Open
<1>6. DueIsCarried'
    BY <1>1, <1>4, <1>5 DEF DueIsCarried, Open
<1>7. ASSUME NEW x \in Command, NEW d \in earlier[x], Due(d)'
      PROVE  /\ x \in replay' => d \in replay'
             /\ \A i \in 1..Len(down') : down'[i] = x => \E j \in 1..(i - 1) : down'[j] = d
    <2>1. d \in Command /\ d \in answered /\ sequence[d] < sequence[x]
        BY <1>0 DEF EarlierAreBefore
    <2>2. Due(d)
        BY <1>1, <1>7, <2>1 DEF Due, Open
    <2>3. /\ x \in replay => d \in replay
          /\ \A i \in 1..Len(down) : down[i] = x => \E j \in 1..(i - 1) : down[j] = d
        BY <2>2 DEF LinkOrder
    <2>4. ASSUME NEW i \in 1..Len(down'), down'[i] = x
          PROVE  \E j \in 1..(i - 1) : down'[j] = d
        <3>1. CASE i \in 1..Len(down)
            <4>1. PICK j \in 1..(i - 1) : down[j] = d
                BY <1>3, <2>3, <2>4, <3>1
            <4>2. j \in 1..Len(down)
                BY <1>0, <3>1
            <4> QED
                BY <1>3, <4>1, <4>2
        <3>2. CASE i = Len(down) + 1 /\ x = c
            <4>1. conn = "active"
                BY <1>0, <1>2, <3>2
            <4>2. PICK j \in 1..Len(down) : down[j] = d
                BY <2>1, <2>2, <4>1 DEF Due, DueIsCarried
            <4>3. j \in 1..(i - 1)
                BY <1>0, <3>2
            <4> QED
                BY <1>3, <4>2, <4>3
        <3> QED
            BY <1>3, <2>4, <3>1, <3>2
    <2> QED
        BY <1>1, <2>3, <2>4
<1>8. LinkOrder'
    BY <1>1, <1>7 DEF LinkOrder
<1> QED
    BY <1>6, <1>8

\* The replay, and behind it what was held, is sent in the order of the rows.
LEMMA ActivateLink ==
    ASSUME DeliveryInv, EarlierAreBefore, DueIsCarried, LinkOrder, Activate
    PROVE  DueIsCarried' /\ LinkOrder'
<1> DEFINE H == held \ replay
           r == BySequence(replay)
           h == BySequence(H)
<1>0. /\ Numbers /\ sequence \in [Command -> Nat] /\ earlier \in [Command -> SUBSET Command]
      /\ replay \in SUBSET Numbered /\ H \in SUBSET Numbered
      /\ replay \in SUBSET Command /\ H \in SUBSET Command
    BY DEF DeliveryInv, LinkInv, DeliveryTypeOK, Numbers
<1>1. /\ UNCHANGED <<journal, handler, earlier, answered>> /\ conn = "replaying" /\ conn' = "active"
      /\ down' = r \o h /\ sent' = replay \cup H /\ replay' = {}
    BY DEF Activate, vars, serverVars
<1> HIDE DEF H
<1>2. /\ Cardinality(replay) \in Nat /\ Len(r) = Cardinality(replay) /\ r \in Seq(replay)
      /\ \A i, j \in 1..Len(r) : r[i] = r[j] => i = j
      /\ \A c \in replay : \E i \in 1..Len(r) : r[i] = c
      /\ \A i, j \in 1..Len(r) : i < j => sequence[r[i]] < sequence[r[j]]
    BY <1>0, Sorted
<1>3. /\ Cardinality(H) \in Nat /\ Len(h) = Cardinality(H) /\ h \in Seq(H)
      /\ \A i, j \in 1..Len(h) : h[i] = h[j] => i = j
      /\ \A c \in H : \E i \in 1..Len(h) : h[i] = c
      /\ \A i, j \in 1..Len(h) : i < j => sequence[h[i]] < sequence[h[j]]
    BY <1>0, Sorted
<1> DEFINE s == r \o h
<1> HIDE DEF r, h
<1>4. /\ r \in Seq(Command) /\ h \in Seq(Command) /\ Len(r) \in Nat /\ Len(h) \in Nat
      /\ \A i \in 1..Len(r) : r[i] \in replay
      /\ \A i \in 1..Len(h) : h[i] \in H
    BY <1>0, <1>2, <1>3
<1>5. /\ Len(s) = Len(r) + Len(h)
      /\ \A i \in 1..Len(s) : s[i] = IF i <= Len(r) THEN r[i] ELSE h[i - Len(r)]
    BY <1>4, ConcatProperties
<1> HIDE DEF s
<1>6. \A i \in 1..Len(r) : i \in 1..Len(s) /\ s[i] = r[i]
    BY <1>4, <1>5
<1>7. \A i \in 1..Len(h) : Len(r) + i \in 1..Len(s) /\ s[Len(r) + i] = h[i]
    <2> TAKE i \in 1..Len(h)
    <2>1. Len(r) + i \in 1..Len(s) /\ ~(Len(r) + i <= Len(r)) /\ (Len(r) + i) - Len(r) = i
        BY <1>4, <1>5
    <2> QED
        BY <1>5, <2>1
<1>8. \A i \in 1..Len(s) : i \in 1..Len(r) \/ \E k \in 1..Len(h) : i = Len(r) + k
    <2> TAKE i \in 1..Len(s)
    <2>1. CASE ~(i <= Len(r))
        <3>1. i - Len(r) \in 1..Len(h) /\ i = Len(r) + (i - Len(r))
            BY <1>4, <1>5, <2>1
        <3> QED
            BY <3>1
    <2>2. CASE i <= Len(r)
        BY <1>4, <1>5, <2>2
    <2> QED
        BY <2>1, <2>2
<1>9. \A c \in replay \cup H : \E i \in 1..Len(s) : s[i] = c
    <2> TAKE c \in replay \cup H
    <2>1. CASE c \in replay
        BY <1>2, <1>6, <2>1
    <2>2. CASE c \in H
        <3>1. PICK k \in 1..Len(h) : h[k] = c
            BY <1>3, <2>2
        <3> QED
            BY <1>7, <3>1
    <2> QED
        BY <2>1, <2>2
<1>10. DueIsCarried'
    <2>1. \A d \in Command : Due(d)' => d \in replay \cup H
        BY <1>1 DEF Due, DueIsCarried, Open, H
    <2>2. down' = s
        BY <1>1 DEF s
    <2> QED
        BY <1>1, <1>9, <2>1, <2>2 DEF DueIsCarried
<1>11. ASSUME NEW c \in Command, NEW d \in earlier[c], Due(d), NEW i \in 1..Len(s), s[i] = c
       PROVE  \E j \in 1..(i - 1) : s[j] = d
    <2>1. /\ d \in Command /\ sequence[d] < sequence[c] /\ sequence[d] \in Nat /\ sequence[c] \in Nat
          /\ d \in replay \cup H /\ (c \in replay => d \in replay)
        BY <1>0, <1>1, <1>11 DEF EarlierAreBefore, DueIsCarried, LinkOrder, H
    <2>2. CASE i \in 1..Len(r)
        <3>1. r[i] = c /\ c \in replay
            BY <1>4, <1>6, <1>11, <2>2
        <3>2. PICK j \in 1..Len(r) : r[j] = d
            BY <1>2, <2>1, <3>1
        <3>3. ~(i < j) /\ i # j
            BY <1>2, <2>1, <2>2, <3>1, <3>2
        <3>4. j \in 1..(i - 1)
            BY <1>4, <2>2, <3>3
        <3> QED
            BY <1>6, <3>2, <3>4
    <2>3. ASSUME NEW k \in 1..Len(h), i = Len(r) + k  PROVE \E j \in 1..(i - 1) : s[j] = d
        <3>1. h[k] = c
            BY <1>7, <1>11, <2>3
        <3>2. CASE d \in replay
            <4>1. PICK j \in 1..Len(r) : r[j] = d
                BY <1>2, <3>2
            <4>2. j \in 1..(i - 1)
                BY <1>4, <2>3
            <4> QED
                BY <1>6, <4>1, <4>2
        <3>3. CASE d \in H
            <4>1. PICK j \in 1..Len(h) : h[j] = d
                BY <1>3, <3>3
            <4>2. ~(k < j) /\ k # j
                BY <1>3, <2>1, <3>1, <4>1
            <4>3. Len(r) + j \in 1..(i - 1)
                BY <1>4, <2>3, <4>2
            <4> QED
                BY <1>7, <4>1, <4>3
        <3> QED
            BY <2>1, <3>2, <3>3
    <2> QED
        BY <1>8, <2>2, <2>3
<1>12. LinkOrder'
    <2>1. down' = s
        BY <1>1 DEF s
    <2>2. \A d \in Command : Due(d)' => Due(d)
        BY <1>1 DEF Due, Open
    <2> QED
        BY <1>0, <1>1, <1>11, <2>1, <2>2 DEF LinkOrder
<1> QED
    BY <1>10, <1>12

\* What the connector takes from the link is ahead of the rest no more.
LEMMA ReceiveLink ==
    ASSUME DeliveryInv, TakenAreKnown, EarlierAreBefore, DoneIsTaken, DueIsCarried, LinkOrder, DeliveryNext,
           NEW c \in Command, Deliver(c) \/ DeliverKnown(c)
    PROVE  DueIsCarried' /\ LinkOrder'
<1>0. /\ down \in Seq(Command) /\ AInv /\ TypeOK /\ earlier \in [Command -> SUBSET Command]
    BY DEF DeliveryInv, LinkInv, DeliveryTypeOK, AInv, IInv
<1>1. /\ down # <<>> /\ Head(down) = c /\ down' = Tail(down)
      /\ UNCHANGED <<serverVars, conn, replay, held, sent>>
    BY DEF Deliver, DeliverKnown, Receives
<1>2. /\ Len(down) \in Nat \ {0} /\ Len(down') = Len(down) - 1 /\ down[1] = c
      /\ \A i \in 1..Len(down') : i + 1 \in 1..Len(down) /\ down'[i] = down[i + 1]
    BY <1>0, <1>1
<1>3. ASSUME NEW d \in Command, Open(d)', handler'[d] = "idle"
      PROVE  Open(d) /\ handler[d] = "idle" /\ d # c
    <2>1. ASSUME NEW lost \in SUBSET acks, GoesDown(lost)  PROVE FALSE
        <3>1. running'
            BY DEF Deliver, DeliverKnown, Receives, HandleFresh, HandleKnown, vars
        <3> QED
            BY <2>1, <3>1 DEF GoesDown, Crash, CrashBeforeWrite, Stop, ProcessDown
    <2>2. Open(d) /\ handler[d] = "idle"
        BY <1>3, <2>1, DueStays
    <2>3. ASSUME Deliver(c)  PROVE handler'[c] # "idle"
        BY <1>0, <2>3 DEF Deliver, HandleFresh, HandleKnown, TypeOK
    <2>4. ASSUME DeliverKnown(c)  PROVE handler[c] # "idle" \/ ~Open(c)
        BY <2>4 DEF DeliverKnown, TakenAreKnown, DoneIsTaken
    <2> QED
        BY <1>3, <2>2, <2>3, <2>4
<1>4. ASSUME NEW d \in Command, NEW j \in 1..Len(down), down[j] = d, d # c
      PROVE  j - 1 \in 1..Len(down') /\ down'[j - 1] = d
    <2>1. j # 1
        BY <1>2, <1>4
    <2>2. j - 1 \in 1..Len(down') /\ (j - 1) + 1 = j
        BY <1>2, <2>1
    <2> QED
        BY <1>2, <1>4, <2>2
<1>5. \A d \in Command : Due(d)' => Due(d) /\ d # c
    BY <1>1, <1>3 DEF Due, serverVars
<1>6. DueIsCarried'
    <2>1. ASSUME NEW d \in Command, Open(d)', handler'[d] = "idle", d \in sent'
          PROVE  \E i \in 1..Len(down') : down'[i] = d
        <3>1. PICK j \in 1..Len(down) : down[j] = d
            BY <1>1, <1>3, <2>1 DEF DueIsCarried
        <3> QED
            BY <1>3, <1>4, <2>1, <3>1
    <2> QED
        BY <1>1, <1>5, <2>1 DEF DueIsCarried
<1>7. ASSUME NEW x \in Command, NEW d \in earlier[x], Due(d)'
      PROVE  /\ x \in replay' => d \in replay'
             /\ \A i \in 1..Len(down') : down'[i] = x => \E j \in 1..(i - 1) : down'[j] = d
    <2>1. d \in Command /\ Due(d) /\ d # c
        BY <1>0, <1>5, <1>7
    <2>2. ASSUME NEW i \in 1..Len(down'), down'[i] = x
          PROVE  \E j \in 1..(i - 1) : down'[j] = d
        <3>1. i + 1 \in 1..Len(down) /\ down[i + 1] = x /\ (i + 1) - 1 = i
            BY <1>2, <2>2
        <3>2. PICK j \in 1..i : down[j] = d
            BY <2>1, <3>1 DEF LinkOrder
        <3>3. j \in 1..Len(down)
            BY <1>2, <3>1
        <3>4. j - 1 \in 1..Len(down') /\ down'[j - 1] = d
            BY <1>4, <2>1, <3>2, <3>3
        <3>5. j - 1 \in 1..(i - 1)
            BY <3>2, <3>4, <1>2
        <3> QED
            BY <3>4, <3>5
    <2> QED
        BY <1>1, <2>1, <2>2 DEF LinkOrder
<1>8. LinkOrder'
    BY <1>1, <1>7 DEF LinkOrder, serverVars
<1> QED
    BY <1>6, <1>8

\* What is not decided and was not taken is read for the replay.
LEMMA ReplayLink ==
    ASSUME DeliveryInv, TakenAreKnown, EarlierAreBefore, DoneIsTaken, DueIsCarried, LinkOrder, ReadReplay
    PROVE  DueIsCarried' /\ LinkOrder'
<1>0. /\ Numbers /\ DeliveryTypeOK /\ TypeOK
    BY DEF DeliveryInv, LinkInv, AInv, IInv
<1>1. /\ UNCHANGED <<journal, handler, answered, earlier, held, sent, down>>
      /\ conn' = "replaying" /\ replay' = Pending
    BY DEF ReadReplay, vars, serverVars
<1>2. ASSUME NEW d \in Command, Due(d)  PROVE d \in Pending
    <2>1. d \in Numbered /\ Open(d) /\ handler[d] = "idle"
        BY <1>0, <1>2 DEF Due, Numbers
    <2>2. status[d] # "none" /\ status[d] \in Status
        BY <1>0, <2>1 DEF Numbers, DeliveryTypeOK
    <2>3. status[d] \notin Reached
        BY <2>1 DEF DeliveryInv, LinkInv, StatusIsReported, AInv, ReportsFollow, Open
    <2>4. outbox[d] \in {"none", "pending", "acked"} /\ outbox[d] # "none" /\ outbox[d] # "acked"
        BY <1>0, <2>1 DEF TakenAreKnown, DoneIsTaken, DeliveryTypeOK
    <2> QED
        BY <2>2, <2>3, <2>4 DEF Pending, Status
<1>3. \A d \in Command : Due(d)' <=> Due(d)
    BY <1>1 DEF Due, Open
<1>4. DueIsCarried'
    BY <1>1, <1>2, <1>3 DEF DueIsCarried, Open
<1>5. LinkOrder'
    BY <1>0, <1>1, <1>2, <1>3 DEF LinkOrder, DeliveryTypeOK
<1> QED
    BY <1>4, <1>5

LEMMA LinkStep ==
    ASSUME DeliveryInv, TakenAreKnown, EarlierAreBefore, DoneIsTaken, DueIsCarried, LinkOrder,
           DeliveryInv', EarlierAreBefore', DeliveryNext
    PROVE  DueIsCarried' /\ LinkOrder'
<1>0. /\ DeliveryTypeOK /\ DeliveryTypeOK' /\ Numbers /\ SentOncePerConnection
    BY DEF DeliveryInv, LinkInv
<1>1. ASSUME NEW lost \in SUBSET acks, Disconnect(lost) \/ ServerRestart(lost) \/ GoesDown(lost)
      PROVE  DueIsCarried' /\ LinkOrder'
    BY <1>1, EmptyLink DEF Disconnect, ServerRestart, GoesDown, LinkBreaks
<1>2. ASSUME NEW c \in Command, Deliver(c) \/ DeliverKnown(c)  PROVE DueIsCarried' /\ LinkOrder'
    BY <1>2, ReceiveLink
<1>3. ASSUME NEW c \in Command, PushCommand(c)  PROVE DueIsCarried' /\ LinkOrder'
    BY <1>3, PushLink
<1>4. ASSUME \A lost \in SUBSET acks : ~GoesDown(lost),
             UNCHANGED <<replay, held, sent, down, answered>>,
             conn' = conn \/ conn' \in {"down", "pending"},
             UNCHANGED earlier \/ \E c \in Command : SendCommand(c)
      PROVE  DueIsCarried' /\ LinkOrder'
    <2>1. \A d \in Command : Open(d)' /\ handler'[d] = "idle" => Open(d) /\ handler[d] = "idle"
        BY <1>4, DueStays
    <2>2. ASSUME NEW c \in Command, earlier'[c] # earlier[c]
          PROVE  c \notin replay /\ \A i \in 1..Len(down) : down[i] # c
        <3>1. SendCommand(c)
            <4>1. PICK e \in Command : SendCommand(e)
                BY <1>4, <2>2
            <4>2. \A x \in Command \ {e} : earlier'[x] = earlier[x]
                BY <1>0, <4>1 DEF SendCommand, DeliveryTypeOK
            <4> QED
                BY <2>2, <4>1, <4>2
        <3>2. c \notin Numbered
            BY <3>1, RowSteps
        <3> QED
            BY <1>0, <3>2 DEF Numbers, SentOncePerConnection
    <2>3. \A c \in Command : earlier'[c] \subseteq Command
        BY <1>0 DEF DeliveryTypeOK
    <2>4. \A c \in Command : \/ earlier'[c] = earlier[c]
                             \/ c \notin replay /\ \A i \in 1..Len(down) : down[i] # c
        BY <2>2
    <2> QED
        BY <1>4, <2>1, <2>3, <2>4, QuietLink
<1>5. ASSUME NEW c \in Command, HandlerRejects(c)  PROVE DueIsCarried' /\ LinkOrder'
    <2>1. CASE processing[c] = "this"
        BY <1>5, <2>1, EmptyLink DEF HandlerRejects
    <2>2. CASE processing[c] # "this"
        <3>1. UNCHANGED <<vars, conn, replay, held, sent, down, answered, earlier>>
            BY <1>5, <2>2 DEF HandlerRejects, serverVars
        <3>2. \A lost \in SUBSET acks : ~GoesDown(lost)
            <4>1. restarts \in Nat /\ restarts' = restarts
                BY <3>1, RestartsAssumption DEF vars, DeliveryInv, AInv, IInv, TypeOK
            <4>2. ASSUME ProcessDown  PROVE FALSE
                <5>1. restarts' = restarts + 1
                    BY <4>2 DEF ProcessDown
                <5> QED
                    BY ONLY <4>1, <5>1
            <4> QED
                BY <4>2 DEF GoesDown, Crash, CrashBeforeWrite, Stop
        <3> QED
            BY <1>4, <3>1, <3>2
    <2> QED
        BY <2>1, <2>2
<1>6. CASE ReadReplay
    BY <1>6, ReplayLink
<1>7. CASE Activate
    BY <1>7, ActivateLink
<1>8. ASSUME \/ \E c \in Command : SendCommand(c) \/ RetryPost(c) \/ AckArrives(c) \/ ReportArrives(c)
                                   \/ HandlerResolves(c)
             \/ Connect \/ RuntimeStep
      PROVE  /\ UNCHANGED <<replay, held, sent, down, answered>>
             /\ conn' = conn \/ conn' \in {"down", "pending"}
             /\ UNCHANGED earlier \/ \E c \in Command : SendCommand(c)
    BY <1>8 DEF SendCommand, RetryPost, AckArrives, ReportArrives, HandlerResolves, Connect, RuntimeStep,
                serverVars, connVars
<1> QED
    BY <1>1, <1>2, <1>3, <1>4, <1>5, <1>6, <1>7, <1>8 DEF DeliveryNext, ServerStep, ConnectorStep

\* A queue is entered behind what must come first, and left in order.
LEMMA QueueOrderStep ==
    ASSUME DeliveryInv, TakenAreKnown, EarlierAreBefore, LinkOrder, QueueOrder, DeliveryNext
    PROVE  QueueOrder'
<1>0. /\ AInv /\ TypeOK /\ [Next]_vars /\ DeliveryTypeOK /\ ResolvedIsReached
      /\ sequence \in [Command -> Nat]
    BY DeliverySteps DEF DeliveryInv, LinkInv, AInv, IInv, DeliveryTypeOK
<1> SUFFICES ASSUME NEW c \in Command, NEW d \in earlier'[c], Open(d)'
             PROVE  /\ journal'[c] \notin {"sent_unknown", "delivered"}
                    /\ Ahead(queue[thread[c]], c, d)'
    BY DEF QueueOrder
<1>1. CASE SendCommand(c)
    <2>1. /\ UNCHANGED vars /\ handler[c] = "idle" /\ journal[c] = "absent"
        BY <1>1, RowSteps DEF SendCommand, TakenAreKnown
    <2>2. Answers(thread[c], queue[thread[c]], handler, reports)
        BY <1>0, ThreadAssumption DEF AInv, QueuesAnswer
    <2>3. Ahead(queue[thread[c]], c, d)
        BY <2>1, <2>2 DEF Answers, Ahead
    <2>4. queue' = queue /\ journal'[c] = "absent"
        BY <2>1 DEF vars
    <2> QED
        BY <2>3, <2>4 DEF Ahead, Dispatches
<1>2. CASE ~SendCommand(c)
    <2>1. earlier'[c] = earlier[c]
        <3>1. ASSUME NEW e \in Command, SendCommand(e)  PROVE earlier'[c] = earlier[c]
            BY <1>0, <1>2, <3>1 DEF SendCommand, DeliveryTypeOK
        <3> QED
            BY <3>1, RowsKept
    <2>2. /\ d \in earlier[c] /\ d \in Command /\ d \in answered /\ thread[d] = thread[c]
          /\ c # d
        BY <1>0, <2>1 DEF EarlierAreBefore, DeliveryTypeOK
    <2>3. Open(d)
        BY <1>0, <2>2, QueueAdvances DEF Advances, Open
    <2>4. journal[c] \notin {"sent_unknown", "delivered"} /\ Ahead(queue[thread[c]], c, d)
        BY <2>2, <2>3 DEF QueueOrder
    <2>5. ASSUME HandleFresh(c)  PROVE handler[d] # "idle"
        <3>1. Deliver(c)
            BY <1>0, <2>5, TakenByDelivery DEF HandleFresh, TypeOK
        <3>2. down \in Seq(Command) /\ down # <<>> /\ down[1] = c /\ 1 \in 1..Len(down)
            BY <1>0, <3>1 DEF Deliver, Receives, DeliveryTypeOK
        <3>3. ~Due(d)
            BY <2>2, <3>2 DEF LinkOrder
        <3> QED
            BY <2>2, <2>3, <3>3 DEF Due
    <2>6. /\ handler[d] = "resolved" => ~Open(d)
          /\ handler[d] = "rejected" => queue[thread[d]].blocked
        BY <1>0, <2>2 DEF ResolvedIsReached, Open, TakenAreKnown
    <2>7. Ahead(queue[thread[c]], c, d)'
        BY <1>0, <2>2, <2>4, <2>5, <2>6, AheadKept
    <2>8. journal'[c] = journal[c]
        BY <1>0, <2>4, JournalStep DEF Dispatched, Ahead
    <2> QED
        BY <2>4, <2>7, <2>8
<1> QED
    BY <1>1, <1>2

LEMMA StepOrder ==
    ASSUME DeliveryInv, OrderInv, [DeliveryNext]_deliveryVars, DeliveryInv'
    PROVE  OrderInv'
<1>1. CASE DeliveryNext
    <2>1. TakenAreKnown' /\ EarlierAreBefore'
        BY <1>1, TakenStep DEF OrderInv
    <2>2. ASSUME Keeps'  PROVE (DoneIsTaken /\ DueIsCarried /\ LinkOrder /\ QueueOrder)'
        <3>1. TakenAreKnown /\ EarlierAreBefore /\ DoneIsTaken /\ DueIsCarried /\ LinkOrder /\ QueueOrder
            BY <1>1, <2>2, KeepsStep DEF OrderInv
        <3>2. DoneIsTaken'
            BY <1>1, <2>2, <3>1, DoneStep
        <3>3. DueIsCarried' /\ LinkOrder'
            BY <1>1, <2>1, <3>1, LinkStep
        <3>4. QueueOrder'
            BY <1>1, <3>1, QueueOrderStep
        <3> QED
            BY <3>2, <3>3, <3>4
    <2> QED
        BY <2>1, <2>2 DEF OrderInv
<1>2. CASE UNCHANGED deliveryVars
    <2>1. UNCHANGED <<vars, serverVars, connVars, inboxVars, awaits>>
        BY <1>2 DEF deliveryVars
    <2> USE <2>1 DEF vars, serverVars, connVars, inboxVars
    <2>2. Numbered' = Numbered
        BY DEF Numbered
    <2>3. TakenAreKnown' /\ EarlierAreBefore'
        BY <2>2 DEF OrderInv, TakenAreKnown, EarlierAreBefore
    <2>4. ASSUME Keeps'  PROVE (DoneIsTaken /\ DueIsCarried /\ LinkOrder /\ QueueOrder)'
        <3>1. Keeps
            BY <2>4 DEF Keeps
        <3>2. DoneIsTaken' /\ DueIsCarried' /\ LinkOrder'
            BY <3>1 DEF OrderInv, DoneIsTaken, DueIsCarried, LinkOrder, Due, Open
        <3>3. QueueOrder'
            BY <3>1 DEF OrderInv, QueueOrder, Ahead, Dispatches, Open
        <3> QED
            BY <3>2, <3>3
    <2> QED
        BY <2>3, <2>4 DEF OrderInv
<1> QED
    BY <1>1, <1>2

LEMMA InitOrder == DeliveryInit => OrderInv
<1> SUFFICES ASSUME DeliveryInit  PROVE OrderInv
    OBVIOUS
<1>1. TakenAreKnown /\ EarlierAreBefore
    BY DEF DeliveryInit, Init, TakenAreKnown, EarlierAreBefore, Numbered
<1>2. DoneIsTaken /\ DueIsCarried /\ LinkOrder /\ QueueOrder
    BY DEF DeliveryInit, DoneIsTaken, DueIsCarried, LinkOrder, QueueOrder, Due
<1> QED
    BY <1>1, <1>2 DEF OrderInv

\* Somebody who sends a message after the one before it was answered never sees
\* the later one given to an agent while the earlier one is undecided, wherever
\* connections break, pushes race with replays and, if the handler is awaited,
\* the connector or the server restarts.
THEOREM SentInOrder == DeliverySpec => []SentOrderKept
<1>1. OrderInv => SentOrderKept
    BY DEF OrderInv, Keeps, QueueOrder, Open, SentOrderKept
<1>2. DeliverySpec => []OrderInv
    BY InitDeliveryInv, InitOrder, StepDeliveryInv, StepOrder, PTL DEF DeliverySpec
<1> QED
    BY <1>1, <1>2, PTL

=============================================================================

---------------------------- MODULE CommandQueue ----------------------------
(***************************************************************************)
(* Remote session commands inside the connector: the per-thread FIFO       *)
(* queues, the temporary turn clients and the SQLite command journal of    *)
(* src/src/connector/runtime.ts and                                        *)
(* src/src/reliability/sqlite-command-journal.ts.                          *)
(*                                                                         *)
(* The process is single-threaded: an action is the code between two       *)
(* awaits.  Everything a crash erases is in queue and handler; journal and *)
(* reports are SQLite tables and survive.  turn and written describe the   *)
(* agent (Codex app-server), which the connector sees only through its     *)
(* responses and notifications.                                            *)
(***************************************************************************)
EXTENDS Naturals, Sequences

CONSTANTS Command,      \* session commands, by commandId
          Thread,       \* agent threads, by threadId
          thread,       \* the thread each command is bound to
          NoClient,     \* queue.active when the queue has no turn client
          MaxRestarts   \* bound: how often the process may stop or crash

ASSUME ThreadAssumption == thread \in [Command -> Thread]
ASSUME RestartsAssumption == MaxRestarts \in Nat

VARIABLES running,      \* the process is up
          restarts,     \* how often it went down
          journal,      \* session_command_delivery.state
          reports,      \* session.command.updated statuses put in the outbox
          queue,        \* #remoteCommandQueues
          handler,      \* the promise #handleSessionCommand returned last
          turn,         \* the agent's turn for each command
          written       \* how often turn/start was written to an agent

vars == <<running, restarts, journal, reports, queue, handler, turn, written>>
agentVars == <<turn, written>>
-----------------------------------------------------------------------------
JournalState == {"absent", "prepared", "sent_unknown", "delivered", "failed"}

\* The states a redelivered command is answered from without being queued.
Reached == {"sent_unknown", "delivered", "failed"}

\* What the run of a turn client is waiting for.  "open" waits for the
\* terminal event of a confirmed turn, "ambiguous" for any terminal event or
\* the 24 h timer, "closing" for client.stop() to return.
Phase == {"starting", "resuming", "turn_start", "open", "ambiguous", "closing"}

\* Phases in which the promise of the job has not been settled.
Dispatching == {"starting", "resuming", "turn_start"}

\* terminals: whose terminal events arrived; release: #scheduleTurnClientStop
\* armed its timer; exited: the child process is gone.
Client == [job : Command, phase : Phase, terminals : SUBSET {"own", "foreign"},
           release : BOOLEAN, exited : BOOLEAN]

ASSUME NoClientAssumption == NoClient \notin Client

NewClient(c) == [job |-> c, phase |-> "starting", terminals |-> {},
                 release |-> FALSE, exited |-> FALSE]

Queue == [pending : Seq(Command), blocked : BOOLEAN, active : Client \cup {NoClient}]

\* A queue missing from #remoteCommandQueues is one that equals IdleQueue(FALSE).
IdleQueue(blocked) == [pending |-> <<>>, blocked |-> blocked, active |-> NoClient]

Handler == {"idle", "waiting", "resolved", "rejected"}

TurnState == {"none", "running", "ended", "lost"}

TypeOK ==
    /\ running \in BOOLEAN
    /\ restarts \in 0..MaxRestarts
    /\ journal \in [Command -> JournalState]
    /\ reports \in [Command -> SUBSET Reached]
    /\ queue \in [Thread -> Queue]
    /\ handler \in [Command -> Handler]
    /\ turn \in [Command -> TurnState]
    /\ written \in [Command -> Nat]
-----------------------------------------------------------------------------
Enqueue(q, c) == [q EXCEPT !.pending = Append(q.pending, c)]

\* Faulty variant: ignores that the queue already has a client.
PumpEager(q) ==
    IF q.blocked \/ q.pending = <<>> THEN q
    ELSE [q EXCEPT !.active = NewClient(Head(q.pending)), !.pending = Tail(q.pending)]

\* Faulty variant: a blocked queue throws away what waits in it.
PumpDropping(q) ==
    IF q.blocked THEN [q EXCEPT !.pending = <<>>]
    ELSE IF q.active # NoClient \/ q.pending = <<>> THEN q
    ELSE [q EXCEPT !.active = NewClient(Head(q.pending)), !.pending = Tail(q.pending)]

\* #pumpThreadCommandQueue: an unblocked queue without a client hands its head
\* to a new turn client.
Pump(q) ==
    IF q.blocked \/ q.active # NoClient \/ q.pending = <<>> THEN q
    ELSE [q EXCEPT !.active = NewClient(Head(q.pending)), !.pending = Tail(q.pending)]

InPhase(t, p) == queue[t].active # NoClient /\ queue[t].active.phase = p

Alive(t) == ~queue[t].active.exited

\* The client of t becomes a; blocked says whether the queue is now
\* blocked.
Become(t, a, blocked) ==
    queue' = [queue EXCEPT ![t] = [@ EXCEPT !.active = a, !.blocked = blocked]]

\* The active client of t moves to phase p.
Proceed(t, p, blocked) == Become(t, [queue[t].active EXCEPT !.phase = p], blocked)

\* The command of the active client of t reaches journal state s, is reported
\* and its promise resolves (#reportSessionCommand, #resolveQueuedCommand).
Conclude(t, s) ==
    LET c == queue[t].active.job IN
    /\ journal' = [journal EXCEPT ![c] = s]
    /\ reports' = [reports EXCEPT ![c] = @ \cup {s}]
    /\ handler' = [handler EXCEPT ![c] = "resolved"]

\* Children of a connector that stopped: the agent's turns are not observed
\* any more.
TurnsLost == turn' = [c \in Command |-> IF turn[c] = "running" THEN "lost" ELSE turn[c]]

ProcessDown ==
    /\ restarts < MaxRestarts
    /\ restarts' = restarts + 1
    /\ running' = FALSE
    /\ queue' = [t \in Thread |-> IdleQueue(FALSE)]
    /\ handler' = [c \in Command |-> "idle"]
    /\ TurnsLost
-----------------------------------------------------------------------------
Init ==
    /\ running = TRUE
    /\ restarts = 0
    /\ journal = [c \in Command |-> "absent"]
    /\ reports = [c \in Command |-> {}]
    /\ queue = [t \in Thread |-> IdleQueue(FALSE)]
    /\ handler = [c \in Command |-> "idle"]
    /\ turn = [c \in Command |-> "none"]
    /\ written = [c \in Command |-> 0]

\* #handleSessionCommand for a command that is neither being dispatched nor
\* past the journal: queue it and pump.
HandleFresh(c) ==
    /\ running
    /\ handler[c] # "waiting"
    /\ journal[c] \notin Reached
    /\ handler' = [handler EXCEPT ![c] = "waiting"]
    /\ queue' = [queue EXCEPT ![thread[c]] = Pump(Enqueue(queue[thread[c]], c))]
    /\ UNCHANGED <<running, restarts, journal, reports, agentVars>>

\* #handleSessionCommand for a redelivered command the journal already decided:
\* report it again; an unknown outcome blocks the queue again.
HandleKnown(c) ==
    /\ running
    /\ handler[c] # "waiting"
    /\ journal[c] \in Reached
    /\ handler' = [handler EXCEPT ![c] = "resolved"]
    /\ reports' = [reports EXCEPT ![c] = @ \cup {journal[c]}]
    /\ Become(thread[c], queue[thread[c]].active,
              queue[thread[c]].blocked \/ journal[c] = "sent_unknown")
    /\ UNCHANGED <<running, restarts, journal, agentVars>>

\* client.start() or initialize() fails: the catch of #runQueuedSessionCommand
\* blocks the queue, rejects the job and closes the client.
ClientFails(t) ==
    /\ InPhase(t, "starting")
    /\ handler' = [handler EXCEPT ![queue[t].active.job] = "rejected"]
    /\ Proceed(t, "closing", TRUE)
    /\ UNCHANGED <<running, restarts, journal, reports, agentVars>>

\* The client is initialized and dispatchSessionCommand runs up to thread/resume.
\* journal.prepare() that finds a decided command ends the dispatch there.
ClientReady(t) ==
    LET c == queue[t].active.job IN
    /\ InPhase(t, "starting") /\ Alive(t)
    /\ IF journal[c] \in Reached
       THEN /\ Conclude(t, journal[c])
            /\ Proceed(t, "closing", queue[t].blocked \/ journal[c] = "sent_unknown")
       ELSE /\ journal' = [journal EXCEPT ![c] = "prepared"]
            /\ Proceed(t, "resuming", queue[t].blocked)
            /\ UNCHANGED <<reports, handler>>
    /\ UNCHANGED <<running, restarts, agentVars>>

\* An attachment is missing before thread/resume, in the same step as prepare().
AttachmentsRejected(t) ==
    /\ InPhase(t, "starting") /\ Alive(t)
    /\ journal[queue[t].active.job] \notin Reached
    /\ Conclude(t, "failed")
    /\ Proceed(t, "closing", queue[t].blocked)
    /\ UNCHANGED <<running, restarts, agentVars>>

\* thread/resume fails or times out, or an attachment expired meanwhile.
ResumeFails(t) ==
    /\ InPhase(t, "resuming")
    /\ Conclude(t, "failed")
    /\ Proceed(t, "closing", queue[t].blocked)
    /\ UNCHANGED <<running, restarts, agentVars>>

\* Faulty variant: writes first and journals with the response.
BeginDispatchUnjournaled(t) ==
    /\ InPhase(t, "resuming") /\ Alive(t)
    /\ written' = [written EXCEPT ![queue[t].active.job] = @ + 1]
    /\ Proceed(t, "turn_start", queue[t].blocked)
    /\ UNCHANGED <<running, restarts, journal, reports, handler, turn>>

\* thread/resume returned: journal.beginDispatch() commits, then turn/start is
\* written.
BeginDispatch(t) ==
    LET c == queue[t].active.job IN
    /\ InPhase(t, "resuming") /\ Alive(t)
    /\ journal' = [journal EXCEPT ![c] = "sent_unknown"]
    /\ written' = [written EXCEPT ![c] = @ + 1]
    /\ Proceed(t, "turn_start", queue[t].blocked)
    /\ UNCHANGED <<running, restarts, reports, handler, turn>>

\* The process dies after beginDispatch() committed and before the write.
CrashBeforeWrite(t) ==
    /\ InPhase(t, "resuming") /\ Alive(t)
    /\ journal' = [journal EXCEPT ![queue[t].active.job] = "sent_unknown"]
    /\ ProcessDown
    /\ UNCHANGED <<reports, written>>

\* turn/start returned a turn id.  A terminal event may have come first.
TurnStartSucceeds(t) ==
    LET a == queue[t].active IN
    /\ InPhase(t, "turn_start") /\ Alive(t)
    /\ turn[a.job] \in {"running", "ended"}
    /\ Conclude(t, "delivered")
    /\ Become(t, [a EXCEPT !.phase = "open", !.release = "own" \in a.terminals],
              queue[t].blocked)
    /\ UNCHANGED <<running, restarts, agentVars>>

\* turn/start was rejected, timed out, answered without a turn id, or the child
\* went away: the outcome stays unknown and the thread is blocked.
TurnStartUnknown(t) ==
    LET a == queue[t].active IN
    /\ InPhase(t, "turn_start")
    /\ Conclude(t, "sent_unknown")
    /\ Become(t, [a EXCEPT !.phase = "ambiguous", !.release = a.terminals # {}], TRUE)
    /\ UNCHANGED <<running, restarts, agentVars>>
-----------------------------------------------------------------------------
\* The agent accepts the turn/start it was sent.
AgentStartsTurn(t) ==
    LET c == queue[t].active.job IN
    /\ queue[t].active # NoClient /\ queue[t].active.phase \in {"turn_start", "ambiguous"}
    /\ Alive(t)
    /\ written[c] > 0
    /\ turn[c] = "none"
    /\ turn' = [turn EXCEPT ![c] = "running"]
    /\ UNCHANGED <<running, restarts, journal, reports, queue, handler, written>>

\* The notification handler of the turn client: a terminal event of the thread
\* is remembered, and arms the release timer when it is the one waited for.
Observe(t, whose) ==
    LET a == queue[t].active IN
    Become(t, [a EXCEPT !.terminals = a.terminals \cup {whose},
                        !.release = a.release
                            \/ a.phase = "ambiguous"
                            \/ (a.phase = "open" /\ whose = "own")],
           queue[t].blocked)

\* The agent ends the turn of the active command (completed, failed for good or
\* interrupted) and says so.
TurnEnds(t) ==
    /\ queue[t].active # NoClient /\ queue[t].active.phase # "closing"
    /\ Alive(t)
    /\ turn[queue[t].active.job] = "running"
    /\ turn' = [turn EXCEPT ![queue[t].active.job] = "ended"]
    /\ Observe(t, "own")
    /\ UNCHANGED <<running, restarts, journal, reports, handler, written>>

\* A terminal event of another turn of the same thread.
ForeignTurnEnds(t) ==
    /\ queue[t].active # NoClient /\ queue[t].active.phase \notin {"starting", "closing"}
    /\ Alive(t)
    /\ Observe(t, "foreign")
    /\ UNCHANGED <<running, restarts, journal, reports, handler, agentVars>>

\* The child exits.  Requests that wait for it fail; nothing else notices.
ChildExits(t) ==
    /\ queue[t].active # NoClient /\ queue[t].active.phase # "closing"
    /\ Alive(t)
    /\ Become(t, [queue[t].active EXCEPT !.exited = TRUE], queue[t].blocked)
    /\ UNCHANGED <<running, restarts, journal, reports, handler, agentVars>>
-----------------------------------------------------------------------------
\* The 100 ms release timer fires: #stopTurnClient.
ReleaseTimer(t) ==
    /\ queue[t].active # NoClient
    /\ queue[t].active.phase \in {"open", "ambiguous"}
    /\ queue[t].active.release
    /\ Proceed(t, "closing", queue[t].blocked)
    /\ UNCHANGED <<running, restarts, journal, reports, handler, agentVars>>

\* #armUnknownTurnTimeout fires: the ambiguous writer is given up.
UnknownTimer(t) ==
    /\ InPhase(t, "ambiguous")
    /\ ~queue[t].active.release
    /\ Proceed(t, "closing", queue[t].blocked)
    /\ UNCHANGED <<running, restarts, journal, reports, handler, agentVars>>

\* Faulty variant: frees the queue without pumping it.
ClientClosedSilently(t) ==
    /\ InPhase(t, "closing")
    /\ queue' = [queue EXCEPT ![t].active = NoClient]
    /\ UNCHANGED <<running, restarts, journal, reports, handler, agentVars>>

\* client.stop() returned: #releaseTurnClientQueue frees the queue and pumps it.
ClientClosed(t) ==
    LET c == queue[t].active.job IN
    /\ InPhase(t, "closing")
    /\ queue' = [queue EXCEPT ![t] = Pump([queue[t] EXCEPT !.active = NoClient])]
    /\ turn' = [turn EXCEPT ![c] = IF @ = "running" THEN "lost" ELSE @]
    /\ UNCHANGED <<running, restarts, journal, reports, handler, written>>
-----------------------------------------------------------------------------
\* The process is killed at a point where it is waiting.
Crash ==
    /\ running
    /\ ProcessDown
    /\ UNCHANGED <<journal, reports, written>>

\* stop(): every job is rejected and every client stopped.  A thread/resume or
\* turn/start that is cut off may still fail its command before the exit (T).
Stop(T) ==
    LET cut(c, p) == thread[c] \in T /\ InPhase(thread[c], p)
                                     /\ queue[thread[c]].active.job = c
    IN
    /\ running
    /\ ProcessDown
    /\ journal' = [c \in Command |-> IF cut(c, "resuming") THEN "failed" ELSE journal[c]]
    /\ reports' = [c \in Command |-> IF cut(c, "resuming") \/ cut(c, "turn_start")
                                     THEN reports[c] \cup {journal'[c]} ELSE reports[c]]
    /\ UNCHANGED written

\* Faulty variant: forgets the blocks of the last process.
RestartForgetful ==
    /\ ~running
    /\ running' = TRUE
    /\ queue' = [t \in Thread |-> IdleQueue(FALSE)]
    /\ UNCHANGED <<restarts, journal, reports, handler, agentVars>>

\* start(): #restoreAmbiguousCommandBlocks before anything is connected.
Restart ==
    /\ ~running
    /\ running' = TRUE
    /\ queue' = [t \in Thread |->
                    IdleQueue(\E c \in Command : thread[c] = t /\ journal[c] = "sent_unknown")]
    /\ UNCHANGED <<restarts, journal, reports, handler, agentVars>>
-----------------------------------------------------------------------------
ClientStep(t) ==
    \/ ClientFails(t) \/ ClientReady(t) \/ AttachmentsRejected(t)
    \/ ResumeFails(t) \/ BeginDispatch(t)
    \/ TurnStartSucceeds(t) \/ TurnStartUnknown(t)
    \/ ReleaseTimer(t) \/ UnknownTimer(t) \/ ClientClosed(t)

AgentStep(t) ==
    AgentStartsTurn(t) \/ TurnEnds(t) \/ ForeignTurnEnds(t) \/ ChildExits(t)

Next ==
    \/ \E c \in Command : HandleFresh(c) \/ HandleKnown(c)
    \/ \E t \in Thread : ClientStep(t) \/ AgentStep(t) \/ CrashBeforeWrite(t)
    \/ Crash
    \/ \E T \in SUBSET Thread : Stop(T)
    \/ Restart

Spec == Init /\ [][Next]_vars

\* Every wait of the connector ends by itself: spawn reports or fails, each RPC
\* has a 15 s timeout, the timers fire and client.stop() gives up after 1 s.
\* The agent ends the turns it starts while its process lives.
Fairness ==
    /\ \A t \in Thread : WF_vars(ClientStep(t)) /\ WF_vars(TurnEnds(t))
    /\ WF_vars(Restart)

FairSpec == Spec /\ Fairness
-----------------------------------------------------------------------------
(* Properties *)

\* However often a command is delivered, and wherever the connector crashes,
\* turn/start is written at most once for it.
AtMostOneTurnStart == \A c \in Command : written[c] <= 1

\* The cloud is told one outcome per command and it is the journal's for ever
\* after; "failed" is only said of a command that no agent was ever sent, and
\* "delivered" only of one that an agent started.
ReportedOutcomeIsFinal ==
    \A c \in Command :
        /\ reports[c] \subseteq {journal[c]}
        /\ "failed" \in reports[c] => written[c] = 0
        /\ "delivered" \in reports[c] => turn[c] # "none"

\* Commands of one thread never have turns running side by side.
SerialTurns ==
    \A c, d \in Command :
        thread[c] = thread[d] /\ turn[c] = "running" /\ turn[d] = "running" => c = d

\* No command is in the queues twice, and exactly those queued or being
\* dispatched have an unsettled promise: the connector never forgets a handler
\* somebody awaits, and never runs a command for a handler that was answered.
QueuedOnce ==
    \A c \in Command :
        LET q == queue[thread[c]]
            places == {i \in 1..Len(q.pending) : q.pending[i] = c}
            dispatching == /\ q.active # NoClient
                           /\ q.active.job = c
                           /\ q.active.phase \in Dispatching
        IN  /\ \A i, j \in places : i = j
            /\ dispatching => places = {}
            /\ handler[c] = "waiting" <=> (places # {} \/ dispatching)

\* The queue, its clients and its journal implement the promise of CommandLatch.
fateBar == [c \in Command |-> IF journal[c] \in Reached THEN journal[c] ELSE "open"]
Latch == INSTANCE CommandLatch WITH fate <- fateBar, starts <- written
ImplementsLatch == Latch!Spec

\* A queued command is answered, unless its thread is blocked by an unknown
\* outcome or a failed client, or the agent process of the turn before it
\* exited without ending that turn.
QueueMoves ==
    \A c \in Command :
        handler[c] = "waiting" ~>
            \/ handler[c] # "waiting"
            \/ queue[thread[c]].blocked
            \/ (InPhase(thread[c], "open") /\ ~Alive(thread[c]))
=============================================================================

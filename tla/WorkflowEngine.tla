--------------------------- MODULE WorkflowEngine ---------------------------
(***************************************************************************)
(* The planning workflow engine of a connector, src/src/workflow/engine.ts *)
(* and its journal, run-journal.ts.                                        *)
(*                                                                         *)
(* A run is a chain of nodes.  The engine walks it with one asynchronous   *)
(* function per step, so what it does next is a promise it waits for: a    *)
(* continuation [o, i, a, at], of object o (an ActiveRun), node i, attempt *)
(* a.  `at` says what settles it: the capability probe, startSession, the  *)
(* end of the task turn or of the verification turn, the manual gate, the  *)
(* retry timer; a settled wait carries the outcome and runs before the     *)
(* event loop takes anything else.  Nothing removes a continuation when    *)
(* its run ends, and an ended run may be dispatched again under its id: a  *)
(* run may have several objects, activeRuns names the latest.  The reports *)
(* of a run reach the server in order (EventTransport), so the latest one  *)
(* of each row is kept.                                                    *)
(***************************************************************************)
EXTENDS Integers, Sequences, FiniteSets

CONSTANTS Run, NodeCount,
          Gates,          \* nodes with a manual gate, the others are verified
          MaxRetries,     \* condition.maxRetries
          TurnBudget,     \* turnBudget
          Restores,       \* whether a restarted connector calls start()
          MaxObjects,     \* bound: objects created
          MaxCrashes,     \* bound: crashes of the connector
          MaxBreaks       \* bound: times the connection is lost

ASSUME EngineAssumption ==
    /\ NodeCount \in Nat \ {0} /\ Gates \subseteq 1..NodeCount
    /\ MaxRetries \in Nat /\ TurnBudget \in Nat \ {0}
    /\ Restores \subseteq BOOLEAN
    /\ MaxObjects \in Nat /\ MaxCrashes \in Nat /\ MaxBreaks \in Nat
    /\ 0 \notin Run

VARIABLES objects,    \* every ActiveRun made, in order
          active,     \* activeRuns: the object of each run, 0 for none
          awaiting,   \* the continuations
          observed,   \* nodeSessions, those the engine listens to
          turns,      \* sessions whose agent is in a turn
          journal,    \* the row of each run in workflow_run_journal
          shown,      \* the latest status reported of each run (0) and node
          online,
          started,    \* sessions asked of an agent
          confirmed,  \* sessions whose node condition was met
          crashes, breaks

engineVars == <<objects, active, awaiting, observed, turns, journal, shown,
                online, started, confirmed, crashes, breaks>>
-----------------------------------------------------------------------------
Node == 1..NodeCount
Attempt == 0..(MaxRetries + 1)
Object == 1..MaxObjects

\* A session is made for one attempt at a node of one object.
Session == Object \X Node \X Attempt

NoRow == [idx |-> 0, a |-> 0]
Row == [idx : Node, a : Attempt]

NodeStatus == {"pending", "starting", "running", "waiting_approval", "verifying",
               "completed", "blocked_offline", "interrupted"}

\* How a turn ends: what is not completed, failed or interrupted, is retried alike.
Outcome == {"completed", "interrupted"}

\* "dropped" is the wait for a task turn whose deadline passed: nothing settles it.
Wait == {"probe", "start", "turn", "gate", "verify", "timer", "dropped"}

\* `out` is the outcome of a wait for a turn that has settled.
Continuation == [o : Object, i : Node, a : Attempt, at : Wait, out : Outcome \cup {"open"}]

RunStatus == {"running", "completed", "failed", "cancelled"}

\* An ActiveRun: its node, the status of it, turnBudgetUsed.
ActiveRun == [run : Run, idx : Node, st : NodeStatus, used : Nat, cancelled : BOOLEAN]

Reported == [Run -> [0..NodeCount -> NodeStatus \cup RunStatus \cup {"none"}]]

WorkflowTypeOK ==
    /\ objects \in Seq(ActiveRun)
    /\ Len(objects) <= MaxObjects
    /\ active \in [Run -> 0..MaxObjects]
    /\ awaiting \subseteq Continuation
    /\ observed \subseteq Session /\ turns \subseteq Session
    /\ journal \in [Run -> Row \cup {NoRow}]
    /\ shown \in Reported
    /\ online \in BOOLEAN
    /\ started \subseteq Session /\ confirmed \subseteq Session
    /\ crashes \in 0..MaxCrashes /\ breaks \in 0..MaxBreaks

Of(o) == objects[o].run
Active(o) == active[Of(o)] # 0
SessionOf(c) == <<c.o, c.i, c.a>>
Without(c) == awaiting \ {c}
Then(c, at) == Without(c) \cup {[c EXCEPT !.at = at, !.out = "open"]}
Settle(c, outcome) == Without(c) \cup {[c EXCEPT !.out = outcome]}
Begin(o, i, a) == [o |-> o, i |-> i, a |-> a, at |-> "probe", out |-> "open"]
Report(r, i, status) == [shown EXCEPT ![r][i] = status]

\* createRun: a fresh object.
NewObject(r) == [run |-> r, idx |-> 1, st |-> "pending", used |-> 0, cancelled |-> FALSE]

\* The event loop has run every settled continuation.
Idle == \A c \in awaiting : c.out = "open"
-----------------------------------------------------------------------------
(* The ends of a run *)

\* Faulty variant: ends a run that is not active, too.
FinishAgain(o, status, told, rows) ==
    /\ shown' = [told EXCEPT ![Of(o)][0] = status]
    /\ journal' = [rows EXCEPT ![Of(o)] = NoRow]
    /\ active' = [active EXCEPT ![Of(o)] = 0]
    /\ observed' = {}

\* finishRun, when `told` is reported and `rows` is journaled already: it looks the
\* run up by its id, and it stops listening to the sessions of every run.
Finish(o, status, told, rows) ==
    IF Active(o)
    THEN /\ shown' = [told EXCEPT ![Of(o)][0] = status]
         /\ journal' = [rows EXCEPT ![Of(o)] = NoRow]
         /\ active' = [active EXCEPT ![Of(o)] = 0]
         /\ observed' = {}
    ELSE /\ shown' = told
         /\ journal' = rows
         /\ UNCHANGED <<active, observed>>

\* failNode, when `told` is reported: only while the run id is active.
Fail(o, told) ==
    Finish(o, "failed",
           IF Active(o) THEN [told EXCEPT ![Of(o)][objects[o].idx] = "failed"] ELSE told, journal)

\* The report of a step that neither ends a run nor writes the journal.
Tell(o, i, status) ==
    /\ shown' = Report(Of(o), i, status)
    /\ UNCHANGED <<active, journal>>

\* retryOrFail: a report and a backoff timer, or the end of the run.
RetryOrFail(c) ==
    IF c.a < MaxRetries
    THEN /\ awaiting' = Then(c, "timer")
         /\ Tell(c.o, c.i, "starting")
         /\ UNCHANGED observed
    ELSE awaiting' = Without(c) /\ Fail(c.o, shown)

\* confirmNode: nothing for a cancelled run; else the report, the journal and
\* the next node, or the end of the run.
Confirm(c) ==
    LET told == Report(Of(c.o), c.i, "completed")
        rows == [journal EXCEPT ![Of(c.o)] = [idx |-> c.i, a |-> c.a]]
    IN  \/ /\ objects[c.o].cancelled
           /\ awaiting' = Without(c)
           /\ UNCHANGED <<objects, active, journal, shown, observed, confirmed>>
        \/ /\ ~objects[c.o].cancelled
           /\ confirmed' = confirmed \cup {SessionOf(c)}
           /\ IF c.i = NodeCount
              THEN /\ objects' = [objects EXCEPT ![c.o].st = "completed"]
                   /\ awaiting' = Without(c)
                   /\ Finish(c.o, "completed", told, rows)
              ELSE /\ objects' = [objects EXCEPT ![c.o].st = "completed", ![c.o].idx = c.i + 1]
                   /\ awaiting' = Without(c)
                        \cup {Begin(c.o, c.i + 1, 0)}
                   /\ shown' = told
                   /\ journal' = rows
                   /\ UNCHANGED <<active, observed>>
-----------------------------------------------------------------------------
EngineInit ==
    /\ objects = <<>> /\ active = [r \in Run |-> 0]
    /\ awaiting = {} /\ observed = {} /\ turns = {}
    /\ journal = [r \in Run |-> NoRow]
    /\ shown = [r \in Run |-> [i \in 0..NodeCount |-> "none"]]
    /\ online = FALSE
    /\ started = {} /\ confirmed = {}
    /\ crashes = 0 /\ breaks = 0

\* dispatchRun for a run that is not active: the engine begins the first node.
DispatchRun(r) ==
    /\ active[r] = 0
    /\ Len(objects) < MaxObjects
    /\ objects' = Append(objects, NewObject(r))
    /\ active' = [active EXCEPT ![r] = Len(objects) + 1]
    /\ shown' = Report(r, 0, "running")
    /\ awaiting' = awaiting \cup {Begin(Len(objects) + 1, 1, 0)}
    /\ UNCHANGED <<observed, turns, journal, online, started, confirmed, crashes, breaks>>

\* cancelRun: nothing for a run that is not active.  The agent is asked to end
\* the turn, which it may or may not do.
CancelRun(r) ==
    /\ IF active[r] = 0
       THEN UNCHANGED <<objects, shown, journal, active, observed>>
       ELSE /\ objects' = [objects EXCEPT ![active[r]].cancelled = TRUE]
            /\ Finish(active[r], "cancelled", shown, journal)
    /\ UNCHANGED <<awaiting, turns, online, started, confirmed, crashes, breaks>>

\* The capability probe answers.  A missing runtime, a failed probe and a model
\* that is not in the catalogue end the run; else the node is starting, in the
\* journal too, and a session is asked for.  Whether the run was cancelled
\* meanwhile is not looked at.
Probed(c) ==
    /\ c.at = "probe"
    /\ \/ /\ awaiting' = Without(c)
          /\ Fail(c.o, shown)
          /\ UNCHANGED <<objects, started>>
       \/ /\ objects' = [objects EXCEPT ![c.o].st = "starting"]
          /\ awaiting' = Then(c, "start")
          /\ started' = started \cup {SessionOf(c)}
          /\ shown' = Report(Of(c.o), c.i, "starting")
          /\ journal' = [journal EXCEPT ![Of(c.o)] = [idx |-> c.i, a |-> c.a]]
          /\ UNCHANGED <<active, observed>>
    /\ UNCHANGED <<turns, online, confirmed, crashes, breaks>>

\* startSession returns, or fails.  The engine listens to the session from here
\* on: the end of a turn that was over before it returned is in the start buffer,
\* and nobody waits for it when the buffer is promoted.
Started(c) ==
    /\ c.at = "start"
    /\ \/ /\ awaiting' = Without(c)
          /\ Fail(c.o, shown)
          /\ UNCHANGED <<objects, turns>>
       \/ /\ objects' = [objects EXCEPT ![c.o].st = "running"]
          /\ awaiting' = Then(c, "turn")
          /\ turns' \in {turns, turns \cup {SessionOf(c)}}
          /\ observed' = observed \cup {SessionOf(c)}
          /\ shown' = Report(Of(c.o), c.i, "running")
          /\ journal' = [journal EXCEPT ![Of(c.o)] = [idx |-> c.i, a |-> c.a]]
          /\ UNCHANGED active
    /\ UNCHANGED <<online, started, confirmed, crashes, breaks>>

\* The agent ends its turn and the frame reaches the engine: it settles whoever
\* waits on the session, if the engine still listens to it.
TurnEnds(s, outcome) ==
    /\ s \in turns
    /\ turns' = turns \ {s}
    /\ awaiting' = {IF s \in observed /\ SessionOf(c) = s /\ c.at \in {"turn", "verify"}
                    THEN [c EXCEPT !.out = outcome] ELSE c : c \in awaiting}
    /\ UNCHANGED <<objects, active, observed, journal, shown, online, started, confirmed,
                   crashes, breaks>>

\* The poll of a wait finds that its run was cancelled.
WaitCancelled(c) ==
    /\ c.at \in {"turn", "verify"}
    /\ objects[c.o].cancelled
    /\ awaiting' = Settle(c, "interrupted")
    /\ UNCHANGED <<objects, active, observed, turns, journal, shown, online, started, confirmed,
                   crashes, breaks>>

\* Faulty variant: only a task turn has a deadline.
NodeTimeoutTask(c) ==
    /\ c.at = "turn"
    /\ ~objects[c.o].cancelled
    /\ awaiting' = Then(c, "dropped")
    /\ UNCHANGED <<objects, active, observed, turns, journal, shown, online, started, confirmed,
                   crashes, breaks>>

\* The poll finds that the deadline of the node has passed.  The rejection fails
\* a verification; that of the task turn is dropped, and the node waits for good.
NodeTimeout(c) ==
    /\ c.at \in {"turn", "verify"}
    /\ ~objects[c.o].cancelled
    /\ awaiting' = IF c.at = "verify" THEN Settle(c, "interrupted") ELSE Then(c, "dropped")
    /\ UNCHANGED <<objects, active, observed, turns, journal, shown, online, started, confirmed,
                   crashes, breaks>>

\* enterConditionPhase: a gate is opened, or a verification turn is asked of the
\* session, which may fail without a word.  turnBudgetUsed counts the object's
\* turns, those of its earlier nodes too.
EnterCondition(c) ==
    \/ /\ c.i \in Gates
       /\ objects' = [objects EXCEPT ![c.o].st = "waiting_approval"]
       /\ awaiting' = Then(c, "gate")
       /\ Tell(c.o, c.i, "waiting_approval")
       /\ UNCHANGED <<observed, turns>>
    \/ /\ c.i \notin Gates
       /\ objects' = [objects EXCEPT ![c.o].st = "verifying", ![c.o].used = objects[c.o].used + 1]
       /\ IF objects[c.o].used >= TurnBudget
          THEN /\ awaiting' = Without(c)
               /\ Fail(c.o, Report(Of(c.o), c.i, "verifying"))
               /\ UNCHANGED turns
          ELSE /\ awaiting' = Then(c, "verify")
               /\ observed' = observed \cup {SessionOf(c)}
               /\ turns' \in {turns, turns \cup {SessionOf(c)}}
               /\ Tell(c.o, c.i, "verifying")

\* The task turn is over: nothing for an object that is no longer the run's.
TaskTurnOver(c) ==
    \/ /\ active[Of(c.o)] # c.o
       /\ awaiting' = Without(c)
       /\ UNCHANGED <<objects, active, observed, turns, journal, shown>>
    \/ /\ active[Of(c.o)] = c.o
       /\ c.out # "completed"
       /\ RetryOrFail(c)
       /\ UNCHANGED <<objects, turns>>
    \/ /\ active[Of(c.o)] = c.o
       /\ c.out = "completed"
       /\ EnterCondition(c)

\* Faulty variant: a verification without an answer counts as passed.
VerificationOverOpen(c) ==
    /\ awaiting' = Without(c) \cup IF c.i < NodeCount THEN {Begin(c.o, c.i + 1, 0)} ELSE {}
    /\ UNCHANGED <<objects, active, journal, shown, observed, confirmed, turns>>

\* The verification is over: the verdict is read from the reply.  Whether the
\* object is still the run's is not looked at.
VerificationOver(c) ==
    /\ \/ /\ c.out # "completed"
          /\ awaiting' = Without(c)
          /\ Fail(c.o, shown)
          /\ UNCHANGED <<objects, confirmed>>
       \/ /\ c.out = "completed"
          /\ \/ Confirm(c)
             \/ RetryOrFail(c) /\ UNCHANGED <<objects, confirmed>>
    /\ UNCHANGED turns

\* A settled continuation runs.
Resume(c) ==
    /\ c.out # "open"
    /\ \/ c.at = "turn" /\ TaskTurnOver(c) /\ UNCHANGED confirmed
       \/ c.at = "verify" /\ VerificationOver(c)
    /\ UNCHANGED <<online, started, crashes, breaks>>

\* A decision on the gate arrives.
GateDecided(c) ==
    /\ c.at = "gate"
    /\ \/ Confirm(c)
       \/ /\ awaiting' = Without(c)
          /\ Fail(c.o, shown)
          /\ UNCHANGED <<objects, confirmed>>
    /\ UNCHANGED <<turns, online, started, crashes, breaks>>

\* The backoff is over: startNode, of which only the cancelled flag can keep it.
RetryTimer(c) ==
    /\ c.at = "timer"
    /\ objects' = [objects EXCEPT ![c.o].idx = c.i]
    /\ awaiting' = IF objects[c.o].cancelled THEN Without(c)
                   ELSE Without(c) \cup {Begin(c.o, c.i, c.a + 1)}
    /\ UNCHANGED <<active, observed, turns, journal, shown, online, started, confirmed,
                   crashes, breaks>>
-----------------------------------------------------------------------------
(* Connection and process *)

\* handleOnline(false): a running node is reported as blocked.
GoOffline ==
    /\ online
    /\ breaks < MaxBreaks
    /\ breaks' = breaks + 1
    /\ online' = FALSE
    /\ LET blocked == {r \in Run : active[r] # 0 /\ objects[active[r]].st = "running"}
       IN  /\ objects' = [o \in DOMAIN objects |->
                            IF \E r \in blocked : active[r] = o
                            THEN [objects[o] EXCEPT !.st = "blocked_offline"] ELSE objects[o]]
           /\ shown' = [r \in Run |->
                IF r \in blocked THEN [shown[r] EXCEPT ![objects[active[r]].idx] = "blocked_offline"]
                                ELSE shown[r]]
    /\ UNCHANGED <<active, awaiting, observed, turns, journal, started, confirmed, crashes>>

\* Faulty variant: a blocked node is begun again at once, and its wait goes on.
GoOnlineRestarts ==
    /\ ~online
    /\ online' = TRUE
    /\ awaiting' = awaiting \cup {Begin(c.o, c.i, c.a + 1) : c \in
           {d \in awaiting : objects[d.o].st = "blocked_offline" /\ d.a < MaxRetries}}
    /\ UNCHANGED <<objects, active, observed, turns, journal, shown, started, confirmed, crashes, breaks>>

\* handleOnline(true): whoever waits for a blocked node is told it was interrupted.
GoOnline ==
    /\ ~online
    /\ online' = TRUE
    /\ LET blocked == {o \in DOMAIN objects : active[Of(o)] = o /\ objects[o].st = "blocked_offline"}
       IN  /\ objects' = [o \in DOMAIN objects |->
                            IF o \in blocked THEN [objects[o] EXCEPT !.st = "interrupted"] ELSE objects[o]]
           /\ awaiting' = {IF c.o \in blocked /\ c.at = "turn"
                           THEN [c EXCEPT !.out = "interrupted"] ELSE c : c \in awaiting}
    /\ UNCHANGED <<active, observed, turns, journal, shown, started, confirmed, crashes, breaks>>

\* start(), for the row of run r: the node died with the connector and is begun
\* again, unless its attempts are spent; then the failure is reported of the first
\* node, where a fresh object stands.
MayRestart(r) == journal[r].a < MaxRetries + 1

Restored(r) ==
    IF MayRestart(r) THEN [shown[r] EXCEPT ![journal[r].idx] = "interrupted"]
    ELSE [shown[r] EXCEPT ![journal[r].idx] = "interrupted", ![1] = "failed", ![0] = "failed"]

\* The connector dies with its agents and is started again.  The outbox and the
\* journal survive; start() reads the journal, and main.ts does not call it.
Crash(restore) ==
    /\ crashes < MaxCrashes
    /\ crashes' = crashes + 1
    /\ LET left == {r \in Run : restore /\ journal[r] # NoRow}
           kept == {r \in left : MayRestart(r)}
       IN  \E n \in 0..(MaxObjects - Len(objects)) : \E rows \in [1..n -> left], at \in [left -> 1..n] :
             /\ \A r \in left : rows[at[r]] = r
             /\ \A k \in 1..n : at[rows[k]] = k
             /\ objects' = objects \o [k \in 1..n |->
                  IF rows[k] \in kept THEN [NewObject(rows[k]) EXCEPT !.idx = journal[rows[k]].idx]
                                      ELSE NewObject(rows[k])]
             /\ active' = [r \in Run |-> IF r \in kept THEN Len(objects) + at[r] ELSE 0]
             /\ awaiting' = {Begin(Len(objects) + at[r], journal[r].idx, journal[r].a + 1) : r \in kept}
             /\ journal' = [r \in Run |-> IF r \in left \ kept THEN NoRow ELSE journal[r]]
             /\ shown' = [r \in Run |-> IF r \in left THEN Restored(r) ELSE shown[r]]
    /\ observed' = {} /\ turns' = {}
    /\ online' = FALSE
    /\ UNCHANGED <<started, confirmed, breaks>>
-----------------------------------------------------------------------------
\* Another run of the engine, none of Run, ends: the sessions of all are forgotten.
OtherRunEnds ==
    /\ observed' = {}
    /\ UNCHANGED <<objects, active, awaiting, turns, journal, shown, online, started, confirmed,
                   crashes, breaks>>

\* What the event loop takes up for a continuation or a turn.
Work ==
    \/ \E c \in awaiting : \/ Probed(c) \/ Started(c) \/ RetryTimer(c)
                           \/ WaitCancelled(c) \/ NodeTimeout(c)
    \/ \E s \in turns, outcome \in Outcome : TurnEnds(s, outcome)

\* What settled continuations do comes before anything else.
EngineStep == (\E c \in awaiting : Resume(c)) \/ (Idle /\ Work)

EngineNext ==
    \/ EngineStep
    \/ /\ Idle
       /\ \/ \E r \in Run : DispatchRun(r) \/ CancelRun(r)
          \/ \E c \in awaiting : GateDecided(c)
          \/ GoOffline \/ GoOnline \/ OtherRunEnds
          \/ \E restore \in Restores : Crash(restore)

EngineSpec == EngineInit /\ [][EngineNext]_engineVars

\* Promises are settled, timers fire and polls are made; nobody has to decide a
\* gate, to cancel or to dispatch.
EngineFairSpec == EngineSpec /\ WF_engineVars(EngineStep)
-----------------------------------------------------------------------------
(* Properties *)

\* No two steps of one object are under way at once: neither a timer nor a late
\* answer can run a second copy of the walk.
OneStepAtATime == \A c, d \in awaiting : c.o = d.o => c = d

\* A node is handed over only after the condition of the node before it was met,
\* by this object or, when the journal was restored, by an earlier one of the run.
HandOffAfterConfirmation ==
    \A s \in started : s[2] > 1 => \E p \in confirmed : Of(p[1]) = Of(s[1]) /\ p[2] = s[2] - 1

\* An active run has a step under way or something it waits for, whatever the other
\* runs, the objects before it and the connection do.
NobodyForgotten == \A r \in Run : active[r] # 0 => \E c \in awaiting : c.o = active[r]

Cancelled(r) == \E o \in DOMAIN objects : Of(o) = r /\ objects[o].cancelled

\* A run that is over left the journal, unless it was cancelled before its session
\* was there, or the connector died and did not restore it.
JournalForgets ==
    \A r \in Run : active[r] = 0 /\ journal[r] # NoRow => crashes > 0 \/ Cancelled(r)

\* A run that was dispatched comes to its end.  ADR-033 says that of every run, for a
\* node has a deadline; the code leaves two nodes without one: a gate waits for people,
\* however late, and the deadline of a task turn is dropped.
Stuck(o) == \E c \in awaiting : c.o = o /\ c.at \in {"gate", "dropped"}

RunEnds ==
    \A o \in Object :
        (\E r \in Run : active[r] = o) ~> (\A r \in Run : active[r] # o) \/ Stuck(o)

\* The engine keeps the promises WorkflowRunLife makes to the server.
Life == INSTANCE WorkflowRunLife
            WITH live <- {r \in Run : active[r] # 0}, last <- [r \in Run |-> shown[r][0]]

ImplementsRunLife == Life!LifeSpec
=============================================================================

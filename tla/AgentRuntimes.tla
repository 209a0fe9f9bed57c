--------------------------- MODULE AgentRuntimes ---------------------------
(***************************************************************************)
(* The runtimes of the agents that are not Codex (the frames of threads of *)
(* ACP agents and the usage reports are left out):                         *)
(*   src/agents/acp/acp-agent-runtime.ts, json-rpc-connection.ts           *)
(*   src/agents/cursor/cursor-agent-runtime.ts                             *)
(*   src/agents/zcode/zcode-agent-runtime.ts                               *)
(*   src/agents/agent-session-store.ts, src/connector/multi-agent-runtime.ts *)
(* A runtime in one life of the connector.  The first of the configuration *)
(* is the default one: commands, streams and decisions go to it, since     *)
(* nothing calls learnSessionOwner; another one gets the tasks of          *)
(* workflows, and nothing else.  A restart may configure other runtimes,   *)
(* and all of them keep their sessions in one file.  The fan-out does not  *)
(* wait for a handler: one that rejects is an unhandled rejection, which   *)
(* ends the connector (Crash).                                             *)
(***************************************************************************)
EXTENDS Naturals, FiniteSets, Sequences

CONSTANTS Thread,     \* threads, as the server names them
          Viewed,     \* bound: the threads that somebody opens
          Inventory,  \* the row that the ZCode runtime writes with its count of sessions
          None,
          MaxJobs, MaxAsks, MaxNatives, MaxStarts, MaxText   \* bounds

Kind == {"acp", "cursor", "zcode"}
Job == 1..MaxJobs
Ask == 1..MaxAsks

\* The sessions of the agents; those of ZCode have the name of their thread.
Native == Thread \cup (1..MaxNatives) \cup {Inventory}

ASSUME AgentAssumption ==
    /\ {Inventory, None} \cap Thread = {} /\ None \notin Native /\ Viewed \subseteq Thread
    /\ {MaxJobs, MaxAsks, MaxNatives, MaxStarts, MaxText} \subseteq Nat

VARIABLES kind,     \* the runtime that was started last
          default,  \* whether it runs and is the first of the configuration
          phase,    \* "down"; "up"; "dead": the connector runs, the agent has exited
          starts, natives,
          store,    \* agent-sessions.sqlite, in the order of created_at
          bound,    \* the session of each thread
          spare,    \* the session of the init event of Cursor
          job,      \* prompts: commands of the server and tasks of workflows
          turn,     \* the turn that each session has open
          reported, \* how many final statuses of each turn were sent
          unmapped, \* turns with an approval for which the agent offered no option
          ask,      \* permission requests
          watched,  \* threads with a subscription
          text,     \* how long the message of each thread is
          polls,    \* answers of session/messages that are on their way
          seen,     \* seenTextLengths
          told      \* how much text was sent in message.delta frames

agentVars == <<kind, default, phase, starts, natives>>
sessionVars == <<store, bound, spare>>
turnVars == <<job, turn, reported, unmapped>>
textVars == <<watched, text, polls, seen, told>>
vars == <<agentVars, sessionVars, turnVars, ask, textVars>>
-----------------------------------------------------------------------------
NoJob == [thread |-> None, from |-> "none", at |-> "none", native |-> None]

NoAsk == [job |-> 0, turn |-> 0, options |-> {}, agent |-> "none", parked |-> FALSE, request |-> "none"]

Active == {"opening", "mode", "prompted", "running"}

\* Commands and tasks get their numbers in order.
Unused(j) == job[j].at = "none" /\ \A i \in Job : i < j => job[i].at # "none"

\* A promise that the fan-out does not wait for is still pending.
Awaited(j) == job[j].from = "command" /\ job[j].at \in Active \ {"running"}

Rows == {store[i] : i \in 1..Len(store)}

\* bind: ON CONFLICT (thread_id) DO NOTHING.
Bind(t, n) ==
    store' = IF \E row \in Rows : row.thread = t THEN store
             ELSE Append(store, [thread |-> t, native |-> n])

\* A thread that startSession makes up.
NewThread(t) == /\ \A row \in Rows : row.thread # t
                /\ \A j \in Job : job[j].thread # t
                /\ bound[t] = None

Init ==
    /\ kind \in Kind /\ default = FALSE /\ phase = "down" /\ starts = 0 /\ natives = 0
    /\ store = <<>> /\ bound = [t \in Thread \cup {Inventory} |-> None] /\ spare = None
    /\ job = [j \in Job |-> NoJob]
    /\ turn = [n \in Native |-> 0]
    /\ reported = [j \in Job |-> 0] /\ unmapped = {}
    /\ ask = [a \in Ask |-> NoAsk]
    /\ watched = {} /\ polls = {}
    /\ text = [t \in Thread |-> 0] /\ seen = [t \in Thread |-> 0] /\ told = [t \in Thread |-> 0]
-----------------------------------------------------------------------------
(* The end of the connector process, and of the agent. *)

\* A pending permission is forgotten and the agent, if it still waits, is answered.
Settle(a, answer) == [ask[a] EXCEPT !.parked = FALSE,
                                    !.agent = IF @ = "waiting" THEN answer ELSE @]

\* All of them are settled; the answer is written to an agent that is gone.
AsksEnd == ask' = [a \in Ask |-> Settle(a, "gone")]

JobsEnd(jobs) == job' = [j \in Job |-> [jobs[j] EXCEPT !.at = IF @ = "none" THEN @ ELSE "over"]]

\* What is only in memory is lost.
Forget(jobs) ==
    /\ phase' = "down" /\ default' = FALSE
    /\ bound' = [t \in DOMAIN bound |-> None] /\ spare' = None
    /\ turn' = [n \in Native |-> 0]
    /\ watched' = {} /\ polls' = {} /\ seen' = [t \in Thread |-> 0]
    /\ told' = [t \in Thread |-> 0] /\ text' = [t \in Thread |-> 0]
    /\ JobsEnd(jobs) /\ AsksEnd
    /\ UNCHANGED <<kind, starts, natives, store, reported, unmapped>>

\* stop, on SIGTERM or SIGINT.
Stop == phase # "down" /\ Forget(job)

Crash(jobs) == Forget(jobs)

\* The handler of a command throws because the runtime is not running: the command
\* was acknowledged and is lost with the process.
NotRunning(j, t) ==
    /\ default /\ phase = "dead" /\ Unused(j)
    /\ Crash([job EXCEPT ![j] = [NoJob EXCEPT !.thread = t, !.from = "command", !.at = "opening"]])

\* Exit of the agent: handleExit of the connection rejects the requests that wait,
\* handleExit of the runtime settles the permissions.
ChildExits ==
    /\ phase = "up"
    /\ IF \E j \in Job : Awaited(j)
       THEN Crash(job)
       ELSE /\ phase' = "dead"
            /\ turn' = IF kind = "zcode" THEN turn ELSE [n \in Native |-> 0]
            /\ bound' = IF kind = "zcode" THEN [t \in DOMAIN bound |-> None] ELSE bound
            /\ polls' = {}
            /\ JobsEnd(job) /\ AsksEnd
            /\ UNCHANGED <<kind, default, starts, natives, store, spare, reported, unmapped, watched, text, seen, told>>

\* A request to the agent is not answered for thirty seconds.  Cursor has none.
RequestTimesOut(j) ==
    /\ phase = "up" /\ kind # "cursor" /\ Awaited(j)
    /\ Crash(job)
-----------------------------------------------------------------------------
(* start: the session store of the connector is read, whoever wrote it. *)

\* Sessions that session/load refuses are not offered again; an agent without
\* that capability is believed to have them all.
Resumed(ok) ==
    /\ bound' = [t \in DOMAIN bound |->
                    IF t \in ok /\ \E row \in Rows : row.thread = t
                    THEN (CHOOSE row \in Rows : row.thread = t).native ELSE None]

AcpStart ==
    /\ \E ok \in SUBSET DOMAIN bound : Resumed(ok)
    /\ UNCHANGED <<store, spare, natives>>

\* The init event of the child: the session that --resume names, or a new one.
InitEvent(resume) ==
    \/ resume # None /\ spare' = resume /\ UNCHANGED natives
    \/ natives < MaxNatives /\ natives' = natives + 1 /\ spare' = natives'

\* --resume names the session of the last row.  When the init event has it, the
\* thread of the first row is bound to it.
CursorStart ==
    LET resume == IF store = <<>> THEN None ELSE store[Len(store)].native
    IN  /\ InitEvent(resume)
        /\ bound' = IF spare' = resume THEN [bound EXCEPT ![store[1].thread] = resume] ELSE bound
        /\ UNCHANGED store

\* The name of the agent is bound to the number of its sessions.
ListSessions == Bind(Inventory, Inventory)

ZcodeStart == ListSessions /\ UNCHANGED <<bound, spare, natives>>

Start(k) ==
    /\ phase = "down" /\ starts < MaxStarts
    /\ starts' = starts + 1 /\ phase' = "up" /\ kind' = k /\ default' \in BOOLEAN
    /\ CASE k = "acp" -> AcpStart
         [] k = "cursor" -> CursorStart
         [] k = "zcode" -> ZcodeStart
    /\ UNCHANGED <<turnVars, ask, textVars>>
-----------------------------------------------------------------------------
(* Prompts of ACP agents. *)

\* handleSessionCommand: the session of the thread, or a new one.
AcpCommand(j, t) ==
    /\ kind = "acp" /\ default /\ phase = "up" /\ Unused(j)
    /\ job' = [job EXCEPT ![j] = [thread |-> t, from |-> "command", native |-> bound[t],
                                  at |-> IF bound[t] = None THEN "opening" ELSE "prompted"]]
    /\ turn' = IF bound[t] = None THEN turn ELSE [turn EXCEPT ![bound[t]] = j]
    /\ UNCHANGED <<agentVars, sessionVars, reported, unmapped, ask, textVars>>

\* startSession.
AcpTask(j, t) ==
    /\ kind = "acp" /\ phase = "up" /\ Unused(j) /\ NewThread(t)
    /\ job' = [job EXCEPT ![j] = [thread |-> t, from |-> "workflow", native |-> None, at |-> "opening"]]
    /\ UNCHANGED <<agentVars, sessionVars, turn, reported, unmapped, ask, textVars>>

\* The answer of session/new: #bindSession, and the prompt.
AcpOpened(j) ==
    /\ kind = "acp" /\ phase = "up" /\ job[j].at = "opening"
    /\ natives < MaxNatives /\ natives' = natives + 1
    /\ bound' = [bound EXCEPT ![job[j].thread] = natives']
    /\ Bind(job[j].thread, natives')
    /\ job' = [job EXCEPT ![j].at = "prompted", ![j].native = natives']
    /\ turn' = [turn EXCEPT ![natives'] = j]
    /\ UNCHANGED <<kind, default, phase, starts, spare, reported, unmapped, ask, textVars>>

\* The agent is done with a prompt, and with its permission requests.
AskOver(j) == ask' = [a \in Ask |-> IF ask[a].job = j /\ ask[a].agent = "waiting"
                                    THEN [ask[a] EXCEPT !.agent = "gone"] ELSE ask[a]]

Known(n) == \E t \in DOMAIN bound : bound[t] = n

\* Faulty variant: the turn is not forgotten.
ReportAgain(n) ==
    /\ reported' = IF turn[n] = 0 THEN reported ELSE [reported EXCEPT ![turn[n]] = @ + 1]
    /\ UNCHANGED turn

\* A final status for the turn that the session has open.
Report(n) ==
    /\ reported' = IF turn[n] = 0 THEN reported ELSE [reported EXCEPT ![turn[n]] = @ + 1]
    /\ turn' = [turn EXCEPT ![n] = 0]

\* turn_end of a session that is bound, then the answer of session/prompt.
TurnEnd(n) == IF Known(n) THEN Report(n) ELSE UNCHANGED <<reported, turn>>

AcpEnd(j) ==
    /\ kind = "acp" /\ phase = "up" /\ job[j].at = "prompted"
    /\ TurnEnd(job[j].native)
    /\ job' = [job EXCEPT ![j].at = "over"]
    /\ AskOver(j)
    /\ UNCHANGED <<agentVars, sessionVars, unmapped, textVars>>
-----------------------------------------------------------------------------
(* Prompts of Cursor. *)

\* #bindOrRequire.
BindOrRequire(t) ==
    /\ \A u \in DOMAIN bound : bound[u] # None => u = t
    /\ IF bound[t] = None
       THEN bound' = [bound EXCEPT ![t] = spare] /\ Bind(t, spare)
       ELSE UNCHANGED <<bound, store>>

Supervised(t) == \A u \in DOMAIN bound : bound[u] # None => u = t

\* handleSessionCommand; another thread, or a turn that runs, make it throw.
CursorCommand(j, t) ==
    /\ kind = "cursor" /\ default /\ phase = "up" /\ Unused(j)
    /\ \/ /\ turn[spare] = 0 /\ BindOrRequire(t)
          /\ job' = [job EXCEPT ![j] = [thread |-> t, from |-> "command", native |-> spare, at |-> "prompted"]]
          /\ turn' = [turn EXCEPT ![spare] = j]
          /\ UNCHANGED <<agentVars, spare, reported, unmapped, ask, textVars>>
       \/ /\ turn[spare] # 0 \/ ~Supervised(t)
          /\ Crash([job EXCEPT ![j] = [thread |-> t, from |-> "command", native |-> spare, at |-> "opening"]])

\* startSession does not open a turn.
CursorTask(j, t) ==
    /\ kind = "cursor" /\ phase = "up" /\ Unused(j) /\ NewThread(t)
    /\ \A u \in DOMAIN bound : bound[u] = None
    /\ BindOrRequire(t)
    /\ job' = [job EXCEPT ![j] = [thread |-> t, from |-> "workflow", native |-> spare, at |-> "prompted"]]
    /\ UNCHANGED <<agentVars, spare, turn, reported, unmapped, ask, textVars>>

\* The result of the earliest prompt ends the turn, whose ever it is.
CursorResult(j) ==
    /\ kind = "cursor" /\ phase = "up" /\ job[j].at = "prompted"
    /\ \A i \in Job : i < j => job[i].at # "prompted"
    /\ job' = [job EXCEPT ![j].at = "over"]
    /\ Report(spare)
    /\ AskOver(j)
    /\ UNCHANGED <<agentVars, sessionVars, unmapped, textVars>>
-----------------------------------------------------------------------------
(* Prompts of ZCode. *)

\* handleSessionCommand: session/resume if need be, session/setMode, session/send.
ZcodeCommand(j, t) ==
    /\ kind = "zcode" /\ default /\ phase = "up" /\ Unused(j)
    /\ job' = [job EXCEPT ![j] = [thread |-> t, from |-> "command", native |-> t,
                                  at |-> IF bound[t] = None THEN "opening" ELSE "mode"]]
    /\ UNCHANGED <<agentVars, sessionVars, turn, reported, unmapped, ask, textVars>>

\* startSession.
ZcodeTask(j, t) ==
    /\ kind = "zcode" /\ phase = "up" /\ Unused(j) /\ NewThread(t)
    /\ job' = [job EXCEPT ![j] = [thread |-> t, from |-> "workflow", native |-> t, at |-> "opening"]]
    /\ UNCHANGED <<agentVars, sessionVars, turn, reported, unmapped, ask, textVars>>

\* What a session/resume brings is not sent.
Resume(t) ==
    /\ bound' = [bound EXCEPT ![t] = t]
    /\ Bind(t, t)
    /\ seen' = [seen EXCEPT ![t] = IF text[t] > @ THEN text[t] ELSE @]

ZcodeOpened(j) ==
    /\ kind = "zcode" /\ phase = "up" /\ job[j].at = "opening"
    /\ Resume(job[j].thread)
    /\ job' = [job EXCEPT ![j].at = "mode"]
    /\ UNCHANGED <<agentVars, spare, turn, reported, unmapped, ask, watched, text, polls, told>>

\* The answer of session/setMode.  A task has no turn.
ZcodeSend(j) ==
    /\ kind = "zcode" /\ phase = "up" /\ job[j].at = "mode"
    /\ job' = [job EXCEPT ![j].at = "prompted"]
    /\ turn' = IF job[j].from = "command" THEN [turn EXCEPT ![job[j].native] = j] ELSE turn
    /\ UNCHANGED <<agentVars, sessionVars, reported, unmapped, ask, textVars>>

\* The answers of session/send and session/usage.
ZcodeAccepted(j) ==
    /\ kind = "zcode" /\ phase = "up" /\ job[j].at = "prompted"
    /\ job' = [job EXCEPT ![j].at = "running"]
    /\ UNCHANGED <<agentVars, sessionVars, turn, reported, unmapped, ask, textVars>>

\* state.updated of the session of a prompt.
ZcodeIdle(j) ==
    /\ kind = "zcode" /\ phase = "up" /\ job[j].at \in {"prompted", "running"}
    /\ Report(job[j].native)
    /\ job' = [job EXCEPT ![j].at = "over"]
    /\ AskOver(j)
    /\ UNCHANGED <<agentVars, sessionVars, unmapped, textVars>>
-----------------------------------------------------------------------------
(* Permissions. *)

Offered == {{"once", "always", "reject"}, {"always", "reject"}}

NextAsk(a) == ask[a].agent = "none" /\ \A b \in Ask : b < a => ask[b].agent # "none"

\* #handlePermissionRequest: a request of an unknown session is refused.
AcpAsk(a, j) ==
    /\ kind = "acp" /\ phase = "up" /\ NextAsk(a) /\ job[j].at = "prompted"
    /\ \E options \in Offered :
        ask' = [ask EXCEPT ![a] =
                  IF Known(job[j].native)
                  THEN [job |-> j, turn |-> turn[job[j].native], options |-> options,
                        agent |-> "waiting", parked |-> TRUE, request |-> "open"]
                  ELSE [NoAsk EXCEPT !.job = j, !.agent = "rejected"]]
    /\ UNCHANGED <<agentVars, sessionVars, turnVars, textVars>>

Parked == \E a \in Ask : ask[a].parked

CursorParks(a, j) ==
    ask' = [ask EXCEPT ![a] = [job |-> j, turn |-> turn[spare], options |-> {"once", "reject"},
                               agent |-> "waiting", parked |-> TRUE, request |-> "open"]]

\* Faulty variant: a second request takes the place of the first.
CursorAskReplaces(a, j) ==
    /\ kind = "cursor" /\ phase = "up" /\ NextAsk(a) /\ job[j].at = "prompted"
    /\ turn[spare] # 0
    /\ ask' = [b \in Ask |->
                 IF b = a THEN [job |-> j, turn |-> turn[spare], options |-> {"once", "reject"},
                                agent |-> "waiting", parked |-> TRUE, request |-> "open"]
                 ELSE [ask[b] EXCEPT !.parked = FALSE]]
    /\ UNCHANGED <<agentVars, sessionVars, turnVars, textVars>>

\* #handleControlRequest: one request at a time, of a turn.
CursorAsk(a, j) ==
    /\ kind = "cursor" /\ phase = "up" /\ NextAsk(a) /\ job[j].at = "prompted"
    /\ IF turn[spare] # 0 /\ ~Parked
       THEN CursorParks(a, j)
       ELSE ask' = [ask EXCEPT ![a] = [NoAsk EXCEPT !.job = j, !.agent = "rejected"]]
    /\ UNCHANGED <<agentVars, sessionVars, turnVars, textVars>>

ZcodeAsk(a, j) ==
    /\ kind = "zcode" /\ phase = "up" /\ NextAsk(a) /\ job[j].at \in {"prompted", "running"}
    /\ ask' = [ask EXCEPT ![a] = [job |-> j, turn |-> turn[job[j].native], options |-> {"once", "reject"},
                                  agent |-> "waiting", parked |-> TRUE, request |-> "open"]]
    /\ UNCHANGED <<agentVars, sessionVars, turnVars, textVars>>

\* A user decides, or the deadline of the request passes on the server.
Decide(a, status) ==
    /\ ask[a].request = "open"
    /\ ask' = [ask EXCEPT ![a].request = status]
    /\ UNCHANGED <<agentVars, sessionVars, turnVars, textVars>>

\* Faulty variant: any option that allows.
AnyOption(a) ==
    IF ask[a].request = "denied" THEN "rejected"
    ELSE IF "once" \in ask[a].options THEN "once" ELSE "always"

\* #resolveOptionId: an approval is for one time.
AcpOption(a) == IF ask[a].request = "approved" /\ "once" \in ask[a].options THEN "once" ELSE "rejected"

\* The behavior of the control response of Cursor.
CursorBehavior(a) == IF ask[a].request = "approved" THEN "once" ELSE "rejected"

\* The allow or deny of ZCode.
ZcodeDecision(a) == IF ask[a].request = "approved" THEN "once" ELSE "rejected"

OptionFor(a) == CASE kind = "acp" -> AcpOption(a)
                  [] kind = "cursor" -> CursorBehavior(a)
                  [] kind = "zcode" -> ZcodeDecision(a)

\* onDecision: whoever asked, only the default runtime is told.  handleDecision: an
\* approval without an option is reported as the failure of the turn, which goes on.
HandleDecision(a) ==
    /\ default /\ phase # "down" /\ ask[a].parked /\ ask[a].request \in {"approved", "denied"}
    /\ ask' = [ask EXCEPT ![a] = Settle(a, OptionFor(a))]
    /\ IF ask[a].request = "approved" /\ OptionFor(a) = "rejected" /\ ask[a].turn # 0
       THEN /\ reported' = [reported EXCEPT ![ask[a].turn] = @ + 1]
            /\ unmapped' = unmapped \cup {ask[a].turn}
       ELSE UNCHANGED <<reported, unmapped>>
    /\ UNCHANGED <<agentVars, sessionVars, job, turn, textVars>>
-----------------------------------------------------------------------------
(* Streams. *)

\* handleSessionStream of Cursor binds the thread.  What throws there ends the
\* connector.
CursorSubscribe(t) ==
    /\ kind = "cursor" /\ default /\ phase # "down"
    /\ \/ /\ BindOrRequire(t)
          /\ watched' = watched \cup {t}
          /\ UNCHANGED <<agentVars, spare, turnVars, ask, text, polls, seen, told>>
       \/ ~Supervised(t) /\ Crash(job)

\* That of ZCode resumes it.
ZcodeSubscribe(t) ==
    /\ kind = "zcode" /\ default /\ phase # "down"
    /\ \/ /\ bound[t] # None
          /\ watched' = watched \cup {t}
          /\ UNCHANGED <<agentVars, sessionVars, turnVars, ask, text, polls, seen, told>>
       \/ /\ phase = "up" /\ bound[t] = None
          /\ Resume(t)
          /\ watched' = watched \cup {t}
          /\ UNCHANGED <<agentVars, spare, turnVars, ask, text, polls, told>>
       \/ bound[t] = None /\ Crash(job)

Unsubscribe(t) ==
    /\ kind # "acp" /\ t \in watched
    /\ watched' = watched \ {t}
    /\ UNCHANGED <<agentVars, sessionVars, turnVars, ask, text, polls, seen, told>>

\* The message of a ZCode session grows while a prompt of the session runs.
Writes(t) ==
    /\ kind = "zcode" /\ phase = "up" /\ text[t] < MaxText
    /\ \E j \in Job : job[j].thread = t /\ job[j].at \in {"prompted", "running"}
    /\ text' = [text EXCEPT ![t] = @ + 1]
    /\ UNCHANGED <<agentVars, sessionVars, turnVars, ask, watched, polls, seen, told>>

\* #pollOnce, every half second, whether or not the last one was answered.
Poll(t) ==
    /\ kind = "zcode" /\ phase = "up" /\ t \in watched /\ bound[t] # None
    /\ polls' = polls \cup {[thread |-> t, length |-> text[t]]}
    /\ UNCHANGED <<agentVars, sessionVars, turnVars, ask, watched, text, seen, told>>

\* Frames of a thread that nobody watches are not sent.
Tell(t, amount) == told' = IF t \in watched THEN [told EXCEPT ![t] = @ + amount] ELSE told

\* Faulty variant: any other length is new.
IngestOther(p) ==
    /\ seen' = [seen EXCEPT ![p.thread] = p.length]
    /\ Tell(p.thread, IF p.length > seen[p.thread] THEN p.length - seen[p.thread] ELSE 0)

\* #ingestTranscript.
Ingest(p) ==
    IF p.length > seen[p.thread]
    THEN /\ seen' = [seen EXCEPT ![p.thread] = p.length]
         /\ Tell(p.thread, p.length - seen[p.thread])
    ELSE UNCHANGED <<seen, told>>

PollAnswered(p) ==
    /\ kind = "zcode" /\ phase = "up"
    /\ polls' = polls \ {p}
    /\ Ingest(p)
    /\ UNCHANGED <<agentVars, sessionVars, turnVars, ask, watched, text>>
-----------------------------------------------------------------------------
Prompt(j, t) ==
    \/ NotRunning(j, t)
    \/ AcpCommand(j, t) \/ AcpTask(j, t)
    \/ CursorCommand(j, t) \/ CursorTask(j, t)
    \/ ZcodeCommand(j, t) \/ ZcodeTask(j, t)

Progress(j) ==
    \/ RequestTimesOut(j)
    \/ AcpOpened(j) \/ AcpEnd(j)
    \/ CursorResult(j)
    \/ ZcodeOpened(j) \/ ZcodeSend(j) \/ ZcodeAccepted(j) \/ ZcodeIdle(j)

Next ==
    \/ \E k \in Kind : Start(k)
    \/ Stop \/ ChildExits
    \/ \E j \in Job : Progress(j) \/ (\E t \in Thread : Prompt(j, t))
    \/ \E a \in Ask : HandleDecision(a)
                      \/ (\E status \in {"approved", "denied", "expired"} : Decide(a, status))
                      \/ (\E j \in Job : AcpAsk(a, j) \/ CursorAsk(a, j) \/ ZcodeAsk(a, j))
    \/ \E t \in Viewed : CursorSubscribe(t) \/ ZcodeSubscribe(t) \/ Unsubscribe(t)
                           \/ Writes(t) \/ Poll(t)
    \/ \E p \in polls : PollAnswered(p)

Spec == Init /\ [][Next]_vars
-----------------------------------------------------------------------------
(* Properties *)

Row == [thread : Thread \cup {Inventory}, native : Native]

JobType == [thread : Thread \cup {None}, from : {"none", "command", "workflow"},
            at : Active \cup {"none", "over"}, native : Native \cup {None}]

AskType == [job : 0..MaxJobs, turn : 0..MaxJobs, options : SUBSET {"once", "always", "reject"},
            agent : {"none", "waiting", "once", "always", "rejected", "gone"},
            parked : BOOLEAN, request : {"none", "open", "approved", "denied", "expired"}]

TypeOK ==
    /\ kind \in Kind /\ default \in BOOLEAN /\ phase \in {"down", "up", "dead"}
    /\ starts \in 0..MaxStarts /\ natives \in 0..MaxNatives
    /\ store \in Seq(Row)
    /\ bound \in [Thread \cup {Inventory} -> Native \cup {None}] /\ spare \in Native \cup {None}
    /\ job \in [Job -> JobType]
    /\ turn \in [Native -> 0..MaxJobs] /\ reported \in [Job -> Nat] /\ unmapped \subseteq Job
    /\ ask \in [Ask -> AskType]
    /\ watched \subseteq Thread /\ polls \subseteq [thread : Thread, length : 0..MaxText]
    /\ text \in [Thread -> 0..MaxText] /\ seen \in [Thread -> Nat] /\ told \in [Thread -> Nat]

\* What an agent is allowed was approved by a user, for that request and for one
\* time, whatever the agent offers and however decisions meet the end of turns, of
\* the agent and of the connector.
GrantWasApproved ==
    \A a \in Ask : ask[a].agent # "always" /\ (ask[a].agent = "once" => ask[a].request = "approved")

\* An agent that waits for a permission can still be answered: its request is open
\* on the server or decided there, the runtime still knows whom to answer, and the
\* decision is passed to that runtime.  The exception is a request in a task of a
\* workflow that runs on an agent other than the default one: the fan-out hands its
\* decision to the default agent, which does not know it.
WaitingIsAnswerable ==
    \A a \in Ask : ask[a].agent = "waiting" =>
        /\ phase = "up" /\ ask[a].parked /\ ask[a].request # "none"
        /\ default \/ job[ask[a].job].from = "workflow"

\* The end of a turn is reported at most once, although its session may be
\* prompted again before it ends.  A turn whose approval found no option is the
\* exception: it is reported as failed and ends later.
TurnEndsOnce == \A j \in Job : reported[j] > 1 => j \in unmapped

\* The viewers of a ZCode thread get each piece of text at most once, although
\* several polls are under way at once.
TextShownOnce == \A t \in Thread : told[t] <= seen[t] /\ seen[t] <= text[t]
=============================================================================

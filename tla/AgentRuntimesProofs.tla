------------------------ MODULE AgentRuntimesProofs ------------------------
(***************************************************************************)
(* Proofs about the runtimes of the agents that are not Codex, for every   *)
(* number of lives of the connector, prompts, permissions and sessions.    *)
(*                                                                         *)
(* A request that is open is one the runtime can still answer; a prompt    *)
(* under way is of the default agent or a task of a workflow.  A turn      *)
(* that is open belongs to the prompt that was sent to its session, and    *)
(* its end was not reported; a transcript on its way is no longer than the *)
(* text it was read from.                                                  *)
(*                                                                         *)
(* At the end: who may decide such a request, by the tables of             *)
(* WorkspaceAccess.                                                        *)
(***************************************************************************)
EXTENDS AgentRuntimes, WorkspaceAccess, SequenceTheorems, TLAPS

-----------------------------------------------------------------------------
(* Types *)

\* What the types do not say: prompts that are under way belong to an agent that
\* runs, and those that were sent to it name a session.
JobsAreFormed ==
    /\ kind = "cursor" /\ phase # "down" => spare \in Native
    /\ \A j \in Job :
        /\ job[j].at # "none" => job[j].thread \in Thread
        /\ job[j].at \in Active => phase = "up"
        /\ job[j].at \in Active /\ (kind = "zcode" \/ job[j].at # "opening") => job[j].native \in Native

TypeInv == TypeOK /\ JobsAreFormed

LEMMA InitTypes == Init => TypeInv
<1> SUFFICES ASSUME Init PROVE TypeInv
  OBVIOUS
<1>1. default \in BOOLEAN
  BY DEF Init
<1>2. JobsAreFormed
  BY AgentAssumption DEF Init, JobsAreFormed, NoJob, Active
<1> QED BY <1>1, <1>2, AgentAssumption
       DEF Init, TypeInv, TypeOK, NoJob, NoAsk, JobType, AskType, Active, Kind, Job, Ask, Native

\* The rows of the session store name a thread and a session.
LEMMA RowsAreFormed ==
    ASSUME store \in Seq(Row), NEW row \in Rows
    PROVE  row.thread \in Thread \cup {Inventory} /\ row.native \in Native
<1>1. PICK i \in 1..Len(store) : row = store[i]
  BY DEF Rows
<1>2. store[i] \in Row
  BY <1>1
<1> QED BY <1>1, <1>2 DEF Row

\* Binding a thread to a session adds at most a row for it.
LEMMA BindTypes ==
    ASSUME store \in Seq(Row), NEW t \in Thread \cup {Inventory}, NEW n \in Native, Bind(t, n)
    PROVE  store' \in Seq(Row)
<1>1. [thread |-> t, native |-> n] \in Row
  BY DEF Row
<1>2. Append(store, [thread |-> t, native |-> n]) \in Seq(Row)
  BY <1>1, AppendProperties
<1> QED BY <1>2 DEF Bind

LEMMA SettleType ==
    ASSUME ask \in [Ask -> AskType], NEW a \in Ask, NEW answer \in {"once", "rejected", "gone"}
    PROVE  Settle(a, answer) \in AskType
<1>1. ask[a] \in AskType
  OBVIOUS
<1> QED BY <1>1 DEF Settle, AskType

LEMMA AsksEndType ==
    ASSUME ask \in [Ask -> AskType], AsksEnd
    PROVE  ask' \in [Ask -> AskType]
  BY SettleType DEF AsksEnd

LEMMA JobsEndType ==
    ASSUME NEW jobs \in [Job -> JobType], JobsEnd(jobs),
           \A j \in Job : jobs[j].at # "none" => jobs[j].thread \in Thread
    PROVE  /\ job' \in [Job -> JobType]
           /\ \A j \in Job : /\ job'[j].at \in {"none", "over"}
                             /\ job'[j].at # "none" => job'[j].thread \in Thread
<1>1. ASSUME NEW j \in Job
      PROVE  /\ job'[j] \in JobType /\ job'[j].at \in {"none", "over"}
             /\ job'[j].at # "none" => job'[j].thread \in Thread
  <2>1. job'[j] = [jobs[j] EXCEPT !.at = IF @ = "none" THEN @ ELSE "over"]
    BY DEF JobsEnd
  <2>2. jobs[j] \in JobType
    OBVIOUS
  <2> QED BY <2>1, <2>2 DEF JobType
<1> QED BY <1>1 DEF JobsEnd

\* What the end of the process leaves: jobs has the type of job.
LEMMA ForgetTypes ==
    ASSUME TypeInv, NEW jobs \in [Job -> JobType], Forget(jobs),
           \A j \in Job : jobs[j].at # "none" => jobs[j].thread \in Thread
    PROVE  TypeInv'
<1>1. /\ job' \in [Job -> JobType]
      /\ \A j \in Job : job'[j].at \in {"none", "over"} /\ (job'[j].at # "none" => job'[j].thread \in Thread)
  BY JobsEndType DEF Forget
<1>2. ask' \in [Ask -> AskType]
  BY AsksEndType DEF Forget, TypeInv, TypeOK
<1>4. turn' \in [Native -> 0..MaxJobs] /\ bound' \in [Thread \cup {Inventory} -> Native \cup {None}]
  BY AgentAssumption DEF Forget, TypeInv, TypeOK
<1>5. /\ watched' \subseteq Thread /\ polls' \subseteq [thread : Thread, length : 0..MaxText]
      /\ text' \in [Thread -> 0..MaxText] /\ seen' \in [Thread -> Nat] /\ told' \in [Thread -> Nat]
  BY AgentAssumption DEF Forget, TypeInv, TypeOK
<1>6. TypeOK'
  BY <1>1, <1>2, <1>4, <1>5 DEF Forget, TypeInv, TypeOK
<1>7. JobsAreFormed'
  BY <1>1 DEF Forget, JobsAreFormed, Active
<1> QED BY <1>6, <1>7 DEF TypeInv

\* A command that ends the connector.
LEMMA CrashOfCommand ==
    ASSUME TypeInv, NEW j \in Job, NEW new \in JobType, new.thread \in Thread,
           Crash([job EXCEPT ![j] = new])
    PROVE  TypeInv'
<1> DEFINE jobs == [job EXCEPT ![j] = new]
<1>1. jobs \in [Job -> JobType]
  BY DEF TypeInv, TypeOK
<1>2. \A i \in Job : jobs[i].at # "none" => jobs[i].thread \in Thread
  BY DEF TypeInv, TypeOK, JobsAreFormed
<1>3. Forget(jobs)
  BY DEF Crash
<1> HIDE DEF jobs
<1> QED BY <1>1, <1>2, <1>3, ForgetTypes

\* The end of the process with the prompts as they are.
LEMMA EndTypes ==
    ASSUME TypeInv, Forget(job)
    PROVE  TypeInv'
  BY ForgetTypes DEF TypeInv, TypeOK, JobsAreFormed

LEMMA ChildExitsTypes ==
    ASSUME TypeInv, ChildExits
    PROVE  TypeInv'
<1>1. CASE \E j \in Job : Awaited(j)
  BY <1>1, EndTypes DEF ChildExits, Crash
<1>2. CASE ~\E j \in Job : Awaited(j)
  <2>1. /\ job' \in [Job -> JobType]
        /\ \A j \in Job : job'[j].at \in {"none", "over"} /\ (job'[j].at # "none" => job'[j].thread \in Thread)
    BY <1>2, JobsEndType DEF ChildExits, TypeInv, TypeOK, JobsAreFormed
  <2>2. ask' \in [Ask -> AskType]
    BY <1>2, AsksEndType DEF ChildExits, TypeInv, TypeOK
  <2>4. turn' \in [Native -> 0..MaxJobs] /\ bound' \in [Thread \cup {Inventory} -> Native \cup {None}]
    BY <1>2, AgentAssumption DEF ChildExits, TypeInv, TypeOK
  <2>5. TypeOK'
    BY <1>2, <2>1, <2>2, <2>4 DEF ChildExits, TypeInv, TypeOK
  <2>6. JobsAreFormed'
    BY <1>2, <2>1 DEF ChildExits, JobsAreFormed, Active, TypeInv
  <2> QED BY <2>5, <2>6 DEF TypeInv
<1> QED BY <1>1, <1>2

-----------------------------------------------------------------------------
LEMMA StartTypes ==
    ASSUME TypeInv, NEW k \in Kind, Start(k)
    PROVE  TypeInv'
<1> USE AgentAssumption
<1>1. \A j \in Job : job'[j].at \notin Active /\ (job'[j].at # "none" => job'[j].thread \in Thread)
  BY DEF Start, turnVars, TypeInv, JobsAreFormed
<1>2. kind' = k /\ default' \in BOOLEAN /\ phase' = "up" /\ starts' \in 0..MaxStarts
  BY DEF Start, TypeInv, TypeOK
<1>3. UNCHANGED <<job, turn, reported, unmapped, ask, watched, text, polls, seen, told>>
  BY DEF Start, turnVars, textVars
<1>4. /\ natives' \in 0..MaxNatives
      /\ store' \in Seq(Row)
      /\ bound' \in [Thread \cup {Inventory} -> Native \cup {None}]
      /\ spare' \in Native \cup {None}
      /\ k = "cursor" => spare' \in Native
  <2>1. CASE k = "acp"
    <3>1. AcpStart
      BY <2>1 DEF Start
    <3>2. PICK ok \in SUBSET DOMAIN bound : Resumed(ok)
      BY <3>1 DEF AcpStart
    <3>3. ASSUME NEW t \in Thread \cup {Inventory}
          PROVE  bound'[t] \in Native \cup {None}
      <4>1. CASE t \in ok /\ \E row \in Rows : row.thread = t
        <5>1. (CHOOSE row \in Rows : row.thread = t) \in Rows
          BY <4>1
        <5>2. bound'[t] = (CHOOSE row \in Rows : row.thread = t).native
          BY <3>2, <4>1 DEF Resumed, TypeInv, TypeOK
        <5> QED BY <5>1, <5>2, RowsAreFormed DEF TypeInv, TypeOK
      <4>2. CASE ~(t \in ok /\ \E row \in Rows : row.thread = t)
        BY <3>2, <4>2 DEF Resumed, TypeInv, TypeOK
      <4> QED BY <4>1, <4>2
    <3>4. bound' \in [Thread \cup {Inventory} -> Native \cup {None}]
      BY <3>2, <3>3 DEF Resumed, TypeInv, TypeOK
    <3> QED BY <2>1, <3>1, <3>4 DEF AcpStart, TypeInv, TypeOK
  <2>2. CASE k = "cursor"
    <3> DEFINE resume == IF store = <<>> THEN None ELSE store[Len(store)].native
    <3>1. InitEvent(resume) /\ UNCHANGED store
      BY <2>2 DEF Start, CursorStart
    <3>2. bound' = IF spare' = resume THEN [bound EXCEPT ![store[1].thread] = resume] ELSE bound
      BY <2>2 DEF Start, CursorStart
    <3>3. resume \in Native \cup {None}
      <4>1. CASE store # <<>>
        <5>1. store[Len(store)] \in Row
          BY <4>1, EmptySeq DEF TypeInv, TypeOK
        <5> QED BY <4>1, <5>1 DEF Row
      <4> QED BY <4>1
    <3> HIDE DEF resume
    <3>4. natives' \in 0..MaxNatives /\ spare' \in Native
      BY <3>1, <3>3 DEF InitEvent, TypeInv, TypeOK, Native
    <3>5. bound' \in [Thread \cup {Inventory} -> Native \cup {None}]
      BY <3>2, <3>3 DEF TypeInv, TypeOK
    <3> QED BY <3>1, <3>4, <3>5 DEF TypeInv, TypeOK
  <2>3. CASE k = "zcode"
    <3>1. Bind(Inventory, Inventory) /\ UNCHANGED <<bound, spare, natives>>
      BY <2>3 DEF Start, ZcodeStart, ListSessions
    <3> QED BY <2>3, <3>1, BindTypes DEF Native, TypeInv, TypeOK
  <2> QED BY <2>1, <2>2, <2>3 DEF Kind
<1>5. TypeOK'
  BY <1>2, <1>3, <1>4 DEF TypeInv, TypeOK
<1>6. JobsAreFormed'
  BY <1>1, <1>2, <1>4 DEF JobsAreFormed
<1> QED BY <1>5, <1>6 DEF TypeInv
-----------------------------------------------------------------------------
\* One prompt changes.
LEMMA JobChanges ==
    ASSUME TypeInv, NEW j \in Job, NEW new \in JobType, job' = [job EXCEPT ![j] = new],
           new.thread \in Thread,
           new.at \in Active => phase = "up",
           new.at \in Active /\ (kind = "zcode" \/ new.at # "opening") => new.native \in Native,
           UNCHANGED <<kind, phase, spare>>
    PROVE  job' \in [Job -> JobType] /\ JobsAreFormed'
<1>1. job' \in [Job -> JobType]
  BY DEF TypeInv, TypeOK
<1>2. \A i \in Job : job'[i] = IF i = j THEN new ELSE job[i]
  BY DEF TypeInv, TypeOK
<1>3. JobsAreFormed'
  BY <1>2 DEF JobsAreFormed, TypeInv
<1> QED BY <1>1, <1>3

\* Only the field at of a prompt changes, or its session too.
LEMMA JobMoves ==
    ASSUME TypeInv, NEW j \in Job, NEW at \in Active \cup {"over"}, job[j].at # "none",
           job' = [job EXCEPT ![j].at = at],
           at \in Active => phase = "up",
           at \in Active /\ (kind = "zcode" \/ at # "opening") => job[j].native \in Native,
           UNCHANGED <<kind, phase, spare>>
    PROVE  job' \in [Job -> JobType] /\ JobsAreFormed'
<1> DEFINE new == [job[j] EXCEPT !.at = at]
<1>1. job[j] \in JobType /\ job[j].thread \in Thread
  BY DEF TypeInv, TypeOK, JobsAreFormed
<1>2. new \in JobType /\ new.thread = job[j].thread /\ new.native = job[j].native /\ new.at = at
  BY <1>1 DEF JobType
<1>3. job' = [job EXCEPT ![j] = new]
  OBVIOUS
<1> HIDE DEF new
<1> QED BY <1>1, <1>2, <1>3, JobChanges

LEMMA ReportTypes ==
    ASSUME TypeInv, NEW n \in Native, Report(n)
    PROVE  turn' \in [Native -> 0..MaxJobs] /\ reported' \in [Job -> Nat]
<1>1. turn' \in [Native -> 0..MaxJobs]
  BY AgentAssumption DEF Report, TypeInv, TypeOK
<1>2. reported' \in [Job -> Nat]
  <2>1. CASE turn[n] = 0
    BY <2>1 DEF Report, TypeInv, TypeOK
  <2>2. CASE turn[n] # 0
    <3>1. turn[n] \in Job
      BY <2>2, AgentAssumption DEF TypeInv, TypeOK, Job
    <3> QED BY <2>2, <3>1 DEF Report, TypeInv, TypeOK
  <2> QED BY <2>1, <2>2
<1> QED BY <1>1, <1>2

LEMMA AskOverTypes ==
    ASSUME TypeInv, NEW j \in Job, AskOver(j)
    PROVE  ask' \in [Ask -> AskType]
<1>1. ASSUME NEW a \in Ask
      PROVE  ask'[a] \in AskType
  <2>1. ask[a] \in AskType
    BY DEF TypeInv, TypeOK
  <2>2. [ask[a] EXCEPT !.agent = "gone"] \in AskType
    BY <2>1 DEF AskType
  <2> QED BY <2>1, <2>2 DEF AskOver
<1> QED BY <1>1 DEF AskOver

\* The prompts of the three agents.
LEMMA PromptTypes ==
    ASSUME TypeInv, NEW j \in Job, NEW t \in Thread, Prompt(j, t)
    PROVE  TypeInv'
<1> USE AgentAssumption
<1>1. CASE NotRunning(j, t)
  <2> DEFINE new == [NoJob EXCEPT !.thread = t, !.from = "command", !.at = "opening"]
  <2>1. new \in JobType /\ new.thread \in Thread
    BY DEF NoJob, JobType, Active
  <2>2. Crash([job EXCEPT ![j] = new])
    BY <1>1 DEF NotRunning
  <2> HIDE DEF new
  <2> QED BY <2>1, <2>2, CrashOfCommand
<1>2. CASE AcpCommand(j, t)
  <2> DEFINE new == [thread |-> t, from |-> "command", native |-> bound[t],
                     at |-> IF bound[t] = None THEN "opening" ELSE "prompted"]
  <2>1. bound[t] \in Native \cup {None} /\ kind = "acp"
    BY <1>2 DEF AcpCommand, TypeInv, TypeOK
  <2>2. new \in JobType
    BY <2>1 DEF JobType, Active
  <2>3. job' \in [Job -> JobType] /\ JobsAreFormed'
    <3>1. new.at \in Active /\ (kind = "zcode" \/ new.at # "opening") => new.native \in Native
      BY <2>1
    <3>2. job' = [job EXCEPT ![j] = new] /\ phase = "up" /\ UNCHANGED <<kind, phase, spare>> /\ new.thread \in Thread
      BY <1>2 DEF AcpCommand, agentVars, sessionVars
    <3> HIDE DEF new
    <3> QED BY <2>2, <3>1, <3>2, JobChanges
  <2>4. turn' \in [Native -> 0..MaxJobs]
    BY <1>2 DEF AcpCommand, TypeInv, TypeOK, Job
  <2> QED BY <1>2, <2>3, <2>4 DEF AcpCommand, agentVars, sessionVars, textVars, TypeInv, TypeOK
<1>3. CASE AcpTask(j, t)
  <2> DEFINE new == [thread |-> t, from |-> "workflow", native |-> None, at |-> "opening"]
  <2>1. new \in JobType
    BY DEF JobType, Active
  <2>2. job' = [job EXCEPT ![j] = new] /\ kind = "acp" /\ phase = "up" /\ UNCHANGED <<kind, phase, spare>>
    BY <1>3 DEF AcpTask, agentVars, sessionVars
  <2>3. job' \in [Job -> JobType] /\ JobsAreFormed'
    BY <2>1, <2>2, JobChanges
  <2> QED BY <1>3, <2>3 DEF AcpTask, agentVars, sessionVars, textVars, TypeInv, TypeOK
<1>4. CASE CursorCommand(j, t)
  <2>1. spare \in Native
    BY <1>4 DEF CursorCommand, TypeInv, JobsAreFormed
  <2> DEFINE new == [thread |-> t, from |-> "command", native |-> spare, at |-> "prompted"]
  <2>2. new \in JobType
    BY <2>1 DEF JobType, Active
  <2>3. CASE job' = [job EXCEPT ![j] = new] /\ BindOrRequire(t) /\ turn' = [turn EXCEPT ![spare] = j]
             /\ UNCHANGED <<agentVars, spare, reported, unmapped, ask, textVars>>
    <3>1. job' \in [Job -> JobType] /\ JobsAreFormed'
      BY <1>4, <2>1, <2>2, <2>3, JobChanges DEF CursorCommand, agentVars
    <3>2. turn' \in [Native -> 0..MaxJobs]
      <4>1. turn' = [turn EXCEPT ![spare] = j] /\ j \in 0..MaxJobs
        BY <2>3 DEF Job
      <4> QED BY <4>1 DEF TypeInv, TypeOK
    <3>3. bound' \in [Thread \cup {Inventory} -> Native \cup {None}] /\ store' \in Seq(Row)
      BY <2>1, <2>3, BindTypes DEF BindOrRequire, TypeInv, TypeOK
    <3> QED BY <2>3, <3>1, <3>2, <3>3 DEF agentVars, textVars, TypeInv, TypeOK
  <2>4. CASE Crash([job EXCEPT ![j] = [thread |-> t, from |-> "command", native |-> spare, at |-> "opening"]])
    <3> DEFINE lost == [thread |-> t, from |-> "command", native |-> spare, at |-> "opening"]
    <3>1. lost \in JobType /\ lost.thread \in Thread
      BY <2>1 DEF JobType, Active
    <3>2. Crash([job EXCEPT ![j] = lost])
      BY <2>4
    <3> HIDE DEF lost
    <3> QED BY <3>1, <3>2, CrashOfCommand
  <2> QED BY <1>4, <2>3, <2>4 DEF CursorCommand
<1>5. CASE CursorTask(j, t)
  <2>1. spare \in Native
    BY <1>5 DEF CursorTask, TypeInv, JobsAreFormed
  <2> DEFINE new == [thread |-> t, from |-> "workflow", native |-> spare, at |-> "prompted"]
  <2>2. new \in JobType
    BY <2>1 DEF JobType, Active
  <2>3. job' \in [Job -> JobType] /\ JobsAreFormed'
    BY <1>5, <2>1, <2>2, JobChanges DEF CursorTask, agentVars
  <2>4. bound' \in [Thread \cup {Inventory} -> Native \cup {None}] /\ store' \in Seq(Row)
    BY <1>5, <2>1, BindTypes DEF CursorTask, BindOrRequire, TypeInv, TypeOK
  <2> QED BY <1>5, <2>3, <2>4 DEF CursorTask, agentVars, textVars, TypeInv, TypeOK
<1>6. CASE ZcodeCommand(j, t)
  <2> DEFINE new == [thread |-> t, from |-> "command", native |-> t,
                     at |-> IF bound[t] = None THEN "opening" ELSE "mode"]
  <2>1. new \in JobType /\ new.native \in Native /\ new.thread \in Thread
    BY DEF JobType, Active, Native
  <2>2. job' = [job EXCEPT ![j] = new] /\ phase = "up" /\ UNCHANGED <<kind, phase, spare>>
    BY <1>6 DEF ZcodeCommand, agentVars, sessionVars
  <2> HIDE DEF new
  <2>3. job' \in [Job -> JobType] /\ JobsAreFormed'
    BY <2>1, <2>2, JobChanges
  <2> QED BY <1>6, <2>3 DEF ZcodeCommand, agentVars, sessionVars, textVars, TypeInv, TypeOK
<1>7. CASE ZcodeTask(j, t)
  <2> DEFINE new == [thread |-> t, from |-> "workflow", native |-> t, at |-> "opening"]
  <2>1. new \in JobType /\ new.native \in Native /\ new.thread \in Thread
    BY DEF JobType, Active, Native
  <2>2. job' = [job EXCEPT ![j] = new] /\ phase = "up" /\ UNCHANGED <<kind, phase, spare>>
    BY <1>7 DEF ZcodeTask, agentVars, sessionVars
  <2> HIDE DEF new
  <2>3. job' \in [Job -> JobType] /\ JobsAreFormed'
    BY <2>1, <2>2, JobChanges
  <2> QED BY <1>7, <2>3 DEF ZcodeTask, agentVars, sessionVars, textVars, TypeInv, TypeOK
<1> QED BY <1>1, <1>2, <1>3, <1>4, <1>5, <1>6, <1>7 DEF Prompt

\* What is known of a prompt under way.
LEMMA UnderWay ==
    ASSUME TypeInv, NEW j \in Job, job[j].at \in Active
    PROVE  /\ phase = "up" /\ job[j].thread \in Thread /\ job[j].at # "none"
           /\ kind = "zcode" \/ job[j].at # "opening" => job[j].native \in Native
  BY DEF TypeInv, JobsAreFormed, Active

LEMMA ProgressTypes ==
    ASSUME TypeInv, NEW j \in Job, Progress(j)
    PROVE  TypeInv'
<1> USE AgentAssumption
<1>1. CASE RequestTimesOut(j)
  BY <1>1, EndTypes DEF RequestTimesOut, Crash
<1>2. CASE AcpOpened(j)
  <2>1. natives' \in 0..MaxNatives /\ natives' \in Native
    BY <1>2 DEF AcpOpened, TypeInv, TypeOK, Native
  <2>2. job[j].at = "opening" /\ job[j].thread \in Thread /\ phase = "up" /\ job[j] \in JobType
    BY <1>2, UnderWay DEF AcpOpened, TypeInv, TypeOK, JobsAreFormed, Active
  <2> DEFINE new == [job[j] EXCEPT !.at = "prompted", !.native = natives']
  <2>3. new \in JobType /\ new.native \in Native /\ new.thread \in Thread
    BY <2>1, <2>2 DEF JobType, Active
  <2>4. job' = [job EXCEPT ![j] = new] /\ UNCHANGED <<kind, phase, spare>>
    BY <1>2 DEF AcpOpened
  <2> HIDE DEF new
  <2>5. job' \in [Job -> JobType] /\ JobsAreFormed'
    BY <2>2, <2>3, <2>4, JobChanges
  <2>6. bound' \in [Thread \cup {Inventory} -> Native \cup {None}]
    BY <1>2, <2>1 DEF AcpOpened, TypeInv, TypeOK
  <2>7. store' \in Seq(Row)
    BY <1>2, <2>1, <2>2, BindTypes DEF AcpOpened, TypeInv, TypeOK
  <2>8. turn' \in [Native -> 0..MaxJobs]
    <3>1. turn' = [turn EXCEPT ![natives'] = j] /\ j \in 0..MaxJobs
      BY <1>2 DEF AcpOpened, Job
    <3> QED BY <2>1, <3>1 DEF TypeInv, TypeOK
  <2> QED BY <1>2, <2>1, <2>5, <2>6, <2>7, <2>8 DEF AcpOpened, textVars, TypeInv, TypeOK
<1>3. CASE AcpEnd(j)
  <2>1. job[j].native \in Native /\ job[j].at # "none"
    BY <1>3, UnderWay DEF AcpEnd, Active
  <2>2. turn' \in [Native -> 0..MaxJobs] /\ reported' \in [Job -> Nat]
    BY <1>3, <2>1, ReportTypes DEF AcpEnd, TurnEnd, TypeInv, TypeOK
  <2>3. ask' \in [Ask -> AskType]
    BY <1>3, AskOverTypes DEF AcpEnd
  <2>4. job' \in [Job -> JobType] /\ JobsAreFormed'
    BY <1>3, <2>1, JobMoves DEF AcpEnd, Active, agentVars, sessionVars
  <2> QED BY <1>3, <2>2, <2>3, <2>4 DEF AcpEnd, agentVars, sessionVars, textVars, TypeInv, TypeOK
<1>4. CASE CursorResult(j)
  <2>1. spare \in Native /\ job[j].at # "none"
    BY <1>4 DEF CursorResult, TypeInv, JobsAreFormed
  <2>2. turn' \in [Native -> 0..MaxJobs] /\ reported' \in [Job -> Nat]
    BY <1>4, <2>1, ReportTypes DEF CursorResult
  <2>3. ask' \in [Ask -> AskType]
    BY <1>4, AskOverTypes DEF CursorResult
  <2>4. job' \in [Job -> JobType] /\ JobsAreFormed'
    BY <1>4, <2>1, JobMoves DEF CursorResult, Active, agentVars, sessionVars
  <2> QED BY <1>4, <2>2, <2>3, <2>4 DEF CursorResult, agentVars, sessionVars, textVars, TypeInv, TypeOK
<1>5. CASE ZcodeOpened(j)
  <2>1. job[j].thread \in Thread /\ job[j].native \in Native /\ phase = "up" /\ job[j].at # "none"
    BY <1>5, UnderWay DEF ZcodeOpened, Active
  <2>2. job' \in [Job -> JobType] /\ JobsAreFormed'
    BY <1>5, <2>1, JobMoves DEF ZcodeOpened, Active, agentVars
  <2>3. /\ bound' \in [Thread \cup {Inventory} -> Native \cup {None}] /\ store' \in Seq(Row)
        /\ seen' \in [Thread -> Nat]
    BY <1>5, <2>1, BindTypes, SMTT(40) DEF ZcodeOpened, Resume, TypeInv, TypeOK, Native
  <2> QED BY <1>5, <2>2, <2>3 DEF ZcodeOpened, agentVars, TypeInv, TypeOK
<1>6. CASE ZcodeSend(j)
  <2>1. job[j].native \in Native /\ phase = "up" /\ job[j].at # "none"
    BY <1>6, UnderWay DEF ZcodeSend, Active
  <2>2. job' \in [Job -> JobType] /\ JobsAreFormed'
    BY <1>6, <2>1, JobMoves DEF ZcodeSend, Active, agentVars, sessionVars
  <2>3. turn' \in [Native -> 0..MaxJobs]
    <3>1. turn' = IF job[j].from = "command" THEN [turn EXCEPT ![job[j].native] = j] ELSE turn
      BY <1>6 DEF ZcodeSend
    <3>2. j \in 0..MaxJobs
      BY DEF Job
    <3> QED BY <2>1, <3>1, <3>2 DEF TypeInv, TypeOK
  <2> QED BY <1>6, <2>2, <2>3 DEF ZcodeSend, agentVars, sessionVars, textVars, TypeInv, TypeOK
<1>7. CASE ZcodeAccepted(j)
  <2>1. job[j].native \in Native /\ phase = "up" /\ job[j].at # "none"
    BY <1>7, UnderWay DEF ZcodeAccepted, Active
  <2>2. job' \in [Job -> JobType] /\ JobsAreFormed'
    BY <1>7, <2>1, JobMoves DEF ZcodeAccepted, Active, agentVars, sessionVars
  <2> QED BY <1>7, <2>2 DEF ZcodeAccepted, agentVars, sessionVars, textVars, TypeInv, TypeOK
<1>8. CASE ZcodeIdle(j)
  <2>1. job[j].native \in Native /\ job[j].at # "none"
    BY <1>8, UnderWay DEF ZcodeIdle, Active
  <2>2. turn' \in [Native -> 0..MaxJobs] /\ reported' \in [Job -> Nat]
    BY <1>8, <2>1, ReportTypes DEF ZcodeIdle
  <2>3. ask' \in [Ask -> AskType]
    BY <1>8, AskOverTypes DEF ZcodeIdle
  <2>4. job' \in [Job -> JobType] /\ JobsAreFormed'
    BY <1>8, <2>1, JobMoves DEF ZcodeIdle, Active, agentVars, sessionVars
  <2> QED BY <1>8, <2>2, <2>3, <2>4 DEF ZcodeIdle, agentVars, sessionVars, textVars, TypeInv, TypeOK
<1> QED BY <1>1, <1>2, <1>3, <1>4, <1>5, <1>6, <1>7, <1>8 DEF Progress

-----------------------------------------------------------------------------
\* One permission request changes.
LEMMA AskChanges ==
    ASSUME TypeInv, NEW a \in Ask, NEW new \in AskType, ask' = [ask EXCEPT ![a] = new],
           UNCHANGED <<agentVars, sessionVars, turnVars, textVars>>
    PROVE  TypeInv'
<1>1. ask' \in [Ask -> AskType]
  BY DEF TypeInv, TypeOK
<1>2. TypeOK'
  BY <1>1 DEF TypeInv, TypeOK, agentVars, sessionVars, turnVars, textVars
<1>3. JobsAreFormed'
  BY DEF TypeInv, JobsAreFormed, agentVars, sessionVars, turnVars
<1> QED BY <1>2, <1>3 DEF TypeInv

\* A request that the runtime refuses itself, and one that it sends on.
LEMMA NewAsks ==
    ASSUME TypeInv, NEW j \in Job
    PROVE  /\ [NoAsk EXCEPT !.job = j, !.agent = "rejected"] \in AskType
           /\ \A n \in Native, options \in SUBSET {"once", "always", "reject"} :
                 [job |-> j, turn |-> turn[n], options |-> options,
                  agent |-> "waiting", parked |-> TRUE, request |-> "open"] \in AskType
<1>1. j \in 0..MaxJobs /\ 0 \in 0..MaxJobs
  BY AgentAssumption DEF Job
<1>2. [NoAsk EXCEPT !.job = j, !.agent = "rejected"] \in AskType
  BY <1>1 DEF NoAsk, AskType
<1>3. \A n \in Native : turn[n] \in 0..MaxJobs
  BY DEF TypeInv, TypeOK
<1>4. \A n \in Native, options \in SUBSET {"once", "always", "reject"} :
         [job |-> j, turn |-> turn[n], options |-> options,
          agent |-> "waiting", parked |-> TRUE, request |-> "open"] \in AskType
  BY <1>1, <1>3 DEF AskType
<1> QED BY <1>2, <1>4

LEMMA AskTypes ==
    ASSUME TypeInv, NEW a \in Ask, NEW j \in Job, AcpAsk(a, j) \/ CursorAsk(a, j) \/ ZcodeAsk(a, j)
    PROVE  TypeInv'
<1>1. job[j].at \in Active /\ job[j].native \in Native
  BY DEF AcpAsk, CursorAsk, ZcodeAsk, Active, TypeInv, JobsAreFormed
<1>2. CASE AcpAsk(a, j)
  <2>1. PICK options \in Offered :
          ask' = [ask EXCEPT ![a] = IF Known(job[j].native)
                                    THEN [job |-> j, turn |-> turn[job[j].native], options |-> options,
                                          agent |-> "waiting", parked |-> TRUE, request |-> "open"]
                                    ELSE [NoAsk EXCEPT !.job = j, !.agent = "rejected"]]
    BY <1>2 DEF AcpAsk
  <2>2. options \in SUBSET {"once", "always", "reject"}
    BY DEF Offered
  <2> DEFINE new == IF Known(job[j].native)
                    THEN [job |-> j, turn |-> turn[job[j].native], options |-> options,
                          agent |-> "waiting", parked |-> TRUE, request |-> "open"]
                    ELSE [NoAsk EXCEPT !.job = j, !.agent = "rejected"]
  <2>3. new \in AskType
    BY <1>1, <2>2, NewAsks
  <2>4. ask' = [ask EXCEPT ![a] = new]
    BY <2>1
  <2> HIDE DEF new
  <2> QED BY <1>2, <2>3, <2>4, AskChanges DEF AcpAsk
<1>3. CASE CursorAsk(a, j)
  <2>1. spare \in Native /\ {"once", "reject"} \in SUBSET {"once", "always", "reject"}
    BY <1>3 DEF CursorAsk, TypeInv, JobsAreFormed
  <2>2. CASE ask' = [ask EXCEPT ![a] = [NoAsk EXCEPT !.job = j, !.agent = "rejected"]]
    BY <1>3, <2>2, NewAsks, AskChanges DEF CursorAsk
  <2>3. CASE CursorParks(a, j)
    <3> DEFINE new == [job |-> j, turn |-> turn[spare], options |-> {"once", "reject"},
                       agent |-> "waiting", parked |-> TRUE, request |-> "open"]
    <3>1. new \in AskType
      BY <2>1, NewAsks
    <3>2. ask' = [ask EXCEPT ![a] = new]
      BY <2>3 DEF CursorParks
    <3> HIDE DEF new
    <3> QED BY <1>3, <3>1, <3>2, AskChanges DEF CursorAsk
  <2> QED BY <1>3, <2>2, <2>3 DEF CursorAsk
<1>4. CASE ZcodeAsk(a, j)
  <2> DEFINE new == [job |-> j, turn |-> turn[job[j].native], options |-> {"once", "reject"},
                     agent |-> "waiting", parked |-> TRUE, request |-> "open"]
  <2>1. new \in AskType
    <3>1. {"once", "reject"} \in SUBSET {"once", "always", "reject"}
      OBVIOUS
    <3> QED BY <1>1, <3>1, NewAsks
  <2>2. ask' = [ask EXCEPT ![a] = new]
    BY <1>4 DEF ZcodeAsk
  <2> HIDE DEF new
  <2> QED BY <1>4, <2>1, <2>2, AskChanges DEF ZcodeAsk
<1> QED BY <1>2, <1>3, <1>4

LEMMA DecideTypes ==
    ASSUME TypeInv, NEW a \in Ask, NEW status \in {"approved", "denied", "expired"}, Decide(a, status)
    PROVE  TypeInv'
<1> DEFINE new == [ask[a] EXCEPT !.request = status]
<1>1. ask[a] \in AskType
  BY DEF TypeInv, TypeOK
<1>2. new \in AskType
  BY <1>1 DEF AskType
<1>3. ask' = [ask EXCEPT ![a] = new]
  BY DEF Decide
<1> HIDE DEF new
<1> QED BY <1>2, <1>3, AskChanges DEF Decide

LEMMA OptionTypes ==
    ASSUME TypeInv, NEW a \in Ask
    PROVE  /\ OptionFor(a) \in {"once", "rejected"}
           /\ OptionFor(a) = "once" => ask[a].request = "approved"
  BY DEF OptionFor, AcpOption, CursorBehavior, ZcodeDecision, TypeInv, TypeOK, Kind

LEMMA HandleDecisionTypes ==
    ASSUME TypeInv, NEW a \in Ask, HandleDecision(a)
    PROVE  TypeInv'
<1>1. Settle(a, OptionFor(a)) \in AskType
  <2>1. OptionFor(a) \in {"once", "rejected", "gone"}
    BY OptionTypes
  <2> HIDE DEF OptionFor
  <2> QED BY <2>1, SettleType DEF TypeInv, TypeOK
<1>2. ask' \in [Ask -> AskType]
  BY <1>1 DEF HandleDecision, TypeInv, TypeOK
<1>3. reported' \in [Job -> Nat] /\ unmapped' \subseteq Job
  <2>1. CASE UNCHANGED <<reported, unmapped>>
    BY <2>1 DEF TypeInv, TypeOK
  <2>2. CASE /\ ask[a].turn # 0
             /\ reported' = [reported EXCEPT ![ask[a].turn] = @ + 1]
             /\ unmapped' = unmapped \cup {ask[a].turn}
    <3>1. ask[a].turn \in Job
      <4>1. ask[a] \in AskType
        BY DEF TypeInv, TypeOK
      <4> QED BY <2>2, <4>1, AgentAssumption DEF AskType, Job
    <3> QED BY <2>2, <3>1 DEF TypeInv, TypeOK
  <2> QED BY <2>1, <2>2 DEF HandleDecision
<1>4. UNCHANGED <<agentVars, sessionVars, job, turn, textVars>>
  BY DEF HandleDecision
<1>5. TypeOK'
  BY <1>2, <1>3, <1>4 DEF TypeInv, TypeOK, agentVars, sessionVars, textVars
<1>6. JobsAreFormed'
  BY <1>4 DEF TypeInv, JobsAreFormed, agentVars, sessionVars
<1> QED BY <1>5, <1>6 DEF TypeInv

LEMMA StreamTypes ==
    ASSUME TypeInv, NEW t \in Thread,
           CursorSubscribe(t) \/ ZcodeSubscribe(t) \/ Unsubscribe(t) \/ Writes(t) \/ Poll(t)
    PROVE  TypeInv'
<1> USE AgentAssumption
<1>1. CASE CursorSubscribe(t)
  <2>1. CASE Crash(job)
    BY <2>1, EndTypes DEF Crash
  <2>2. CASE /\ BindOrRequire(t) /\ watched' = watched \cup {t}
             /\ UNCHANGED <<agentVars, spare, turnVars, ask, text, polls, seen, told>>
    <3>1. spare \in Native
      BY <1>1 DEF CursorSubscribe, TypeInv, JobsAreFormed
    <3>2. bound' \in [Thread \cup {Inventory} -> Native \cup {None}] /\ store' \in Seq(Row)
      BY <2>2, <3>1, BindTypes DEF BindOrRequire, TypeInv, TypeOK
    <3>3. JobsAreFormed'
      BY <2>2 DEF TypeInv, JobsAreFormed, agentVars, turnVars
    <3> QED BY <2>2, <3>2, <3>3 DEF TypeInv, TypeOK, agentVars, turnVars
  <2> QED BY <1>1, <2>1, <2>2 DEF CursorSubscribe
<1>2. CASE ZcodeSubscribe(t)
  <2>1. CASE Crash(job)
    BY <2>1, EndTypes DEF Crash
  <2>2. CASE /\ watched' = watched \cup {t}
             /\ UNCHANGED <<agentVars, sessionVars, turnVars, ask, text, polls, seen, told>>
    <3>1. JobsAreFormed'
      BY <2>2 DEF TypeInv, JobsAreFormed, agentVars, turnVars, sessionVars
    <3> QED BY <2>2, <3>1 DEF TypeInv, TypeOK, agentVars, turnVars, sessionVars
  <2>3. CASE /\ Resume(t) /\ watched' = watched \cup {t}
             /\ UNCHANGED <<agentVars, spare, turnVars, ask, text, polls, told>>
    <3>1. /\ bound' \in [Thread \cup {Inventory} -> Native \cup {None}] /\ store' \in Seq(Row)
          /\ seen' \in [Thread -> Nat]
      BY <2>3, BindTypes DEF Resume, TypeInv, TypeOK, Native
    <3>2. JobsAreFormed'
      BY <2>3 DEF TypeInv, JobsAreFormed, agentVars, turnVars
    <3> QED BY <2>3, <3>1, <3>2 DEF TypeInv, TypeOK, agentVars, turnVars
  <2> QED BY <1>2, <2>1, <2>2, <2>3 DEF ZcodeSubscribe
<1>3. CASE Unsubscribe(t)
  <2>1. JobsAreFormed'
    BY <1>3 DEF Unsubscribe, TypeInv, JobsAreFormed, agentVars, turnVars, sessionVars
  <2> QED BY <1>3, <2>1 DEF Unsubscribe, TypeInv, TypeOK, agentVars, turnVars, sessionVars
<1>4. CASE Writes(t)
  <2>1. JobsAreFormed'
    BY <1>4 DEF Writes, TypeInv, JobsAreFormed, agentVars, turnVars, sessionVars
  <2>2. text' \in [Thread -> 0..MaxText]
    BY <1>4, SMTT(40) DEF Writes, TypeInv, TypeOK
  <2> QED BY <1>4, <2>1, <2>2 DEF Writes, TypeInv, TypeOK, agentVars, turnVars, sessionVars
<1>5. CASE Poll(t)
  <2>1. JobsAreFormed'
    BY <1>5 DEF Poll, TypeInv, JobsAreFormed, agentVars, turnVars, sessionVars
  <2>2. polls' \subseteq [thread : Thread, length : 0..MaxText]
    BY <1>5 DEF Poll, TypeInv, TypeOK
  <2> QED BY <1>5, <2>1, <2>2 DEF Poll, TypeInv, TypeOK, agentVars, turnVars, sessionVars
<1> QED BY <1>1, <1>2, <1>3, <1>4, <1>5

LEMMA PollAnsweredTypes ==
    ASSUME TypeInv, NEW p \in polls, PollAnswered(p)
    PROVE  TypeInv'
<1>1. p.thread \in Thread /\ p.length \in Nat
  BY AgentAssumption DEF TypeInv, TypeOK
<1>2. seen' \in [Thread -> Nat] /\ told' \in [Thread -> Nat]
  <2>1. CASE p.length > seen[p.thread]
    <3>1. p.length - seen[p.thread] \in Nat
      BY <1>1, <2>1 DEF TypeInv, TypeOK
    <3>2. seen' = [seen EXCEPT ![p.thread] = p.length] /\ Tell(p.thread, p.length - seen[p.thread])
      BY <2>1 DEF PollAnswered, Ingest
    <3>3. told' \in [Thread -> Nat]
      BY <1>1, <3>1, <3>2 DEF Tell, TypeInv, TypeOK
    <3> QED BY <1>1, <3>2, <3>3 DEF TypeInv, TypeOK
  <2>2. CASE ~(p.length > seen[p.thread])
    BY <2>2 DEF PollAnswered, Ingest, TypeInv, TypeOK
  <2> QED BY <2>1, <2>2
<1>3. JobsAreFormed'
  BY DEF PollAnswered, TypeInv, JobsAreFormed, agentVars, turnVars, sessionVars
<1> QED BY <1>2, <1>3 DEF PollAnswered, TypeInv, TypeOK, agentVars, turnVars, sessionVars

LEMMA StepTypes ==
    ASSUME TypeInv, [Next]_vars
    PROVE  TypeInv'
<1>1. CASE UNCHANGED vars
  BY <1>1 DEF vars, agentVars, sessionVars, turnVars, textVars, TypeInv, TypeOK, JobsAreFormed
<1>2. CASE \E k \in Kind : Start(k)
  BY <1>2, StartTypes
<1>3. CASE Stop \/ ChildExits
  BY <1>3, EndTypes, ChildExitsTypes DEF Stop
<1>4. CASE \E j \in Job : Progress(j) \/ (\E t \in Thread : Prompt(j, t))
  BY <1>4, ProgressTypes, PromptTypes
<1>5. CASE \E a \in Ask : HandleDecision(a)
                          \/ (\E status \in {"approved", "denied", "expired"} : Decide(a, status))
                          \/ (\E j \in Job : AcpAsk(a, j) \/ CursorAsk(a, j) \/ ZcodeAsk(a, j))
  BY <1>5, HandleDecisionTypes, DecideTypes, AskTypes
<1>6. CASE \E t \in Viewed : CursorSubscribe(t) \/ ZcodeSubscribe(t) \/ Unsubscribe(t)
                               \/ Writes(t) \/ Poll(t)
  BY <1>6, StreamTypes, AgentAssumption
<1>7. CASE \E p \in polls : PollAnswered(p)
  BY <1>7, PollAnsweredTypes
<1> QED BY <1>1, <1>2, <1>3, <1>4, <1>5, <1>6, <1>7 DEF Next

\* The variables of the runtimes keep their types: in particular the session that
\* a command, a turn or a row of the session file names is one of the agents'.
THEOREM AgentTypes == Spec => []TypeOK
<1>1. Spec => []TypeInv
  BY InitTypes, StepTypes, PTL DEF Spec
<1> QED BY <1>1, PTL DEF TypeInv

-----------------------------------------------------------------------------
(* Permissions *)

\* What a step does to the permission requests.
LEMMA AskSteps ==
    ASSUME TypeInv, [Next]_vars
    PROVE  \/ UNCHANGED <<ask, phase>>
           \/ UNCHANGED ask /\ phase = "down"
           \/ AsksEnd /\ phase' # "up"
           \/ \E j \in Job : AskOver(j) /\ UNCHANGED phase
           \/ \E a \in Ask, j \in Job : AcpAsk(a, j) \/ CursorAsk(a, j) \/ ZcodeAsk(a, j)
           \/ \E a \in Ask, status \in {"approved", "denied", "expired"} : Decide(a, status)
           \/ \E a \in Ask : HandleDecision(a)
<1>1. CASE UNCHANGED vars
  BY <1>1 DEF vars, agentVars
<1>2. CASE \E k \in Kind : Start(k)
  BY <1>2 DEF Start
<1>3. CASE Stop \/ ChildExits
  BY <1>3 DEF Stop, ChildExits, Crash, Forget
<1>4. CASE \E j \in Job : Progress(j)
  BY <1>4 DEF Progress, RequestTimesOut, Crash, Forget, AcpOpened, AcpEnd, CursorResult, ZcodeOpened,
     ZcodeSend, ZcodeAccepted, ZcodeIdle, agentVars
<1>5. CASE \E j \in Job, t \in Thread : Prompt(j, t)
  BY <1>5 DEF Prompt, NotRunning, Crash, Forget, AcpCommand, AcpTask, CursorCommand, CursorTask,
     ZcodeCommand, ZcodeTask, agentVars
<1>6. CASE \E t \in Viewed : CursorSubscribe(t) \/ ZcodeSubscribe(t) \/ Unsubscribe(t)
                               \/ Writes(t) \/ Poll(t)
  BY <1>6 DEF CursorSubscribe, ZcodeSubscribe, Unsubscribe, Writes, Poll, Crash, Forget, agentVars
<1>7. CASE \E p \in polls : PollAnswered(p)
  BY <1>7 DEF PollAnswered, agentVars
<1> QED BY <1>1, <1>2, <1>3, <1>4, <1>5, <1>6, <1>7 DEF Next

WaitingIsParked ==
    \A a \in Ask : ask[a].agent = "waiting" => phase = "up" /\ ask[a].parked /\ ask[a].request # "none"

GrantInv == GrantWasApproved /\ WaitingIsParked

LEMMA SettleFields ==
    ASSUME ask \in [Ask -> AskType], NEW a \in Ask, NEW answer
    PROVE  /\ Settle(a, answer).agent = (IF ask[a].agent = "waiting" THEN answer ELSE ask[a].agent)
           /\ Settle(a, answer).parked = FALSE /\ Settle(a, answer).request = ask[a].request
           /\ Settle(a, answer).turn = ask[a].turn
<1>1. ask[a] \in AskType
  OBVIOUS
<1> QED BY <1>1 DEF Settle, AskType

\* A request that the runtime sends on is open, and the runtime knows whom to answer.
LEMMA NewAskIsParked ==
    ASSUME TypeInv, NEW a \in Ask, NEW j \in Job, AcpAsk(a, j) \/ CursorAsk(a, j) \/ ZcodeAsk(a, j)
    PROVE  /\ phase' = phase /\ phase = "up"
           /\ \A b \in Ask \ {a} : ask'[b] = ask[b]
           /\ \/ ask'[a].agent = "waiting" /\ ask'[a].parked /\ ask'[a].request = "open"
              \/ ask'[a].agent = "rejected"
           /\ ask'[a].turn # 0 => \E n \in Native : ask'[a].turn = turn[n]
<1>1. job[j].native \in Native
  BY DEF AcpAsk, CursorAsk, ZcodeAsk, Active, TypeInv, JobsAreFormed
<1>2. ask \in [Ask -> AskType]
  BY DEF TypeInv, TypeOK
<1>3. CASE AcpAsk(a, j)
  BY <1>1, <1>2, <1>3 DEF AcpAsk, NoAsk, agentVars
<1>4. CASE CursorAsk(a, j)
  <2>1. spare \in Native
    BY <1>4 DEF CursorAsk, TypeInv, JobsAreFormed
  <2>2. CASE CursorParks(a, j)
    BY <1>2, <1>4, <2>1, <2>2 DEF CursorAsk, CursorParks, agentVars
  <2>3. CASE ask' = [ask EXCEPT ![a] = [NoAsk EXCEPT !.job = j, !.agent = "rejected"]]
    BY <1>2, <1>4, <2>3 DEF CursorAsk, NoAsk, agentVars
  <2> QED BY <1>4, <2>2, <2>3 DEF CursorAsk
<1>5. CASE ZcodeAsk(a, j)
  BY <1>1, <1>2, <1>5 DEF ZcodeAsk, agentVars
<1> QED BY <1>3, <1>4, <1>5

LEMMA StepGrants ==
    ASSUME TypeInv, GrantInv, [Next]_vars
    PROVE  GrantInv'
<1>1. ask \in [Ask -> AskType]
  BY DEF TypeInv, TypeOK
<1>2. CASE UNCHANGED <<ask, phase>>
  BY <1>2 DEF GrantInv, GrantWasApproved, WaitingIsParked
<1>3. CASE UNCHANGED ask /\ phase = "down"
  BY <1>3 DEF GrantInv, GrantWasApproved, WaitingIsParked
<1>4. CASE AsksEnd /\ phase' # "up"
  <2>1. \A a \in Ask : /\ ask'[a].agent = IF ask[a].agent = "waiting" THEN "gone" ELSE ask[a].agent
                       /\ ask'[a].request = ask[a].request
    BY <1>1, <1>4, SettleFields DEF AsksEnd
  <2> QED BY <2>1 DEF GrantInv, GrantWasApproved, WaitingIsParked
<1>5. ASSUME NEW j \in Job, AskOver(j), UNCHANGED phase
      PROVE  GrantInv'
  <2>1. \A a \in Ask : /\ ask'[a].agent = "gone" \/ ask'[a].agent = ask[a].agent
                       /\ ask'[a].request = ask[a].request /\ ask'[a].parked = ask[a].parked
    <3>1. \A a \in Ask : ask[a] \in AskType
      BY <1>1
    <3> QED BY <1>5, <3>1 DEF AskOver, AskType
  <2> QED BY <1>5, <2>1 DEF GrantInv, GrantWasApproved, WaitingIsParked
<1>6. ASSUME NEW a \in Ask, NEW j \in Job, AcpAsk(a, j) \/ CursorAsk(a, j) \/ ZcodeAsk(a, j)
      PROVE  GrantInv'
  <2>1. /\ phase' = phase /\ phase = "up"
        /\ \A b \in Ask \ {a} : ask'[b] = ask[b]
        /\ \/ ask'[a].agent = "waiting" /\ ask'[a].parked /\ ask'[a].request = "open"
           \/ ask'[a].agent = "rejected"
    BY <1>6, NewAskIsParked
  <2> QED BY <2>1 DEF GrantInv, GrantWasApproved, WaitingIsParked
<1>7. ASSUME NEW a \in Ask, NEW status \in {"approved", "denied", "expired"}, Decide(a, status)
      PROVE  GrantInv'
  <2>1. /\ ask[a].request = "open" /\ ask'[a].request = status
        /\ ask'[a].agent = ask[a].agent /\ ask'[a].parked = ask[a].parked
    <3>1. ask[a] \in AskType
      BY <1>1
    <3> QED BY <1>1, <1>7, <3>1 DEF Decide, AskType
  <2>2. \A b \in Ask \ {a} : ask'[b] = ask[b]
    BY <1>1, <1>7 DEF Decide
  <2>3. UNCHANGED phase
    BY <1>7 DEF Decide, agentVars
  <2> QED BY <2>1, <2>2, <2>3 DEF GrantInv, GrantWasApproved, WaitingIsParked
<1>8. ASSUME NEW a \in Ask, HandleDecision(a)
      PROVE  GrantInv'
  <2>1. OptionFor(a) \in {"once", "rejected"} /\ (OptionFor(a) = "once" => ask[a].request = "approved")
    BY OptionTypes
  <2>2. ask' = [ask EXCEPT ![a] = Settle(a, OptionFor(a))] /\ UNCHANGED phase
    BY <1>8 DEF HandleDecision, agentVars
  <2> HIDE DEF OptionFor
  <2>3. /\ ask'[a].agent = IF ask[a].agent = "waiting" THEN OptionFor(a) ELSE ask[a].agent
        /\ ask'[a].request = ask[a].request
    BY <1>1, <2>2, SettleFields
  <2>4. \A b \in Ask \ {a} : ask'[b] = ask[b]
    BY <1>1, <2>2
  <2> QED BY <2>1, <2>2, <2>3, <2>4 DEF GrantInv, GrantWasApproved, WaitingIsParked
<1> QED BY <1>2, <1>3, <1>4, <1>5, <1>6, <1>7, <1>8, AskSteps

-----------------------------------------------------------------------------
(* Where the prompts come from *)

\* A prompt under way, and one whose agent waits, is of the default agent or a task.
OriginInv ==
    /\ \A j \in Job : job[j].at \in Active => default \/ job[j].from = "workflow"
    /\ \A a \in Ask : ask[a].agent = "waiting" =>
        /\ ask[a].job \in Job /\ job[ask[a].job].at # "none"
        /\ default \/ job[ask[a].job].from = "workflow"

\* New prompts of an agent that is not the default one are tasks; the others keep
\* their origin, and those that are over stay so.
Originates(j) ==
    /\ job[j].at # "none" =>
        /\ job'[j].at # "none" /\ job'[j].from = job[j].from
        /\ job'[j].at \in Active => job[j].at \in Active
    /\ job[j].at = "none" /\ job'[j].at # "none" => default \/ job'[j].from = "workflow"

LEMMA SameOrigin == ASSUME UNCHANGED job PROVE \A j \in Job : Originates(j)
  BY DEF Originates

LEMMA EndOrigin ==
    ASSUME NEW jobs \in [Job -> JobType], JobsEnd(jobs),
           \A j \in Job : job[j].at # "none" => jobs[j].at # "none" /\ jobs[j].from = job[j].from,
           \A j \in Job : job[j].at = "none" /\ jobs[j].at # "none" => default \/ jobs[j].from = "workflow"
    PROVE  \A j \in Job : Originates(j)
<1>1. ASSUME NEW j \in Job
      PROVE  Originates(j)
  <2>1. job'[j] = [jobs[j] EXCEPT !.at = IF @ = "none" THEN @ ELSE "over"] /\ jobs[j] \in JobType
    BY DEF JobsEnd
  <2>2. job'[j].from = jobs[j].from /\ job'[j].at = IF jobs[j].at = "none" THEN "none" ELSE "over"
    BY <2>1 DEF JobType
  <2>3. job'[j].at \notin Active /\ (job'[j].at # "none" <=> jobs[j].at # "none")
    BY <2>2 DEF Active
  <2>4. job[j].at = "none" /\ job'[j].at # "none" => default \/ job'[j].from = "workflow"
    <3>1. ASSUME job[j].at = "none", job'[j].at # "none"
          PROVE  default \/ jobs[j].from = "workflow"
      BY <2>3, <3>1
    <3> QED BY <2>2, <3>1, Zenon
  <2>5. job[j].at # "none" => job'[j].at # "none" /\ job'[j].from = job[j].from
    BY <2>2, <2>3
  <2> QED BY <2>3, <2>4, <2>5, Zenon DEF Originates
<1> QED BY <1>1

LEMMA MovedOrigin ==
    ASSUME TypeInv, NEW j \in Job, NEW new, job' = [job EXCEPT ![j] = new],
           \/ job[j].at = "none" /\ (default \/ new.from = "workflow")
           \/ job[j].at \in Active /\ new.at # "none" /\ new.from = job[j].from
    PROVE  \A i \in Job : Originates(i)
<1>1. job'[j] = new /\ \A i \in Job \ {j} : job'[i] = job[i]
  BY DEF TypeInv, TypeOK
<1> QED BY <1>1 DEF Originates, Active

\* Only the field at changes.
LEMMA SteppedOrigin ==
    ASSUME TypeInv, NEW j \in Job, NEW at, at # "none", job[j].at \in Active,
           job' = [job EXCEPT ![j].at = at]
    PROVE  \A i \in Job : Originates(i)
<1> DEFINE new == [job[j] EXCEPT !.at = at]
<1>1. new.from = job[j].from /\ new.at = at
  BY DEF TypeInv, TypeOK, JobType
<1>2. job' = [job EXCEPT ![j] = new]
  OBVIOUS
<1> HIDE DEF new
<1> QED BY <1>1, <1>2, MovedOrigin

LEMMA PromptOrigins ==
    ASSUME TypeInv, NEW j \in Job, NEW t \in Thread, Prompt(j, t)
    PROVE  \A i \in Job : Originates(i)
<1>1. job[j].at = "none" /\ job \in [Job -> JobType] /\ bound[t] \in Native \cup {None} /\ spare \in Native \cup {None}
  BY DEF Prompt, NotRunning, AcpCommand, AcpTask, CursorCommand, CursorTask, ZcodeCommand, ZcodeTask,
     Unused, TypeInv, TypeOK
<1>2. ASSUME NEW new \in JobType, new.at # "none", Crash([job EXCEPT ![j] = new]), default
      PROVE  \A i \in Job : Originates(i)
  <2> DEFINE jobs == [job EXCEPT ![j] = new]
  <2>1. jobs \in [Job -> JobType] /\ JobsEnd(jobs)
    BY <1>1, <1>2 DEF Crash, Forget
  <2>2. \A i \in Job : i # j => jobs[i] = job[i]
    BY <1>1
  <2> HIDE DEF jobs
  <2> QED BY <1>1, <1>2, <2>1, <2>2, EndOrigin
<1>3. CASE NotRunning(j, t)
  <2> DEFINE new == [NoJob EXCEPT !.thread = t, !.from = "command", !.at = "opening"]
  <2>1. new \in JobType /\ new.at # "none"
    BY DEF NoJob, JobType, Active
  <2>2. Crash([job EXCEPT ![j] = new]) /\ default
    BY <1>3 DEF NotRunning
  <2> HIDE DEF new
  <2> QED BY <1>2, <2>1, <2>2
<1>4. CASE AcpCommand(j, t)
  BY <1>1, <1>4, MovedOrigin DEF AcpCommand
<1>5. CASE AcpTask(j, t)
  BY <1>1, <1>5, MovedOrigin DEF AcpTask
<1>6. CASE CursorCommand(j, t)
  <2> DEFINE lost == [thread |-> t, from |-> "command", native |-> spare, at |-> "opening"]
  <2>1. lost \in JobType /\ lost.at # "none"
    BY <1>1 DEF JobType, Active
  <2>2. CASE Crash([job EXCEPT ![j] = lost])
    <3> HIDE DEF lost
    <3> QED BY <1>2, <1>6, <2>1, <2>2 DEF CursorCommand
  <2>3. CASE job' = [job EXCEPT ![j] = [thread |-> t, from |-> "command", native |-> spare, at |-> "prompted"]]
    BY <1>1, <1>6, <2>3, MovedOrigin DEF CursorCommand
  <2> QED BY <1>6, <2>2, <2>3 DEF CursorCommand
<1>7. CASE CursorTask(j, t)
  BY <1>1, <1>7, MovedOrigin DEF CursorTask
<1>8. CASE ZcodeCommand(j, t)
  BY <1>1, <1>8, MovedOrigin DEF ZcodeCommand
<1>9. CASE ZcodeTask(j, t)
  BY <1>1, <1>9, MovedOrigin DEF ZcodeTask
<1> QED BY <1>3, <1>4, <1>5, <1>6, <1>7, <1>8, <1>9 DEF Prompt

\* The end of the process with the prompts as they are.
LEMMA ForgetOrigins == ASSUME TypeInv, JobsEnd(job) PROVE \A i \in Job : Originates(i)
  BY EndOrigin DEF TypeInv, TypeOK

LEMMA ProgressOrigins ==
    ASSUME TypeInv, NEW j \in Job, Progress(j)
    PROVE  \A i \in Job : Originates(i)
<1>1. CASE RequestTimesOut(j)
  BY <1>1, ForgetOrigins DEF RequestTimesOut, Crash, Forget
<1>2. CASE AcpOpened(j)
  <2> DEFINE new == [job[j] EXCEPT !.at = "prompted", !.native = natives']
  <2>1. job' = [job EXCEPT ![j] = new] /\ job[j].at \in Active
    BY <1>2 DEF AcpOpened, Active
  <2>2. new.from = job[j].from /\ new.at = "prompted"
    BY DEF TypeInv, TypeOK, JobType
  <2> HIDE DEF new
  <2> QED BY <2>1, <2>2, MovedOrigin
<1>3. CASE \/ AcpEnd(j) \/ CursorResult(j) \/ ZcodeIdle(j)
  <2>1. job[j].at \in Active /\ job' = [job EXCEPT ![j].at = "over"]
    BY <1>3 DEF AcpEnd, CursorResult, ZcodeIdle, Active
  <2> QED BY <2>1, SteppedOrigin
<1>4. CASE ZcodeOpened(j)
  BY <1>4, SteppedOrigin DEF ZcodeOpened, Active
<1>5. CASE ZcodeSend(j)
  BY <1>5, SteppedOrigin DEF ZcodeSend, Active
<1>6. CASE ZcodeAccepted(j)
  BY <1>6, SteppedOrigin DEF ZcodeAccepted, Active
<1> QED BY <1>1, <1>2, <1>3, <1>4, <1>5, <1>6 DEF Progress

\* Which agent is the default one changes only when the connector starts or ends.
LEMMA OriginSteps ==
    ASSUME TypeInv, [Next]_vars
    PROVE  /\ \A j \in Job : Originates(j)
           /\ UNCHANGED default \/ phase' = "down" \/ (phase = "down" /\ UNCHANGED job)
<1>1. CASE UNCHANGED vars
  BY <1>1, SameOrigin DEF vars, agentVars, turnVars
<1>2. CASE \E k \in Kind : Start(k)
  BY <1>2, SameOrigin DEF Start, turnVars
<1>3. CASE Stop \/ ChildExits
  BY <1>3, ForgetOrigins DEF Stop, ChildExits, Crash, Forget
<1>4. ASSUME NEW j \in Job, Progress(j) \/ (\E t \in Thread : Prompt(j, t))
      PROVE  UNCHANGED default \/ phase' = "down"
  BY <1>4 DEF Progress, Prompt, RequestTimesOut, NotRunning, Crash, Forget, AcpOpened, AcpEnd, CursorResult,
     ZcodeOpened, ZcodeSend, ZcodeAccepted, ZcodeIdle, AcpCommand, AcpTask, CursorCommand, CursorTask,
     ZcodeCommand, ZcodeTask, agentVars
<1>5. CASE \E j \in Job : Progress(j) \/ (\E t \in Thread : Prompt(j, t))
  BY <1>4, <1>5, ProgressOrigins, PromptOrigins
<1>6. CASE \E a \in Ask : HandleDecision(a)
                          \/ (\E status \in {"approved", "denied", "expired"} : Decide(a, status))
                          \/ (\E j \in Job : AcpAsk(a, j) \/ CursorAsk(a, j) \/ ZcodeAsk(a, j))
  BY <1>6, SameOrigin DEF HandleDecision, Decide, AcpAsk, CursorAsk, ZcodeAsk, agentVars, turnVars
<1>7. ASSUME NEW t \in Viewed, CursorSubscribe(t) \/ ZcodeSubscribe(t) \/ Unsubscribe(t) \/ Writes(t) \/ Poll(t)
      PROVE  /\ \A j \in Job : Originates(j)
             /\ UNCHANGED default \/ phase' = "down"
  <2>1. CASE Crash(job)
    BY <2>1, ForgetOrigins DEF Crash, Forget
  <2>2. CASE UNCHANGED <<job, default>>
    BY <2>2, SameOrigin
  <2> QED BY <1>7, <2>1, <2>2 DEF CursorSubscribe, ZcodeSubscribe, Unsubscribe, Writes, Poll, agentVars, turnVars
<1>8. CASE \E p \in polls : PollAnswered(p)
  BY <1>8, SameOrigin DEF PollAnswered, agentVars, turnVars
<1> QED BY <1>1, <1>2, <1>3, <1>5, <1>6, <1>7, <1>8 DEF Next

\* An agent that waits did so before, or asks now for a prompt under way.
LEMMA WaitingSteps ==
    ASSUME TypeInv, [Next]_vars, NEW a \in Ask, ask'[a].agent = "waiting"
    PROVE  \/ ask[a].agent = "waiting" /\ ask'[a].job = ask[a].job
           \/ ask'[a].job \in Job /\ job[ask'[a].job].at \in Active /\ UNCHANGED <<job, default>>
<1>1. ask \in [Ask -> AskType] /\ ask[a] \in AskType
  BY DEF TypeInv, TypeOK
<1>2. CASE UNCHANGED ask
  BY <1>2
<1>3. AsksEnd => ask'[a].agent # "waiting"
  <2>1. AsksEnd => ask'[a] = Settle(a, "gone")
    BY DEF AsksEnd
  <2>2. Settle(a, "gone").agent # "waiting"
    BY <1>1, SettleFields
  <2> QED BY <2>1, <2>2
<1>4. ASSUME NEW j \in Job, AskOver(j)
      PROVE  ask[a].agent = "waiting" /\ ask'[a].job = ask[a].job
  BY <1>1, <1>4 DEF AskOver, AskType
<1>5. ASSUME NEW b \in Ask, NEW j \in Job, AcpAsk(b, j) \/ CursorAsk(b, j) \/ ZcodeAsk(b, j), a = b
      PROVE  ask'[a].job = j /\ job[j].at \in Active /\ UNCHANGED <<job, default>>
  <2>1. job[j].at \in Active /\ UNCHANGED <<job, default>>
    BY <1>5 DEF AcpAsk, CursorAsk, ZcodeAsk, Active, agentVars, turnVars
  <2>2. ask'[a].job = j
    <3>1. CASE AcpAsk(a, j)
      BY <1>1, <3>1 DEF AcpAsk, NoAsk
    <3>2. CASE CursorAsk(a, j)
      <4>1. CASE CursorParks(a, j)
        BY <1>1, <4>1 DEF CursorParks
      <4>2. CASE ask' = [ask EXCEPT ![a] = [NoAsk EXCEPT !.job = j, !.agent = "rejected"]]
        BY <1>1, <4>2 DEF NoAsk
      <4> QED BY <3>2, <4>1, <4>2 DEF CursorAsk
    <3>3. CASE ZcodeAsk(a, j)
      BY <1>1, <3>3 DEF ZcodeAsk
    <3> QED BY <1>5, <3>1, <3>2, <3>3
  <2> QED BY <2>1, <2>2
<1>6. ASSUME NEW b \in Ask, NEW j \in Job, AcpAsk(b, j) \/ CursorAsk(b, j) \/ ZcodeAsk(b, j), a # b
      PROVE  ask'[a] = ask[a]
  BY <1>6, NewAskIsParked
<1>7. ASSUME NEW b \in Ask, NEW status, Decide(b, status)
      PROVE  ask'[a].agent = ask[a].agent /\ ask'[a].job = ask[a].job
  BY <1>1, <1>7 DEF Decide, AskType
<1>8. ASSUME NEW b \in Ask, HandleDecision(b)
      PROVE  ask[a].agent = "waiting" /\ ask'[a].job = ask[a].job
  <2>1. ask' = [ask EXCEPT ![b] = Settle(b, OptionFor(b))] /\ OptionFor(b) # "waiting"
    BY <1>8, OptionTypes DEF HandleDecision
  <2> HIDE DEF OptionFor
  <2>2. CASE a = b
    <3>1. ask'[a] = Settle(a, OptionFor(a))
      BY <1>1, <2>1, <2>2
    <3> QED BY <1>1, <2>1, <2>2, <3>1, SettleFields
  <2>3. CASE a # b
    BY <1>1, <2>1, <2>3
  <2> QED BY <2>2, <2>3
<1> QED BY <1>2, <1>3, <1>4, <1>5, <1>6, <1>7, <1>8, AskSteps

LEMMA StepOrigins ==
    ASSUME TypeInv, GrantInv, OriginInv, [Next]_vars
    PROVE  OriginInv'
<1>1. TypeInv' /\ GrantInv'
  BY StepTypes, StepGrants
<1>2. /\ \A j \in Job : Originates(j)
      /\ UNCHANGED default \/ phase' = "down" \/ (phase = "down" /\ UNCHANGED job)
  BY OriginSteps
<1>3. ASSUME NEW j \in Job, job'[j].at \in Active
      PROVE  default' \/ job'[j].from = "workflow"
  <2>1. phase' = "up"
    BY <1>1, <1>3 DEF TypeInv, JobsAreFormed
  <2>2. CASE phase = "down" /\ UNCHANGED job
    BY <1>3, <2>2 DEF TypeInv, JobsAreFormed
  <2>3. CASE UNCHANGED default
    BY <1>2, <1>3, <2>3 DEF Originates, OriginInv, Active
  <2> QED BY <1>2, <2>1, <2>2, <2>3
<1>4. ASSUME NEW a \in Ask, ask'[a].agent = "waiting"
      PROVE  /\ ask'[a].job \in Job /\ job'[ask'[a].job].at # "none"
             /\ default' \/ job'[ask'[a].job].from = "workflow"
  <2>1. CASE ask[a].agent = "waiting" /\ ask'[a].job = ask[a].job
    <3>1. phase = "up" /\ phase' = "up"
      BY <1>1, <1>4, <2>1 DEF GrantInv, WaitingIsParked
    <3>2. UNCHANGED default
      BY <1>2, <3>1
    <3> QED BY <1>2, <2>1, <3>2 DEF OriginInv, Originates
  <2>2. CASE ask'[a].job \in Job /\ job[ask'[a].job].at \in Active /\ UNCHANGED <<job, default>>
    BY <2>2 DEF OriginInv, Active
  <2> QED BY <1>4, <2>1, <2>2, WaitingSteps
<1> QED BY <1>3, <1>4 DEF OriginInv

LEMMA AlwaysGrants == Spec => [](GrantInv /\ OriginInv)
<1>1. Init => GrantInv /\ OriginInv
  BY DEF Init, GrantInv, GrantWasApproved, WaitingIsParked, OriginInv, NoAsk, NoJob, Active
<1>2. Spec => []TypeInv
  BY InitTypes, StepTypes, PTL DEF Spec
<1> QED BY <1>1, <1>2, StepGrants, StepOrigins, PTL DEF Spec

\* handleDecision of the three runtimes: an agent is allowed what a user approved,
\* and for one time.
THEOREM GrantsAreApproved == Spec => []GrantWasApproved
  BY AlwaysGrants, PTL DEF GrantInv

\* handlePermissionRequest, handleControlRequest, what settles the pending
\* permissions, and onDecision: an agent that waits can be answered, unless it is not
\* the default one and waits in a task of a workflow.
THEOREM NobodyWaitsInVain == Spec => []WaitingIsAnswerable
<1>1. GrantInv /\ OriginInv => WaitingIsAnswerable
  BY DEF GrantInv, WaitingIsParked, OriginInv, WaitingIsAnswerable
<1> QED BY <1>1, AlwaysGrants, PTL

-----------------------------------------------------------------------------
(* Text *)

\* Transcripts that are on their way are not longer than the text.
TextInv ==
    /\ TextShownOnce
    /\ \A p \in polls : p.length <= text[p.thread]

LEMMA TextSteps ==
    ASSUME TypeInv, [Next]_vars
    PROVE  \/ UNCHANGED <<text, polls, seen, told>>
           \/ \E jobs : Forget(jobs)
           \/ UNCHANGED <<text, seen, told>> /\ polls' = {}
           \/ \E t \in Thread : Resume(t) /\ UNCHANGED <<text, polls, told>>
           \/ \E t \in Thread : Writes(t) \/ Poll(t)
           \/ \E p \in polls : PollAnswered(p)
<1>1. CASE UNCHANGED vars
  BY <1>1 DEF vars, textVars
<1>2. CASE \E k \in Kind : Start(k)
  BY <1>2 DEF Start, textVars
<1>3. CASE Stop \/ ChildExits
  BY <1>3 DEF Stop, ChildExits, Crash
<1>4. ASSUME NEW j \in Job, Progress(j)
      PROVE  \/ UNCHANGED <<text, polls, seen, told>>
             \/ \E jobs : Forget(jobs)
             \/ \E t \in Thread : Resume(t) /\ UNCHANGED <<text, polls, told>>
  <2>1. CASE ZcodeOpened(j)
    BY <2>1, UnderWay DEF ZcodeOpened, Active
  <2>2. CASE RequestTimesOut(j)
    BY <2>2 DEF RequestTimesOut, Crash
  <2> QED BY <1>4, <2>1, <2>2 DEF Progress, AcpOpened, AcpEnd, CursorResult,
             ZcodeSend, ZcodeAccepted, ZcodeIdle, textVars
<1>5. CASE \E j \in Job, t \in Thread : Prompt(j, t)
  BY <1>5 DEF Prompt, NotRunning, Crash, AcpCommand, AcpTask, CursorCommand, CursorTask,
     ZcodeCommand, ZcodeTask, textVars
<1>6. CASE \E t \in Viewed : CursorSubscribe(t) \/ ZcodeSubscribe(t) \/ Unsubscribe(t)
                               \/ Writes(t) \/ Poll(t)
  BY <1>6, AgentAssumption DEF CursorSubscribe, ZcodeSubscribe, Unsubscribe, Crash
<1>7. CASE \E a \in Ask : HandleDecision(a)
                          \/ (\E status \in {"approved", "denied", "expired"} : Decide(a, status))
                          \/ (\E j \in Job : AcpAsk(a, j) \/ CursorAsk(a, j) \/ ZcodeAsk(a, j))
  BY <1>7 DEF HandleDecision, Decide, AcpAsk, CursorAsk, ZcodeAsk, textVars
<1> QED BY <1>1, <1>2, <1>3, <1>4, <1>5, <1>6, <1>7 DEF Next

LEMMA StepText ==
    ASSUME TypeInv, TextInv, [Next]_vars
    PROVE  TextInv'
<1>1. /\ text \in [Thread -> 0..MaxText] /\ seen \in [Thread -> Nat] /\ told \in [Thread -> Nat]
      /\ \A p \in polls : p.thread \in Thread /\ p.length \in Nat
      /\ MaxText \in Nat
  BY AgentAssumption DEF TypeInv, TypeOK
<1>2. CASE UNCHANGED <<text, polls, seen, told>>
  BY <1>2 DEF TextInv, TextShownOnce
<1>3. CASE \E jobs : Forget(jobs)
  BY <1>3 DEF Forget, TextInv, TextShownOnce
<1>4. CASE UNCHANGED <<text, seen, told>> /\ polls' = {}
  BY <1>4 DEF TextInv, TextShownOnce
<1>5. ASSUME NEW t \in Thread, Resume(t), UNCHANGED <<text, polls, told>>
      PROVE  TextInv'
  <2>1. /\ seen'[t] = IF text[t] > seen[t] THEN text[t] ELSE seen[t]
        /\ \A u \in Thread \ {t} : seen'[u] = seen[u]
    BY <1>1, <1>5 DEF Resume
  <2>2. \A u \in Thread : told'[u] <= seen'[u] /\ seen'[u] <= text'[u]
    BY <1>1, <1>5, <2>1 DEF TextInv, TextShownOnce
  <2> QED BY <1>5, <2>2 DEF TextInv, TextShownOnce
<1>6. ASSUME NEW t \in Thread, Writes(t)
      PROVE  TextInv'
  <2>1. /\ UNCHANGED <<polls, seen, told>> /\ \A u \in Thread : text[u] <= text'[u] /\ text'[u] \in Nat
    BY <1>1, <1>6 DEF Writes
  <2>2. \A u \in Thread : told'[u] <= seen'[u] /\ seen'[u] <= text'[u]
    BY <1>1, <2>1 DEF TextInv, TextShownOnce
  <2>3. \A p \in polls' : p.length <= text'[p.thread]
    BY <1>1, <2>1 DEF TextInv
  <2> QED BY <2>2, <2>3 DEF TextInv, TextShownOnce
<1>7. ASSUME NEW t \in Thread, Poll(t)
      PROVE  TextInv'
  <2>1. polls' = polls \cup {[thread |-> t, length |-> text[t]]} /\ UNCHANGED <<text, seen, told>>
    BY <1>7 DEF Poll
  <2>2. \A p \in polls' : p.length <= text'[p.thread]
    BY <1>1, <2>1 DEF TextInv
  <2> QED BY <2>1, <2>2 DEF TextInv, TextShownOnce
<1>8. ASSUME NEW p \in polls, PollAnswered(p)
      PROVE  TextInv'
  <2>1. p.thread \in Thread /\ p.length \in Nat /\ p.length <= text[p.thread]
    BY <1>1 DEF TextInv
  <2>2. polls' = polls \ {p} /\ UNCHANGED text
    BY <1>8 DEF PollAnswered
  <2>3. \A u \in Thread : told'[u] <= seen'[u] /\ seen'[u] <= text'[u]
    <3>1. CASE p.length > seen[p.thread]
      <4>1. seen' = [seen EXCEPT ![p.thread] = p.length] /\ Tell(p.thread, p.length - seen[p.thread])
        BY <1>8, <3>1 DEF PollAnswered, Ingest
      <4>2. seen'[p.thread] = p.length /\ \A u \in Thread \ {p.thread} : seen'[u] = seen[u]
        BY <1>1, <2>1, <4>1
      <4>3. /\ told'[p.thread] \in {told[p.thread], told[p.thread] + (p.length - seen[p.thread])}
            /\ \A u \in Thread \ {p.thread} : told'[u] = told[u]
        BY <1>1, <2>1, <4>1 DEF Tell
      <4>4. told[p.thread] <= seen[p.thread] /\ told[p.thread] \in Nat /\ seen[p.thread] \in Nat
        BY <1>1, <2>1 DEF TextInv, TextShownOnce
      <4>5. told'[p.thread] <= p.length
        BY <2>1, <3>1, <4>3, <4>4
      <4> QED BY <2>1, <2>2, <4>2, <4>3, <4>5 DEF TextInv, TextShownOnce
    <3>2. CASE ~(p.length > seen[p.thread])
      BY <1>8, <2>2, <3>2 DEF PollAnswered, Ingest, TextInv, TextShownOnce
    <3> QED BY <3>1, <3>2
  <2> QED BY <2>2, <2>3 DEF TextInv, TextShownOnce
<1> QED BY <1>2, <1>3, <1>4, <1>5, <1>6, <1>7, <1>8, TextSteps

\* ingestTranscript of the ZCode runtime: however the answers of the polls come
\* back, the viewers get each piece of a message once.
THEOREM TextIsShownOnce == Spec => []TextShownOnce
<1>1. Init => TextInv
  BY DEF Init, TextInv, TextShownOnce
<1>2. Spec => []TypeInv
  BY InitTypes, StepTypes, PTL DEF Spec
<1>3. Spec => []TextInv
  BY <1>1, <1>2, StepText, PTL DEF Spec
<1> QED BY <1>3, PTL DEF TextInv

-----------------------------------------------------------------------------
(* Turns *)

\* Prompts that the agent got, or that are over.
Sent(j) == job[j].at \in {"prompted", "running", "over"}

\* The same after the step.
SentNext(j) == job'[j].at \in {"prompted", "running", "over"}

\* A turn that is open belongs to a prompt of its session whose end was not
\* reported, and a prompt that was not sent has no turn: so a prompt has a turn
\* in one session at most, and none a second time.
TurnInv ==
    /\ \A n \in Native : turn[n] # 0 =>
         /\ job[turn[n]].native = n /\ Sent(turn[n])
         /\ reported[turn[n]] = 0 \/ turn[n] \in unmapped
    /\ \A j \in Job : ~Sent(j) => reported[j] = 0
    /\ \A a \in Ask : ask[a].turn # 0 => Sent(ask[a].turn)
    /\ TurnEndsOnce

LEMMA TurnTypes ==
    ASSUME TypeInv
    PROVE  /\ \A n \in Native : turn[n] # 0 => turn[n] \in Job
           /\ \A a \in Ask : ask[a].turn # 0 => ask[a].turn \in Job
<1>1. \A n \in Native : turn[n] # 0 => turn[n] \in Job
  BY AgentAssumption DEF TypeInv, TypeOK, Job
<1>2. ASSUME NEW a \in Ask, ask[a].turn # 0
      PROVE  ask[a].turn \in Job
  <2>1. ask[a] \in AskType
    BY DEF TypeInv, TypeOK
  <2> QED BY <1>2, <2>1, AgentAssumption DEF AskType, Job
<1> QED BY <1>1, <1>2

LEMMA AskTurnsStay ==
    ASSUME TypeInv, TurnInv, [Next]_vars
    PROVE  \A a \in Ask : ask'[a].turn # 0 => ask'[a].turn \in Job /\ Sent(ask'[a].turn)
<1> DEFINE Fine(x) == x # 0 => x \in Job /\ Sent(x)
<1>1. ask \in [Ask -> AskType] /\ \A a \in Ask : ask[a] \in AskType
  BY DEF TypeInv, TypeOK
<1>2. (\A a \in Ask : Fine(ask[a].turn)) /\ \A n \in Native : Fine(turn[n])
  BY TurnTypes DEF TurnInv
<1>3. CASE \A a \in Ask : ask'[a].turn = ask[a].turn
  BY <1>2, <1>3
<1>4. CASE UNCHANGED ask
  BY <1>3, <1>4
<1>5. CASE AsksEnd
  BY <1>1, <1>3, <1>5, SettleFields DEF AsksEnd
<1>6. ASSUME NEW j \in Job, AskOver(j)
      PROVE  \A a \in Ask : ask'[a].turn = ask[a].turn
  BY <1>1, <1>6 DEF AskOver, AskType
<1>7. ASSUME NEW a \in Ask, NEW j \in Job, AcpAsk(a, j) \/ CursorAsk(a, j) \/ ZcodeAsk(a, j)
      PROVE  \A b \in Ask : Fine(ask'[b].turn)
  <2>1. /\ \A b \in Ask \ {a} : ask'[b] = ask[b]
        /\ ask'[a].turn # 0 => \E n \in Native : ask'[a].turn = turn[n]
    BY <1>7, NewAskIsParked
  <2> HIDE DEF Fine
  <2>2. \A b \in Ask \ {a} : Fine(ask'[b].turn)
    BY <1>2, <2>1
  <2>3. Fine(ask'[a].turn)
    <3>1. CASE ask'[a].turn = 0
      BY <3>1 DEF Fine
    <3>2. CASE ask'[a].turn # 0
      BY <1>2, <2>1, <3>2
    <3> QED BY <3>1, <3>2
  <2> QED BY <2>2, <2>3
<1>8. ASSUME NEW a \in Ask, NEW status \in {"approved", "denied", "expired"}, Decide(a, status)
      PROVE  \A b \in Ask : ask'[b].turn = ask[b].turn
  <2>1. ask'[a].turn = ask[a].turn
    BY <1>1, <1>8 DEF Decide, AskType
  <2>2. \A b \in Ask \ {a} : ask'[b] = ask[b]
    BY <1>1, <1>8 DEF Decide
  <2> QED BY <2>1, <2>2
<1>9. ASSUME NEW a \in Ask, HandleDecision(a)
      PROVE  \A b \in Ask : ask'[b].turn = ask[b].turn
  <2>1. ask' = [ask EXCEPT ![a] = Settle(a, OptionFor(a))]
    BY <1>9 DEF HandleDecision
  <2> HIDE DEF OptionFor
  <2>2. ask'[a].turn = ask[a].turn
    BY <1>1, <2>1, SettleFields
  <2>3. \A b \in Ask \ {a} : ask'[b] = ask[b]
    BY <1>1, <2>1
  <2> QED BY <2>2, <2>3
<1> HIDE DEF Fine
<1>10. \A a \in Ask : Fine(ask'[a].turn)
  BY <1>2, <1>4, <1>5, <1>6, <1>7, <1>8, <1>9, AskSteps DEF Fine
<1> QED BY <1>10 DEF Fine

\* Prompts that are not sent yet may change, the others only end.
LEMMA JobStays ==
    ASSUME TypeInv, NEW j \in Job, NEW new, job' = [job EXCEPT ![j] = new],
           Sent(j) => new.at \in {"prompted", "running", "over"} /\ new.native = job[j].native
    PROVE  \A i \in Job : Sent(i) => Sent(i)' /\ job'[i].native = job[i].native
<1>1. job'[j] = new /\ \A i \in Job \ {j} : job'[i] = job[i]
  BY DEF TypeInv, TypeOK
<1> QED BY <1>1 DEF Sent

LEMMA JobsEndStays ==
    ASSUME TypeInv, NEW jobs \in [Job -> JobType], JobsEnd(jobs),
           \A i \in Job : Sent(i) => jobs[i] = job[i]
    PROVE  \A i \in Job : Sent(i) => Sent(i)' /\ job'[i].native = job[i].native
<1>1. ASSUME NEW i \in Job, Sent(i)
      PROVE  Sent(i)' /\ job'[i].native = job[i].native
  <2>1. job'[i] = [jobs[i] EXCEPT !.at = IF @ = "none" THEN @ ELSE "over"] /\ jobs[i] = job[i] /\ jobs[i] \in JobType
    BY <1>1 DEF JobsEnd
  <2> QED BY <1>1, <2>1 DEF JobType, Sent
<1> QED BY <1>1

LEMMA JobAtMoves ==
    ASSUME TypeInv, NEW j \in Job, NEW at, job' = [job EXCEPT ![j].at = at],
           Sent(j) => at \in {"prompted", "running", "over"}
    PROVE  /\ \A i \in Job : Sent(i) => Sent(i)' /\ job'[i].native = job[i].native
           /\ job'[j].native = job[j].native /\ job'[j].at = at
<1>1. job[j] \in JobType
  BY DEF TypeInv, TypeOK
<1>2. job'[j].native = job[j].native /\ job'[j].at = at /\ \A i \in Job \ {j} : job'[i] = job[i]
  BY <1>1 DEF TypeInv, TypeOK, JobType
<1> QED BY <1>2 DEF Sent

\* What a step does to the turns: it closes some without a report, opens one,
\* reports one, or handles a decision.
TurnsStayOrClose ==
    (\A n \in Native : turn'[n] \in {0, turn[n]}) /\ UNCHANGED <<reported, unmapped>>

TurnOpens ==
    \E j \in Job, n \in Native :
        /\ ~Sent(j) /\ Sent(j)' /\ job'[j].native = n
        /\ turn' = [turn EXCEPT ![n] = j] /\ UNCHANGED <<reported, unmapped>>

TurnReported == \E n \in Native : Report(n) /\ UNCHANGED unmapped

JobsStay == \A j \in Job : Sent(j) => Sent(j)' /\ job'[j].native = job[j].native

LEMMA ForgetTurns ==
    ASSUME TypeInv, NEW jobs \in [Job -> JobType], Forget(jobs),
           \A i \in Job : Sent(i) => jobs[i] = job[i]
    PROVE  JobsStay /\ TurnsStayOrClose
<1>1. JobsStay
  BY JobsEndStays DEF Forget, JobsStay
<1>2. TurnsStayOrClose
  BY DEF Forget, TurnsStayOrClose
<1> QED BY <1>1, <1>2

LEMMA EndTurns ==
    ASSUME TypeInv, Forget(job)
    PROVE  JobsStay /\ TurnsStayOrClose
  BY ForgetTurns DEF TypeInv, TypeOK

\* A command that ends the connector was not sent.
LEMMA CrashTurns ==
    ASSUME TypeInv, NEW j \in Job, job[j].at = "none", NEW new \in JobType,
           Crash([job EXCEPT ![j] = new])
    PROVE  JobsStay /\ TurnsStayOrClose
<1> DEFINE jobs == [job EXCEPT ![j] = new]
<1>1. jobs \in [Job -> JobType] /\ \A i \in Job : Sent(i) => jobs[i] = job[i]
  BY DEF TypeInv, TypeOK, Sent
<1>2. Forget(jobs)
  BY DEF Crash
<1> HIDE DEF jobs
<1> QED BY <1>1, <1>2, ForgetTurns

LEMMA ChildExitsTurns ==
    ASSUME TypeInv, ChildExits
    PROVE  JobsStay /\ TurnsStayOrClose
<1>1. CASE \E j \in Job : Awaited(j)
  BY <1>1, EndTurns DEF ChildExits, Crash
<1>2. CASE ~\E j \in Job : Awaited(j)
  <2>1. JobsStay
    BY <1>2, JobsEndStays DEF ChildExits, JobsStay, TypeInv, TypeOK
  <2>2. TurnsStayOrClose
    BY <1>2 DEF ChildExits, TurnsStayOrClose
  <2> QED BY <2>1, <2>2
<1> QED BY <1>1, <1>2

LEMMA PromptTurns ==
    ASSUME TypeInv, NEW j \in Job, NEW t \in Thread, Prompt(j, t)
    PROVE  JobsStay /\ (TurnsStayOrClose \/ TurnOpens)
<1>1. job[j].at = "none" /\ ~Sent(j)
  BY DEF Prompt, NotRunning, AcpCommand, AcpTask, CursorCommand, CursorTask, ZcodeCommand, ZcodeTask, Unused, Sent
<1>2. bound[t] \in Native \cup {None} /\ job \in [Job -> JobType]
  BY DEF TypeInv, TypeOK
<1>3. ASSUME NEW new, job' = [job EXCEPT ![j] = new]
      PROVE  JobsStay /\ job'[j] = new
  BY <1>1, <1>2, <1>3, JobStays DEF JobsStay
<1>4. CASE NotRunning(j, t)
  <2> DEFINE new == [NoJob EXCEPT !.thread = t, !.from = "command", !.at = "opening"]
  <2>1. new \in JobType
    BY DEF NoJob, JobType, Active
  <2>2. Crash([job EXCEPT ![j] = new])
    BY <1>4 DEF NotRunning
  <2> HIDE DEF new
  <2> QED BY <1>1, <2>1, <2>2, CrashTurns
<1>5. CASE AcpCommand(j, t)
  <2> DEFINE new == [thread |-> t, from |-> "command", native |-> bound[t],
                     at |-> IF bound[t] = None THEN "opening" ELSE "prompted"]
  <2>1. job' = [job EXCEPT ![j] = new]
    BY <1>5 DEF AcpCommand
  <2>2. new.native = bound[t] /\ (bound[t] # None => new.at = "prompted")
    OBVIOUS
  <2> HIDE DEF new
  <2>3. JobsStay /\ job'[j] = new
    BY <1>3, <2>1
  <2>4. CASE bound[t] = None
    BY <1>5, <2>3, <2>4 DEF AcpCommand, TurnsStayOrClose
  <2>5. CASE bound[t] # None
    <3>1. Sent(j)' /\ job'[j].native = bound[t] /\ bound[t] \in Native
      BY <1>2, <2>2, <2>3, <2>5 DEF Sent
    <3> QED BY <1>1, <1>5, <2>3, <2>5, <3>1 DEF AcpCommand, TurnOpens
  <2> QED BY <2>4, <2>5
<1>6. CASE CursorCommand(j, t)
  <2>1. spare \in Native
    BY <1>6 DEF CursorCommand, TypeInv, JobsAreFormed
  <2>2. CASE /\ job' = [job EXCEPT ![j] = [thread |-> t, from |-> "command", native |-> spare, at |-> "prompted"]]
             /\ turn' = [turn EXCEPT ![spare] = j]
             /\ UNCHANGED <<agentVars, spare, reported, unmapped, ask, textVars>>
    <3>1. JobsStay /\ job'[j] = [thread |-> t, from |-> "command", native |-> spare, at |-> "prompted"]
      BY <1>3, <2>2
    <3>2. Sent(j)' /\ job'[j].native = spare
      BY <3>1 DEF Sent
    <3> QED BY <1>1, <2>1, <2>2, <3>1, <3>2 DEF TurnOpens
  <2>3. CASE Crash([job EXCEPT ![j] = [thread |-> t, from |-> "command", native |-> spare, at |-> "opening"]])
    <3> DEFINE new == [thread |-> t, from |-> "command", native |-> spare, at |-> "opening"]
    <3>1. new \in JobType
      BY <2>1 DEF JobType, Active
    <3>2. Crash([job EXCEPT ![j] = new])
      BY <2>3
    <3> HIDE DEF new
    <3> QED BY <1>1, <3>1, <3>2, CrashTurns
  <2> QED BY <1>6, <2>2, <2>3 DEF CursorCommand
<1>7. CASE AcpTask(j, t) \/ CursorTask(j, t) \/ ZcodeCommand(j, t) \/ ZcodeTask(j, t)
  <2>1. JobsStay
    BY <1>3, <1>7 DEF AcpTask, CursorTask, ZcodeCommand, ZcodeTask
  <2>2. TurnsStayOrClose
    BY <1>7 DEF AcpTask, CursorTask, ZcodeCommand, ZcodeTask, TurnsStayOrClose
  <2> QED BY <2>1, <2>2
<1> QED BY <1>4, <1>5, <1>6, <1>7 DEF Prompt

LEMMA ProgressTurns ==
    ASSUME TypeInv, NEW j \in Job, Progress(j)
    PROVE  JobsStay /\ (TurnsStayOrClose \/ TurnOpens \/ TurnReported)
<1>1. CASE RequestTimesOut(j)
  BY <1>1, EndTurns DEF RequestTimesOut, Crash
<1>2. CASE AcpOpened(j)
  <2>1. natives' \in Native /\ job[j].at = "opening" /\ job[j] \in JobType
    BY <1>2, AgentAssumption DEF AcpOpened, TypeInv, TypeOK, Native
  <2> DEFINE new == [job[j] EXCEPT !.at = "prompted", !.native = natives']
  <2>2. job' = [job EXCEPT ![j] = new]
    BY <1>2 DEF AcpOpened
  <2>3. new.at = "prompted" /\ new.native = natives'
    BY <2>1 DEF JobType
  <2> HIDE DEF new
  <2>4. ~Sent(j)
    BY <2>1 DEF Sent
  <2>5. JobsStay /\ job'[j] = new
    BY <2>2, <2>4, JobStays DEF JobsStay, TypeInv, TypeOK
  <2>6. Sent(j)' /\ job'[j].native = natives'
    BY <2>3, <2>5 DEF Sent
  <2>7. turn' = [turn EXCEPT ![natives'] = j] /\ UNCHANGED <<reported, unmapped>>
    BY <1>2 DEF AcpOpened
  <2> QED BY <2>1, <2>4, <2>5, <2>6, <2>7 DEF TurnOpens
<1>3. CASE AcpEnd(j)
  <2>1. job[j].native \in Native
    BY <1>3, UnderWay DEF AcpEnd, Active
  <2>2. JobsStay
    BY <1>3, JobAtMoves DEF AcpEnd, JobsStay
  <2>3. TurnReported \/ TurnsStayOrClose
    BY <1>3, <2>1 DEF AcpEnd, TurnEnd, TurnReported, TurnsStayOrClose
  <2> QED BY <2>2, <2>3
<1>4. CASE CursorResult(j)
  <2>1. spare \in Native
    BY <1>4 DEF CursorResult, TypeInv, JobsAreFormed
  <2>2. JobsStay
    BY <1>4, JobAtMoves DEF CursorResult, JobsStay
  <2>3. TurnReported
    BY <1>4, <2>1 DEF CursorResult, TurnReported
  <2> QED BY <2>2, <2>3
<1>5. CASE ZcodeIdle(j)
  <2>1. job[j].native \in Native
    BY <1>5, UnderWay DEF ZcodeIdle, Active
  <2>2. JobsStay
    BY <1>5, JobAtMoves DEF ZcodeIdle, JobsStay
  <2>3. TurnReported
    BY <1>5, <2>1 DEF ZcodeIdle, TurnReported
  <2> QED BY <2>2, <2>3
<1>6. CASE ZcodeOpened(j)
  <2>1. JobsStay
    BY <1>6, JobAtMoves DEF ZcodeOpened, JobsStay, Sent
  <2> QED BY <1>6, <2>1 DEF ZcodeOpened, TurnsStayOrClose
<1>7. CASE ZcodeAccepted(j)
  <2>1. JobsStay
    BY <1>7, JobAtMoves DEF ZcodeAccepted, JobsStay
  <2> QED BY <1>7, <2>1 DEF ZcodeAccepted, TurnsStayOrClose
<1>8. CASE ZcodeSend(j)
  <2>1. job[j].native \in Native /\ ~Sent(j)
    BY <1>8, UnderWay DEF ZcodeSend, Active, Sent
  <2>2. JobsStay /\ job'[j].native = job[j].native /\ job'[j].at = "prompted"
    BY <1>8, JobAtMoves DEF ZcodeSend, JobsStay
  <2>3. Sent(j)'
    BY <2>2 DEF Sent
  <2>4. CASE job[j].from = "command"
    BY <1>8, <2>1, <2>2, <2>3, <2>4 DEF ZcodeSend, TurnOpens
  <2>5. CASE job[j].from # "command"
    BY <1>8, <2>2, <2>5 DEF ZcodeSend, TurnsStayOrClose
  <2> QED BY <2>4, <2>5
<1> QED BY <1>1, <1>2, <1>3, <1>4, <1>5, <1>6, <1>7, <1>8 DEF Progress

LEMMA TurnSteps ==
    ASSUME TypeInv, [Next]_vars
    PROVE  JobsStay /\ (TurnsStayOrClose \/ TurnOpens \/ TurnReported \/ \E a \in Ask : HandleDecision(a))
<1>1. UNCHANGED job => JobsStay
  BY DEF JobsStay, Sent
<1>2. UNCHANGED <<turn, reported, unmapped>> => TurnsStayOrClose
  BY DEF TurnsStayOrClose
<1>3. CASE UNCHANGED vars
  BY <1>1, <1>2, <1>3 DEF vars, turnVars
<1>4. CASE \E k \in Kind : Start(k)
  BY <1>1, <1>2, <1>4 DEF Start, turnVars
<1>5. CASE Stop \/ ChildExits
  BY <1>5, EndTurns, ChildExitsTurns DEF Stop
<1>6. CASE \E j \in Job : Progress(j) \/ (\E t \in Thread : Prompt(j, t))
  BY <1>6, ProgressTurns, PromptTurns
<1>7. CASE \E a \in Ask : HandleDecision(a)
  BY <1>1, <1>7 DEF HandleDecision
<1>8. CASE \E a \in Ask : (\E status \in {"approved", "denied", "expired"} : Decide(a, status))
                          \/ (\E j \in Job : AcpAsk(a, j) \/ CursorAsk(a, j) \/ ZcodeAsk(a, j))
  BY <1>1, <1>2, <1>8 DEF Decide, AcpAsk, CursorAsk, ZcodeAsk, turnVars
<1>9. ASSUME NEW t \in Viewed, CursorSubscribe(t) \/ ZcodeSubscribe(t) \/ Unsubscribe(t) \/ Writes(t) \/ Poll(t)
      PROVE  JobsStay /\ TurnsStayOrClose
  <2>1. CASE Crash(job)
    BY <2>1, EndTurns DEF Crash
  <2>2. CASE UNCHANGED turnVars
    BY <1>1, <1>2, <2>2 DEF turnVars
  <2> QED BY <1>9, <2>1, <2>2 DEF CursorSubscribe, ZcodeSubscribe, Unsubscribe, Writes, Poll
<1>10. CASE \E p \in polls : PollAnswered(p)
  BY <1>1, <1>2, <1>10 DEF PollAnswered, turnVars
<1> QED BY <1>3, <1>4, <1>5, <1>6, <1>7, <1>8, <1>9, <1>10 DEF Next

LEMMA StepTurns ==
    ASSUME TypeInv, TurnInv, [Next]_vars
    PROVE  TurnInv'
<1>1. JobsStay
  BY TurnSteps
<1>2. \A a \in Ask : ask'[a].turn # 0 => SentNext(ask'[a].turn)
  <2>1. ASSUME NEW a \in Ask, ask'[a].turn # 0
        PROVE  SentNext(ask'[a].turn)
    <3>1. ask'[a].turn \in Job /\ Sent(ask'[a].turn)
      BY <2>1, AskTurnsStay
    <3>2. PICK i \in Job : i = ask'[a].turn
      BY <3>1
    <3>3. Sent(i)'
      BY <1>1, <3>1, <3>2 DEF JobsStay
    <3> QED BY <3>2, <3>3 DEF Sent, SentNext
  <2> QED BY <2>1
<1>3. /\ \A n \in Native : turn[n] # 0 =>
            turn[n] \in Job /\ job[turn[n]].native = n /\ Sent(turn[n])
      /\ turn \in [Native -> 0..MaxJobs] /\ reported \in [Job -> Nat]
  BY TurnTypes DEF TurnInv, TypeInv, TypeOK
<1>4. CASE TurnsStayOrClose
  <2>1. \A n \in Native : turn'[n] # 0 =>
          /\ job'[turn'[n]].native = n /\ SentNext(turn'[n])
          /\ reported'[turn'[n]] = 0 \/ turn'[n] \in unmapped'
    <3>1. ASSUME NEW n \in Native, turn'[n] # 0
          PROVE  /\ job'[turn'[n]].native = n /\ SentNext(turn'[n])
                 /\ reported'[turn'[n]] = 0 \/ turn'[n] \in unmapped'
      <4>1. PICK i \in Job : i = turn[n] /\ i = turn'[n]
        BY <1>3, <1>4, <3>1 DEF TurnsStayOrClose
      <4>2. job'[i].native = n /\ Sent(i)'
        BY <1>1, <1>3, <3>1, <4>1 DEF JobsStay
      <4>3. reported'[i] = 0 \/ i \in unmapped'
        BY <1>4, <3>1, <4>1 DEF TurnsStayOrClose, TurnInv
      <4> QED BY <4>1, <4>2, <4>3 DEF Sent, SentNext
    <3> QED BY <3>1
  <2>2. \A j \in Job : ~Sent(j)' => reported'[j] = 0
    BY <1>1, <1>4 DEF JobsStay, TurnsStayOrClose, TurnInv
  <2>3. TurnEndsOnce'
    BY <1>4 DEF TurnsStayOrClose, TurnInv, TurnEndsOnce
  <2> QED BY <1>2, <2>1, <2>2, <2>3 DEF TurnInv, Sent, SentNext
<1>5. CASE TurnOpens
  <2>1. PICK j \in Job, m \in Native :
          /\ ~Sent(j) /\ Sent(j)' /\ job'[j].native = m
          /\ turn' = [turn EXCEPT ![m] = j] /\ UNCHANGED <<reported, unmapped>>
    BY <1>5 DEF TurnOpens
  <2>2. ASSUME NEW n \in Native, turn'[n] # 0
        PROVE  /\ job'[turn'[n]].native = n /\ SentNext(turn'[n])
               /\ reported'[turn'[n]] = 0 \/ turn'[n] \in unmapped'
    <3>1. CASE n = m
      <4>1. turn'[n] = j
        BY <1>3, <2>1, <3>1
      <4>2. reported'[j] = 0
        BY <2>1 DEF TurnInv
      <4> QED BY <2>1, <3>1, <4>1, <4>2 DEF Sent, SentNext
    <3>2. CASE n # m
      <4>1. PICK i \in Job : i = turn[n] /\ i = turn'[n]
        BY <1>3, <2>1, <2>2, <3>2
      <4>2. job'[i].native = n /\ Sent(i)'
        BY <1>1, <1>3, <2>2, <4>1 DEF JobsStay
      <4>3. reported'[i] = 0 \/ i \in unmapped'
        BY <2>1, <2>2, <4>1 DEF TurnInv
      <4> QED BY <4>1, <4>2, <4>3 DEF Sent, SentNext
    <3> QED BY <3>1, <3>2
  <2>3. \A i \in Job : ~Sent(i)' => reported'[i] = 0
    BY <1>1, <2>1 DEF JobsStay, TurnInv
  <2>4. TurnEndsOnce'
    BY <2>1 DEF TurnInv, TurnEndsOnce
  <2> QED BY <1>2, <2>2, <2>3, <2>4 DEF TurnInv, Sent, SentNext
<1>6. CASE TurnReported
  <2>1. PICK m \in Native : Report(m) /\ UNCHANGED unmapped
    BY <1>6 DEF TurnReported
  <2>2. \A n \in Native : turn'[n] = IF n = m THEN 0 ELSE turn[n]
    BY <1>3, <2>1 DEF Report
  <2>3. \A i \in Job : reported'[i] = IF turn[m] # 0 /\ i = turn[m] THEN reported[i] + 1 ELSE reported[i]
    BY <1>3, <2>1 DEF Report
  <2>4. ASSUME NEW n \in Native, turn'[n] # 0
        PROVE  /\ job'[turn'[n]].native = n /\ SentNext(turn'[n])
               /\ reported'[turn'[n]] = 0 \/ turn'[n] \in unmapped'
    <3>1. n # m
      BY <2>2, <2>4
    <3>2. PICK i \in Job : i = turn[n] /\ i = turn'[n]
      BY <1>3, <2>2, <2>4, <3>1
    <3>3. job'[i].native = n /\ Sent(i)'
      BY <1>1, <1>3, <2>4, <3>2 DEF JobsStay
    <3>4. turn[m] # 0 => turn[m] # i
      BY <1>3, <2>4, <3>1, <3>2
    <3>5. reported'[i] = 0 \/ i \in unmapped'
      BY <2>1, <2>3, <2>4, <3>2, <3>4 DEF TurnInv
    <3> QED BY <3>2, <3>3, <3>5 DEF Sent, SentNext
  <2>5. \A i \in Job : ~Sent(i)' => reported'[i] = 0
    BY <1>1, <1>3, <2>3 DEF JobsStay, TurnInv
  <2>6. \A i \in Job : reported'[i] > 1 => i \in unmapped'
    <3>1. ASSUME NEW i \in Job, reported'[i] > 1
          PROVE  i \in unmapped'
      <4>1. CASE turn[m] # 0 /\ i = turn[m]
        <5>1. reported[i] = 0 \/ i \in unmapped
          BY <4>1 DEF TurnInv
        <5> QED BY <2>1, <2>3, <3>1, <4>1, <5>1
      <4>2. CASE ~(turn[m] # 0 /\ i = turn[m])
        BY <2>1, <2>3, <3>1, <4>2 DEF TurnInv, TurnEndsOnce
      <4> QED BY <4>1, <4>2
    <3> QED BY <3>1
  <2> QED BY <1>2, <2>4, <2>5, <2>6 DEF TurnInv, TurnEndsOnce, Sent, SentNext
<1>7. ASSUME NEW a \in Ask, HandleDecision(a)
      PROVE  TurnInv'
  <2>1. UNCHANGED <<job, turn>>
    BY <1>7 DEF HandleDecision
  <2>2. CASE UNCHANGED <<reported, unmapped>>
    BY <1>4, <2>1, <2>2 DEF TurnsStayOrClose
  <2>3. CASE /\ ask[a].turn # 0
             /\ reported' = [reported EXCEPT ![ask[a].turn] = @ + 1]
             /\ unmapped' = unmapped \cup {ask[a].turn}
    <3>1. PICK k \in Job : k = ask[a].turn
      BY <2>3, TurnTypes
    <3>2. /\ Sent(k) /\ unmapped' = unmapped \cup {k}
          /\ \A i \in Job : i # k => reported'[i] = reported[i]
      BY <1>3, <2>3, <3>1 DEF TurnInv
    <3>3. ASSUME NEW n \in Native, turn'[n] # 0
          PROVE  /\ job'[turn'[n]].native = n /\ SentNext(turn'[n])
                 /\ reported'[turn'[n]] = 0 \/ turn'[n] \in unmapped'
      <4>1. turn'[n] = turn[n] /\ turn[n] \in Job /\ job' = job
        BY <1>3, <2>1, <3>3
      <4>2. reported[turn[n]] = 0 \/ turn[n] \in unmapped
        BY <3>3, <4>1 DEF TurnInv
      <4> QED BY <1>3, <3>2, <3>3, <4>1, <4>2 DEF Sent, SentNext
    <3>4. \A i \in Job : ~Sent(i)' => reported'[i] = 0
      BY <1>1, <3>2 DEF JobsStay, TurnInv
    <3>5. TurnEndsOnce'
      BY <3>2 DEF TurnInv, TurnEndsOnce
    <3> QED BY <1>2, <3>3, <3>4, <3>5 DEF TurnInv, Sent, SentNext
  <2> QED BY <1>7, <2>2, <2>3 DEF HandleDecision
<1> QED BY <1>4, <1>5, <1>6, <1>7, TurnSteps

\* turn_end, result and state.updated of the three runtimes, and the failure of a
\* turn whose approval found no option: a turn is reported once, whatever prompts,
\* exits and restarts come between.
THEOREM TurnsEndOnce == Spec => []TurnEndsOnce
<1>1. Init => TurnInv
  BY DEF Init, TurnInv, TurnEndsOnce, NoAsk
<1>2. Spec => []TypeInv
  BY InitTypes, StepTypes, PTL DEF Spec
<1>3. Spec => []TurnInv
  BY <1>1, <1>2, StepTurns, PTL DEF Spec
<1> QED BY <1>3, PTL DEF TurnInv

-----------------------------------------------------------------------------
(* Who may answer: members and grants *)

\* A workspace has one owner; what is granted is granted to a member, at a
\* workstation that there is.
Orderly(s) ==
    /\ s \in Tables
    /\ \E o \in User : s.members[o] = "owner" /\ \A u \in User : s.members[u] = "owner" => u = o
    /\ \A w \in Workstation, u \in User :
          s.access[<<w, u>>] # {} => s.members[u] # Absent /\ s.stations[w] # "none"

\* The same, field by field.
LEMMA OrderlyBy ==
    ASSUME NEW m \in [User -> Role \cup {Absent}], NEW a \in [Workstation \X User -> SUBSET Grant],
           NEW st \in [Workstation -> {"none", "open", "revoked"}], NEW i \in [Key -> Invite \cup {Absent}],
           NEW o \in User, m[o] = "owner", \A u \in User : m[u] = "owner" => u = o,
           \A w \in Workstation, u \in User : a[<<w, u>>] # {} => m[u] # Absent /\ st[w] # "none"
    PROVE  Orderly([members |-> m, access |-> a, stations |-> st, invites |-> i])
<1> DEFINE t == [members |-> m, access |-> a, stations |-> st, invites |-> i]
<1>1. t \in Tables /\ t.members = m /\ t.access = a /\ t.stations = st
  BY DEF Tables
<1> HIDE DEF t
<1>2. Orderly(t)
  BY <1>1 DEF Orderly
<1> QED BY <1>2 DEF t

LEMMA OrderlyFields ==
    ASSUME NEW s, Orderly(s)
    PROVE  /\ s = [members |-> s.members, access |-> s.access, stations |-> s.stations, invites |-> s.invites]
           /\ s.members \in [User -> Role \cup {Absent}]
           /\ s.access \in [Workstation \X User -> SUBSET Grant]
           /\ s.stations \in [Workstation -> {"none", "open", "revoked"}]
           /\ s.invites \in [Key -> Invite \cup {Absent}]
           /\ \E o \in User : s.members[o] = "owner" /\ \A u \in User : s.members[u] = "owner" => u = o
           /\ \A w \in Workstation, u \in User :
                 s.access[<<w, u>>] # {} => s.members[u] # Absent /\ s.stations[w] # "none"
BY DEF Orderly, Tables

\* A workspace begins in order.
LEMMA CreatesOrder == ASSUME NEW u \in User PROVE Orderly(CreateWorkspace(u))
<1> USE AccessAssumption
<1> DEFINE m == [v \in User |-> IF v = u THEN "owner" ELSE Absent]
           a == [k \in Workstation \X User |-> {}]
           st == [w \in Workstation |-> "none"]
           i == [k \in Key |-> Absent]
           t == CreateWorkspace(u)
<1>1. m \in [User -> Role \cup {Absent}] /\ m[u] = "owner" /\ \A v \in User : m[v] = "owner" => v = u
  BY DEF Role, Manager
<1>2. a \in [Workstation \X User -> SUBSET Grant] /\ \A w \in Workstation, v \in User : a[<<w, v>>] = {}
  OBVIOUS
<1>3. st \in [Workstation -> {"none", "open", "revoked"}] /\ i \in [Key -> Invite \cup {Absent}]
  OBVIOUS
<1>4. t = [members |-> m, access |-> a, stations |-> st, invites |-> i]
  BY DEF CreateWorkspace
<1> HIDE DEF m, a, st, i
<1>5. Orderly([members |-> m, access |-> a, stations |-> st, invites |-> i])
  BY <1>1, <1>2, <1>3, OrderlyBy
<1> QED BY <1>4, <1>5

\* Invitations are apart from all of this.
LEMMA InvitesKeepOrder ==
    ASSUME NEW s, Orderly(s), NEW i \in [Key -> Invite \cup {Absent}]
    PROVE  Orderly([s EXCEPT !.invites = i])
<1>1. PICK o \in User : s.members[o] = "owner" /\ \A u \in User : s.members[u] = "owner" => u = o
  BY OrderlyFields
<1>2. [s EXCEPT !.invites = i] =
         [members |-> s.members, access |-> s.access, stations |-> s.stations, invites |-> i]
  BY OrderlyFields
<1>3. Orderly([members |-> s.members, access |-> s.access, stations |-> s.stations, invites |-> i])
  BY <1>1, OrderlyFields, OrderlyBy
<1> QED BY <1>2, <1>3

\* Who is no owner becomes none, and grants are left as they are.
LEMMA RolesKeepOrder ==
    ASSUME NEW s, Orderly(s), NEW u \in User, s.members[u] # "owner", NEW role \in {"admin", "member"}
    PROVE  Orderly([s EXCEPT !.members[u] = role])
<1> USE AccessAssumption DEF Role, Manager
<1> DEFINE m == [s.members EXCEPT ![u] = role]
<1>1. PICK o \in User : s.members[o] = "owner" /\ \A v \in User : s.members[v] = "owner" => v = o
  BY OrderlyFields
<1>2. m \in [User -> Role \cup {Absent}] /\ m[o] = "owner" /\ (\A v \in User : m[v] = "owner" => v = o)
      /\ \A v \in User : s.members[v] # Absent => m[v] # Absent
  BY <1>1, OrderlyFields
<1>3. [s EXCEPT !.members[u] = role] =
         [members |-> m, access |-> s.access, stations |-> s.stations, invites |-> s.invites]
  BY OrderlyFields
<1> HIDE DEF m
<1>4. \A w \in Workstation, v \in User : s.access[<<w, v>>] # {} => m[v] # Absent /\ s.stations[w] # "none"
  BY <1>2, OrderlyFields
<1>5. Orderly([members |-> m, access |-> s.access, stations |-> s.stations, invites |-> s.invites])
  BY <1>2, <1>4, OrderlyFields, OrderlyBy
<1> QED BY <1>3, <1>5

LEMMA RemovalKeepsOrder ==
    ASSUME NEW s, Orderly(s), NEW actor \in User, NEW u \in User
    PROVE  Orderly(RemoveMember(s, actor, u))
<1> USE AccessAssumption
<1> DEFINE m == [s.members EXCEPT ![u] = Absent]
           a == [k \in DOMAIN s.access |-> IF k[2] = u THEN {} ELSE s.access[k]]
           t == [members |-> m, access |-> a, stations |-> s.stations, invites |-> s.invites]
<1>1. CASE ~MayChange(s, actor, u)
  BY <1>1 DEF RemoveMember
<1>2. CASE MayChange(s, actor, u)
  <2>1. PICK o \in User : s.members[o] = "owner" /\ \A v \in User : s.members[v] = "owner" => v = o
    BY OrderlyFields
  <2>2. m \in [User -> Role \cup {Absent}] /\ m[o] = "owner" /\ (\A v \in User : m[v] = "owner" => v = o)
        /\ \A v \in User : v # u => m[v] = s.members[v]
    BY <1>2, <2>1, OrderlyFields DEF MayChange, Role, Manager
  <2>3. /\ a \in [Workstation \X User -> SUBSET Grant]
        /\ \A w \in Workstation, v \in User : a[<<w, v>>] = IF v = u THEN {} ELSE s.access[<<w, v>>]
    BY OrderlyFields
  <2>4. RemoveMember(s, actor, u) = t
    <3>1. RemoveMember(s, actor, u) = [s EXCEPT !.members = m, !.access = a]
      BY <1>2 DEF RemoveMember
    <3> HIDE DEF m, a
    <3> QED BY <3>1, OrderlyFields
  <2> HIDE DEF m, a
  <2>5. \A w \in Workstation, v \in User : a[<<w, v>>] # {} => m[v] # Absent /\ s.stations[w] # "none"
    BY <2>2, <2>3, OrderlyFields
  <2>6. Orderly(t)
    <3>1. /\ s.stations \in [Workstation -> {"none", "open", "revoked"}]
          /\ s.invites \in [Key -> Invite \cup {Absent}]
      BY OrderlyFields
    <3> QED BY <2>1, <2>2, <2>3, <2>5, <3>1, OrderlyBy
  <2> QED BY <2>4, <2>6
<1> QED BY <1>1, <1>2

\* Grants at a workstation that there is, to a member.
LEMMA GrantsKeepOrder ==
    ASSUME NEW s, Orderly(s), NEW w \in Workstation, NEW u \in User, NEW g \in SUBSET Grant,
           NEW state \in {"open", "revoked"}, s.members[u] # Absent
    PROVE  Orderly([s EXCEPT !.stations[w] = state, !.access[<<w, u>>] = g])
<1> DEFINE a == [s.access EXCEPT ![<<w, u>>] = g]
           st == [s.stations EXCEPT ![w] = state]
           t == [s EXCEPT !.stations[w] = state, !.access[<<w, u>>] = g]
<1>1. PICK o \in User : s.members[o] = "owner" /\ \A v \in User : s.members[v] = "owner" => v = o
  BY OrderlyFields
<1>2. st \in [Workstation -> {"none", "open", "revoked"}] /\ st[w] # "none"
      /\ \A v \in Workstation : s.stations[v] # "none" => st[v] # "none"
  BY OrderlyFields
<1>3. /\ a \in [Workstation \X User -> SUBSET Grant]
      /\ \A v \in Workstation, x \in User : a[<<v, x>>] = IF v = w /\ x = u THEN g ELSE s.access[<<v, x>>]
  BY OrderlyFields
<1>4. t = [members |-> s.members, access |-> a, stations |-> st, invites |-> s.invites]
  <2>1. t = [s EXCEPT !.stations = st, !.access = a]
    OBVIOUS
  <2> HIDE DEF a, st
  <2>2. PICK m, b, old, i : s = [members |-> m, access |-> b, stations |-> old, invites |-> i]
    BY OrderlyFields
  <2> DEFINE p == [s EXCEPT !.stations = st]
  <2>3. p = [members |-> m, access |-> b, stations |-> st, invites |-> i]
    BY <2>2
  <2>4. t = [p EXCEPT !.access = a]
    BY <2>1
  <2> HIDE DEF p, t
  <2>5. t = [members |-> m, access |-> a, stations |-> st, invites |-> i]
    BY <2>3, <2>4
  <2> QED BY <2>2, <2>5
<1> HIDE DEF a, st
<1>5. \A v \in Workstation, x \in User : a[<<v, x>>] # {} => s.members[x] # Absent /\ st[v] # "none"
  BY <1>2, <1>3, OrderlyFields
<1> HIDE DEF t
<1>6. Orderly([members |-> s.members, access |-> a, stations |-> st, invites |-> s.invites])
  BY <1>1, <1>2, <1>3, <1>5, OrderlyFields, OrderlyBy
<1> QED BY <1>4, <1>6 DEF t

\* Transactions that run one after the other keep a workspace in order: one owner,
\* and no grant without a member, whoever acts on whom (management-repository.ts).
THEOREM TransactionsKeepOrder ==
    ASSUME NEW s, Orderly(s), NEW actor \in User, NEW u \in User, NEW w \in Workstation, NEW key \in Key,
           NEW role \in {"admin", "member"}, NEW granted \in SUBSET Editable
    PROVE  /\ Orderly(CreateInvite(s, actor, key, role)) /\ Orderly(Join(s, u, key))
           /\ Orderly(UpdateMemberRole(s, actor, u, role)) /\ Orderly(RemoveMember(s, actor, u))
           /\ Orderly(UpdateWorkstationAccess(s, actor, w, u, granted))
           /\ Orderly(RevokeWorkstation(s, actor, w))
           /\ s.stations[w] = "none" /\ CanManageWorkstations(s, u) => Orderly(AddWorkstation(s, w, u))
<1> USE AccessAssumption
<1>1. Orderly(CreateInvite(s, actor, key, role))
  <2> DEFINE x == [by |-> actor, role |-> role, due |-> FALSE, joined |-> FALSE]
             i == [s.invites EXCEPT ![key] = x]
  <2>1. x \in Invite
    BY DEF Invite
  <2>2. i \in [Key -> Invite \cup {Absent}]
    <3> HIDE DEF x
    <3> QED BY <2>1, OrderlyFields
  <2>3. CreateInvite(s, actor, key, role) \in {s, [s EXCEPT !.invites = i]}
    BY DEF CreateInvite
  <2> HIDE DEF i
  <2> QED BY <2>2, <2>3, InvitesKeepOrder
<1>2. Orderly(Join(s, u, key))
  <2>1. CASE ~Joinable(s, key)
    BY <2>1 DEF Join
  <2>2. CASE Joinable(s, key)
    <3> DEFINE x == [s.invites[key] EXCEPT !.joined = TRUE]
               i == [s.invites EXCEPT ![key] = x]
               t == [s EXCEPT !.invites = i]
    <3>1. s.invites[key] \in Invite
      BY <2>2, OrderlyFields DEF Joinable
    <3>2. x \in Invite /\ s.invites[key].role \in {"admin", "member"}
      BY <3>1 DEF Invite
    <3>3. i \in [Key -> Invite \cup {Absent}]
      <4> HIDE DEF x
      <4> QED BY <3>2, OrderlyFields
    <3>4. Orderly(t) /\ t.members = s.members
      <4> HIDE DEF i
      <4> QED BY <3>3, InvitesKeepOrder, OrderlyFields
    <3>5. CASE s.members[u] # Absent
      <4>1. Join(s, u, key) = [s EXCEPT !.members[u] = @, !.invites[key] = x]
        BY <2>2, <3>5 DEF Join
      <4>2. [s EXCEPT !.members[u] = @, !.invites[key] = x] = t
        BY OrderlyFields
      <4> QED BY <3>4, <4>1, <4>2
    <3>6. CASE s.members[u] = Absent
      <4> DEFINE r == s.invites[key].role
      <4>1. Join(s, u, key) = [s EXCEPT !.members[u] = r, !.invites[key] = x]
        BY <2>2, <3>6 DEF Join
      <4>2. [s EXCEPT !.members[u] = r, !.invites[key] = x] = [t EXCEPT !.members[u] = r]
        BY OrderlyFields
      <4>3. t.members[u] # "owner" /\ r \in {"admin", "member"}
        BY <3>2, <3>4, <3>6 DEF Role, Manager
      <4> HIDE DEF t, r
      <4>4. Orderly([t EXCEPT !.members[u] = r])
        BY <3>4, <4>3, RolesKeepOrder
      <4> QED BY <4>1, <4>2, <4>4
    <3> QED BY <3>5, <3>6
  <2> QED BY <2>1, <2>2
<1>3. Orderly(UpdateMemberRole(s, actor, u, role))
  BY RolesKeepOrder DEF UpdateMemberRole, MayChange
<1>4. Orderly(RemoveMember(s, actor, u))
  BY RemovalKeepsOrder
<1>5. Orderly(UpdateWorkstationAccess(s, actor, w, u, granted))
  <2>1. CASE ~AccessChecked(s, actor, w, u)
    BY <2>1 DEF UpdateWorkstationAccess
  <2>2. CASE AccessChecked(s, actor, w, u)
    <3> DEFINE g == IF granted = {} THEN {} ELSE granted \cup (s.access[<<w, u>>] \ Editable)
    <3>1. g \in SUBSET Grant
      BY OrderlyFields DEF Grant
    <3>2. UpdateWorkstationAccess(s, actor, w, u, granted) = [s EXCEPT !.access[<<w, u>>] = g]
      BY <2>2 DEF UpdateWorkstationAccess, WriteAccess
    <3>3. s.stations[w] = "open" /\ s.members[u] # Absent
      BY <2>2 DEF AccessChecked, CanViewWorkspace
    <3> HIDE DEF g
    <3>4. [s EXCEPT !.stations[w] = "open"] = s
      BY <3>3, OrderlyFields
    <3>5. [s EXCEPT !.access[<<w, u>>] = g] = [s EXCEPT !.stations[w] = "open", !.access[<<w, u>>] = g]
      BY <3>4
    <3>6. Orderly([s EXCEPT !.stations[w] = "open", !.access[<<w, u>>] = g])
      BY <3>1, <3>3, GrantsKeepOrder
    <3> QED BY <3>2, <3>5, <3>6
  <2> QED BY <2>1, <2>2
<1>6. Orderly(RevokeWorkstation(s, actor, w))
  <2>1. CASE ~(CanManageWorkspace(s, actor) /\ s.stations[w] = "open")
    BY <2>1 DEF RevokeWorkstation
  <2>2. CASE CanManageWorkspace(s, actor) /\ s.stations[w] = "open"
    <3>1. RevokeWorkstation(s, actor, w) = [s EXCEPT !.stations[w] = "revoked"]
      BY <2>2 DEF RevokeWorkstation
    <3>2. s.access[<<w, actor>>] \in SUBSET Grant /\ s.members[actor] # Absent
      BY <2>2, OrderlyFields DEF CanManageWorkspace, Role
    <3>3. [s EXCEPT !.stations[w] = "revoked"] =
             [s EXCEPT !.stations[w] = "revoked", !.access[<<w, actor>>] = s.access[<<w, actor>>]]
      BY OrderlyFields
    <3>4. Orderly([s EXCEPT !.stations[w] = "revoked", !.access[<<w, actor>>] = s.access[<<w, actor>>]])
      BY <3>2, GrantsKeepOrder
    <3> QED BY <3>1, <3>3, <3>4
  <2> QED BY <2>1, <2>2
<1>7. ASSUME CanManageWorkstations(s, u)  PROVE Orderly(AddWorkstation(s, w, u))
  <2>1. s.members[u] # Absent
    BY <1>7, OrderlyFields DEF CanManageWorkstations, CanManageWorkspace, Role
  <2>2. {"view", "respond", "highRisk", "manage"} \in SUBSET Grant
    BY DEF Grant, Editable
  <2> QED BY <2>1, <2>2, GrantsKeepOrder DEF AddWorkstation
<1> QED BY <1>1, <1>2, <1>3, <1>4, <1>5, <1>6, <1>7

\* In a workspace in order, whoever is notified of a request may answer it, if it is
\* not of high risk, and every user who may answer is notified at every endpoint
\* that is good (push-service.ts asks other tables than app_can_respond does).
THEOREM NotifiedMayAnswerAlways ==
    ASSUME NEW s, Orderly(s), NEW w \in Workstation,
           NEW subscriptions \in [Endpoint -> Subscription \cup {Absent}], NEW e \in Endpoint,
           subscriptions[e] # Absent, ~subscriptions[e].due
    PROVE  e \in PushTargets(s, w, subscriptions) <=> CanRespond(s, w, subscriptions[e].user, FALSE)
<1> USE AccessAssumption
<1> DEFINE u == subscriptions[e].user
<1>1. u \in User
  BY DEF Subscription
<1>2. CanRespond(s, w, u, FALSE) <=> CanManageWorkspace(s, u) \/ "respond" \in s.access[<<w, u>>]
  BY DEF CanRespond
<1>3. CanManageWorkspace(s, u) => CanViewWorkspace(s, u)
  BY DEF CanManageWorkspace, CanViewWorkspace, Role
<1>4. "respond" \in s.access[<<w, u>>] => CanViewWorkspace(s, u)
  BY <1>1, OrderlyFields DEF CanViewWorkspace
<1>5. e \in PushTargets(s, w, subscriptions) <=>
         CanViewWorkspace(s, u) /\ (CanManageWorkspace(s, u) \/ "respond" \in s.access[<<w, u>>])
  BY DEF PushTargets
<1> QED BY <1>2, <1>3, <1>4, <1>5
=============================================================================

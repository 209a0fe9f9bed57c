------------------------ MODULE WorkflowEngineProofs ------------------------
(***************************************************************************)
(* Proofs about WorkflowEngine for any number of runs, nodes, objects,     *)
(* retries, crashes and lost connections.  The argument: every step that   *)
(* continues a walk takes one continuation of an object and leaves at most *)
(* one of the same object (WalkStep); it ends the run of the object, and   *)
(* then forgets its journal row, or leaves the run as it is.  WalkStep     *)
(* keeps the invariant whatever the step does otherwise.  A node is begun  *)
(* by whoever holds the confirmation of the node before it.                *)
(*                                                                         *)
(* Then the proofs about WorkflowDefinition: the canvas accepts the lines, *)
(* and what is opened saves as itself.                                     *)
(***************************************************************************)
EXTENDS WorkflowEngine, WorkflowDefinition, SequenceTheorems, FiniteSetTheorems, WellFoundedInduction, TLAPS

Existing == \A c \in awaiting : c.o \in DOMAIN objects

TimersRetry == \A c \in awaiting : c.at = "timer" => c.a < MaxRetries

ActiveIsOwn ==
    \A r \in Run : active[r] # 0 =>
        active[r] \in DOMAIN objects /\ Of(active[r]) = r /\ ~objects[active[r]].cancelled

\* Only a run that was cancelled has continuations of an object it no longer has.
NoStrangers == \A c \in awaiting : active[Of(c.o)] = c.o \/ Cancelled(Of(c.o))

WalkInv ==
    /\ Existing /\ TimersRetry /\ ActiveIsOwn /\ NoStrangers
    /\ OneStepAtATime /\ NobodyForgotten /\ JournalForgets

EngineInv == WorkflowTypeOK /\ WalkInv

\* The object of a continuation may change, but neither its run nor, from here,
\* whether it is cancelled.
OnlyObject(o) ==
    /\ DOMAIN objects' = DOMAIN objects
    /\ \A p \in DOMAIN objects : /\ objects'[p].run = objects[p].run
                                 /\ objects'[p].cancelled = objects[p].cancelled
                                 /\ p # o => objects'[p] = objects[p]

RunGoesOn(o) ==
    /\ active' = active
    /\ \A r \in Run : r # Of(o) => journal'[r] = journal[r]
    /\ journal' = journal \/ active[Of(o)] = o \/ Cancelled(Of(o))

RunIsOver(o) ==
    /\ active' = [active EXCEPT ![Of(o)] = 0]
    /\ journal' = [journal EXCEPT ![Of(o)] = NoRow]

WalkStep(c) ==
    /\ OnlyObject(c.o)
    /\ \/ awaiting' = Without(c) /\ active'[Of(c.o)] # c.o
       \/ \E d \in Continuation : /\ awaiting' = Without(c) \cup {d}
                                  /\ d.o = c.o
                                  /\ d.at = "timer" => d.a < MaxRetries
    /\ RunGoesOn(c.o) \/ (RunIsOver(c.o) /\ awaiting' = Without(c))
    /\ crashes' = crashes
-----------------------------------------------------------------------------
\* An object has a run.
LEMMA OfRun ==
    ASSUME objects \in Seq(ActiveRun), NEW o \in DOMAIN objects
    PROVE  objects[o] \in ActiveRun /\ Of(o) \in Run /\ o \in 1..Len(objects) /\ o # 0
<1>1. objects[o] \in ActiveRun
    OBVIOUS
<1> QED
    BY <1>1 DEF Of, ActiveRun

\* A step of a walk keeps the invariant.
LEMMA WalkKeeps ==
    ASSUME EngineInv, NEW c \in awaiting, WalkStep(c)
    PROVE  WalkInv'
<1> USE EngineAssumption
<1>t. WorkflowTypeOK /\ WalkInv
    BY DEF EngineInv
<1>c. c \in Continuation /\ c.o \in DOMAIN objects /\ Of(c.o) \in Run
    BY <1>t, OfRun DEF WorkflowTypeOK, WalkInv, Existing
<1>o. /\ DOMAIN objects' = DOMAIN objects
      /\ \A p \in DOMAIN objects : /\ objects'[p].run = objects[p].run
                                   /\ objects'[p].cancelled = objects[p].cancelled
                                   /\ p # c.o => objects'[p] = objects[p]
    BY DEF WalkStep, OnlyObject
<1>a. /\ \A r \in Run : r # Of(c.o) => active'[r] = active[r] /\ journal'[r] = journal[r]
      /\ active'[Of(c.o)] \in {0, active[Of(c.o)]}
    BY <1>t, <1>c DEF WalkStep, RunGoesOn, RunIsOver, WorkflowTypeOK
<1>w. \A d \in awaiting' : (d \in awaiting /\ d # c) \/ d.o = c.o
    BY DEF WalkStep, Without
<1>1. Existing'
    BY <1>t, <1>c, <1>o, <1>w DEF WalkInv, Existing
<1>2. TimersRetry'
    BY <1>t DEF WalkInv, TimersRetry, WalkStep, Without
<1>3. ActiveIsOwn'
    BY <1>t, <1>o, <1>a DEF WalkInv, ActiveIsOwn, Of
<1>one. \A d \in awaiting : d.o = c.o => d = c
    BY <1>t DEF WalkInv, OneStepAtATime
<1>5. \A r \in Run : Cancelled(r) => Cancelled(r)'
    BY <1>o DEF Cancelled, Of
<1>6. NoStrangers'
    <2> SUFFICES ASSUME NEW d \in awaiting'
                 PROVE  active'[Of(d.o)'] = d.o \/ Cancelled(Of(d.o))'
        BY DEF NoStrangers, Cancelled, Of
    <2>1. CASE d \in awaiting /\ d # c
        <3>1. d.o \in DOMAIN objects /\ Of(d.o)' = Of(d.o) /\ Of(d.o) \in Run
            BY <1>t, <1>o, <2>1, OfRun DEF WalkInv, Existing, Of, WorkflowTypeOK
        <3>2. CASE Cancelled(Of(d.o))
            BY <1>5, <3>1, <3>2 DEF Cancelled, Of
        <3>3. CASE active[Of(d.o)] = d.o
            <4>1. CASE Of(d.o) # Of(c.o)
                BY <1>a, <3>1, <3>3, <4>1
            <4>2. CASE Of(d.o) = Of(c.o)
                <5>1. active[Of(c.o)] # c.o
                    BY <1>one, <2>1, <3>3, <4>2
                <5>2. Cancelled(Of(c.o))
                    BY <5>1, <1>t DEF WalkInv, NoStrangers
                <5> QED
                    BY <5>2, <4>2, <1>5, <3>1 DEF Cancelled, Of
            <4> QED
                BY <4>1, <4>2
        <3> QED
            BY <3>2, <3>3, <1>t, <2>1 DEF WalkInv, NoStrangers
    <2>2. CASE ~(d \in awaiting /\ d # c)
        <3>1. d.o = c.o /\ Of(d.o)' = Of(c.o) /\ awaiting' # Without(c)
            BY <1>w, <1>c, <1>o, <2>2 DEF Of, Without
        <3>2. active' = active
            BY <3>1 DEF WalkStep, RunGoesOn
        <3>3. active[Of(c.o)] = c.o \/ Cancelled(Of(c.o))
            BY <1>t DEF WalkInv, NoStrangers
        <3> QED
            BY <3>1, <3>2, <3>3, <1>5, <1>c DEF Cancelled, Of
    <2> QED
        BY <2>1, <2>2
<1>7. OneStepAtATime'
    <2>1. \A d \in Without(c) : d \in awaiting /\ d.o # c.o
        BY <1>one DEF Without
    <2>2. CASE awaiting' = Without(c)
        BY <1>t, <2>1, <2>2 DEF WalkInv, OneStepAtATime
    <2>3. CASE \E d \in Continuation : awaiting' = Without(c) \cup {d} /\ d.o = c.o
        <3>1. PICK d \in Continuation : awaiting' = Without(c) \cup {d} /\ d.o = c.o
            BY <2>3
        <3> QED
            BY <1>t, <2>1, <3>1 DEF WalkInv, OneStepAtATime
    <2> QED
        BY <2>2, <2>3 DEF WalkStep
<1>8. NobodyForgotten'
    <2> SUFFICES ASSUME NEW r \in Run, active'[r] # 0
                 PROVE  \E d \in awaiting' : d.o = active'[r]
        BY DEF NobodyForgotten
    <2>1. active'[r] = active[r]
        BY <1>a, <1>c
    <2>2. active[r] \in DOMAIN objects
        BY <1>t, <2>1 DEF WalkInv, ActiveIsOwn
    <2>3. CASE active[r] = c.o
        <3>1. Of(c.o) = r
            BY <1>t, <2>1, <2>3 DEF WalkInv, ActiveIsOwn
        <3> QED
            BY <2>1, <2>3, <3>1 DEF WalkStep
    <2>4. CASE active[r] # c.o
        <3>1. PICK d \in awaiting : d.o = active[r]
            BY <1>t, <2>1 DEF WalkInv, NobodyForgotten
        <3>2. d \in awaiting'
            BY <2>4, <3>1 DEF WalkStep, Without
        <3> QED
            BY <2>1, <3>1, <3>2
    <2> QED
        BY <2>3, <2>4
<1>9. JournalForgets'
    <2> SUFFICES ASSUME NEW r \in Run, active'[r] = 0, journal'[r] # NoRow
                 PROVE  crashes' > 0 \/ Cancelled(r)'
        BY DEF JournalForgets, NoRow, Cancelled, Of
    <2>1. crashes' = crashes
        BY DEF WalkStep
    <2>2. CASE active[r] = 0 /\ journal[r] # NoRow
        BY <1>t, <1>5, <2>1, <2>2 DEF WalkInv, JournalForgets
    <2>3. CASE ~(active[r] = 0 /\ journal[r] # NoRow)
        <3>1. r = Of(c.o)
            BY <1>a, <2>3
        <3>2. CASE RunGoesOn(c.o)
            <4>1. active[r] = 0
                BY <3>2 DEF RunGoesOn
            <4>2. c.o # 0
                BY <1>c, <1>t DEF WorkflowTypeOK
            <4>3. Cancelled(r)
                BY <2>3, <3>1, <3>2, <4>1, <4>2 DEF RunGoesOn
            <4> QED
                BY <4>3, <1>5
        <3>3. CASE RunIsOver(c.o)
            BY <3>1, <3>3, <1>t DEF RunIsOver, WorkflowTypeOK
        <3> QED
            BY <3>2, <3>3 DEF WalkStep
    <2> QED
        BY <2>2, <2>3
<1> QED
    BY <1>1, <1>2, <1>3, <1>6, <1>7, <1>8, <1>9 DEF WalkInv
-----------------------------------------------------------------------------
\* What the server is told of the runs by a step: nothing, or that one ended.
NoNews == \A r \in Run : (active'[r] = 0 <=> active[r] = 0) /\ shown'[r][0] = shown[r][0]

EndOf(r, status) ==
    /\ active[r] # 0 /\ active'[r] = 0 /\ shown'[r][0] = status
    /\ \A q \in Run \ {r} : (active'[q] = 0 <=> active[q] = 0) /\ shown'[q][0] = shown[q][0]

Ended == {"completed", "failed", "cancelled"}

News == NoNews \/ \E r \in Run, status \in Ended : EndOf(r, status)

\* The variables a step of a walk reports with, and their types.
ReportTypes ==
    /\ active' \in [Run -> 0..MaxObjects]
    /\ journal' \in [Run -> Row \cup {NoRow}]
    /\ shown' \in Reported
    /\ observed' \subseteq Session

LEMMA ReportType ==
    ASSUME NEW t \in Reported, NEW r \in Run, NEW i \in 0..NodeCount,
           NEW status \in NodeStatus \cup RunStatus
    PROVE  /\ [t EXCEPT ![r][i] = status] \in Reported
           /\ [t EXCEPT ![r][i] = status][r][i] = status
           /\ \A q \in Run, j \in 0..NodeCount :
                q # r \/ j # i => [t EXCEPT ![r][i] = status][q][j] = t[q][j]
<1> DEFINE V == NodeStatus \cup RunStatus \cup {"none"}
<1>1. t \in [Run -> [0..NodeCount -> V]]
    BY DEF Reported
<1>2. status \in V
    OBVIOUS
<1> HIDE DEF V
<1>3. [t EXCEPT ![r][i] = status] \in [Run -> [0..NodeCount -> V]]
    BY <1>1, <1>2
<1>4. \A q \in Run, j \in 0..NodeCount :
          [t EXCEPT ![r][i] = status][q][j] = IF q = r /\ j = i THEN status ELSE t[q][j]
    BY <1>1
<1> QED
    BY <1>3, <1>4 DEF Reported, V

\* A run ends at most once, by whatever object: Finish.
LEMMA FinishEnds ==
    ASSUME EngineInv, NEW c \in awaiting, NEW status \in Ended, NEW told \in Reported,
           \A r \in Run : told[r][0] = shown[r][0],
           NEW row \in Row, NEW rows \in {journal, [journal EXCEPT ![Of(c.o)] = row]},
           Finish(c.o, status, told, rows)
    PROVE  /\ ReportTypes /\ News
           /\ active'[Of(c.o)] # c.o
           /\ RunGoesOn(c.o) \/ RunIsOver(c.o)
<1> USE EngineAssumption
<1>t. WorkflowTypeOK /\ WalkInv
    BY DEF EngineInv
<1>c. c \in Continuation /\ c.o \in DOMAIN objects /\ Of(c.o) \in Run /\ c.o # 0
    BY <1>t, OfRun DEF WorkflowTypeOK, WalkInv, Existing
<1>s. status \in NodeStatus \cup RunStatus
    BY DEF Ended, RunStatus
<1>0. 0 \in 0..NodeCount /\ 0 \in 0..MaxObjects
    OBVIOUS
<1>1. CASE Active(c.o)
    <2>1. /\ shown' = [told EXCEPT ![Of(c.o)][0] = status]
          /\ journal' = [rows EXCEPT ![Of(c.o)] = NoRow]
          /\ active' = [active EXCEPT ![Of(c.o)] = 0]
          /\ observed' = {}
        BY <1>1 DEF Finish
    <2>2. journal' = [journal EXCEPT ![Of(c.o)] = NoRow]
        BY <2>1, <1>t, <1>c DEF WorkflowTypeOK
    <2>3. shown' \in Reported /\ shown'[Of(c.o)][0] = status
          /\ \A q \in Run \ {Of(c.o)} : shown'[q][0] = shown[q][0]
        <3>1. PICK r \in Run : r = Of(c.o)
            BY <1>c
        <3>2. /\ [told EXCEPT ![r][0] = status] \in Reported
              /\ [told EXCEPT ![r][0] = status][r][0] = status
              /\ \A q \in Run : q # r => [told EXCEPT ![r][0] = status][q][0] = told[q][0]
            BY <1>s, <1>0, ReportType
        <3> QED
            BY <2>1, <3>1, <3>2
    <2>4. ReportTypes
        BY <2>1, <2>2, <2>3, <1>0, <1>c, <1>t DEF ReportTypes, WorkflowTypeOK
    <2>5. EndOf(Of(c.o), status)
        BY <2>1, <2>3, <1>1, <1>c, <1>t DEF EndOf, Active, WorkflowTypeOK
    <2> QED
        BY <2>1, <2>2, <2>4, <2>5, <1>c, <1>t DEF News, RunIsOver, WorkflowTypeOK
<1>2. CASE ~Active(c.o)
    <2>1. shown' = told /\ journal' = rows /\ active' = active /\ observed' = observed
        BY <1>2 DEF Finish
    <2>2. active[Of(c.o)] = 0
        BY <1>2 DEF Active
    <2>3. Cancelled(Of(c.o))
        BY <2>2, <1>c, <1>t DEF WalkInv, NoStrangers
    <2>4. journal' \in [Run -> Row \cup {NoRow}] /\ \A r \in Run : r # Of(c.o) => journal'[r] = journal[r]
        BY <2>1, <1>t, <1>c DEF WorkflowTypeOK
    <2> QED
        BY <2>1, <2>2, <2>3, <2>4, <1>t, <1>c DEF ReportTypes, News, NoNews, RunGoesOn, WorkflowTypeOK
<1> QED
    BY <1>1, <1>2

LEMMA FailEnds ==
    ASSUME EngineInv, NEW c \in awaiting, NEW told \in Reported,
           \A r \in Run : told[r][0] = shown[r][0], Fail(c.o, told)
    PROVE  /\ ReportTypes /\ News
           /\ active'[Of(c.o)] # c.o
           /\ RunGoesOn(c.o) \/ RunIsOver(c.o)
<1> USE EngineAssumption
<1>t. WorkflowTypeOK /\ WalkInv
    BY DEF EngineInv
<1>c. c.o \in DOMAIN objects /\ Of(c.o) \in Run /\ objects[c.o] \in ActiveRun /\ c \in Continuation
    BY <1>t, OfRun DEF WorkflowTypeOK, WalkInv, Existing
<1>i. objects[c.o].idx \in 0..NodeCount /\ objects[c.o].idx # 0 /\ 0 \in 0..NodeCount
    BY <1>c DEF ActiveRun, Node
<1> DEFINE t == IF Active(c.o) THEN [told EXCEPT ![Of(c.o)][objects[c.o].idx] = "failed"] ELSE told
<1>1. t \in Reported /\ \A r \in Run : t[r][0] = shown[r][0]
    BY <1>c, <1>i, ReportType, SMTT(40) DEF RunStatus
<1>2. [idx |-> c.i, a |-> c.a] \in Row
    BY <1>c DEF Row, Continuation
<1>j. PICK row \in Row : TRUE
    BY <1>2
<1>3. Finish(c.o, "failed", t, journal)
    BY DEF Fail
<1> HIDE DEF t
<1> QED
    BY <1>1, <1>3, FinishEnds DEF Ended

\* A report of one node.
LEMMA TellTypes ==
    ASSUME EngineInv, NEW c \in awaiting, NEW status \in NodeStatus,
           shown' = Report(Of(c.o), c.i, status), active' = active
    PROVE  /\ shown' \in Reported /\ NoNews
           /\ active' \in [Run -> 0..MaxObjects]
           /\ \A r \in Run : Report(Of(c.o), c.i, status)[r][0] = shown[r][0]
<1> USE EngineAssumption
<1>t. WorkflowTypeOK /\ WalkInv
    BY DEF EngineInv
<1>c. c.o \in DOMAIN objects /\ Of(c.o) \in Run /\ c \in Continuation
    BY <1>t, OfRun DEF WorkflowTypeOK, WalkInv, Existing
<1>i. c.i \in 0..NodeCount /\ c.i # 0 /\ 0 \in 0..NodeCount
    BY <1>c DEF Continuation, Node
<1>1. PICK r \in Run : r = Of(c.o)
    BY <1>c
<1>2. shown \in Reported /\ active \in [Run -> 0..MaxObjects]
    BY <1>t DEF WorkflowTypeOK
<1>3. /\ [shown EXCEPT ![r][c.i] = status] \in Reported
      /\ \A q \in Run : [shown EXCEPT ![r][c.i] = status][q][0] = shown[q][0]
    BY <1>2, <1>i, ReportType
<1>4. Report(Of(c.o), c.i, status) = [shown EXCEPT ![r][c.i] = status]
    BY <1>1 DEF Report
<1> QED
    BY <1>2, <1>3, <1>4 DEF NoNews

\* What is known of a continuation.
LEMMA OfContinuation ==
    ASSUME EngineInv, NEW c \in awaiting
    PROVE  /\ c \in Continuation /\ c.o \in DOMAIN objects /\ Of(c.o) \in Run
           /\ objects[c.o] \in ActiveRun /\ SessionOf(c) \in Session
           /\ c.o \in Object /\ c.i \in Node /\ c.a \in Attempt /\ c.o # 0
           /\ [idx |-> c.i, a |-> c.a] \in Row
           /\ \A at \in Wait, out \in Outcome \cup {"open"} :
                [c EXCEPT !.at = at, !.out = out] \in Continuation
           /\ \A out \in Outcome : [c EXCEPT !.out = out] \in Continuation
<1>t. WorkflowTypeOK /\ WalkInv
    BY DEF EngineInv
<1>1. c \in Continuation /\ c.o \in DOMAIN objects /\ Of(c.o) \in Run
      /\ objects[c.o] \in ActiveRun /\ c.o # 0
    BY <1>t, OfRun DEF WorkflowTypeOK, WalkInv, Existing
<1> QED
    BY <1>1 DEF Continuation, Session, SessionOf, Row

\* An update of an object that keeps its run and its cancellation.
LEMMA ObjectUpdate ==
    ASSUME EngineInv, NEW c \in awaiting, NEW e \in ActiveRun,
           e.run = objects[c.o].run, e.cancelled = objects[c.o].cancelled,
           objects' = [objects EXCEPT ![c.o] = e]
    PROVE  /\ objects' \in Seq(ActiveRun) /\ Len(objects') <= MaxObjects
           /\ OnlyObject(c.o) /\ objects'[c.o] = e
<1>1. objects \in Seq(ActiveRun) /\ Len(objects) <= MaxObjects
    BY DEF EngineInv, WorkflowTypeOK
<1>2. c.o \in DOMAIN objects
    BY OfContinuation
<1>3. DOMAIN objects' = DOMAIN objects /\ objects'[c.o] = e
      /\ \A p \in DOMAIN objects : p # c.o => objects'[p] = objects[p]
    BY <1>1, <1>2
<1>4. objects' \in Seq(ActiveRun) /\ Len(objects') = Len(objects)
    BY <1>1, <1>2
<1> QED
    BY <1>1, <1>2, <1>3, <1>4 DEF OnlyObject

LEMMA ObjectKept ==
    ASSUME EngineInv, objects' = objects
    PROVE  /\ objects' \in Seq(ActiveRun) /\ Len(objects') <= MaxObjects
           /\ \A c \in awaiting : OnlyObject(c.o)
<1> QED
    BY DEF EngineInv, WorkflowTypeOK, OnlyObject
-----------------------------------------------------------------------------
\* The variables a step of a walk decides, and their types.
WalkTypes ==
    /\ objects' \in Seq(ActiveRun) /\ Len(objects') <= MaxObjects
    /\ awaiting' \subseteq Continuation
    /\ ReportTypes

Walks(c) == WalkTypes /\ WalkStep(c) /\ News

\* A continuation is dropped with the end of its run.
LEMMA DropEnds ==
    ASSUME EngineInv, NEW c \in awaiting, awaiting' = Without(c), crashes' = crashes,
           OnlyObject(c.o), objects' \in Seq(ActiveRun), Len(objects') <= MaxObjects,
           ReportTypes, News, active'[Of(c.o)] # c.o,
           RunGoesOn(c.o) \/ RunIsOver(c.o)
    PROVE  Walks(c)
<1>1. awaiting' \subseteq Continuation
    BY DEF EngineInv, WorkflowTypeOK, Without
<1> QED
    BY <1>1 DEF Walks, WalkTypes, WalkStep

\* A continuation is replaced by the next one of its object, with a report of
\* its node or none, and the journal as it is or with a row of the node.
LEMMA NextGoesOn ==
    ASSUME EngineInv, NEW c \in awaiting, NEW d \in Continuation,
           awaiting' = Without(c) \cup {d}, d.o = c.o,
           d.at = "timer" => d.a < MaxRetries,
           crashes' = crashes,
           OnlyObject(c.o), objects' \in Seq(ActiveRun), Len(objects') <= MaxObjects,
           NEW status \in NodeStatus,
           shown' = shown \/ shown' = Report(Of(c.o), c.i, status),
           active' = active,
           NEW row \in Row,
           journal' = journal \/ journal' = [journal EXCEPT ![Of(c.o)] = row],
           observed' \subseteq Session
    PROVE  Walks(c)
<1>t. WorkflowTypeOK /\ WalkInv
    BY DEF EngineInv
<1>1. awaiting' \subseteq Continuation
    BY <1>t DEF WorkflowTypeOK, Without
<1>2. Of(c.o) \in Run
    BY OfContinuation
<1>3. shown' \in Reported /\ NoNews
    BY <1>t, TellTypes DEF NoNews, WorkflowTypeOK
<1>4. journal' \in [Run -> Row \cup {NoRow}] /\ \A r \in Run : r # Of(c.o) => journal'[r] = journal[r]
    BY <1>t, <1>2 DEF WorkflowTypeOK
<1>5. active[Of(c.o)] = c.o \/ Cancelled(Of(c.o))
    BY <1>t DEF WalkInv, NoStrangers
<1>6. ReportTypes
    BY <1>t, <1>3, <1>4 DEF ReportTypes, WorkflowTypeOK
<1>7. RunGoesOn(c.o)
    BY <1>4, <1>5 DEF RunGoesOn
<1>8. WalkStep(c)
    BY <1>7 DEF WalkStep
<1> QED
    BY <1>1, <1>3, <1>6, <1>8 DEF Walks, WalkTypes, News

LEMMA RetryOrFailWalks ==
    ASSUME EngineInv, NEW c \in awaiting, RetryOrFail(c), objects' = objects, crashes' = crashes
    PROVE  Walks(c)
<1>t. WorkflowTypeOK /\ WalkInv
    BY DEF EngineInv
<1>o. objects' \in Seq(ActiveRun) /\ Len(objects') <= MaxObjects /\ OnlyObject(c.o)
    BY ObjectKept
<1>1. CASE c.a < MaxRetries
    <2> DEFINE d == [c EXCEPT !.at = "timer", !.out = "open"]
    <2>1. /\ awaiting' = Without(c) \cup {d}
          /\ shown' = Report(Of(c.o), c.i, "starting")
          /\ active' = active /\ journal' = journal /\ observed' = observed
        BY <1>1 DEF RetryOrFail, Then, Tell
    <2>2. d \in Continuation
        BY OfContinuation DEF Wait
    <2>3. d.o = c.o /\ d.at = "timer" /\ d.a = c.a
        BY OfContinuation DEF Continuation
    <2>4. observed' \subseteq Session /\ [idx |-> c.i, a |-> c.a] \in Row /\ "starting" \in NodeStatus
        BY <1>t, <2>1, OfContinuation DEF WorkflowTypeOK, NodeStatus
    <2> HIDE DEF d
    <2> QED
        BY <1>1, <1>o, <2>1, <2>2, <2>3, <2>4, NextGoesOn
<1>2. CASE ~(c.a < MaxRetries)
    <2>1. awaiting' = Without(c) /\ Fail(c.o, shown)
        BY <1>2 DEF RetryOrFail
    <2>2. shown \in Reported
        BY <1>t DEF WorkflowTypeOK
    <2> QED
        BY <1>o, <2>1, <2>2, FailEnds, DropEnds
<1> QED
    BY <1>1, <1>2

LEMMA ConfirmWalks ==
    ASSUME EngineInv, NEW c \in awaiting, Confirm(c), crashes' = crashes
    PROVE  Walks(c) /\ confirmed' \subseteq Session
<1> USE EngineAssumption
<1>t. WorkflowTypeOK /\ WalkInv
    BY DEF EngineInv
<1>c. /\ c \in Continuation /\ c.o \in DOMAIN objects /\ Of(c.o) \in Run /\ c.o # 0
      /\ objects[c.o] \in ActiveRun /\ SessionOf(c) \in Session /\ c.i \in Node
      /\ c.o \in Object /\ [idx |-> c.i, a |-> c.a] \in Row
    BY OfContinuation
<1> DEFINE told == Report(Of(c.o), c.i, "completed")
           rows == [journal EXCEPT ![Of(c.o)] = [idx |-> c.i, a |-> c.a]]
<1>0. "completed" \in NodeStatus
    BY DEF NodeStatus
<1>r. told \in Reported /\ \A r \in Run : told[r][0] = shown[r][0]
    <2>1. PICK r \in Run : r = Of(c.o)
        BY <1>c
    <2>2. c.i \in 0..NodeCount /\ c.i # 0 /\ 0 \in 0..NodeCount /\ shown \in Reported
        BY <1>c, <1>t DEF Node, WorkflowTypeOK
    <2>3. /\ [shown EXCEPT ![r][c.i] = "completed"] \in Reported
          /\ \A q \in Run : [shown EXCEPT ![r][c.i] = "completed"][q][0] = shown[q][0]
        BY <1>0, <2>2, ReportType
    <2> QED
        BY <2>1, <2>3 DEF Report
<1>1. CASE objects[c.o].cancelled
    <2>1. /\ awaiting' = Without(c)
          /\ UNCHANGED <<objects, active, journal, shown, observed, confirmed>>
        BY <1>1 DEF Confirm
    <2>2. active[Of(c.o)] # c.o
        BY <1>1, <1>t, <1>c DEF WalkInv, ActiveIsOwn
    <2>3. ReportTypes /\ News /\ RunGoesOn(c.o)
        BY <2>1, <1>t DEF ReportTypes, News, NoNews, RunGoesOn, WorkflowTypeOK
    <2>4. Walks(c)
        BY <2>1, <2>2, <2>3, ObjectKept, DropEnds
    <2> QED
        BY <2>1, <2>4, <1>t DEF WorkflowTypeOK
<1>2. CASE ~objects[c.o].cancelled
    <2>1. /\ confirmed' = confirmed \cup {SessionOf(c)}
          /\ IF c.i = NodeCount
             THEN /\ objects' = [objects EXCEPT ![c.o].st = "completed"]
                  /\ awaiting' = Without(c)
                  /\ Finish(c.o, "completed", told, rows)
             ELSE /\ objects' = [objects EXCEPT ![c.o].st = "completed", ![c.o].idx = c.i + 1]
                  /\ awaiting' = Without(c) \cup {Begin(c.o, c.i + 1, 0)}
                  /\ shown' = told
                  /\ journal' = rows
                  /\ UNCHANGED <<active, observed>>
        BY <1>2 DEF Confirm
    <2>2. confirmed' \subseteq Session
        BY <2>1, <1>t, <1>c DEF WorkflowTypeOK
    <2>3. CASE c.i = NodeCount
        <3> DEFINE e == [objects[c.o] EXCEPT !.st = "completed"]
        <3>1. e \in ActiveRun /\ e.run = objects[c.o].run /\ e.cancelled = objects[c.o].cancelled
            BY <1>c, <1>0 DEF ActiveRun
        <3>2. objects' = [objects EXCEPT ![c.o] = e]
            BY <2>1, <2>3
        <3>3. Finish(c.o, "completed", told, rows) /\ awaiting' = Without(c)
            BY <2>1, <2>3
        <3> HIDE DEF e, told
        <3>4. ReportTypes /\ News /\ active'[Of(c.o)] # c.o /\ (RunGoesOn(c.o) \/ RunIsOver(c.o))
            BY <3>3, <1>r, <1>c, FinishEnds DEF Ended
        <3>5. objects' \in Seq(ActiveRun) /\ Len(objects') <= MaxObjects /\ OnlyObject(c.o)
            BY <3>1, <3>2, ObjectUpdate
        <3> QED
            BY <2>2, <3>3, <3>4, <3>5, DropEnds
    <2>4. CASE c.i # NodeCount
        <3> DEFINE e == [objects[c.o] EXCEPT !.st = "completed", !.idx = c.i + 1]
                   d == Begin(c.o, c.i + 1, 0)
        <3>0. c.i + 1 \in Node /\ 0 \in Attempt
            BY <1>c, <2>4 DEF Node, Attempt
        <3>1. e \in ActiveRun /\ e.run = objects[c.o].run /\ e.cancelled = objects[c.o].cancelled
            BY <1>c, <1>0, <3>0 DEF ActiveRun
        <3>2. objects' = [objects EXCEPT ![c.o] = e]
            BY <2>1, <2>4
        <3>3. d \in Continuation /\ d.o = c.o /\ d.at = "probe"
            BY <3>0, <1>c DEF Begin, Continuation, Wait
        <3>4. awaiting' = Without(c) \cup {d} /\ shown' = told /\ journal' = rows
              /\ active' = active /\ observed' = observed
            BY <2>1, <2>4
        <3>5. observed' \subseteq Session
            BY <3>4, <1>t DEF WorkflowTypeOK
        <3> HIDE DEF d, e
        <3>6. objects' \in Seq(ActiveRun) /\ Len(objects') <= MaxObjects /\ OnlyObject(c.o)
            BY <3>1, <3>2, ObjectUpdate
        <3>7. Walks(c)
            BY <1>0, <1>c, <3>3, <3>4, <3>5, <3>6, NextGoesOn
        <3> QED
            BY <2>2, <3>7
    <2> QED
        BY <2>3, <2>4
<1> QED
    BY <1>1, <1>2
-----------------------------------------------------------------------------
\* The types that a step of a walk leaves to its action.
RestTypes ==
    /\ turns' \subseteq Session /\ started' \subseteq Session /\ confirmed' \subseteq Session
    /\ online' \in BOOLEAN /\ crashes' = crashes /\ breaks' = breaks

LEMMA WalksKeep ==
    ASSUME EngineInv, NEW c \in awaiting, Walks(c), RestTypes
    PROVE  EngineInv' /\ News
<1>1. WorkflowTypeOK'
    BY DEF Walks, WalkTypes, ReportTypes, RestTypes, EngineInv, WorkflowTypeOK
<1>2. WalkInv'
    BY WalkKeeps DEF Walks
<1> QED
    BY <1>1, <1>2 DEF EngineInv, Walks

LEMMA ProbedKeeps ==
    ASSUME EngineInv, NEW c \in awaiting, Probed(c)
    PROVE  EngineInv' /\ News
<1>t. WorkflowTypeOK /\ WalkInv
    BY DEF EngineInv
<1>r. UNCHANGED <<turns, online, confirmed, crashes, breaks>>
    BY DEF Probed
<1>1. CASE awaiting' = Without(c) /\ Fail(c.o, shown) /\ UNCHANGED <<objects, started>>
    <2>1. Walks(c)
        BY <1>1, <1>t, <1>r, FailEnds, DropEnds, ObjectKept DEF WorkflowTypeOK
    <2> QED
        BY <2>1, <1>1, <1>t, <1>r, WalksKeep DEF RestTypes, WorkflowTypeOK
<1>2. CASE /\ objects' = [objects EXCEPT ![c.o].st = "starting"]
           /\ awaiting' = Then(c, "start")
           /\ started' = started \cup {SessionOf(c)}
           /\ shown' = Report(Of(c.o), c.i, "starting")
           /\ journal' = [journal EXCEPT ![Of(c.o)] = [idx |-> c.i, a |-> c.a]]
           /\ UNCHANGED <<active, observed>>
    <2> DEFINE e == [objects[c.o] EXCEPT !.st = "starting"]
               d == [c EXCEPT !.at = "start", !.out = "open"]
    <2>1. e \in ActiveRun /\ e.run = objects[c.o].run /\ e.cancelled = objects[c.o].cancelled
        BY OfContinuation DEF ActiveRun, NodeStatus
    <2>d. d \in Continuation
        BY OfContinuation DEF Wait
    <2>2. d \in Continuation /\ d.o = c.o /\ d.at = "start"
        BY <2>d, OfContinuation DEF Continuation
    <2>3. objects' = [objects EXCEPT ![c.o] = e] /\ awaiting' = Without(c) \cup {d}
        BY <1>2 DEF Then
    <2>4. observed' \subseteq Session /\ [idx |-> c.i, a |-> c.a] \in Row /\ "starting" \in NodeStatus
        BY <1>2, <1>t, OfContinuation DEF WorkflowTypeOK, NodeStatus
    <2> HIDE DEF d, e
    <2>5. objects' \in Seq(ActiveRun) /\ Len(objects') <= MaxObjects /\ OnlyObject(c.o)
        BY <2>1, <2>3, ObjectUpdate
    <2>6. Walks(c)
        BY <1>2, <1>r, <2>2, <2>3, <2>4, <2>5, NextGoesOn
    <2>7. started' \subseteq Session
        BY <1>2, <1>t, OfContinuation DEF WorkflowTypeOK
    <2> QED
        BY <2>6, <2>7, <1>t, <1>r, WalksKeep DEF RestTypes, WorkflowTypeOK
<1> QED
    BY <1>1, <1>2 DEF Probed

LEMMA StartedKeeps ==
    ASSUME EngineInv, NEW c \in awaiting, Started(c)
    PROVE  EngineInv' /\ News
<1>t. WorkflowTypeOK /\ WalkInv
    BY DEF EngineInv
<1>r. UNCHANGED <<online, started, confirmed, crashes, breaks>>
    BY DEF Started
<1>1. CASE awaiting' = Without(c) /\ Fail(c.o, shown) /\ UNCHANGED <<objects, turns>>
    <2>1. Walks(c)
        BY <1>1, <1>t, <1>r, FailEnds, DropEnds, ObjectKept DEF WorkflowTypeOK
    <2> QED
        BY <2>1, <1>1, <1>t, <1>r, WalksKeep DEF RestTypes, WorkflowTypeOK
<1>2. CASE /\ objects' = [objects EXCEPT ![c.o].st = "running"]
           /\ awaiting' = Then(c, "turn")
           /\ turns' \in {turns, turns \cup {SessionOf(c)}}
           /\ observed' = observed \cup {SessionOf(c)}
           /\ shown' = Report(Of(c.o), c.i, "running")
           /\ journal' = [journal EXCEPT ![Of(c.o)] = [idx |-> c.i, a |-> c.a]]
           /\ UNCHANGED active
    <2> DEFINE e == [objects[c.o] EXCEPT !.st = "running"]
               d == [c EXCEPT !.at = "turn", !.out = "open"]
    <2>1. e \in ActiveRun /\ e.run = objects[c.o].run /\ e.cancelled = objects[c.o].cancelled
        BY OfContinuation DEF ActiveRun, NodeStatus
    <2>d. d \in Continuation
        BY OfContinuation DEF Wait
    <2>2. d \in Continuation /\ d.o = c.o /\ d.at = "turn"
        BY <2>d, OfContinuation DEF Continuation
    <2>3. objects' = [objects EXCEPT ![c.o] = e] /\ awaiting' = Without(c) \cup {d}
        BY <1>2 DEF Then
    <2>4. /\ observed' \subseteq Session /\ turns' \subseteq Session
          /\ [idx |-> c.i, a |-> c.a] \in Row /\ "running" \in NodeStatus
        BY <1>2, <1>t, OfContinuation DEF WorkflowTypeOK, NodeStatus
    <2> HIDE DEF d, e
    <2>5. objects' \in Seq(ActiveRun) /\ Len(objects') <= MaxObjects /\ OnlyObject(c.o)
          /\ objects'[c.o] = e
        BY <2>1, <2>3, ObjectUpdate
    <2>6. Walks(c)
        BY <1>2, <1>r, <2>1, <2>2, <2>3, <2>4, <2>5, NextGoesOn
    <2> QED
        BY <2>4, <2>6, <1>t, <1>r, WalksKeep DEF RestTypes, WorkflowTypeOK
<1> QED
    BY <1>1, <1>2 DEF Started

\* A wait that settles.
LEMMA SettleKeeps ==
    ASSUME EngineInv, NEW c \in awaiting, c.at \in {"turn", "verify"}, NEW outcome \in Outcome,
           awaiting' = Settle(c, outcome),
           UNCHANGED <<objects, active, observed, turns, journal, shown, online, started, confirmed,
                       crashes, breaks>>
    PROVE  EngineInv' /\ News
<1>t. WorkflowTypeOK /\ WalkInv
    BY DEF EngineInv
<1> DEFINE d == [c EXCEPT !.out = outcome]
<1>1. d \in Continuation /\ d.o = c.o /\ d.at = c.at
    BY OfContinuation DEF Continuation
<1>2. awaiting' = Without(c) \cup {d}
    BY DEF Settle
<1>4. observed' \subseteq Session /\ [idx |-> c.i, a |-> c.a] \in Row /\ "running" \in NodeStatus
    BY <1>t, OfContinuation DEF WorkflowTypeOK, NodeStatus
<1> HIDE DEF d
<1>5. Walks(c)
    BY <1>1, <1>2, <1>4, ObjectKept, NextGoesOn
<1> QED
    BY <1>5, <1>t, WalksKeep DEF RestTypes, WorkflowTypeOK

LEMMA WaitCancelledKeeps ==
    ASSUME EngineInv, NEW c \in awaiting, WaitCancelled(c)
    PROVE  EngineInv' /\ News
<1> QED
    BY SettleKeeps DEF WaitCancelled, Outcome

LEMMA NodeTimeoutKeeps ==
    ASSUME EngineInv, NEW c \in awaiting, NodeTimeout(c)
    PROVE  EngineInv' /\ News
<1>t. WorkflowTypeOK /\ WalkInv
    BY DEF EngineInv
<1>1. CASE c.at = "verify"
    BY <1>1, SettleKeeps DEF NodeTimeout, Outcome
<1>2. CASE c.at # "verify"
    <2> DEFINE d == [c EXCEPT !.at = "dropped", !.out = "open"]
    <2>1. /\ awaiting' = Without(c) \cup {d}
          /\ UNCHANGED <<objects, active, observed, turns, journal, shown, online, started,
                         confirmed, crashes, breaks>>
        BY <1>2 DEF NodeTimeout, Then
    <2>2. "dropped" \in Wait
        BY DEF Wait
    <2>3. d \in Continuation /\ d.o = c.o /\ d.at = "dropped"
        BY <2>2, OfContinuation DEF Continuation
    <2>4. observed' \subseteq Session /\ [idx |-> c.i, a |-> c.a] \in Row /\ "running" \in NodeStatus
        BY <2>1, <1>t, OfContinuation DEF WorkflowTypeOK, NodeStatus
    <2> HIDE DEF d
    <2>5. Walks(c)
        BY <2>1, <2>3, <2>4, ObjectKept, NextGoesOn
    <2> QED
        BY <2>1, <2>5, <1>t, WalksKeep DEF RestTypes, WorkflowTypeOK
<1> QED
    BY <1>1, <1>2
-----------------------------------------------------------------------------
LEMMA EnterConditionWalks ==
    ASSUME EngineInv, NEW c \in awaiting, EnterCondition(c), crashes' = crashes
    PROVE  Walks(c) /\ turns' \subseteq Session
<1> USE EngineAssumption
<1>t. WorkflowTypeOK /\ WalkInv
    BY DEF EngineInv
<1>c. /\ c \in Continuation /\ c.o \in DOMAIN objects /\ objects[c.o] \in ActiveRun
      /\ SessionOf(c) \in Session /\ [idx |-> c.i, a |-> c.a] \in Row
    BY OfContinuation
<1>1. CASE /\ objects' = [objects EXCEPT ![c.o].st = "waiting_approval"]
           /\ awaiting' = Then(c, "gate")
           /\ Tell(c.o, c.i, "waiting_approval")
           /\ UNCHANGED <<observed, turns>>
    <2> DEFINE e == [objects[c.o] EXCEPT !.st = "waiting_approval"]
               d == [c EXCEPT !.at = "gate", !.out = "open"]
    <2>1. e \in ActiveRun /\ e.run = objects[c.o].run /\ e.cancelled = objects[c.o].cancelled
        BY <1>c DEF ActiveRun, NodeStatus
    <2>d. d \in Continuation
        BY OfContinuation DEF Wait
    <2>2. d.o = c.o /\ d.at = "gate"
        BY <1>c DEF Continuation
    <2>3. objects' = [objects EXCEPT ![c.o] = e] /\ awaiting' = Without(c) \cup {d}
        BY <1>1 DEF Then
    <2>4. observed' \subseteq Session /\ turns' \subseteq Session /\ "waiting_approval" \in NodeStatus
          /\ shown' = Report(Of(c.o), c.i, "waiting_approval") /\ active' = active /\ journal' = journal
        BY <1>1, <1>t DEF WorkflowTypeOK, NodeStatus, Tell
    <2> HIDE DEF d, e
    <2>5. objects' \in Seq(ActiveRun) /\ Len(objects') <= MaxObjects /\ OnlyObject(c.o)
        BY <2>1, <2>3, ObjectUpdate
    <2> QED
        BY <1>c, <2>2, <2>d, <2>3, <2>4, <2>5, NextGoesOn
<1>u. objects[c.o].used + 1 \in Nat
    BY <1>c DEF ActiveRun
<1> DEFINE u == objects[c.o].used + 1
           e == [objects[c.o] EXCEPT !.st = "verifying", !.used = u]
<1> HIDE DEF u
<1>v. u \in Nat
    BY <1>u DEF u
<1>2. e \in ActiveRun /\ e.run = objects[c.o].run /\ e.cancelled = objects[c.o].cancelled
    BY <1>c, <1>v DEF ActiveRun, NodeStatus
<1>3. CASE /\ objects' = [objects EXCEPT ![c.o].st = "verifying", ![c.o].used = objects[c.o].used + 1]
           /\ awaiting' = Without(c)
           /\ Fail(c.o, Report(Of(c.o), c.i, "verifying"))
           /\ UNCHANGED turns
    <2>1. objects' = [objects EXCEPT ![c.o] = e]
        BY <1>3 DEF u
    <2> HIDE DEF e
    <2>2. objects' \in Seq(ActiveRun) /\ Len(objects') <= MaxObjects /\ OnlyObject(c.o)
        BY <1>2, <2>1, ObjectUpdate
    <2>3. PICK r \in Run : r = Of(c.o)
        BY OfContinuation
    <2>n. c.i \in 1..NodeCount
        BY OfContinuation DEF Node
    <2>4. c.i \in 0..NodeCount /\ c.i # 0 /\ 0 \in 0..NodeCount /\ shown \in Reported
        BY <2>n, <1>t DEF WorkflowTypeOK
    <2>5. /\ [shown EXCEPT ![r][c.i] = "verifying"] \in Reported
          /\ \A q \in Run : [shown EXCEPT ![r][c.i] = "verifying"][q][0] = shown[q][0]
        <3>1. "verifying" \in NodeStatus
            BY DEF NodeStatus
        <3>2. ASSUME NEW status \in NodeStatus
              PROVE  /\ [shown EXCEPT ![r][c.i] = status] \in Reported
                     /\ \A q \in Run : [shown EXCEPT ![r][c.i] = status][q][0] = shown[q][0]
            BY <2>4, ReportType
        <3> QED
            BY <3>1, <3>2
    <2>6. /\ Report(Of(c.o), c.i, "verifying") \in Reported
          /\ \A q \in Run : Report(Of(c.o), c.i, "verifying")[q][0] = shown[q][0]
        BY <2>3, <2>5 DEF Report
    <2>7. ReportTypes /\ News /\ active'[Of(c.o)] # c.o /\ (RunGoesOn(c.o) \/ RunIsOver(c.o))
        BY <1>3, <2>6, FailEnds
    <2> QED
        BY <1>3, <1>t, <2>2, <2>7, DropEnds DEF WorkflowTypeOK
<1>4. CASE /\ objects' = [objects EXCEPT ![c.o].st = "verifying", ![c.o].used = objects[c.o].used + 1]
           /\ awaiting' = Then(c, "verify")
           /\ observed' = observed \cup {SessionOf(c)}
           /\ turns' \in {turns, turns \cup {SessionOf(c)}}
           /\ Tell(c.o, c.i, "verifying")
    <2> DEFINE d == [c EXCEPT !.at = "verify", !.out = "open"]
    <2>d. d \in Continuation
        BY OfContinuation DEF Wait
    <2>2. d.o = c.o /\ d.at = "verify"
        BY <1>c DEF Continuation
    <2>3. objects' = [objects EXCEPT ![c.o] = e] /\ awaiting' = Without(c) \cup {d}
        BY <1>4 DEF Then, u
    <2>4. observed' \subseteq Session /\ turns' \subseteq Session /\ "verifying" \in NodeStatus
          /\ shown' = Report(Of(c.o), c.i, "verifying") /\ active' = active /\ journal' = journal
        BY <1>4, <1>t, <1>c DEF WorkflowTypeOK, NodeStatus, Tell
    <2> HIDE DEF d, e
    <2>5. objects' \in Seq(ActiveRun) /\ Len(objects') <= MaxObjects /\ OnlyObject(c.o)
        BY <1>2, <2>3, ObjectUpdate
    <2> QED
        BY <1>c, <2>2, <2>d, <2>3, <2>4, <2>5, NextGoesOn
<1> QED
    BY <1>1, <1>3, <1>4 DEF EnterCondition

LEMMA TaskTurnOverWalks ==
    ASSUME EngineInv, NEW c \in awaiting, TaskTurnOver(c), crashes' = crashes
    PROVE  Walks(c) /\ turns' \subseteq Session
<1>t. WorkflowTypeOK /\ WalkInv
    BY DEF EngineInv
<1>1. CASE /\ active[Of(c.o)] # c.o
           /\ awaiting' = Without(c)
           /\ UNCHANGED <<objects, active, observed, turns, journal, shown>>
    <2>1. ReportTypes /\ News /\ RunGoesOn(c.o) /\ turns' \subseteq Session
        BY <1>1, <1>t DEF ReportTypes, News, NoNews, RunGoesOn, WorkflowTypeOK
    <2> QED
        BY <1>1, <2>1, ObjectKept, DropEnds
<1>2. CASE RetryOrFail(c) /\ UNCHANGED <<objects, turns>>
    BY <1>2, <1>t, RetryOrFailWalks DEF WorkflowTypeOK
<1>3. CASE EnterCondition(c)
    BY <1>3, EnterConditionWalks
<1> QED
    BY <1>1, <1>2, <1>3 DEF TaskTurnOver

LEMMA VerificationOverWalks ==
    ASSUME EngineInv, NEW c \in awaiting, VerificationOver(c), crashes' = crashes
    PROVE  Walks(c) /\ turns' = turns /\ confirmed' \subseteq Session
<1>t. WorkflowTypeOK /\ WalkInv
    BY DEF EngineInv
<1>0. turns' = turns
    BY DEF VerificationOver
<1>1. CASE awaiting' = Without(c) /\ Fail(c.o, shown) /\ UNCHANGED <<objects, confirmed>>
    <2>1. shown \in Reported /\ confirmed' \subseteq Session
        BY <1>1, <1>t DEF WorkflowTypeOK
    <2> QED
        BY <1>0, <1>1, <2>1, FailEnds, DropEnds, ObjectKept
<1>2. CASE Confirm(c)
    BY <1>0, <1>2, ConfirmWalks
<1>3. CASE RetryOrFail(c) /\ UNCHANGED <<objects, confirmed>>
    BY <1>0, <1>3, <1>t, RetryOrFailWalks DEF WorkflowTypeOK
<1> QED
    BY <1>1, <1>2, <1>3 DEF VerificationOver

LEMMA ResumeKeeps ==
    ASSUME EngineInv, NEW c \in awaiting, Resume(c)
    PROVE  EngineInv' /\ News
<1>t. WorkflowTypeOK
    BY DEF EngineInv
<1>r. UNCHANGED <<online, started, crashes, breaks>>
    BY DEF Resume
<1>1. CASE TaskTurnOver(c) /\ UNCHANGED confirmed
    <2>1. Walks(c) /\ turns' \subseteq Session
        BY <1>1, <1>r, TaskTurnOverWalks
    <2> QED
        BY <1>1, <1>r, <1>t, <2>1, WalksKeep DEF RestTypes, WorkflowTypeOK
<1>2. CASE VerificationOver(c)
    <2>1. Walks(c) /\ turns' = turns /\ confirmed' \subseteq Session
        BY <1>2, <1>r, VerificationOverWalks
    <2> QED
        BY <1>r, <1>t, <2>1, WalksKeep DEF RestTypes, WorkflowTypeOK
<1> QED
    BY <1>1, <1>2 DEF Resume

LEMMA GateDecidedKeeps ==
    ASSUME EngineInv, NEW c \in awaiting, GateDecided(c)
    PROVE  EngineInv' /\ News
<1>t. WorkflowTypeOK
    BY DEF EngineInv
<1>r. UNCHANGED <<turns, online, started, crashes, breaks>>
    BY DEF GateDecided
<1>1. CASE Confirm(c)
    <2>1. Walks(c) /\ confirmed' \subseteq Session
        BY <1>1, <1>r, ConfirmWalks
    <2> QED
        BY <1>r, <1>t, <2>1, WalksKeep DEF RestTypes, WorkflowTypeOK
<1>2. CASE awaiting' = Without(c) /\ Fail(c.o, shown) /\ UNCHANGED <<objects, confirmed>>
    <2>1. shown \in Reported /\ confirmed' \subseteq Session
        BY <1>2, <1>t DEF WorkflowTypeOK
    <2>2. Walks(c)
        BY <1>2, <1>r, <2>1, FailEnds, DropEnds, ObjectKept
    <2> QED
        BY <1>r, <1>t, <2>1, <2>2, WalksKeep DEF RestTypes, WorkflowTypeOK
<1> QED
    BY <1>1, <1>2 DEF GateDecided

LEMMA RetryTimerKeeps ==
    ASSUME EngineInv, NEW c \in awaiting, RetryTimer(c)
    PROVE  EngineInv' /\ News
<1> USE EngineAssumption
<1>t. WorkflowTypeOK /\ WalkInv
    BY DEF EngineInv
<1>c. /\ c \in Continuation /\ c.o \in DOMAIN objects /\ objects[c.o] \in ActiveRun
      /\ c.o \in Object /\ c.i \in Node /\ c.a \in Attempt /\ [idx |-> c.i, a |-> c.a] \in Row
    BY OfContinuation
<1>r. UNCHANGED <<active, observed, turns, journal, shown, online, started, confirmed, crashes, breaks>>
    BY DEF RetryTimer
<1>a. c.at = "timer" /\ c.a + 1 \in Attempt
    BY <1>c, <1>t DEF RetryTimer, WalkInv, TimersRetry, Attempt
<1> DEFINE e == [objects[c.o] EXCEPT !.idx = c.i]
           d == Begin(c.o, c.i, c.a + 1)
<1>1. e \in ActiveRun /\ e.run = objects[c.o].run /\ e.cancelled = objects[c.o].cancelled
    BY <1>c DEF ActiveRun
<1>2. objects' = [objects EXCEPT ![c.o] = e]
    BY DEF RetryTimer
<1>d. d \in Continuation /\ d.o = c.o /\ d.at = "probe"
    BY <1>a, <1>c DEF Begin, Continuation, Wait
<1>3. CASE objects[c.o].cancelled
    <2>1. awaiting' = Without(c)
        BY <1>3 DEF RetryTimer
    <2>2. active'[Of(c.o)] # c.o
        BY <1>3, <1>r, <1>t, OfContinuation DEF WalkInv, ActiveIsOwn
    <2>3. ReportTypes /\ News /\ RunGoesOn(c.o)
        BY <1>r, <1>t DEF ReportTypes, News, NoNews, RunGoesOn, WorkflowTypeOK
    <2> HIDE DEF e, d
    <2>4. Walks(c)
        BY <1>1, <1>2, <1>r, <2>1, <2>2, <2>3, ObjectUpdate, DropEnds
    <2> QED
        BY <2>4, <1>r, <1>t, WalksKeep DEF RestTypes, WorkflowTypeOK
<1>4. CASE ~objects[c.o].cancelled
    <2>1. awaiting' = Without(c) \cup {d}
        BY <1>4 DEF RetryTimer
    <2>2. observed' \subseteq Session /\ "running" \in NodeStatus
        BY <1>r, <1>t DEF WorkflowTypeOK, NodeStatus
    <2> HIDE DEF e, d
    <2>3. objects' \in Seq(ActiveRun) /\ Len(objects') <= MaxObjects /\ OnlyObject(c.o)
        BY <1>1, <1>2, ObjectUpdate
    <2>4. Walks(c)
        BY <1>c, <1>d, <1>r, <2>1, <2>2, <2>3, NextGoesOn
    <2> QED
        BY <2>4, <1>r, <1>t, WalksKeep DEF RestTypes, WorkflowTypeOK
<1> QED
    BY <1>3, <1>4
-----------------------------------------------------------------------------
\* A turn that ends, a connection that comes back: continuations are only settled.
LEMMA SettledKeep ==
    ASSUME EngineInv, NEW f, awaiting' = {f[c] : c \in awaiting},
           \A c \in awaiting : f[c] = c \/ f[c] = [c EXCEPT !.out = "completed"]
                                      \/ f[c] = [c EXCEPT !.out = "interrupted"],
           objects' \in Seq(ActiveRun), Len(objects') <= MaxObjects,
           DOMAIN objects' = DOMAIN objects,
           \A o \in DOMAIN objects : /\ objects'[o].run = objects[o].run
                                     /\ objects'[o].cancelled = objects[o].cancelled,
           UNCHANGED <<active, journal, crashes>>
    PROVE  awaiting' \subseteq Continuation /\ WalkInv'
<1>t. WorkflowTypeOK /\ WalkInv
    BY DEF EngineInv
<1>1. \A c \in awaiting : f[c] \in Continuation /\ f[c].o = c.o /\ f[c].at = c.at /\ f[c].a = c.a
    <2> TAKE c \in awaiting
    <2>1. c \in Continuation
        BY OfContinuation
    <2>2. \A out \in Outcome : [c EXCEPT !.out = out] \in Continuation
        BY OfContinuation
    <2>3. f[c] \in Continuation
        BY <2>1, <2>2 DEF Outcome
    <2> QED
        BY <2>1, <2>3 DEF Continuation
<1>2. \A d \in awaiting' : \E c \in awaiting : d = f[c] /\ d.o = c.o /\ d.at = c.at /\ d.a = c.a
    BY <1>1
<1>3. \A c \in awaiting : f[c] \in awaiting'
    OBVIOUS
<1>4. \A o \in DOMAIN objects : Of(o)' = Of(o)
    BY DEF Of
<1>5. \A r \in Run : Cancelled(r)' <=> Cancelled(r)
    BY DEF Cancelled, Of
<1>6. Existing' /\ TimersRetry'
    BY <1>t, <1>2 DEF WalkInv, Existing, TimersRetry
<1>7. ActiveIsOwn'
    BY <1>t DEF WalkInv, ActiveIsOwn, Of
<1>9. NoStrangers'
    <2> SUFFICES ASSUME NEW d \in awaiting' PROVE active[Of(d.o)'] = d.o \/ Cancelled(Of(d.o))'
        BY DEF NoStrangers, Cancelled, Of
    <2>1. PICK c \in awaiting : d.o = c.o
        BY <1>2
    <2>2. c.o \in DOMAIN objects /\ Of(c.o) \in Run
        BY OfContinuation
    <2>3. Of(d.o)' = Of(c.o)
        BY <1>4, <2>1, <2>2 DEF Of
    <2>4. active[Of(c.o)] = c.o \/ Cancelled(Of(c.o))
        BY <1>t DEF WalkInv, NoStrangers
    <2>5. CASE active[Of(c.o)] = c.o
        BY <2>1, <2>3, <2>5
    <2>6. CASE Cancelled(Of(c.o))
        <3>1. \E o \in DOMAIN objects' : Of(o)' = Of(c.o) /\ objects'[o].cancelled
            BY <1>4, <2>6 DEF Cancelled
        <3> QED
            BY <2>1, <2>3, <3>1 DEF Cancelled, Of
    <2> QED
        BY <2>4, <2>5, <2>6
<1>10. OneStepAtATime'
    BY <1>t, <1>2 DEF WalkInv, OneStepAtATime
<1>11. NobodyForgotten'
    <2> SUFFICES ASSUME NEW r \in Run, active[r] # 0
                 PROVE  \E d \in awaiting' : d.o = active[r]
        BY DEF NobodyForgotten
    <2>1. active[r] \in DOMAIN objects
        BY <1>t DEF WalkInv, ActiveIsOwn
    <2>2. \E c \in awaiting : c.o = active[r]
        BY <1>t DEF WalkInv, NobodyForgotten
    <2> QED
        BY <1>1, <1>3, <2>1, <2>2
<1>12. JournalForgets'
    BY <1>t, <1>5 DEF WalkInv, JournalForgets, NoRow
<1>13. awaiting' \subseteq Continuation
    BY <1>1
<1> QED
    BY <1>6, <1>7, <1>9, <1>10, <1>11, <1>12, <1>13 DEF WalkInv

LEMMA TurnEndsKeeps ==
    ASSUME EngineInv, NEW s \in turns, NEW outcome \in Outcome, TurnEnds(s, outcome)
    PROVE  EngineInv' /\ News
<1>t. WorkflowTypeOK
    BY DEF EngineInv
<1> DEFINE f == [c \in awaiting |->
                   IF s \in observed /\ SessionOf(c) = s /\ c.at \in {"turn", "verify"}
                   THEN [c EXCEPT !.out = outcome] ELSE c]
<1>1. awaiting' = {f[c] : c \in awaiting}
    BY DEF TurnEnds
<1>2. \A c \in awaiting : f[c] = c \/ f[c] = [c EXCEPT !.out = "completed"]
                                   \/ f[c] = [c EXCEPT !.out = "interrupted"]
    BY DEF Outcome
<1>3. UNCHANGED <<objects, active, observed, journal, shown, online, started, confirmed, crashes, breaks>>
      /\ turns' = turns \ {s}
    BY DEF TurnEnds
<1> HIDE DEF f
<1>4. awaiting' \subseteq Continuation /\ WalkInv'
    BY <1>t, <1>1, <1>2, <1>3, SettledKeep DEF WorkflowTypeOK
<1> QED
    BY <1>t, <1>3, <1>4 DEF EngineInv, WorkflowTypeOK, News, NoNews

LEMMA GoOnlineKeeps ==
    ASSUME EngineInv, GoOnline
    PROVE  EngineInv' /\ News
<1>t. WorkflowTypeOK /\ WalkInv
    BY DEF EngineInv
<1> DEFINE blocked == {o \in DOMAIN objects : active[Of(o)] = o /\ objects[o].st = "blocked_offline"}
           f == [c \in awaiting |-> IF c.o \in blocked /\ c.at = "turn"
                                    THEN [c EXCEPT !.out = "interrupted"] ELSE c]
<1>1. awaiting' = {f[c] : c \in awaiting}
    BY DEF GoOnline
<1>2. \A c \in awaiting : f[c] = c \/ f[c] = [c EXCEPT !.out = "completed"]
                                   \/ f[c] = [c EXCEPT !.out = "interrupted"]
    OBVIOUS
<1>3. /\ objects' = [o \in DOMAIN objects |->
                       IF o \in blocked THEN [objects[o] EXCEPT !.st = "interrupted"] ELSE objects[o]]
      /\ UNCHANGED <<active, observed, turns, journal, shown, started, confirmed, crashes, breaks>>
      /\ online' = TRUE
    BY DEF GoOnline
<1> HIDE DEF f, blocked
<1>4. objects \in Seq(ActiveRun) /\ Len(objects) <= MaxObjects
    BY <1>t DEF WorkflowTypeOK
<1>5. \A o \in DOMAIN objects : objects[o] \in ActiveRun
    BY <1>4, OfRun
<1>6. \A o \in DOMAIN objects :
         /\ objects'[o] \in ActiveRun
         /\ objects'[o].run = objects[o].run
         /\ objects'[o].cancelled = objects[o].cancelled
    BY <1>3, <1>5 DEF ActiveRun, NodeStatus
<1>7. DOMAIN objects' = 1..Len(objects) /\ objects' \in Seq(ActiveRun) /\ Len(objects') = Len(objects)
    BY <1>3, <1>4, <1>6
<1>8. awaiting' \subseteq Continuation /\ WalkInv'
    BY <1>1, <1>2, <1>3, <1>4, <1>6, <1>7, SettledKeep
<1> QED
    BY <1>t, <1>3, <1>4, <1>7, <1>8 DEF EngineInv, WorkflowTypeOK, News, NoNews

LEMMA GoOfflineKeeps ==
    ASSUME EngineInv, GoOffline
    PROVE  EngineInv' /\ News
<1> USE EngineAssumption
<1>t. WorkflowTypeOK /\ WalkInv
    BY DEF EngineInv
<1> DEFINE blocked == {r \in Run : active[r] # 0 /\ objects[active[r]].st = "running"}
           f == [c \in awaiting |-> c]
           told == [r \in Run |->
                      IF r \in blocked THEN [shown[r] EXCEPT ![objects[active[r]].idx] = "blocked_offline"]
                                      ELSE shown[r]]
<1>1. awaiting' = {f[c] : c \in awaiting} /\ \A c \in awaiting : f[c] = c
    BY DEF GoOffline
<1>3. /\ objects' = [o \in DOMAIN objects |-> IF \E r \in blocked : active[r] = o
                                        THEN [objects[o] EXCEPT !.st = "blocked_offline"] ELSE objects[o]]
      /\ shown' = told
      /\ UNCHANGED <<active, observed, turns, journal, started, confirmed, crashes>>
      /\ online' = FALSE /\ breaks' = breaks + 1 /\ breaks < MaxBreaks
    BY DEF GoOffline
<1>4. objects \in Seq(ActiveRun) /\ Len(objects) <= MaxObjects
    BY <1>t DEF WorkflowTypeOK
<1>5. \A o \in DOMAIN objects : objects[o] \in ActiveRun
    BY <1>4, OfRun
<1>9. shown' \in Reported /\ \A r \in Run : shown'[r][0] = shown[r][0]
    <2> DEFINE V == NodeStatus \cup RunStatus \cup {"none"}
    <2>1. shown \in [Run -> [0..NodeCount -> V]] /\ "blocked_offline" \in V /\ 0 \in 0..NodeCount
        BY <1>t DEF WorkflowTypeOK, Reported, NodeStatus
    <2> HIDE DEF V
    <2>2. \A r \in Run : told[r] \in [0..NodeCount -> V] /\ told[r][0] = shown[r][0]
        <3> SUFFICES ASSUME NEW r \in Run
                     PROVE  told[r] \in [0..NodeCount -> V] /\ told[r][0] = shown[r][0]
            OBVIOUS
        <3>1. CASE r \notin blocked
            BY <2>1, <3>1
        <3>2. CASE r \in blocked
            <4>1. objects[active[r]] \in ActiveRun
                BY <1>5, <1>t, <3>2 DEF WalkInv, ActiveIsOwn
            <4>2. objects[active[r]].idx \in 0..NodeCount /\ objects[active[r]].idx # 0
                BY <4>1 DEF ActiveRun, Node
            <4>3. told[r] = [shown[r] EXCEPT ![objects[active[r]].idx] = "blocked_offline"]
                BY <3>2
            <4> QED
                BY <2>1, <4>2, <4>3
        <3> QED
            BY <3>1, <3>2
    <2>3. told \in [Run -> [0..NodeCount -> V]]
        BY <2>2
    <2> HIDE DEF told
    <2> QED
        BY <1>3, <2>2, <2>3 DEF Reported, V
<1> HIDE DEF f, blocked, told
<1>6. \A o \in DOMAIN objects :
         /\ objects'[o] \in ActiveRun
         /\ objects'[o].run = objects[o].run
         /\ objects'[o].cancelled = objects[o].cancelled
    BY <1>3, <1>5 DEF ActiveRun, NodeStatus
<1>7. DOMAIN objects' = 1..Len(objects) /\ objects' \in Seq(ActiveRun) /\ Len(objects') = Len(objects)
    <2>1. objects' = [o \in 1..Len(objects) |-> objects'[o]]
        BY <1>3, <1>4
    <2>2. \A o \in 1..Len(objects) : objects'[o] \in ActiveRun
        BY <1>4, <1>6
    <2> QED
        BY <1>4, <2>1, <2>2
<1>10. breaks' \in 0..MaxBreaks
    BY <1>t, <1>3 DEF WorkflowTypeOK
<1>8. awaiting' \subseteq Continuation /\ WalkInv'
    BY <1>1, <1>3, <1>4, <1>6, <1>7, SettledKeep
<1> QED
    BY <1>t, <1>3, <1>4, <1>7, <1>8, <1>9, <1>10 DEF EngineInv, WorkflowTypeOK, News, NoNews
-----------------------------------------------------------------------------
LEMMA OtherRunEndsKeeps ==
    ASSUME EngineInv, observed' \subseteq Session,
           UNCHANGED <<objects, active, awaiting, turns, journal, shown, online, started, confirmed,
                       crashes, breaks>>
    PROVE  EngineInv' /\ News
<1>1. WorkflowTypeOK'
    BY DEF EngineInv, WorkflowTypeOK
<1>2. WalkInv'
    BY DEF EngineInv, WalkInv, Existing, TimersRetry, ActiveIsOwn, NoStrangers,
           OneStepAtATime, NobodyForgotten, JournalForgets, Cancelled, Of, NoRow
<1> QED
    BY <1>1, <1>2 DEF EngineInv, News, NoNews

LEMMA CancelRunKeeps ==
    ASSUME EngineInv, NEW r \in Run, CancelRun(r)
    PROVE  EngineInv' /\ News
<1> USE EngineAssumption
<1>t. WorkflowTypeOK /\ WalkInv
    BY DEF EngineInv
<1>r. UNCHANGED <<awaiting, turns, online, started, confirmed, crashes, breaks>>
    BY DEF CancelRun
<1>1. CASE active[r] = 0
    <2>1. UNCHANGED <<objects, shown, journal, active, observed>>
        BY <1>1 DEF CancelRun
    <2> QED
        BY <1>r, <1>t, <2>1, OtherRunEndsKeeps DEF WorkflowTypeOK
<1>2. CASE active[r] # 0
    <2>1. PICK o \in DOMAIN objects : o = active[r] /\ Of(o) = r
        BY <1>2, <1>t DEF WalkInv, ActiveIsOwn
    <2>2. Active(o)
        BY <1>2, <2>1 DEF Active
    <2>3. /\ objects' = [objects EXCEPT ![o].cancelled = TRUE]
          /\ Finish(o, "cancelled", shown, journal)
        BY <1>2, <2>1 DEF CancelRun
    <2>4. /\ shown' = [shown EXCEPT ![r][0] = "cancelled"]
          /\ journal' = [journal EXCEPT ![r] = NoRow]
          /\ active' = [active EXCEPT ![r] = 0]
          /\ observed' = {}
        BY <2>1, <2>2, <2>3 DEF Finish
    <2>5. shown' \in Reported /\ shown'[r][0] = "cancelled"
          /\ \A q \in Run : q # r => shown'[q][0] = shown[q][0]
        <3>1. shown \in Reported /\ 0 \in 0..NodeCount
            BY <1>t DEF WorkflowTypeOK
        <3>2. ASSUME NEW status \in RunStatus
              PROVE  /\ [shown EXCEPT ![r][0] = status] \in Reported
                     /\ [shown EXCEPT ![r][0] = status][r][0] = status
                     /\ \A q \in Run : q # r => [shown EXCEPT ![r][0] = status][q][0] = shown[q][0]
            BY <3>1, ReportType
        <3>3. "cancelled" \in RunStatus
            BY DEF RunStatus
        <3> QED
            BY <2>4, <3>2, <3>3
    <2>6. /\ active' \in [Run -> 0..MaxObjects] /\ active'[r] = 0
          /\ journal' \in [Run -> Row \cup {NoRow}] /\ journal'[r] = NoRow
          /\ \A q \in Run : q # r => active'[q] = active[q] /\ journal'[q] = journal[q]
        BY <2>4, <1>t DEF WorkflowTypeOK
    <2>7. /\ DOMAIN objects' = DOMAIN objects
          /\ \A p \in DOMAIN objects : p # o => objects'[p] = objects[p]
          /\ objects'[o] = [objects[o] EXCEPT !.cancelled = TRUE]
        BY <2>1, <2>3, <1>t DEF WorkflowTypeOK
    <2>8. objects[o] \in ActiveRun /\ objects \in Seq(ActiveRun) /\ Len(objects) <= MaxObjects
        BY <2>1, <1>t, OfRun DEF WorkflowTypeOK
    <2>9. /\ objects'[o] \in ActiveRun /\ objects'[o].run = objects[o].run
          /\ objects'[o].st = objects[o].st /\ objects'[o].cancelled
        BY <2>7, <2>8 DEF ActiveRun
    <2>10. objects' \in Seq(ActiveRun) /\ Len(objects') <= MaxObjects
        <3>1. objects' = [objects EXCEPT ![o] = objects'[o]]
            BY <2>1, <2>3, <2>8
        <3> QED
            BY <2>1, <2>8, <2>9, <3>1
    <2>11. \A p \in DOMAIN objects : Of(p)' = Of(p) /\ objects'[p].st = objects[p].st
                                     /\ (objects[p].cancelled => objects'[p].cancelled)
        BY <2>7, <2>9 DEF Of
    <2>12. WorkflowTypeOK'
        BY <1>t, <1>r, <2>4, <2>5, <2>6, <2>10 DEF WorkflowTypeOK
    <2>13. Existing' /\ TimersRetry' /\ OneStepAtATime'
        BY <1>t, <1>r, <2>7 DEF WalkInv, Existing, TimersRetry, OneStepAtATime
    <2>15. \A q \in Run : q # r /\ active[q] # 0 => active[q] \in DOMAIN objects /\ Of(active[q]) = q
                                               /\ active[q] # o /\ ~objects[active[q]].cancelled
        BY <1>t, <2>1 DEF WalkInv, ActiveIsOwn
    <2>16. ActiveIsOwn'
        BY <2>6, <2>7, <2>15 DEF ActiveIsOwn, Of
    <2>17. Cancelled(r)' /\ \A q \in Run : Cancelled(q) => Cancelled(q)'
        <3>1. Cancelled(r)'
            BY <2>1, <2>7, <2>9 DEF Cancelled, Of
        <3>2. \A q \in Run : Cancelled(q) => Cancelled(q)'
            BY <2>7, <2>9 DEF Cancelled, Of
        <3> QED
            BY <3>1, <3>2
    <2>18. NoStrangers'
        <3> SUFFICES ASSUME NEW d \in awaiting PROVE active'[Of(d.o)'] = d.o \/ Cancelled(Of(d.o))'
            BY <1>r DEF NoStrangers, Cancelled, Of
        <3>1. d.o \in DOMAIN objects /\ Of(d.o) \in Run
            BY OfContinuation
        <3>2. Of(d.o)' = Of(d.o)
            BY <2>11, <3>1
        <3>3. active[Of(d.o)] = d.o \/ Cancelled(Of(d.o))
            BY <1>t DEF WalkInv, NoStrangers
        <3>4. PICK q \in Run : q = Of(d.o)
            BY <3>1
        <3>5. active'[q] = d.o \/ Cancelled(q)'
            BY <2>6, <2>17, <3>3, <3>4
        <3> QED
            BY <3>2, <3>4, <3>5 DEF Cancelled, Of
    <2>19. NobodyForgotten'
        <3> SUFFICES ASSUME NEW q \in Run, active'[q] # 0
                     PROVE  \E d \in awaiting : d.o = active'[q]
            BY <1>r DEF NobodyForgotten
        <3>1. q # r /\ active'[q] = active[q]
            BY <2>6
        <3> QED
            BY <1>t, <2>11, <2>15, <3>1 DEF WalkInv, NobodyForgotten
    <2>20. JournalForgets'
        BY <1>t, <1>r, <2>6, <2>17 DEF WalkInv, JournalForgets, NoRow
    <2>21. EndOf(r, "cancelled")
        BY <1>2, <2>5, <2>6 DEF EndOf
    <2> QED
        BY <2>12, <2>13, <2>16, <2>18, <2>19, <2>20, <2>21 DEF EngineInv, WalkInv, News, Ended
<1> QED
    BY <1>1, <1>2

\* The server hears of a run that is taken up.
TakenUp(r) ==
    /\ active[r] = 0 /\ active'[r] # 0 /\ shown'[r][0] = "running"
    /\ \A q \in Run \ {r} : active'[q] = active[q] /\ shown'[q][0] = shown[q][0]

LEMMA DispatchRunKeeps ==
    ASSUME EngineInv, NEW r \in Run, DispatchRun(r)
    PROVE  EngineInv' /\ TakenUp(r)
<1> USE EngineAssumption
<1>t. WorkflowTypeOK /\ WalkInv
    BY DEF EngineInv
<1> DEFINE n == Len(objects) + 1
           b == Begin(n, 1, 0)
<1>1. /\ active[r] = 0 /\ Len(objects) < MaxObjects
      /\ objects' = Append(objects, NewObject(r))
      /\ active' = [active EXCEPT ![r] = n]
      /\ shown' = [shown EXCEPT ![r][0] = "running"]
      /\ awaiting' = awaiting \cup {b}
      /\ UNCHANGED <<observed, turns, journal, online, started, confirmed, crashes, breaks>>
    BY DEF DispatchRun, Report
<1>2. n \in Object /\ objects \in Seq(ActiveRun)
    BY <1>1, <1>t DEF WorkflowTypeOK, Object
<1>3. 1 \in Node /\ 0 \in Attempt
    BY DEF Node, Attempt
<1>4. b \in Continuation /\ b.o = n /\ b.at = "probe" /\ b.i = 1
    BY <1>2, <1>3 DEF Begin, Continuation, Wait
<1>5. NewObject(r) \in ActiveRun /\ NewObject(r).run = r /\ ~NewObject(r).cancelled
    BY <1>3 DEF NewObject, ActiveRun, NodeStatus
<1>6. objects' \in Seq(ActiveRun) /\ Len(objects') = n /\ Len(objects') <= MaxObjects
    BY <1>1, <1>2, <1>5 DEF Object
<1>7. /\ n \notin DOMAIN objects /\ n \in DOMAIN objects' /\ DOMAIN objects' = DOMAIN objects \cup {n}
      /\ objects'[n] = NewObject(r)
      /\ \A o \in DOMAIN objects : objects'[o] = objects[o]
    BY <1>1, <1>2
<1>8. shown' \in Reported /\ shown'[r][0] = "running"
      /\ \A q \in Run : q # r => shown'[q][0] = shown[q][0]
    <2>1. shown \in Reported /\ 0 \in 0..NodeCount
        BY <1>t DEF WorkflowTypeOK
    <2>2. ASSUME NEW status \in RunStatus
          PROVE  /\ [shown EXCEPT ![r][0] = status] \in Reported
                 /\ [shown EXCEPT ![r][0] = status][r][0] = status
                 /\ \A q \in Run : q # r => [shown EXCEPT ![r][0] = status][q][0] = shown[q][0]
        BY <2>1, ReportType
    <2>3. "running" \in RunStatus
        BY DEF RunStatus
    <2> QED
        BY <1>1, <2>2, <2>3
<1>9. active' \in [Run -> 0..MaxObjects] /\ active'[r] = n
      /\ \A q \in Run : q # r => active'[q] = active[q]
    BY <1>1, <1>2, <1>t DEF WorkflowTypeOK, Object
<1>10. n # 0
    BY <1>2 DEF Object
<1> HIDE DEF n, b
<1>11. WorkflowTypeOK'
    BY <1>t, <1>1, <1>4, <1>6, <1>8, <1>9 DEF WorkflowTypeOK
<1>12. \A c \in awaiting : c.o \in DOMAIN objects /\ c.o # n /\ Of(c.o) \in Run
    BY <1>7, OfContinuation
<1>13. Existing' /\ TimersRetry'
    BY <1>t, <1>1, <1>4, <1>7, <1>12 DEF WalkInv, Existing, TimersRetry
<1>14. OneStepAtATime'
    BY <1>t, <1>1, <1>4, <1>12 DEF WalkInv, OneStepAtATime
<1>15. ActiveIsOwn'
    BY <1>t, <1>5, <1>7, <1>9 DEF WalkInv, ActiveIsOwn, Of
<1>16. \A q \in Run : Cancelled(q) => Cancelled(q)'
    BY <1>7 DEF Cancelled, Of
<1>17. NoStrangers'
    <2> SUFFICES ASSUME NEW d \in awaiting' PROVE active'[Of(d.o)'] = d.o \/ Cancelled(Of(d.o))'
        BY DEF NoStrangers, Cancelled, Of
    <2>1. CASE d \in awaiting
        <3>1. Of(d.o)' = Of(d.o) /\ Of(d.o) \in Run /\ d.o # 0
            BY <2>1, <1>7, <1>12, OfContinuation DEF Of
        <3>2. active[Of(d.o)] = d.o \/ Cancelled(Of(d.o))
            BY <2>1, <1>t DEF WalkInv, NoStrangers
        <3>3. PICK q \in Run : q = Of(d.o)
            BY <3>1
        <3>4. active'[q] = d.o \/ Cancelled(q)'
            BY <1>1, <1>9, <1>16, <3>1, <3>2, <3>3
        <3> QED
            BY <3>1, <3>3, <3>4 DEF Cancelled, Of
    <2>2. CASE d = b
        BY <2>2, <1>4, <1>5, <1>7, <1>9 DEF Of
    <2> QED
        BY <2>1, <2>2, <1>1
<1>18. NobodyForgotten'
    <2> SUFFICES ASSUME NEW q \in Run, active'[q] # 0
                 PROVE  \E d \in awaiting' : d.o = active'[q]
        BY DEF NobodyForgotten
    <2>1. CASE q = r
        BY <2>1, <1>1, <1>4, <1>9
    <2>2. CASE q # r
        <3>1. active'[q] = active[q] /\ active[q] \in DOMAIN objects
            BY <2>2, <1>9, <1>t DEF WalkInv, ActiveIsOwn
        <3> QED
            BY <3>1, <1>1, <1>7, <1>t DEF WalkInv, NobodyForgotten
    <2> QED
        BY <2>1, <2>2
<1>19. JournalForgets'
    BY <1>t, <1>1, <1>9, <1>10, <1>16 DEF WalkInv, JournalForgets, NoRow
<1>20. TakenUp(r)
    BY <1>1, <1>8, <1>9, <1>10 DEF TakenUp
<1> QED
    BY <1>11, <1>13, <1>14, <1>15, <1>17, <1>18, <1>19, <1>20 DEF EngineInv, WalkInv
-----------------------------------------------------------------------------
\* The process dies and comes back with the runs of the set kept.
ComesBack(kept, failed) ==
    /\ \A r \in Run : (active'[r] # 0 <=> r \in kept)
    /\ \A r \in Run : shown'[r][0] = IF r \in failed THEN "failed" ELSE shown[r][0]

\* The restored walks begin where the journal is.
Restoring ==
    /\ \A o \in DOMAIN objects : o \in DOMAIN objects' /\ objects'[o] = objects[o]
    /\ \A d \in awaiting' : \E r \in Run : /\ journal[r] # NoRow /\ d.i = journal[r].idx
                                          /\ d.o \in DOMAIN objects' /\ objects'[d.o].run = r
    /\ \A r \in Run : journal'[r] \in {NoRow, journal[r]}

LEMMA CrashKeeps ==
    ASSUME EngineInv, NEW restore, Crash(restore)
    PROVE  /\ EngineInv' /\ Restoring
           /\ \E kept, failed \in SUBSET Run : kept \cap failed = {} /\ ComesBack(kept, failed)
<1> USE EngineAssumption
<1>t. WorkflowTypeOK /\ WalkInv
    BY DEF EngineInv
<1> DEFINE left == {r \in Run : restore /\ journal[r] # NoRow}
           kept == {r \in left : MayRestart(r)}
<1>0. /\ crashes < MaxCrashes /\ crashes' = crashes + 1
      /\ observed' = {} /\ turns' = {} /\ online' = FALSE
      /\ UNCHANGED <<started, confirmed, breaks>>
    BY DEF Crash
<1>n. PICK n \in 0..(MaxObjects - Len(objects)) : \E rows \in [1..n -> left], at \in [left -> 1..n] :
         /\ \A r \in left : rows[at[r]] = r
         /\ \A k \in 1..n : at[rows[k]] = k
         /\ objects' = objects \o [k \in 1..n |->
              IF rows[k] \in kept THEN [NewObject(rows[k]) EXCEPT !.idx = journal[rows[k]].idx]
                                  ELSE NewObject(rows[k])]
         /\ active' = [r \in Run |-> IF r \in kept THEN Len(objects) + at[r] ELSE 0]
         /\ awaiting' = {Begin(Len(objects) + at[r], journal[r].idx, journal[r].a + 1) : r \in kept}
         /\ journal' = [r \in Run |-> IF r \in left \ kept THEN NoRow ELSE journal[r]]
         /\ shown' = [r \in Run |-> IF r \in left THEN Restored(r) ELSE shown[r]]
    BY DEF Crash
<1>1. PICK rows \in [1..n -> left], at \in [left -> 1..n] :
         /\ \A r \in left : rows[at[r]] = r
         /\ \A k \in 1..n : at[rows[k]] = k
         /\ objects' = objects \o [k \in 1..n |->
              IF rows[k] \in kept THEN [NewObject(rows[k]) EXCEPT !.idx = journal[rows[k]].idx]
                                  ELSE NewObject(rows[k])]
         /\ active' = [r \in Run |-> IF r \in kept THEN Len(objects) + at[r] ELSE 0]
         /\ awaiting' = {Begin(Len(objects) + at[r], journal[r].idx, journal[r].a + 1) : r \in kept}
         /\ journal' = [r \in Run |-> IF r \in left \ kept THEN NoRow ELSE journal[r]]
         /\ shown' = [r \in Run |-> IF r \in left THEN Restored(r) ELSE shown[r]]
    BY <1>n
<1>2. left \subseteq Run /\ kept \subseteq left /\ \A r \in left : journal[r] \in Row
    BY <1>t DEF WorkflowTypeOK
<1>3. \A r \in kept : MayRestart(r)
    OBVIOUS
<1> DEFINE fresh == [k \in 1..n |->
                       IF rows[k] \in kept THEN [NewObject(rows[k]) EXCEPT !.idx = journal[rows[k]].idx]
                                           ELSE NewObject(rows[k])]
<1>4. objects' = objects \o fresh
    BY <1>1
<1> HIDE DEF left, kept
<1>5. \A k \in 1..n : fresh[k] \in ActiveRun /\ fresh[k].run = rows[k] /\ ~fresh[k].cancelled
    <2> TAKE k \in 1..n
    <2>1. rows[k] \in left /\ rows[k] \in Run /\ journal[rows[k]] \in Row
        BY <1>1, <1>2
    <2>2. journal[rows[k]].idx \in Node /\ 1 \in Node
        BY <2>1 DEF Row, Node
    <2>3. NewObject(rows[k]) \in ActiveRun /\ NewObject(rows[k]).run = rows[k]
          /\ ~NewObject(rows[k]).cancelled
        BY <2>1, <2>2 DEF NewObject, ActiveRun, NodeStatus
    <2>4. CASE rows[k] \in kept
        BY <2>2, <2>3, <2>4 DEF ActiveRun
    <2>5. CASE rows[k] \notin kept
        BY <2>3, <2>5
    <2> QED
        BY <2>4, <2>5
<1>6. fresh \in Seq(ActiveRun) /\ Len(fresh) = n
    <2>1. fresh \in [1..n -> ActiveRun]
        BY <1>5
    <2>2. n \in Nat
        BY <1>t, <1>1 DEF WorkflowTypeOK
    <2> HIDE DEF fresh
    <2> QED
        BY <2>1, <2>2
<1> HIDE DEF fresh
<1>7. objects \in Seq(ActiveRun) /\ Len(objects) \in Nat /\ Len(objects) <= MaxObjects /\ n \in Nat
    BY <1>t, <1>1 DEF WorkflowTypeOK
<1>8. objects' \in Seq(ActiveRun) /\ Len(objects') = Len(objects) + n /\ Len(objects') <= MaxObjects
    <2>1. objects' = objects \o fresh
        BY <1>4
    <2>2. objects \o fresh \in Seq(ActiveRun) /\ Len(objects \o fresh) = Len(objects) + Len(fresh)
        BY <1>6, <1>7, ConcatProperties
    <2>3. Len(objects) + n <= MaxObjects
        BY <1>1, <1>7
    <2> QED
        BY <1>6, <2>1, <2>2, <2>3
<1>9. /\ DOMAIN objects' = 1..(Len(objects) + n)
      /\ \A o \in DOMAIN objects : o \in DOMAIN objects' /\ objects'[o] = objects[o]
      /\ \A k \in 1..n : objects'[Len(objects) + k] = fresh[k]
    BY <1>4, <1>6, <1>7, <1>8
<1>10. \A r \in kept : /\ at[r] \in 1..n /\ rows[at[r]] = r
                       /\ Len(objects) + at[r] \in DOMAIN objects' /\ Len(objects) + at[r] \in Object
                       /\ objects'[Len(objects) + at[r]] = fresh[at[r]]
                       /\ Len(objects) + at[r] # 0
    <2> TAKE r \in kept
    <2>1. at[r] \in 1..n /\ rows[at[r]] = r
        BY <1>1, <1>2
    <2>2. Len(objects) + at[r] \in 1..(Len(objects) + n) /\ Len(objects) + n <= MaxObjects
        BY <2>1, <1>7, <1>8
    <2>3. objects'[Len(objects) + at[r]] = fresh[at[r]]
        BY <2>1, <1>9
    <2>4. Len(objects) + at[r] \in 1..MaxObjects
        BY <2>2, <1>7
    <2> QED
        BY <2>1, <2>2, <2>3, <2>4, <1>9 DEF Object
<1>11. \A r \in kept : journal[r].idx \in Node /\ journal[r].a + 1 \in Attempt
    BY <1>2, <1>3 DEF MayRestart, Row, Attempt
<1>12. \A r \in kept : LET b == Begin(Len(objects) + at[r], journal[r].idx, journal[r].a + 1)
                       IN  b \in Continuation /\ b.o = Len(objects) + at[r] /\ b.at = "probe"
    BY <1>10, <1>11 DEF Begin, Continuation, Wait
<1>13. \A r \in Run : active'[r] = IF r \in kept THEN Len(objects) + at[r] ELSE 0
    BY <1>1
<1>14. active' \in [Run -> 0..MaxObjects]
    <2>1. active' = [r \in Run |-> active'[r]]
        BY <1>1
    <2>2. \A r \in Run : active'[r] \in 0..MaxObjects
        BY <1>10, <1>13 DEF Object
    <2> QED
        BY <2>1, <2>2
<1>15. journal' \in [Run -> Row \cup {NoRow}]
    BY <1>1, <1>t DEF WorkflowTypeOK
<1>16. shown' \in Reported /\ \A r \in Run : shown'[r][0] = IF r \in left \ kept THEN "failed" ELSE shown[r][0]
    <2>1. shown \in Reported /\ 0 \in 0..NodeCount /\ 1 \in 0..NodeCount
        BY <1>t DEF WorkflowTypeOK
    <2> DEFINE V == NodeStatus \cup RunStatus \cup {"none"}
    <2>2. shown \in [Run -> [0..NodeCount -> V]] /\ "interrupted" \in V /\ "failed" \in V
        BY <2>1 DEF Reported, NodeStatus, RunStatus
    <2> HIDE DEF V
    <2>3. \A r \in left : /\ Restored(r) \in [0..NodeCount -> V]
                          /\ Restored(r)[0] = IF r \in kept THEN shown[r][0] ELSE "failed"
        <3> SUFFICES ASSUME NEW r \in left
                     PROVE  /\ Restored(r) \in [0..NodeCount -> V]
                            /\ Restored(r)[0] = IF r \in kept THEN shown[r][0] ELSE "failed"
            OBVIOUS
        <3>1. journal[r].idx \in 1..NodeCount /\ shown[r] \in [0..NodeCount -> V]
            BY <1>2, <2>2 DEF Row, Node
        <3>2. MayRestart(r) <=> r \in kept
            BY DEF kept
        <3>3. CASE MayRestart(r)
            <4>1. Restored(r) = [shown[r] EXCEPT ![journal[r].idx] = "interrupted"]
                BY <3>3 DEF Restored
            <4> QED
                BY <2>1, <2>2, <3>1, <3>2, <3>3, <4>1, SMTT(40)
        <3>4. CASE ~MayRestart(r)
            <4>1. Restored(r) = [shown[r] EXCEPT ![journal[r].idx] = "interrupted", ![1] = "failed", ![0] = "failed"]
                BY <3>4 DEF Restored
            <4> DEFINE x == [shown[r] EXCEPT ![journal[r].idx] = "interrupted"]
                       y == [x EXCEPT ![1] = "failed"]
            <4>2. x \in [0..NodeCount -> V]
                BY <2>1, <2>2, <3>1
            <4> HIDE DEF x
            <4>3. y \in [0..NodeCount -> V]
                BY <2>1, <2>2, <4>2
            <4>4. Restored(r) = [y EXCEPT ![0] = "failed"]
                BY <4>1 DEF x
            <4> HIDE DEF y
            <4> QED
                BY <2>1, <2>2, <3>2, <3>4, <4>3, <4>4
        <3> QED
            BY <3>3, <3>4
    <2>4. \A r \in Run : shown'[r] = IF r \in left THEN Restored(r) ELSE shown[r]
        BY <1>1
    <2>5. shown' = [r \in Run |-> shown'[r]]
        BY <1>1
    <2>6. \A r \in Run : shown'[r] \in [0..NodeCount -> V]
        BY <2>2, <2>3, <2>4
    <2>7. shown' \in [Run -> [0..NodeCount -> V]]
        BY <2>5, <2>6
    <2> QED
        BY <2>3, <2>4, <2>7, <1>2 DEF Reported, V
<1>17. awaiting' \subseteq Continuation
    BY <1>1, <1>12
<1>18. WorkflowTypeOK'
    <2>1. crashes' \in 0..MaxCrashes
        BY <1>0, <1>t DEF WorkflowTypeOK
    <2> QED
        BY <1>0, <1>8, <1>14, <1>15, <1>16, <1>17, <1>t, <2>1 DEF WorkflowTypeOK
<1>19. \A d \in awaiting' : \E r \in kept : d.o = Len(objects) + at[r] /\ d.at = "probe"
                                         /\ d = Begin(Len(objects) + at[r], journal[r].idx, journal[r].a + 1)
    <2>1. awaiting' = {Begin(Len(objects) + at[r], journal[r].idx, journal[r].a + 1) : r \in kept}
        BY <1>1
    <2>2. \A d \in awaiting' : \E r \in kept : d = Begin(Len(objects) + at[r], journal[r].idx, journal[r].a + 1)
        BY <2>1
    <2>3. \A r \in kept : Begin(Len(objects) + at[r], journal[r].idx, journal[r].a + 1).o = Len(objects) + at[r]
                     /\ Begin(Len(objects) + at[r], journal[r].idx, journal[r].a + 1).at = "probe"
        BY DEF Begin
    <2> QED
        BY <2>2, <2>3
<1>20. Existing' /\ TimersRetry'
    BY <1>10, <1>19 DEF Existing, TimersRetry
<1>21. OneStepAtATime'
    <2> SUFFICES ASSUME NEW d \in awaiting', NEW e \in awaiting', d.o = e.o PROVE d = e
        BY DEF OneStepAtATime
    <2>1. PICK r \in kept : d.o = Len(objects) + at[r]
                           /\ d = Begin(Len(objects) + at[r], journal[r].idx, journal[r].a + 1)
        BY <1>19
    <2>2. PICK q \in kept : e.o = Len(objects) + at[q]
                           /\ e = Begin(Len(objects) + at[q], journal[q].idx, journal[q].a + 1)
        BY <1>19
    <2>3. at[r] = at[q]
        <3>1. at[r] \in 1..n /\ at[q] \in 1..n /\ Len(objects) + at[r] = Len(objects) + at[q]
            BY <2>1, <2>2, <1>10
        <3> QED
            BY <3>1, <1>7, SMTT(40)
    <2>4. r = q
        BY <2>3, <1>10
    <2> QED
        BY <2>1, <2>2, <2>4
<1>22. \A r \in kept : objects'[active'[r]].run = r /\ ~objects'[active'[r]].cancelled
                       /\ active'[r] \in DOMAIN objects' /\ active'[r] = Len(objects) + at[r] /\ active'[r] # 0
    BY <1>2, <1>5, <1>10, <1>13
<1>23. ActiveIsOwn'
    BY <1>13, <1>22 DEF ActiveIsOwn, Of
<1>24. NoStrangers'
    <2> SUFFICES ASSUME NEW d \in awaiting' PROVE active'[Of(d.o)'] = d.o
        BY DEF NoStrangers, Cancelled, Of
    <2>1. PICK r \in kept : d.o = Len(objects) + at[r]
        BY <1>19
    <2> QED
        BY <2>1, <1>22 DEF Of
<1>25. NobodyForgotten'
    <2> SUFFICES ASSUME NEW r \in Run, active'[r] # 0 PROVE \E d \in awaiting' : d.o = active'[r]
        BY DEF NobodyForgotten
    <2>1. r \in kept
        BY <1>13
    <2> QED
        BY <2>1, <1>1, <1>12, <1>22
<1>26. JournalForgets'
    BY <1>0, <1>t DEF JournalForgets, WorkflowTypeOK
<1>27. ComesBack(kept, left \ kept)
    BY <1>13, <1>16, <1>22 DEF ComesBack
<1>28. kept \in SUBSET Run /\ left \ kept \in SUBSET Run /\ kept \cap (left \ kept) = {}
    BY <1>2
<1>29. Restoring
    <2>1. \A r \in Run : journal'[r] \in {NoRow, journal[r]}
        BY <1>1
    <2>2. \A r \in kept : /\ journal[r] # NoRow /\ r \in Run
                          /\ Begin(Len(objects) + at[r], journal[r].idx, journal[r].a + 1).i = journal[r].idx
        BY <1>2 DEF Begin, left
    <2>3. \A d \in awaiting' : \E r \in Run : /\ journal[r] # NoRow /\ d.i = journal[r].idx
                                            /\ d.o \in DOMAIN objects' /\ objects'[d.o].run = r
        <3> TAKE d \in awaiting'
        <3>1. PICK r \in kept : /\ d.o = Len(objects) + at[r]
                               /\ d = Begin(Len(objects) + at[r], journal[r].idx, journal[r].a + 1)
            BY <1>19
        <3>2. d.i = journal[r].idx /\ journal[r] # NoRow /\ r \in Run
            BY <2>2, <3>1
        <3>3. d.o \in DOMAIN objects' /\ objects'[d.o].run = r
            BY <1>22, <3>1
        <3> QED
            BY <3>2, <3>3
    <2> QED
        BY <1>9, <2>1, <2>3 DEF Restoring
<1> QED
    BY <1>18, <1>20, <1>21, <1>23, <1>24, <1>25, <1>26, <1>27, <1>28, <1>29 DEF EngineInv, WalkInv
-----------------------------------------------------------------------------
\* Run r may begin node i: it is the first, or the node before it was confirmed.
MayBegin(r, i) == i = 1 \/ \E p \in confirmed : Of(p[1]) = r /\ p[2] = i - 1

HandOff ==
    /\ \A s \in started : s[1] \in DOMAIN objects /\ MayBegin(Of(s[1]), s[2])
    /\ \A s \in confirmed : s[1] \in DOMAIN objects
    /\ \A c \in awaiting : MayBegin(Of(c.o), c.i)
    /\ \A r \in Run : journal[r] # NoRow => MayBegin(r, journal[r].idx)

\* No step takes a confirmation back, or gives an object to another run.
Remembers ==
    /\ confirmed \subseteq confirmed'
    /\ \A o \in DOMAIN objects : o \in DOMAIN objects' /\ objects'[o].run = objects[o].run

LEMMA MayStillBegin ==
    ASSUME HandOff, Remembers, NEW r, NEW i, MayBegin(r, i)
    PROVE  MayBegin(r, i)'
<1>1. CASE i = 1
    BY <1>1 DEF MayBegin
<1>2. CASE i # 1
    <2>1. PICK p \in confirmed : Of(p[1]) = r /\ p[2] = i - 1
        BY <1>2 DEF MayBegin
    <2>2. p[1] \in DOMAIN objects /\ p \in confirmed'
        BY <2>1 DEF HandOff, Remembers
    <2>3. Of(p[1])' = r
        BY <2>1, <2>2 DEF Remembers, Of
    <2> QED
        BY <2>1, <2>2, <2>3 DEF MayBegin, Of
<1> QED
    BY <1>1, <1>2

\* What a step has to show: it begins, asks for and journals only what may begin.
LEMMA HandOffKept ==
    ASSUME EngineInv, HandOff, Remembers,
           \A s \in started' : s \in started \/ (\E c \in awaiting : s = SessionOf(c)),
           \A s \in confirmed' : s \in confirmed \/ (\E c \in awaiting : s = SessionOf(c)),
           \A d \in awaiting' : \/ \E c \in awaiting : d.o = c.o /\ d.i = c.i
                                \/ d.i = 1
                                \/ MayBegin(Of(d.o), d.i)',
           \A r \in Run : \/ journal'[r] \in {NoRow, journal[r]}
                          \/ \E c \in awaiting : Of(c.o) = r /\ journal'[r].idx = c.i
    PROVE  HandOff'
<1>1. \A c \in awaiting : c.o \in DOMAIN objects /\ Of(c.o)' = Of(c.o) /\ MayBegin(Of(c.o), c.i)
    BY DEF EngineInv, WalkInv, Existing, HandOff, Remembers, Of
<1>2. \A c \in awaiting : MayBegin(Of(c.o), c.i)'
    <2> TAKE c \in awaiting
    <2> DEFINE r == Of(c.o)
    <2>1. MayBegin(r, c.i) /\ Of(c.o)' = r
        BY <1>1
    <2>2. \E q : q = r
        OBVIOUS
    <2>3. PICK q : q = r
        BY <2>2
    <2>4. MayBegin(q, c.i)'
        BY <2>1, <2>3, MayStillBegin
    <2> QED
        BY <2>1, <2>3, <2>4 DEF MayBegin
<1>3. ASSUME NEW s \in started'  PROVE s[1] \in DOMAIN objects' /\ MayBegin(Of(s[1]), s[2])'
    <2>1. CASE s \in started
        <3>1. s[1] \in DOMAIN objects /\ MayBegin(Of(s[1]), s[2])
            BY <2>1 DEF HandOff
        <3>2. s[1] \in DOMAIN objects' /\ Of(s[1])' = Of(s[1])
            BY <3>1 DEF Remembers, Of
        <3>3. PICK q : q = Of(s[1])
            OBVIOUS
        <3>4. MayBegin(q, s[2])'
            BY <3>1, <3>3, MayStillBegin
        <3> QED
            BY <3>2, <3>3, <3>4 DEF MayBegin
    <2>2. CASE \E c \in awaiting : s = SessionOf(c)
        BY <1>1, <1>2, <2>2 DEF SessionOf, Remembers
    <2> QED
        BY <2>1, <2>2
<1>4. ASSUME NEW s \in confirmed'  PROVE s[1] \in DOMAIN objects'
    BY <1>1 DEF SessionOf, Remembers, HandOff
<1>5. ASSUME NEW d \in awaiting'  PROVE MayBegin(Of(d.o), d.i)'
    <2>1. CASE \E c \in awaiting : d.o = c.o /\ d.i = c.i
        BY <1>2, <2>1
    <2>2. CASE d.i = 1
        BY <2>2 DEF MayBegin
    <2> QED
        BY <2>1, <2>2
<1>6. ASSUME NEW r \in Run, journal'[r] # NoRow  PROVE MayBegin(r, journal[r].idx)'
    <2>1. CASE journal'[r] = journal[r]
        <3>1. MayBegin(r, journal[r].idx)
            BY <1>6, <2>1 DEF HandOff
        <3>2. PICK j : j = journal[r].idx
            OBVIOUS
        <3>3. MayBegin(r, j)'
            BY <3>1, <3>2, MayStillBegin
        <3> QED
            BY <2>1, <3>2, <3>3 DEF MayBegin
    <2>2. CASE \E c \in awaiting : Of(c.o) = r /\ journal'[r].idx = c.i
        <3>1. PICK c \in awaiting : Of(c.o) = r /\ journal'[r].idx = c.i
            BY <2>2
        <3>2. Of(c.o)' = r /\ MayBegin(Of(c.o), c.i)'
            BY <1>1, <1>2, <3>1
        <3> QED
            BY <3>1, <3>2 DEF MayBegin
    <2> QED
        BY <1>6, <2>1, <2>2
<1> QED
    BY <1>3, <1>4, <1>5, <1>6 DEF HandOff

LEMMA FinishJournal ==
    ASSUME NEW o, NEW status, NEW told, NEW rows \in [Run -> Row \cup {NoRow}],
           Finish(o, status, told, rows)
    PROVE  \A r \in Run : journal'[r] \in {NoRow, rows[r]}
<1>1. CASE Active(o)
    BY <1>1 DEF Finish
<1>2. CASE ~Active(o)
    BY <1>2 DEF Finish
<1> QED
    BY <1>1, <1>2

\* What a continuation leaves: the next of its node, the first of the next one
\* after a confirmation, or nothing.
HandsOn(c) ==
    /\ \A o \in DOMAIN objects : o \in DOMAIN objects' /\ objects'[o].run = objects[o].run
    /\ started' \in {started, started \cup {SessionOf(c)}}
    /\ confirmed' \in {confirmed, confirmed \cup {SessionOf(c)}}
    /\ \A d \in awaiting' : \/ d \in awaiting
                            \/ d.o = c.o /\ d.i = c.i
                            \/ d.o = c.o /\ d.i = c.i + 1 /\ SessionOf(c) \in confirmed'
    /\ \A r \in Run : \/ journal'[r] \in {NoRow, journal[r]}
                      \/ Of(c.o) = r /\ journal'[r].idx = c.i

LEMMA HandsOnKeeps ==
    ASSUME EngineInv, HandOff, NEW c \in awaiting, HandsOn(c)
    PROVE  HandOff'
<1>1. Remembers
    BY DEF HandsOn, Remembers
<1>2. \A d \in awaiting' : \/ \E e \in awaiting : d.o = e.o /\ d.i = e.i
                           \/ d.i = 1
                           \/ MayBegin(Of(d.o), d.i)'
    <2> SUFFICES ASSUME NEW d \in awaiting', d.o = c.o, d.i = c.i + 1, SessionOf(c) \in confirmed'
                 PROVE  MayBegin(Of(d.o), d.i)'
        BY DEF HandsOn
    <2>1. c.i \in Nat
        <3>1. c.i \in Node
            BY OfContinuation
        <3> QED
            BY <3>1, EngineAssumption DEF Node
    <2>2. SessionOf(c)[1] = d.o /\ SessionOf(c)[2] = d.i - 1
        BY <2>1 DEF SessionOf
    <2> QED
        BY <2>2 DEF MayBegin
<1>3. /\ \A s \in started' : s \in started \/ (\E e \in awaiting : s = SessionOf(e))
      /\ \A s \in confirmed' : s \in confirmed \/ (\E e \in awaiting : s = SessionOf(e))
      /\ \A r \in Run : \/ journal'[r] \in {NoRow, journal[r]}
                        \/ \E e \in awaiting : Of(e.o) = r /\ journal'[r].idx = e.i
    BY DEF HandsOn
<1> QED
    BY <1>1, <1>2, <1>3, HandOffKept

\* An update of the object of a continuation keeps its run.
LEMMA SameRun ==
    ASSUME EngineInv, NEW c \in awaiting, NEW e, e.run = objects[c.o].run,
           objects' = [objects EXCEPT ![c.o] = e]
    PROVE  \A o \in DOMAIN objects : o \in DOMAIN objects' /\ objects'[o].run = objects[o].run
<1>1. objects \in Seq(ActiveRun) /\ c.o \in DOMAIN objects
    BY OfContinuation DEF EngineInv, WorkflowTypeOK
<1> QED
    BY <1>1

\* Of an object, any fields but its run.
LEMMA FieldsKeepRun ==
    ASSUME EngineInv, NEW c \in awaiting, NEW st, NEW n
    PROVE  /\ [objects[c.o] EXCEPT !.st = st].run = objects[c.o].run
           /\ [objects[c.o] EXCEPT !.idx = n].run = objects[c.o].run
           /\ [objects[c.o] EXCEPT !.st = st, !.idx = n].run = objects[c.o].run
           /\ [objects[c.o] EXCEPT !.st = st, !.used = n].run = objects[c.o].run
<1>1. objects[c.o] \in ActiveRun
    BY OfContinuation
<1> QED
    BY <1>1 DEF ActiveRun

LEMMA RetryHandsOn ==
    ASSUME EngineInv, NEW c \in awaiting, RetryOrFail(c), UNCHANGED <<objects, started, confirmed>>
    PROVE  HandsOn(c)
<1>1. CASE c.a < MaxRetries
    <2>1. [c EXCEPT !.at = "timer", !.out = "open"].o = c.o /\ [c EXCEPT !.at = "timer", !.out = "open"].i = c.i
        BY OfContinuation DEF Continuation
    <2>2. awaiting' = Then(c, "timer") /\ journal' = journal
        BY <1>1 DEF RetryOrFail, Tell
    <2> QED
        BY <2>1, <2>2 DEF HandsOn, Then, Without
<1>2. CASE ~(c.a < MaxRetries)
    <2>1. awaiting' = Without(c) /\ \A r \in Run : journal'[r] \in {NoRow, journal[r]}
        BY <1>2, FinishJournal DEF RetryOrFail, Fail, EngineInv, WorkflowTypeOK
    <2> QED
        BY <2>1 DEF HandsOn, Without
<1> QED
    BY <1>1, <1>2

LEMMA ConfirmHandsOn ==
    ASSUME EngineInv, NEW c \in awaiting, Confirm(c), started' = started
    PROVE  HandsOn(c)
<1> DEFINE told == Report(Of(c.o), c.i, "completed")
           rows == [journal EXCEPT ![Of(c.o)] = [idx |-> c.i, a |-> c.a]]
<1>0. /\ Of(c.o) \in Run /\ journal \in [Run -> Row \cup {NoRow}] /\ [idx |-> c.i, a |-> c.a] \in Row
      /\ objects \in Seq(ActiveRun) /\ c.o \in DOMAIN objects
    BY OfContinuation DEF EngineInv, WorkflowTypeOK
<1>r. /\ rows \in [Run -> Row \cup {NoRow}]
      /\ \A r \in Run : rows[r] = journal[r] \/ (r = Of(c.o) /\ rows[r].idx = c.i)
    BY <1>0
<1>1. CASE objects[c.o].cancelled
    BY <1>1 DEF Confirm, HandsOn, Without
<1>2. CASE ~objects[c.o].cancelled /\ c.i = NodeCount
    <2>1. /\ confirmed' = confirmed \cup {SessionOf(c)} /\ awaiting' = Without(c)
          /\ objects' = [objects EXCEPT ![c.o] = [objects[c.o] EXCEPT !.st = "completed"]]
          /\ Finish(c.o, "completed", told, rows)
        BY <1>2 DEF Confirm
    <2>2. \A r \in Run : journal'[r] \in {NoRow, rows[r]}
        <3> HIDE DEF told, rows
        <3> QED
            BY <1>r, <2>1, FinishJournal
    <2>3. \A o \in DOMAIN objects : o \in DOMAIN objects' /\ objects'[o].run = objects[o].run
        BY <2>1, FieldsKeepRun, SameRun
    <2> HIDE DEF rows
    <2>4. \A r \in Run : journal'[r] \in {NoRow, journal[r]} \/ (Of(c.o) = r /\ journal'[r].idx = c.i)
        BY <1>r, <2>2
    <2> QED
        BY <2>1, <2>3, <2>4 DEF HandsOn, Without
<1>3. CASE ~objects[c.o].cancelled /\ c.i # NodeCount
    <2>1. /\ confirmed' = confirmed \cup {SessionOf(c)}
          /\ objects' = [objects EXCEPT ![c.o] = [objects[c.o] EXCEPT !.st = "completed", !.idx = c.i + 1]]
          /\ awaiting' = Without(c) \cup {Begin(c.o, c.i + 1, 0)}
          /\ journal' = rows
        BY <1>3 DEF Confirm
    <2>2. Begin(c.o, c.i + 1, 0).o = c.o /\ Begin(c.o, c.i + 1, 0).i = c.i + 1
        BY DEF Begin
    <2>3. \A o \in DOMAIN objects : o \in DOMAIN objects' /\ objects'[o].run = objects[o].run
        BY <2>1, FieldsKeepRun, SameRun
    <2> HIDE DEF rows
    <2>4. \A r \in Run : journal'[r] \in {NoRow, journal[r]} \/ (Of(c.o) = r /\ journal'[r].idx = c.i)
        BY <1>r, <2>1
    <2> QED
        BY <2>1, <2>2, <2>3, <2>4 DEF HandsOn, Without
<1> QED
    BY <1>1, <1>2, <1>3

LEMMA FailHandsOn ==
    ASSUME EngineInv, NEW c \in awaiting, NEW told, Fail(c.o, told), awaiting' = Without(c),
           \A o \in DOMAIN objects : o \in DOMAIN objects' /\ objects'[o].run = objects[o].run,
           UNCHANGED <<started, confirmed>>
    PROVE  HandsOn(c)
<1>1. \A r \in Run : journal'[r] \in {NoRow, journal[r]}
    BY FinishJournal DEF Fail, EngineInv, WorkflowTypeOK
<1> QED
    BY <1>1 DEF HandsOn, Without

LEMMA ProbedHandsOn ==
    ASSUME EngineInv, NEW c \in awaiting, Probed(c)
    PROVE  HandsOn(c)
<1>1. CASE awaiting' = Without(c) /\ Fail(c.o, shown) /\ UNCHANGED <<objects, started>>
    BY <1>1, FailHandsOn DEF Probed
<1>2. CASE /\ objects' = [objects EXCEPT ![c.o].st = "starting"]
           /\ awaiting' = Then(c, "start")
           /\ started' = started \cup {SessionOf(c)}
           /\ journal' = [journal EXCEPT ![Of(c.o)] = [idx |-> c.i, a |-> c.a]]
    <2>1. \A o \in DOMAIN objects : o \in DOMAIN objects' /\ objects'[o].run = objects[o].run
        BY <1>2, FieldsKeepRun, SameRun
    <2>2. Of(c.o) \in Run /\ journal \in [Run -> Row \cup {NoRow}]
        BY OfContinuation DEF EngineInv, WorkflowTypeOK
    <2>3. [c EXCEPT !.at = "start", !.out = "open"].o = c.o /\ [c EXCEPT !.at = "start", !.out = "open"].i = c.i
        BY OfContinuation DEF Continuation
    <2>4. confirmed' = confirmed
        BY DEF Probed
    <2> QED
        BY <1>2, <2>1, <2>2, <2>3, <2>4 DEF HandsOn, Then, Without
<1> QED
    BY <1>1, <1>2 DEF Probed

LEMMA StartedHandsOn ==
    ASSUME EngineInv, NEW c \in awaiting, Started(c)
    PROVE  HandsOn(c)
<1>0. UNCHANGED <<started, confirmed>>
    BY DEF Started
<1>1. CASE awaiting' = Without(c) /\ Fail(c.o, shown) /\ UNCHANGED <<objects, turns>>
    BY <1>0, <1>1, FailHandsOn
<1>2. CASE /\ objects' = [objects EXCEPT ![c.o].st = "running"]
           /\ awaiting' = Then(c, "turn")
           /\ journal' = [journal EXCEPT ![Of(c.o)] = [idx |-> c.i, a |-> c.a]]
    <2>1. \A o \in DOMAIN objects : o \in DOMAIN objects' /\ objects'[o].run = objects[o].run
        BY <1>2, FieldsKeepRun, SameRun
    <2>2. Of(c.o) \in Run /\ journal \in [Run -> Row \cup {NoRow}]
        BY OfContinuation DEF EngineInv, WorkflowTypeOK
    <2>3. [c EXCEPT !.at = "turn", !.out = "open"].o = c.o /\ [c EXCEPT !.at = "turn", !.out = "open"].i = c.i
        BY OfContinuation DEF Continuation
    <2> QED
        BY <1>0, <1>2, <2>1, <2>2, <2>3 DEF HandsOn, Then, Without
<1> QED
    BY <1>1, <1>2 DEF Started

LEMMA EnterHandsOn ==
    ASSUME EngineInv, NEW c \in awaiting, EnterCondition(c), UNCHANGED <<started, confirmed>>
    PROVE  HandsOn(c)
<1>1. CASE /\ objects' = [objects EXCEPT ![c.o].st = "waiting_approval"]
           /\ awaiting' = Then(c, "gate")
           /\ journal' = journal
    <2>1. \A o \in DOMAIN objects : o \in DOMAIN objects' /\ objects'[o].run = objects[o].run
        BY <1>1, FieldsKeepRun, SameRun
    <2>2. [c EXCEPT !.at = "gate", !.out = "open"].o = c.o /\ [c EXCEPT !.at = "gate", !.out = "open"].i = c.i
        BY OfContinuation DEF Continuation
    <2> QED
        BY <1>1, <2>1, <2>2 DEF HandsOn, Then, Without
<1>2. CASE objects' = [objects EXCEPT ![c.o].st = "verifying", ![c.o].used = objects[c.o].used + 1]
    <2> DEFINE u == objects[c.o].used + 1
               e == [objects[c.o] EXCEPT !.st = "verifying", !.used = u]
    <2> HIDE DEF u
    <2>0. e.run = objects[c.o].run
        BY FieldsKeepRun
    <2>1. objects' = [objects EXCEPT ![c.o] = e] /\ e.run = objects[c.o].run
        BY <1>2, <2>0 DEF u
    <2> HIDE DEF e
    <2>2. \A o \in DOMAIN objects : o \in DOMAIN objects' /\ objects'[o].run = objects[o].run
        BY <2>1, SameRun
    <2>3. CASE awaiting' = Without(c) /\ Fail(c.o, Report(Of(c.o), c.i, "verifying"))
        BY <2>2, <2>3, FailHandsOn
    <2>4. CASE awaiting' = Then(c, "verify") /\ journal' = journal
        <3>1. [c EXCEPT !.at = "verify", !.out = "open"].o = c.o
              /\ [c EXCEPT !.at = "verify", !.out = "open"].i = c.i
            BY OfContinuation DEF Continuation
        <3> QED
            BY <2>2, <2>4, <3>1 DEF HandsOn, Then, Without
    <2>5. c.i \notin Gates \/ awaiting' = Then(c, "gate")
        BY DEF EnterCondition
    <2>6. CASE awaiting' = Then(c, "gate") /\ journal' = journal
        <3>1. [c EXCEPT !.at = "gate", !.out = "open"].o = c.o
              /\ [c EXCEPT !.at = "gate", !.out = "open"].i = c.i
            BY OfContinuation DEF Continuation
        <3> QED
            BY <2>2, <2>6, <3>1 DEF HandsOn, Then, Without
    <2> QED
        BY <2>3, <2>4, <2>6 DEF EnterCondition, Tell
<1> QED
    BY <1>1, <1>2 DEF EnterCondition, Tell

LEMMA ResumeHandsOn ==
    ASSUME EngineInv, NEW c \in awaiting, Resume(c)
    PROVE  HandsOn(c)
<1>0. started' = started
    BY DEF Resume
<1>1. CASE c.at = "turn" /\ TaskTurnOver(c) /\ UNCHANGED confirmed
    <2>1. CASE awaiting' = Without(c) /\ UNCHANGED <<objects, journal>>
        BY <1>0, <1>1, <2>1 DEF HandsOn, Without
    <2>2. CASE RetryOrFail(c) /\ UNCHANGED objects
        BY <1>0, <1>1, <2>2, RetryHandsOn
    <2>3. CASE EnterCondition(c)
        BY <1>0, <1>1, <2>3, EnterHandsOn
    <2> QED
        BY <1>1, <2>1, <2>2, <2>3 DEF TaskTurnOver
<1>2. CASE VerificationOver(c)
    <2>1. CASE awaiting' = Without(c) /\ Fail(c.o, shown) /\ UNCHANGED <<objects, confirmed>>
        BY <1>0, <2>1, FailHandsOn
    <2>2. CASE Confirm(c)
        BY <1>0, <2>2, ConfirmHandsOn
    <2>3. CASE RetryOrFail(c) /\ UNCHANGED <<objects, confirmed>>
        BY <1>0, <2>3, RetryHandsOn
    <2> QED
        BY <1>2, <2>1, <2>2, <2>3 DEF VerificationOver
<1> QED
    BY <1>1, <1>2 DEF Resume

LEMMA GateHandsOn ==
    ASSUME EngineInv, NEW c \in awaiting, GateDecided(c)
    PROVE  HandsOn(c)
<1>0. started' = started
    BY DEF GateDecided
<1>1. CASE Confirm(c)
    BY <1>0, <1>1, ConfirmHandsOn
<1>2. CASE awaiting' = Without(c) /\ Fail(c.o, shown) /\ UNCHANGED <<objects, confirmed>>
    BY <1>0, <1>2, FailHandsOn
<1> QED
    BY <1>1, <1>2 DEF GateDecided

LEMMA TimerHandsOn ==
    ASSUME EngineInv, NEW c \in awaiting, RetryTimer(c)
    PROVE  HandsOn(c)
<1>1. /\ objects' = [objects EXCEPT ![c.o] = [objects[c.o] EXCEPT !.idx = c.i]]
      /\ awaiting' \in {Without(c), Without(c) \cup {Begin(c.o, c.i, c.a + 1)}}
      /\ UNCHANGED <<journal, started, confirmed>>
    BY DEF RetryTimer
<1>2. \A o \in DOMAIN objects : o \in DOMAIN objects' /\ objects'[o].run = objects[o].run
    BY <1>1, FieldsKeepRun, SameRun
<1>3. Begin(c.o, c.i, c.a + 1).o = c.o /\ Begin(c.o, c.i, c.a + 1).i = c.i
    BY DEF Begin
<1> QED
    BY <1>1, <1>2, <1>3 DEF HandsOn, Without

\* A step that settles waits, or drops their deadline, and changes neither runs nor rows.
LEMMA SettlingHandOff ==
    ASSUME EngineInv, HandOff, UNCHANGED <<journal, started, confirmed>>,
           \A o \in DOMAIN objects : o \in DOMAIN objects' /\ objects'[o].run = objects[o].run,
           \A d \in awaiting' : \E c \in awaiting : d.o = c.o /\ d.i = c.i
    PROVE  HandOff'
<1>1. Remembers
    BY DEF Remembers
<1> QED
    BY <1>1, HandOffKept

LEMMA HandOffStep ==
    ASSUME EngineInv, HandOff, [EngineNext]_engineVars
    PROVE  HandOff'
<1>t. objects \in Seq(ActiveRun) /\ journal \in [Run -> Row \cup {NoRow}] /\ active \in [Run -> 0..MaxObjects]
    BY DEF EngineInv, WorkflowTypeOK
<1>c. \A c \in awaiting, out \in Outcome : /\ [c EXCEPT !.out = out].o = c.o
                                           /\ [c EXCEPT !.out = out].i = c.i
    BY OfContinuation DEF Continuation
<1>1. ASSUME NEW c \in awaiting, Resume(c)  PROVE HandOff'
    BY <1>1, ResumeHandsOn, HandsOnKeeps
<1>2. ASSUME NEW c \in awaiting, Probed(c)  PROVE HandOff'
    BY <1>2, ProbedHandsOn, HandsOnKeeps
<1>3. ASSUME NEW c \in awaiting, Started(c)  PROVE HandOff'
    BY <1>3, StartedHandsOn, HandsOnKeeps
<1>4. ASSUME NEW c \in awaiting, RetryTimer(c)  PROVE HandOff'
    BY <1>4, TimerHandsOn, HandsOnKeeps
<1>5. ASSUME NEW c \in awaiting, GateDecided(c)  PROVE HandOff'
    BY <1>5, GateHandsOn, HandsOnKeeps
<1>6. ASSUME NEW c \in awaiting, WaitCancelled(c)  PROVE HandOff'
    <2>1. \A d \in awaiting' : \E e \in awaiting : d.o = e.o /\ d.i = e.i
        BY <1>6, <1>c DEF WaitCancelled, Settle, Without, Outcome
    <2> QED
        BY <1>6, <2>1, SettlingHandOff DEF WaitCancelled
<1>7. ASSUME NEW c \in awaiting, NodeTimeout(c)  PROVE HandOff'
    <2>1. \A d \in awaiting' : \E e \in awaiting : d.o = e.o /\ d.i = e.i
        <3>1. [c EXCEPT !.at = "dropped", !.out = "open"].o = c.o
              /\ [c EXCEPT !.at = "dropped", !.out = "open"].i = c.i
            BY OfContinuation DEF Continuation
        <3>2. CASE awaiting' = Then(c, "dropped")
            BY <3>1, <3>2 DEF Then, Without
        <3>3. CASE awaiting' = Settle(c, "interrupted")
            BY <1>c, <3>3 DEF Settle, Without, Outcome
        <3> QED
            BY <1>7, <3>2, <3>3 DEF NodeTimeout
    <2> QED
        BY <1>7, <2>1, SettlingHandOff DEF NodeTimeout
<1>8. ASSUME NEW s \in turns, NEW outcome \in Outcome, TurnEnds(s, outcome)  PROVE HandOff'
    <2>1. \A d \in awaiting' : \E e \in awaiting : d.o = e.o /\ d.i = e.i
        <3>1. \A d \in awaiting' : \E e \in awaiting : d = e \/ d = [e EXCEPT !.out = outcome]
            BY <1>8 DEF TurnEnds
        <3>2. \A e \in awaiting : /\ [e EXCEPT !.out = outcome].o = e.o
                                  /\ [e EXCEPT !.out = outcome].i = e.i
            BY <1>8, <1>c
        <3> QED
            BY <3>1, <3>2
    <2> QED
        BY <1>8, <2>1, SettlingHandOff DEF TurnEnds
<1>9. ASSUME NEW r \in Run, DispatchRun(r)  PROVE HandOff'
    <2>1. /\ objects' = Append(objects, NewObject(r)) /\ UNCHANGED <<journal, started, confirmed>>
          /\ awaiting' = awaiting \cup {Begin(Len(objects) + 1, 1, 0)}
        BY <1>9 DEF DispatchRun
    <2>2. \A o \in DOMAIN objects : o \in DOMAIN objects' /\ objects'[o].run = objects[o].run
        BY <1>t, <2>1
    <2>3. Begin(Len(objects) + 1, 1, 0).i = 1
        BY DEF Begin
    <2>4. \A d \in awaiting' : (\E e \in awaiting : d.o = e.o /\ d.i = e.i) \/ d.i = 1
        BY <2>1, <2>3
    <2>5. Remembers
        BY <2>1, <2>2 DEF Remembers
    <2> QED
        BY <2>1, <2>4, <2>5, HandOffKept
<1>10. ASSUME NEW r \in Run, CancelRun(r)  PROVE HandOff'
    <2>1. \A o \in DOMAIN objects : o \in DOMAIN objects' /\ objects'[o].run = objects[o].run
        <3>1. CASE active[r] = 0
            BY <1>10, <3>1 DEF CancelRun
        <3>2. CASE active[r] # 0
            <4>1. objects' = [objects EXCEPT ![active[r]].cancelled = TRUE]
                BY <1>10, <3>2 DEF CancelRun
            <4>2. \A o \in DOMAIN objects : objects[o] \in ActiveRun
                BY <1>t
            <4>3. \A x \in ActiveRun : [x EXCEPT !.cancelled = TRUE].run = x.run
                BY DEF ActiveRun
            <4> QED
                BY <1>t, <4>1, <4>2, <4>3
        <3> QED
            BY <3>1, <3>2
    <2>2. \A q \in Run : journal'[q] \in {NoRow, journal[q]}
        <3>1. CASE active[r] = 0
            BY <1>10, <3>1 DEF CancelRun
        <3>2. CASE active[r] # 0
            BY <1>10, <1>t, <3>2, FinishJournal DEF CancelRun
        <3> QED
            BY <3>1, <3>2
    <2>3. Remembers /\ UNCHANGED <<awaiting, started, confirmed>>
        BY <1>10, <2>1 DEF CancelRun, Remembers
    <2> QED
        BY <2>2, <2>3, HandOffKept
<1>11. CASE GoOffline
    <2>1. \A o \in DOMAIN objects : o \in DOMAIN objects' /\ objects'[o].run = objects[o].run
        BY <1>11, <1>t DEF GoOffline, ActiveRun
    <2> QED
        BY <1>11, <2>1, SettlingHandOff DEF GoOffline
<1>12. CASE GoOnline
    <2>1. \A o \in DOMAIN objects : o \in DOMAIN objects' /\ objects'[o].run = objects[o].run
        BY <1>12, <1>t DEF GoOnline, ActiveRun
    <2>2. \A d \in awaiting' : \E e \in awaiting : d.o = e.o /\ d.i = e.i
        <3> TAKE d \in awaiting'
        <3>1. PICK e \in awaiting : d = e \/ d = [e EXCEPT !.out = "interrupted"]
            BY <1>12 DEF GoOnline
        <3>2. "interrupted" \in Outcome
            BY DEF Outcome
        <3> QED
            BY <3>1, <3>2, <1>c
    <2> QED
        BY <1>12, <2>1, <2>2, SettlingHandOff DEF GoOnline
<1>13. CASE OtherRunEnds
    BY <1>13, SettlingHandOff DEF OtherRunEnds
<1>14. ASSUME NEW restore \in Restores, Crash(restore)  PROVE HandOff'
    <2>1. Restoring /\ UNCHANGED <<started, confirmed>>
        <3>1. Restoring
            BY <1>14, CrashKeeps
        <3>2. UNCHANGED <<started, confirmed>>
            BY <1>14 DEF Crash
        <3> QED
            BY <3>1, <3>2
    <2>2. Remembers
        BY <2>1 DEF Restoring, Remembers
    <2>3. ASSUME NEW d \in awaiting'  PROVE MayBegin(Of(d.o), d.i)'
        <3>1. PICK r \in Run : /\ journal[r] # NoRow /\ d.i = journal[r].idx
                               /\ d.o \in DOMAIN objects' /\ objects'[d.o].run = r
            BY <2>1 DEF Restoring
        <3>2. PICK i : i = journal[r].idx
            OBVIOUS
        <3>3. MayBegin(r, i)
            BY <3>1, <3>2 DEF HandOff
        <3>4. MayBegin(r, i)'
            BY <2>2, <3>3, MayStillBegin
        <3> QED
            BY <3>1, <3>2, <3>4 DEF MayBegin, Of
    <2> QED
        BY <2>1, <2>2, <2>3, HandOffKept DEF Restoring
<1>15. CASE UNCHANGED engineVars
    BY <1>15, SettlingHandOff DEF engineVars
<1> QED
    BY <1>1, <1>2, <1>3, <1>4, <1>5, <1>6, <1>7, <1>8, <1>9, <1>10, <1>11, <1>12, <1>13, <1>14, <1>15
       DEF EngineNext, EngineStep, Work

-----------------------------------------------------------------------------
LEMMA InitKeeps == EngineInit => EngineInv
<1> USE EngineAssumption
<1> SUFFICES ASSUME EngineInit PROVE EngineInv
    OBVIOUS
<1>1. WorkflowTypeOK
    <2>1. <<>> \in Seq(ActiveRun) /\ Len(<<>>) <= MaxObjects
        OBVIOUS
    <2>2. [r \in Run |-> [i \in 0..NodeCount |-> "none"]] \in Reported
        BY DEF Reported
    <2>3. [r \in Run |-> 0] \in [Run -> 0..MaxObjects] /\ [r \in Run |-> NoRow] \in [Run -> Row \cup {NoRow}]
        OBVIOUS
    <2>4. 0 \in 0..MaxCrashes /\ 0 \in 0..MaxBreaks
        OBVIOUS
    <2> QED
        BY <2>1, <2>2, <2>3, <2>4 DEF EngineInit, WorkflowTypeOK
<1>2. WalkInv
    BY DEF EngineInit, WalkInv, Existing, TimersRetry, ActiveIsOwn, NoStrangers,
           OneStepAtATime, NobodyForgotten, JournalForgets, NoRow
<1> QED
    BY <1>1, <1>2 DEF EngineInv

\* Every step keeps the invariant, and says what the server hears of it.
LEMMA NextKeeps ==
    ASSUME EngineInv, [EngineNext]_engineVars
    PROVE  /\ EngineInv'
           /\ \/ News
              \/ \E r \in Run : TakenUp(r)
              \/ \E kept, failed \in SUBSET Run : kept \cap failed = {} /\ ComesBack(kept, failed)
<1>1. ASSUME NEW c \in awaiting, Resume(c) PROVE EngineInv' /\ News
    BY <1>1, ResumeKeeps
<1>2. CASE Work
    <2>1. ASSUME NEW c \in awaiting, Probed(c) PROVE EngineInv' /\ News
        BY <2>1, ProbedKeeps
    <2>2. ASSUME NEW c \in awaiting, Started(c) PROVE EngineInv' /\ News
        BY <2>2, StartedKeeps
    <2>3. ASSUME NEW c \in awaiting, RetryTimer(c) PROVE EngineInv' /\ News
        BY <2>3, RetryTimerKeeps
    <2>4. ASSUME NEW c \in awaiting, WaitCancelled(c) PROVE EngineInv' /\ News
        BY <2>4, WaitCancelledKeeps
    <2>5. ASSUME NEW c \in awaiting, NodeTimeout(c) PROVE EngineInv' /\ News
        BY <2>5, NodeTimeoutKeeps
    <2>6. ASSUME NEW s \in turns, NEW outcome \in Outcome, TurnEnds(s, outcome) PROVE EngineInv' /\ News
        BY <2>6, TurnEndsKeeps
    <2> QED
        BY <1>2, <2>1, <2>2, <2>3, <2>4, <2>5, <2>6 DEF Work
<1>3. ASSUME NEW r \in Run, DispatchRun(r) PROVE EngineInv' /\ TakenUp(r)
    BY <1>3, DispatchRunKeeps
<1>4. ASSUME NEW r \in Run, CancelRun(r) PROVE EngineInv' /\ News
    BY <1>4, CancelRunKeeps
<1>5. ASSUME NEW c \in awaiting, GateDecided(c) PROVE EngineInv' /\ News
    BY <1>5, GateDecidedKeeps
<1>6. CASE GoOffline
    BY <1>6, GoOfflineKeeps
<1>7. CASE GoOnline
    BY <1>7, GoOnlineKeeps
<1>8. CASE OtherRunEnds
    BY <1>8, OtherRunEndsKeeps DEF OtherRunEnds
<1>9. ASSUME NEW restore \in Restores, Crash(restore)
      PROVE  EngineInv' /\ \E kept, failed \in SUBSET Run :
                 kept \cap failed = {} /\ ComesBack(kept, failed)
    BY <1>9, CrashKeeps
<1>10. CASE UNCHANGED engineVars
    BY <1>10, OtherRunEndsKeeps DEF engineVars, EngineInv, WorkflowTypeOK
<1> QED
    BY <1>1, <1>2, <1>3, <1>4, <1>5, <1>6, <1>7, <1>8, <1>9, <1>10 DEF EngineNext, EngineStep

LEMMA EngineInvariant == EngineSpec => []EngineInv
<1>1. EngineInv /\ [EngineNext]_engineVars => EngineInv'
    BY NextKeeps
<1> QED
    BY InitKeeps, <1>1, PTL DEF EngineSpec

\* The engine keeps the types of its state, its attempts and node indices included:
\* a journal row and a retry timer never lead past the last node or attempt.
THEOREM EngineTypes == EngineSpec => []WorkflowTypeOK
<1>1. EngineInv => WorkflowTypeOK
    BY DEF EngineInv
<1> QED
    BY EngineInvariant, <1>1, PTL

\* Never are two steps of one walk under way, with any number of runs, retries,
\* lost connections and restarts.
THEOREM OneStep == EngineSpec => []OneStepAtATime
<1>1. EngineInv => OneStepAtATime
    BY DEF EngineInv, WalkInv
<1> QED
    BY EngineInvariant, <1>1, PTL

\* An active run has a step under way or something it waits for, were it only the
\* deadline that was dropped.
THEOREM Nobody == EngineSpec => []NobodyForgotten
<1>1. EngineInv => NobodyForgotten
    BY DEF EngineInv, WalkInv
<1> QED
    BY EngineInvariant, <1>1, PTL

\* A run that ends leaves the journal, unless it was cancelled or the process died.
THEOREM Forgets == EngineSpec => []JournalForgets
<1>1. EngineInv => JournalForgets
    BY DEF EngineInv, WalkInv
<1> QED
    BY EngineInvariant, <1>1, PTL

\* A node begins only after the condition of the node before it was met in the same
\* run, whatever the retries, cancellations, restarts and dispatches in between
\* (confirmNode and startNode of workflow/engine.ts, and its journal).
THEOREM HandsOver == EngineSpec => []HandOffAfterConfirmation
<1>1. EngineInit => HandOff
    BY DEF EngineInit, HandOff, NoRow
<1>2. EngineInv /\ HandOff /\ [EngineNext]_engineVars => HandOff'
    BY HandOffStep
<1>3. EngineInv /\ HandOff => HandOffAfterConfirmation
    <2> SUFFICES ASSUME EngineInv, HandOff, NEW s \in started, s[2] > 1
                 PROVE  \E p \in confirmed : Of(p[1]) = Of(s[1]) /\ p[2] = s[2] - 1
        BY DEF HandOffAfterConfirmation
    <2>1. MayBegin(Of(s[1]), s[2]) /\ s[2] # 1
        BY DEF HandOff
    <2> QED
        BY <2>1 DEF MayBegin
<1> QED
    BY EngineInvariant, <1>1, <1>2, <1>3, PTL DEF EngineSpec

\* The engine implements the life of a run that the server counts on: a run is taken
\* up once, ends once with the status that is reported, and only a crash loses it.
THEOREM EngineRefinesLife == EngineSpec => ImplementsRunLife
<1> DEFINE L == {r \in Run : active[r] # 0}
           S == [r \in Run |-> shown[r][0]]
<1>1. EngineInit => Life!LifeInit
    <2> SUFFICES ASSUME EngineInit PROVE L = {} /\ S = [r \in Run |-> "none"]
        BY DEF Life!LifeInit
    <2>1. 0 \in 0..NodeCount
        BY EngineAssumption
    <2> QED
        BY <2>1 DEF EngineInit
<1>2. EngineInv /\ [EngineNext]_engineVars => [Life!LifeNext]_(Life!lifeVars)
    <2> SUFFICES ASSUME EngineInv, [EngineNext]_engineVars
                 PROVE  Life!LifeNext \/ (L' = L /\ S' = S)
        BY DEF Life!lifeVars
    <2>1. CASE NoNews
        BY <2>1 DEF NoNews
    <2>2. ASSUME NEW r \in Run, NEW status \in Ended, EndOf(r, status) PROVE Life!LifeNext
        <3>1. r \in L /\ L' = L \ {r}
            BY <2>2 DEF EndOf
        <3>2. S' = [S EXCEPT ![r] = status]
            BY <2>2 DEF EndOf
        <3>3. Life!End(r, status)
            BY <3>1, <3>2 DEF Life!End
        <3> QED
            BY <3>3 DEF Life!LifeNext, Ended
    <2>3. ASSUME NEW r \in Run, TakenUp(r) PROVE Life!LifeNext
        <3>1. r \notin L /\ L' = L \cup {r}
            BY <2>3 DEF TakenUp
        <3>2. S' = [S EXCEPT ![r] = "running"]
            BY <2>3 DEF TakenUp
        <3>3. Life!Take(r)
            BY <3>1, <3>2 DEF Life!Take
        <3> QED
            BY <3>3 DEF Life!LifeNext
    <2>4. ASSUME NEW kept \in SUBSET Run, NEW failed \in SUBSET Run, kept \cap failed = {},
                 ComesBack(kept, failed)
          PROVE  Life!LifeNext
        <3>1. L' = kept
            BY <2>4 DEF ComesBack
        <3>2. S' = [r \in Run |-> IF r \in failed THEN "failed" ELSE S[r]]
            BY <2>4 DEF ComesBack
        <3>3. Life!Die(kept, failed)
            BY <2>4, <3>1, <3>2 DEF Life!Die
        <3> QED
            BY <3>3 DEF Life!LifeNext
    <2> QED
        BY <2>1, <2>2, <2>3, <2>4, NextKeeps DEF News
<1> QED
    BY EngineInvariant, <1>1, <1>2, PTL DEF EngineSpec, ImplementsRunLife, Life!LifeSpec

-----------------------------------------------------------------------------
(* Definitions: what validateLinear accepts.  The walk from the root is shown step *)
(* by step (induction by a least counterexample); along a line it meets every node *)
(* once, and where it has no branch and no loop it goes along a line.              *)

Drawing == [nodes : Seq(CanvasNode), edges : SUBSET (NodeId \X NodeId)]

LEMMA LeastOne ==
    ASSUME NEW T, T \subseteq Nat, T # {}
    PROVE  \E n \in T : \A m \in T : n <= m
<1> DEFINE U == {0..n : n \in T}
<1>1. U \subseteq FiniteSubsetsOf(Nat) /\ U # {}
    <2>1. ASSUME NEW n \in T PROVE 0..n \in FiniteSubsetsOf(Nat)
        BY FS_Interval DEF FiniteSubsetsOf
    <2> QED
        BY <2>1
<1>2. \E x \in U : \A y \in U : ~(<<y, x>> \in StrictSubsetOrdering(Nat))
    <2> HIDE DEF U
    <2> QED
        BY <1>1, FS_StrictSubsetOrderingWellFounded, WFMin
<1>3. PICK n \in T : \A m \in T : ~(<<0..m, 0..n>> \in StrictSubsetOrdering(Nat))
    BY <1>2
<1>4. ASSUME NEW m \in T, m < n PROVE FALSE
    <2>1. n \in 0..n /\ n \notin 0..m
        BY <1>4
    <2>2. 0..m \subseteq 0..n /\ 0..m # 0..n
        BY <1>4, <2>1
    <2>3. 0..m \in SUBSET Nat /\ 0..n \in SUBSET Nat
        OBVIOUS
    <2>4. <<0..m, 0..n>> \in StrictSubsetOrdering(Nat)
        BY <2>2, <2>3 DEF StrictSubsetOrdering
    <2> QED
        BY <1>3, <2>4
<1> QED
    BY <1>4

Onward(canvas, X) == UNION {Successors(canvas, id) : id \in X}

LEMMA WalkInSteps ==
    ASSUME NEW canvas, Len(canvas.nodes) \in Nat
    PROVE  /\ Walk(canvas)[0] = Roots(canvas)
           /\ \A k \in 1..Len(canvas.nodes) : Walk(canvas)[k] = Onward(canvas, Walk(canvas)[k - 1])
<1> DEFINE N == Len(canvas.nodes)
           R == Roots(canvas)
           Upto(n) == \E g : g = [k \in 0..n |-> IF k = 0 THEN R ELSE Onward(canvas, g[k - 1])]
           T == {n \in 0..N : ~Upto(n)}
<1> HIDE DEF N, R
<1>1. Upto(0)
    <2> DEFINE g == [k \in 0..0 |-> R]
    <2>1. g = [k \in 0..0 |-> IF k = 0 THEN R ELSE Onward(canvas, g[k - 1])]
        OBVIOUS
    <2> QED
        BY <2>1
<1>2. ASSUME NEW n \in Nat, Upto(n) PROVE Upto(n + 1)
    <2>1. PICK g : g = [k \in 0..n |-> IF k = 0 THEN R ELSE Onward(canvas, g[k - 1])]
        BY <1>2
    <2> DEFINE h == [k \in 0..(n + 1) |-> IF k = n + 1 THEN Onward(canvas, g[n]) ELSE g[k]]
    <2>2. \A k \in 0..(n + 1) : h[k] = IF k = 0 THEN R ELSE Onward(canvas, h[k - 1])
        <3> TAKE k \in 0..(n + 1)
        <3>1. CASE k = 0
            BY <2>1, <3>1
        <3>2. CASE k \in 1..n
            <4>1. h[k] = g[k] /\ h[k - 1] = g[k - 1] /\ k \in 0..n
                BY <3>2
            <4>2. g[k] = Onward(canvas, g[k - 1])
                BY <2>1, <3>2, <4>1
            <4> QED
                BY <3>2, <4>1, <4>2
        <3>3. CASE k = n + 1
            BY <3>3
        <3> QED
            BY <3>1, <3>2, <3>3
    <2>3. h = [k \in 0..(n + 1) |-> IF k = 0 THEN R ELSE Onward(canvas, h[k - 1])]
        BY <2>2
    <2> QED
        BY <2>3
<1> HIDE DEF Upto
<1>3. T = {}
    <2> SUFFICES ASSUME T # {} PROVE FALSE
        OBVIOUS
    <2>0. T \subseteq Nat
        BY DEF N
    <2>1. PICK n \in T : \A m \in T : n <= m
        <3> HIDE DEF T
        <3> QED
            BY <2>0, LeastOne
    <2>2. n # 0 /\ n \in Nat /\ n \in 0..N /\ N \in Nat
        BY <1>1 DEF N
    <2>3. n - 1 \in 0..N /\ n - 1 \notin T /\ n - 1 \in Nat
        BY <2>1, <2>2
    <2>4. Upto(n - 1)
        BY <2>3
    <2>5. Upto((n - 1) + 1)
        BY <1>2, <2>3, <2>4
    <2>6. (n - 1) + 1 = n
        BY <2>2
    <2> QED
        BY <2>1, <2>5, <2>6
<1>4. Upto(N)
    BY <1>3 DEF N
<1>5. Walk(canvas) = [k \in 0..N |-> IF k = 0 THEN R ELSE Onward(canvas, Walk(canvas)[k - 1])]
    BY <1>4 DEF Upto, Walk, Onward, N, R
<1>6. N \in Nat /\ 0 \in 0..N /\ \A k \in 1..N : k \in 0..N /\ k # 0
    BY DEF N
<1>7. Walk(canvas)[0] = R
    BY <1>5, <1>6
<1>8. \A k \in 1..N : Walk(canvas)[k] = Onward(canvas, Walk(canvas)[k - 1])
    BY <1>5, <1>6
<1> QED
    BY <1>7, <1>8 DEF N, R

LEMMA OnPositions ==
    ASSUME NEW n \in Nat, NEW S, NEW g \in [1..n -> S]
    PROVE  g \in Seq(S) /\ Len(g) = n /\ DOMAIN g = 1..n
<1>1. g \in Seq(S)
    BY SeqDef, Zenon
<1>2. DOMAIN g = 1..n
    OBVIOUS
<1>3. Len(g) \in Nat /\ DOMAIN g = 1..Len(g)
    BY <1>1, LenProperties
<1>4. Len(g) = n
    BY <1>2, <1>3
<1> QED
    BY <1>1, <1>2, <1>4

LEMMA IdsAreFew ==
    ASSUME NEW nodes \in Seq(CanvasNode)
    PROVE  /\ IsFiniteSet(IdsOf(nodes)) /\ Cardinality(IdsOf(nodes)) \in Nat
           /\ Cardinality(IdsOf(nodes)) <= Len(nodes)
           /\ IdsOf(nodes) \subseteq NodeId /\ (nodes = <<>> <=> IdsOf(nodes) = {})
<1> DEFINE f == [i \in 1..Len(nodes) |-> nodes[i].id]
<1>1. Len(nodes) \in Nat /\ DOMAIN nodes = 1..Len(nodes) /\ \A i \in 1..Len(nodes) : nodes[i] \in CanvasNode
    OBVIOUS
<1>2. f \in Surjection(1..Len(nodes), IdsOf(nodes))
    BY <1>1 DEF Surjection, IdsOf
<1>3. ExistsSurjection(1..Len(nodes), IdsOf(nodes))
    BY <1>2 DEF ExistsSurjection
<1>4. IsFiniteSet(IdsOf(nodes)) /\ Cardinality(IdsOf(nodes)) <= Len(nodes)
    BY <1>1, <1>3, FS_NatSurjection, FS_SurjCardinalityBound
<1>5. Cardinality(IdsOf(nodes)) \in Nat
    BY <1>4, FS_CardinalityType
<1>6. IdsOf(nodes) \subseteq NodeId
    BY <1>1 DEF IdsOf, CanvasNode
<1>7. nodes = <<>> <=> IdsOf(nodes) = {}
    <2>1. CASE nodes = <<>>
        <3>1. DOMAIN nodes = {}
            BY <2>1
        <3> QED
            BY <2>1, <3>1 DEF IdsOf
    <2>2. CASE nodes # <<>>
        <3>1. 1 \in DOMAIN nodes
            BY <1>1, <2>2, EmptySeq
        <3>2. nodes[1].id \in IdsOf(nodes)
            BY <3>1 DEF IdsOf
        <3> QED
            BY <2>2, <3>2
    <2> QED
        BY <2>1, <2>2
<1> QED
    BY <1>4, <1>5, <1>6, <1>7

LEMMA SuccessorsAreFew ==
    ASSUME NEW canvas, canvas.nodes \in Seq(CanvasNode), NEW id
    PROVE  IsFiniteSet(Successors(canvas, id)) /\ Cardinality(Successors(canvas, id)) \in Nat
<1>1. Successors(canvas, id) \subseteq IdsOf(canvas.nodes)
    BY DEF Successors, Edges
<1> QED
    BY <1>1, IdsAreFew, FS_Subset, FS_CardinalityType

LEMMA StepsOfALine ==
    ASSUME NEW canvas \in Drawing, NEW s \in Seq(NodeId), s # <<>>, IsLine(canvas, s)
    PROVE  /\ Roots(canvas) = {s[1]}
           /\ \A i \in 1..Len(s) : Successors(canvas, s[i]) = IF i < Len(s) THEN {s[i + 1]} ELSE {}
<1>1. /\ Len(s) \in Nat /\ Len(s) >= 1 /\ DOMAIN s = 1..Len(s)
      /\ \A i, j \in 1..Len(s) : s[i] = s[j] => i = j
      /\ IdsOf(canvas.nodes) = {s[i] : i \in 1..Len(s)}
      /\ Edges(canvas) = {<<s[i], s[i + 1]>> : i \in 1..(Len(s) - 1)}
    BY DEF IsLine
<1>2. s[1] \in Roots(canvas)
    <2>1. ASSUME NEW e \in Edges(canvas), e[2] = s[1] PROVE FALSE
        <3>1. PICK i \in 1..(Len(s) - 1) : e = <<s[i], s[i + 1]>>
            BY <1>1
        <3> QED
            BY <1>1, <2>1, <3>1
    <2> QED
        BY <1>1, <2>1 DEF Roots
<1>3. ASSUME NEW id \in Roots(canvas) PROVE id = s[1]
    <2>1. PICK j \in 1..Len(s) : id = s[j]
        BY <1>1 DEF Roots
    <2>2. ASSUME j # 1 PROVE FALSE
        <3>1. j - 1 \in 1..(Len(s) - 1) /\ (j - 1) + 1 = j
            BY <1>1, <2>2
        <3>2. <<s[j - 1], s[j]>> \in Edges(canvas)
            BY <1>1, <3>1
        <3> QED
            BY <2>1, <3>2 DEF Roots
    <2> QED
        BY <2>1, <2>2
<1>4. ASSUME NEW i \in 1..Len(s)
      PROVE  Successors(canvas, s[i]) = IF i < Len(s) THEN {s[i + 1]} ELSE {}
    <2>1. ASSUME NEW e \in Edges(canvas), e[1] = s[i] PROVE i < Len(s) /\ e[2] = s[i + 1]
        <3>1. PICK j \in 1..(Len(s) - 1) : e = <<s[j], s[j + 1]>>
            BY <1>1
        <3>2. j = i
            BY <1>1, <2>1, <3>1
        <3> QED
            BY <1>1, <3>1, <3>2
    <2>2. i < Len(s) => <<s[i], s[i + 1]>> \in Edges(canvas)
        BY <1>1
    <2> QED
        BY <2>1, <2>2 DEF Successors
<1> QED
    BY <1>2, <1>3, <1>4

LEMMA OnwardFromFew ==
    ASSUME NEW canvas
    PROVE  Onward(canvas, {}) = {} /\ \A x : Onward(canvas, {x}) = Successors(canvas, x)
<1>1. Onward(canvas, {}) = {}
    BY Zenon DEF Onward
<1>2. ASSUME NEW x PROVE Onward(canvas, {x}) = Successors(canvas, x)
    <2> DEFINE S(y) == Successors(canvas, y)
    <2>1. Onward(canvas, {x}) = UNION {S(y) : y \in {x}}
        BY DEF Onward
    <2> HIDE DEF S
    <2>2. UNION {S(y) : y \in {x}} = S(x)
        BY Zenon
    <2> QED
        BY <2>1, <2>2 DEF S
<1> QED
    BY <1>1, <1>2

\* The least of the numbers from 0 to n for which P fails comes after one for which P
\* holds.
LEMMA LeastAbove ==
    ASSUME NEW n \in Nat, NEW T, T \subseteq 0..n, T # {}, 0 \notin T
    PROVE  \E k \in 1..n : /\ k \in T /\ k - 1 \in 0..n /\ k - 1 \notin T
                          /\ (k - 1) + 1 = k /\ k - 1 < n
<1>1. T \subseteq Nat
    OBVIOUS
<1>2. PICK k \in T : \A m \in T : k <= m
    BY <1>1, LeastOne
<1>3. k \in 0..n /\ k # 0
    BY <1>2
<1>4. k \in 1..n /\ k - 1 \in 0..n /\ (k - 1) + 1 = k /\ k - 1 < n /\ ~(k <= k - 1)
    BY <1>3
<1>5. k - 1 \notin T
    BY <1>2, <1>4
<1> QED
    BY <1>2, <1>4, <1>5

LEMMA WalkOfALine ==
    ASSUME NEW canvas \in Drawing, NEW s \in Seq(NodeId), s # <<>>, IsLine(canvas, s)
    PROVE  \A k \in 0..Len(canvas.nodes) : Walk(canvas)[k] = IF k < Len(s) THEN {s[k + 1]} ELSE {}
<1> DEFINE N == Len(canvas.nodes)
           w == Walk(canvas)
           T == {k \in 0..N : w[k] # IF k < Len(s) THEN {s[k + 1]} ELSE {}}
<1>1. N \in Nat /\ Len(s) \in Nat /\ Len(s) >= 1
    BY DEF Drawing
<1>2. /\ w[0] = {s[1]}
      /\ \A k \in 1..N : w[k] = Onward(canvas, w[k - 1])
    BY <1>1, WalkInSteps, StepsOfALine
<1> HIDE DEF N, w
<1>3. T = {}
    <2> SUFFICES ASSUME T # {} PROVE FALSE
        OBVIOUS
    <2>0. T \subseteq 0..N /\ 0 \notin T
        <3>1. 0 + 1 = 1 /\ 0 < Len(s)
            BY <1>1
        <3> QED
            BY <1>2, <3>1
    <2>1. PICK k \in 1..N : k \in T /\ k - 1 \in 0..N /\ k - 1 \notin T /\ (k - 1) + 1 = k
        <3> HIDE DEF T
        <3> QED
            BY <1>1, <2>0, LeastAbove
    <2>2. k \in 1..N /\ (k - 1) + 1 = k
        BY <2>1
    <2>4. w[k - 1] = IF k - 1 < Len(s) THEN {s[(k - 1) + 1]} ELSE {}
        BY <2>1
    <2>6. CASE k - 1 < Len(s)
        <3>1. w[k - 1] = {s[k]} /\ k \in 1..Len(s)
            BY <1>1, <2>2, <2>4, <2>6
        <3>2. w[k] = Successors(canvas, s[k])
            BY <1>2, <2>2, <3>1, OnwardFromFew
        <3>3. w[k] = IF k < Len(s) THEN {s[k + 1]} ELSE {}
            BY <3>1, <3>2, StepsOfALine
        <3> QED
            BY <2>1, <3>3
    <2>7. CASE ~(k - 1 < Len(s))
        <3>1. w[k - 1] = {} /\ ~(k < Len(s))
            BY <1>1, <2>2, <2>4, <2>7
        <3>2. w[k] = {}
            BY <1>2, <2>2, <3>1, OnwardFromFew
        <3> QED
            BY <2>1, <3>1, <3>2
    <2> QED
        BY <2>6, <2>7
<1> QED
    BY <1>3 DEF N, w

LEMMA LineIsValid ==
    ASSUME NEW canvas \in Drawing, NEW s \in Seq(NodeId), s # <<>>, IsLine(canvas, s)
    PROVE  ValidateLinear(canvas) = "valid"
<1> DEFINE N == Len(canvas.nodes)
           I == IdsOf(canvas.nodes)
           w == Walk(canvas)
<1>1. /\ canvas.nodes \in Seq(CanvasNode) /\ N \in Nat
      /\ Len(s) \in Nat /\ Len(s) >= 1 /\ DOMAIN s = 1..Len(s)
      /\ \A i, j \in 1..Len(s) : s[i] = s[j] => i = j
      /\ I = {s[i] : i \in 1..Len(s)}
    BY DEF IsLine, Drawing
<1>2. Len(s) <= N
    <2>1. s \in Bijection(1..Len(s), I)
        BY <1>1 DEF Bijection, Injection, Surjection, IsInjective
    <2>2. Cardinality(I) = Len(s)
        BY <1>1, <2>1, FS_CountingElements DEF ExistsBijection
    <2> QED
        BY <1>1, <2>2, IdsAreFew
<1>3. canvas.nodes # <<>> /\ Len(canvas.nodes) > 0
    BY <1>1, <1>2
<1>4. Cardinality(Roots(canvas)) = 1
    BY StepsOfALine, FS_Singleton
<1>5. \A id \in I : Cardinality(Successors(canvas, id)) <= 1
    <2> SUFFICES ASSUME NEW id \in I PROVE Cardinality(Successors(canvas, id)) <= 1
        OBVIOUS
    <2>1. PICK i \in 1..Len(s) : id = s[i]
        BY <1>1
    <2>2. Successors(canvas, id) = {} \/ Successors(canvas, id) = {s[i + 1]}
        BY <2>1, StepsOfALine
    <2>3. Cardinality({}) = 0 /\ Cardinality({s[i + 1]}) = 1
        BY FS_EmptySet, FS_Singleton
    <2>4. CASE Successors(canvas, id) = {}
        BY <2>3, <2>4
    <2>5. CASE Successors(canvas, id) = {s[i + 1]}
        <3>1. Cardinality(Successors(canvas, id)) = 1
            BY <2>3, <2>5, Zenon
        <3> QED
            BY <3>1
    <2> QED
        BY <2>2, <2>4, <2>5
<1>6. \A k \in 0..N : w[k] = IF k < Len(s) THEN {s[k + 1]} ELSE {}
    BY WalkOfALine
<1> HIDE DEF w, I, N
<1>7. ~Loops(canvas)
    <2> SUFFICES ASSUME NEW j \in 0..N, NEW k \in 0..N, j < k, w[j] \cap w[k] # {} PROVE FALSE
        BY DEF Loops, w, N
    <2>1. w[j] # {} /\ w[k] # {}
        OBVIOUS
    <2>2. j < Len(s) /\ w[j] = {s[j + 1]} /\ k < Len(s) /\ w[k] = {s[k + 1]}
        BY <1>6, <2>1
    <2>3. j + 1 \in 1..Len(s) /\ k + 1 \in 1..Len(s) /\ j + 1 # k + 1
        BY <1>1, <2>2
    <2>4. s[j + 1] = s[k + 1]
        BY <2>2
    <2> QED
        BY <1>1, <2>3, <2>4
<1>8. Visited(canvas) = I
    <2>1. Visited(canvas) = UNION {w[k] : k \in 0..N}
        BY DEF Visited, w, N
    <2>2. ASSUME NEW i \in 1..Len(s) PROVE \E k \in 0..N : s[i] \in w[k]
        <3>1. i - 1 \in 0..N /\ i - 1 < Len(s) /\ (i - 1) + 1 = i
            BY <1>1, <1>2
        <3>2. w[i - 1] = {s[i]}
            BY <1>6, <3>1
        <3> QED
            BY <3>1, <3>2
    <2>3. ASSUME NEW k \in 0..N, NEW id \in w[k] PROVE id \in I
        <3>1. k < Len(s) /\ id = s[k + 1]
            BY <1>6, <2>3
        <3>2. k + 1 \in 1..Len(s)
            BY <1>1, <3>1
        <3> QED
            BY <1>1, <3>1, <3>2
    <2>4. ASSUME NEW id \in I PROVE id \in UNION {w[k] : k \in 0..N}
        <3>1. PICK i \in 1..Len(s) : id = s[i]
            BY <1>1, <2>4
        <3>2. PICK k \in 0..N : s[i] \in w[k]
            BY <2>2
        <3> QED
            BY <3>1, <3>2
    <2>5. ASSUME NEW id \in UNION {w[k] : k \in 0..N} PROVE id \in I
        <3>1. PICK k \in 0..N : id \in w[k]
            BY <2>5, Zenon
        <3> QED
            BY <2>3, <3>1
    <2> QED
        BY <2>1, <2>4, <2>5
<1> QED
    <2>1. ValidateLinear(canvas) =
                  CASE \E id \in I : Cardinality(Successors(canvas, id)) > 1 -> "branch"
                    [] Loops(canvas) -> "loop"
                    [] Visited(canvas) # I -> "not_connected"
                    [] OTHER -> "valid"
        BY <1>3, <1>4 DEF ValidateLinear, I
    <2>2. ASSUME NEW id \in I PROVE ~(Cardinality(Successors(canvas, id)) > 1)
        <3>1. Cardinality(Successors(canvas, id)) \in Nat
            BY <1>1, <1>5, SuccessorsAreFew DEF I
        <3> QED
            BY <1>5, <3>1
    <2> QED
        BY <1>7, <1>8, <2>1, <2>2

LEMMA AtMostOneElement ==
    ASSUME NEW X, IsFiniteSet(X), Cardinality(X) <= 1
    PROVE  X = {} \/ \E x : X = {x}
<1>1. Cardinality(X) \in Nat
    BY FS_CardinalityType
<1>2. Cardinality(X) = 0 \/ Cardinality(X) = 1
    BY <1>1
<1> QED
    BY <1>2, FS_EmptySet, FS_Singleton

\* Where nothing branches the walk is at one node at most, and when it is nowhere it
\* stays there.
LEMMA WalkIsSingle ==
    ASSUME NEW canvas \in Drawing, Cardinality(Roots(canvas)) = 1,
           \A id \in IdsOf(canvas.nodes) : Cardinality(Successors(canvas, id)) <= 1
    PROVE  \A k \in 0..Len(canvas.nodes) :
              /\ Walk(canvas)[k] \subseteq IdsOf(canvas.nodes)
              /\ Walk(canvas)[k] = {} \/ \E x : Walk(canvas)[k] = {x}
              /\ k < Len(canvas.nodes) /\ Walk(canvas)[k] = {} => Walk(canvas)[k + 1] = {}
<1> DEFINE N == Len(canvas.nodes)
           I == IdsOf(canvas.nodes)
           w == Walk(canvas)
           Single(X) == X \subseteq I /\ (X = {} \/ \E x : X = {x})
           T == {k \in 0..N : ~Single(w[k])}
<1>1. N \in Nat /\ IsFiniteSet(I)
    BY IdsAreFew DEF Drawing
<1>2. /\ w[0] = Roots(canvas)
      /\ \A k \in 1..N : w[k] = Onward(canvas, w[k - 1])
    BY <1>1, WalkInSteps
<1>3. Single(Roots(canvas))
    <2>1. Roots(canvas) \subseteq I
        BY DEF Roots
    <2>2. IsFiniteSet(Roots(canvas))
        BY <1>1, <2>1, FS_Subset
    <2> QED
        BY <2>1, <2>2, AtMostOneElement
<1>4. ASSUME NEW x \in I PROVE Single(Successors(canvas, x))
    <2>1. Successors(canvas, x) \subseteq I
        BY DEF Successors, Edges
    <2>2. IsFiniteSet(Successors(canvas, x))
        BY <1>1, <2>1, FS_Subset
    <2> QED
        BY <2>1, <2>2, AtMostOneElement
<1> HIDE DEF N, w
<1>5. \A k \in 1..N : w[k - 1] = {} => w[k] = {}
    BY <1>2, OnwardFromFew
<1>6. T = {}
    <2> SUFFICES ASSUME T # {} PROVE FALSE
        OBVIOUS
    <2>0. T \subseteq 0..N /\ 0 \notin T
        BY <1>2, <1>3
    <2>1. PICK k \in 1..N : k \in T /\ k - 1 \in 0..N /\ k - 1 \notin T /\ (k - 1) + 1 = k
        <3> HIDE DEF T
        <3> QED
            BY <1>1, <2>0, LeastAbove
    <2>2. k \in 1..N
        BY <2>1
    <2>4. Single(w[k - 1])
        BY <2>1
    <2>5. CASE w[k - 1] = {}
        BY <1>5, <2>1, <2>2, <2>5
    <2>6. CASE \E x : w[k - 1] = {x}
        <3>1. PICK x : w[k - 1] = {x}
            BY <2>6
        <3>2. x \in I /\ w[k] = Successors(canvas, x)
            BY <1>2, <2>2, <2>4, <3>1, OnwardFromFew
        <3> QED
            BY <1>4, <2>1, <3>2
    <2> QED
        BY <2>4, <2>5, <2>6
<1>7. \A k \in 0..N : Single(w[k])
    BY <1>6
<1>8. ASSUME NEW k \in 0..N, k < N, w[k] = {} PROVE w[k + 1] = {}
    <2>1. k + 1 \in 1..N /\ (k + 1) - 1 = k
        BY <1>1, <1>8
    <2> QED
        BY <1>5, <1>8, <2>1
<1> QED
    BY <1>7, <1>8 DEF N, w

LEMMA ValidHasALine ==
    ASSUME NEW canvas \in Drawing, ValidateLinear(canvas) = "valid"
    PROVE  \E s \in Seq(NodeId) : s # <<>> /\ IsLine(canvas, s)
<1> DEFINE N == Len(canvas.nodes)
           I == IdsOf(canvas.nodes)
           w == Walk(canvas)
           T == {k \in Nat : k = N + 1 \/ (k <= N /\ w[k] = {})}
<1>1. /\ canvas.nodes # <<>> /\ Cardinality(Roots(canvas)) = 1
      /\ \A id \in I : ~(Cardinality(Successors(canvas, id)) > 1)
      /\ ~Loops(canvas) /\ Visited(canvas) = I
    <2>1. canvas.nodes # <<>>
        BY DEF ValidateLinear
    <2>2. N \in Nat /\ N > 0
        BY <2>1 DEF Drawing
    <2>3. Cardinality(Roots(canvas)) = 1
        BY <2>1, <2>2 DEF ValidateLinear
    <2>4. "valid" = CASE \E id \in I : Cardinality(Successors(canvas, id)) > 1 -> "branch"
                      [] Loops(canvas) -> "loop"
                      [] Visited(canvas) # I -> "not_connected"
                      [] OTHER -> "valid"
        BY <2>1, <2>3 DEF ValidateLinear
    <2> QED
        BY <2>1, <2>3, <2>4
<1>2. N \in Nat /\ canvas.nodes \in Seq(CanvasNode) /\ canvas.edges \subseteq NodeId \X NodeId
    BY DEF Drawing
<1>3. IsFiniteSet(I) /\ Cardinality(I) \in Nat /\ Cardinality(I) <= N /\ I \subseteq NodeId
    BY <1>2, IdsAreFew
<1>4. \A id \in I : Cardinality(Successors(canvas, id)) <= 1
    <2> SUFFICES ASSUME NEW id \in I PROVE Cardinality(Successors(canvas, id)) <= 1
        OBVIOUS
    <2>1. IsFiniteSet(Successors(canvas, id))
        <3>1. Successors(canvas, id) \subseteq I
            BY DEF Successors, Edges
        <3> QED
            BY <1>3, <3>1, FS_Subset
    <2> QED
        BY <1>1, <2>1, FS_CardinalityType
<1>5. \A k \in 0..N : /\ w[k] \subseteq I /\ (w[k] = {} \/ \E x : w[k] = {x})
                      /\ k < N /\ w[k] = {} => w[k + 1] = {}
    BY <1>1, <1>4, WalkIsSingle
<1>6. \A k \in 1..N : w[k] = Onward(canvas, w[k - 1])
    BY <1>2, WalkInSteps
<1>7. w[0] # {}
    <2>1. w[0] = Roots(canvas)
        BY <1>2, WalkInSteps
    <2>2. Cardinality(w[0]) = 1
        BY <1>1, <2>1
    <2>3. Cardinality({}) = 0
        BY FS_EmptySet
    <2> HIDE DEF w
    <2>4. ASSUME w[0] = {} PROVE FALSE
        <3>1. Cardinality(w[0]) = 0
            BY <2>3, <2>4, Zenon
        <3> QED
            BY <2>2, <3>1
    <2> QED
        BY <2>4
<1>8. /\ \A j, k \in 0..N : j < k => w[j] \cap w[k] = {}
      /\ I = UNION {w[k] : k \in 0..N}
    BY <1>1 DEF Loops, Visited
<1> HIDE DEF N, I, w
<1>9. PICK p \in T : \A m \in T : p <= m
    <2>1. T \subseteq Nat /\ N + 1 \in T
        BY <1>2
    <2> HIDE DEF T
    <2> QED
        BY <2>1, LeastOne
<1>10. p \in 1..(N + 1) /\ \A k \in 0..(p - 1) : k \in 0..N /\ w[k] # {}
    <2>1. N + 1 \in T
        BY <1>2
    <2>2. p \in Nat /\ p <= N + 1 /\ p # 0
        BY <1>2, <1>7, <1>9, <2>1
    <2>3. ASSUME NEW k \in 0..(p - 1) PROVE k \in 0..N /\ w[k] # {}
        <3>1. k \in 0..N /\ k < p
            BY <1>2, <2>2
        <3>2. k \notin T
            BY <1>9, <2>2, <3>1
        <3> QED
            BY <1>2, <3>1, <3>2
    <2> QED
        BY <1>2, <2>2, <2>3
<1>11. \A k \in p..N : w[k] = {}
    <2> DEFINE U == {k \in p..N : w[k] # {}}
    <2> SUFFICES ASSUME U # {} PROVE FALSE
        OBVIOUS
    <2>0. U \subseteq Nat
        BY <1>2, <1>10
    <2>1. PICK k \in U : \A m \in U : k <= m
        <3> HIDE DEF U
        <3> QED
            BY <2>0, LeastOne
    <2>2. k # p
        BY <1>2, <1>9, <1>10, <2>1
    <2>3. k - 1 \in p..N /\ k - 1 \notin U /\ k - 1 \in 0..N /\ k - 1 < N /\ (k - 1) + 1 = k
        BY <1>2, <1>10, <2>1, <2>2
    <2> QED
        BY <1>5, <2>1, <2>3
<1> DEFINE s == [i \in 1..p |-> CHOOSE x : w[i - 1] = {x}]
<1>12. \A i \in 1..p : w[i - 1] = {s[i]} /\ s[i] \in I
    <2> SUFFICES ASSUME NEW i \in 1..p PROVE w[i - 1] = {s[i]} /\ s[i] \in I
        OBVIOUS
    <2>1. i - 1 \in 0..(p - 1)
        BY <1>10
    <2>2. (\E x : w[i - 1] = {x}) /\ w[i - 1] \subseteq I
        BY <1>5, <1>10, <2>1
    <2>3. w[i - 1] = {CHOOSE x : w[i - 1] = {x}}
        BY <2>2
    <2> QED
        BY <2>2, <2>3
<1>13. s \in Seq(NodeId) /\ Len(s) = p /\ s # <<>> /\ DOMAIN s = 1..p
    <2>1. \A i \in 1..p : s[i] \in NodeId
        BY <1>3, <1>12
    <2>2. p \in Nat /\ p >= 1
        BY <1>2, <1>10
    <2>3. s \in [1..p -> NodeId]
        BY <2>1
    <2> HIDE DEF s
    <2>4. s \in Seq(NodeId) /\ DOMAIN s = 1..p /\ Len(s) = p
        BY <2>2, <2>3, OnPositions
    <2> QED
        BY <2>2, <2>4, EmptySeq
<1> HIDE DEF s
<1>14. \A i, j \in 1..p : s[i] = s[j] => i = j
    <2>1. ASSUME NEW i \in 1..p, NEW j \in 1..p, s[i] = s[j], i < j PROVE FALSE
        <3>1. i - 1 \in 0..N /\ j - 1 \in 0..N /\ i - 1 < j - 1
            BY <1>2, <1>10, <2>1
        <3>2. w[i - 1] \cap w[j - 1] = {}
            BY <1>8, <3>1
        <3> QED
            BY <1>12, <2>1, <3>2
    <2> QED
        BY <1>10, <2>1
<1>15. {s[i] : i \in 1..p} = I
    <2>1. ASSUME NEW id \in I PROVE \E i \in 1..p : id = s[i]
        <3>1. PICK k \in 0..N : id \in w[k]
            BY <1>8
        <3>2. k < p
            BY <1>2, <1>10, <1>11, <3>1
        <3>3. k + 1 \in 1..p /\ (k + 1) - 1 = k
            BY <1>10, <3>1, <3>2
        <3> QED
            BY <1>12, <3>1, <3>3
    <2> QED
        BY <1>12, <2>1
<1>16. p <= N
    <2>1. s \in Bijection(1..p, I)
        <3>1. s \in [1..p -> I]
            BY <1>12, <1>13
        <3> QED
            BY <1>14, <1>15, <3>1 DEF Bijection, Injection, Surjection, IsInjective
    <2>2. Cardinality(I) = p
        BY <1>10, <2>1, FS_CountingElements DEF ExistsBijection
    <2> QED
        BY <1>3, <2>2
<1>17. \A i \in 1..p : Successors(canvas, s[i]) = IF i < p THEN {s[i + 1]} ELSE {}
    <2> SUFFICES ASSUME NEW i \in 1..p
                 PROVE  Successors(canvas, s[i]) = IF i < p THEN {s[i + 1]} ELSE {}
        OBVIOUS
    <2>1. i \in 1..N
        BY <1>2, <1>10, <1>16
    <2>2. w[i] = Successors(canvas, s[i])
        BY <1>6, <1>12, <2>1 DEF Onward
    <2>3. CASE i < p
        <3>1. i + 1 \in 1..p /\ (i + 1) - 1 = i
            BY <1>10, <2>3
        <3> QED
            BY <1>12, <2>2, <2>3, <3>1
    <2>4. CASE ~(i < p)
        <3>1. i \in p..N
            BY <1>10, <2>1, <2>4
        <3> QED
            BY <1>11, <2>2, <2>4, <3>1
    <2> QED
        BY <2>3, <2>4
<1>18. Edges(canvas) = {<<s[i], s[i + 1]>> : i \in 1..(p - 1)}
    <2>1. ASSUME NEW e \in Edges(canvas) PROVE \E i \in 1..(p - 1) : e = <<s[i], s[i + 1]>>
        <3>1. e = <<e[1], e[2]>> /\ e[1] \in I
            BY <1>2 DEF Edges, I
        <3>2. PICK i \in 1..p : e[1] = s[i]
            BY <1>15, <3>1
        <3>3. e[2] \in Successors(canvas, s[i])
            BY <3>2 DEF Successors
        <3>4. i < p /\ e[2] = s[i + 1]
            BY <1>17, <3>3
        <3>5. i \in 1..(p - 1)
            BY <1>10, <3>4
        <3> QED
            BY <3>1, <3>2, <3>4, <3>5
    <2>2. ASSUME NEW i \in 1..(p - 1) PROVE <<s[i], s[i + 1]>> \in Edges(canvas)
        <3>1. i \in 1..p /\ i < p
            BY <1>10
        <3>2. s[i + 1] \in Successors(canvas, s[i])
            BY <1>17, <3>1
        <3>3. PICK e \in Edges(canvas) : e[1] = s[i] /\ e[2] = s[i + 1]
            BY <3>2 DEF Successors
        <3>4. e = <<e[1], e[2]>>
            BY <1>2 DEF Edges
        <3> QED
            BY <3>3, <3>4
    <2> QED
        BY <2>1, <2>2
<1>19. IsLine(canvas, s)
    BY <1>13, <1>14, <1>15, <1>18 DEF IsLine, I
<1> QED
    BY <1>13, <1>19

\* validateLinear of the canvas accepts a drawing exactly if its edges lead along one
\* line through all of its nodes, however many they are and however they were drawn:
\* counting roots and successors and walking from the root once is enough.
THEOREM LinesAreAccepted ==
    \A canvas \in Drawing :
        ValidateLinear(canvas) = "valid" <=> \E s \in Seq(NodeId) : s # <<>> /\ IsLine(canvas, s)
BY LineIsValid, ValidHasALine

OrderOf(nodes) == [i \in DOMAIN nodes |-> nodes[i].id]

LEMMA OrderOfNodes ==
    ASSUME NEW nodes, NEW n \in Nat, DOMAIN nodes = 1..n,
           \A i \in 1..n : nodes[i].id \in NodeId
    PROVE  /\ OrderOf(nodes) \in Seq(NodeId) /\ Len(OrderOf(nodes)) = n /\ DOMAIN OrderOf(nodes) = 1..n
           /\ \A i \in 1..n : OrderOf(nodes)[i] = nodes[i].id
<1>1. OrderOf(nodes) \in [1..n -> NodeId]
    BY DEF OrderOf
<1>2. OrderOf(nodes) \in Seq(NodeId) /\ DOMAIN OrderOf(nodes) = 1..n
    BY <1>1 DEF Seq
<1>3. Len(OrderOf(nodes)) = n
    BY <1>2
<1> QED
    BY <1>2, <1>3 DEF OrderOf

\* One node, saved, opened and saved again.
Reopened(d) ==
    [id |-> d.id, agent |-> d.agent, task |-> d.task,
     handoff |-> IF d.handoff = Absent THEN Blank ELSE d.handoff,
     kind |-> d.kind,
     criteria |-> IF d.criteria = Absent THEN Blank ELSE d.criteria,
     maxRetries |-> d.maxRetries, turnBudget |-> d.turnBudget,
     timeoutMs |-> d.timeoutMs]

LEMMA NodeIsReopened ==
    ASSUME NEW node \in CanvasNode
    PROVE  /\ NodeToInput(Reopened(NodeToInput(node))) = NodeToInput(node)
           /\ Reopened(NodeToInput(node)) \in CanvasNode
           /\ Reopened(NodeToInput(node)).id = node.id /\ NodeToInput(node).id = node.id
<1> DEFINE d == NodeToInput(node)
           r == Reopened(d)
<1>1. /\ d.id = node.id /\ d.agent = node.agent /\ d.task = node.task /\ d.kind = node.kind
      /\ d.handoff = IF node.handoff = Blank THEN Absent ELSE node.handoff
      /\ d.criteria = IF node.kind = "criteria_check" THEN node.criteria ELSE Absent
      /\ d.maxRetries = IF node.kind = "manual_gate" THEN 0 ELSE node.maxRetries
      /\ d.turnBudget = node.turnBudget /\ d.timeoutMs = node.timeoutMs
    BY DEF NodeToInput
<1>2. /\ r.id = d.id /\ r.agent = d.agent /\ r.task = d.task /\ r.kind = d.kind
      /\ r.handoff = IF d.handoff = Absent THEN Blank ELSE d.handoff
      /\ r.criteria = IF d.criteria = Absent THEN Blank ELSE d.criteria
      /\ r.maxRetries = d.maxRetries /\ r.turnBudget = d.turnBudget /\ r.timeoutMs = d.timeoutMs
    BY DEF Reopened
<1>3. /\ node.id \in NodeId /\ node.agent \in Agent /\ node.task \in Text /\ node.handoff \in Text
      /\ node.kind \in ConditionKind /\ node.criteria \in Text
      /\ node.maxRetries \in Nat /\ node.turnBudget \in Nat /\ node.timeoutMs \in Nat
    BY DEF CanvasNode
<1>4. Absent \notin Text /\ Blank \in Text
    BY TextAssumption DEF Text
<1>5. r \in CanvasNode
    <2>1. r.handoff \in Text /\ r.criteria \in Text /\ r.maxRetries \in Nat
        BY <1>1, <1>2, <1>3, <1>4
    <2> QED
        BY <1>1, <1>2, <1>3, <2>1 DEF CanvasNode, Reopened
<1>6. NodeToInput(r) = d
    <2>1. (IF r.handoff = Blank THEN Absent ELSE r.handoff) = d.handoff
        BY <1>1, <1>2, <1>3, <1>4
    <2>2. (IF r.kind = "criteria_check" THEN r.criteria ELSE Absent) = d.criteria
        BY <1>1, <1>2, <1>3, <1>4
    <2>3. (IF r.kind = "manual_gate" THEN 0 ELSE r.maxRetries) = d.maxRetries
        BY <1>1, <1>2
    <2>4. NodeToInput(r) = [id |-> d.id, agent |-> d.agent, task |-> d.task, handoff |-> d.handoff,
                            kind |-> d.kind, criteria |-> d.criteria, maxRetries |-> d.maxRetries,
                            turnBudget |-> d.turnBudget, timeoutMs |-> d.timeoutMs]
        BY <1>2, <2>1, <2>2, <2>3 DEF NodeToInput
    <2> QED
        BY <1>1, <2>4 DEF NodeToInput
<1> QED
    BY <1>1, <1>2, <1>5, <1>6

LEMMA OpenedIsALine ==
    ASSUME NEW d, NEW n \in Nat, DOMAIN d = 1..n, Len(d) = n, n > 0,
           \A i \in 1..n : Reopened(d[i]) \in CanvasNode,
           \A i, j \in 1..n : d[i].id = d[j].id => i = j
    PROVE  ValidateLinear(OpenDefinition(d)) = "valid"
<1> DEFINE c == OpenDefinition(d)
           s == OrderOf(d)
<1>1. c.nodes = [i \in 1..n |-> Reopened(d[i])] /\ c.edges = {<<d[i].id, d[i + 1].id>> : i \in 1..(n - 1)}
    BY DEF OpenDefinition, Reopened
<1>2. \A i \in 1..n : Reopened(d[i]).id = d[i].id /\ d[i].id \in NodeId
    BY DEF Reopened, CanvasNode
<1>3. /\ s \in Seq(NodeId) /\ Len(s) = n /\ DOMAIN s = 1..n /\ \A i \in 1..n : s[i] = d[i].id
    BY <1>2, OrderOfNodes
<1>4. c \in Drawing
    <2>1. c.nodes \in Seq(CanvasNode)
        <3>1. c.nodes \in [1..n -> CanvasNode]
            BY <1>1
        <3> QED
            BY <3>1 DEF Seq
    <2>2. c.edges \in SUBSET (NodeId \X NodeId)
        BY <1>1, <1>2
    <2>3. c = [nodes |-> c.nodes, edges |-> c.edges]
        BY DEF OpenDefinition
    <2> HIDE DEF c
    <2> QED
        BY <2>1, <2>2, <2>3 DEF Drawing
<1> HIDE DEF c, s
<1>5. IdsOf(c.nodes) = {s[i] : i \in 1..n}
    BY <1>1, <1>2, <1>3 DEF IdsOf
<1>6. Edges(c) = {<<s[i], s[i + 1]>> : i \in 1..(n - 1)}
    <2>1. \A i \in 1..(n - 1) : i \in 1..n /\ i + 1 \in 1..n
        OBVIOUS
    <2>2. c.edges = {<<s[i], s[i + 1]>> : i \in 1..(n - 1)}
        BY <1>1, <1>3, <2>1
    <2>3. \A e \in c.edges : e[1] \in IdsOf(c.nodes) /\ e[2] \in IdsOf(c.nodes)
        BY <1>5, <2>1, <2>2
    <2> QED
        BY <2>2, <2>3 DEF Edges
<1>7. IsLine(c, s) /\ s # <<>>
    BY <1>3, <1>5, <1>6 DEF IsLine
<1> QED
    BY <1>3, <1>4, <1>7, LineIsValid DEF c

\* A definition that was saved from the canvas is opened as a drawing that saves as the
\* same definition (autosave changes nothing that nobody asked for), and if the server
\* has accepted it the canvas does (snapshotToNodes, nodeToInput, validateDefinition).
THEOREM OpenedSavesAsItself ==
    \A canvas \in Drawing :
        LET d == SavedNodes(canvas) IN
        /\ SavedNodes(OpenDefinition(d)) = d
        /\ ValidateDefinition(d) => ValidateLinear(OpenDefinition(d)) = "valid"
<1> SUFFICES ASSUME NEW canvas \in Drawing
             PROVE  LET d == SavedNodes(canvas) IN
                    /\ SavedNodes(OpenDefinition(d)) = d
                    /\ ValidateDefinition(d) => ValidateLinear(OpenDefinition(d)) = "valid"
    OBVIOUS
<1> DEFINE d == SavedNodes(canvas)
           n == Len(canvas.nodes)
<1>1. n \in Nat /\ DOMAIN canvas.nodes = 1..n /\ \A i \in 1..n : canvas.nodes[i] \in CanvasNode
    BY DEF Drawing
<1>2. d = [i \in 1..n |-> NodeToInput(canvas.nodes[i])]
    BY <1>1 DEF SavedNodes
<1> HIDE DEF d, n
<1>3. DOMAIN d = 1..n /\ Len(d) = n
    <2>1. d \in [1..n -> {NodeToInput(canvas.nodes[i]) : i \in 1..n}]
        BY <1>2
    <2> QED
        BY <1>1, <2>1, OnPositions
<1>4. \A i \in 1..n : Reopened(d[i]) \in CanvasNode /\ NodeToInput(Reopened(d[i])) = d[i]
    BY <1>1, <1>2, NodeIsReopened
<1>5. OpenDefinition(d).nodes = [i \in 1..n |-> Reopened(d[i])]
    BY <1>3 DEF OpenDefinition, Reopened
<1>6. SavedNodes(OpenDefinition(d)) = d
    <2>1. SavedNodes(OpenDefinition(d)) = [i \in 1..n |-> NodeToInput(Reopened(d[i]))]
        BY <1>5 DEF SavedNodes
    <2>2. \A i \in 1..n : NodeToInput(Reopened(d[i])) = d[i]
        BY <1>4
    <2>3. d = [i \in 1..n |-> d[i]]
        BY <1>2
    <2> QED
        BY <2>1, <2>2, <2>3
<1>7. ASSUME ValidateDefinition(d) PROVE ValidateLinear(OpenDefinition(d)) = "valid"
    <2>1. d # <<>> /\ \A i, j \in 1..n : d[i].id = d[j].id => i = j
        BY <1>3, <1>7 DEF ValidateDefinition
    <2>2. n > 0
        <3>1. n = 0 => d = <<>>
            BY <1>2
        <3> QED
            BY <1>1, <2>1, <3>1
    <2> QED
        BY <1>1, <1>3, <1>4, <2>1, <2>2, OpenedIsALine
<1> QED
    BY <1>6, <1>7 DEF d

=============================================================================

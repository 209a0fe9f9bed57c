--------------------------- MODULE WorkflowSystem ---------------------------
(***************************************************************************)
(* The runs of a planning workflow end to end: the rows and requests of    *)
(* the server (apps/server/src/workflow-repository.ts, the routes of       *)
(* app.ts), the dispatch and cancel messages (connector-repository.ts,     *)
(* connector.ts, src/transport/connector-cloud-client.ts) and an engine    *)
(* that keeps the promises of WorkflowRunLife.                             *)
(*                                                                         *)
(* A run request and a cancel request each insert a row in the server's    *)
(* outbox, which every connection replays until the row's own id is        *)
(* acknowledged, and push the same content once under another, random id.  *)
(* All runs are of one workflow.                                           *)
(***************************************************************************)
EXTENDS WorkflowRunLife, Integers, Sequences, FiniteSets, SequencesExt

CONSTANTS MaxTakes,       \* bound: runs taken up by the engine
          MaxCancels,     \* bound: cancel requests of a run that succeed
          MaxConnections, \* bound: connections made
          MaxDeaths       \* bound: crashes of the connector

ASSUME SystemAssumption ==
    MaxTakes \in Nat /\ MaxCancels \in Nat /\ MaxConnections \in Nat /\ MaxDeaths \in Nat

VARIABLES row,        \* workflow_runs.status
          checked,    \* run requests whose look for an active run found none
          outbox,     \* connector_outbox: rows not yet acknowledged
          pushes,     \* committed requests whose push is still to be made
          online,
          down,       \* messages in flight to the connector
          acks,       \* ids of rows, acknowledgements in flight
          processed,  \* transport_inbox: rows with processed_at
          closing,    \* a handler threw and its socket is being closed
          reports,    \* run statuses in the outbox of the connector, not yet applied
          cancels,    \* cancellations of each run
          takes, connections, deaths

serverVars == <<row, checked, cancels, outbox, pushes>>
connectionVars == <<online, down, acks, closing, connections>>
inboxVars == <<processed, takes, deaths>>
systemVars == <<lifeVars, serverVars, connectionVars, inboxVars, reports>>
-----------------------------------------------------------------------------

\* A row is a run's dispatch (0) or its n-th cancellation.
OutboxRow == [run : Run, n : 0..MaxCancels]
Message == [run : Run, n : 0..MaxCancels, pushed : BOOLEAN]
RunStatus == {"running", "completed", "failed", "cancelled"}

SystemTypeOK ==
    /\ live \subseteq Run /\ last \in [Run -> RunStatus \cup {"none"}]
    /\ row \in [Run -> RunStatus \cup {"none"}]
    /\ checked \subseteq Run /\ cancels \in [Run -> 0..MaxCancels]
    /\ outbox \subseteq OutboxRow /\ pushes \subseteq OutboxRow
    /\ acks \subseteq OutboxRow /\ processed \subseteq OutboxRow
    /\ down \in Seq(Message)
    /\ reports \in Seq([run : Run, status : RunStatus])
    /\ online \in BOOLEAN /\ closing \in BOOLEAN
    /\ takes \in 0..MaxTakes /\ connections \in 0..MaxConnections /\ deaths \in 0..MaxDeaths

Row(r, n) == [run |-> r, n |-> n]
RowOf(m) == Row(m.run, m.n)
AsMessage(w, pushed) == [run |-> w.run, n |-> w.n, pushed |-> pushed]
Report(r, status) == reports' = Append(reports, [run |-> r, status |-> status])

SystemInit ==
    /\ LifeInit
    /\ row = [r \in Run |-> "none"]
    /\ checked = {} /\ cancels = [r \in Run |-> 0] /\ outbox = {} /\ pushes = {}
    /\ online = FALSE
    /\ down = <<>> /\ acks = {} /\ processed = {} /\ closing = FALSE
    /\ reports = <<>>
    /\ takes = 0 /\ connections = 0 /\ deaths = 0
-----------------------------------------------------------------------------
(* Requests of a user *)

\* runWorkflow up to its SELECT ... FOR UPDATE, which locks no row when no run is
\* active.
CheckRun(r) ==
    /\ row[r] = "none" /\ r \notin checked
    /\ \A q \in Run : row[q] # "running"
    /\ checked' = checked \cup {r}
    /\ UNCHANGED <<lifeVars, row, cancels, outbox, pushes, connectionVars, inboxVars, reports>>

\* The rest of its transaction.
InsertRun(r) ==
    /\ r \in checked /\ row[r] = "none"
    /\ row' = [row EXCEPT ![r] = "running"]
    /\ outbox' = outbox \cup {Row(r, 0)}
    /\ pushes' = pushes \cup {Row(r, 0)}
    /\ UNCHANGED <<lifeVars, checked, cancels, connectionVars, inboxVars, reports>>

\* Faulty variant: the cancellation is pushed only.
RequestCancelUnsaved(r) ==
    /\ row[r] = "running" /\ cancels[r] < MaxCancels
    /\ cancels' = [cancels EXCEPT ![r] = @ + 1]
    /\ row' = [row EXCEPT ![r] = "cancelled"]
    /\ pushes' = pushes \cup {Row(r, cancels[r] + 1)}
    /\ UNCHANGED <<lifeVars, checked, outbox, connectionVars, inboxVars, reports>>

\* cancelWorkflowRun: refused for a run that is over.
RequestCancel(r) ==
    /\ row[r] = "running" /\ cancels[r] < MaxCancels
    /\ cancels' = [cancels EXCEPT ![r] = @ + 1]
    /\ row' = [row EXCEPT ![r] = "cancelled"]
    /\ outbox' = outbox \cup {Row(r, cancels[r] + 1)}
    /\ pushes' = pushes \cup {Row(r, cancels[r] + 1)}
    /\ UNCHANGED <<lifeVars, checked, connectionVars, inboxVars, reports>>

\* The push of the route, under an id that no row has; it is lost while the
\* connector is not connected.
Push(w) ==
    /\ w \in pushes
    /\ pushes' = pushes \ {w}
    /\ down' = IF online THEN Append(down, AsMessage(w, TRUE)) ELSE down
    /\ UNCHANGED <<lifeVars, row, checked, cancels, outbox, online, acks, closing, connections, inboxVars, reports>>
-----------------------------------------------------------------------------
(* The connection *)

\* The replayed rows in the order of their sequence numbers: those of one run are
\* in the order they were written.
IsReplay(q) == \A j, k \in DOMAIN q : j < k /\ q[j].run = q[k].run => q[j].n < q[k].n

\* The handshake: getPendingConnectorWorkflows is replayed.
LinkStarts ==
    /\ ~online /\ connections < MaxConnections
    /\ online' = TRUE /\ connections' = connections + 1
    /\ \E q \in SetToSeqs(outbox) :
          IsReplay(q) /\ down' = [k \in DOMAIN q |-> AsMessage(q[k], FALSE)]
    /\ UNCHANGED <<lifeVars, serverVars, acks, closing, inboxVars, reports>>

\* The connection is lost, or the close() after a failed handler takes effect.
LinkEnds == online' = FALSE /\ down' = <<>> /\ acks' = {} /\ closing' = FALSE

Disconnect ==
    /\ online
    /\ LinkEnds
    /\ UNCHANGED <<lifeVars, serverVars, connections, inboxVars, reports>>

Crash ==
    /\ deaths < MaxDeaths
    /\ deaths' = deaths + 1
    /\ LinkEnds
    /\ \E kept, failed \in SUBSET Run :
          /\ Die(kept, failed)
          /\ \A r \in kept \cup failed : last[r] # "none"
          /\ reports' = reports \o
               SetToSeq({[run |-> r, status |-> "failed"] : r \in failed})
    /\ UNCHANGED <<serverVars, connections, processed, takes>>

\* The id of m is processed and acknowledged.  Only the id of a row means anything
\* to the server, and a closing socket sends nothing.
Handled(m) ==
    /\ processed' = IF m.pushed THEN processed ELSE processed \cup {RowOf(m)}
    /\ acks' = IF m.pushed \/ closing THEN acks ELSE acks \cup {RowOf(m)}
    /\ UNCHANGED closing

\* A row that was processed before is only acknowledged.
HandleKnown(m) ==
    /\ ~m.pushed /\ RowOf(m) \in processed
    /\ Handled(m)
    /\ UNCHANGED <<lifeVars, takes, reports>>

\* The handler of a dispatch throws for a run that is executed: the message stays
\* unprocessed, and the socket is closed.
DispatchThrows(m) ==
    /\ m.run \in live
    /\ closing' = TRUE
    /\ UNCHANGED <<lifeVars, processed, acks, takes, reports>>

HandleDispatch(m) ==
    /\ m.n = 0
    /\ m.pushed \/ RowOf(m) \notin processed
    /\ \/ DispatchThrows(m)
       \/ /\ takes < MaxTakes
          /\ takes' = takes + 1
          /\ Take(m.run) /\ Report(m.run, "running")
          /\ Handled(m)

HandleCancel(m) ==
    /\ m.n > 0
    /\ m.pushed \/ RowOf(m) \notin processed
    /\ IF m.run \in live THEN End(m.run, "cancelled") /\ Report(m.run, "cancelled")
                         ELSE UNCHANGED <<lifeVars, reports>>
    /\ Handled(m)
    /\ UNCHANGED takes

\* The connector takes the next message; a closing socket still delivers what it
\* has received.
Receive ==
    /\ online /\ down # <<>>
    /\ down' = Tail(down)
    /\ LET m == Head(down) IN HandleKnown(m) \/ HandleDispatch(m) \/ HandleCancel(m)
    /\ UNCHANGED <<serverVars, online, connections, deaths>>

\* acknowledgeConnectorOutbox.
AckArrives(w) ==
    /\ w \in acks
    /\ acks' = acks \ {w}
    /\ outbox' = outbox \ {w}
    /\ UNCHANGED <<lifeVars, row, checked, cancels, pushes, online, down, closing, connections, inboxVars, reports>>

\* Faulty variant: the end is not reported.
RunOverSilent(r) ==
    /\ End(r, "failed")
    /\ UNCHANGED <<serverVars, connectionVars, inboxVars, reports>>

\* The engine ends a run by itself.
RunOver(r) ==
    /\ \E status \in {"completed", "failed"} : End(r, status) /\ Report(r, status)
    /\ UNCHANGED <<serverVars, connectionVars, inboxVars>>

\* A report is applied: the status is overwritten, whatever it was.
ApplyReport ==
    /\ online /\ reports # <<>>
    /\ reports' = Tail(reports)
    /\ row' = [row EXCEPT ![Head(reports).run] = Head(reports).status]
    /\ UNCHANGED <<lifeVars, checked, cancels, outbox, pushes, connectionVars, inboxVars>>
-----------------------------------------------------------------------------
SystemNext ==
    \/ LinkStarts \/ Disconnect \/ Crash \/ Receive \/ ApplyReport
    \/ \E w \in OutboxRow : Push(w) \/ AckArrives(w)
    \/ \E r \in Run : CheckRun(r) \/ InsertRun(r) \/ RequestCancel(r) \/ RunOver(r)

SystemSpec == SystemInit /\ [][SystemNext]_systemVars
-----------------------------------------------------------------------------
(* Properties *)

Quiet(r) == \A i \in DOMAIN reports : reports[i].run # r

IsLast(r, i) ==
    /\ i \in DOMAIN reports /\ reports[i].run = r
    /\ \A j \in DOMAIN reports : i < j => reports[j].run # r

\* The status of the last report on r that is under way.
LastReport(r) ==
    IF Quiet(r) THEN "none" ELSE reports[CHOOSE i \in DOMAIN reports : IsLast(r, i)].status

\* What the server shows of a run, once the reports under way are applied, is what
\* the engine does with it, or a cancellation or a dispatch that is still to reach
\* the engine; only a crash of the connector loses a run.
ServerKnows ==
    \A r \in Run :
        LET shown == IF LastReport(r) = "none" THEN row[r] ELSE LastReport(r)
        IN  /\ shown = "running" => r \in live \/ Row(r, 0) \in outbox \/ deaths > 0
            /\ r \in live => shown \in {"running", "cancelled"} \/ deaths > 0

\* A run that the server shows as cancelled, and that the engine executes although it
\* has reported everything, has the last of its cancellations in the outbox, which
\* every connection replays.  A run taken up again by a late dispatch is shown as
\* running by its report, which overwrites the cancellation.
CancelReaches ==
    \A r \in live : row[r] = "cancelled" /\ LastReport(r) = "none" /\ deaths = 0 =>
        cancels[r] > 0 /\ Row(r, cancels[r]) \in outbox

=============================================================================

------------------------------ MODULE TokenUsage ------------------------------
(***************************************************************************)
(* The tokens a session has used: cumulative counters that an agent        *)
(* reports, that the connector numbers and that the server keeps.          *)
(*   src/src/codex/adapter.ts              reading the report of Codex      *)
(*   src/src/connector/runtime.ts          the event that is made of it     *)
(*   src/src/transport/sqlite-message-store.ts     its number in the outbox *)
(*   src/src/agents/{cursor,zcode}/...     the reports of other agents      *)
(*   src/apps/server/src/connector-repository.ts   snapshots and rollups    *)
(*   src/src/reliability/token-accumulator.ts   the reference of ADR-007,   *)
(*                                         which only the scripts run       *)
(* The operators take a state and give the next one; events reach the      *)
(* server in order and once, as module EventTransport shows.               *)
(***************************************************************************)
EXTENDS Integers

CONSTANTS Thread,   \* threads, one session of the server each
          Turn,
          Model,
          EventId,    \* event ids: hashes of thread, turn and counters
          Epoch,    \* one per life of the connector
          Absent

Counter == {"input", "cached", "cacheWrite", "output", "reasoning", "total"}
Usage == [Counter -> Nat]
Quality == {"provisional", "final", "incomplete"}

\* The server has no column for cache writes.
Column == Counter \ {"cacheWrite"}

Snapshot == [event : EventId, epoch : Epoch, sequence : Nat, thread : Thread,
             turn : Turn, model : Model, usage : Usage]
-----------------------------------------------------------------------------
\* What the agents report.

\* A report of Codex has every counter but the cache writes, as a natural number.
ReadableBreakdown(value) ==
    /\ \A c \in Column : value[c] \in Nat
    /\ value["cacheWrite"] \in Nat \cup {Absent}

ReadBreakdown(value) ==
    [c \in Counter |-> IF value[c] = Absent THEN 0 ELSE value[c]]

\* adaptNotification: what a notification of Codex means; most mean nothing.
TurnStatus == {"completed", "interrupted", "failed", "inProgress"}

AdaptNotification(n) ==
    CASE n.method = "serverRequest/resolved" -> [type |-> "server.request.resolved", request |-> n.request]
      [] n.method = "thread/tokenUsage/updated" ->
            [type |-> "token.usage.updated", turn |-> n.turn, usage |-> ReadBreakdown(n.total)]
      [] n.method = "turn/completed" ->
            [type |-> "turn.completed", turn |-> n.turn,
             status |-> IF n.status \in TurnStatus THEN n.status ELSE "unknown"]
      [] n.method = "error" -> [type |-> "turn.failed", turn |-> n.turn, willRetry |-> n.willRetry]
      [] OTHER -> [type |-> "none"]

\* The turn is over, for the connector and the server, with this status.
TerminalStatus(event) ==
    CASE event.type = "turn.completed" /\ event.status \in {"completed", "failed", "interrupted"} -> event.status
      [] event.type = "turn.failed" /\ ~event.willRetry -> "failed"
      [] OTHER -> Absent

\* The report of a runtime, with the number it counts for the thread.
TokenPayload(number, epoch, t, turn, model, event, usage) ==
    [event |-> event, epoch |-> epoch, sequence |-> number,
     thread |-> t, turn |-> turn, model |-> model, usage |-> usage]

\* What is stored and sent has the number of the outbox in its place, one more
\* than the last of the stream, of whatever thread and epoch that was.
Sequenced(last, payload) == [payload EXCEPT !.sequence = last + 1]

\* Cursor reports what one turn used: the runtime adds it up, over all threads,
\* and takes the new sums for a total that is not reported.
CursorTotals(totals, used) ==
    LET summed == [c \in Counter |-> totals[c] + used[c]] IN
    [summed EXCEPT !["total"] =
        IF used["total"] > 0 THEN summed["total"]
        ELSE totals["total"] + summed["input"] + summed["output"]]

\* ZCode is asked for the counters of a session, of which any may be missing.
ZcodeUsage(value) ==
    [c \in Counter |-> IF c # "cacheWrite" /\ value[c] \in Nat THEN value[c] ELSE 0]
-----------------------------------------------------------------------------
\* The server: token_usage_snapshots, and token_usage_rollups by thread and model.

Rollup == [sequence : Nat, event : EventId, turn : Turn, usage : [Column -> Nat], quality : Quality]

Database == [snapshots : SUBSET Snapshot, rollups : [Thread \X Model -> Rollup \cup {Absent}]]

\* ON CONFLICT DO NOTHING over both unique keys: the event, and the number
\* within a life of the connector.
IsNew(db, s) ==
    \A o \in db.snapshots : o.event # s.event /\ (o.epoch # s.epoch \/ o.sequence # s.sequence)

Decreases(old, new) == \E c \in DOMAIN old : new[c] < old[c]

NewRollup(old, s) ==
    [sequence |-> s.sequence, event |-> s.event, turn |-> s.turn,
     usage |-> [c \in Column |-> s.usage[c]],
     quality |-> IF old # Absent /\ Decreases(old.usage, s.usage) THEN "incomplete" ELSE "provisional"]

\* A rollup takes only a snapshot with a greater number.
Advances(old, s) == old = Absent \/ old.sequence < s.sequence

ApplySnapshot(db, s) ==
    LET old == db.rollups[<<s.thread, s.model>>] IN
    IF ~IsNew(db, s) THEN db
    ELSE [snapshots |-> db.snapshots \cup {s},
          rollups |-> IF Advances(old, s)
                      THEN [db.rollups EXCEPT ![<<s.thread, s.model>>] = NewRollup(old, s)]
                      ELSE db.rollups]

\* turn.completed settles every rollup of the session: the ones whose latest
\* snapshot is of this turn are final, the others incomplete.
SettledRollup(row, turn) ==
    [row EXCEPT !.quality = IF row.turn = turn /\ row.quality # "incomplete" THEN "final" ELSE "incomplete"]

ApplyCompleted(db, t, turn) ==
    [db EXCEPT !.rollups =
        [k \in Thread \X Model |->
            IF k[1] = t /\ db.rollups[k] # Absent THEN SettledRollup(db.rollups[k], turn) ELSE db.rollups[k]]]
-----------------------------------------------------------------------------
\* TokenUsageAccumulator: the events it has seen and the state of each thread.

ThreadState == [sequence : Nat, event : EventId, turn : Turn, total : Usage,
                quality : Quality, resetDetected : BOOLEAN]

ZeroUsage == [c \in Counter |-> 0]

SubtractUsage(next, previous) == [c \in Counter |-> next[c] - previous[c]]

Seen(acc, s) == s.event \in acc.seen

OutOfOrder(acc, s) ==
    acc.threads[s.thread] # Absent /\ s.sequence <= acc.threads[s.thread].sequence

ResetDetected(acc, s) ==
    acc.threads[s.thread] # Absent /\ Decreases(acc.threads[s.thread].total, s.usage)

IngestedState(acc, s) ==
    [sequence |-> s.sequence, event |-> s.event, turn |-> s.turn, total |-> s.usage,
     quality |-> IF ResetDetected(acc, s) THEN "incomplete" ELSE "provisional",
     resetDetected |-> ResetDetected(acc, s)]

Ingest(acc, s) ==
    IF Seen(acc, s) THEN acc
    ELSE [seen |-> acc.seen \cup {s.event},
          threads |-> IF OutOfOrder(acc, s) THEN acc.threads
                      ELSE [acc.threads EXCEPT ![s.thread] = IngestedState(acc, s)]]

\* What a snapshot adds to what was known.
Delta(acc, s) ==
    IF Seen(acc, s) \/ OutOfOrder(acc, s) \/ acc.threads[s.thread] = Absent \/ ResetDetected(acc, s)
    THEN ZeroUsage
    ELSE SubtractUsage(s.usage, acc.threads[s.thread].total)

FinalizeTurn(acc, t, turn) ==
    LET state == acc.threads[t] IN
    [acc EXCEPT !.threads[t] =
        [state EXCEPT !.quality = IF state.turn = turn /\ ~state.resetDetected THEN "final" ELSE "incomplete"]]

ASSUME AbsentIsNoState == Absent \notin Rollup \cup ThreadState

Accumulator == [seen : SUBSET EventId, threads : [Thread -> ThreadState \cup {Absent}]]
-----------------------------------------------------------------------------
StoredOf(db, t, m) == {s \in db.snapshots : s.thread = t /\ s.model = m}

IsNewestOf(row, stored) ==
    IF row = Absent THEN stored = {}
    ELSE \E s \in stored :
            /\ row.sequence = s.sequence /\ row.event = s.event
            /\ row.usage = [c \in Column |-> s.usage[c]]
            /\ \A o \in stored : o.sequence <= s.sequence

\* A rollup shows the newest snapshot that is stored of its session and model.
RollupIsNewest(db) ==
    \A t \in Thread, m \in Model : IsNewestOf(db.rollups[<<t, m>>], StoredOf(db, t, m))

\* The row of a thread and the state the accumulator has of it agree.
Corresponds(row, state) ==
    IF state = Absent THEN row = Absent
    ELSE /\ row # Absent
         /\ row.sequence = state.sequence /\ row.event = state.event
         /\ row.turn = state.turn /\ row.quality = state.quality
         /\ row.usage = [c \in Column |-> state.total[c]]
=============================================================================

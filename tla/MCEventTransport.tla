-------------------------- MODULE MCEventTransport --------------------------
(* Instances of EventTransport for TLC, and TokenUsage over small inputs:    *)
(* the events that have a past.                                              *)
EXTENDS EventTransport, TokenUsage, FiniteSets, Sequences
CONSTANT MaxFaults  \* bound: broken connections and rejected events together

MCNext == Next /\ breaks' + rejects' <= MaxFaults

MCFairSpec == Init /\ [][MCNext]_vars /\ Fairness
-----------------------------------------------------------------------------
SmallUsages == {[c \in Counter |-> IF c = "cacheWrite" THEN 0 ELSE n] : n \in 0..1}

SmallSnapshots ==
    [event : EventId, epoch : Epoch, sequence : 1..2, thread : Thread, turn : Turn, model : Model,
     usage : SmallUsages]

EmptyDatabase == [snapshots |-> {}, rollups |-> [k \in Thread \X Model |-> Absent]]

EmptyAccumulator == [seen |-> {}, threads |-> [t \in Thread |-> Absent]]

\* What the server and the accumulator have after a sequence of snapshots.
After(history) ==
    LET at[i \in 0..Len(history)] ==
            IF i = 0 THEN [db |-> EmptyDatabase, acc |-> EmptyAccumulator]
            ELSE [db |-> ApplySnapshot(at[i - 1].db, history[i]), acc |-> Ingest(at[i - 1].acc, history[i])]
    IN  at[Len(history)]

SmallHistories == UNION {[1..n -> SmallSnapshots] : n \in 0..2}

\* Rollups show the newest snapshot, also after a turn is over, and follow the
\* accumulator for as long as no number is used twice.
ASSUME RollupsAreNewest ==
    \A history \in SmallHistories :
        LET after == After(history) IN
        /\ RollupIsNewest(after.db)
        /\ \A t \in Thread, turn \in Turn : RollupIsNewest(ApplyCompleted(after.db, t, turn))
        /\ Cardinality({s.sequence : s \in after.db.snapshots}) = Cardinality(after.acc.seen) =>
              \A t \in Thread, m \in Model :
                  Corresponds(after.db.rollups[<<t, m>>], after.acc.threads[t])

\* Usage that is added is never negative.
ASSUME UsageOnlyGrows ==
    \A history \in SmallHistories, s \in SmallSnapshots :
        \A c \in Counter : Delta(After(history).acc, s)[c] >= 0
=============================================================================

CONSTANTS
    MaxEvents = 2
    MaxBreaks = 2
    MaxRejects = 1
    MaxFaults = 2
    Thread = {t1, t2}
    Turn = {u1, u2}
    Model = {m}
    EventId = {e1, e2}
    Epoch = {p}
    Absent = Absent
SPECIFICATION MCFairSpec
PROPERTIES Arrives
INVARIANTS NothingLostWhileApplied AppliedInOrderWhileApplied
CHECK_DEADLOCK FALSE

SPECIFICATION MCFairSpec
CONSTANTS
    r1 = r1
    Run = {r1}
    NodeCount = 2
    Gates = {2}
    MaxRetries = 1
    TurnBudget = 1
    Restores = {TRUE, FALSE}
    MaxObjects = 2
    MaxCrashes = 1
    MaxBreaks = 1
    MaxFaults = 1
    NodeId = {n1, n2, n3}
    Agent = {a}
    Workstation = {w1, w2}
    Blank = Blank
    Words = Words
    Absent = Absent
INVARIANTS OneStepAtATime HandOffAfterConfirmation
CHECK_DEADLOCK FALSE
PROPERTIES RunEnds ImplementsRunLife

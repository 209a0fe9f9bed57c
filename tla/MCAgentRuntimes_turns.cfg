SPECIFICATION Spec
CONSTANTS
    t1 = t1  t2 = t2
    Thread = {t1, t2}
    Viewed = {t1}
    Inventory = Inventory
    None = None
    MaxJobs = 2
    MaxAsks = 2
    MaxNatives = 2
    MaxStarts = 2
    MaxText = 1
CONSTRAINTS TextOrAsks OneBefore
INVARIANTS GrantWasApproved  TurnEndsOnce TextShownOnce
CHECK_DEADLOCK FALSE

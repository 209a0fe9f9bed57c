SPECIFICATION FairSpec
CONSTANTS
    s1 = s1  s2 = s2
    Setup = {s1, s2}
    Nobody = Nobody
    MaxLinks = 2
    MaxTokens = 2
    w = w
    Agent = {a, b}
    Thread = {t1, t2}
    Project = {w}
    Cursor = {k}
    MaxTitles = 2
    Absent = Absent
INVARIANTS ApprovedWasShown RevokedStaysOut
PROPERTIES SetupEnds
CHECK_DEADLOCK FALSE

SPECIFICATION SystemSpec
CONSTANTS
    r1 = r1
    Run = {r1}
    MaxTakes = 2
    MaxCancels = 2
    MaxConnections = 3
    MaxDeaths = 1
INVARIANTS ServerKnows CancelReaches
CHECK_DEADLOCK FALSE

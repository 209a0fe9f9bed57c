SPECIFICATION StreamFairSpec
CONSTANTS
    MaxChanges = 2
    MaxText = 1
    MaxSubs = 2
    MaxFrames = 2
    MaxFaults = 1
    MaxEvents = 3
    MaxDelta = 4
    ChunkBytes = 2
    MaxImage = 3
    Absent = Absent
INVARIANTS ConnectorKnowsView GoneUsersHaveNoRoute
PROPERTIES LiveViewCatchesUp
CHECK_DEADLOCK FALSE

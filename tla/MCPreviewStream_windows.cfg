SPECIFICATION StreamFairSpec
CONSTANTS
    Kinds = {"http", "websocket"}
    Window = 2
    MaxRequest = 3
    MaxResponse = 3
INVARIANTS CompleteIsWhole
PROPERTIES BothSidesEnd
CHECK_DEADLOCK FALSE

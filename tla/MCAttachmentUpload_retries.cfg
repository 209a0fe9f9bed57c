SPECIFICATION UploadFairSpec
CONSTANTS
    Chunks = 2
    MaxAttempts = 2
    MaxFaults = 2
INVARIANTS TicketIsStored
PROPERTIES AnswerArrives NothingLeftBehind
CHECK_DEADLOCK FALSE

CONSTANTS
    c1 = c1  c2 = c2  c3 = c3  t1 = t1  t2 = t2
    Command = {c1, c2, c3}
    Thread = {t1, t2}
    thread <- TwoAndOne
    NoClient = NoClient
    MaxRestarts = 1
SPECIFICATION FairSpec
INVARIANTS AtMostOneTurnStart SerialTurns
PROPERTIES ImplementsLatch QueueMoves
CHECK_DEADLOCK FALSE

CONSTANTS
    c1 = c1  c2 = c2  t1 = t1
    Command = {c1, c2}
    Thread = {t1}
    thread <- OneThread
    NoClient = NoClient
    MaxRestarts = 1
    MaxDisconnects = 1
SPECIFICATION DeliverySpec
CONSTRAINT OneFault
SYMMETRY Interchangeable
INVARIANTS AckedIsKept ServerAgrees SentOncePerConnection SentOrderKept
CHECK_DEADLOCK FALSE

SPECIFICATION Spec
CONSTANTS
    MaxLinks = 2
    MaxStops = 2
    p1 = p1  p2 = p2  q1 = q1
    Post = {p1, p2}
    User = {u1, u2}  Workstation = {w1}  Key = {k1}  Endpoint = {e1}  Absent = Absent
    Request = {q1}
INVARIANTS OneContextPerTicket DeniedStaysOut StreamsAreCarried StatusIsTrue
SYMMETRY Browsers
CHECK_DEADLOCK FALSE

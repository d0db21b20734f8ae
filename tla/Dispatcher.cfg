SPECIFICATION Spec
CONSTANTS
    Packets = {p1, p2}
    Requests = {q1}
    Events = {e1}
    Contents = {a, b}
    Callers = {c1, c2}
    RepeatLimit = 2
    MaxAttempts = 1
    Works <- MCWorks
    MaxOutbox = 3
    MaxSends = 3
    MaxDeaths = 1
    MaxMade = 2
    NoPacket = NoPacket
    NoContent = NoContent
    NoRequest = NoRequest
INVARIANTS TypeOK ConsentStands NotifiedIsDelivered OnRecordOnce
SYMMETRY Symmetry
CHECK_DEADLOCK FALSE

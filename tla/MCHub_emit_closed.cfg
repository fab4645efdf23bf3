SPECIFICATION Spec
CONSTANTS
    c1 = c1
    c2 = c2
    r1 = r1
    r2 = r2
    Clients = {c1}
    Rooms = {r1}
    Scripts = {s1}
    Changes = {}
    None = None
    SendCap = 1
    MaxIssued = 2
INVARIANTS ClosedIsMarked
CHECK_DEADLOCK FALSE

SPECIFICATION Spec
CONSTANTS
    c1 = c1
    c2 = c2
    r1 = r1
    r2 = r2
    Clients = {c1}
    Rooms = {r1, r2}
    Scripts = {}
    Changes = {g1}
    None = None
    SendCap = 2
    MaxIssued = 3
SYMMETRY RoomSymmetry
INVARIANTS InOrder
PROPERTIES ImplementsMulticast
CHECK_DEADLOCK FALSE

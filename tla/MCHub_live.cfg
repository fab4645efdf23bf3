SPECIFICATION FairSpec
CONSTANTS
    c1 = c1
    c2 = c2
    r1 = r1
    r2 = r2
    Clients = {c1, c2}
    Rooms = {}
    Scripts = {s1}
    Changes = {}
    None = None
    SendCap = 1
    MaxIssued = 2
PROPERTIES ReaderDeparts EmitToAllReturns
CHECK_DEADLOCK FALSE

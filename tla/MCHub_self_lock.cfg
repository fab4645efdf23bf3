SPECIFICATION FairSpec
CONSTANTS
    c1 = c1
    c2 = c2
    r1 = r1
    r2 = r2
    Clients = {c1}
    Rooms = {r1}
    Scripts = {}
    Changes = {}
    None = None
    SendCap = 1
    MaxIssued = 0
PROPERTIES DropFinishes
CHECK_DEADLOCK FALSE

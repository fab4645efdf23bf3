SPECIFICATION Spec
CONSTANTS
    p1 = p1
    p2 = p2
    p3 = p3
    Requests = {q1}
    Contexts = {c1}
    Paths = {p1}
    None = None
    Runless = {}
    Early = {}
    MaxVersion = 2
    MaxExec = 1
INVARIANTS SavedIsLoaded
CHECK_DEADLOCK FALSE

SPECIFICATION Spec
CONSTANTS
    p1 = p1
    p2 = p2
    p3 = p3
    Requests = {q1}
    Contexts = {c1}
    Paths = {p2, p3}
    None = None
    Runless = {p2}
    Early = {}
    MaxVersion = 2
    MaxExec = 1
INVARIANTS ScriptsIsolated
CHECK_DEADLOCK FALSE

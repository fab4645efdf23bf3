SPECIFICATION FairSpec
CONSTANTS
    p1 = p1
    p2 = p2
    p3 = p3
    Requests = {q1, q2}
    Contexts = {c1}
    Paths = {p1, p3}
    None = None
    Runless = {}
    Early = {p1}
    MaxVersion = 2
    MaxExec = 1
INVARIANTS TypeOK ContextsConserved ForeignRunIsRecent OrderlyClose
PROPERTIES EventEnds
CHECK_DEADLOCK FALSE

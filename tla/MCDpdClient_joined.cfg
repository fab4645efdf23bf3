SPECIFICATION Spec
CONSTANTS
    a = a
    b = b
    l1 = l1
    l2 = l2
    q1 = q1
    t1 = t1
    t2 = t2
    None = None
    Collections = {a, b}
    Kinds = {"created"}
    Listeners = {l1}
    Throwing = {}
    Requests = {q1}
    Tokens = {t1}
    MaxEvents = 1
INVARIANTS JoinedWhenConnected

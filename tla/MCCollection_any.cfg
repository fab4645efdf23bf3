SPECIFICATION Spec
CONSTANTS
    q1 = q1
    q2 = q2
    q3 = q3
    d1 = d1
    d2 = d2
    Requests = {q1, q2, q3}
    Ids = {d1}
    Fields <- TwoFields
    Absent = Absent
    NoDoc = NoDoc
    Bodies <- XBodies
    Skips = {FALSE}
    Emits = {TRUE, FALSE}
    MayDo <- Writers
    Target <- AnyTarget
    Required = {}
    Defaults <- NoFields
    Accepts <- Anything
    EventSets <- NoFields
    CommitSets <- OnlyY
SYMMETRY Symmetry
INVARIANTS TypeOK RefusedChangesNothing ChangeAnnounced
PROPERTIES OnlyPostCreates
CHECK_DEADLOCK FALSE

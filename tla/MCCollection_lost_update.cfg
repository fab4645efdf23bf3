SPECIFICATION Spec
CONSTANTS
    q1 = q1
    q2 = q2
    q3 = q3
    d1 = d1
    d2 = d2
    Requests = {q1, q2}
    Ids = {d1}
    Fields <- TwoFields
    Absent = Absent
    NoDoc = NoDoc
    Bodies <- XorY
    Skips = {FALSE}
    Emits = {TRUE}
    MayDo <- Puts
    Target <- AnyTarget
    Required = {}
    Defaults <- NoFields
    Accepts <- Anything
    EventSets <- NoFields
    CommitSets <- NoFields
PROPERTIES UpdatesOwnFieldsOnly
CHECK_DEADLOCK FALSE

SPECIFICATION Spec
CONSTANTS
    q1 = q1
    q2 = q2
    q3 = q3
    d1 = d1
    d2 = d2
    Requests = {q1, q2, q3}
    Ids = {d1, d2}
    Fields <- TwoFields
    Absent = Absent
    NoDoc = NoDoc
    Bodies <- AtMostOne
    Skips = {FALSE}
    Emits = {TRUE}
    MayDo <- OneUpdater
    Target <- OwnTargets
    Required = {}
    Defaults <- NoFields
    Accepts <- XAlone
    EventSets <- XToZero
    CommitSets <- NoFields
INVARIANTS StoredValid ApprovedIsStored PutAnswersItsChange
PROPERTIES ImplementsAtomicStore
CHECK_DEADLOCK FALSE

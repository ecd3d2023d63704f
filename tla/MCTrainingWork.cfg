CONSTANTS
    f1 = f1
    f2 = f2
    None = None
    Files = {f1, f2}
    Revisions = {r1}
    Plans = {p1}
    Contents <- WorkContents
    MaxSteps = 2
    MaxVersion = 2
    MaxTaskVersion = 10
SPECIFICATION Spec
INVARIANTS
    TypeOK
    EvidenceKept
    AttemptsComplete
    HistoryExplainsStatus
    PassedWorkIsTheAttempt
    ReworkConfined
    StepsInOrder
PROPERTIES
    VersionsNameWork
CHECK_DEADLOCK FALSE

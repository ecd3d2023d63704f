CONSTANTS
    f1 = f1
    f2 = f2
    None = None
    Files = {f2}
    Revisions = {r1, r2, r3}
    Plans = {p1, p2}
    Contents <- EditContents
    MaxSteps = 1
    MaxVersion = 4
    MaxTaskVersion = 2
SPECIFICATION Spec
INVARIANTS
    OneActiveTask
    PublishedHasTask
    RevisionsInOrder
    PublishedMediaKept
    PublishedComplete
PROPERTIES
    RevisionVersionsNameContent
CHECK_DEADLOCK FALSE

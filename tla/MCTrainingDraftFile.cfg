CONSTANTS
    f1 = f1
    f2 = f2
    None = None
    Files = {f1, f2}
    Revisions = {r1}
    Plans = {p1}
    Contents <- WorkContents
    MaxSteps = 2
    MaxVersion = 2
    MaxTaskVersion = 10
SPECIFICATION Spec
INVARIANTS
    ReferencedFileKept
CHECK_DEADLOCK FALSE

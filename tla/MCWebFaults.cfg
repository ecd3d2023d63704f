SPECIFICATION WebFairSpec
CONSTANTS
    Editors = {t1}
    Contents = {blank, a}
    First = blank
    Complete = {a}
    MaxVersion = 3
    Attached = {blank, a}
    MaxRevision = 2
    Faults = {"call", "fetch", "plans"}
    MatchFaults = {"call", "fetch", "page"}
    StepIds = {i1, i2, i3}
    Texts = {new, text}
    NewText = new
    MaxSteps = 3
    LastStep = 1
    Required = {}
    Unset = unset
    TaskVersions = 4
    TaskFaults = {"fetch"}
    Files = {f1, f2}
    NoFile = nofile
    Limit = 2
    MaxResets = 1
    FileFaults = {"call"}
    MaxRequests = 1
    Blank = none
    MaxSaid = 1
    HelpFaults = {"call", "fetch"}
INVARIANT ServerAccepts
PROPERTIES WaitingEnds TypedStays ReadyIsAttached
\* A page may rest when everything is done or a bound is reached.
CHECK_DEADLOCK FALSE

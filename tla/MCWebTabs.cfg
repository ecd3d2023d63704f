SPECIFICATION WebSpec
CONSTANTS
    Away = away
    Editors = {t1, t2}
    Contents = {a, b}
    First = a
    Complete = {a, b}
    MaxVersion = 3
    Attached = {}
    MaxRevision = 1
    Faults = {}
    MatchFaults = {"page"}
    SettingsFaults = {"call", "fetch"}
    Quiet = {b}
    Users = {u1, u2}
    NoUser = nobody
    MaxSessions = 3
    MaxTokens = 4
    Happens = {"lost", "late", "write", "leave", "rotate", "revoke"}
    LastStep = 1
    Required = {1}
    Unset = unset
    TaskVersions = 4
    TaskFaults = {"call"}
    Files = {f1}
    ReviewSteps = {1}
    Unready = unready
    Notes = {n1}
    MaxCalls = 2
    ReviewFaults = {"call", "fetch"}
    MaxRequests = 2
    Texts = {text}
    Blank = blank
    MaxSaid = 1
    HelpFaults = {}
SYMMETRY Symmetry
INVARIANTS WebTypeOK BaseIsReal
PROPERTIES EditsByTheBook TypingKept ConfirmedIsReviewed SettingsByTheBook CacheIsPrivate SessionAgrees SeenIsDone ReviewOfSeen
\* A page may rest when everything is done or a bound is reached.
CHECK_DEADLOCK FALSE

SPECIFICATION Spec
CONSTANTS
    c1 = c1
    p1 = p1
    p2 = p2
    r1 = r1
    r2 = r2
    early = early
    late = late
    Null = Null
    Keep = Keep
    NoReference = NoReference
    Cards = {c1}
    Referents = {r1, r2}
    Account = r2
    ReferenceRows <- MCReferenceRows
    MaxWrites = 1
    Pages = {p1, p2}
    Profiles <- MCProfiles
    Detected <- MCDetected
    Labels = {"trap"}
    GroupIds = {"base", "g1"}
    Names = {"Mulcharmy", "own"}
    Limits = {1, 2}
    Builtin = "base"
    BuiltinGroup <- MCBuiltinGroup
    MaxGestures <- MCMaxGestures
    MaxQueue = 2
    MaxReads <- MCMaxReads
    Gestures <- MCGestures
    Faults = {"unanswered"}
INVARIANTS OneLibrary JournalTellsTheRows
PROPERTIES StoresTheScreen KeepsItsPromises
CHECK_DEADLOCK FALSE

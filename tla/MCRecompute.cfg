SPECIFICATION MCSpec
CONSTANTS
    d1 = d1
    d2 = d2
    NoDeck = NoDeck
    NoModel = NoModel
    Decks <- MCDecks
    Locals <- MCLocals
    Libraries <- MCLibraries
    Faults <- MCFaults
    MaxVersions = 3
    MaxOpenings = 2
    MaxWrites = 1
INVARIANTS PageIsOfItsDeck WaitsForItsTask
PROPERTIES ComputationEnds
CHECK_DEADLOCK FALSE

SPECIFICATION Spec
CONSTANTS
    p1 = p1
    p2 = p2
    A = A
    B = B
    NoContent = NoContent
    NoSave = NoSave
    Pages <- TwoPages
    Contents <- MCContents
    SaveWhileLoading = FALSE
    MaxRevision = 3
    MaxOpenings <- TwiceThenOnce
    MaxEdits <- TwiceThenOnce
SYMMETRY Symmetry
INVARIANTS NoLostUpdate PageKnowsWhatItHolds DraftHoldsUnsaved
CHECK_DEADLOCK FALSE

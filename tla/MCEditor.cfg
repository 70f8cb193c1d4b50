SPECIFICATION MCSpec
CONSTANTS
    m = m
    x = x
    s = s
    y = y
    o1 = o1
    NoOpponent = NoOpponent
    NoToast = NoToast
    Nothing = Nothing
    NotANumber = NotANumber
    Cards <- MCCards
    ZoneOf <- MCZoneOf
    Opponents <- MCOpponents
    MaxCopies = 2
    MainSizes <- MCMainSizes
    ZoneMax = 3
    Configurations <- MCConfigurations
    MaxEdits = 3
    Quantities = {0, 3}
    Numbers <- MCNumbers
    Subjects = {"starts", "group"}
    DepthLimit = 3
    LeafLimit = 3
    QuantityLimit = 2
    SafeLimit = 3
    Documents <- MCDocuments
    OlderDocuments <- MCOlderDocuments
    MaxGestures = 2
INVARIANTS PlansStaySound CandidatesAreTheClicks SavedAsItIs ConditionsMeanWhatIsClicked
PROPERTIES NeverToReview UndoRestores OneMarkAClick
CHECK_DEADLOCK FALSE

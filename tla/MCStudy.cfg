SPECIFICATION Spec
CONSTANTS
    m1 = m1
    m2 = m2
    Opponents = {m1, m2}
    Keys = {1, 2}
    PreviewKeys = {1, 2}
    Completions <- MCCompletions
    NotReady = NotReady
    Nothing = Nothing
    Withheld = Withheld
    None = None
    MaxGestures = 3
SYMMETRY Symmetry
INVARIANTS ColumnsAreOfTheirDeck NothingIsLeftWaiting
CHECK_DEADLOCK FALSE

SPECIFICATION MCSpec
CONSTANTS
  o1 = o1
  o2 = o2
  swap1 = swap1
  nothing = nothing
  None = None
  Absent = Absent
  Base = Base
  Opponents = {o1, o2}
  Exchanges <- MCExchanges
  NoExchange <- MCNoExchange
  Addresses <- MCAddresses
  Saves <- MCSaves
  Sheets = {s1}
  Loads = {1, 2}
  MainSize = 7
  MinSize = 6
  MaxLibrary = 2
  MaxVersion = 2
  MaxGestures = 3
INVARIANT FiguresAreOfTheirDeck
PROPERTIES WrittenDescribesSaved RunsEnd
CHECK_DEADLOCK FALSE

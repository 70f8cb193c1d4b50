SPECIFICATION Spec
CONSTANTS
  Null = Null
  NoDeck = NoDeck
  NoReference = NoReference
  d1 = d1
  d2 = d2
  p1 = p1
  k1 = k1
  k2 = k2
  g1 = g1
  g2 = g2
  hand = hand
  board = board
  early = early
  breaker = breaker
  i1 = i1
  i2 = i2
  ref = ref
  Cards = {1, 2, 3, 4}
  PairIds = {1, 2, 3, 4, 5, 6, 7, 8}
  Plans = {p1}
  CategoryIds = {k1, k2}
  Decks = {d1, d2}
  CardName <- MCCardName
  Answers <- MCAnswers
  MinExpected = 1
  Profiles = {early, breaker}
  GroupIds = {g1, g2}
  References <- MCReferences
  Names = {hand, board}
  Importers = {i1}
  Files <- MCFiles
  Texts <- MCTexts
  Searched = {1}
  Paired <- MCPaired
  Chosen <- MCChosen
  Offset = 4
  MaxScripts = 1
  MaxEvents = 2
 
PROPERTIES  ImportAdds
CHECK_DEADLOCK FALSE

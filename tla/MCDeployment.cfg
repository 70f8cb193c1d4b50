SPECIFICATION DeploymentSpec
CONSTANTS
  None = None
  Absent = Absent
  pair = pair
  late = late
  card = card
  PairRows <- MCPairRows
  CardRows <- MCCardRows
  Starts <- MCStarts
  MaxRuns = 2
INVARIANTS NothingIsTakenBack
PROPERTIES RestoresExactly ReleasesWhatWasThere
CHECK_DEADLOCK FALSE

SPECIFICATION FairSpec
CONSTANTS
  Scale = 12
  Durations = {0, 3, 4}
  Settle <- SettleTimes
  MinTime = 0
  MaxLoads = 3
INVARIANTS TypeOK UntornMovesAreWhole
PROPERTIES BothArriveTogether MoveEnds NeverResumes

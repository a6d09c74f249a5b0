SPECIFICATION FairSpec
CONSTANTS
  LastPreset = 1
  Hold = 1
  Circle = 8
  Positions <- ThreePlaces
  Entered <- EnteredPlaces
  Joys = {{}, {"pitch"}}
  Commands = {"p", "p0", "local1", "manual"}
INVARIANTS TypeOK
PROPERTIES SavesOnlyAfterHold LoadsWhatWasSaved HomeTurnsAtMostQuarter JoystickAborts

SPECIFICATION Spec
CONSTANTS
  Load = 2
  Million = 2
  Word = 5
  Delays = {3}
  Horizon = 5
  TicksPerPi = 3
  HalfRange = 5
  MaxStep = 4
  Travel = 30
  Items = {a, b}
  nitems = 3
INVARIANTS ClockTypeOK ReadIsCurrent ExpiryIsRight YawTypeOK YawIsTrue
PROPERTY KeepsLatest

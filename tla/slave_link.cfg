SPECIFICATION Spec
CONSTANTS
  Full <- MCFull
  PosMin = 0
  PosMax = 20
  Slow = 3
  RemoteTimeout = 2
  SlaveTimeout = 1
  MaxAcc = 1
  Demands <- SlaveDemands
  AutoOutputs <- AutoDemands
  Joys <- PanelJoys
  Speeds = {5}
  Accs = {1}
  Positions <- SlavePositions
  Addrs = {2}
  Commands = {}
INVARIANTS TypeOK DeadlineTracksDemand NeverDrivenOutward
PROPERTIES NoFalseAlarm SpeedsUpGradually

SPECIFICATION FairSpec
CONSTANTS
  Full = 4
  PosMin = 0
  PosMax = 20
  Slow = 3
  RemoteTimeout = 3
  SlaveTimeout = 1
  MaxAcc = 1
  Demands = {4}
  AutoOutputs = {4}
  Joys = {0}
  Speeds = {4}
  Accs = {1}
  Positions = {8}
  Addrs = {2}
  Commands = {}
PROPERTY SilenceKeepsMotorsStopped

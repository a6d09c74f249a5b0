SPECIFICATION RolesSpec
CONSTANTS
  Full = 4
  PosMin = 0
  PosMax = 20
  Slow = 3
  RemoteTimeout = 2
  SlaveTimeout = 3
  MaxAcc = 1
  Demands = {4}
  AutoOutputs = {1}
  Joys = {0}
  Speeds = {4}
  Accs = {1}
  Positions = {8}
  Addrs = {1, 2}
  Commands = {"local1", "local0", "manual", "operational", "p", "p0"}
PROPERTIES HealthyLinkIsRemote SilenceStopsMotors ReconfiguresOnlyOnSilence

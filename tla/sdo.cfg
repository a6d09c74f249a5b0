SPECIFICATION MCSpec
CONSTANTS
  Clients = {c1, c2}
  Nodes = {n1}
  Ids = {i1, i2}
  Regs = {i1}
  Values = {0, 1}
  MaxFrames = 2
  LateValue = 0
  NoClient = NoClient
  NoFrame = NoFrame
  NoData = NoData
INVARIANTS TypeOK RunningOnlyInCall NoLostWakeup
PROPERTIES WriteSuccessIsReal ReadDataIsCurrent EveryCallReturns ImplementsExchange

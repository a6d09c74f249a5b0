SPECIFICATION FairSpec
CONSTANTS
  Objects <- FbObjects
  MapSize = 4
  NoObject = NoObject
  SlaveTimeout = 3
  MaxLate = 2
INVARIANTS TypeOK NeverCrossed
PROPERTIES MasterRecovers SilenceNoticed

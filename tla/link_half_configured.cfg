SPECIFICATION FairSpec
CONSTANTS
  Objects <- FbObjects
  MapSize = 4
  NoObject = NoObject
  SlaveTimeout = 2
  MaxLate = 1

PROPERTIES SlaveIsReconfigured

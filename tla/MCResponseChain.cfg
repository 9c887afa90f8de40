SPECIFICATION ChainSpec
CONSTANTS
  r1 = r1
  r2 = r2
  Requests <- MCRequests
  Others <- MCOthers
  LayerSets <- MCLayerSets
  MaxPieces = 2
INVARIANTS
  ChainTypeOK
  DriftIsPanics
  ActiveWereCounted
  WaitingIsNoise
  BodyDelivered
  StatusDelivered
  LogTruthful

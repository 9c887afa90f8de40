SPECIFICATION ChainSpec
CONSTANTS
  r1 = r1
  r2 = r2
  Requests = {r1}
  Others = {}
  LayerSets <- MCGzipSets
  MaxPieces = 2
INVARIANTS
  GzipDelivers

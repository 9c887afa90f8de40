SPECIFICATION WebSocketSpec
CONSTANTS
  c1 = c1
  Callers <- MCCallers
  BackendStates = {"up", "failing", "down"}
  ProbeModes = {"never", "dial", "path"}
  N = 2
  Room = 1
INVARIANTS
  WebSocketTypeOK
  NothingCut
PROPERTIES
  TunnelEnds
  MarksConverge

SPECIFICATION FairSpec
CONSTANTS
  r1 = r1
  r2 = r2
  r3 = r3
  h1 = h1
  h2 = h2
  p1 = p1
  p2 = p2
  l1 = l1
  l2 = l2
  Requests <- MCRequests
  Hosts <- MCHosts
  Ports <- MCPorts
  Locations <- MCLocations
  Limit = 2
  NoReq = NoReq
INVARIANTS
  TypeOK
  LimitHolds
  CountExact
  NoStaleEntries
PROPERTIES
  Answered
  ImplementsConnLimit

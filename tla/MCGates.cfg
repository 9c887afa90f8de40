SPECIFICATION GatesSpec
CONSTANTS
  c1 = c1
  c2 = c2
  h1 = h1
  h2 = h2
  h6 = h6
  Callers <- MCCallers
  Hosts <- MCHosts
  V6 <- MCV6
  Keys <- MCKeys
  Setups <- MCSetups
  Settings <- MCSettings
  NoHost = NoHost
  Elsewhere = Elsewhere
  NoRequest = NoRequest
  NoCaller = NoCaller
  Limit = 1
  Kilo = 16
  MaxInt = 32767
  MaxTime = 2
INVARIANTS
  GatesTypeOK
  WindowBound
  OneIdentity
  NothingSpent
  BodyLimited
  SplitShares
PROPERTIES
  RefusedOnlyWhenSpent
  ImplementsTokenBucket
  Answered

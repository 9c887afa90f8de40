SPECIFICATION UpstreamSpec
CONSTANTS
  c1 = c1
  c2 = c2
  Callers <- MCCallers
  BackendStates = {"up", "failing"}
  Upgrades <- MCUpgrades
  ProbeModes = {"path"}
  N = 2
  MaxCounter = 1
  MaxRetries = 1
  NoServer = NoServer
INVARIANTS
  RetryDelivers

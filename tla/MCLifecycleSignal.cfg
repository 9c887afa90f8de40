SPECIFICATION FairSpec
CONSTANTS
  Count = 3
  TLS <- MCTLS
  HTTP3 <- MCHTTP3
  MaxInflight = 1
PROPERTIES
  SignalEnds

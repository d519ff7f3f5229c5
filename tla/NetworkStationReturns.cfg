SPECIFICATION NetFairSpec
CONSTANTS
  Networks = {home, shop}
  NoNetwork = NoNetwork
  Fallback = 2
  Serial = TRUE
PROPERTIES StationReturns

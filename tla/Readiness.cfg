CONSTANTS
  MaxLag = 2
  PeerUrl = TRUE
  HeadersOk = TRUE
  Drift = 2
  MaxTip = 5
  MaxFaults = 2
SPECIFICATION FairReadySpec
CHECK_DEADLOCK FALSE
PROPERTIES OkIsNearPeer SettledIsReady

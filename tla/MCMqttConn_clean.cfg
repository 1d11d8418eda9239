SPECIFICATION FairSpec
CONSTANTS
  Budget <- ConnectDisconnect
  MaxDrops = 1
  ShortBuffer = FALSE
  Spurious = FALSE
PROPERTY DisconnectCompletes
CHECK_DEADLOCK FALSE

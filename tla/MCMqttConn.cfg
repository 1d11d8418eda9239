SPECIFICATION FairSpec
CONSTANTS
  Budget <- Everything
  MaxDrops = 2
  ShortBuffer = FALSE
  Spurious = TRUE
INVARIANT ReleasedIsClean
INVARIANT LockMatchesOwner
PROPERTY YieldKeepsSockets
PROPERTY ConnectedIsAccepted
PROPERTY Reconnects
CHECK_DEADLOCK FALSE

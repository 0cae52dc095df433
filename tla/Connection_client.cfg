\* The connection object on the client side.
SPECIFICATION FairSpec
CONSTANTS
  IsServer = FALSE
  Timeout = 2
  IdleSendPacketCount = 1
  Need = 2
  MaxAvail = 2
  MaxWaitSnd = 2
  MaxPending = 2
  MaxSends = 1
PROPERTIES
  SilenceCloses
  ClosedIsReleased
  ReadCompletes
CHECK_DEADLOCK FALSE

\* The connection object on the server side.
SPECIFICATION FairSpec
CONSTANTS
  IsServer = TRUE
  Timeout = 2
  IdleSendPacketCount = 1
  Need = 2
  MaxAvail = 2
  MaxWaitSnd = 2
  MaxPending = 2
  MaxSends = 1
INVARIANTS
  TypeOK
  OneCompletionPerOperation
  ClosedHasNoOperation
  NoLostWakeup
  OpenedIsDriven
PROPERTIES
  SilenceCloses
  ClosedIsReleased
CHECK_DEADLOCK FALSE

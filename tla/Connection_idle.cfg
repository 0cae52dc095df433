
\* The connection object on the server side: a read that outlives the idle connection.
SPECIFICATION FairSpec
CONSTANTS
  IsServer = TRUE
  Timeout = 2
  IdleSendPacketCount = 1
  Need = 2
  MaxAvail = 2
  MaxWaitSnd = 2
  MaxPending = 2
  MaxSends = 1
PROPERTIES
  ReadCompletes
CHECK_DEADLOCK FALSE

\* Ends, resets, timeouts and failed connects, at any moment.
SPECIFICATION FairSpec
CONSTANTS
  MaxUnits <- Units
  idle_send_packet_count = 0
  RcvWnd = 1
  TryTimes = 2
  Perfect = FALSE
INVARIANTS
  TypeOK
  NothingDropped
  Backpressure
PROPERTIES
  EndSpreads
  EofEnds
CHECK_DEADLOCK FALSE

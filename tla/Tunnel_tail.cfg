\* Nothing fails: the entry's TCP peer sends and closes.
SPECIFICATION Spec
CONSTANTS
  MaxUnits <- Units
  idle_send_packet_count = 1
  RcvWnd = 2
  TryTimes = 1
  Perfect = TRUE
INVARIANTS
  AllIsForwarded
CHECK_DEADLOCK FALSE

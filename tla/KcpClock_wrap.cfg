\* Two segments, the clock through two wraps; round trips of every kind.
SPECIFICATION MCSpec
CONSTANTS
  W = 18
  MaxNow = 38
  MaxStep = 2
  interval = 3
  update_interval = 2
  Jump = 6
  Rtos = {2, 3}
  IKCP_PROBE_INIT = 2
  IKCP_PROBE_LIMIT = 3
  MaxSeg = 2
  rtt_interval = 10
  rx_minrto = 10
  IKCP_RTO_DEF = 200
  IKCP_RTO_MAX = 60000
  Trip <- Trips
  MaxFree = 3
  Settling = 60
INVARIANTS
  TypeOK
  NothingOverdue
  FlushedLately
  ProbedLately
  SrttBetweenTrips
  RtoCoversATrip
  RtoCatchesUp
PROPERTIES
  ProbesBackOff
CHECK_DEADLOCK FALSE

\* Every socket has a port of its own; datagrams are lost, one at a time is in the
\* network.
SPECIFICATION FairSpec
CONSTANTS
  MaxAttempt = 2
  MaxEndpoint = 2
  MaxConns = 2
  MaxNet = 1
  Timeout = 0
  Reuse = FALSE
  Duplicates = FALSE
PROPERTIES
  PromiseSpec
  AbandonedIsReleased
  OrphanEnds

\* The network also repeats datagrams, handshakes and responses included.
SPECIFICATION Spec
CONSTANTS
  MaxAttempt = 2
  MaxEndpoint = 1
  MaxConns = 2
  MaxNet = 2
  Timeout = 0
  Reuse = TRUE
  Duplicates = TRUE
INVARIANTS
  TypeOK
  OpenedIsListed
  StreamsAgree

\* Data one way over a network that loses, reorders and repeats datagrams.
SPECIFICATION Spec
CONSTANTS
  Mss = 1
  SndWnd = 2
  RcvWnd = 2
  WndRcv = 2
  FastResend = 1
  FastLimit = 1
  Duplicates = TRUE
  MaxBytes <- OneWay
  MaxNet = 3
  AckCuts = 1
INVARIANTS
  TypeOK
  WindowsRespected
  ForgottenIsReceived
  MissingIsKept
CHECK_DEADLOCK FALSE

\* Data both ways; the endpoints implement the byte streams.
SPECIFICATION Spec
CONSTANTS
  Mss = 1
  SndWnd = 2
  RcvWnd = 1
  WndRcv = 2
  FastResend = 1
  FastLimit = 1
  Duplicates = TRUE
  MaxBytes <- TwoWay
  MaxNet = 2
  AckCuts = 1
PROPERTIES
  StreamSpec
  UseSpec
CHECK_DEADLOCK FALSE

\* Loss and a receive window of one segment: what is written arrives.
SPECIFICATION FairSpec
CONSTANTS
  Mss = 1
  SndWnd = 2
  RcvWnd = 1
  WndRcv = 2
  FastResend = 1
  FastLimit = 1
  Duplicates = FALSE
  MaxBytes <- Flood
  MaxNet = 1
  AckCuts = 1
PROPERTIES
  BytesArrive
  SendQueuesDrain
CHECK_DEADLOCK FALSE

\* Segments filled by several writes, refused writes, small windows.
SPECIFICATION Spec
CONSTANTS
  Mss = 2
  SndWnd = 2
  RcvWnd = 1
  WndRcv = 2
  FastResend = 1
  FastLimit = 1
  Duplicates = TRUE
  MaxBytes <- Bulk
  MaxNet = 2
  AckCuts = 1
INVARIANTS
  AcksAreHonest
  NumbersAreStable
  ReadInOrder
CHECK_DEADLOCK FALSE

SPECIFICATION Spec
CONSTANTS
  MSS = 16
  SndWnd = 2
  CongestionWindow = TRUE
  IKCP_THRESH_INIT = 2
  IKCP_THRESH_MIN = 2
  FastResend = {1}
  FastLimit = {0, 2}
  NoDelay = {1}
  DeadLink = {2, 3}
  Rto = {3}
  RemoteWindow = {2}
  MaxSn = 3
  MaxXmit = 3
  MaxPassed = 4
  Elapse = 2
INVARIANTS
  TypeOK
  BufferInOrder
  FastResendsAreEarned
  DeadLinkIsRemembered
  NothingAnsweredStays
PROPERTIES
  FastResendsAreLimited
  TimeoutsAreWaitedFor
CHECK_DEADLOCK FALSE

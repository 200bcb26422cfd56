SPECIFICATION Spec
CONSTANTS
  MSS = 16
  SndWnd = 3
  CongestionWindow = FALSE
  IKCP_THRESH_INIT = 2
  IKCP_THRESH_MIN = 2
  FastResend = {1}
  FastLimit = {0}
  NoDelay = {0}
  DeadLink = {2}
  Rto = {2}
  RemoteWindow = {0, 2}
  MaxSn = 3
  MaxXmit = 2
  MaxPassed = 1
  Elapse = 1
PROPERTIES
  FastResendAfterThreshold
CHECK_DEADLOCK FALSE

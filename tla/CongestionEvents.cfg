SPECIFICATION Spec
CONSTANTS
  MSS = 40
  SendWindow = {2, 6}
  IKCP_THRESH_INIT = 2
  IKCP_THRESH_MIN = 2
  FastResend = {0, 2, 5}
  RemoteWindow = {0, 1, 3, 8}
  MaxInFlight = 12
INVARIANTS
  WindowMatchesIncr
  NeverStarves
PROPERTIES
  GrowsGradually

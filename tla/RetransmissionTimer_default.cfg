SPECIFICATION Spec
CONSTANTS
  ClockMod = 60
  IKCP_RTO_NDL = 3
  IKCP_RTO_MIN = 4
  IKCP_RTO_DEF = 5
  IKCP_RTO_MAX = 7
  IKCP_INTERVAL = 3
  MaxInterval = 3
  Intervals = {}
  MaxPause = 3
  MaxLate = 0
  RoundTrips = {5}
  NoDelays = {0, 1, 2}
  NoSegment = NoSegment
PROPERTIES
  NoSpuriousTimeoutByDefault

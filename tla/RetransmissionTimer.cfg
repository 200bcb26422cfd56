SPECIFICATION FairSpec
CONSTANTS
  ClockMod = 34
  IKCP_RTO_NDL = 2
  IKCP_RTO_MIN = 3
  IKCP_RTO_DEF = 3
  IKCP_RTO_MAX = 4
  IKCP_INTERVAL = 2
  MaxInterval = 3
  Intervals = {3}
  MaxPause = 3
  MaxLate = 1
  RoundTrips = {3}
  NoDelays = {0, 1, 2}
  NoSegment = NoSegment
INVARIANTS
  TypeOK
PROPERTIES
  NoSpuriousTimeout
  LostSegmentIsRetried

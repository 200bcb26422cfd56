SPECIFICATION FairSpec
CONSTANTS
  ClockMod = 16
  Jump = 3
  Intervals = {1, 2}
  PROBE_INIT = 3
  PROBE_LIMIT = 4
  Rto = {1, 3}
  Elapse = {1, 4}
  SetBacks = {6}
  FollowsCheck = {TRUE, FALSE}
  PeerCloses = TRUE
  MaxIdle = 5
  MaxInFlight <- InFlightBound
  MaxSetBacks <- SetBackBound
  Horizon = 4
INVARIANTS
  TypeOK
  FollowingCheckIsEnough
PROPERTIES
  ScheduleIsAhead
  FlushEveryInterval
  FlushesArePaced
  CheckWakesForTimers
  ProbesAreSpaced
  ClosedWindowIsProbed

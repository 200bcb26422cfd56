------------------------------ MODULE ScheduleProofs ------------------------------
(***************************************************************************)
(* Proofs about Schedule: for every width of the clock, every set of       *)
(* intervals and every tolerated jump, flushes keep their schedule, WASK   *)
(* is spaced, and an application that follows check() is never late.       *)
(***************************************************************************)
EXTENDS Schedule, NumberLemmas

Longest == Max(Intervals)
Shortest == Min(Intervals)

Idle == Delta(clock, current)
Ahead == Delta(ts_flush, clock)
Rest == Delta(wake, clock)

\* Before the first update() nothing has been flushed, and nothing is probed.
FirstIsPending ==
  ~updated => since = Horizon /\ span = Horizon /\ probe_wait = 0

\* Where ts_flush lies, and what is known of the flushes before it.  After a
\* long pause check() moves ts_flush to the present, so it is never known
\* exactly: it lies ahead no further than what is left of an interval, and
\* behind no further than the flushes before leave room for.
OnSchedule ==
  updated /\ setbacks = 0 =>
    /\ Idle \in 0..MaxIdle /\ Idle + Ahead >= 0 /\ Ahead <= Longest
    /\ Ahead <= 0 \/ since + Ahead <= Longest
    /\ since > Shortest \/ since + Ahead >= 1
    /\ span > Shortest \/ span + Ahead > Shortest

\* The time an application that follows check() sleeps until is not after
\* ts_flush, and before it as long as it may still call check() again.
SleepsInTime ==
  updated /\ setbacks = 0 /\ follows =>
    /\ Rest >= -1 /\ Idle + Rest >= 0 /\ Rest <= Ahead
    /\ Idle + Rest = 0 => Rest < Ahead
    /\ since + Ahead <= Longest

\* The timer of the prober does not run out before PROBE_INIT has passed.
ProbeIsSpaced ==
  setbacks = 0 /\ probe_wait # 0 =>
    \/ silence >= PROBE_INIT
    \/ /\ Delta(ts_probe, clock) \in 1..PROBE_LIMIT
       /\ silence + Delta(ts_probe, clock) >= PROBE_INIT

Scheduled ==
  TypeOK /\ FirstIsPending /\ OnSchedule /\ SleepsInTime /\ ProbeIsSpaced

-----------------------------------------------------------------------------
(* The constants.                                                          *)

LEMMA Limits ==
  /\ ClockMod \in Nat \ {0} /\ Jump \in Nat \ {0} /\ MaxIdle \in Nat \ {0}
  /\ PROBE_INIT \in Nat \ {0} /\ PROBE_LIMIT \in Nat /\ PROBE_INIT <= PROBE_LIMIT
  /\ 2 * PROBE_LIMIT < ClockMod /\ 2 * Jump < ClockMod
  /\ Horizon \in Nat /\ PROBE_INIT <= Horizon
  /\ \A f \in BOOLEAN : MaxSetBacks[f] \in Nat
BY ScheduleAssumption

LEMMA IntervalIs ==
  ASSUME NEW i \in Intervals
  PROVE  /\ i \in Nat \ {0} /\ Shortest <= i /\ i <= Longest
         /\ i < Jump /\ i < Horizon /\ 2 * (MaxIdle + i) < ClockMod
<1>1. /\ Intervals \in SUBSET Nat /\ Intervals # {}
      /\ \A x \in Intervals : x \in Nat \ {0} /\ x < Jump /\ x < Horizon
                              /\ 2 * (MaxIdle + x) < ClockMod
  BY ScheduleAssumption
<1>2. \A x \in Intervals : x <= Jump BY <1>1, Limits
<1>3. \A x \in Intervals : Shortest <= x
  BY <1>1, MinOfNaturals DEF Shortest
<1>4. \A x \in Intervals : Longest >= x
  BY <1>1, <1>2, Limits, MaxOfNaturals DEF Longest
<1>5. Longest \in Intervals BY <1>1, <1>2, Limits, MaxOfNaturals DEF Longest
<1>6. QED BY <1>1, <1>3, <1>4, <1>5

LEMMA LongestIs == Longest \in Intervals /\ Shortest \in Intervals
<1>1. Intervals \in SUBSET Nat /\ Intervals # {} BY ScheduleAssumption
<1>2. \A x \in Intervals : x <= Jump BY IntervalIs, Limits
<1>3. Longest \in Intervals BY <1>1, <1>2, Limits, MaxOfNaturals DEF Longest
<1>4. Shortest \in Intervals BY <1>1, MinOfNaturals DEF Shortest
<1>5. QED BY <1>3, <1>4

\* The bounds of what is possible for one interval, in numbers.
LEMMA Spans ==
  /\ Longest \in Nat \ {0} /\ Longest < Jump /\ Longest < Horizon
  /\ 2 * (MaxIdle + Longest) < ClockMod
  /\ Shortest \in Nat \ {0} /\ Shortest <= Longest
BY LongestIs, IntervalIs

LEMMA BoundedIs ==
  ASSUME NEW t \in Nat
  PROVE  Bounded(t) \in 0..Horizon /\ Bounded(t) = (IF t < Horizon THEN t ELSE Horizon)
<1>1. t \in Int /\ Horizon \in Int /\ Horizon \in Nat BY Limits
<1>2. /\ Min({t, Horizon}) \in {t, Horizon}
      /\ Min({t, Horizon}) <= t /\ Min({t, Horizon}) <= Horizon
  BY <1>1, MinOfTwo, Zenon
<1>3. QED BY <1>1, <1>2 DEF Bounded

-----------------------------------------------------------------------------
(* The clock: what is later by d, and how far two times are apart.         *)

LEMMA LaterIs ==
  ASSUME NEW t \in Time, NEW d \in Int
  PROVE  /\ Later(t, d) \in Time
         /\ -ClockMod < d /\ d < ClockMod
              => Later(t, d) - (t + d) \in {0, ClockMod, -ClockMod}
<1>1. t \in Nat /\ t < ClockMod /\ ClockMod \in Nat \ {0} BY Limits DEF Time
<1> DEFINE x == t + d
<1>2. x \in Int BY <1>1
<1>3. /\ x % ClockMod \in 0..(ClockMod - 1)
      /\ 0 <= x /\ x < ClockMod => x % ClockMod = x
      /\ -ClockMod <= x /\ x < 0 => x % ClockMod = x + ClockMod
      /\ ClockMod <= x /\ x < 2 * ClockMod => x % ClockMod = x - ClockMod
  <2> HIDE DEF x
  <2>1. QED BY <1>1, <1>2, RemainderIs
<1>4. Later(t, d) \in Time BY <1>3 DEF Later, Time
<1>5. ASSUME -ClockMod < d, d < ClockMod
      PROVE  Later(t, d) - x \in {0, ClockMod, -ClockMod}
  <2>1. -ClockMod <= x /\ x < 2 * ClockMod BY <1>1, <1>5
  <2>2. Later(t, d) = x % ClockMod BY DEF Later
  <2> HIDE DEF x
  <2>3. QED BY <1>1, <1>2, <1>3, <2>1, <2>2
<1>6. QED BY <1>4, <1>5

LEMMA DeltaOf ==
  ASSUME NEW x \in Time, NEW y \in Time
  PROVE  /\ Delta(x, y) \in Int
         /\ -ClockMod <= 2 * Delta(x, y) /\ 2 * Delta(x, y) < ClockMod
         /\ (x - y) - Delta(x, y) \in {0, ClockMod, -ClockMod}
<1>1. /\ x \in Nat /\ x < ClockMod /\ y \in Nat /\ y < ClockMod
      /\ ClockMod \in Nat \ {0}
  BY Limits DEF Time
<1> DEFINE z == x - y
           d == z % ClockMod
<1>2. z \in Int /\ -ClockMod < z /\ z < ClockMod BY <1>1
<1>3. Delta(x, y) = IF 2 * d < ClockMod THEN d ELSE d - ClockMod BY DEF Delta
<1>4. d \in 0..(ClockMod - 1) /\ z - d \in {0, -ClockMod}
  <2> HIDE DEF z
  <2>1. /\ d \in 0..(ClockMod - 1)
        /\ 0 <= z /\ z < ClockMod => d = z
        /\ -ClockMod <= z /\ z < 0 => d = z + ClockMod
    BY <1>1, <1>2, RemainderIs
  <2> HIDE DEF d
  <2>2. QED BY <1>1, <1>2, <2>1
<1>5. z - Delta(x, y) \in {0, ClockMod, -ClockMod} /\ Delta(x, y) \in Int
      /\ -ClockMod <= 2 * Delta(x, y) /\ 2 * Delta(x, y) < ClockMod
  <2> HIDE DEF z, d
  <2>1. QED BY <1>1, <1>2, <1>3, <1>4
<1>6. QED BY <1>5

LEMMA DeltaIs ==
  ASSUME NEW x \in Time, NEW y \in Time, NEW k \in Int,
         -ClockMod <= 2 * k, 2 * k < ClockMod,
         (x - y) - k \in {0, ClockMod, -ClockMod}
  PROVE  Delta(x, y) = k
<1>1. /\ Delta(x, y) \in Int
      /\ -ClockMod <= 2 * Delta(x, y) /\ 2 * Delta(x, y) < ClockMod
      /\ (x - y) - Delta(x, y) \in {0, ClockMod, -ClockMod}
  BY DeltaOf
<1> DEFINE D == Delta(x, y)
<1>2. D \in Int /\ ClockMod \in Nat \ {0} /\ x \in Int /\ y \in Int
      /\ -ClockMod <= 2 * D /\ 2 * D < ClockMod
      /\ (x - y) - D \in {0, ClockMod, -ClockMod}
  BY <1>1, Limits DEF Time
<1> HIDE DEF D
<1>3. D = k BY <1>2
<1>4. QED BY <1>3 DEF D

\* Time that is added is the time between.
LEMMA DeltaOfLater ==
  ASSUME NEW t \in Time, NEW d \in Int, -ClockMod < 2 * d, 2 * d < ClockMod
  PROVE  Delta(Later(t, d), t) = d /\ Delta(t, Later(t, d)) = -d
<1>1. ClockMod \in Nat \ {0} /\ t \in Int /\ -ClockMod < d /\ d < ClockMod
  BY Limits DEF Time
<1>2. Later(t, d) \in Time /\ Later(t, d) - (t + d) \in {0, ClockMod, -ClockMod}
  BY <1>1, LaterIs
<1> DEFINE l == Later(t, d)
<1>3. l \in Time /\ l \in Int /\ l - (t + d) \in {0, ClockMod, -ClockMod}
  BY <1>2 DEF Time
<1> HIDE DEF l
<1>4. (l - t) - d \in {0, ClockMod, -ClockMod} BY <1>1, <1>3
<1>5. (t - l) - (-d) \in {0, ClockMod, -ClockMod} /\ -d \in Int
  BY <1>1, <1>3
<1>6. Delta(l, t) = d BY <1>1, <1>3, <1>4, DeltaIs
<1>7. -ClockMod <= 2 * (-d) /\ 2 * (-d) < ClockMod BY <1>1
<1>8. Delta(t, l) = -d BY <1>3, <1>5, <1>7, DeltaIs
<1>9. QED BY <1>6, <1>8 DEF l

\* The same difference seen from the other side.
LEMMA DeltaTurned ==
  ASSUME NEW x \in Time, NEW y \in Time, -ClockMod < 2 * Delta(x, y)
  PROVE  Delta(y, x) = -Delta(x, y)
<1> DEFINE D == Delta(x, y)
<1>1. D \in Int /\ 2 * D < ClockMod /\ (x - y) - D \in {0, ClockMod, -ClockMod}
      /\ -ClockMod < 2 * D
  BY DeltaOf
<1>2. ClockMod \in Nat \ {0} /\ x \in Int /\ y \in Int BY Limits DEF Time
<1> HIDE DEF D
<1>3. (y - x) - (-D) \in {0, ClockMod, -ClockMod} /\ -D \in Int
      /\ -ClockMod <= 2 * (-D) /\ 2 * (-D) < ClockMod
  BY <1>1, <1>2
<1>4. Delta(y, x) = -D BY <1>3, DeltaIs
<1>5. QED BY <1>4 DEF D

\* What happens to a difference when the clock goes on.
LEMMA DeltaGoesOn ==
  ASSUME NEW x \in Time, NEW t \in Time, NEW d \in Int, -ClockMod < d, d < ClockMod
  PROVE  /\ -ClockMod <= 2 * (Delta(x, t) - d) /\ 2 * (Delta(x, t) - d) < ClockMod
              => Delta(x, Later(t, d)) = Delta(x, t) - d
         /\ -ClockMod <= 2 * (Delta(t, x) + d) /\ 2 * (Delta(t, x) + d) < ClockMod
              => Delta(Later(t, d), x) = Delta(t, x) + d
<1> DEFINE l == Later(t, d)
<1>1. l \in Time /\ l \in Int /\ l - (t + d) \in {0, ClockMod, -ClockMod}
  BY LaterIs DEF Time
<1>2. ClockMod \in Nat \ {0} /\ x \in Int /\ t \in Int
      /\ 0 <= x /\ x < ClockMod /\ 0 <= t /\ t < ClockMod /\ 0 <= l /\ l < ClockMod
  BY <1>1, Limits DEF Time
<1> HIDE DEF l
<1>3. ASSUME -ClockMod <= 2 * (Delta(x, t) - d), 2 * (Delta(x, t) - d) < ClockMod
      PROVE  Delta(x, l) = Delta(x, t) - d
  <2> DEFINE D == Delta(x, t)
             k == D - d
  <2>1. D \in Int /\ (x - t) - D \in {0, ClockMod, -ClockMod} BY DeltaOf
  <2> HIDE DEF D
  <2>2. k \in Int /\ (x - l) - k = ((x - t) - D) - (l - (t + d)) BY <1>1, <1>2, <2>1
  <2>3. -ClockMod <= 2 * k /\ 2 * k < ClockMod BY <1>3 DEF D
  <2> HIDE DEF k
  <2>4. (x - l) - k \in {0, ClockMod, -ClockMod}
    BY <1>1, <1>2, <2>1, <2>2, <2>3
  <2>5. Delta(x, l) = k BY <1>1, <2>2, <2>3, <2>4, DeltaIs
  <2>6. QED BY <2>5 DEF k, D
<1>4. ASSUME -ClockMod <= 2 * (Delta(t, x) + d), 2 * (Delta(t, x) + d) < ClockMod
      PROVE  Delta(l, x) = Delta(t, x) + d
  <2> DEFINE D == Delta(t, x)
             k == D + d
  <2>1. D \in Int /\ (t - x) - D \in {0, ClockMod, -ClockMod} BY DeltaOf
  <2> HIDE DEF D
  <2>2. k \in Int /\ (l - x) - k = ((t - x) - D) + (l - (t + d)) BY <1>1, <1>2, <2>1
  <2>3. -ClockMod <= 2 * k /\ 2 * k < ClockMod BY <1>4 DEF D
  <2> HIDE DEF k
  <2>4. (l - x) - k \in {0, ClockMod, -ClockMod}
    BY <1>1, <1>2, <2>1, <2>2, <2>3
  <2>5. Delta(l, x) = k BY <1>1, <2>2, <2>3, <2>4, DeltaIs
  <2>6. QED BY <2>5 DEF k, D
<1>5. QED BY <1>3, <1>4 DEF l

-----------------------------------------------------------------------------
(* Types.                                                                  *)

LEMMA TypeFacts ==
  ASSUME TypeOK
  PROVE  /\ clock \in Time /\ current \in Time /\ ts_flush \in Time
         /\ follows \in BOOLEAN /\ MaxSetBacks[follows] \in Nat
         /\ ts_probe \in Time /\ wake \in Time /\ resendts \subseteq Time
         /\ updated \in BOOLEAN /\ open \in BOOLEAN /\ asked \in BOOLEAN
         /\ interval \in Intervals
         /\ probe_wait \in {0} \union PROBE_INIT..PROBE_LIMIT
         /\ since \in 0..Horizon /\ span \in 0..Horizon /\ silence \in 0..Horizon
         /\ setbacks \in 0..MaxSetBacks[follows] /\ setbacks \in Nat
BY Limits DEF TypeOK

LEMMA TimeIsInt == \A t \in Time : t \in Nat
BY Limits DEF Time

LEMMA LongerWaitIs ==
  ASSUME probe_wait \in {0} \union PROBE_INIT..PROBE_LIMIT
  PROVE  LongerWait \in PROBE_INIT..PROBE_LIMIT
<1> DEFINE w == Max({probe_wait, PROBE_INIT})
           y == w + w \div 2
<1>1. probe_wait \in Int /\ PROBE_INIT \in Int /\ PROBE_INIT \in Nat
      /\ PROBE_LIMIT \in Nat /\ PROBE_INIT <= PROBE_LIMIT
  BY Limits
<1>2. /\ Max({probe_wait, PROBE_INIT}) \in {probe_wait, PROBE_INIT}
      /\ Max({probe_wait, PROBE_INIT}) >= probe_wait
      /\ Max({probe_wait, PROBE_INIT}) >= PROBE_INIT
  BY <1>1, MaxOfTwo, Zenon
<1>3. w \in Nat /\ w >= PROBE_INIT BY <1>1, <1>2
<1> HIDE DEF w
<1>4. y \in Nat /\ y >= PROBE_INIT BY <1>1, <1>3
<1> HIDE DEF y
<1>5. y \in Int /\ PROBE_LIMIT \in Int BY <1>1, <1>4
<1>6. /\ Min({y, PROBE_LIMIT}) \in {y, PROBE_LIMIT}
      /\ Min({y, PROBE_LIMIT}) <= y /\ Min({y, PROBE_LIMIT}) <= PROBE_LIMIT
  BY <1>5, MinOfTwo, Zenon
<1>7. Min({y, PROBE_LIMIT}) \in PROBE_INIT..PROBE_LIMIT BY <1>1, <1>4, <1>6
<1>8. QED BY <1>7 DEF LongerWait, y, w

\* What flush() leaves alone besides the segments: it may only restart the
\* timer of the prober, and asks only when that has run out.
LEMMA FlushIs ==
  ASSUME TypeOK, Flush
  PROVE  /\ resendts' \subseteq Time /\ ts_probe' \in Time /\ asked' \in BOOLEAN
         /\ probe_wait' \in {0} \union PROBE_INIT..PROBE_LIMIT
         /\ silence' \in 0..Horizon
         /\ since' = 0 /\ span' = since
         /\ asked' => probe_wait # 0 /\ IsDue(ts_probe)
         /\ \/ probe_wait' = 0
            \/ /\ probe_wait' \in PROBE_INIT..PROBE_LIMIT
               /\ ts_probe' = Later(clock, probe_wait')
            \/ /\ probe_wait # 0
               /\ probe_wait' = probe_wait /\ ts_probe' = ts_probe /\ silence' = silence
<1>1. /\ clock \in Time /\ ts_probe \in Time /\ resendts \subseteq Time
      /\ probe_wait \in {0} \union PROBE_INIT..PROBE_LIMIT
      /\ silence \in 0..Horizon
  BY TypeFacts
<1>2. 0 \in Time /\ 0 \in 0..Horizon /\ PROBE_INIT \in PROBE_INIT..PROBE_LIMIT
  BY Limits DEF Time
<1>3. \A d \in Int : Later(clock, d) \in Time BY <1>1, LaterIs
<1>4. resendts' \subseteq Time
  <2>1. PICK kept \in SUBSET {t \in resendts : ~IsDue(t)},
             fresh \in SUBSET {Later(clock, r) : r \in Rto} :
               resendts' = kept \union fresh
    BY DEF Flush
  <2>2. Rto \subseteq Int BY ScheduleAssumption
  <2>3. fresh \subseteq Time BY <1>3, <2>2
  <2>4. kept \subseteq Time BY <1>1
  <2>5. QED BY <2>1, <2>3, <2>4
<1>5. since' = 0 /\ span' = since BY DEF Flush
<1>6. CASE ProbeOpen
  BY <1>2, <1>4, <1>5, <1>6 DEF ProbeOpen, Wait
<1>7. CASE ProbeFirst
  <2>1. Later(clock, PROBE_INIT) \in Time BY <1>3, Limits
  <2>2. QED BY <1>2, <1>4, <1>5, <1>7, <2>1 DEF ProbeFirst, Wait
<1>8. CASE ProbeWaits
  BY <1>1, <1>4, <1>5, <1>8 DEF ProbeWaits
<1>9. CASE ProbeAsks
  <2>1. LongerWait \in PROBE_INIT..PROBE_LIMIT BY <1>1, LongerWaitIs
  <2>2. Later(clock, LongerWait) \in Time BY <1>3, <2>1, Limits
  <2>3. probe_wait' = LongerWait /\ ts_probe' = Later(clock, LongerWait)
        /\ asked' = TRUE /\ silence' = 0 /\ probe_wait # 0 /\ IsDue(ts_probe)
    BY <1>9 DEF ProbeAsks, Wait
  <2>4. QED BY <1>2, <1>4, <1>5, <2>1, <2>2, <2>3
<1>10. QED BY <1>6, <1>7, <1>8, <1>9 DEF Flush

\* Wherever ts_flush was, the next flush lies an interval after it, or after
\* the present when that has passed as well, or when the clock has jumped.
LEMMA NextFlushIs ==
  ASSUME TypeOK, IsTurn
  PROVE  /\ NextFlush \in Time
         /\ Delta(NextFlush, clock) \in 1..interval
         /\ \/ Delta(NextFlush, clock) = interval
            \/ /\ updated /\ ~HasJumped
               /\ Delta(NextFlush, clock) = Ahead + interval
<1> DEFINE base == IF updated /\ ~HasJumped THEN ts_flush ELSE clock
           next == Later(base, interval)
<1>1. /\ clock \in Time /\ ts_flush \in Time /\ interval \in Intervals
      /\ updated \in BOOLEAN
  BY TypeFacts
<1>2. /\ interval \in Nat \ {0} /\ interval < Jump /\ 2 * Jump < ClockMod
      /\ Jump \in Nat /\ ClockMod \in Nat \ {0}
      /\ -ClockMod < 2 * interval /\ 2 * interval < ClockMod
      /\ -ClockMod < interval /\ interval < ClockMod
  BY <1>1, IntervalIs, Limits
<1>3. NextFlush = IF IsDue(next) THEN Later(clock, interval) ELSE next
  BY DEF NextFlush
<1>4. /\ Later(clock, interval) \in Time
      /\ Delta(Later(clock, interval), clock) = interval
      /\ Delta(clock, Later(clock, interval)) = -interval
  BY <1>1, <1>2, LaterIs, DeltaOfLater
<1>5. CASE ~(updated /\ ~HasJumped)
  <2>1. next = Later(clock, interval) BY <1>5
  <2>2. NextFlush = Later(clock, interval) BY <1>3, <2>1
  <2>3. QED BY <1>2, <1>4, <2>2
<1>6. CASE updated /\ ~HasJumped
  <2> DEFINE s == Delta(clock, ts_flush)
  <2>1. s \in Int /\ Slap = s BY <1>1, <1>6, DeltaOf DEF Slap
  <2>2. ~(s >= Jump) /\ ~(s < -Jump) BY <1>6, <2>1 DEF HasJumped
  <2>3. s >= 0 BY <1>6, <2>1 DEF IsTurn
  <2>4. next = Later(ts_flush, interval) BY <1>6
  <2>5. -ClockMod <= 2 * (s - interval) /\ 2 * (s - interval) < ClockMod
        /\ -ClockMod < 2 * s /\ s - interval \in Int
    <3> HIDE DEF s
    <3>1. QED BY <1>2, <2>1, <2>2, <2>3
  <2>6. Ahead = -s
    <3>1. -ClockMod < 2 * Delta(clock, ts_flush) BY <2>5
    <3>2. Delta(ts_flush, clock) = -Delta(clock, ts_flush)
      BY <1>1, <3>1, DeltaTurned
    <3>3. QED BY <3>2 DEF Ahead
  <2>7. Later(ts_flush, interval) \in Time
        /\ Delta(clock, Later(ts_flush, interval)) = s - interval
    BY <1>1, <1>2, <2>5, LaterIs, DeltaGoesOn
  <2>8. CASE IsDue(next)
    <3>1. NextFlush = Later(clock, interval) BY <1>3, <2>8
    <3>2. QED BY <1>2, <1>4, <3>1
  <2>9. CASE ~IsDue(next)
    <3>1. NextFlush = Later(ts_flush, interval) BY <1>3, <2>4, <2>9
    <3>2. ~(s - interval >= 0) BY <2>4, <2>7, <2>9 DEF IsDue
    <3>3. -ClockMod < 2 * (s - interval)
      <4> HIDE DEF s
      <4>1. QED BY <1>2, <2>1, <2>2, <2>3
    <3>4. -ClockMod < 2 * Delta(clock, Later(ts_flush, interval)) BY <2>7, <3>3
    <3>5. Delta(Later(ts_flush, interval), clock) = -(s - interval)
      BY <1>1, <2>7, <3>4, DeltaTurned
    <3>6. -(s - interval) = Ahead + interval /\ -(s - interval) \in 1..interval
      <4> HIDE DEF s
      <4>1. QED BY <1>2, <2>1, <2>3, <2>6, <3>2
    <3>7. QED BY <1>6, <2>7, <3>1, <3>5, <3>6
  <2>10. QED BY <2>8, <2>9
<1>7. QED BY <1>5, <1>6

\* check() sends the application to sleep no longer than until ts_flush.
LEMMA SleepIs ==
  ASSUME TypeOK
  PROVE  /\ Sleep \in Nat /\ Sleep <= interval /\ (Ahead >= 0 => Sleep <= Ahead)
         /\ \A t \in resendts : Delta(t, clock) >= 0 => Sleep <= Delta(t, clock)
<1> DEFINE a == Max({0, Delta(ts_flush, clock)})
           S == {interval, a} \union EarliestTransmit
<1>1. /\ clock \in Nat /\ clock \in Time /\ ts_flush \in Time
      /\ resendts \subseteq Nat /\ interval \in Nat
  BY TypeFacts, TimeIsInt, IntervalIs
<1>2. Delta(ts_flush, clock) \in Int BY <1>1, DeltaOf
<1>3. a \in Nat /\ (Delta(ts_flush, clock) >= 0 => a = Delta(ts_flush, clock))
  <2>1. 0 \in Int OBVIOUS
  <2>2. /\ Max({0, Delta(ts_flush, clock)}) \in {0, Delta(ts_flush, clock)}
        /\ Max({0, Delta(ts_flush, clock)}) >= 0
        /\ Max({0, Delta(ts_flush, clock)}) >= Delta(ts_flush, clock)
    BY <1>2, <2>1, MaxOfTwo, Zenon
  <2>3. QED BY <1>2, <2>2
<1>4. EarliestTransmit \subseteq Nat
  <2>1. CASE \E t \in resendts : t <= clock BY <2>1 DEF EarliestTransmit
  <2>2. CASE ~\E t \in resendts : t <= clock
    <3>1. \A t \in resendts : t - clock \in Nat BY <1>1, <2>2
    <3>2. EarliestTransmit = {t - clock : t \in resendts}
      BY <2>2 DEF EarliestTransmit
    <3>3. QED BY <3>1, <3>2
  <2>3. QED BY <2>1, <2>2
<1> HIDE DEF a
<1>5. S \in SUBSET Nat /\ S # {} /\ a \in S BY <1>1, <1>3, <1>4
<1>6. Sleep = Min(S) BY DEF Sleep, a
<1> HIDE DEF S
<1>7. Min(S) \in S /\ \A x \in S : Min(S) <= x BY <1>5, MinOfNaturals
<1>8. Sleep \in Nat /\ \A x \in S : Sleep <= x BY <1>5, <1>6, <1>7
<1>9. interval \in S /\ EarliestTransmit \subseteq S BY DEF S
<1>10. ASSUME NEW t \in resendts, Delta(t, clock) >= 0
       PROVE  Sleep <= Delta(t, clock)
  <2>1. t \in Time /\ t \in Nat BY <1>1, TypeFacts
  <2>2. CASE \E u \in resendts : u <= clock
    <3>1. 0 \in S BY <1>9, <2>2 DEF EarliestTransmit
    <3>2. Sleep <= 0 BY <1>8, <3>1
    <3>3. Delta(t, clock) \in Int BY <1>1, <2>1, DeltaOf
    <3>4. QED BY <1>8, <1>10, <3>2, <3>3
  <2>3. CASE ~\E u \in resendts : u <= clock
    <3>1. t - clock \in S BY <1>9, <2>3 DEF EarliestTransmit
    <3>2. Sleep <= t - clock BY <1>8, <3>1
    <3>3. t - clock >= 0 /\ t - clock < ClockMod /\ ClockMod \in Nat
      BY <1>1, <2>1, <2>3, Limits DEF Time
    <3>4. Delta(t, clock) = t - clock
      <4> DEFINE z == t - clock
                 d == Delta(t, clock)
      <4>1. /\ d \in Int /\ 2 * d < ClockMod /\ z - d \in {0, ClockMod, -ClockMod}
            /\ d >= 0 /\ z \in Int /\ z >= 0 /\ z < ClockMod
        BY <1>1, <1>10, <2>1, <3>3, DeltaOf
      <4> HIDE DEF z, d
      <4>2. z = d BY <3>3, <4>1
      <4>3. QED BY <4>2 DEF z, d
    <3>5. QED BY <3>2, <3>4
  <2>4. QED BY <2>2, <2>3
<1>11. Sleep <= interval /\ (Ahead >= 0 => Sleep <= Ahead)
  BY <1>3, <1>5, <1>8, <1>9 DEF Ahead
<1>12. QED BY <1>8, <1>10, <1>11

-----------------------------------------------------------------------------
(* Every step keeps the types.                                             *)

LEMMA SameTime == ASSUME NEW t \in Time PROVE Delta(t, t) = 0
<1>1. t \in Nat /\ ClockMod \in Nat \ {0} BY TimeIsInt, Limits
<1>2. (t - t) - 0 \in {0, ClockMod, -ClockMod} BY <1>1
<1>3. -ClockMod <= 2 * 0 /\ 2 * 0 < ClockMod BY <1>1
<1>4. QED BY <1>2, <1>3, DeltaIs

LEMMA InitTypes == Init => TypeOK
<1> SUFFICES ASSUME Init PROVE TypeOK
  OBVIOUS
<1>1. ClockMod - 2 \in Time /\ 0 \in Time
  <2>1. 2 * (MaxIdle + Longest) < ClockMod /\ MaxIdle \in Nat \ {0} /\ Longest \in Nat
        /\ ClockMod \in Nat
    BY Spans, Limits
  <2>2. QED BY <2>1 DEF Time
<1>2. 0 \in 0..Horizon /\ Horizon \in 0..Horizon BY Limits
<1>3. follows \in BOOLEAN /\ 0 \in 0..MaxSetBacks[follows]
  BY Limits, ScheduleAssumption DEF Init
<1>4. QED BY <1>1, <1>2, <1>3 DEF Init, TypeOK

LEMMA UpdateTypes ==
  ASSUME TypeOK, Update
  PROVE  TypeOK'
<1>1. /\ clock \in Time /\ ts_flush \in Time /\ wake \in Time /\ ts_probe \in Time
      /\ resendts \subseteq Time /\ open \in BOOLEAN /\ interval \in Intervals
      /\ follows \in BOOLEAN
      /\ probe_wait \in {0} \union PROBE_INIT..PROBE_LIMIT
      /\ since \in 0..Horizon /\ span \in 0..Horizon /\ silence \in 0..Horizon
      /\ setbacks \in 0..MaxSetBacks[follows]
  BY TypeFacts
<1>2. /\ clock' = clock /\ interval' = interval /\ open' = open /\ setbacks' = setbacks
      /\ follows' = follows /\ updated' = TRUE /\ current' = clock
  BY DEF Update
<1>3. wake' \in Time BY <1>1 DEF Update, NoteWake
<1>4. CASE IsTurn /\ ts_flush' = NextFlush /\ Flush
  <2>1. ts_flush' \in Time BY <1>4, NextFlushIs
  <2>2. /\ resendts' \subseteq Time /\ ts_probe' \in Time /\ asked' \in BOOLEAN
        /\ probe_wait' \in {0} \union PROBE_INIT..PROBE_LIMIT
        /\ silence' \in 0..Horizon /\ since' = 0 /\ span' = since
    BY <1>4, FlushIs
  <2>3. 0 \in 0..Horizon BY Limits
  <2>4. QED BY <1>1, <1>2, <1>3, <2>1, <2>2, <2>3 DEF TypeOK
<1>5. CASE ~IsTurn /\ UNCHANGED <<ts_flush, flushVars>> /\ asked' = FALSE
  <2>1. /\ ts_flush' = ts_flush /\ resendts' = resendts /\ probe_wait' = probe_wait
        /\ ts_probe' = ts_probe /\ silence' = silence /\ since' = since /\ span' = span
    BY <1>5 DEF flushVars, proberVars
  <2>2. QED BY <1>1, <1>2, <1>3, <1>5, <2>1 DEF TypeOK
<1>6. QED BY <1>4, <1>5 DEF Update

LEMMA CheckTypes ==
  ASSUME TypeOK, Check
  PROVE  TypeOK'
<1>1. clock \in Time /\ ts_flush \in Time /\ wake \in Time BY TypeFacts
<1>2. /\ clock' = clock /\ updated' = updated /\ current' = current
      /\ interval' = interval /\ open' = open /\ setbacks' = setbacks
      /\ follows' = follows /\ resendts' = resendts /\ probe_wait' = probe_wait /\ ts_probe' = ts_probe
      /\ silence' = silence /\ since' = since /\ span' = span /\ asked' = asked
  BY DEF Check, flushVars, proberVars
<1>3. Later(clock, Sleep) \in Time BY <1>1, SleepIs, LaterIs
<1>4. wake' \in Time /\ ts_flush' \in Time BY <1>1, <1>3 DEF Check, NoteWake
<1>5. QED BY <1>2, <1>4 DEF TypeOK

LEMMA TickTypes ==
  ASSUME TypeOK, Tick
  PROVE  TypeOK'
<1>1. clock \in Time /\ since \in 0..Horizon /\ span \in 0..Horizon
      /\ silence \in 0..Horizon
  BY TypeFacts
<1>2. PICK d \in Elapse :
        /\ clock' = Later(clock, d)
        /\ since' = Bounded(since + d) /\ span' = Bounded(span + d)
        /\ silence' = Bounded(silence + d)
        /\ UNCHANGED <<follows, updated, current, ts_flush, interval, open, wake, setbacks,
                       resendts, probe_wait, ts_probe, asked>>
  BY DEF Tick
<1>3. d \in Nat BY ScheduleAssumption
<1>4. clock' \in Time BY <1>1, <1>2, <1>3, LaterIs
<1>5. since + d \in Nat /\ span + d \in Nat /\ silence + d \in Nat BY <1>1, <1>3
<1>6. since' \in 0..Horizon /\ span' \in 0..Horizon /\ silence' \in 0..Horizon
  BY <1>2, <1>5, BoundedIs
<1>7. QED BY <1>2, <1>4, <1>6 DEF TypeOK

LEMMA SetBackTypes ==
  ASSUME TypeOK, SetBack
  PROVE  TypeOK'
<1>1. clock \in Time /\ setbacks \in 0..MaxSetBacks[follows] /\ MaxSetBacks[follows] \in Nat
      /\ follows' = follows
  BY TypeFacts DEF SetBack
<1>2. PICK d \in SetBacks : clock' = (clock - d) % ClockMod BY DEF SetBack
<1>3. clock \in Int /\ d \in Int /\ ClockMod \in Nat \ {0}
  BY <1>1, TimeIsInt, Limits, ScheduleAssumption
<1>4. clock' \in Time BY <1>2, <1>3 DEF Time
<1>5. setbacks' \in 0..MaxSetBacks[follows] BY <1>1 DEF SetBack
<1>6. /\ updated' = updated /\ current' = current /\ ts_flush' = ts_flush
      /\ interval' = interval /\ open' = open /\ wake' = wake
      /\ resendts' = resendts /\ probe_wait' = probe_wait /\ ts_probe' = ts_probe
      /\ silence' = silence /\ since' = since /\ span' = span /\ asked' = asked
  BY DEF SetBack, flushVars, proberVars
<1>7. QED BY <1>1, <1>4, <1>5, <1>6 DEF TypeOK

LEMMA TypeStep ==
  ASSUME TypeOK, [Next]_vars
  PROVE  TypeOK'
<1>1. CASE Update BY <1>1, UpdateTypes
<1>2. CASE Check BY <1>2, CheckTypes
<1>3. CASE Tick BY <1>3, TickTypes
<1>4. CASE SetBack BY <1>4, SetBackTypes
<1>5. CASE SetInterval
  BY <1>5 DEF SetInterval, flushVars, proberVars, TypeOK
<1>6. CASE Announce
  BY <1>6 DEF Announce, flushVars, proberVars, TypeOK
<1>7. CASE Acknowledge
  <2>1. resendts' \subseteq resendts BY <1>7 DEF Acknowledge
  <2>2. /\ clock' = clock /\ updated' = updated /\ current' = current
        /\ ts_flush' = ts_flush /\ wake' = wake
        /\ interval' = interval /\ open' = open /\ setbacks' = setbacks
        /\ follows' = follows /\ probe_wait' = probe_wait /\ ts_probe' = ts_probe
        /\ silence' = silence /\ since' = since /\ span' = span /\ asked' = asked
    BY <1>7 DEF Acknowledge, proberVars
  <2>3. QED BY <2>1, <2>2 DEF TypeOK
<1>8. CASE UNCHANGED vars
  BY <1>8 DEF vars, flushVars, proberVars, TypeOK
<1>9. QED BY <1>1, <1>2, <1>3, <1>4, <1>5, <1>6, <1>7, <1>8 DEF Next

\* The clock may be set back at any time: all that is kept then are the types.
THEOREM ScheduleTypes == Spec => []TypeOK
<1>1. TypeOK /\ [Next]_vars => TypeOK' BY TypeStep
<1>2. QED BY InitTypes, <1>1, PTL DEF Spec

-----------------------------------------------------------------------------
(* update() leaves the next flush ahead, wherever the clock has jumped.    *)

LEMMA UpdateSchedules ==
  ASSUME TypeOK, Update
  PROVE  Delta(ts_flush', clock) \in 1..Jump
<1>1. /\ clock \in Time /\ ts_flush \in Time /\ interval \in Intervals
      /\ updated \in BOOLEAN
  BY TypeFacts
<1>2. interval \in Nat /\ interval < Jump /\ Jump \in Nat /\ 2 * Jump < ClockMod
      /\ ClockMod \in Nat
  BY <1>1, IntervalIs, Limits
<1>3. CASE IsTurn /\ ts_flush' = NextFlush
  <2>1. Delta(NextFlush, clock) \in 1..interval BY <1>3, NextFlushIs
  <2>2. Delta(NextFlush, clock) \in 1..Jump BY <1>2, <2>1
  <2>3. QED BY <1>3, <2>2
<1>4. CASE ~IsTurn /\ ts_flush' = ts_flush
  <2> DEFINE s == Delta(clock, ts_flush)
  <2>1. updated /\ Slap = s /\ s \in Int
    <3>1. ~updated => Slap = 0 BY DEF Slap
    <3>2. updated BY <1>4, <3>1 DEF IsTurn
    <3>3. QED BY <1>1, <3>2, DeltaOf DEF Slap
  <2>2. ~(s < -Jump) /\ ~(s >= 0) BY <1>4, <2>1 DEF IsTurn, HasJumped
  <2>3. -ClockMod < 2 * s /\ -s \in 1..Jump
    <3> HIDE DEF s
    <3>1. QED BY <1>2, <2>1, <2>2
  <2>4. -ClockMod < 2 * Delta(clock, ts_flush) BY <2>3
  <2>5. Delta(ts_flush, clock) = -Delta(clock, ts_flush) BY <1>1, <2>4, DeltaTurned
  <2>6. QED BY <1>4, <2>3, <2>5
<1>5. QED BY <1>3, <1>4 DEF Update

LEMMA LongestJump == Max(Intervals \union {Jump}) = Jump
<1> DEFINE S == Intervals \union {Jump}
<1>1. S \in SUBSET Nat /\ S # {} /\ Jump \in Nat /\ Jump \in S
  BY Limits, IntervalIs
<1>2. \A x \in S : x <= Jump BY <1>1, IntervalIs
<1>3. Max(S) \in S /\ \A x \in S : Max(S) >= x
  <2> HIDE DEF S
  <2>1. QED BY <1>1, <1>2, MaxOfNaturals
<1>4. Max(S) <= Jump /\ Max(S) >= Jump /\ Max(S) \in Nat BY <1>1, <1>2, <1>3
<1>5. QED BY <1>1, <1>4

\* ScheduleIsAhead for every width of the clock, at any time and after any jump.
THEOREM FlushLiesAhead == Spec => ScheduleIsAhead
<1>1. TypeOK /\ [Next]_vars
        => [Update => Delta(ts_flush', clock) \in 1..Max(Intervals \union {Jump})]_vars
  BY UpdateSchedules, LongestJump
<1>2. QED BY <1>1, ScheduleTypes, PTL DEF Spec, ScheduleIsAhead

-----------------------------------------------------------------------------
(* The schedule, kept by every step as long as the clock is not set back.  *)

LEMMA Numbers ==
  ASSUME TypeOK
  PROVE  /\ Idle \in Int /\ Ahead \in Int /\ Rest \in Int
         /\ since \in Nat /\ span \in Nat /\ silence \in Nat /\ setbacks \in Nat
         /\ Longest \in Nat \ {0} /\ Longest < Jump /\ Longest < Horizon
         /\ 2 * (MaxIdle + Longest) < ClockMod /\ 2 * Jump < ClockMod
         /\ Shortest \in Nat \ {0} /\ Shortest <= Longest
         /\ MaxIdle \in Nat /\ ClockMod \in Nat \ {0} /\ Jump \in Nat /\ Horizon \in Nat
<1>1. /\ clock \in Time /\ current \in Time /\ ts_flush \in Time /\ wake \in Time
      /\ since \in Nat /\ span \in Nat /\ silence \in Nat /\ setbacks \in Nat
  BY TypeFacts, Limits
<1>2. Idle \in Int /\ Ahead \in Int /\ Rest \in Int
  BY <1>1, DeltaOf DEF Idle, Ahead, Rest
<1>3. QED BY <1>1, <1>2, Spans, Limits

\* While the schedule holds, it is time to flush when ts_flush is not ahead.
LEMMA TurnIs ==
  ASSUME TypeOK, OnSchedule, updated, setbacks = 0
  PROVE  /\ Delta(clock, ts_flush) = -Ahead /\ Slap = -Ahead
         /\ IsTurn <=> Ahead <= 0
         /\ Ahead >= -MaxIdle
         /\ 2 * Delta(clock, ts_flush) # -ClockMod
<1>1. clock \in Time /\ ts_flush \in Time BY TypeFacts
<1>2. /\ Ahead \in Int /\ Idle \in Int /\ MaxIdle \in Nat /\ Longest \in Nat
      /\ 2 * (MaxIdle + Longest) < ClockMod /\ Longest < Jump /\ Jump \in Nat
      /\ ClockMod \in Nat
  BY Numbers
<1>3. Idle \in 0..MaxIdle /\ Idle + Ahead >= 0 /\ Ahead <= Longest BY DEF OnSchedule
<1>4. Ahead >= -MaxIdle /\ -ClockMod < 2 * Ahead BY <1>2, <1>3
<1>5. Delta(clock, ts_flush) = -Ahead BY <1>1, <1>4, DeltaTurned DEF Ahead
<1>6. Slap = -Ahead BY <1>5 DEF Slap
<1>7. IsTurn <=> (-Ahead >= Jump \/ -Ahead < -Jump \/ -Ahead >= 0)
  BY <1>6 DEF IsTurn, HasJumped
<1>8. IsTurn <=> Ahead <= 0 BY <1>2, <1>3, <1>7
<1>9. 2 * (-Ahead) # -ClockMod BY <1>2, <1>3
<1>10. QED BY <1>4, <1>5, <1>6, <1>8, <1>9

\* After update() the next flush is ahead, whether it has flushed or not.
LEMMA UpdateOnSchedule ==
  ASSUME TypeOK, FirstIsPending, OnSchedule, Update
  PROVE  OnSchedule' /\ SleepsInTime'
<1> SUFFICES ASSUME setbacks = 0 PROVE OnSchedule' /\ SleepsInTime'
  <2>1. setbacks' = setbacks /\ follows' = follows BY DEF Update
  <2>2. QED BY <2>1 DEF OnSchedule, SleepsInTime
<1>1. /\ clock \in Time /\ updated \in BOOLEAN /\ interval \in Intervals
      /\ clock' = clock /\ current' = clock /\ follows' = follows
      /\ follows => wake' = clock
  BY TypeFacts DEF Update, NoteWake
<1>2. /\ Ahead \in Int /\ since \in Nat /\ span \in Nat
      /\ MaxIdle \in Nat /\ Longest \in Nat /\ Shortest \in Nat /\ Shortest < Horizon
      /\ interval \in Nat \ {0} /\ interval <= Longest /\ Shortest <= interval
  BY <1>1, Numbers, IntervalIs
<1>3. Idle' = 0 /\ (follows => Rest' = 0)
  BY <1>1, SameTime DEF Idle, Rest
<1> DEFINE g == Delta(ts_flush', clock)
<1>4. Ahead' = g BY <1>1 DEF Ahead
<1>5. ASSUME NEW a \in 1..Longest, Ahead' = a,
             since' + a <= Longest, since' \in Nat, span' \in Nat,
             since' > Shortest \/ since' + a >= 1,
             span' > Shortest \/ span' + a > Shortest
      PROVE  OnSchedule' /\ SleepsInTime'
  <2>0. Idle' = 0 /\ Ahead' = a /\ a \in Nat /\ 1 <= a /\ a <= Longest
    BY <1>2, <1>3, <1>5
  <2>1. /\ Idle' \in 0..MaxIdle /\ Idle' + Ahead' >= 0 /\ Ahead' <= Longest
        /\ Ahead' <= 0 \/ since' + Ahead' <= Longest
        /\ since' > Shortest \/ since' + Ahead' >= 1
        /\ span' > Shortest \/ span' + Ahead' > Shortest
    <3>1. Idle' \in 0..MaxIdle BY <1>2, <2>0
    <3>2. Idle' + Ahead' >= 0 /\ Ahead' <= Longest BY <2>0
    <3>3. since' + Ahead' <= Longest BY <1>5, <2>0
    <3>4. since' > Shortest \/ since' + Ahead' >= 1 BY <1>5, <2>0
    <3>5. span' > Shortest \/ span' + Ahead' > Shortest BY <1>5, <2>0
    <3>6. QED BY <3>1, <3>2, <3>3, <3>4, <3>5
  <2>2. follows => /\ Rest' >= -1 /\ Idle' + Rest' >= 0 /\ Rest' <= Ahead'
                   /\ Idle' + Rest' = 0 => Rest' < Ahead'
                   /\ since' + Ahead' <= Longest
    <3>1. follows => Rest' = 0 BY <1>3
    <3>2. since' + Ahead' <= Longest BY <1>5, <2>0
    <3>3. Idle' = 0 /\ Ahead' = a /\ a >= 1 /\ a \in Nat BY <2>0
    <3>4. QED BY <3>1, <3>2, <3>3
  <2>3. OnSchedule' BY <2>1 DEF OnSchedule, Longest, Shortest
  <2>4. SleepsInTime' BY <1>1, <2>2 DEF SleepsInTime, Longest
  <2>5. QED BY <2>3, <2>4
<1>6. CASE IsTurn /\ ts_flush' = NextFlush /\ Flush
  <2>1. /\ g \in 1..interval
        /\ g = interval \/ (updated /\ g = Ahead + interval)
    BY <1>6, NextFlushIs
  <2>2. since' = 0 /\ span' = since BY <1>6, FlushIs
  <2>3. g \in 1..Longest /\ since' + g <= Longest /\ since' + g >= 1
    <3> HIDE DEF g
    <3>1. QED BY <1>2, <2>1, <2>2
  <2>4. since > Shortest \/ since + g > Shortest
    <3>1. CASE ~updated BY <1>2, <3>1 DEF FirstIsPending
    <3>2. CASE updated
      <4>1. Ahead <= 0 BY <1>6, <3>2, TurnIs
      <4>2. since > Shortest \/ since + Ahead >= 1 BY <3>2 DEF OnSchedule
      <4> HIDE DEF g
      <4>3. QED BY <1>2, <2>1, <4>1, <4>2
    <3>3. QED BY <1>1, <3>1, <3>2
  <2>5. QED BY <1>2, <1>4, <1>5, <2>2, <2>3, <2>4
<1>7. CASE ~IsTurn /\ UNCHANGED <<ts_flush, flushVars>>
  <2>1. updated
    <3>1. ~updated => Slap = 0 BY DEF Slap
    <3>2. QED BY <1>1, <1>7, <3>1 DEF IsTurn
  <2>2. ts_flush' = ts_flush /\ since' = since /\ span' = span BY <1>7 DEF flushVars
  <2>3. g = Ahead BY <2>2 DEF Ahead
  <2>4. ~(Ahead <= 0) BY <1>7, <2>1, TurnIs
  <2>5. /\ Ahead <= Longest
        /\ Ahead <= 0 \/ since + Ahead <= Longest
        /\ since > Shortest \/ since + Ahead >= 1
        /\ span > Shortest \/ span + Ahead > Shortest
    BY <2>1 DEF OnSchedule
  <2>6. Ahead \in 1..Longest /\ since + Ahead <= Longest BY <1>2, <2>4, <2>5
  <2>7. QED BY <1>2, <1>4, <1>5, <2>2, <2>3, <2>5, <2>6
<1>8. QED BY <1>6, <1>7 DEF Update

\* check() moves ts_flush only after a pause longer than the jump that is
\* tolerated, and then to the present.
LEMMA CheckOnSchedule ==
  ASSUME TypeOK, OnSchedule, SleepsInTime, Check
  PROVE  OnSchedule' /\ SleepsInTime'
<1>0. /\ clock' = clock /\ updated' = updated /\ current' = current
      /\ setbacks' = setbacks /\ since' = since /\ span' = span /\ follows' = follows
  BY DEF Check, flushVars
<1> SUFFICES ASSUME updated, setbacks = 0 PROVE OnSchedule' /\ SleepsInTime'
  BY <1>0 DEF OnSchedule, SleepsInTime
<1>1. /\ clock \in Time /\ current \in Time /\ wake \in Time /\ ts_flush \in Time
  BY TypeFacts
<1>2. /\ Idle \in Int /\ Ahead \in Int /\ Rest \in Int /\ since \in Nat /\ span \in Nat
      /\ Longest \in Nat \ {0} /\ Longest < Jump /\ Jump \in Nat
      /\ 2 * (MaxIdle + Longest) < ClockMod /\ 2 * Jump < ClockMod
      /\ Shortest \in Nat \ {0} /\ MaxIdle \in Nat /\ ClockMod \in Nat
  BY Numbers
<1>3. /\ Idle \in 0..MaxIdle /\ Idle + Ahead >= 0 /\ Ahead <= Longest
      /\ Ahead <= 0 \/ since + Ahead <= Longest
      /\ since > Shortest \/ since + Ahead >= 1
      /\ span > Shortest \/ span + Ahead > Shortest
  BY DEF OnSchedule
<1>4. follows =>
        /\ Rest >= -1 /\ Idle + Rest >= 0 /\ Rest <= Ahead
        /\ Idle + Rest = 0 => Rest < Ahead
        /\ since + Ahead <= Longest
  BY DEF SleepsInTime
<1>5. Delta(clock, ts_flush) = -Ahead /\ 2 * Delta(clock, ts_flush) # -ClockMod
  BY TurnIs
<1>6. Idle' = Idle BY <1>0 DEF Idle
<1>7. CASE TRUE \in IsFarAway /\ NoteWake(clock) /\ ts_flush' = clock
  <2>1. -Ahead >= Jump \/ -Ahead <= -Jump BY <1>5, <1>7 DEF IsFarAway
  <2>2. Ahead <= -Jump BY <1>2, <1>3, <2>1
  <2>3. ~follows BY <1>2, <1>4, <2>2
  <2>4. Ahead' = 0 BY <1>0, <1>1, <1>7, SameTime DEF Ahead
  <2>5. /\ Idle' \in 0..MaxIdle /\ Idle' + Ahead' >= 0 /\ Ahead' <= Longest
        /\ Ahead' <= 0 \/ since' + Ahead' <= Longest
        /\ since' > Shortest \/ since' + Ahead' >= 1
        /\ span' > Shortest \/ span' + Ahead' > Shortest
    BY <1>0, <1>2, <1>3, <1>6, <2>2, <2>4
  <2>6. QED BY <1>0, <2>3, <2>5 DEF OnSchedule, SleepsInTime, Longest, Shortest
<1>8. ASSUME ts_flush' = ts_flush,
             follows => /\ Rest' >= -1 /\ Idle + Rest' >= 0 /\ Rest' <= Ahead
                        /\ Idle + Rest' = 0 => Rest' < Ahead
      PROVE  OnSchedule' /\ SleepsInTime'
  <2>1. Ahead' = Ahead BY <1>0, <1>8 DEF Ahead
  <2>2. OnSchedule' BY <1>0, <1>3, <1>6, <2>1 DEF OnSchedule, Longest, Shortest
  <2>3. SleepsInTime' BY <1>0, <1>4, <1>6, <1>8, <2>1 DEF SleepsInTime, Longest
  <2>4. QED BY <2>2, <2>3
<1>9. CASE IsDue(ts_flush) /\ NoteWake(clock) /\ ts_flush' = ts_flush
  <2>1. Ahead <= 0 BY <1>2, <1>5, <1>9 DEF IsDue
  <2>2. ASSUME follows
        PROVE  /\ Rest' >= -1 /\ Idle + Rest' >= 0 /\ Rest' <= Ahead
               /\ Idle + Rest' = 0 => Rest' < Ahead
    <3>1. wake' = clock BY <1>9, <2>2 DEF NoteWake
    <3>2. Rest' = 0 BY <1>0, <1>1, <3>1, SameTime DEF Rest
    <3>3. Rest >= -1 /\ Rest <= Ahead /\ Idle + Rest >= 0
          /\ (Idle + Rest = 0 => Rest < Ahead)
      BY <1>4, <2>2
    <3>4. CASE wake = current
      <4>1. -ClockMod < 2 * Idle BY <1>2, <1>3
      <4>2. Delta(current, clock) = -Delta(clock, current)
        BY <1>1, <4>1, DeltaTurned DEF Idle
      <4>3. Rest = -Idle BY <3>4, <4>2 DEF Rest, Idle
      <4>4. Idle + Rest = 0 BY <1>2, <4>3
      <4>5. Ahead = 0 /\ Idle = 1 BY <1>2, <2>1, <3>3, <4>3, <4>4
      <4>6. QED BY <3>2, <4>5
    <3>5. CASE ~IsDue(wake)
      <4>1. -ClockMod < 2 * Rest BY <1>2, <1>3, <3>3
      <4>2. Delta(clock, wake) = -Rest BY <1>1, <4>1, DeltaTurned DEF Rest
      <4>3. Rest > 0 BY <1>2, <3>5, <4>2 DEF IsDue
      <4>4. QED BY <1>2, <2>1, <3>3, <4>3
    <3>6. QED BY <2>2, <3>4, <3>5 DEF Check, MayCheck
  <2>3. QED BY <1>8, <1>9, <2>2
<1>10. CASE ~IsDue(ts_flush) /\ NoteWake(Later(clock, Sleep)) /\ ts_flush' = ts_flush
  <2>1. Ahead > 0 BY <1>2, <1>5, <1>10 DEF IsDue
  <2>2. ASSUME follows
        PROVE  /\ Rest' >= -1 /\ Idle + Rest' >= 0 /\ Rest' <= Ahead
               /\ Idle + Rest' = 0 => Rest' < Ahead
    <3>1. wake' = Later(clock, Sleep) BY <1>10, <2>2 DEF NoteWake
    <3>2. Sleep \in Nat /\ Sleep <= Ahead BY <1>2, <2>1, SleepIs
    <3>3. Sleep \in Int /\ -ClockMod < 2 * Sleep /\ 2 * Sleep < ClockMod
      BY <1>2, <1>3, <3>2
    <3>4. Rest' = Sleep BY <1>0, <1>1, <3>1, <3>3, DeltaOfLater DEF Rest
    <3>5. QED BY <1>2, <1>3, <2>1, <3>2, <3>4
  <2>3. QED BY <1>8, <1>10, <2>2
<1>11. QED BY <1>7, <1>9, <1>10 DEF Check

\* Time that passes brings ts_flush nearer and counts for the histories.
LEMMA TickOnSchedule ==
  ASSUME TypeOK, OnSchedule, SleepsInTime, Tick
  PROVE  OnSchedule' /\ SleepsInTime'
<1>1. PICK d \in Elapse :
        /\ updated => Delta(clock, current) + d <= MaxIdle
        /\ follows => Delta(clock, wake) + d <= 1
        /\ clock' = Later(clock, d)
        /\ since' = Bounded(since + d) /\ span' = Bounded(span + d)
        /\ UNCHANGED <<follows, updated, current, ts_flush, wake, setbacks>>
  BY DEF Tick
<1> SUFFICES ASSUME updated, setbacks = 0 PROVE OnSchedule' /\ SleepsInTime'
  BY <1>1 DEF OnSchedule, SleepsInTime
<1>2. /\ clock \in Time /\ current \in Time /\ wake \in Time /\ ts_flush \in Time
      /\ d \in Nat \ {0}
  BY TypeFacts, ScheduleAssumption
<1>3. /\ Idle \in Int /\ Ahead \in Int /\ Rest \in Int /\ since \in Nat /\ span \in Nat
      /\ Longest \in Nat \ {0} /\ Longest < Horizon /\ Horizon \in Nat
      /\ 2 * (MaxIdle + Longest) < ClockMod
      /\ Shortest \in Nat \ {0} /\ Shortest <= Longest
      /\ MaxIdle \in Nat /\ ClockMod \in Nat
  BY Numbers
<1>4. /\ Idle \in 0..MaxIdle /\ Idle + Ahead >= 0 /\ Ahead <= Longest
      /\ Ahead <= 0 \/ since + Ahead <= Longest
      /\ since > Shortest \/ since + Ahead >= 1
      /\ span > Shortest \/ span + Ahead > Shortest
  BY DEF OnSchedule
<1>5. follows =>
        /\ Rest >= -1 /\ Idle + Rest >= 0 /\ Rest <= Ahead
        /\ Idle + Rest = 0 => Rest < Ahead
        /\ since + Ahead <= Longest
  BY DEF SleepsInTime
<1>6. Idle + d <= MaxIdle BY <1>1 DEF Idle
<1>7. d \in Int /\ -ClockMod < d /\ d < ClockMod BY <1>2, <1>3, <1>4, <1>6
<1>8. Idle' = Idle + d
  <2>1. -ClockMod <= 2 * (Idle + d) /\ 2 * (Idle + d) < ClockMod
    BY <1>2, <1>3, <1>4, <1>6
  <2>2. Delta(Later(clock, d), current) = Idle + d
    BY <1>2, <1>7, <2>1, DeltaGoesOn DEF Idle
  <2>3. QED BY <1>1, <2>2 DEF Idle
<1>9. Ahead' = Ahead - d
  <2>1. -ClockMod <= 2 * (Ahead - d) /\ 2 * (Ahead - d) < ClockMod
    BY <1>2, <1>3, <1>4, <1>6
  <2>2. Delta(ts_flush, Later(clock, d)) = Ahead - d
    BY <1>2, <1>7, <2>1, DeltaGoesOn DEF Ahead
  <2>3. QED BY <1>1, <2>2 DEF Ahead
<1>10. /\ since' \in Nat /\ since' <= since + d
       /\ since' = since + d \/ since' = Horizon
       /\ span' \in Nat
       /\ span' = span + d \/ span' = Horizon
  <2>1. since + d \in Nat /\ span + d \in Nat BY <1>2, <1>3
  <2>2. /\ Bounded(since + d)
             = (IF since + d < Horizon THEN since + d ELSE Horizon)
        /\ Bounded(span + d)
             = (IF span + d < Horizon THEN span + d ELSE Horizon)
    BY <2>1, BoundedIs
  <2>3. QED BY <1>1, <1>3, <2>1, <2>2
<1>11. /\ Ahead <= 0 => Ahead' <= 0
       /\ since + Ahead <= Longest => since' + Ahead' <= Longest
       /\ since > Shortest \/ since + Ahead >= 1
            => since' > Shortest \/ since' + Ahead' >= 1
       /\ span > Shortest \/ span + Ahead > Shortest
            => span' > Shortest \/ span' + Ahead' > Shortest
  <2> SUFFICES ASSUME NEW s \in Nat, s <= since + d, s = since + d \/ s = Horizon,
                      NEW z \in Nat, z = span + d \/ z = Horizon,
                      NEW a \in Int, a = Ahead - d
               PROVE  /\ Ahead <= 0 => a <= 0
                      /\ since + Ahead <= Longest => s + a <= Longest
                      /\ since > Shortest \/ since + Ahead >= 1
                           => s > Shortest \/ s + a >= 1
                      /\ span > Shortest \/ span + Ahead > Shortest
                           => z > Shortest \/ z + a > Shortest
    <3>1. Ahead - d \in Int BY <1>2, <1>3
    <3>2. QED BY <1>9, <1>10, <3>1
  <2>1. d \in Nat /\ d > 0 BY <1>2
  <2>2. Ahead <= 0 => a <= 0 BY <1>3, <2>1
  <2>3. since + Ahead <= Longest => s + a <= Longest BY <1>3, <2>1
  <2>4. ASSUME since > Shortest \/ since + Ahead >= 1
        PROVE  s > Shortest \/ s + a >= 1
    BY <1>3, <2>1, <2>4
  <2>5. ASSUME span > Shortest \/ span + Ahead > Shortest
        PROVE  z > Shortest \/ z + a > Shortest
    BY <1>3, <2>1, <2>5
  <2>6. QED BY <2>2, <2>3, <2>4, <2>5
<1>12. OnSchedule'
  <2>1. Idle' \in 0..MaxIdle /\ Idle' + Ahead' >= 0 /\ Ahead' <= Longest
    BY <1>2, <1>3, <1>4, <1>6, <1>8, <1>9
  <2>2. Ahead' <= 0 \/ since' + Ahead' <= Longest
    BY <1>4, <1>11
  <2>3. since' > Shortest \/ since' + Ahead' >= 1
    BY <1>4, <1>11
  <2>4. span' > Shortest \/ span' + Ahead' > Shortest
    BY <1>4, <1>11
  <2>5. QED BY <2>1, <2>2, <2>3, <2>4 DEF OnSchedule, Longest, Shortest
<1>13. ASSUME follows
       PROVE  /\ Rest' >= -1 /\ Idle' + Rest' >= 0 /\ Rest' <= Ahead'
              /\ Idle' + Rest' = 0 => Rest' < Ahead'
              /\ since' + Ahead' <= Longest
  <2>1. /\ Rest >= -1 /\ Idle + Rest >= 0 /\ Rest <= Ahead
        /\ Idle + Rest = 0 => Rest < Ahead
        /\ since + Ahead <= Longest
    BY <1>5, <1>13
  <2>2. -ClockMod < 2 * Rest BY <1>2, <1>3, <1>4, <1>6, <2>1
  <2>3. Delta(clock, wake) = -Rest BY <1>2, <2>2, DeltaTurned DEF Rest
  <2>4. -Rest + d <= 1 BY <1>1, <1>13, <2>3
  <2>5. Rest' = Rest - d
    <3>1. -ClockMod <= 2 * (Rest - d) /\ 2 * (Rest - d) < ClockMod
      BY <1>2, <1>3, <1>4, <1>6, <2>1, <2>4
    <3>2. Delta(wake, Later(clock, d)) = Rest - d
      BY <1>2, <1>7, <3>1, DeltaGoesOn DEF Rest
    <3>3. QED BY <1>1, <3>2 DEF Rest
  <2>6. Rest' >= -1 /\ Idle' + Rest' >= 0 /\ Rest' <= Ahead'
    BY <1>2, <1>3, <1>8, <1>9, <2>1, <2>4, <2>5
  <2>7. Idle' + Rest' = 0 => Rest' < Ahead'
    BY <1>2, <1>3, <1>8, <1>9, <2>1, <2>5
  <2>8. since' + Ahead' <= Longest
    BY <1>11, <2>1
  <2>9. QED BY <2>6, <2>7, <2>8
<1>14. SleepsInTime' BY <1>1, <1>13 DEF SleepsInTime, Longest
<1>15. QED BY <1>12, <1>14

\* The timer of the prober: started again whenever it asks, it goes on while
\* time passes.
LEMMA ProbeStep ==
  ASSUME TypeOK, FirstIsPending, ProbeIsSpaced, Next
  PROVE  ProbeIsSpaced'
<1>1. /\ clock \in Time /\ ts_probe \in Time /\ silence \in 0..Horizon
      /\ setbacks \in 0..MaxSetBacks[follows] /\ updated \in BOOLEAN
      /\ probe_wait \in {0} \union PROBE_INIT..PROBE_LIMIT
  BY TypeFacts
<1>2. /\ PROBE_INIT \in Nat /\ PROBE_LIMIT \in Nat /\ 2 * PROBE_LIMIT < ClockMod
      /\ PROBE_INIT <= Horizon /\ Horizon \in Nat /\ ClockMod \in Nat /\ MaxIdle \in Nat
      /\ 0 < PROBE_INIT
  BY Limits
<1>3. ASSUME setbacks' = setbacks, clock' = clock, ts_probe' = ts_probe,
             probe_wait' = probe_wait, silence' = silence
      PROVE  ProbeIsSpaced'
  BY <1>3 DEF ProbeIsSpaced
<1>4. CASE Update
  <2>1. setbacks' = setbacks /\ clock' = clock BY <1>4 DEF Update
  <2>2. CASE Flush
    <3>1. silence' \in 0..Horizon BY <2>2, FlushIs
    <3>2. CASE probe_wait' = 0 BY <3>2 DEF ProbeIsSpaced
    <3>3. CASE /\ probe_wait' \in PROBE_INIT..PROBE_LIMIT
               /\ ts_probe' = Later(clock, probe_wait')
      <4> DEFINE p == probe_wait'
      <4>1. p \in PROBE_INIT..PROBE_LIMIT BY <3>3
      <4>2. p \in Int /\ -ClockMod < 2 * p /\ 2 * p < ClockMod
        <5> HIDE DEF p
        <5>1. QED BY <1>2, <4>1
      <4>3. Delta(Later(clock, p), clock) = p
        <5> HIDE DEF p
        <5>1. QED BY <1>1, <4>2, DeltaOfLater
      <4>4. Delta(ts_probe', clock') = p BY <2>1, <3>3, <4>3
      <4>5. p \in 1..PROBE_LIMIT /\ silence' + p >= PROBE_INIT
        <5>1. silence' \in Nat BY <1>2, <3>1
        <5> HIDE DEF p
        <5>2. p \in 1..PROBE_LIMIT /\ p \in Nat /\ p >= PROBE_INIT BY <1>2, <4>1
        <5>3. \A x \in Nat : x + p >= PROBE_INIT BY <1>2, <5>2
        <5>4. QED BY <5>1, <5>2, <5>3
      <4>6. QED BY <4>4, <4>5 DEF ProbeIsSpaced
    <3>4. CASE /\ probe_wait' = probe_wait /\ ts_probe' = ts_probe
               /\ silence' = silence
      BY <1>3, <2>1, <3>4
    <3>5. QED BY <2>2, <3>2, <3>3, <3>4, FlushIs
  <2>3. CASE UNCHANGED <<ts_flush, flushVars>>
    BY <1>3, <2>1, <2>3 DEF flushVars, proberVars
  <2>4. QED BY <1>4, <2>2, <2>3 DEF Update
<1>5. CASE Tick
  <2>1. PICK d \in Elapse :
          /\ updated => Delta(clock, current) + d <= MaxIdle
          /\ clock' = Later(clock, d) /\ silence' = Bounded(silence + d)
          /\ UNCHANGED <<updated, setbacks, ts_probe, probe_wait>>
    BY <1>5 DEF Tick
  <2> SUFFICES ASSUME setbacks = 0, probe_wait # 0 PROVE ProbeIsSpaced'
    BY <2>1 DEF ProbeIsSpaced
  <2>2. d \in Nat \ {0} BY ScheduleAssumption
  <2>3. silence' = (IF silence + d < Horizon THEN silence + d ELSE Horizon)
    <3>1. silence + d \in Nat BY <1>1, <2>2
    <3>2. QED BY <2>1, <3>1, BoundedIs
  <2> DEFINE p == Delta(ts_probe, clock)
  <2>4. p \in Int /\ ts_probe \in Int BY <1>1, DeltaOf, TimeIsInt
  <2>5. CASE silence >= PROBE_INIT
    <3>1. silence' >= PROBE_INIT BY <1>1, <1>2, <2>2, <2>3, <2>5
    <3>2. QED BY <3>1 DEF ProbeIsSpaced
  <2>6. CASE p \in 1..PROBE_LIMIT /\ silence + p >= PROBE_INIT /\ d >= p
    <3>1. silence' >= PROBE_INIT
      <4> HIDE DEF p
      <4>1. QED BY <1>1, <1>2, <2>2, <2>3, <2>4, <2>6
    <3>2. QED BY <3>1 DEF ProbeIsSpaced
  <2>7. CASE p \in 1..PROBE_LIMIT /\ silence + p >= PROBE_INIT /\ d < p
    <3>1. -ClockMod < d /\ d < ClockMod /\ d \in Int
          /\ -ClockMod <= 2 * (p - d) /\ 2 * (p - d) < ClockMod
          /\ p - d \in 1..PROBE_LIMIT
      <4> HIDE DEF p
      <4>1. QED BY <1>2, <2>2, <2>4, <2>7
    <3>2. Delta(ts_probe, Later(clock, d)) = p - d
      BY <1>1, <3>1, DeltaGoesOn
    <3>3. Delta(ts_probe', clock') = p - d BY <2>1, <3>2
    <3>4. silence' + (p - d) >= PROBE_INIT
      <4> HIDE DEF p
      <4>1. QED BY <1>1, <1>2, <2>2, <2>3, <2>4, <2>7
    <3>5. QED BY <3>1, <3>3, <3>4 DEF ProbeIsSpaced
  <2>8. QED
    <3>1. silence >= PROBE_INIT
            \/ (p \in 1..PROBE_LIMIT /\ silence + p >= PROBE_INIT)
      BY DEF ProbeIsSpaced
    <3>2. d >= p \/ d < p
      <4> HIDE DEF p
      <4>1. QED BY <2>2, <2>4
    <3>3. QED BY <2>5, <2>6, <2>7, <3>1, <3>2
<1>6. CASE SetBack
  <2>1. setbacks' # 0 BY <1>6, TypeFacts DEF SetBack
  <2>2. QED BY <2>1 DEF ProbeIsSpaced
<1>7. CASE Check BY <1>3, <1>7 DEF Check, flushVars, proberVars
<1>8. CASE SetInterval BY <1>3, <1>8 DEF SetInterval, flushVars, proberVars
<1>9. CASE Announce BY <1>3, <1>9 DEF Announce, flushVars, proberVars
<1>10. CASE Acknowledge BY <1>3, <1>10 DEF Acknowledge, proberVars
<1>11. QED BY <1>4, <1>5, <1>6, <1>7, <1>8, <1>9, <1>10 DEF Next

LEMMA ScheduledInit == Init => Scheduled
<1> SUFFICES ASSUME Init PROVE Scheduled
  OBVIOUS
<1>1. TypeOK BY InitTypes
<1>2. updated = FALSE /\ probe_wait = 0 /\ since = Horizon /\ span = Horizon
  BY DEF Init
<1>3. QED
  BY <1>1, <1>2
     DEF Scheduled, FirstIsPending, OnSchedule, SleepsInTime, ProbeIsSpaced

LEMMA PendingStep ==
  ASSUME TypeOK, FirstIsPending, Next
  PROVE  FirstIsPending'
<1>1. since \in 0..Horizon /\ span \in 0..Horizon /\ updated \in BOOLEAN
  BY TypeFacts
<1>2. CASE Update BY <1>2 DEF Update, FirstIsPending
<1>3. CASE Tick
  <2>1. PICK d \in Elapse :
          /\ since' = Bounded(since + d) /\ span' = Bounded(span + d)
          /\ updated' = updated /\ probe_wait' = probe_wait
    BY <1>3 DEF Tick
  <2>2. d \in Nat /\ Horizon \in Nat BY ScheduleAssumption
  <2>3. Horizon + d \in Nat /\ Horizon + d >= Horizon BY <2>2
  <2>4. Bounded(Horizon + d) = Horizon BY <2>2, <2>3, BoundedIs
  <2>5. QED BY <2>1, <2>4 DEF FirstIsPending
<1>4. CASE Check BY <1>4 DEF Check, flushVars, proberVars, FirstIsPending
<1>5. CASE SetInterval BY <1>5 DEF SetInterval, flushVars, proberVars, FirstIsPending
<1>6. CASE Announce BY <1>6 DEF Announce, flushVars, proberVars, FirstIsPending
<1>7. CASE Acknowledge BY <1>7 DEF Acknowledge, proberVars, FirstIsPending
<1>8. CASE SetBack BY <1>8 DEF SetBack, flushVars, proberVars, FirstIsPending
<1>9. QED BY <1>2, <1>3, <1>4, <1>5, <1>6, <1>7, <1>8 DEF Next

\* Steps of the peer and of the application that leave the schedule alone.
LEMMA SameSchedule ==
  ASSUME OnSchedule, SleepsInTime,
         clock' = clock, updated' = updated, current' = current, ts_flush' = ts_flush,
         wake' = wake, since' = since, span' = span, setbacks' = setbacks,
         follows' = follows
  PROVE  OnSchedule' /\ SleepsInTime'
<1>1. Idle' = Idle /\ Ahead' = Ahead /\ Rest' = Rest BY DEF Idle, Ahead, Rest
<1>2. OnSchedule' BY <1>1 DEF OnSchedule, Longest, Shortest
<1>3. SleepsInTime' BY <1>1 DEF SleepsInTime, Longest
<1>4. QED BY <1>2, <1>3

LEMMA ScheduledStep == Scheduled /\ [Next]_vars => Scheduled'
<1> SUFFICES ASSUME Scheduled, [Next]_vars PROVE Scheduled'
  OBVIOUS
<1>1. TypeOK /\ FirstIsPending /\ OnSchedule /\ SleepsInTime /\ ProbeIsSpaced
  BY DEF Scheduled
<1>2. TypeOK' BY <1>1, TypeStep
<1>3. CASE Next
  <2>1. FirstIsPending' BY <1>1, <1>3, PendingStep
  <2>2. ProbeIsSpaced' BY <1>1, <1>3, ProbeStep
  <2>3. OnSchedule' /\ SleepsInTime'
    <3>1. CASE Update BY <1>1, <3>1, UpdateOnSchedule
    <3>2. CASE Check BY <1>1, <3>2, CheckOnSchedule
    <3>3. CASE Tick BY <1>1, <3>3, TickOnSchedule
    <3>4. CASE SetInterval
      BY <1>1, <3>4, SameSchedule DEF SetInterval, flushVars, proberVars
    <3>5. CASE Announce
      BY <1>1, <3>5, SameSchedule DEF Announce, flushVars, proberVars
    <3>6. CASE Acknowledge
      BY <1>1, <3>6, SameSchedule DEF Acknowledge, proberVars
    <3>7. CASE SetBack
      <4>1. setbacks \in Nat BY <1>1, Numbers
      <4>2. setbacks' # 0 BY <3>7, <4>1 DEF SetBack
      <4>3. QED BY <4>2 DEF OnSchedule, SleepsInTime
    <3>8. QED BY <1>3, <3>1, <3>2, <3>3, <3>4, <3>5, <3>6, <3>7 DEF Next
  <2>4. QED BY <1>2, <2>1, <2>2, <2>3 DEF Scheduled
<1>4. CASE UNCHANGED vars
  <2>1. /\ clock' = clock /\ updated' = updated /\ current' = current
        /\ ts_flush' = ts_flush /\ wake' = wake /\ since' = since /\ span' = span
        /\ setbacks' = setbacks /\ silence' = silence /\ follows' = follows
        /\ probe_wait' = probe_wait /\ ts_probe' = ts_probe
    BY <1>4 DEF vars, flushVars, proberVars
  <2>2. OnSchedule' /\ SleepsInTime' BY <1>1, <2>1, SameSchedule
  <2>3. FirstIsPending' /\ ProbeIsSpaced'
    BY <1>1, <2>1 DEF FirstIsPending, ProbeIsSpaced
  <2>4. QED BY <1>2, <2>2, <2>3 DEF Scheduled
<1>5. QED BY <1>3, <1>4

THEOREM ScheduleHolds == Spec => []Scheduled
BY ScheduledInit, ScheduledStep, PTL DEF Spec

-----------------------------------------------------------------------------
(* What follows from the schedule.                                         *)

\* FlushEveryInterval for every interval and every pause: whatever check() did
\* to ts_flush, update() flushes when an interval has passed since the last one.
THEOREM FlushesAreNotMissed == Spec => FlushEveryInterval
<1>1. ASSUME Scheduled, Update, setbacks = 0, since >= Longest
      PROVE  since' = 0
  <2>1. TypeOK /\ OnSchedule BY <1>1 DEF Scheduled
  <2>2. Ahead \in Int /\ since \in Nat /\ Longest \in Nat BY <2>1, Numbers
  <2>3. IsTurn
    <3>1. CASE updated
      <4>1. Ahead <= 0 \/ since + Ahead <= Longest
        BY <1>1, <2>1, <3>1 DEF OnSchedule
      <4>2. Ahead <= 0 BY <1>1, <2>2, <4>1
      <4>3. QED BY <1>1, <2>1, <3>1, <4>2, TurnIs
    <3>2. CASE ~updated BY <3>2 DEF IsTurn, Slap
    <3>3. QED BY <3>1, <3>2
  <2>4. Flush BY <1>1, <2>3 DEF Update
  <2>5. QED BY <2>1, <2>4, FlushIs
<1>2. Scheduled /\ [Next]_vars
        => [Update /\ setbacks = 0 /\ since >= Max(Intervals) => since' = 0]_vars
  BY <1>1 DEF Longest
<1>3. QED BY <1>2, ScheduleHolds, PTL DEF Spec, FlushEveryInterval

\* FlushesArePaced for every pause: flushes that were missed are not made up for.
THEOREM FlushesAreNotMadeUp == Spec => FlushesArePaced
<1>1. ASSUME Scheduled, Update, setbacks = 0, since' = 0, since # 0
      PROVE  span > Shortest
  <2>1. TypeOK /\ OnSchedule /\ FirstIsPending BY <1>1 DEF Scheduled
  <2>2. Ahead \in Int /\ span \in Nat /\ Shortest \in Nat BY <2>1, Numbers
  <2>3. IsTurn BY <1>1 DEF Update, flushVars
  <2>4. CASE updated
    <3>1. Ahead <= 0 BY <1>1, <2>1, <2>3, <2>4, TurnIs
    <3>2. span > Shortest \/ span + Ahead > Shortest
      BY <1>1, <2>1, <2>4 DEF OnSchedule
    <3>3. QED BY <2>2, <3>1, <3>2
  <2>5. CASE ~updated
    <3>1. span = Horizon BY <2>1, <2>5 DEF FirstIsPending
    <3>2. QED BY <3>1, Spans, Limits
  <2>6. QED BY <2>4, <2>5
<1>2. Scheduled /\ [Next]_vars
        => [Update /\ setbacks = 0 /\ since' = 0 /\ since # 0
              => span > Min(Intervals)]_vars
  BY <1>1 DEF Shortest
<1>3. QED BY <1>2, ScheduleHolds, PTL DEF Spec, FlushesArePaced

\* FollowingCheckIsEnough for every set of timers, however late check() is asked.
THEOREM CheckIsEnough == Spec => []FollowingCheckIsEnough
<1>1. Scheduled => FollowingCheckIsEnough
  <2> SUFFICES ASSUME Scheduled, follows, updated, setbacks = 0
               PROVE  since <= Longest + 1
    BY DEF FollowingCheckIsEnough, Longest
  <2>1. TypeOK BY DEF Scheduled
  <2>2. Rest >= -1 /\ Rest <= Ahead /\ since + Ahead <= Longest
    BY DEF Scheduled, SleepsInTime
  <2>3. Rest \in Int /\ Ahead \in Int /\ since \in Nat /\ Longest \in Nat
    BY <2>1, Numbers
  <2>4. QED BY <2>2, <2>3
<1>2. QED BY <1>1, ScheduleHolds, PTL

\* CheckWakesForTimers for every set of timers and every time on the clock,
\* before its wrap and behind it.
THEOREM CheckTellsOfTimers == Spec => CheckWakesForTimers
<1>1. ASSUME TypeOK, Check, follows, NEW t \in resendts, Delta(t, clock) >= 0
      PROVE  Delta(wake', clock) <= Delta(t, clock)
  <2>1. /\ clock \in Time /\ t \in Time /\ ts_flush \in Time /\ resendts \subseteq Time
    BY <1>1, TypeFacts
  <2>2. Delta(clock, clock) = 0 BY <2>1, SameTime
  <2>3. CASE wake' = clock BY <1>1, <2>2, <2>3
  <2>4. CASE ~IsDue(ts_flush) /\ wake' = Later(clock, Sleep)
    <3>1. Sleep \in Nat /\ Sleep <= interval /\ Sleep <= Delta(t, clock)
      BY <1>1, SleepIs
    <3>2. interval \in Nat /\ 2 * interval < ClockMod /\ ClockMod \in Nat
      <4>1. /\ interval \in Nat \ {0} /\ MaxIdle \in Nat
            /\ 2 * (MaxIdle + interval) < ClockMod /\ ClockMod \in Nat
        BY <1>1, TypeFacts, IntervalIs, Limits
      <4>2. QED BY <4>1
    <3>3. Sleep \in Int /\ -ClockMod < 2 * Sleep /\ 2 * Sleep < ClockMod
      BY <3>1, <3>2
    <3>4. Delta(wake', clock) = Sleep BY <2>1, <2>4, <3>3, DeltaOfLater
    <3>5. QED BY <3>1, <3>4
  <2>5. QED BY <1>1, <2>3, <2>4 DEF Check, NoteWake
<1>2. TypeOK /\ [Next]_vars
        => [Check /\ follows =>
              \A t \in resendts :
                Delta(t, clock) >= 0 => Delta(wake', clock) <= Delta(t, clock)]_vars
  BY <1>1
<1>3. QED BY <1>2, ScheduleTypes, PTL DEF Spec, CheckWakesForTimers

\* ProbesAreSpaced for every PROBE_INIT and PROBE_LIMIT, whenever update() is
\* called and the window opens and closes.
THEOREM ProbesKeepTheirDistance == Spec => ProbesAreSpaced
<1>1. ASSUME Scheduled, Update, setbacks = 0, asked'
      PROVE  silence >= PROBE_INIT
  <2>1. TypeOK /\ ProbeIsSpaced BY <1>1 DEF Scheduled
  <2>2. Flush BY <1>1 DEF Update
  <2>3. probe_wait # 0 /\ IsDue(ts_probe) BY <1>1, <2>1, <2>2, FlushIs
  <2> DEFINE p == Delta(ts_probe, clock)
  <2>4. clock \in Time /\ ts_probe \in Time BY <2>1, TypeFacts
  <2>5. p \in Int /\ ClockMod \in Nat /\ PROBE_LIMIT \in Nat
    BY <2>4, DeltaOf, Limits
  <2>6. ~(p \in 1..PROBE_LIMIT)
    <3> SUFFICES ASSUME p \in 1..PROBE_LIMIT PROVE FALSE
      OBVIOUS
    <3>1. p > 0 /\ -ClockMod < 2 * p
      <4> HIDE DEF p
      <4>1. QED BY <2>5
    <3>2. Delta(clock, ts_probe) = -p BY <2>4, <3>1, DeltaTurned
    <3>3. -p >= 0 BY <2>3, <3>2 DEF IsDue
    <3> HIDE DEF p
    <3>4. QED BY <2>5, <3>1, <3>3
  <2>7. QED BY <1>1, <2>1, <2>3, <2>6 DEF ProbeIsSpaced
<1>2. Scheduled /\ [Next]_vars
        => [Update /\ setbacks = 0 /\ asked' => silence >= PROBE_INIT]_vars
  BY <1>1
<1>3. QED BY <1>2, ScheduleHolds, PTL DEF Spec, ProbesAreSpaced

=============================================================================

------------------------------- MODULE TimerProofs -------------------------------
(***************************************************************************)
(* Proofs about RetransmissionTimer: for every limit of the timeout, every *)
(* steady round trip, order of losses and call of the setters, the timeout *)
(* stays in its limits, and the timer of a segment does not expire before  *)
(* an acknowledgement of it that is under way can have come, provided that *)
(* the interval it was computed with is no shorter than the pauses between *)
(* two calls of update().                                                  *)
(***************************************************************************)
EXTENDS RetransmissionTimer, NumberLemmas

LEMMA Limits ==
  /\ ClockMod \in Nat \ {0} /\ IKCP_RTO_NDL \in Nat /\ IKCP_RTO_MIN \in Nat
  /\ IKCP_RTO_DEF \in Nat /\ IKCP_RTO_MAX \in Nat
  /\ 0 < IKCP_RTO_NDL /\ IKCP_RTO_NDL <= IKCP_RTO_MIN /\ IKCP_RTO_MIN <= IKCP_RTO_MAX
  /\ IKCP_RTO_DEF \in IKCP_RTO_NDL..IKCP_RTO_MAX
  /\ 8 * IKCP_RTO_MAX < ClockMod
  /\ MaxInterval \in Nat /\ MaxPause \in Nat
  /\ IKCP_INTERVAL \in 1..MaxInterval /\ Intervals \subseteq 1..MaxInterval
  /\ MaxInterval + IKCP_RTO_MAX < ClockMod
  /\ \A r \in RoundTrips : r \in Nat /\ r < IKCP_RTO_MAX
  /\ NoDelays \subseteq 0..2
BY RtoAssumption, TimerAssumption

LEMMA HalfIs ==
  /\ Half \in Nat /\ ClockMod = 2 * Half /\ 4 * IKCP_RTO_MAX < Half
<1>1. Half \in Nat /\ ClockMod = 2 * Half
  <2>1. ClockMod \in Nat /\ ClockMod % 2 = 0 BY RtoAssumption
  <2>2. QED BY <2>1 DEF Half
<1>2. 4 * IKCP_RTO_MAX < Half
  <2>1. 8 * IKCP_RTO_MAX < 2 * Half /\ IKCP_RTO_MAX \in Nat BY <1>1, Limits
  <2>2. QED BY <1>1, <2>1
<1>3. QED BY <1>1, <1>2

\* A difference of clocks as i32.
LEMMA SignedIs ==
  ASSUME NEW x \in Int
  PROVE  /\ Signed(x) \in -Half..(Half - 1)
         /\ -Half <= x /\ x < Half => Signed(x) = x
<1> DEFINE u == x % ClockMod
<1>1. Half \in Nat /\ ClockMod = 2 * Half /\ ClockMod \in Nat \ {0}
  BY HalfIs, Limits
<1>2. /\ u \in 0..(ClockMod - 1)
      /\ 0 <= x /\ x < ClockMod => u = x
      /\ -ClockMod <= x /\ x < 0 => u = x + ClockMod
  BY <1>1, RemainderIs
<1>3. Signed(x) = IF u < Half THEN u ELSE u - ClockMod BY DEF Signed
<1> HIDE DEF u
<1>4. Signed(x) \in -Half..(Half - 1)
  <2>1. CASE u < Half BY <1>1, <1>2, <1>3, <2>1
  <2>2. CASE ~(u < Half) BY <1>1, <1>2, <1>3, <2>2
  <2>3. QED BY <2>1, <2>2
<1>5. ASSUME -Half <= x, x < Half PROVE Signed(x) = x
  <2>1. CASE x >= 0
    <3>1. u = x BY <1>1, <1>2, <1>5, <2>1
    <3>2. QED BY <1>3, <1>5, <3>1
  <2>2. CASE x < 0
    <3>1. u = x + ClockMod BY <1>1, <1>2, <1>5, <2>2
    <3>2. ~(u < Half) /\ u - ClockMod = x BY <1>1, <1>5, <3>1
    <3>3. QED BY <1>3, <3>2
  <2>3. QED BY <2>1, <2>2
<1>6. QED BY <1>4, <1>5

-----------------------------------------------------------------------------
(* The calculator.                                                         *)

LEMMA CalculatorFields ==
  ASSUME NEW c \in Calculator
  PROVE  /\ c.interval \in Nat /\ c.srtt \in Nat /\ c.rttvar \in Nat
         /\ c.rto \in Nat /\ c.minrto \in Nat
         /\ c = [interval |-> c.interval, srtt |-> c.srtt, rttvar |-> c.rttvar,
                 rto |-> c.rto, minrto |-> c.minrto]
BY DEF Calculator

\* What is smoothed stays between the measurements: none of them is above r,
\* and none below low.  Nothing overflows on the way.
LEMMA SmoothedIs ==
  ASSUME NEW c \in Calculator, NEW r \in Nat, r < IKCP_RTO_MAX,
         c.srtt <= r, c.rttvar <= r, NEW rtt \in 0..r, NEW low \in Int, low <= rtt,
         c.srtt # 0 => low <= c.srtt
  PROVE  LET s == Smoothed(c, rtt)
         IN  /\ s \in Calculator /\ s.interval = c.interval /\ s.minrto = c.minrto
             /\ s.srtt <= r /\ s.rttvar <= r /\ low <= s.srtt
<1>1. /\ c.interval \in Nat /\ c.srtt \in Nat /\ c.rttvar \in Nat
      /\ c.rto \in Nat /\ c.minrto \in Nat
      /\ c = [interval |-> c.interval, srtt |-> c.srtt, rttvar |-> c.rttvar,
              rto |-> c.rto, minrto |-> c.minrto]
  BY CalculatorFields
<1>2. rtt \in Nat /\ rtt <= r /\ ClockMod \in Nat \ {0} /\ 8 * r < ClockMod
  BY Limits
<1>3. ASSUME NEW a \in Nat, NEW b \in Nat, a <= r, b <= r, low <= a,
             Smoothed(c, rtt) = [c EXCEPT !.srtt = a, !.rttvar = b]
      PROVE  LET s == Smoothed(c, rtt)
             IN  /\ s \in Calculator /\ s.interval = c.interval /\ s.minrto = c.minrto
                 /\ s.srtt <= r /\ s.rttvar <= r /\ low <= s.srtt
  <2> DEFINE s == Smoothed(c, rtt)
  <2>1. s = [interval |-> c.interval, srtt |-> a, rttvar |-> b,
             rto |-> c.rto, minrto |-> c.minrto]
    <3>1. c = [interval |-> c.interval, srtt |-> c.srtt, rttvar |-> c.rttvar,
               rto |-> c.rto, minrto |-> c.minrto]
      BY <1>1
    <3>2. QED BY <1>3, <3>1
  <2> HIDE DEF s
  <2>2. /\ s.interval = c.interval /\ s.minrto = c.minrto /\ s.srtt = a /\ s.rttvar = b
    BY <2>1
  <2>3. s \in Calculator BY <1>1, <2>1 DEF Calculator
  <2>4. QED BY <1>3, <2>2, <2>3 DEF s
<1>4. CASE c.srtt = 0
  <2>1. rtt \div 2 \in Nat /\ rtt \div 2 <= r BY <1>2
  <2>2. Smoothed(c, rtt) = [c EXCEPT !.srtt = rtt, !.rttvar = rtt \div 2]
    BY <1>4 DEF Smoothed
  <2>3. QED BY <1>2, <1>3, <2>1, <2>2
<1>5. CASE c.srtt # 0
  <2> DEFINE x == 7 * c.srtt + rtt
             d == Distance(rtt, c.srtt)
             y == 3 * c.rttvar + d
  <2>1. d \in Nat /\ d <= r BY <1>1, <1>2 DEF Distance
  <2> HIDE DEF d
  <2>2. x \in Nat /\ x <= 8 * r /\ 8 * low <= x BY <1>1, <1>2, <1>5
  <2>3. y \in Nat /\ y <= 4 * r BY <1>1, <1>2, <2>1
  <2>4. Smoothed(c, rtt) = [c EXCEPT !.srtt = (x % ClockMod) \div 8,
                                     !.rttvar = (y % ClockMod) \div 4]
    BY <1>5 DEF Smoothed, d
  <2> HIDE DEF x, y
  <2>5. x % ClockMod = x /\ y % ClockMod = y
    <3>1. x < ClockMod /\ y < ClockMod BY <1>2, <2>2, <2>3
    <3>2. QED BY <1>2, <2>2, <2>3, <3>1, SmallMod
  <2>6. x \div 8 \in Nat /\ x \div 8 <= r /\ low <= x \div 8 BY <2>2
  <2>7. y \div 4 \in Nat /\ y \div 4 <= r BY <2>3
  <2>8. Smoothed(c, rtt) = [c EXCEPT !.srtt = x \div 8, !.rttvar = y \div 4]
    BY <2>4, <2>5
  <2>9. QED BY <1>3, <2>6, <2>7, <2>8
<1>6. QED BY <1>4, <1>5

\* The timeout that follows from a measurement is no less than the round trip
\* when what is measured is behind it by no more than the interval.
LEMMA TimeoutIs ==
  ASSUME NEW c \in Calculator, NEW r \in Nat, r < IKCP_RTO_MAX, c.interval <= MaxInterval,
         c.minrto \in {IKCP_RTO_NDL, IKCP_RTO_MIN},
         c.srtt <= r, c.rttvar <= r, NEW rtt \in 0..r, r - MaxPause <= rtt,
         c.srtt # 0 => r - MaxPause <= c.srtt
  PROVE  LET u == UpdateRto(c, rtt)
         IN  /\ u \in Calculator /\ u.interval = c.interval /\ u.minrto = c.minrto
             /\ u.srtt <= r /\ u.rttvar <= r /\ u.srtt >= r - MaxPause
             /\ u.rto \in IKCP_RTO_NDL..IKCP_RTO_MAX
             /\ c.interval >= MaxPause => u.rto >= r
<1> DEFINE s == Smoothed(c, rtt)
           w == Larger(s.interval, (4 * s.rttvar) % ClockMod)
           v == (s.srtt + w) % ClockMod
           u == UpdateRto(c, rtt)
           k == Clamp(v, s.minrto, IKCP_RTO_MAX)
<1>1. /\ s \in Calculator /\ s.interval = c.interval /\ s.minrto = c.minrto
      /\ s.srtt <= r /\ s.rttvar <= r /\ r - MaxPause <= s.srtt
  <2> DEFINE low == r - MaxPause
  <2>1. low \in Int BY Limits
  <2>2. low <= rtt /\ (c.srtt # 0 => low <= c.srtt) OBVIOUS
  <2> HIDE DEF low
  <2>3. /\ s \in Calculator /\ s.interval = c.interval /\ s.minrto = c.minrto
        /\ s.srtt <= r /\ s.rttvar <= r /\ low <= s.srtt
    BY <2>1, <2>2, SmoothedIs
  <2>4. QED BY <2>3 DEF low
<1>2. u = [s EXCEPT !.rto = k] BY DEF UpdateRto
<1> HIDE DEF s, u
<1>3. /\ s.srtt \in Nat /\ s.rttvar \in Nat
      /\ s = [interval |-> s.interval, srtt |-> s.srtt, rttvar |-> s.rttvar,
              rto |-> s.rto, minrto |-> s.minrto]
      /\ s.interval \in Nat /\ s.minrto \in Nat
  BY <1>1, CalculatorFields
<1> DEFINE g == c.interval
<1>4. g \in Nat /\ g <= MaxInterval BY CalculatorFields
<1>5. w \in Nat /\ w >= g /\ (w = g \/ w <= 4 * r)
  <2> DEFINE y == 4 * s.rttvar
  <2>1. y \in Nat /\ y <= 4 * r /\ y < ClockMod BY <1>1, <1>3, Limits
  <2>2. y % ClockMod = y BY <2>1, Limits, SmallMod
  <2>3. w = IF g >= y THEN g ELSE y BY <1>1, <2>2 DEF Larger
  <2> HIDE DEF y, w, g
  <2>4. QED BY <1>4, <2>1, <2>3, Limits
<1> HIDE DEF g, w
<1>6. v \in Nat /\ (g >= MaxPause => v >= r)
  <2> DEFINE q == s.srtt
  <2>1. q \in Nat /\ q <= r /\ r - MaxPause <= q BY <1>1, <1>3
  <2>2. v = (q + w) % ClockMod OBVIOUS
  <2> HIDE DEF q, v
  <2>3. q + w \in Nat /\ q + w < ClockMod
    <3>1. CASE w = g BY <1>4, <1>5, <2>1, <3>1, Limits
    <3>2. CASE w <= 4 * r BY <1>5, <2>1, <3>2, Limits
    <3>3. QED BY <1>5, <3>1, <3>2
  <2>4. v = q + w BY <2>2, <2>3, Limits, SmallMod
  <2>5. g >= MaxPause => q + w >= r BY <1>4, <1>5, <2>1, Limits
  <2>6. QED BY <2>3, <2>4, <2>5
<1> HIDE DEF v
<1>7. k \in IKCP_RTO_NDL..IKCP_RTO_MAX /\ (g >= MaxPause => k >= r)
  <2> DEFINE l == s.minrto
  <2>1. l \in {IKCP_RTO_NDL, IKCP_RTO_MIN} BY <1>1
  <2>2. k = IF v < l THEN l ELSE IF v > IKCP_RTO_MAX THEN IKCP_RTO_MAX ELSE v
    BY DEF Clamp
  <2> HIDE DEF l, k
  <2>3. l \in Nat /\ IKCP_RTO_NDL <= l /\ l <= IKCP_RTO_MAX BY <2>1, Limits
  <2>4. CASE v < l BY <1>6, <2>2, <2>3, <2>4, Limits
  <2>5. CASE ~(v < l) /\ v > IKCP_RTO_MAX BY <1>6, <2>2, <2>3, <2>5, Limits
  <2>6. CASE ~(v < l) /\ ~(v > IKCP_RTO_MAX) BY <1>6, <2>2, <2>3, <2>6, Limits
  <2>7. QED BY <2>4, <2>5, <2>6
<1> HIDE DEF k
<1>8. u = [interval |-> s.interval, srtt |-> s.srtt, rttvar |-> s.rttvar,
           rto |-> k, minrto |-> s.minrto]
  <2>1. s = [interval |-> s.interval, srtt |-> s.srtt, rttvar |-> s.rttvar,
             rto |-> s.rto, minrto |-> s.minrto]
    BY <1>3
  <2>2. QED BY <1>2, <2>1
<1>9. /\ u.interval = s.interval /\ u.srtt = s.srtt /\ u.rttvar = s.rttvar
      /\ u.rto = k /\ u.minrto = s.minrto
  BY <1>8
<1>10. k \in Nat BY <1>7, Limits
<1>11. u \in Calculator BY <1>3, <1>8, <1>10 DEF Calculator
<1>12. u.srtt >= r - MaxPause BY <1>1, <1>3, <1>9, Limits
<1>13. QED BY <1>1, <1>7, <1>9, <1>11, <1>12 DEF u, g

-----------------------------------------------------------------------------
(* The invariant.                                                          *)

\* What has been measured on the way: never more than the round trip, and less
\* than that by no more than the clock of input() can be behind.  An interval
\* that is no shorter makes up for it in the timeout.
Measured ==
  /\ rc.interval <= MaxInterval /\ rc.minrto \in {IKCP_RTO_NDL, IKCP_RTO_MIN}
  /\ rc.srtt <= round_trip /\ rc.rttvar <= round_trip
  /\ rc.srtt # 0 => round_trip - MaxPause <= rc.srtt
  /\ granularity >= MaxPause => rc.rto >= round_trip

\* Acknowledgements on their way are as old as the clock is behind, and answer
\* a segment that is in flight or none.
OnTheWay ==
  /\ wait >= -lag
  /\ \A ack \in acks : ack.age \in lag..round_trip
  /\ segment = NoSegment => \A ack \in acks : ~ack.own

\* The timeout was computed with an interval that covers the pauses, and has
\* not wrapped since.
Covered == segment.steady /\ segment.granularity >= MaxPause

\* The timer of such a segment runs until the acknowledgements under way come.
Outlasts ==
  segment # NoSegment =>
    (Covered =>
       /\ segment.rto >= round_trip
       /\ \A ack \in acks : ack.own => segment.left + ack.age >= round_trip)

Timed == TypeOK /\ Measured /\ OnTheWay /\ Outlasts

\* What the calculator is made of stays within what the invariant says.
LEMMA Types ==
  ASSUME Timed
  PROVE  /\ round_trip \in RoundTrips /\ round_trip \in Nat /\ round_trip < IKCP_RTO_MAX
         /\ lag \in 0..MaxPause /\ lag \in Nat /\ wait \in Int
         /\ wait \in -MaxPause..MaxInterval /\ wait >= -lag
         /\ rc \in Calculator /\ rc.rto \in Nat
         /\ rc.rto >= IKCP_RTO_NDL /\ rc.rto <= IKCP_RTO_MAX
         /\ rc.srtt \in Nat /\ rc.rttvar \in Nat
         /\ nodelay \in 0..2 /\ interval \in 1..MaxInterval
         /\ granularity \in Nat \union {Unmeasured} /\ granularity \in Int
         /\ acks \subseteq Ack /\ segment \in Segment \union {NoSegment}
  BY Limits, CalculatorFields DEF Timed, TypeOK, OnTheWay, Unmeasured

LEMMA SegmentFields ==
  ASSUME NEW s \in Segment
  PROVE  /\ s.rto \in Nat /\ s.rto < ClockMod /\ s.left \in Int /\ s.left \in -Half..(Half - 1)
         /\ s.granularity \in Nat \union {Unmeasured} /\ s.granularity \in Int
         /\ s.steady \in BOOLEAN /\ s # NoSegment
         /\ s = [rto |-> s.rto, left |-> s.left, granularity |-> s.granularity,
                 steady |-> s.steady]
  BY Limits, HalfIs, NoSegmentAssumption DEF Segment, Unmeasured

LEMMA InitIsTimed == Init => Timed
<1> SUFFICES ASSUME Init PROVE Timed
  OBVIOUS
<1>1. /\ round_trip \in RoundTrips /\ interval = IKCP_INTERVAL /\ nodelay = 0
      /\ granularity = -1 /\ lag = 0 /\ wait = 0 /\ segment = NoSegment /\ acks = {}
      /\ rc = [interval |-> 0, srtt |-> 0, rttvar |-> 0, rto |-> IKCP_RTO_DEF,
               minrto |-> IKCP_RTO_MIN]
  BY DEF Init, NewCalculator, Unmeasured
<1>2. /\ rc.interval = 0 /\ rc.srtt = 0 /\ rc.rttvar = 0
      /\ rc.rto = IKCP_RTO_DEF /\ rc.minrto = IKCP_RTO_MIN
  BY <1>1
<1>3. round_trip \in Nat BY <1>1, Limits
<1>4. rc \in Calculator BY <1>1, Limits DEF Calculator
<1>5. TypeOK
  <2>1. rc.rto \in IKCP_RTO_NDL..IKCP_RTO_MAX BY <1>2, Limits
  <2>2. lag \in 0..MaxPause /\ wait \in -MaxPause..MaxInterval BY <1>1, Limits
  <2>3. interval \in 1..MaxInterval /\ nodelay \in 0..2 BY <1>1, Limits
  <2>4. /\ granularity \in Nat \union {Unmeasured}
        /\ acks \subseteq Ack /\ segment \in Segment \union {NoSegment}
    BY <1>1 DEF Unmeasured
  <2>5. QED BY <1>1, <1>4, <2>1, <2>2, <2>3, <2>4 DEF TypeOK
<1>6. Measured
  <2>1. ~(granularity >= MaxPause) BY <1>1, Limits
  <2>2. QED BY <1>2, <1>3, <2>1, Limits DEF Measured
<1>7. OnTheWay /\ Outlasts BY <1>1 DEF OnTheWay, Outlasts
<1>8. QED BY <1>5, <1>6, <1>7 DEF Timed

\* A flush sets the clock of input() and the time of the next one.
LEMMA FlushesOnTime ==
  ASSUME Timed, Flushes
  PROVE  /\ lag' = 0 /\ wait' \in 1..MaxInterval /\ round_trip' = round_trip
         /\ interval' = interval /\ nodelay' = nodelay /\ rc' = rc
         /\ granularity' = granularity
<1>1. /\ wait <= 0 /\ wait' = IF wait + interval > 0 THEN wait + interval ELSE interval
      /\ lag' = 0 /\ round_trip' = round_trip
      /\ interval' = interval /\ nodelay' = nodelay /\ rc' = rc
      /\ granularity' = granularity
  BY DEF Flushes, configVars
<1>2. /\ wait \in Int /\ interval \in Nat /\ interval > 0 /\ interval <= MaxInterval
      /\ MaxInterval \in Nat
  BY Types, Limits
<1>3. wait' \in 1..MaxInterval
  <2>1. CASE wait + interval > 0 BY <1>1, <1>2, <2>1
  <2>2. CASE ~(wait + interval > 0) BY <1>1, <1>2, <2>2
  <2>3. QED BY <2>1, <2>2
<1>4. QED BY <1>1, <1>3

\* The state after a step of update() that transmits a segment, when all that
\* is not about the new timer is known.
LEMMA TransmittedIsTimed ==
  ASSUME Timed, Flushes, Transmitted, segment' \in Segment,
         Covered' => segment'.rto >= round_trip /\ segment'.left >= round_trip
  PROVE  Timed'
<1>1. /\ lag' = 0 /\ wait' \in 1..MaxInterval /\ round_trip' = round_trip
      /\ interval' = interval /\ nodelay' = nodelay /\ rc' = rc
      /\ granularity' = granularity
  BY FlushesOnTime
<1>2. acks' = acks \/ acks' = acks \union Fresh BY DEF Transmitted
<1>3. Fresh = {[age |-> 0, own |-> TRUE]} /\ Fresh \subseteq Ack BY DEF Fresh, Ack
<1>4. acks' \subseteq Ack BY <1>2, <1>3, Types
<1>5. wait' \in -MaxPause..MaxInterval BY <1>1, Limits
<1>6. TypeOK'
  <2>1. TypeOK BY DEF Timed
  <2>2. 0 \in 0..MaxPause BY Limits
  <2>3. QED BY <1>1, <1>4, <1>5, <2>1, <2>2 DEF TypeOK
<1>7. Measured' BY <1>1 DEF Timed, Measured
<1>8. OnTheWay'
  <2>1. ASSUME NEW ack \in acks' PROVE ack.age \in 0..round_trip
    <3>1. CASE ack \in acks
      <4>1. ack.age \in lag..round_trip BY <3>1 DEF Timed, OnTheWay
      <4>2. QED BY <4>1, Types
    <3>2. CASE ack \in Fresh
      <4>1. ack.age = 0 BY <1>3, <3>2
      <4>2. QED BY <4>1, Types
    <3>3. QED BY <1>2, <3>1, <3>2
  <2>2. wait' >= -lag' BY <1>1, Limits
  <2>3. segment' # NoSegment BY SegmentFields
  <2>4. QED BY <1>1, <2>1, <2>2, <2>3 DEF OnTheWay
<1>9. Outlasts'
  <2>1. SUFFICES ASSUME Covered'
                 PROVE  /\ segment'.rto >= round_trip'
                        /\ \A ack \in acks' : ack.own => segment'.left + ack.age >= round_trip'
    BY DEF Outlasts
  <2>2. ASSUME NEW ack \in acks' PROVE segment'.left + ack.age >= round_trip
    <3>1. ack.age \in 0..round_trip
      <4>1. CASE ack \in acks
        <5>1. ack.age \in lag..round_trip BY <4>1 DEF Timed, OnTheWay
        <5>2. QED BY <5>1, Types
      <4>2. CASE ack \in Fresh
        <5>1. ack.age = 0 BY <1>3, <4>2
        <5>2. QED BY <5>1, Types
      <4>3. QED BY <1>2, <4>1, <4>2
    <3> DEFINE l == segment'.left
               a == ack.age
    <3>2. l \in Int /\ l >= round_trip /\ a \in 0..round_trip /\ round_trip \in Nat
      BY <2>1, <3>1, SegmentFields, Types
    <3> HIDE DEF l, a
    <3>3. l + a >= round_trip BY <3>2
    <3>4. QED BY <3>3 DEF l, a
  <2>3. QED BY <1>1, <2>1, <2>2
<1>10. QED BY <1>6, <1>7, <1>8, <1>9 DEF Timed

LEMMA SendIsTimed ==
  ASSUME Timed, Send
  PROVE  Timed'
<1> DEFINE x == rc.rto + rtomin
<1>1. /\ segment = NoSegment /\ Transmitted /\ Flushes
      /\ segment' = [rto |-> rc.rto, left |-> Signed(x), granularity |-> granularity,
                     steady |-> TRUE]
  BY DEF Send
<1>2. /\ rc.rto \in Nat /\ rc.rto <= IKCP_RTO_MAX /\ round_trip \in Nat
      /\ granularity \in Nat \union {Unmeasured}
  BY Types
<1>3. rtomin \in Nat /\ rtomin <= rc.rto
  <2> DEFINE q == rc.rto
  <2>1. q \in Nat BY <1>2
  <2>2. rtomin = IF nodelay = 0 THEN q \div 8 ELSE 0 BY DEF rtomin
  <2> HIDE DEF q
  <2>3. q \div 8 \in Nat /\ q \div 8 <= q BY <2>1
  <2>4. rtomin \in Nat /\ rtomin <= q BY <2>1, <2>2, <2>3
  <2>5. QED BY <2>4 DEF q
<1>4. x \in Nat /\ x >= rc.rto /\ x < Half BY <1>2, <1>3, HalfIs, Limits
<1> HIDE DEF x
<1>5. Signed(x) = x /\ Signed(x) \in -Half..(Half - 1)
  <2>1. -Half <= x /\ x \in Int BY <1>4, HalfIs
  <2>2. QED BY <1>4, <2>1, SignedIs
<1>6. segment'.rto = rc.rto /\ segment'.left = x /\ segment'.granularity = granularity
  BY <1>1, <1>5
<1>7. segment' \in Segment
  <2>1. rc.rto \in 0..(ClockMod - 1) BY <1>2, Limits
  <2>2. QED BY <1>1, <1>2, <1>5, <2>1 DEF Segment
<1>8. granularity >= MaxPause => rc.rto >= round_trip BY DEF Timed, Measured
<1>9. granularity >= MaxPause => x >= round_trip BY <1>2, <1>4, <1>8
<1>10. Covered' => granularity >= MaxPause
  <2>1. Covered' => segment'.granularity >= MaxPause BY DEF Covered
  <2>2. QED BY <1>6, <2>1
<1>11. QED BY <1>1, <1>6, <1>7, <1>8, <1>9, <1>10, TransmittedIsTimed

\* When the timer of such a segment expires, the acknowledgements of it that
\* are under way are due.
LEMMA CoveredRuns ==
  ASSUME Timed, TimedOut, Covered
  PROVE  \A ack \in acks : ack.own => ack.age = round_trip
<1>1. segment \in Segment /\ segment.left <= 0 /\ segment.left \in Int
  BY Types, SegmentFields DEF TimedOut
<1>2. SUFFICES ASSUME NEW ack \in acks, ack.own PROVE ack.age = round_trip OBVIOUS
<1>3. segment.left + ack.age >= round_trip
  BY <1>2 DEF Timed, Outlasts, TimedOut
<1>4. ack.age \in lag..round_trip /\ lag \in Nat /\ round_trip \in Nat
  BY <1>2, Types DEF Timed, OnTheWay
<1> DEFINE l == segment.left
           a == ack.age
<1>5. l \in Int /\ l <= 0 /\ l + a >= round_trip /\ a \in lag..round_trip
  BY <1>1, <1>3, <1>4
<1> HIDE DEF l, a
<1>6. a = round_trip BY <1>4, <1>5
<1>7. QED BY <1>6 DEF a

LEMMA ResendIsTimed ==
  ASSUME Timed, Resend
  PROVE  Timed'
<1> DEFINE sum == segment.rto + Step
           rto == sum % ClockMod
<1>1. /\ TimedOut /\ Transmitted /\ Flushes
      /\ segment' = [rto |-> rto, left |-> Signed(rto),
                     granularity |-> segment.granularity,
                     steady |-> segment.steady /\ sum < Half]
  BY DEF Resend
<1>2. /\ segment \in Segment /\ segment.rto \in Nat /\ segment.steady \in BOOLEAN
      /\ segment.granularity \in Nat \union {Unmeasured}
  BY <1>1, Types, SegmentFields DEF TimedOut
<1>3. Step \in Nat
  <2> DEFINE a == segment.rto
             b == rc.rto
  <2>1. a \in Nat /\ b \in Nat /\ nodelay \in {0, 1, 2}
    <3>1. nodelay \in 0..2 BY Types
    <3>2. nodelay \in {0, 1, 2} BY <3>1
    <3>3. QED BY <1>2, <3>2, Types
  <2>2. Step = CASE nodelay = 0 -> Larger(a, b)
                 [] nodelay = 1 -> a \div 2
                 [] nodelay = 2 -> b \div 2
    BY DEF Step
  <2>3. Larger(a, b) \in {a, b} BY DEF Larger
  <2> HIDE DEF a, b
  <2>4. a \div 2 \in Nat /\ b \div 2 \in Nat BY <2>1
  <2>5. CASE nodelay = 0 BY <2>1, <2>2, <2>3, <2>5
  <2>6. CASE nodelay = 1 BY <2>1, <2>2, <2>4, <2>6
  <2>7. CASE nodelay = 2 BY <2>1, <2>2, <2>4, <2>7
  <2>8. QED BY <2>1, <2>5, <2>6, <2>7
<1>4. sum \in Nat /\ sum >= segment.rto BY <1>2, <1>3
<1> HIDE DEF sum
<1>5. rto \in 0..(ClockMod - 1) /\ (sum < ClockMod => rto = sum) /\ rto \in Int
  <2>1. sum \in Int /\ ClockMod \in Nat \ {0} BY <1>4, Limits
  <2>2. /\ sum % ClockMod \in 0..(ClockMod - 1)
        /\ 0 <= sum /\ sum < ClockMod => sum % ClockMod = sum
    BY <2>1, RemainderIs
  <2>3. QED BY <1>4, <2>1, <2>2
<1> HIDE DEF rto
<1>6. Signed(rto) \in -Half..(Half - 1) /\ (rto < Half => Signed(rto) = rto)
  <2>1. -Half <= rto BY <1>5, HalfIs
  <2>2. QED BY <1>5, <2>1, SignedIs
<1>7. segment' \in Segment
  <2>1. (segment.steady /\ sum < Half) \in BOOLEAN OBVIOUS
  <2>2. QED BY <1>1, <1>2, <1>5, <1>6, <2>1 DEF Segment
<1>8. /\ segment'.rto = rto /\ segment'.left = Signed(rto)
      /\ segment'.granularity = segment.granularity
      /\ segment'.steady = (segment.steady /\ sum < Half)
  BY <1>1
<1>9. ASSUME Covered'
      PROVE  segment'.rto >= round_trip /\ segment'.left >= round_trip
  <2>1. segment'.steady /\ segment'.granularity >= MaxPause BY <1>9 DEF Covered
  <2>2. segment.steady /\ sum < Half BY <1>8, <2>1
  <2>3. Covered BY <1>8, <2>1, <2>2 DEF Covered
  <2>4. rto = sum /\ Signed(rto) = sum BY <1>4, <1>5, <1>6, <2>2, HalfIs
  <2>5. segment.rto >= round_trip BY <1>1, <2>3 DEF TimedOut, Timed, Outlasts
  <2>6. sum >= round_trip BY <1>2, <1>4, <2>5, Types
  <2>7. QED BY <1>8, <2>4, <2>6
<1>10. QED BY <1>1, <1>7, <1>9, TransmittedIsTimed

LEMMA TickIsTimed ==
  ASSUME Timed, Tick
  PROVE  Timed'
<1>1. /\ lag < MaxPause /\ lag' = lag + 1 /\ wait' = wait - 1
      /\ \A ack \in acks : ack.age < round_trip
      /\ acks' = {[age |-> k.age + 1, own |-> k.own] : k \in acks}
      /\ segment' = IF segment = NoSegment THEN NoSegment
                    ELSE [segment EXCEPT !.left = Signed(segment.left - 1)]
      /\ round_trip' = round_trip /\ interval' = interval /\ nodelay' = nodelay
      /\ rc' = rc /\ granularity' = granularity
  BY DEF Tick, configVars
<1>2. /\ lag \in Nat /\ round_trip \in Nat /\ wait \in Int
      /\ wait \in -MaxPause..MaxInterval /\ wait >= -lag
  BY Types
<1>3. ASSUME NEW ack \in acks'
      PROVE  \E k \in acks : /\ ack.age = k.age + 1 /\ ack.own = k.own /\ k.age \in Nat
                             /\ k.age \in lag..round_trip /\ k.age < round_trip /\ ack \in Ack
  <2>1. PICK k \in acks : ack = [age |-> k.age + 1, own |-> k.own] BY <1>1, <1>3
  <2>2. k \in Ack BY Types
  <2>3. k.age \in Nat /\ k.own \in BOOLEAN BY <2>2 DEF Ack
  <2>4. ack \in Ack BY <2>1, <2>3 DEF Ack
  <2>5. k.age \in lag..round_trip BY DEF Timed, OnTheWay
  <2>6. QED BY <1>1, <2>1, <2>3, <2>4, <2>5
<1>4. CASE segment = NoSegment
  <2>1. segment' = NoSegment BY <1>1, <1>4
  <2>2. \A ack \in acks' : ~ack.own BY <1>3, <1>4 DEF Timed, OnTheWay
  <2>3. \A ack \in acks' : ack.age \in lag'..round_trip'
    <3> TAKE ack \in acks'
    <3>1. PICK k \in acks : ack.age = k.age + 1 /\ k.age \in lag..round_trip
                            /\ k.age < round_trip
      BY <1>3
    <3>2. k.age + 1 \in (lag + 1)..round_trip
      <4> DEFINE a == k.age
      <4>1. a \in lag..round_trip /\ a < round_trip BY <3>1
      <4> HIDE DEF a
      <4>2. a + 1 \in (lag + 1)..round_trip BY <1>2, <4>1
      <4>3. QED BY <4>2 DEF a
    <3>3. QED BY <1>1, <3>1, <3>2
  <2>4. wait' \in -MaxPause..MaxInterval /\ wait' >= -lag' /\ lag' \in 0..MaxPause
    BY <1>1, <1>2, Limits
  <2>5. acks' \subseteq Ack BY <1>3
  <2>6. TypeOK' BY <1>1, <2>1, <2>4, <2>5 DEF Timed, TypeOK
  <2>7. Measured' BY <1>1 DEF Timed, Measured
  <2>8. OnTheWay' BY <2>2, <2>3, <2>4 DEF OnTheWay
  <2>9. Outlasts' BY <2>1 DEF Outlasts
  <2>10. QED BY <2>6, <2>7, <2>8, <2>9 DEF Timed
<1>5. CASE segment # NoSegment
  <2>1. segment \in Segment BY <1>5, Types
  <2>2. /\ segment.left \in Int /\ segment.left \in -Half..(Half - 1)
        /\ segment.rto \in Nat /\ segment.rto < ClockMod /\ segment.steady \in BOOLEAN
        /\ segment.granularity \in Nat \union {Unmeasured}
        /\ segment = [rto |-> segment.rto, left |-> segment.left,
                      granularity |-> segment.granularity, steady |-> segment.steady]
    BY <2>1, SegmentFields
  <2> DEFINE less == Signed(segment.left - 1)
  <2>3. less \in -Half..(Half - 1) /\ (segment.left > -Half => less = segment.left - 1)
    <3> DEFINE l == segment.left
    <3>1. l \in Int /\ l \in -Half..(Half - 1) BY <2>2
    <3> HIDE DEF l
    <3>2. Signed(l - 1) \in -Half..(Half - 1) BY <3>1, SignedIs
    <3>3. l > -Half => Signed(l - 1) = l - 1
      <4>1. l - 1 \in Int /\ (l > -Half => -Half <= l - 1 /\ l - 1 < Half)
        BY <3>1, HalfIs
      <4>2. QED BY <4>1, SignedIs
    <3>4. QED BY <3>2, <3>3 DEF l
  <2> HIDE DEF less
  <2>4. segment' = [rto |-> segment.rto, left |-> less,
                    granularity |-> segment.granularity, steady |-> segment.steady]
    <3>1. segment' = [segment EXCEPT !.left = less] BY <1>1, <1>5 DEF less
    <3>2. segment = [rto |-> segment.rto, left |-> segment.left,
                     granularity |-> segment.granularity, steady |-> segment.steady]
      BY <2>2
    <3>3. QED BY <3>1, <3>2
  <2>5. /\ segment'.rto = segment.rto /\ segment'.left = less
        /\ segment'.granularity = segment.granularity /\ segment'.steady = segment.steady
    BY <2>4
  <2>6. segment' \in Segment
    <3>1. segment.rto \in 0..(ClockMod - 1) BY <2>2, Limits
    <3>2. QED BY <2>2, <2>3, <2>4, <3>1 DEF Segment
  <2>7. segment' # NoSegment BY <2>6, SegmentFields
  <2>8. \A ack \in acks' : ack.age \in lag'..round_trip'
    <3> TAKE ack \in acks'
    <3>1. PICK k \in acks : ack.age = k.age + 1 /\ k.age \in lag..round_trip
                            /\ k.age < round_trip
      BY <1>3
    <3>2. k.age + 1 \in (lag + 1)..round_trip
      <4> DEFINE a == k.age
      <4>1. a \in lag..round_trip /\ a < round_trip BY <3>1
      <4> HIDE DEF a
      <4>2. a + 1 \in (lag + 1)..round_trip BY <1>2, <4>1
      <4>3. QED BY <4>2 DEF a
    <3>3. QED BY <1>1, <3>1, <3>2
  <2>9. wait' \in -MaxPause..MaxInterval /\ wait' >= -lag' /\ lag' \in 0..MaxPause
    BY <1>1, <1>2, Limits
  <2>10. acks' \subseteq Ack BY <1>3
  <2>11. TypeOK' BY <1>1, <2>6, <2>9, <2>10 DEF Timed, TypeOK
  <2>12. Measured' BY <1>1 DEF Timed, Measured
  <2>13. OnTheWay' BY <2>7, <2>8, <2>9 DEF OnTheWay
  <2>14. Outlasts'
    <3>1. SUFFICES ASSUME Covered'
                   PROVE  /\ segment'.rto >= round_trip'
                          /\ \A ack \in acks' : ack.own => segment'.left + ack.age >= round_trip'
      BY DEF Outlasts
    <3>2. /\ segment.rto >= round_trip
          /\ \A ack \in acks : ack.own => segment.left + ack.age >= round_trip
      BY <1>5, <2>5, <3>1 DEF Timed, Outlasts, Covered
    <3>3. ASSUME NEW ack \in acks', ack.own PROVE less + ack.age >= round_trip
      <4>1. PICK k \in acks : /\ ack.age = k.age + 1 /\ k.own /\ k.age \in Nat
                              /\ k.age < round_trip
        BY <1>3, <3>3
      <4> DEFINE l == segment.left
                 a == k.age
      <4>2. l \in Int /\ a \in Nat /\ l + a >= round_trip /\ a < round_trip
        BY <2>2, <3>2, <4>1
      <4>3. (l > -Half => less = l - 1) /\ ack.age = a + 1 BY <2>3, <4>1
      <4> HIDE DEF l, a
      <4>4. l > 0 BY <1>2, <4>2
      <4>5. less = l - 1 BY <4>2, <4>3, <4>4, HalfIs
      <4>6. QED BY <1>2, <4>2, <4>3, <4>5
    <3>4. QED BY <1>1, <2>5, <3>2, <3>3
  <2>15. QED BY <2>11, <2>12, <2>13, <2>14 DEF Timed
<1>6. QED BY <1>4, <1>5

LEMMA ReceiveIsTimed ==
  ASSUME Timed, NEW ack \in acks, ack.age = round_trip, Receive(ack)
  PROVE  Timed'
<1> DEFINE rtt == round_trip - lag
<1>1. /\ rc' = UpdateRto(rc, rtt) /\ granularity' = rc.interval
      /\ interval' = interval
      /\ segment' = IF ack.own THEN NoSegment ELSE segment
      /\ acks' = {[age |-> k.age, own |-> k.own /\ ~ack.own] : k \in acks \ {ack}}
      /\ round_trip' = round_trip /\ nodelay' = nodelay /\ lag' = lag /\ wait' = wait
  BY DEF Receive
<1>2. /\ round_trip \in Nat /\ round_trip < IKCP_RTO_MAX /\ rc \in Calculator
      /\ lag \in 0..MaxPause /\ lag \in Nat
  BY Types
<1>3. rtt \in 0..round_trip /\ round_trip - MaxPause <= rtt
  <2>1. ack.age \in lag..round_trip BY DEF Timed, OnTheWay
  <2>2. lag <= round_trip BY <1>2, <2>1
  <2>3. QED BY <1>2, <2>2, Limits
<1> HIDE DEF rtt
<1>4. /\ rc.interval <= MaxInterval /\ rc.minrto \in {IKCP_RTO_NDL, IKCP_RTO_MIN}
      /\ rc.srtt <= round_trip /\ rc.rttvar <= round_trip
      /\ rc.srtt # 0 => round_trip - MaxPause <= rc.srtt
      /\ rc.interval \in Nat
  BY <1>2, CalculatorFields DEF Timed, Measured
<1>5. /\ rc' \in Calculator /\ rc'.interval = rc.interval /\ rc'.minrto = rc.minrto
      /\ rc'.srtt <= round_trip /\ rc'.rttvar <= round_trip
      /\ rc'.srtt >= round_trip - MaxPause
      /\ rc'.rto \in IKCP_RTO_NDL..IKCP_RTO_MAX
      /\ rc.interval >= MaxPause => rc'.rto >= round_trip
  <2> DEFINE u == UpdateRto(rc, rtt)
  <2>1. /\ u \in Calculator /\ u.interval = rc.interval /\ u.minrto = rc.minrto
        /\ u.srtt <= round_trip /\ u.rttvar <= round_trip
        /\ u.srtt >= round_trip - MaxPause
        /\ u.rto \in IKCP_RTO_NDL..IKCP_RTO_MAX
        /\ rc.interval >= MaxPause => u.rto >= round_trip
    BY <1>2, <1>3, <1>4, TimeoutIs
  <2> HIDE DEF u
  <2>2. rc' = u BY <1>1 DEF u
  <2>3. QED BY <2>1, <2>2
<1>6. ASSUME NEW one \in acks'
      PROVE  \E k \in acks : /\ one.age = k.age /\ one.age \in lag..round_trip /\ one \in Ack
                             /\ one.own => k.own /\ ~ack.own
  <2>1. PICK k \in acks : one = [age |-> k.age, own |-> k.own /\ ~ack.own] BY <1>1, <1>6
  <2>2. k \in Ack BY Types
  <2>3. k.age \in Nat BY <2>2 DEF Ack
  <2>4. one \in Ack BY <2>1, <2>3 DEF Ack
  <2>5. k.age \in lag..round_trip BY DEF Timed, OnTheWay
  <2>6. QED BY <2>1, <2>4, <2>5
<1>7. acks' \subseteq Ack BY <1>6
<1>8. segment' \in Segment \union {NoSegment} BY <1>1, Types
<1>9. TypeOK' BY <1>1, <1>4, <1>5, <1>7, <1>8 DEF Timed, TypeOK
<1>10. Measured' BY <1>1, <1>4, <1>5 DEF Measured
<1>11. OnTheWay'
  <2>1. ASSUME segment' = NoSegment, NEW one \in acks' PROVE ~one.own
    <3>1. CASE ack.own BY <1>6, <3>1
    <3>2. CASE ~ack.own
      <4>1. segment = NoSegment BY <1>1, <2>1, <3>2
      <4>2. \A k \in acks : ~k.own BY <4>1 DEF Timed, OnTheWay
      <4>3. QED BY <1>6, <4>2
    <3>3. QED BY <3>1, <3>2
  <2>2. \A one \in acks' : one.age \in lag'..round_trip' BY <1>1, <1>6
  <2>3. wait' >= -lag' BY <1>1, Types
  <2>4. QED BY <2>1, <2>2, <2>3 DEF OnTheWay
<1>12. Outlasts'
  <2>1. SUFFICES ASSUME segment' # NoSegment, Covered'
                 PROVE  /\ segment'.rto >= round_trip'
                        /\ \A one \in acks' : one.own => segment'.left + one.age >= round_trip'
    BY DEF Outlasts
  <2>2. segment' = segment BY <1>1, <2>1
  <2>3. /\ segment.rto >= round_trip
        /\ \A k \in acks : k.own => segment.left + k.age >= round_trip
    BY <2>1, <2>2 DEF Timed, Outlasts, Covered
  <2>4. ASSUME NEW one \in acks', one.own PROVE segment.left + one.age >= round_trip
    <3>1. PICK k \in acks : one.age = k.age /\ k.own BY <1>6, <2>4
    <3>2. QED BY <2>3, <3>1
  <2>5. QED BY <1>1, <2>2, <2>3, <2>4
<1>13. QED BY <1>9, <1>10, <1>11, <1>12 DEF Timed

LEMMA StepIsTimed == Timed /\ [Next]_vars => Timed'
<1> SUFFICES ASSUME Timed, [Next]_vars PROVE Timed'
  OBVIOUS
<1>1. CASE Send BY <1>1, SendIsTimed
<1>2. CASE Resend BY <1>2, ResendIsTimed
<1>3. CASE FlushNothing
  <2>1. Flushes /\ segment' = segment /\ acks' = acks BY <1>3 DEF FlushNothing
  <2>2. /\ lag' = 0 /\ wait' \in 1..MaxInterval /\ round_trip' = round_trip
        /\ interval' = interval /\ nodelay' = nodelay /\ rc' = rc
        /\ granularity' = granularity
    BY <2>1, FlushesOnTime
  <2>3. /\ wait' \in -MaxPause..MaxInterval /\ wait' >= -lag' /\ lag' \in 0..MaxPause
    BY <2>2, Limits
  <2>4. \A ack \in acks : ack.age \in 0..round_trip
    <3> TAKE ack \in acks
    <3>1. ack.age \in lag..round_trip BY DEF Timed, OnTheWay
    <3>2. QED BY <3>1, Types
  <2>5. TypeOK' BY <2>1, <2>2, <2>3 DEF Timed, TypeOK
  <2>6. Measured' BY <2>2 DEF Timed, Measured
  <2>7. OnTheWay' BY <2>1, <2>2, <2>3, <2>4 DEF Timed, OnTheWay
  <2>8. Outlasts' BY <2>1, <2>2 DEF Timed, Outlasts, Covered
  <2>9. QED BY <2>5, <2>6, <2>7, <2>8 DEF Timed
<1>4. CASE UpdateOnly
  <2>1. /\ wait > 0 /\ lag' = 0 /\ round_trip' = round_trip /\ interval' = interval
        /\ nodelay' = nodelay /\ rc' = rc /\ granularity' = granularity /\ wait' = wait
        /\ segment' = segment /\ acks' = acks
    BY <1>4 DEF UpdateOnly, configVars
  <2>2. wait' >= -lag' /\ lag' \in 0..MaxPause BY <2>1, Types, Limits
  <2>3. \A ack \in acks : ack.age \in 0..round_trip
    <3> TAKE ack \in acks
    <3>1. ack.age \in lag..round_trip BY DEF Timed, OnTheWay
    <3>2. QED BY <3>1, Types
  <2>4. TypeOK' BY <2>1, <2>2 DEF Timed, TypeOK
  <2>5. Measured' BY <2>1 DEF Timed, Measured
  <2>6. OnTheWay' BY <2>1, <2>2, <2>3 DEF Timed, OnTheWay
  <2>7. Outlasts' BY <2>1 DEF Timed, Outlasts, Covered
  <2>8. QED BY <2>4, <2>5, <2>6, <2>7 DEF Timed
<1>5. CASE Arrive BY <1>5, ReceiveIsTimed DEF Arrive
<1>6. CASE Tick BY <1>6, TickIsTimed
<1>7. ASSUME NEW value \in NoDelays, SetNoDelay(value) PROVE Timed'
  <2> DEFINE least == LeastRto(value)
  <2>1. /\ nodelay' = value /\ rc' = SetMinRto(rc, least) /\ round_trip' = round_trip
        /\ interval' = interval /\ granularity' = granularity /\ lag' = lag
        /\ wait' = wait /\ segment' = segment /\ acks' = acks
    BY <1>7 DEF SetNoDelay
  <2>2. least \in {IKCP_RTO_NDL, IKCP_RTO_MIN} BY DEF LeastRto
  <2> HIDE DEF least
  <2>3. rc \in Calculator BY Types
  <2>4. rc' = [interval |-> rc.interval, srtt |-> rc.srtt, rttvar |-> rc.rttvar,
               rto |-> rc.rto, minrto |-> least]
    <3>1. rc = [interval |-> rc.interval, srtt |-> rc.srtt, rttvar |-> rc.rttvar,
                rto |-> rc.rto, minrto |-> rc.minrto]
      BY <2>3, CalculatorFields
    <3>2. rc' = [rc EXCEPT !.minrto = least] BY <2>1 DEF SetMinRto
    <3>3. QED BY <3>1, <3>2
  <2>5. /\ rc'.interval = rc.interval /\ rc'.srtt = rc.srtt /\ rc'.rttvar = rc.rttvar
        /\ rc'.rto = rc.rto /\ rc'.minrto = least
    BY <2>4
  <2>6. rc' \in Calculator
    <3>1. least \in Nat BY <2>2, Limits
    <3>2. /\ rc.interval \in Nat /\ rc.srtt \in Nat /\ rc.rttvar \in Nat /\ rc.rto \in Nat
      BY <2>3, CalculatorFields
    <3>3. QED BY <2>4, <3>1, <3>2 DEF Calculator
  <2>7. nodelay' \in 0..2 BY <1>7, <2>1, Limits
  <2>8. TypeOK' BY <2>1, <2>5, <2>6, <2>7 DEF Timed, TypeOK
  <2>9. Measured' BY <2>1, <2>2, <2>5 DEF Timed, Measured
  <2>10. OnTheWay' BY <2>1 DEF Timed, OnTheWay
  <2>11. Outlasts' BY <2>1 DEF Timed, Outlasts, Covered
  <2>12. QED BY <2>8, <2>9, <2>10, <2>11 DEF Timed
<1>8. ASSUME NEW value \in Intervals, ConfigureInterval(value) PROVE Timed'
  <2>1. /\ interval' = value /\ rc' = SetInterval(rc, value) /\ round_trip' = round_trip
        /\ nodelay' = nodelay /\ granularity' = granularity /\ lag' = lag
        /\ wait' = wait /\ segment' = segment /\ acks' = acks
    BY <1>8 DEF ConfigureInterval
  <2>2. value \in 1..MaxInterval /\ value \in Nat /\ value <= MaxInterval BY <1>8, Limits
  <2>3. rc \in Calculator BY Types
  <2>4. rc' = [interval |-> value, srtt |-> rc.srtt, rttvar |-> rc.rttvar,
               rto |-> rc.rto, minrto |-> rc.minrto]
    <3>1. rc = [interval |-> rc.interval, srtt |-> rc.srtt, rttvar |-> rc.rttvar,
                rto |-> rc.rto, minrto |-> rc.minrto]
      BY <2>3, CalculatorFields
    <3>2. rc' = [rc EXCEPT !.interval = value] BY <2>1 DEF SetInterval
    <3>3. QED BY <3>1, <3>2
  <2>5. /\ rc'.interval = value /\ rc'.srtt = rc.srtt /\ rc'.rttvar = rc.rttvar
        /\ rc'.rto = rc.rto /\ rc'.minrto = rc.minrto
    BY <2>4
  <2>6. rc' \in Calculator
    <3>1. /\ rc.minrto \in Nat /\ rc.srtt \in Nat /\ rc.rttvar \in Nat /\ rc.rto \in Nat
      BY <2>3, CalculatorFields
    <3>2. QED BY <2>2, <2>4, <3>1 DEF Calculator
  <2>7. TypeOK' BY <2>1, <2>2, <2>5, <2>6 DEF Timed, TypeOK
  <2>8. Measured' BY <2>1, <2>2, <2>5 DEF Timed, Measured
  <2>9. OnTheWay' BY <2>1 DEF Timed, OnTheWay
  <2>10. Outlasts' BY <2>1 DEF Timed, Outlasts, Covered
  <2>11. QED BY <2>7, <2>8, <2>9, <2>10 DEF Timed
<1>9. CASE UNCHANGED vars
  BY <1>9 DEF vars, configVars, Timed, TypeOK, Measured, OnTheWay, Outlasts, Covered
<1>10. QED BY <1>1, <1>2, <1>3, <1>4, <1>5, <1>6, <1>7, <1>8, <1>9 DEF Next, Update

LEMMA TimedHolds == Spec => []Timed
BY InitIsTimed, StepIsTimed, PTL DEF Spec

\* The timeout stays between the limits of the protocol, whatever the link is,
\* before anything is measured, and whatever the setters are called with.
THEOREM TimeoutStaysInLimits == Spec => []TypeOK
<1>1. Timed => TypeOK BY DEF Timed
<1>2. QED BY <1>1, TimedHolds, PTL

\* The timer of a segment does not expire before an acknowledgement of it that
\* is under way can have come, if the timeout was computed with an interval no
\* shorter than MaxPause, the longest pause between two calls of update(), and
\* has not been backed off over half the clock.  It is for the application to
\* keep to the second: the constructor leaves the interval at 0.
THEOREM TimeoutsAreNotSpurious == Spec => NoSpuriousTimeout
<1>1. ASSUME Timed
      PROVE  [~(ExpiresEarly /\ segment.granularity >= MaxPause)]_vars
  <2>1. SUFFICES ASSUME ExpiresEarly, segment.granularity >= MaxPause PROVE FALSE
    OBVIOUS
  <2>2. Resend /\ segment.steady BY <2>1 DEF ExpiresEarly
  <2>3. TimedOut /\ Covered BY <2>1, <2>2 DEF Resend, Covered
  <2>4. PICK ack \in acks : ack.own /\ ack.age < round_trip BY <2>1 DEF ExpiresEarly
  <2>5. ack.age = round_trip BY <1>1, <2>3, <2>4, CoveredRuns
  <2>6. QED BY <1>1, <2>4, <2>5, Types
<1>2. QED BY <1>1, TimedHolds, PTL DEF NoSpuriousTimeout

=============================================================================

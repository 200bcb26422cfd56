------------------------- MODULE RetransmissionTimer -------------------------
(***************************************************************************)
(* One segment in flight on a steady link: measuring the round trip with a *)
(* clock that moves only in update(), the timeout computed from it, and    *)
(* the timer of the segment, which backs off without limit and wraps.      *)
(*                                                                         *)
(* Times are kept relative to now: lag is how long ago update() was called *)
(* last (input() measures with that clock), wait how long until it flushes *)
(* next, left how long until the timer of the segment expires, an age how  *)
(* long ago a copy of the segment was sent.                                *)
(***************************************************************************)
EXTENDS RtoCalculator, FiniteSets

CONSTANTS
  IKCP_INTERVAL, \* SharedCtx::interval until set_interval() is called
  MaxInterval,  \* set_interval() clamps its argument to this (5000 ms)
  Intervals,    \* arguments of set_interval(), clamped
  MaxPause,     \* longest pause between two calls of update()
  MaxLate,      \* longest delay of update() when a flush is due
  RoundTrips,   \* bound: round trip times of the link
  NoDelays,     \* arguments of set_nodelay()
  NoSegment     \* stands for a segment when none is in flight

\* The longest interval on top of the largest timeout fits the clock.
ASSUME TimerAssumption ==
  /\ MaxInterval \in Nat /\ MaxPause \in Nat /\ MaxLate \in Nat
  /\ IKCP_INTERVAL \in 1..MaxInterval /\ Intervals \subseteq 1..MaxInterval
  /\ MaxInterval + IKCP_RTO_MAX < ClockMod
  /\ RoundTrips \subseteq 0..(IKCP_RTO_MAX - 1)
  /\ NoDelays \subseteq 0..2

VARIABLES
  round_trip,   \* the round trip time of the link, the same all the time
  interval,     \* SharedCtx::interval
  nodelay,      \* Sender::nodelay
  rc,           \* ImKcpp::rto_calculator
  granularity,  \* history: what the timeout takes for the interval of the
                \* clock since the last measurement, or Unmeasured
  lag,          \* now - ImKcpp::current
  wait,         \* ImKcpp::ts_flush - now
  segment,      \* the segment in flight, or NoSegment
  acks          \* the acknowledgements that will arrive

configVars == <<round_trip, interval, nodelay, rc, granularity>>
vars == <<configVars, lag, wait, segment, acks>>

Half == ClockMod \div 2

Unmeasured == -1

\* A segment in flight: its timeout, the time its timer still has to run, and
\* (history) the granularity when it was sent first, and whether its timeout
\* has stayed below half the clock.
Segment ==
  [rto : 0..(ClockMod - 1), left : -Half..(Half - 1),
   granularity : Nat \union {Unmeasured}, steady : BOOLEAN]

ASSUME NoSegmentAssumption == NoSegment \notin Segment

\* static_cast<i32> of a difference of clocks.
Signed(x) ==
  LET u == x % ClockMod IN IF u < Half THEN u ELSE u - ClockMod

\* An acknowledgement is known by the time since its segment was sent, and
\* whether that was the segment now in flight.
Ack == [age : Nat, own : BOOLEAN]

Fresh == {[age |-> 0, own |-> TRUE]}

-----------------------------------------------------------------------------
(* update() and flush_data_segments().                                     *)

\* A flush is due when ts_flush has come; the next one is an interval later,
\* or an interval from now when that has passed too.
Flushes ==
  /\ wait <= 0
  /\ wait' = IF wait + interval > 0 THEN wait + interval ELSE interval
  /\ lag' = 0
  /\ UNCHANGED configVars

\* The acknowledgement of this transmission arrives, or it or the data is lost.
Transmitted == acks' = acks \/ acks' = acks \union Fresh

rtomin == IF nodelay = 0 THEN rc.rto \div 8 ELSE 0

\* prepare_for_first_send().
Send ==
  /\ segment = NoSegment
  /\ segment' = [rto |-> rc.rto, left |-> Signed(rc.rto + rtomin),
                 granularity |-> granularity, steady |-> TRUE]
  /\ Transmitted
  /\ Flushes

\* Faulty variant: the timer must be met exactly.
TimedOut_Exactly == segment # NoSegment /\ segment.left = 0

TimedOut == segment # NoSegment /\ segment.left <= 0

\* What prepare_segment_for_resend() adds to the timeout of the segment.
Step ==
  CASE nodelay = 0 -> Larger(segment.rto, rc.rto)
    [] nodelay = 1 -> segment.rto \div 2
    [] nodelay = 2 -> rc.rto \div 2

\* The width of the timeout is all that limits it.
Resend ==
  LET rto == (segment.rto + Step) % ClockMod IN
  /\ TimedOut
  /\ segment' = [rto |-> rto, left |-> Signed(rto),
                 granularity |-> segment.granularity,
                 steady |-> segment.steady /\ segment.rto + Step < Half]
  /\ Transmitted
  /\ Flushes

FlushNothing == ~TimedOut /\ Flushes /\ UNCHANGED <<segment, acks>>

UpdateOnly ==
  /\ wait > 0
  /\ lag' = 0
  /\ UNCHANGED <<configVars, wait, segment, acks>>

Update == Send \/ Resend \/ FlushNothing \/ UpdateOnly

LeastRto(value) == IF value > 0 THEN IKCP_RTO_NDL ELSE IKCP_RTO_MIN

\* set_nodelay(): the timeout follows the new minimum at the next measurement.
SetNoDelay(value) ==
  /\ nodelay' = value
  /\ rc' = SetMinRto(rc, LeastRto(value))
  /\ UNCHANGED <<round_trip, interval, granularity, lag, wait, segment, acks>>

\* set_interval(): the next flush keeps its time, the timeout its value.
ConfigureInterval(value) ==
  /\ interval' = value
  /\ rc' = SetInterval(rc, value)
  /\ UNCHANGED <<round_trip, nodelay, granularity, lag, wait, segment, acks>>

-----------------------------------------------------------------------------
(* input() of an acknowledgement: it carries the time its own copy was     *)
(* sent, so every one is a measurement.                                    *)

Receive(ack) ==
  /\ rc' = UpdateRto(rc, ack.age - lag)
  /\ granularity' = rc.interval
  /\ segment' = IF ack.own THEN NoSegment ELSE segment
  /\ acks' = {[age |-> k.age, own |-> k.own /\ ~ack.own] : k \in acks \ {ack}}
  /\ UNCHANGED <<round_trip, interval, nodelay, lag, wait>>

Arrive == \E ack \in acks : ack.age = round_trip /\ Receive(ack)

-----------------------------------------------------------------------------
(* Time passes, but the network is never late, and update() no later than  *)
(* the application allows.                                                 *)

Tick ==
  /\ lag < MaxPause
  /\ wait > -MaxLate
  /\ \A ack \in acks : ack.age < round_trip
  /\ lag' = lag + 1
  /\ wait' = wait - 1
  /\ acks' = {[age |-> k.age + 1, own |-> k.own] : k \in acks}
  /\ segment' = IF segment = NoSegment THEN NoSegment
                ELSE [segment EXCEPT !.left = Signed(@ - 1)]
  /\ UNCHANGED configVars

\* The members as the classes initialise them: the constructor calls neither
\* set_interval() nor set_nodelay().
Init ==
  /\ round_trip \in RoundTrips
  /\ interval = IKCP_INTERVAL
  /\ nodelay = 0
  /\ rc = NewCalculator
  /\ granularity = Unmeasured
  /\ lag = 0
  /\ wait = 0
  /\ segment = NoSegment
  /\ acks = {}

Next ==
  \/ Update \/ Arrive \/ Tick
  \/ \E value \in NoDelays : SetNoDelay(value)
  \/ \E value \in Intervals : ConfigureInterval(value)

Spec == Init /\ [][Next]_vars

\* Time passes, and the application calls update() and input() in time.
FairSpec == Spec /\ WF_vars(Update) /\ WF_vars(Arrive) /\ WF_vars(Tick)

-----------------------------------------------------------------------------
(* Properties.                                                             *)

\* The timeout stays between the limits of the protocol, whatever is measured,
\* before anything is measured and whatever the setters have been called with.
TypeOK ==
  /\ round_trip \in RoundTrips
  /\ interval \in 1..MaxInterval /\ nodelay \in 0..2
  /\ rc \in Calculator
  /\ rc.rto \in IKCP_RTO_NDL..IKCP_RTO_MAX
  /\ granularity \in Nat \union {Unmeasured}
  /\ lag \in 0..MaxPause /\ wait \in -MaxPause..MaxInterval
  /\ segment \in Segment \union {NoSegment}
  /\ acks \subseteq Ack

\* The timer expires before the acknowledgement of its segment, which is under
\* way, has come.
ExpiresEarly ==
  Resend /\ segment.steady /\ \E ack \in acks : ack.own /\ ack.age < round_trip

\* A segment is not sent again by the timer before its acknowledgement can
\* arrive: the interval, which is part of the timeout, makes up for what the
\* clock of input() is behind.  Three hypotheses: the link had been measured
\* when the segment was sent first; the interval that the calculator had been
\* given by then is no shorter than any pause between two calls of update();
\* and backing off has not taken the timeout over half the clock, where it
\* expires at once.
NoSpuriousTimeout ==
  [][~(ExpiresEarly /\ segment.granularity >= MaxPause)]_vars

\* "RTO = SRTT + max(G, K * RTTVAR)", where G is the interval of the clock:
\* on a measured link the same holds if the pauses are no longer than the
\* interval that is in force, whether or not set_interval() has been called.
NoSpuriousTimeoutByDefault ==
  [][~(/\ ExpiresEarly
       /\ segment.granularity # Unmeasured
       /\ interval >= MaxPause)]_vars

\* A segment in flight is sent again and again until it is acknowledged,
\* even when its timeout wraps around.
LostSegmentIsRetried ==
  []<>(segment = NoSegment) \/ []<><<Resend>>_vars

=============================================================================

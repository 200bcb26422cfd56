---------------------------- MODULE RtoCalculator ----------------------------
(***************************************************************************)
(* rto_calculator.hpp: the retransmission timeout as a function of what    *)
(* has been measured.  A calculator is a record of its integers; they have *)
(* the width of u32, ClockMod values.                                      *)
(***************************************************************************)
EXTENDS Integers

CONSTANTS
  ClockMod,       \* number of values of an u32: 2^32
  IKCP_RTO_NDL,   \* least timeout with nodelay (30 ms)
  IKCP_RTO_MIN,   \* least timeout without (100 ms)
  IKCP_RTO_DEF,   \* timeout before the first measurement (200 ms)
  IKCP_RTO_MAX    \* largest timeout (60000 ms)

\* Eight times the largest timeout fits the width, as in constants.hpp, and
\* the width is a power of two.
ASSUME RtoAssumption ==
  /\ ClockMod \in Nat /\ IKCP_RTO_NDL \in Nat /\ IKCP_RTO_MIN \in Nat
  /\ IKCP_RTO_DEF \in Nat /\ IKCP_RTO_MAX \in Nat
  /\ 0 < IKCP_RTO_NDL /\ IKCP_RTO_NDL <= IKCP_RTO_MIN
  /\ IKCP_RTO_MIN <= IKCP_RTO_DEF /\ IKCP_RTO_DEF <= IKCP_RTO_MAX
  /\ 8 * IKCP_RTO_MAX < ClockMod /\ ClockMod % 2 = 0

Calculator ==
  [interval : Nat, srtt : Nat, rttvar : Nat, rto : Nat, minrto : Nat]

\* The members as the class initialises them: its interval is 0.
NewCalculator ==
  [interval |-> 0, srtt |-> 0, rttvar |-> 0, rto |-> IKCP_RTO_DEF,
   minrto |-> IKCP_RTO_MIN]

Larger(x, y) == IF x >= y THEN x ELSE y

Clamp(x, low, high) == IF x < low THEN low ELSE IF x > high THEN high ELSE x

SetInterval(rc, interval) == [rc EXCEPT !.interval = interval]

SetMinRto(rc, minrto) == [rc EXCEPT !.minrto = minrto]

Distance(x, y) == IF x >= y THEN x - y ELSE y - x

\* srtt and rttvar after a measurement.
Smoothed(rc, rtt) ==
  IF rc.srtt = 0
  THEN [rc EXCEPT !.srtt = rtt, !.rttvar = rtt \div 2]
  ELSE [rc EXCEPT
          !.srtt = ((7 * rc.srtt + rtt) % ClockMod) \div 8,
          !.rttvar = ((3 * rc.rttvar + Distance(rtt, rc.srtt)) % ClockMod) \div 4]

\* Faulty variant: the least timeout is not enforced.
UpdateRto_NoMinimum(rc, rtt) ==
  LET s == Smoothed(rc, rtt)
      rto == (s.srtt + Larger(s.interval, (4 * s.rttvar) % ClockMod)) % ClockMod
  IN  [s EXCEPT !.rto = Clamp(rto, 0, IKCP_RTO_MAX)]

\* Faulty variant: the variation alone is added to the round trip.
UpdateRto_NoInterval(rc, rtt) ==
  LET s == Smoothed(rc, rtt)
      rto == (s.srtt + ((4 * s.rttvar) % ClockMod)) % ClockMod
  IN  [s EXCEPT !.rto = Clamp(rto, s.minrto, IKCP_RTO_MAX)]

\* update_rto() with a round trip time that is not negative.
UpdateRto(rc, rtt) ==
  LET s == Smoothed(rc, rtt)
      rto == (s.srtt + Larger(s.interval, (4 * s.rttvar) % ClockMod)) % ClockMod
  IN  [s EXCEPT !.rto = Clamp(rto, s.minrto, IKCP_RTO_MAX)]

=============================================================================

---------------------------- MODULE CongestionProofs ----------------------------
(***************************************************************************)
(* Proofs about CongestionEvents: the congestion window stays consistent   *)
(* and open for every segment size, window and order of events.            *)
(***************************************************************************)
EXTENDS CongestionEvents, NumberLemmas

\* What WindowMatchesIncr says of any value of the congestion window.
Consistent(c) == (c.cwnd - 1) * MSS < c.incr /\ c.incr < (c.cwnd + 1) * MSS

LEMMA OpenedIsConsistent ==
  ASSUME NEW c \in Congestion, NEW w \in Nat
  PROVE  /\ Opened(c, w) \in Congestion /\ Consistent(Opened(c, w))
         /\ Opened(c, w).cwnd = w
<1>1. MSS \in Nat \ {0}
  BY CongestionAssumption
<1>2. w * MSS \in Nat
  BY <1>1, ProductOfNaturals
<1>3. /\ Opened(c, w) \in Congestion
      /\ Opened(c, w).cwnd = w /\ Opened(c, w).incr = w * MSS
  BY <1>2 DEF Opened, Congestion
<1>4. (w - 1) * MSS = w * MSS - MSS /\ (w + 1) * MSS = w * MSS + MSS
  BY <1>1, ProductSteps
<1>5. QED BY <1>1, <1>2, <1>3, <1>4 DEF Consistent

LEMMA ResentIsConsistent ==
  ASSUME NEW c \in Congestion, NEW n \in Nat, NEW resent \in Nat
  PROVE  /\ PacketsResent(c, n, resent) \in Congestion
         /\ Consistent(PacketsResent(c, n, resent))
<1> DEFINE half == Max({n \div 2, IKCP_THRESH_MIN})
<1>1. half \in Nat
  <2>1. n \div 2 \in Nat /\ IKCP_THRESH_MIN \in Nat
    BY CongestionAssumption
  <2>2. n \div 2 \in Int /\ IKCP_THRESH_MIN \in Int
    BY <2>1
  <2>3. half \in {n \div 2, IKCP_THRESH_MIN}
    BY <2>2, MaxOfTwo, Zenon
  <2>4. QED BY <2>1, <2>3
<1> HIDE DEF half
<1>2. [c EXCEPT !.ssthresh = half] \in Congestion /\ half + resent \in Nat
  BY <1>1 DEF Congestion
<1>3. QED BY <1>2, OpenedIsConsistent DEF PacketsResent, half

LEMMA LostIsConsistent ==
  ASSUME NEW c \in Congestion
  PROVE  PacketLost(c) \in Congestion /\ Consistent(PacketLost(c))
<1> DEFINE half == Max({c.cwnd \div 2, IKCP_THRESH_MIN})
<1>1. half \in Nat
  <2>1. c.cwnd \div 2 \in Nat /\ IKCP_THRESH_MIN \in Nat
    BY CongestionAssumption DEF Congestion
  <2>2. c.cwnd \div 2 \in Int /\ IKCP_THRESH_MIN \in Int
    BY <2>1
  <2>3. half \in {c.cwnd \div 2, IKCP_THRESH_MIN}
    BY <2>2, MaxOfTwo, Zenon
  <2>4. QED BY <2>1, <2>3
<1> HIDE DEF half
<1>2. [c EXCEPT !.ssthresh = half] \in Congestion
  BY <1>1 DEF Congestion
<1>3. QED BY <1>2, OpenedIsConsistent DEF PacketLost, half

LEMMA SlowStartIsConsistent ==
  ASSUME NEW c \in Congestion, Consistent(c)
  PROVE  /\ SlowStart(c) \in Congestion /\ Consistent(SlowStart(c))
         /\ SlowStart(c).cwnd = c.cwnd + 1
<1>1. MSS \in Nat \ {0} /\ c.cwnd \in Nat /\ c.incr \in Nat
  BY CongestionAssumption DEF Congestion
<1>2. /\ SlowStart(c) \in Congestion
      /\ SlowStart(c).cwnd = c.cwnd + 1 /\ SlowStart(c).incr = c.incr + MSS
  <2>1. c = [cwnd |-> c.cwnd, ssthresh |-> c.ssthresh, incr |-> c.incr]
        /\ c.ssthresh \in Nat
    BY DEF Congestion
  <2>2. SlowStart(c) = [cwnd |-> c.cwnd + 1, ssthresh |-> c.ssthresh,
                        incr |-> c.incr + MSS]
    <3>1. [c EXCEPT !.cwnd = c.cwnd + 1].incr = c.incr
      BY <2>1
    <3>2. SlowStart(c) = [c EXCEPT !.cwnd = c.cwnd + 1, !.incr = c.incr + MSS]
      BY <2>1, <3>1 DEF SlowStart
    <3>3. QED BY <2>1, <3>2
  <2>3. QED BY <1>1, <2>1, <2>2 DEF Congestion
<1>3. /\ (c.cwnd - 1) * MSS = c.cwnd * MSS - MSS
      /\ (c.cwnd + 1) * MSS = c.cwnd * MSS + MSS
      /\ c.cwnd * MSS \in Int
  BY <1>1, ProductSteps
<1>4. /\ (c.cwnd + 1 + 1) * MSS = (c.cwnd + 1) * MSS + MSS
      /\ (c.cwnd + 1 - 1) * MSS = (c.cwnd + 1) * MSS - MSS
  BY <1>1, ProductSteps
<1>5. QED BY <1>1, <1>2, <1>3, <1>4 DEF Consistent

LEMMA AvoidanceIsConsistent ==
  ASSUME NEW c \in Congestion, Consistent(c)
  PROVE  /\ CongestionAvoidance(c) \in Congestion
         /\ Consistent(CongestionAvoidance(c))
         /\ CongestionAvoidance(c).cwnd >= c.cwnd
<1> DEFINE base == Max({c.incr, MSS})
           incr == base + (MSS * MSS) \div base + MSS \div 16
           rounded == (incr + MSS - 1) \div MSS
           next == CongestionAvoidance(c)
<1>1. MSS \in Nat \ {0} /\ c.cwnd \in Nat /\ c.incr \in Nat
  BY CongestionAssumption DEF Congestion
<1>2. base \in Nat \ {0} /\ base >= c.incr
  <2>1. c.incr \in Int /\ MSS \in Int
    BY <1>1
  <2>2. base \in {c.incr, MSS} /\ base >= c.incr /\ base >= MSS
    BY <2>1, MaxOfTwo, Zenon
  <2>3. QED BY <1>1, <2>2
<1> HIDE DEF base
<1>3. (MSS * MSS) \div base \in Nat /\ MSS \div 16 \in Nat
  <2>1. MSS * MSS \in Nat BY <1>1, ProductOfNaturals
  <2>2. QED BY <1>1, <1>2, <2>1, Quotient
<1>4. incr \in Nat /\ incr >= c.incr
  BY <1>1, <1>2, <1>3
<1>5. /\ next.incr = incr
      /\ next.cwnd = IF (c.cwnd + 1) * MSS <= incr THEN rounded ELSE c.cwnd
      /\ next.ssthresh = c.ssthresh
      /\ next = [cwnd |-> next.cwnd, ssthresh |-> next.ssthresh,
                 incr |-> next.incr]
  <2>1. c = [cwnd |-> c.cwnd, ssthresh |-> c.ssthresh, incr |-> c.incr]
    BY DEF Congestion
  <2>2. next = [c EXCEPT !.incr = incr,
                         !.cwnd = IF (c.cwnd + 1) * MSS <= incr
                                  THEN rounded ELSE c.cwnd]
    BY DEF CongestionAvoidance, base
  <2> HIDE DEF next, incr, rounded
  <2>3. QED BY <2>1, <2>2
<1> HIDE DEF incr, next
<1>6. c.ssthresh \in Nat
  BY DEF Congestion
<1>7. CASE (c.cwnd + 1) * MSS <= incr
  <2>1. incr + MSS - 1 \in Nat
    BY <1>1, <1>4
  <2>2. /\ rounded \in Nat
        /\ rounded * MSS <= incr + MSS - 1
        /\ incr + MSS - 1 < rounded * MSS + MSS
    BY <1>1, <2>1, Quotient
  <2> HIDE DEF rounded
  <2>3. /\ (rounded - 1) * MSS = rounded * MSS - MSS
        /\ (rounded + 1) * MSS = rounded * MSS + MSS
        /\ rounded * MSS \in Int
    BY <1>1, <2>2, ProductSteps
  <2>4. (rounded - 1) * MSS < incr /\ incr < (rounded + 1) * MSS
    BY <1>1, <1>4, <2>2, <2>3
  <2>5. rounded >= c.cwnd
    <3>1. (c.cwnd + 1) * MSS < (rounded + 1) * MSS
      <4>1. (c.cwnd + 1) * MSS \in Int /\ (rounded + 1) * MSS \in Int
        BY <1>1, <2>2
      <4>2. QED BY <1>4, <1>7, <2>4, <4>1
    <3>2. QED BY <1>1, <2>2, <3>1
  <2>6. QED BY <1>4, <1>5, <1>6, <1>7, <2>2, <2>4, <2>5 DEF Consistent, Congestion, next
<1>8. CASE ~((c.cwnd + 1) * MSS <= incr)
  <2>1. (c.cwnd + 1) * MSS \in Int /\ (c.cwnd - 1) * MSS \in Int
    BY <1>1
  <2>2. (c.cwnd - 1) * MSS < incr /\ incr < (c.cwnd + 1) * MSS
    BY <1>1, <1>4, <1>8, <2>1 DEF Consistent
  <2>3. QED BY <1>1, <1>4, <1>5, <1>6, <1>8, <2>2 DEF Consistent, Congestion, next
<1>9. QED BY <1>7, <1>8

\* An acknowledgement keeps the window consistent and never closes it.
LEMMA AdjustIsConsistent ==
  ASSUME NEW c \in Congestion, Consistent(c), NEW rmt \in Nat
  PROVE  /\ AdjustParameters(c, rmt) \in Congestion
         /\ Consistent(AdjustParameters(c, rmt))
         /\ AdjustParameters(c, rmt).cwnd >= c.cwnd
<1> DEFINE grown == IF c.cwnd < c.ssthresh THEN SlowStart(c)
                    ELSE CongestionAvoidance(c)
<1>1. c.cwnd \in Nat
  BY DEF Congestion
<1>2. grown \in Congestion /\ Consistent(grown) /\ grown.cwnd >= c.cwnd
  <2>1. CASE c.cwnd < c.ssthresh
    <3>1. SlowStart(c).cwnd >= c.cwnd
      BY <1>1, SlowStartIsConsistent
    <3>2. QED BY <2>1, <3>1, SlowStartIsConsistent
  <2>2. CASE ~(c.cwnd < c.ssthresh)
    BY <2>2, AvoidanceIsConsistent
  <2>3. QED BY <2>1, <2>2
<1>3. AdjustParameters(c, rmt) =
        IF c.cwnd >= rmt THEN c
        ELSE IF grown.cwnd > rmt THEN Opened(grown, rmt) ELSE grown
  BY DEF AdjustParameters
<1> HIDE DEF grown
<1>4. CASE c.cwnd >= rmt
  BY <1>1, <1>3, <1>4
<1>5. CASE ~(c.cwnd >= rmt) /\ grown.cwnd > rmt
  BY <1>1, <1>2, <1>3, <1>5, OpenedIsConsistent
<1>6. CASE ~(c.cwnd >= rmt) /\ ~(grown.cwnd > rmt)
  BY <1>1, <1>2, <1>3, <1>6
<1>7. QED BY <1>4, <1>5, <1>6

LEMMA EnsureIsConsistent ==
  ASSUME NEW c \in Congestion, Consistent(c)
  PROVE  /\ EnsureAtLeastOne(c) \in Congestion
         /\ Consistent(EnsureAtLeastOne(c))
         /\ EnsureAtLeastOne(c).cwnd >= 1
<1>1. c.cwnd \in Nat
  BY DEF Congestion
<1>2. CASE c.cwnd < 1
  <2>1. EnsureAtLeastOne(c) = Opened(c, 1)
    BY <1>2 DEF EnsureAtLeastOne
  <2>2. 1 \in Nat
    OBVIOUS
  <2>3. /\ Opened(c, 1) \in Congestion /\ Consistent(Opened(c, 1))
        /\ Opened(c, 1).cwnd = 1
    BY <2>2, OpenedIsConsistent
  <2>4. QED BY <2>1, <2>3
<1>3. CASE ~(c.cwnd < 1)
  BY <1>1, <1>3 DEF EnsureAtLeastOne
<1>4. QED BY <1>2, <1>3

LEMMA AfterFlushIsConsistent ==
  ASSUME cc \in Congestion, WindowMatchesIncr,
         NEW n \in Nat, NEW fast \in BOOLEAN, NEW lost \in BOOLEAN, NEW f \in Nat
  PROVE  /\ AfterFlush(n, fast, lost, f) \in Congestion
         /\ Consistent(AfterFlush(n, fast, lost, f))
         /\ AfterFlush(n, fast, lost, f).cwnd >= 1
<1> DEFINE resent == IF fast THEN PacketsResent(cc, n, f) ELSE cc
           then == IF lost THEN PacketLost(resent) ELSE resent
<1>1. resent \in Congestion /\ Consistent(resent)
  BY ResentIsConsistent DEF WindowMatchesIncr, Consistent
<1> HIDE DEF resent
<1>2. then \in Congestion /\ Consistent(then)
  BY <1>1, LostIsConsistent
<1>3. AfterFlush(n, fast, lost, f) = EnsureAtLeastOne(then)
  BY DEF AfterFlush, resent
<1> HIDE DEF then
<1>4. QED BY <1>2, <1>3, EnsureIsConsistent

-----------------------------------------------------------------------------

\* The inductive invariant: after the first flush the window is open.
Invariant ==
  /\ TypeOK
  /\ WindowMatchesIncr
  /\ updated => cc.cwnd >= 1

LEMMA InvariantInit == Init => Invariant
<1>1. ASSUME Init PROVE Invariant
  <2>1. cc = [cwnd |-> 0, ssthresh |-> IKCP_THRESH_INIT, incr |-> 0]
        /\ rmt_wnd = snd_wnd /\ snd_wnd \in Nat \ {0}
        /\ congestion_window = TRUE /\ updated = FALSE
    BY <1>1, EventsAssumption DEF Init, InitialCongestion
  <2>2. MSS \in Nat \ {0} /\ IKCP_THRESH_INIT \in Nat
    BY CongestionAssumption
  <2>3. (0 - 1) * MSS = 0 * MSS - MSS /\ (0 + 1) * MSS = 0 * MSS + MSS
        /\ 0 * MSS = 0
    BY <2>2, ProductSteps
  <2>4. WindowMatchesIncr
    BY <2>1, <2>2, <2>3 DEF WindowMatchesIncr
  <2>5. QED BY <2>1, <2>2, <2>4 DEF Invariant, TypeOK, Congestion
<1>2. QED BY <1>1

LEMMA InvariantStep == Invariant /\ [Next]_vars => Invariant'
<1> SUFFICES ASSUME Invariant, [Next]_vars PROVE Invariant'
  OBVIOUS
<1>1. cc \in Congestion /\ Consistent(cc) /\ cc.cwnd \in Nat
  BY DEF Invariant, TypeOK, WindowMatchesIncr, Consistent, Congestion
<1>2. RemoteWindow \subseteq Nat /\ MaxInFlight \in Nat
      /\ SendWindow \subseteq Nat \ {0} /\ FastResend \subseteq Nat
  BY EventsAssumption
<1>3. ASSUME NEW wnd \in RemoteWindow, Ack(wnd) PROVE Invariant'
  <2>1. /\ cc' \in Congestion /\ Consistent(cc') /\ cc'.cwnd >= cc.cwnd
        /\ rmt_wnd' \in Nat /\ updated' = updated /\ UNCHANGED configVars
    BY <1>1, <1>2, <1>3, AdjustIsConsistent DEF Ack
  <2>2. cc'.cwnd \in Nat
    BY <2>1 DEF Congestion
  <2>3. QED BY <1>1, <2>1, <2>2
    DEF Invariant, TypeOK, WindowMatchesIncr, Consistent, configVars
<1>4. ASSUME NEW wnd \in RemoteWindow, Announce(wnd) PROVE Invariant'
  BY <1>2, <1>4 DEF Announce, configVars, Invariant, TypeOK, WindowMatchesIncr
<1>5. ASSUME NEW n \in 0..MaxInFlight, NEW fast \in BOOLEAN,
             NEW lost \in BOOLEAN, NEW f \in FastResend, Flush(n, fast, lost, f)
      PROVE  Invariant'
  <2>1. n \in Nat /\ f \in Nat
    BY <1>2
  <2>2. /\ cc' \in Congestion /\ Consistent(cc') /\ cc'.cwnd >= 1
        /\ rmt_wnd' = rmt_wnd /\ updated' = TRUE /\ UNCHANGED configVars
    BY <1>1, <1>5, <2>1, AfterFlushIsConsistent DEF Flush, Invariant
  <2>3. QED BY <2>2 DEF Invariant, TypeOK, WindowMatchesIncr, Consistent, configVars
<1>6. ASSUME NEW n \in SendWindow, SetSendWindow(n) PROVE Invariant'
  BY <1>2, <1>6 DEF SetSendWindow, Invariant, TypeOK, WindowMatchesIncr
<1>7. ASSUME NEW state \in BOOLEAN, SetCongestionWindowEnabled(state)
      PROVE  Invariant'
  BY <1>7 DEF SetCongestionWindowEnabled, Invariant, TypeOK, WindowMatchesIncr
<1>8. CASE UNCHANGED vars
  BY <1>8 DEF vars, configVars, Invariant, TypeOK, WindowMatchesIncr
<1>9. QED BY <1>3, <1>4, <1>5, <1>6, <1>7, <1>8 DEF Next

LEMMA InvariantHolds == Spec => []Invariant
BY InvariantInit, InvariantStep, PTL DEF Spec

\* cwnd and incr never drift apart by a segment, whatever the segment size.
THEOREM WindowAlwaysMatchesIncr == Spec => []WindowMatchesIncr
<1>1. Invariant => WindowMatchesIncr
  BY DEF Invariant
<1>2. QED BY <1>1, InvariantHolds, PTL

\* Once update() has been called, an open remote window is never starved.
THEOREM NeverStarvesHolds == Spec => []NeverStarves
<1>1. Invariant => NeverStarves
  <2> SUFFICES ASSUME Invariant, updated, rmt_wnd > 0
               PROVE  CalculateCongestionWindow(cc, snd_wnd, rmt_wnd, congestion_window) > 0
    BY DEF NeverStarves
  <2> DEFINE limits == {snd_wnd, rmt_wnd} \union {w \in {cc.cwnd} : congestion_window}
  <2>1. cc.cwnd \in Nat \ {0} /\ rmt_wnd \in Nat \ {0} /\ snd_wnd \in Nat \ {0}
    BY DEF Invariant, TypeOK, Congestion
  <2>2. limits \in SUBSET Nat /\ limits # {} /\ \A x \in limits : x > 0
    BY <2>1
  <2> HIDE DEF limits
  <2>3. Min(limits) \in limits
    BY <2>2, MinOfNaturals
  <2>4. QED BY <2>2, <2>3 DEF CalculateCongestionWindow, limits
<1>2. QED BY <1>1, InvariantHolds, PTL

-----------------------------------------------------------------------------
(* How fast the window opens.                                              *)

\* The threshold of the slow start: a window of 0 is always below it.
Threshold == cc.ssthresh >= 1

LEMMA OpenedKeepsThreshold ==
  ASSUME NEW c \in Congestion, NEW w
  PROVE  Opened(c, w).ssthresh = c.ssthresh
BY DEF Opened, Congestion

LEMMA HalfIsPositive ==
  ASSUME NEW c \in Congestion, NEW n \in Nat
  PROVE  LET half == Max({n \div 2, IKCP_THRESH_MIN})
         IN  half >= 1 /\ [c EXCEPT !.ssthresh = half] \in Congestion
             /\ [c EXCEPT !.ssthresh = half].ssthresh = half
<1> DEFINE half == Max({n \div 2, IKCP_THRESH_MIN})
<1>1. n \div 2 \in Int /\ IKCP_THRESH_MIN \in Int /\ IKCP_THRESH_MIN >= 1
  BY CongestionAssumption
<1>2. half \in {n \div 2, IKCP_THRESH_MIN} /\ half >= IKCP_THRESH_MIN
  BY <1>1, MaxOfTwo, Zenon
<1>3. half \in Nat /\ half >= 1 BY <1>1, <1>2
<1> HIDE DEF half
<1>4. [c EXCEPT !.ssthresh = half] \in Congestion
      /\ [c EXCEPT !.ssthresh = half].ssthresh = half
  BY <1>3 DEF Congestion
<1>5. QED BY <1>3, <1>4 DEF half

LEMMA ThresholdInit == Init => Threshold
BY CongestionAssumption DEF Init, InitialCongestion, Threshold

LEMMA AdjustKeepsThreshold ==
  ASSUME NEW c \in Congestion, Consistent(c), NEW rmt \in Nat
  PROVE  AdjustParameters(c, rmt).ssthresh = c.ssthresh
<1>1. SlowStart(c) \in Congestion /\ SlowStart(c).ssthresh = c.ssthresh
  <2>1. SlowStart(c).ssthresh = c.ssthresh BY DEF SlowStart, Congestion
  <2>2. QED BY <2>1, SlowStartIsConsistent
<1>2. CongestionAvoidance(c) \in Congestion
      /\ CongestionAvoidance(c).ssthresh = c.ssthresh
  <2>1. CongestionAvoidance(c).ssthresh = c.ssthresh
    BY DEF CongestionAvoidance, Congestion
  <2>2. QED BY <2>1, AvoidanceIsConsistent
<1>3. QED BY <1>1, <1>2, OpenedKeepsThreshold DEF AdjustParameters

LEMMA ThresholdStep == Invariant /\ Threshold /\ [Next]_vars => Threshold'
<1> SUFFICES ASSUME Invariant, Threshold, [Next]_vars PROVE Threshold'
  OBVIOUS
<1>1. cc \in Congestion /\ Consistent(cc) /\ cc.cwnd \in Nat
  BY DEF Invariant, TypeOK, WindowMatchesIncr, Consistent, Congestion
<1>2. RemoteWindow \subseteq Nat /\ MaxInFlight \in Nat /\ FastResend \subseteq Nat
  BY EventsAssumption
<1>3. ASSUME NEW wnd \in RemoteWindow, Ack(wnd) PROVE Threshold'
  <2>1. cc' = AdjustParameters(cc, wnd) /\ wnd \in Nat BY <1>2, <1>3 DEF Ack
  <2>2. cc'.ssthresh = cc.ssthresh BY <1>1, <2>1, AdjustKeepsThreshold
  <2>3. QED BY <2>2 DEF Threshold
<1>4. ASSUME NEW n \in 0..MaxInFlight, NEW fast \in BOOLEAN,
             NEW lost \in BOOLEAN, NEW f \in FastResend, Flush(n, fast, lost, f)
      PROVE  Threshold'
  <2> DEFINE resent == IF fast THEN PacketsResent(cc, n, f) ELSE cc
             then == IF lost THEN PacketLost(resent) ELSE resent
  <2>1. n \in Nat /\ f \in Nat BY <1>2
  <2>2. resent \in Congestion /\ resent.ssthresh >= 1
    <3>1. PacketsResent(cc, n, f) \in Congestion BY <1>1, <2>1, ResentIsConsistent
    <3>2. PacketsResent(cc, n, f).ssthresh >= 1
      <4> DEFINE half == Max({n \div 2, IKCP_THRESH_MIN})
                 d == [cc EXCEPT !.ssthresh = half]
      <4>1. half >= 1 /\ d \in Congestion /\ d.ssthresh = half
        BY <1>1, <2>1, HalfIsPositive
      <4>2. PacketsResent(cc, n, f) = Opened(d, half + f) BY DEF PacketsResent
      <4> HIDE DEF half, d
      <4>3. QED BY <4>1, <4>2, OpenedKeepsThreshold
    <3>3. QED BY <1>1, <3>1, <3>2 DEF Threshold
  <2> HIDE DEF resent
  <2>3. then \in Congestion /\ then.ssthresh >= 1
    <3>1. resent.cwnd \in Nat BY <2>2 DEF Congestion
    <3>2. PacketLost(resent) \in Congestion BY <2>2, LostIsConsistent
    <3>3. PacketLost(resent).ssthresh >= 1
      <4> DEFINE half == Max({resent.cwnd \div 2, IKCP_THRESH_MIN})
                 d == [resent EXCEPT !.ssthresh = half]
      <4>1. half >= 1 /\ d \in Congestion /\ d.ssthresh = half
        BY <2>2, <3>1, HalfIsPositive
      <4>2. PacketLost(resent) = Opened(d, 1) BY DEF PacketLost
      <4> HIDE DEF half, d
      <4>3. QED BY <4>1, <4>2, OpenedKeepsThreshold
    <3>4. QED BY <2>2, <3>2, <3>3
  <2>4. cc' = EnsureAtLeastOne(then) BY <1>4 DEF Flush, AfterFlush, resent
  <2> HIDE DEF then
  <2>5. cc'.ssthresh = then.ssthresh
    BY <2>3, <2>4, OpenedKeepsThreshold DEF EnsureAtLeastOne
  <2>6. QED BY <2>3, <2>5 DEF Threshold
<1>5. ASSUME cc' = cc PROVE Threshold'
  BY <1>5 DEF Threshold
<1>6. QED
  BY <1>3, <1>4, <1>5
     DEF Next, Announce, SetSendWindow, SetCongestionWindowEnabled, vars

LEMMA ProductGrows ==
  ASSUME NEW a \in Nat, NEW b \in Nat, NEW c \in Nat, a <= b
  PROVE  a * c <= b * c
OBVIOUS

LEMMA ProductTells ==
  ASSUME NEW a \in Nat, NEW b \in Nat, NEW c \in Nat \ {0}, a * c <= b * c
  PROVE  a <= b
OBVIOUS

\* Beyond the slow start the window opens by two segments at most: the steeper
\* incr grows, the smaller it was.
LEMMA AvoidanceIsGradual ==
  ASSUME NEW c \in Congestion, Consistent(c), c.cwnd >= 1
  PROVE  CongestionAvoidance(c).cwnd <= c.cwnd + 2
<1> DEFINE base == Max({c.incr, MSS})
           q == (MSS * MSS) \div base
           incr == base + q + MSS \div 16
           rounded == (incr + MSS - 1) \div MSS
<1>1. MSS \in Nat \ {0} /\ c.cwnd \in Nat /\ c.incr \in Nat
  BY CongestionAssumption DEF Congestion
<1>2. base \in Nat \ {0} /\ base >= MSS /\ (base = MSS \/ base = c.incr)
  <2>1. c.incr \in Int /\ MSS \in Int
    BY <1>1
  <2>2. base \in {c.incr, MSS} /\ base >= c.incr /\ base >= MSS
    BY <2>1, MaxOfTwo, Zenon
  <2>3. QED BY <1>1, <2>2
<1>3. CongestionAvoidance(c).cwnd
        = IF (c.cwnd + 1) * MSS <= incr THEN rounded ELSE c.cwnd
  BY DEF CongestionAvoidance, Congestion
<1> HIDE DEF base
<1> DEFINE square == MSS * MSS
<1>4. square \in Nat BY <1>1, ProductOfNaturals
<1>5. q \in Nat /\ q * base <= square
  <2>1. q = square \div base OBVIOUS
  <2> HIDE DEF square, q
  <2>2. QED BY <1>2, <1>4, <2>1, Quotient
<1> DEFINE small == MSS \div 16
<1>6. small \in Nat /\ 16 * small <= MSS BY <1>1
<1> DEFINE w == c.cwnd * MSS
<1>7. w \in Nat /\ w >= MSS /\ (c.cwnd + 1) * MSS = w + MSS
  <2>1. w \in Nat /\ (c.cwnd + 1) * MSS = w + MSS
    BY <1>1, ProductSteps, ProductOfNaturals
  <2>2. 1 * MSS <= w BY <1>1, ProductGrows
  <2>3. QED BY <1>1, <2>1, <2>2
<1>8. base < w + MSS
  <2>1. c.incr < (c.cwnd + 1) * MSS BY DEF Consistent
  <2> HIDE DEF w
  <2>2. QED BY <1>1, <1>2, <1>7, <2>1
<1>9. base + q + small <= w + 2 * MSS
  <2>1. q <= MSS
    <3>1. q * MSS <= q * base
      <4> HIDE DEF q
      <4>1. MSS * q <= base * q BY <1>1, <1>2, <1>5, ProductGrows
      <4>2. QED BY <1>1, <1>2, <1>5, <4>1
    <3>2. q * MSS <= MSS * MSS
      <4>1. q * MSS \in Nat BY <1>1, <1>5, ProductOfNaturals
      <4>2. q * base \in Nat BY <1>2, <1>5, ProductOfNaturals
      <4> DEFINE x == q * MSS
                 y == q * base
      <4>3. x \in Nat /\ y \in Nat /\ x <= y /\ y <= square BY <3>1, <4>1, <4>2, <1>5
      <4> HIDE DEF x, y, square
      <4>4. x <= square BY <1>4, <4>3
      <4>5. QED BY <4>4 DEF x, square
    <3> HIDE DEF q
    <3>3. QED BY <1>1, <1>5, <3>2, ProductTells
  <2>2. CASE 2 * base < 3 * MSS
    <3> HIDE DEF q, w, small
    <3>1. QED BY <1>1, <1>2, <1>5, <1>6, <1>7, <2>1, <2>2
  <2>3. CASE 2 * base >= 3 * MSS
    <3>1. 3 * q <= 2 * MSS
      <4> HIDE DEF q
      <4>1. (3 * MSS) * q <= (2 * base) * q
        <5>1. 3 * MSS \in Nat /\ 2 * base \in Nat /\ 3 * MSS <= 2 * base
          BY <1>1, <1>2, <2>3
        <5>2. QED BY <1>5, <5>1, ProductGrows
      <4>2. (3 * MSS) * q = (3 * q) * MSS /\ (2 * base) * q = 2 * (q * base)
        BY <1>1, <1>2, <1>5
      <4>3. (2 * MSS) * MSS = 2 * square BY <1>1
      <4>4. q * base \in Nat /\ (3 * q) * MSS \in Nat
        BY <1>1, <1>2, <1>5, ProductOfNaturals
      <4>5. (3 * q) * MSS <= (2 * MSS) * MSS
        <5> DEFINE x == (3 * q) * MSS
                   y == q * base
        <5>1. x <= 2 * y /\ x \in Nat /\ y \in Nat /\ y <= square
          BY <1>5, <4>1, <4>2, <4>4
        <5> HIDE DEF x, y, square
        <5>2. x <= 2 * square BY <1>4, <5>1
        <5>3. QED BY <4>3, <5>2 DEF x
      <4>6. 3 * q \in Nat /\ 2 * MSS \in Nat BY <1>1, <1>5
      <4>7. QED BY <1>1, <4>5, <4>6, ProductTells
    <3> HIDE DEF q, w, small
    <3>2. QED BY <1>1, <1>2, <1>5, <1>6, <1>8, <3>1, <1>7
  <2>4. QED BY <1>1, <1>2, <2>2, <2>3
<1>10. incr = base + q + small OBVIOUS
<1>11. incr \in Nat /\ incr <= w + 2 * MSS
  <2> HIDE DEF incr, q, small, w
  <2>1. QED BY <1>2, <1>5, <1>6, <1>9, <1>10
<1> HIDE DEF incr
<1>12. rounded <= c.cwnd + 2
  <2>1. incr + MSS - 1 \in Nat BY <1>1, <1>11
  <2>2. /\ rounded \in Nat
        /\ rounded * MSS <= incr + MSS - 1
    BY <1>1, <2>1, Quotient
  <2>3. (c.cwnd + 3) * MSS = w + 3 * MSS BY <1>1
  <2> HIDE DEF rounded
  <2>4. rounded * MSS \in Nat /\ rounded * MSS < w + 3 * MSS
    <3>1. rounded * MSS \in Nat BY <1>1, <2>2, ProductOfNaturals
    <3> DEFINE x == rounded * MSS
    <3>2. x \in Nat /\ x <= incr + MSS - 1 BY <2>2, <3>1
    <3> HIDE DEF x, w
    <3>3. x < w + 3 * MSS BY <1>1, <1>7, <1>11, <3>2
    <3>4. QED BY <3>1, <3>3 DEF x
  <2>5. ~(c.cwnd + 3 <= rounded)
    <3> SUFFICES ASSUME c.cwnd + 3 <= rounded PROVE FALSE
      OBVIOUS
    <3>1. (c.cwnd + 3) * MSS <= rounded * MSS
      BY <1>1, <2>2, ProductGrows
    <3> DEFINE x == rounded * MSS
    <3>2. x \in Nat /\ x < w + 3 * MSS /\ w + 3 * MSS <= x BY <2>3, <2>4, <3>1
    <3> HIDE DEF x, w
    <3>3. QED BY <1>1, <1>7, <3>2
  <2>6. QED BY <1>1, <2>2, <2>5
<1>13. QED
  <2> HIDE DEF rounded
  <2>1. CASE (c.cwnd + 1) * MSS <= incr BY <1>3, <1>12, <2>1
  <2>2. CASE ~((c.cwnd + 1) * MSS <= incr) BY <1>1, <1>3, <2>2
  <2>3. QED BY <2>1, <2>2

\* GrowsGradually for every segment size and every window.
THEOREM WindowOpensGradually == Spec => GrowsGradually
<1>1. ASSUME Invariant, Threshold, NEW wnd \in RemoteWindow, Ack(wnd)
      PROVE  cc'.cwnd <= cc.cwnd + 2
  <2>1. cc \in Congestion /\ Consistent(cc) /\ cc.cwnd \in Nat /\ cc.ssthresh \in Nat
    BY <1>1 DEF Invariant, TypeOK, WindowMatchesIncr, Consistent, Congestion
  <2>2. wnd \in Nat /\ cc' = AdjustParameters(cc, wnd)
    BY <1>1, EventsAssumption DEF Ack
  <2> DEFINE grown == IF cc.cwnd < cc.ssthresh THEN SlowStart(cc)
                      ELSE CongestionAvoidance(cc)
  <2>3. grown \in Congestion /\ grown.cwnd <= cc.cwnd + 2
    <3>1. CASE cc.cwnd < cc.ssthresh
      <4>1. SlowStart(cc).cwnd <= cc.cwnd + 2 BY <2>1, SlowStartIsConsistent
      <4>2. QED BY <2>1, <3>1, <4>1, SlowStartIsConsistent
    <3>2. CASE ~(cc.cwnd < cc.ssthresh)
      <4>1. cc.cwnd >= 1 BY <1>1, <2>1, <3>2 DEF Threshold
      <4>2. QED BY <2>1, <3>2, <4>1, AvoidanceIsGradual, AvoidanceIsConsistent
    <3>3. QED BY <3>1, <3>2
  <2>4. cc' = IF cc.cwnd >= wnd THEN cc
              ELSE IF grown.cwnd > wnd THEN Opened(grown, wnd) ELSE grown
    BY <2>2 DEF AdjustParameters
  <2> HIDE DEF grown
  <2>5. grown.cwnd \in Nat BY <2>3 DEF Congestion
  <2>6. Opened(grown, wnd).cwnd = wnd BY <2>2, <2>3, OpenedIsConsistent
  <2>7. CASE cc.cwnd >= wnd BY <2>1, <2>4, <2>7
  <2>8. CASE ~(cc.cwnd >= wnd) /\ grown.cwnd > wnd
    BY <2>1, <2>2, <2>3, <2>4, <2>5, <2>6, <2>8
  <2>9. CASE ~(cc.cwnd >= wnd) /\ ~(grown.cwnd > wnd)
    BY <2>3, <2>4, <2>9
  <2>10. QED BY <2>7, <2>8, <2>9
<1>2. Invariant /\ Threshold /\ [Next]_vars
        => [\A wnd \in RemoteWindow : Ack(wnd) => cc'.cwnd <= cc.cwnd + 2]_vars
  BY <1>1
<1>3. QED
  BY <1>2, InvariantHolds, ThresholdInit, ThresholdStep, PTL DEF Spec, GrowsGradually

=============================================================================

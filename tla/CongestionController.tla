-------------------------- MODULE CongestionController --------------------------
(***************************************************************************)
(* congestion_controller.hpp: the congestion window, as functions from its *)
(* old state to its new one, because one flush() may change it three       *)
(* times.  The products cwnd * MSS stay far below 2^32 for every window    *)
(* that fits the memory of a machine: the width of u32 is not modelled.    *)
(***************************************************************************)
EXTENDS Integers, FiniteSetsExt

CONSTANTS
  MSS,                  \* MAX_SEGMENT_SIZE
  IKCP_THRESH_INIT,     \* 2 in constants.hpp
  IKCP_THRESH_MIN       \* 2 in constants.hpp

ASSUME CongestionAssumption ==
  /\ MSS \in Nat \ {0}
  /\ IKCP_THRESH_MIN \in Nat \ {0}
  /\ IKCP_THRESH_INIT \in Nat \ {0}

Congestion == [cwnd : Nat, ssthresh : Nat, incr : Nat]

InitialCongestion == [cwnd |-> 0, ssthresh |-> IKCP_THRESH_INIT, incr |-> 0]

\* Faulty variant: incr keeps what it had before.
Opened_StaleIncr(cc, cwnd) == [cc EXCEPT !.cwnd = cwnd]

Opened(cc, cwnd) == [cc EXCEPT !.cwnd = cwnd, !.incr = cwnd * MSS]

PacketsResent(cc, inFlight, resent) ==
  LET half == Max({inFlight \div 2, IKCP_THRESH_MIN})
  IN  Opened([cc EXCEPT !.ssthresh = half], half + resent)

PacketLost(cc) ==
  Opened([cc EXCEPT !.ssthresh = Max({cc.cwnd \div 2, IKCP_THRESH_MIN})], 1)

\* Faulty variant: incr does not follow cwnd.
SlowStart_StaleIncr(cc) == [cc EXCEPT !.cwnd = @ + 1]

SlowStart(cc) == [cc EXCEPT !.cwnd = @ + 1, !.incr = @ + MSS]

CongestionAvoidance(cc) ==
  LET base == Max({cc.incr, MSS})
      incr == base + (MSS * MSS) \div base + MSS \div 16
  IN  [cc EXCEPT !.incr = incr,
                 !.cwnd = IF (@ + 1) * MSS <= incr
                          THEN (incr + MSS - 1) \div MSS ELSE @]

\* An acknowledgement has arrived; rmt is the window of the peer.
AdjustParameters(cc, rmt) ==
  LET grown == IF cc.cwnd < cc.ssthresh THEN SlowStart(cc)
               ELSE CongestionAvoidance(cc)
  IN  IF cc.cwnd >= rmt THEN cc
      ELSE IF grown.cwnd > rmt THEN Opened(grown, rmt) ELSE grown

EnsureAtLeastOne(cc) == IF cc.cwnd < 1 THEN Opened(cc, 1) ELSE cc

\* The congestion window counts only while it is enabled.
CalculateCongestionWindow(cc, snd, rmt, enabled) ==
  Min({snd, rmt} \union {w \in {cc.cwnd} : enabled})

=============================================================================

---------------------------- MODULE CongestionEvents ----------------------------
(***************************************************************************)
(* Every order in which input() and flush() can drive the congestion       *)
(* window: acknowledgements, announced windows, losses, fast resends, and  *)
(* the setters of ImKcpp called in between.                                *)
(***************************************************************************)
EXTENDS CongestionController

CONSTANTS
  FastResend,       \* arguments of set_fastresend()
  SendWindow,       \* arguments of set_send_window()
  RemoteWindow,     \* windows the peer may announce
  MaxInFlight       \* bound: segments in flight at a flush

ASSUME EventsAssumption ==
  /\ FastResend \subseteq Nat /\ SendWindow \subseteq Nat \ {0}
  /\ RemoteWindow \subseteq Nat /\ MaxInFlight \in Nat

VARIABLES
  cc,               \* cwnd, ssthresh and incr of CongestionController
  rmt_wnd,          \* CongestionController::rmt_wnd
  snd_wnd,          \* CongestionController::snd_wnd
  congestion_window,\* CongestionController::congestion_window
  updated           \* ImKcpp::updated

configVars == <<snd_wnd, congestion_window>>
vars == <<cc, rmt_wnd, configVars, updated>>

\* The window of the peer is forgotten until the next segment arrives.
SetSendWindow(n) ==
  /\ snd_wnd' = n /\ rmt_wnd' = n
  /\ UNCHANGED <<cc, congestion_window, updated>>

SetCongestionWindowEnabled(state) ==
  /\ congestion_window' = state
  /\ UNCHANGED <<cc, rmt_wnd, snd_wnd, updated>>

\* A datagram that moves snd_una forward, or one that does not.
Ack(wnd) ==
  /\ rmt_wnd' = wnd
  /\ cc' = AdjustParameters(cc, wnd)
  /\ UNCHANGED <<configVars, updated>>

Announce(wnd) == rmt_wnd' = wnd /\ UNCHANGED <<cc, configVars, updated>>

\* Faulty variant: a window of 0 is not opened.
AfterFlush_MayStarve(inFlight, fast, lost, fastresend) ==
  LET resent == IF fast THEN PacketsResent(cc, inFlight, fastresend) ELSE cc
  IN  IF lost THEN PacketLost(resent) ELSE resent

\* fast: a segment was sent again because of later acknowledgements;
\* lost: one was sent again because of its timeout.
AfterFlush(inFlight, fast, lost, fastresend) ==
  LET resent == IF fast THEN PacketsResent(cc, inFlight, fastresend) ELSE cc
  IN  EnsureAtLeastOne(IF lost THEN PacketLost(resent) ELSE resent)

Flush(inFlight, fast, lost, fastresend) ==
  /\ fast => fastresend > 0 /\ inFlight > 0
  /\ lost => inFlight > 0
  /\ cc' = AfterFlush(inFlight, fast, lost, fastresend)
  /\ updated' = TRUE
  /\ UNCHANGED <<rmt_wnd, configVars>>

Init ==
  /\ cc = InitialCongestion
  /\ snd_wnd \in SendWindow /\ rmt_wnd = snd_wnd
  /\ congestion_window = TRUE
  /\ updated = FALSE

Next ==
  \/ \E wnd \in RemoteWindow : Ack(wnd) \/ Announce(wnd)
  \/ \E n \in SendWindow : SetSendWindow(n)
  \/ \E state \in BOOLEAN : SetCongestionWindowEnabled(state)
  \/ \E inFlight \in 0..MaxInFlight, fast, lost \in BOOLEAN,
        fastresend \in FastResend : Flush(inFlight, fast, lost, fastresend)

Spec == Init /\ [][Next]_vars

TypeOK ==
  /\ cc \in Congestion /\ rmt_wnd \in Nat /\ snd_wnd \in Nat \ {0}
  /\ congestion_window \in BOOLEAN /\ updated \in BOOLEAN

\* incr is cwnd in bytes with the fraction: they never differ by a segment,
\* whatever losses, retransmissions and acknowledgements come in a row, so
\* the rounded quotient of adjust_parameters() never jumps.
WindowMatchesIncr ==
  /\ (cc.cwnd - 1) * MSS < cc.incr
  /\ cc.incr < (cc.cwnd + 1) * MSS

\* Once update() has been called, an open remote window always lets at least
\* one segment out when none is in flight.
NeverStarves ==
  updated /\ rmt_wnd > 0 =>
    CalculateCongestionWindow(cc, snd_wnd, rmt_wnd, congestion_window) > 0

\* One acknowledgement opens the window by two segments at most.
GrowsGradually ==
  [][\A wnd \in RemoteWindow : Ack(wnd) => cc'.cwnd <= cc.cwnd + 2]_vars

=============================================================================

--------------------------- MODULE LossyConnection ---------------------------
(***************************************************************************)
(* Two ImKcpp endpoints and a network that loses and reorders segments, to *)
(* say what must happen eventually.  Unlike in Connection the network      *)
(* forgets: a segment is in transit until it arrives or is lost, and what  *)
(* must arrive in the end has to be sent again by flush().                 *)
(***************************************************************************)
EXTENDS Endpoint

CONSTANT MaxLate   \* bound: segments in transit overtaken by one flush

ASSUME MaxLateAssumption == MaxLate \in Nat

VARIABLE net       \* the segments in transit

vars == <<endpointVars, net>>

Init == EndpointInit /\ net = {}

AppSend(e) == (\E n \in 1..MaxFragments : Send(e, n)) /\ UNCHANGED net

AppRecv(e) == Recv(e) /\ UNCHANGED net

\* A segment in transit to e arrives.
Arrive(e, seg) ==
  /\ seg \in net /\ seg.src = Peer(e)
  /\ Input(e, seg)
  /\ net' = net \ {seg}

\* update() flushes, and the network loses all but a few of the segments
\* that were in transit.
Update(e, cwnd, due, ask) ==
  /\ Flush(e, cwnd, due, ask)
  /\ \E late \in SUBSET net :
       /\ Cardinality(late) <= MaxLate
       /\ net' = late \union FlushOutput(e, cwnd, due, ask)

Updates(e) ==
  \E cwnd \in 0..SendLimit(e), due \in SUBSET snd_buf[e], ask \in BOOLEAN :
    Update(e, cwnd, due, ask)

Next ==
  \E e \in Endpoint :
    \/ AppSend(e) \/ AppRecv(e) \/ Updates(e)
    \/ \E seg \in net : Arrive(e, seg)

Spec == Init /\ [][Next]_vars

-----------------------------------------------------------------------------
(* Fairness.                                                               *)

\* update() comes again and again.  A segment in flight is due again in the
\* end (LostSegmentIsRetried), an open remote window leaves a congestion window
\* of at least one (NeverStarves), a closed one is probed (ClosedWindowIsProbed).
Retransmits(e) ==
  \E cwnd \in 0..SendLimit(e), due \in SUBSET snd_buf[e], ask \in BOOLEAN :
    HasSn(due, snd_una[e]) /\ Update(e, cwnd, due, ask)

TakesNew(e) ==
  \E cwnd \in 1..SendLimit(e), due \in SUBSET snd_buf[e], ask \in BOOLEAN :
    Update(e, cwnd, due, ask)

Asks(e) ==
  \E cwnd \in 0..SendLimit(e), due \in SUBSET snd_buf[e] :
    Update(e, cwnd, due, TRUE)

\* The network is fair to the oldest segment in flight and to the window
\* probe: what is sent again and again arrives again and again.
OldestArrives(e) ==
  \E seg \in net :
    seg.cmd = "PUSH" /\ seg.sn = snd_una[e] /\ Arrive(Peer(e), seg)

OldestIsAcknowledged(e) ==
  \E seg \in net : seg.cmd = "ACK" /\ seg.sn = snd_una[e] /\ Arrive(e, seg)

QuestionArrives(e) ==
  \E seg \in net : seg.cmd = "WASK" /\ Arrive(Peer(e), seg)

AnswerArrives(e) ==
  \E seg \in net : seg.cmd = "WINS" /\ seg.wnd > 0 /\ Arrive(e, seg)

\* The endpoints that send messages.
Sender == {e \in Endpoint : Quota[e] > 0}

Fairness ==
  \A e \in Sender :
    /\ WF_vars(Retransmits(e)) /\ WF_vars(TakesNew(e)) /\ WF_vars(Asks(e))
    /\ WF_vars(Updates(Peer(e))) /\ WF_vars(AppRecv(Peer(e)))
    /\ SF_vars(OldestArrives(e)) /\ SF_vars(OldestIsAcknowledged(e))
    /\ SF_vars(QuestionArrives(e)) /\ SF_vars(AnswerArrives(e))

FairSpec == Spec /\ Fairness

-----------------------------------------------------------------------------
(* Liveness.                                                               *)

\* Whatever send() has accepted recv() returns in the end, however often
\* data, acknowledgements and window probes are lost or overtaken, and
\* however often the window of the receiver closes meanwhile.
EveryMessageArrives ==
  \A e \in Sender : \A n \in 1..Quota[e] :
    Len(accepted[e]) >= n ~> Len(delivered[Peer(e)]) >= n

\* No segment stays in flight for good: the receiver acknowledges again what
\* it already has, because the first acknowledgement may be lost.
EverySegmentIsAcknowledged ==
  \A e \in Sender : \A sn \in 0..(Quota[e] - 1) :
    HasSn(snd_buf[e], sn) ~> ~HasSn(snd_buf[e], sn)

=============================================================================

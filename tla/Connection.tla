------------------------------- MODULE Connection -------------------------------
(***************************************************************************)
(* Two ImKcpp endpoints that exchange segments through a network that      *)
(* delays, reorders, loses and duplicates them.  The network is the set    *)
(* of all the segments ever sent: a segment is in it for good and may be   *)
(* input at any moment, any number of times, or never.                     *)
(***************************************************************************)
EXTENDS Endpoint

CONSTANT MaxNet   \* bound: different segments sent in one execution

ASSUME MaxNetAssumption == MaxNet \in Nat

VARIABLE net      \* the segments the output callbacks have been given

vars == <<endpointVars, net>>

Init == EndpointInit /\ net = {}

\* The application of e sends a message of n fragments.
AppSend(e) == (\E n \in 1..MaxFragments : Send(e, n)) /\ UNCHANGED net

AppRecv(e) == Recv(e) /\ UNCHANGED net

\* The application of e changes a window while traffic is under way.
Resize(e) ==
  /\ \/ \E n \in SendWindow[e] : SetSendWindow(e, n)
     \/ \E n \in ReceiveWindow[e] : SetReceiveWindow(e, n)
  /\ UNCHANGED net

\* Any segment the peer has ever sent arrives, perhaps not for the first time.
Arrive(e) ==
  \E seg \in net : seg.src = Peer(e) /\ Input(e, seg) /\ UNCHANGED net

Update(e) ==
  \E cwnd \in 0..SendLimit(e), due \in SUBSET snd_buf[e], ask \in BOOLEAN :
    /\ Flush(e, cwnd, due, ask)
    /\ net' = net \union FlushOutput(e, cwnd, due, ask)
    /\ Cardinality(net') <= MaxNet

Next ==
  \E e \in Endpoint :
    AppSend(e) \/ AppRecv(e) \/ Resize(e) \/ Arrive(e) \/ Update(e)

Spec == Init /\ [][Next]_vars

TypeOK == EndpointTypeOK /\ net \subseteq Segment

-----------------------------------------------------------------------------
(* The abstract channel.                                                   *)

MessageOf(i) == {Fragments(i, n) : n \in 1..MaxFragments}

Channel == INSTANCE ReliableChannel WITH Message <- MessageOf

\* Messages are delivered once, whole, unchanged and in order, whatever the
\* network loses, duplicates or reorders: each step of the connection is a
\* step of ReliableChannel or changes nothing the applications can see.
ImplementsChannel == Channel!Spec

-----------------------------------------------------------------------------
(* Safety.                                                                 *)

\* The peer of e holds the segment sn of e: recv() has it or will have it.
Holds(r, sn) == sn < rcv_nxt[r] \/ HasSn(rcv_buf[r], sn)

\* A segment leaves snd_buf only when the peer holds it for good: a lost
\* acknowledgement, a stale una or an acknowledgement of a segment the
\* receiver then dropped would lose data that nobody sends again.
NothingIsLost ==
  \A e \in Endpoint : \A sn \in 0..(snd_nxt[e] - 1) :
    HasSn(snd_buf[e], sn) \/ Holds(Peer(e), sn)

\* Nothing the receiver has been told to acknowledge, and nothing already
\* acknowledged on the network, is ever dropped from its buffers.
AcksAreHonest ==
  /\ \A e \in Endpoint : \A sn \in acklist[e] : Holds(e, sn)
  /\ \A seg \in net :
       /\ seg.cmd = "ACK" => Holds(seg.src, seg.sn)
       /\ seg.una <= rcv_nxt[seg.src]

\* snd_una is the first segment in flight, or snd_nxt: the difference
\* snd_nxt - snd_una never underflows (the assertion of
\* get_packets_in_flight_count()), and should_acknowledge() never refuses the
\* acknowledgement of a segment in flight.
InFlightBounds ==
  \A e \in Endpoint :
    /\ snd_una[e] <= snd_nxt[e]
    /\ snd_una[e] = RemoteUna(snd_buf[e], snd_nxt[e])
    /\ \A s \in snd_buf[e] : ShouldAcknowledge(s.sn, snd_una[e], snd_nxt[e])

\* The segment recv() waits for never sits in rcv_buf unless recv() has a
\* whole message to return first, and then recv() fetches it: no order of
\* arrivals, reads and changes of the window holds up data that has arrived.
NoHeadOfLineStall ==
  \A e \in Endpoint :
    HasSn(rcv_buf[e], rcv_nxt[e]) => MessageReady(rcv_queue[e])

\* A full receive queue starts with a whole message: otherwise recv() would
\* answer waiting_for_fragment for ever, for a fragment the queue cannot take.
FullQueueIsReadable ==
  \A e \in Endpoint :
    Len(rcv_queue[e]) >= queue_limit(e) => MessageReady(rcv_queue[e])

LargestWindow(e) == Max(ReceiveWindow[e] \union {IKCP_WND_RCV})

\* The receiver's memory is bounded by the largest window it has ever been
\* given, however the sender overshoots after a stale announcement or a
\* set_send_window(): the segments out of order are distinct and inside the
\* window, and so is the queue.
ReceiverIsBounded ==
  \A e \in Endpoint :
    /\ \A s \in rcv_buf[e] : s.sn \in rcv_nxt[e]..(rcv_nxt[e] + LargestWindow(e) - 1)
    /\ Cardinality(Sns(rcv_buf[e])) = Cardinality(rcv_buf[e])
    /\ Len(rcv_queue[e]) <= LargestWindow(e)

\* Sequence numbers are never used twice: near the end of the u32 space both
\* ends stop instead of wrapping around.
NeverWraps ==
  [][\A e \in Endpoint :
       /\ snd_una[e] <= snd_una'[e] /\ snd_nxt[e] <= snd_nxt'[e]
       /\ rcv_nxt[e] <= rcv_nxt'[e]]_vars

=============================================================================

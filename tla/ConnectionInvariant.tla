-------------------------- MODULE ConnectionInvariant --------------------------
(***************************************************************************)
(* The inductive invariant of Connection.  Position i of stream[e] is the  *)
(* fragment that gets the sequence number i - 1; everything the buffers,   *)
(* the queues and the network hold is a piece of it at its place.          *)
(***************************************************************************)
EXTENDS Connection

\* The send queue is the part of the stream that has no sequence number yet,
\* the send buffer is a part of what has one.
SenderInvariant(e) ==
  /\ snd_nxt[e] + Len(snd_queue[e]) = Len(stream[e])
  /\ \A i \in 1..Len(snd_queue[e]) :
       snd_queue[e][i] = stream[e][snd_nxt[e] + i]
  /\ \A s \in snd_buf[e] :
       s.sn < snd_nxt[e] /\ s.frag = stream[e][s.sn + 1]
  /\ snd_una[e] = RemoteUna(snd_buf[e], snd_nxt[e])
  /\ snd_nxt[e] < SeqMod
  /\ rmt_wnd[e] < SeqMod

\* How many fragments recv() has taken from the receive queue.
Taken(e) == rcv_nxt[e] - Len(rcv_queue[e])

\* The receive queue continues the stream where recv() left it; the receive
\* buffer holds segments of the stream that come later.
ReceiverInvariant(e) ==
  /\ rcv_nxt[e] <= snd_nxt[Peer(e)]
  /\ Taken(e) >= 0
  /\ \A i \in 1..Len(rcv_queue[e]) :
       rcv_queue[e][i] = stream[Peer(e)][Taken(e) + i]
  /\ \A s \in rcv_buf[e] :
       /\ s.sn >= rcv_nxt[e] /\ s.sn < snd_nxt[Peer(e)]
       /\ s.frag = stream[Peer(e)][s.sn + 1]

\* A segment on the network never tells a lie that time has not made true.
AuthenticSegment(seg) ==
  /\ seg.wnd < WndMod
  /\ seg.cmd = "PUSH" =>
       /\ seg.sn < snd_nxt[seg.src]
       /\ seg.frag = stream[seg.src][seg.sn + 1]

\* The buffers hold what the stream says at its place, at both ends.
StreamInvariant ==
  /\ \A e \in Endpoint : SenderInvariant(e) /\ ReceiverInvariant(e)
  /\ \A seg \in net : AuthenticSegment(seg)

\* Nothing that was acknowledged, or that left snd_buf, is missing.
DeliveryInvariant ==
  /\ TypeOK
  /\ StreamInvariant
  /\ NothingIsLost
  /\ AcksAreHonest

-----------------------------------------------------------------------------
(* Message boundaries.                                                     *)

\* The first m messages of e are the first k fragments of its stream.
Boundary(e, k, m) ==
  \/ k = 0 /\ m = 0
  \/ k > 0 /\ stream[e][k].frg = 0 /\ stream[e][k].msg = m

\* The fragments of a message stand next to each other and count down to 0,
\* and after each boundary the next accepted message begins.
StreamShape(e) ==
  /\ \A i \in 1..Len(stream[e]) :
       /\ stream[e][i].frg < MaxFragments
       /\ stream[e][i].msg <= Len(accepted[e])
       /\ i + stream[e][i].frg <= Len(stream[e])
       /\ \A j \in 0..stream[e][i].frg :
            stream[e][i + j] = [msg |-> stream[e][i].msg,
                                frg |-> stream[e][i].frg - j]
  /\ \A k \in 0..(Len(stream[e]) - 1), m \in 0..Len(accepted[e]) :
       Boundary(e, k, m) =>
         /\ m < Len(accepted[e])
         /\ stream[e][k + 1].msg = m + 1
         /\ accepted[e][m + 1] = Fragments(m + 1, stream[e][k + 1].frg + 1)
  /\ Boundary(e, Len(stream[e]), Len(accepted[e]))

\* recv() has taken whole messages, the first ones that the peer accepted.
DeliveredInOrder(e) ==
  /\ Len(delivered[e]) <= Len(accepted[Peer(e)])
  /\ \A i \in 1..Len(delivered[e]) :
       delivered[e][i] = accepted[Peer(e)][i]
  /\ Boundary(Peer(e), Taken(e), Len(delivered[e]))

FramingInvariant ==
  \A e \in Endpoint : StreamShape(e) /\ DeliveredInOrder(e)

-----------------------------------------------------------------------------
(* Windows.                                                                *)

\* The most fragments a message of e has: send() limits them by number and by
\* its own receive window.
LargestMessage(e) == Min({MaxFragments, LargestWindow(e), Quota[e]})

\* Every window is one the application has asked for, and nothing at either
\* end is larger than the largest of them.
WindowInvariant ==
  \A e \in Endpoint :
    /\ receive_window[e] \in ReceiveWindow[e]
    /\ \A s \in rcv_buf[e] : s.sn < rcv_nxt[e] + LargestWindow(e)
    /\ Len(rcv_queue[e]) <= LargestWindow(e)
    /\ \A i \in 1..Len(stream[e]) : stream[e][i].frg < LargestMessage(e)

\* Every window that set_receive_window() is given holds the largest message
\* the peer sends.
WindowsHoldMessages ==
  \A e \in Endpoint : \A w \in ReceiveWindow[e] : LargestMessage(Peer(e)) <= w

=============================================================================

------------------------------- MODULE Endpoint -------------------------------
(***************************************************************************)
(* The ImKcpp object of imkcpp.hpp: what send(), recv(), input() and       *)
(* flush() do to one end of a connection.  Every variable is a function    *)
(* of the endpoint, so one module describes both ends.                     *)
(*                                                                         *)
(* Abstractions, all of them over-approximations of the code:              *)
(*   - Time is absent.  A segment in flight may be due for retransmission  *)
(*     at any flush (has_timed_out, can_fast_resend), the window prober    *)
(*     may fire at any flush with a closed remote window, and the          *)
(*     congestion window is any number up to the send window.              *)
(*   - A datagram carries one segment.  input() treats the segments of a   *)
(*     datagram one after the other, so every effect of a larger datagram  *)
(*     is the effect of several deliveries in a row.                       *)
(*   - snd_buf and rcv_buf, deques sorted by sn, are sets of segments.     *)
(*   - A payload is named by the message it belongs to.                    *)
(***************************************************************************)
EXTENDS Integers, Sequences, FiniteSets, FiniteSetsExt

CONSTANTS
  Endpoint,         \* the two ends of the connection
  ReceiveWindow,    \* arguments of set_receive_window(), per endpoint
  SendWindow,       \* arguments of set_send_window(), per endpoint
  IKCP_WND_RCV,     \* least receive window (128 in constants.hpp)
  MaxFragments,     \* largest fragment count send() accepts (255)
  SeqMod,           \* number of sequence numbers (u32: 2^32)
  WndMod,           \* number of values of the header field wnd (u16: 2^16)
  Quota             \* bound: fragments the application of an endpoint sends

ASSUME EndpointAssumption ==
  \E a, b \in Endpoint : a # b /\ Endpoint = {a, b}

ASSUME ConfigAssumption ==
  /\ ReceiveWindow \in [Endpoint -> SUBSET (1..(SeqMod - 1))]
  /\ SendWindow \in [Endpoint -> SUBSET (1..(SeqMod - 1))]
  /\ IKCP_WND_RCV \in Nat \ {0}
  /\ MaxFragments \in Nat \ {0}
  /\ SeqMod \in Nat \ {0}
  /\ WndMod \in 1..SeqMod
  /\ Quota \in [Endpoint -> Nat]

VARIABLES
  send_window,  \* CongestionController::snd_wnd
  receive_window, \* the last argument of set_receive_window()
  snd_queue,    \* Sender::snd_queue, fragments without a sequence number
  snd_buf,      \* SenderBuffer::snd_buf, the segments in flight
  snd_una,      \* SegmentTracker::snd_una
  snd_nxt,      \* SegmentTracker::snd_nxt
  rmt_wnd,      \* CongestionController::rmt_wnd
  acklist,      \* AckController::acklist, the sequence numbers to acknowledge
  rcv_buf,      \* Receiver::rcv_buf, segments received out of order
  rcv_queue,    \* Receiver::rcv_queue, fragments ready for recv()
  rcv_nxt,      \* Receiver::rcv_nxt
  ask_tell,     \* WindowProber::probe has the flag AskTell
  stream,       \* history: every fragment send() has accepted, in order
  accepted,     \* history: every message send() has accepted, in order
  delivered     \* history: every message recv() has returned, in order

configVars   == <<send_window, receive_window>>
senderVars   == <<snd_queue, snd_buf, snd_una, snd_nxt, rmt_wnd>>
receiverVars == <<acklist, rcv_buf, rcv_queue, rcv_nxt, ask_tell>>
historyVars  == <<stream, accepted, delivered>>
endpointVars == <<configVars, senderVars, receiverVars, historyVars>>

Peer(e) == CHOOSE p \in Endpoint : p # e

-----------------------------------------------------------------------------
(* Messages, fragments and segments.                                       *)

Fragment == [msg : Nat, frg : Nat]

\* The payload of a segment without payload, with Fragment{0} in its header.
NoFragment == [msg |-> 0, frg |-> 0]

\* The n fragments send() makes of the i-th message: frg counts down to 0.
Fragments(i, n) == [j \in 1..n |-> [msg |-> i, frg |-> n - j]]

Command == {"PUSH", "ACK", "WASK", "WINS"}

Segment == [src : Endpoint, cmd : Command, wnd : Nat, una : Nat, sn : Nat,
            frag : Fragment]

\* A segment as a buffer keeps it: the header fields the buffers use.
Stored == [sn : Nat, frag : Fragment]

Sns(buf) == {s.sn : s \in buf}

-----------------------------------------------------------------------------
(* Windows.                                                                *)

\* The window the congestion controller keeps is never below IKCP_WND_RCV;
\* the limit of the receive queue is the argument as it is.
rcv_wnd(e)     == Max({receive_window[e], IKCP_WND_RCV})
queue_limit(e) == receive_window[e]

UnusedReceiveWindow(e) == Max({rcv_wnd(e) - Len(rcv_queue[e]), 0})

\* Faulty variant: one segment beyond the window fits.
FitsReceiveWindow_OneTooMany(e, sn) == sn <= (rcv_nxt[e] + rcv_wnd(e)) % SeqMod

FitsReceiveWindow(e, sn) == sn < (rcv_nxt[e] + rcv_wnd(e)) % SeqMod

ShouldReceive(e, sn) == sn >= rcv_nxt[e]

\* The largest value calculate_congestion_window() can return.
SendLimit(e) == Min({send_window[e], rmt_wnd[e]})

-----------------------------------------------------------------------------
(* Acknowledgement of segments in flight.                                  *)

EraseBefore(buf, una) == {s \in buf : s.sn >= una}

Erase(buf, sn) == {s \in buf : s.sn # sn}

ShouldAcknowledge(sn, una, nxt) == una <= sn /\ sn < nxt

\* Faulty variant: the last segment acknowledged, not the first in flight.
RemoteUna_LastAcknowledged(buf, nxt) ==
  (IF buf = {} THEN nxt ELSE Min(Sns(buf))) - 1

\* update_remote_una(): the first segment in flight, or else the next one.
RemoteUna(buf, nxt) == IF buf = {} THEN nxt ELSE Min(Sns(buf))

\* una_received(): what is left in flight when the peer expects una.
UnaReceived(buf, una) == EraseBefore(buf, una)

\* ack_received(): what is left in flight when the peer acknowledges sn.
AckReceived(buf, nxt, sn) ==
  IF ShouldAcknowledge(sn, RemoteUna(buf, nxt), nxt) THEN Erase(buf, sn) ELSE buf

\* Faulty variant: update_remote_una() is not called.
SetInFlight_StaleUna(e, buf) ==
  /\ snd_buf' = [snd_buf EXCEPT ![e] = buf]
  /\ UNCHANGED snd_una

\* Both procedures end in update_remote_una().
SetInFlight(e, buf) ==
  /\ snd_buf' = [snd_buf EXCEPT ![e] = buf]
  /\ snd_una' = [snd_una EXCEPT ![e] = RemoteUna(buf, snd_nxt[e])]

-----------------------------------------------------------------------------
(* The receiver.                                                           *)

HasSn(buf, sn) == \E s \in buf : s.sn = sn

FragmentOf(buf, sn) == (CHOOSE s \in buf : s.sn = sn).frag

\* The loop of move_receive_buffer_to_queue() moves k segments: it stops when
\* the queue is full or the next segment in order is missing.
MovesToQueue(e, buf, queue, k) ==
  /\ \A i \in 0..(k - 1) : HasSn(buf, rcv_nxt[e] + i)
  /\ k = 0 \/ Len(queue) + k <= queue_limit(e)
  /\ \/ Len(queue) + k >= queue_limit(e)
     \/ ~HasSn(buf, (rcv_nxt[e] + k) % SeqMod)

MoveReceiveBufferToQueue(e, buf, queue) ==
  \E k \in 0..queue_limit(e) :
    /\ MovesToQueue(e, buf, queue, k)
    /\ rcv_buf' = [rcv_buf EXCEPT ![e] = EraseBefore(buf, rcv_nxt[e] + k)]
    /\ rcv_queue' = [rcv_queue EXCEPT ![e] =
         queue \o [i \in 1..k |-> FragmentOf(buf, rcv_nxt[e] + i - 1)]]
    /\ rcv_nxt' = [rcv_nxt EXCEPT ![e] = (@ + k) % SeqMod]

\* A segment already in rcv_buf is ignored.
EmplaceSegment(e, s) ==
  \/ /\ HasSn(rcv_buf[e], s.sn)
     /\ UNCHANGED <<rcv_buf, rcv_queue, rcv_nxt>>
  \/ /\ ~HasSn(rcv_buf[e], s.sn)
     /\ MoveReceiveBufferToQueue(e, rcv_buf[e] \union {s}, rcv_queue[e])

\* Faulty variant: the fragment with frg = 0 is not counted.
MessageReady_LastFragmentMissing(queue) ==
  /\ queue # <<>>
  /\ Len(queue) >= Head(queue).frg

\* peek_size() finds a whole message at the front of the queue.
MessageReady(queue) ==
  /\ queue # <<>>
  /\ Head(queue).frg = 0 \/ Len(queue) >= Head(queue).frg + 1

\* recv() pops k fragments: up to the first whose frg is 0.
PopsFromQueue(queue, k) ==
  /\ queue[k].frg = 0 \/ k = Len(queue)
  /\ \A i \in 1..(k - 1) : queue[i].frg # 0

-----------------------------------------------------------------------------
(* Operations of the application.                                          *)

\* Faulty variant: send() ignores the receive window.
FitsSendLimits_AnyWindow(e, n) == n <= MaxFragments

\* send() splits a message into n fragments; more fragments than a receive
\* window holds, or than the field frg counts, are refused.
FitsSendLimits(e, n) == n <= MaxFragments /\ n <= rcv_wnd(e)

Send(e, n) ==
  LET frags == Fragments(Len(accepted[e]) + 1, n) IN
  /\ Len(stream[e]) + n <= Quota[e]
  /\ FitsSendLimits(e, n)
  /\ snd_queue' = [snd_queue EXCEPT ![e] = @ \o frags]
  /\ stream' = [stream EXCEPT ![e] = @ \o frags]
  /\ accepted' = [accepted EXCEPT ![e] = Append(@, frags)]
  /\ UNCHANGED <<configVars, snd_buf, snd_una, snd_nxt, rmt_wnd, receiverVars,
                 delivered>>

\* recv() returns the message at the front of the queue and refills the
\* queue; leaving a full window it asks for a window announcement.
Recovered(e, queue) ==
  rcv_wnd(e) > Len(queue) /\ Len(rcv_queue[e]) >= rcv_wnd(e)

\* Faulty variant: the queue is not refilled.
Recv_NoRefill(e) ==
  /\ MessageReady(rcv_queue[e])
  /\ \E k \in 1..Len(rcv_queue[e]) :
       /\ PopsFromQueue(rcv_queue[e], k)
       /\ delivered' = [delivered EXCEPT ![e] =
            Append(@, SubSeq(rcv_queue[e], 1, k))]
       /\ rcv_queue' = [rcv_queue EXCEPT ![e] = SubSeq(@, k + 1, Len(@))]
  /\ ask_tell' = [ask_tell EXCEPT ![e] = @ \/ Recovered(e, rcv_queue'[e])]
  /\ UNCHANGED <<configVars, senderVars, acklist, rcv_buf, rcv_nxt, stream, accepted>>

Recv(e) ==
  /\ MessageReady(rcv_queue[e])
  /\ \E k \in 1..Len(rcv_queue[e]) :
       /\ PopsFromQueue(rcv_queue[e], k)
       /\ delivered' = [delivered EXCEPT ![e] =
            Append(@, SubSeq(rcv_queue[e], 1, k))]
       /\ MoveReceiveBufferToQueue(e, rcv_buf[e],
            SubSeq(rcv_queue[e], k + 1, Len(rcv_queue[e])))
  /\ ask_tell' = [ask_tell EXCEPT ![e] = @ \/ Recovered(e, rcv_queue'[e])]
  /\ UNCHANGED <<configVars, senderVars, acklist, stream, accepted>>

\* set_send_window() also overwrites the window the peer has announced.
SetSendWindow(e, n) ==
  /\ send_window' = [send_window EXCEPT ![e] = n]
  /\ rmt_wnd' = [rmt_wnd EXCEPT ![e] = n]
  /\ UNCHANGED <<receive_window, snd_queue, snd_buf, snd_una, snd_nxt,
                 receiverVars, historyVars>>

\* set_receive_window() moves nothing, even when the queue has new room or
\* holds more than the new limit.
SetReceiveWindow(e, n) ==
  /\ receive_window' = [receive_window EXCEPT ![e] = n]
  /\ UNCHANGED <<send_window, senderVars, receiverVars, historyVars>>

-----------------------------------------------------------------------------
(* input(): a segment arrives from the peer.  Whatever the command, the    *)
(* header brings the peer's window and the sequence number it expects.     *)

\* Faulty variant: the acknowledgement is scheduled before the window check.
InputPush_AckFirst(e, seg) ==
  /\ seg.cmd = "PUSH"
  /\ rmt_wnd' = [rmt_wnd EXCEPT ![e] = seg.wnd]
  /\ SetInFlight(e, UnaReceived(snd_buf[e], seg.una))
  /\ acklist' = [acklist EXCEPT ![e] = @ \union {seg.sn}]
  /\ \/ /\ FitsReceiveWindow(e, seg.sn) /\ ShouldReceive(e, seg.sn)
        /\ EmplaceSegment(e, [sn |-> seg.sn, frag |-> seg.frag])
     \/ /\ ~(FitsReceiveWindow(e, seg.sn) /\ ShouldReceive(e, seg.sn))
        /\ UNCHANGED <<rcv_buf, rcv_queue, rcv_nxt>>
  /\ UNCHANGED <<snd_queue, snd_nxt, ask_tell, historyVars>>

\* Faulty variant: a segment received before is not acknowledged again.
InputPush_AckOnce(e, seg) ==
  /\ seg.cmd = "PUSH"
  /\ rmt_wnd' = [rmt_wnd EXCEPT ![e] = seg.wnd]
  /\ SetInFlight(e, UnaReceived(snd_buf[e], seg.una))
  /\ \/ /\ FitsReceiveWindow(e, seg.sn) /\ ShouldReceive(e, seg.sn)
        /\ acklist' = [acklist EXCEPT ![e] = @ \union {seg.sn}]
        /\ EmplaceSegment(e, [sn |-> seg.sn, frag |-> seg.frag])
     \/ /\ ~(FitsReceiveWindow(e, seg.sn) /\ ShouldReceive(e, seg.sn))
        /\ UNCHANGED <<acklist, rcv_buf, rcv_queue, rcv_nxt>>
  /\ UNCHANGED <<snd_queue, snd_nxt, ask_tell, historyVars>>

InputPush(e, seg) ==
  /\ seg.cmd = "PUSH"
  /\ rmt_wnd' = [rmt_wnd EXCEPT ![e] = seg.wnd]
  /\ SetInFlight(e, UnaReceived(snd_buf[e], seg.una))
  /\ \/ /\ ~FitsReceiveWindow(e, seg.sn)
        /\ UNCHANGED <<acklist, rcv_buf, rcv_queue, rcv_nxt>>
     \/ /\ FitsReceiveWindow(e, seg.sn)
        /\ acklist' = [acklist EXCEPT ![e] = @ \union {seg.sn}]
        /\ \/ /\ ShouldReceive(e, seg.sn)
              /\ EmplaceSegment(e, [sn |-> seg.sn, frag |-> seg.frag])
           \/ /\ ~ShouldReceive(e, seg.sn)
              /\ UNCHANGED <<rcv_buf, rcv_queue, rcv_nxt>>
  /\ UNCHANGED <<snd_queue, snd_nxt, ask_tell, historyVars>>

InputAck(e, seg) ==
  /\ seg.cmd = "ACK"
  /\ rmt_wnd' = [rmt_wnd EXCEPT ![e] = seg.wnd]
  /\ SetInFlight(e,
       AckReceived(UnaReceived(snd_buf[e], seg.una), snd_nxt[e], seg.sn))
  /\ UNCHANGED <<snd_queue, snd_nxt, receiverVars, historyVars>>

\* Faulty variant: a window probe is not answered.
InputWask_NoAnswer(e, seg) ==
  /\ seg.cmd = "WASK"
  /\ rmt_wnd' = [rmt_wnd EXCEPT ![e] = seg.wnd]
  /\ SetInFlight(e, UnaReceived(snd_buf[e], seg.una))
  /\ UNCHANGED <<snd_queue, snd_nxt, receiverVars, historyVars>>

InputWask(e, seg) ==
  /\ seg.cmd = "WASK"
  /\ rmt_wnd' = [rmt_wnd EXCEPT ![e] = seg.wnd]
  /\ SetInFlight(e, UnaReceived(snd_buf[e], seg.una))
  /\ ask_tell' = [ask_tell EXCEPT ![e] = TRUE]
  /\ UNCHANGED <<snd_queue, snd_nxt, acklist, rcv_buf, rcv_queue, rcv_nxt,
                 historyVars>>

InputWins(e, seg) ==
  /\ seg.cmd = "WINS"
  /\ rmt_wnd' = [rmt_wnd EXCEPT ![e] = seg.wnd]
  /\ SetInFlight(e, UnaReceived(snd_buf[e], seg.una))
  /\ UNCHANGED <<snd_queue, snd_nxt, receiverVars, historyVars>>

Input(e, seg) ==
  /\ InputPush(e, seg) \/ InputAck(e, seg) \/ InputWask(e, seg) \/ InputWins(e, seg)
  /\ UNCHANGED configVars

-----------------------------------------------------------------------------
(* flush(): pending acknowledgements, window probes and data go out.       *)
(* Its parameters are what time and the congestion controller decide: the  *)
(* congestion window, the segments in flight that are due for another      *)
(* transmission, and whether the window prober asks for the window.        *)

\* Faulty variant: the segments in flight are counted, so snd_nxt may wrap.
MoveCount_InFlight(e, cwnd) ==
  LET inFlight == (snd_nxt[e] - snd_una[e]) % SeqMod IN
  IF inFlight < cwnd THEN Min({Len(snd_queue[e]), cwnd - inFlight}) ELSE 0

\* How many fragments move_send_queue_to_buffer() puts in flight.
MoveCount(e, cwnd) ==
  LET bound == (snd_una[e] + cwnd) % SeqMod IN
  IF snd_nxt[e] < bound
  THEN Min({Len(snd_queue[e]), bound - snd_nxt[e]})
  ELSE 0

Moved(e, cwnd) ==
  {[sn |-> snd_nxt[e] + i - 1, frag |-> snd_queue[e][i]] :
     i \in 1..MoveCount(e, cwnd)}

\* Faulty variant: una is the sender's own.
Header_OwnUna(e, cmd, sn, frag) ==
  [src |-> e, cmd |-> cmd, wnd |-> UnusedReceiveWindow(e) % WndMod,
   una |-> snd_una[e], sn |-> sn, frag |-> frag]

\* Every header of a flush has the same window and the same una.
Header(e, cmd, sn, frag) ==
  [src |-> e, cmd |-> cmd, wnd |-> UnusedReceiveWindow(e) % WndMod,
   una |-> rcv_nxt[e], sn |-> sn, frag |-> frag]

Acks(e) == {Header(e, "ACK", sn, NoFragment) : sn \in acklist[e]}

Probes(e, ask) ==
  {Header(e, cmd, 0, NoFragment) :
     cmd \in {c \in {"WASK"} : ask} \union {c \in {"WINS"} : ask_tell[e]}}

Pushes(e, segs) == {Header(e, "PUSH", s.sn, s.frag) : s \in segs}

\* What a flush passes to the output callback.
FlushOutput(e, cwnd, due, ask) ==
  Acks(e) \union Probes(e, ask) \union Pushes(e, Moved(e, cwnd) \union due)

Flush(e, cwnd, due, ask) ==
  /\ cwnd \in 0..SendLimit(e)
  /\ due \subseteq snd_buf[e]
  /\ ask => rmt_wnd[e] = 0
  /\ acklist' = [acklist EXCEPT ![e] = {}]
  /\ ask_tell' = [ask_tell EXCEPT ![e] = FALSE]
  /\ snd_buf' = [snd_buf EXCEPT ![e] = @ \union Moved(e, cwnd)]
  /\ snd_nxt' = [snd_nxt EXCEPT ![e] = (@ + MoveCount(e, cwnd)) % SeqMod]
  /\ snd_queue' = [snd_queue EXCEPT ![e] =
       SubSeq(@, MoveCount(e, cwnd) + 1, Len(@))]
  /\ UNCHANGED <<configVars, snd_una, rmt_wnd, rcv_buf, rcv_queue, rcv_nxt,
                 historyVars>>

-----------------------------------------------------------------------------

ChosenFrom(window, Arguments) ==
  /\ window \in [Endpoint -> UNION {Arguments[e] : e \in Endpoint}]
  /\ \A e \in Endpoint : window[e] \in Arguments[e]

EndpointInit ==
  /\ ChosenFrom(send_window, SendWindow)
  /\ ChosenFrom(receive_window, ReceiveWindow)
  /\ snd_queue = [e \in Endpoint |-> <<>>]
  /\ snd_buf = [e \in Endpoint |-> {}]
  /\ snd_una = [e \in Endpoint |-> 0]
  /\ snd_nxt = [e \in Endpoint |-> 0]
  /\ rmt_wnd = send_window         \* set_send_window() sets both windows
  /\ acklist = [e \in Endpoint |-> {}]
  /\ rcv_buf = [e \in Endpoint |-> {}]
  /\ rcv_queue = [e \in Endpoint |-> <<>>]
  /\ rcv_nxt = [e \in Endpoint |-> 0]
  /\ ask_tell = [e \in Endpoint |-> FALSE]
  /\ stream = [e \in Endpoint |-> <<>>]
  /\ accepted = [e \in Endpoint |-> <<>>]
  /\ delivered = [e \in Endpoint |-> <<>>]

EndpointTypeOK ==
  /\ send_window \in [Endpoint -> 1..(SeqMod - 1)]
  /\ receive_window \in [Endpoint -> Nat \ {0}]
  /\ snd_queue \in [Endpoint -> Seq(Fragment)]
  /\ snd_buf \in [Endpoint -> SUBSET Stored]
  /\ snd_una \in [Endpoint -> Nat]
  /\ snd_nxt \in [Endpoint -> Nat]
  /\ rmt_wnd \in [Endpoint -> Nat]
  /\ acklist \in [Endpoint -> SUBSET Nat]
  /\ rcv_buf \in [Endpoint -> SUBSET Stored]
  /\ rcv_queue \in [Endpoint -> Seq(Fragment)]
  /\ rcv_nxt \in [Endpoint -> Nat]
  /\ ask_tell \in [Endpoint -> BOOLEAN]
  /\ stream \in [Endpoint -> Seq(Fragment)]
  /\ accepted \in [Endpoint -> Seq(Seq(Fragment))]
  /\ delivered \in [Endpoint -> Seq(Seq(Fragment))]

=============================================================================

------------------------------ MODULE Transmission ------------------------------
(***************************************************************************)
(* The sending half of an ImKcpp object: what flush_data_segments() puts   *)
(* on the wire and when, and what the acknowledgements of input() do to    *)
(* the segments in flight, their counters and the congestion window.       *)
(* Endpoint leaves all of this open: there, any segment may be due.        *)
(*                                                                         *)
(* Time is relative: resend_in is resendts minus the present, not below 0. *)
(* has_timed_out() compares by signed difference, so only that matters.    *)
(* Payloads and the receiver are abstracted to the set of the sequence     *)
(* numbers it has got; it may answer late, twice, or not at all.           *)
(***************************************************************************)
EXTENDS CongestionController, Sequences, SequencesExt

CONSTANTS
  SndWnd,           \* argument of set_send_window()
  CongestionWindow, \* set_congestion_window_enabled()
  FastResend,       \* arguments of set_fastresend(): 0 disables it
  FastLimit,        \* arguments of set_fastlimit(): 0 is no limit
  NoDelay,          \* arguments of set_nodelay()
  DeadLink,         \* arguments of set_deadlink()
  Rto,              \* values get_rto() may take
  RemoteWindow,     \* windows the peer may announce
  MaxSn,            \* bound: fragments sent in an execution
  MaxXmit,          \* bound: transmissions of one segment
  MaxPassed,        \* bound: datagrams that acknowledge past one segment
  Elapse            \* time that passes in one step

ASSUME TransmissionAssumption ==
  /\ SndWnd \in Nat \ {0} /\ CongestionWindow \in BOOLEAN
  /\ {MaxSn, MaxXmit, MaxPassed} \subseteq Nat /\ Elapse \in Nat \ {0}
  /\ FastResend \subseteq Nat /\ FastLimit \subseteq Nat /\ NoDelay \subseteq Nat
  /\ DeadLink \subseteq Nat \ {0} /\ DeadLink # {}
  /\ Rto \subseteq Nat \ {0} /\ Rto # {}
  /\ RemoteWindow \subseteq Nat

VARIABLES
  fastresend,   \* Sender::fastresend
  fastlimit,    \* Sender::fastlimit
  nodelay,      \* Sender::nodelay
  dead_link,    \* Sender::dead_link
  queued,       \* length of Sender::snd_queue
  snd_buf,      \* SenderBuffer::snd_buf, the deque
  snd_una,      \* SegmentTracker::snd_una
  snd_nxt,      \* SegmentTracker::snd_nxt
  rmt_wnd,      \* CongestionController::rmt_wnd
  cc,           \* the congestion window
  rx_rto,       \* RtoCalculator::rto
  dead,         \* SharedCtx::state is DeadLink
  reading,      \* input() is under way
  prev_una,     \* snd_una when this input() began
  maxack,       \* FastAckCtx::maxack, or Invalid
  got,          \* the sequence numbers the receiver has got
  answered,     \* history: sequence numbers whose acknowledgement was read
  sent,         \* history: transmissions of each sequence number
  fast,         \* history: fast retransmissions of each sequence number
  passed,       \* history: datagrams that acknowledged past it in flight
  age           \* history: time since its last transmission

configVars == <<fastresend, fastlimit, nodelay, dead_link>>
trackerVars == <<snd_buf, snd_una, snd_nxt>>
historyVars == <<answered, sent, fast, passed, age>>
inputVars == <<reading, prev_una, maxack>>
connectionVars ==
  <<queued, trackerVars, rmt_wnd, cc, rx_rto, dead, inputVars, got, historyVars>>
vars == <<configVars, connectionVars>>

Sn == 0..(MaxSn - 1)

Sns(buf) == {buf[i].sn : i \in DOMAIN buf}

-----------------------------------------------------------------------------
(* The deque.  Each loop stops at the first segment with a larger number.  *)

\* How many segments the loops pass before they meet sn or a larger number.
PrefixBelow(buf, sn) ==
  Max({n \in 0..Len(buf) : \A i \in 1..n : buf[i].sn < sn})

\* Faulty variant: the segment before una stays.
EraseBefore_KeepsOne(buf, una) ==
  SubSeq(buf, PrefixBelow(buf, una - 1) + 1, Len(buf))

EraseBefore(buf, una) == SubSeq(buf, PrefixBelow(buf, una) + 1, Len(buf))

Erase(buf, sn) ==
  LET n == PrefixBelow(buf, sn)
  IN  IF n < Len(buf) /\ buf[n + 1].sn = sn THEN RemoveAt(buf, n + 1) ELSE buf

IncrementFastackBefore(buf, sn) ==
  [i \in DOMAIN buf |->
     IF i <= PrefixBelow(buf, sn) THEN [buf[i] EXCEPT !.fastack = @ + 1]
     ELSE buf[i]]

RemoteUna(buf, nxt) == IF buf = <<>> THEN nxt ELSE Head(buf).sn

ShouldAcknowledge(una, nxt, sn) == una <= sn /\ sn < nxt

AckReceived(buf, nxt, sn) ==
  IF ShouldAcknowledge(RemoteUna(buf, nxt), nxt, sn) THEN Erase(buf, sn) ELSE buf

-----------------------------------------------------------------------------
(* One segment in flush_data_segments().                                   *)

TimedOut(s) == s.resend_in = 0

\* Faulty variant: fastlimit is not consulted.
CanFastResend_NoLimit(s) == fastresend > 0 /\ fastresend < s.fastack

\* Without fast retransmission the code compares with 2^32 - 1 instead.
CanFastResend(s) ==
  /\ fastresend > 0 /\ fastresend < s.fastack
  /\ s.xmit < fastlimit \/ fastlimit = 0

NeedsFirst(s)   == s.xmit = 0
NeedsTimeout(s) == s.xmit > 0 /\ TimedOut(s)
NeedsFast(s)    == s.xmit > 0 /\ ~TimedOut(s) /\ CanFastResend(s)

NeedsSend(s) == NeedsFirst(s) \/ NeedsTimeout(s) \/ NeedsFast(s)

\* Faulty variant: the first transmission is not counted.
FirstSend_NotCounted(s) ==
  [s EXCEPT !.rto = rx_rto, !.resend_in = rx_rto]

FirstSend(s) ==
  [s EXCEPT !.xmit = 1, !.rto = rx_rto,
            !.resend_in = rx_rto + (IF nodelay = 0 THEN rx_rto \div 8 ELSE 0)]

Backoff(rto) ==
  rto + (IF nodelay = 0 THEN Max({rto, rx_rto})
         ELSE (IF nodelay < 2 THEN rto ELSE rx_rto) \div 2)

Resend(s) ==
  LET rto == Backoff(s.rto)
  IN  [s EXCEPT !.xmit = @ + 1, !.rto = rto, !.resend_in = rto]

\* Faulty variant: the count of later acknowledgements is not reset.
FastSend_KeepCount(s) == [s EXCEPT !.xmit = @ + 1, !.resend_in = s.rto]

\* Faulty variant: the timer is not restarted.
FastSend_KeepTimer(s) == [s EXCEPT !.xmit = @ + 1, !.fastack = 0]

FastSend(s) ==
  [s EXCEPT !.xmit = @ + 1, !.fastack = 0, !.resend_in = s.rto]

Processed(s) ==
  IF NeedsFirst(s) THEN FirstSend(s)
  ELSE IF NeedsTimeout(s) THEN Resend(s)
  ELSE IF NeedsFast(s) THEN FastSend(s) ELSE s

-----------------------------------------------------------------------------
(* Steps.                                                                  *)

\* The setters may be called at any time.  Segments in flight keep their
\* timers, and the link stays dead whatever its threshold is afterwards.
SetFastResend(value) ==
  /\ fastresend' = value
  /\ UNCHANGED <<fastlimit, nodelay, dead_link, connectionVars>>

SetFastLimit(value) ==
  /\ fastlimit' = value
  /\ UNCHANGED <<fastresend, nodelay, dead_link, connectionVars>>

SetNoDelay(value) ==
  /\ nodelay' = value
  /\ UNCHANGED <<fastresend, fastlimit, dead_link, connectionVars>>

SetDeadLink(value) ==
  /\ dead_link' = value
  /\ UNCHANGED <<fastresend, fastlimit, nodelay, connectionVars>>

Configure ==
  /\ ~reading
  /\ \/ \E value \in FastResend : SetFastResend(value)
     \/ \E value \in FastLimit : SetFastLimit(value)
     \/ \E value \in NoDelay : SetNoDelay(value)
     \/ \E value \in DeadLink : SetDeadLink(value)

\* send() queues one more fragment.
Send ==
  /\ ~reading
  /\ queued + snd_nxt < MaxSn
  /\ queued' = queued + 1
  /\ UNCHANGED <<configVars, trackerVars, rmt_wnd, cc, rx_rto, dead, inputVars,
                 got, historyVars>>

\* Time passes between two calls.
Tick ==
  /\ ~reading
  /\ \E i \in DOMAIN snd_buf : snd_buf[i].resend_in > 0
  /\ snd_buf' = [i \in DOMAIN snd_buf |->
       [snd_buf[i] EXCEPT !.resend_in = Max({@ - Elapse, 0})]]
  /\ age' = [sn \in Sn |-> IF sn \in Sns(snd_buf) THEN age[sn] + Elapse ELSE age[sn]]
  /\ UNCHANGED <<configVars, queued, snd_una, snd_nxt, rmt_wnd, cc, rx_rto, dead,
                 inputVars, got, answered, sent, fast, passed>>

\* A segment that has been sent reaches the receiver.  (Not while input()
\* runs: a datagram is made before it is read.)
Get ==
  /\ ~reading
  /\ \E sn \in 0..(snd_nxt - 1) : sn \notin got /\ got' = got \union {sn}
  /\ UNCHANGED <<configVars, queued, trackerVars, rmt_wnd, cc, rx_rto, dead,
                 inputVars, historyVars>>

FirstMissing == Min((0..snd_nxt) \ got)

\* move_send_queue_to_buffer(): how many fragments get a sequence number.
MoveCount ==
  LET cwnd == CalculateCongestionWindow(cc, SndWnd, rmt_wnd, CongestionWindow)
  IN  Max({0, Min({queued, snd_una + cwnd - snd_nxt})})

\* Faulty variant: the fragments enter at the front of the deque.
Filled_Front ==
  [i \in 1..MoveCount |->
     [sn |-> snd_nxt + i - 1, xmit |-> 0, fastack |-> 0, rto |-> rx_rto,
      resend_in |-> 0]] \o snd_buf

Filled ==
  snd_buf \o [i \in 1..MoveCount |->
     [sn |-> snd_nxt + i - 1, xmit |-> 0, fastack |-> 0, rto |-> rx_rto,
      resend_in |-> 0]]

\* What flush() makes of the congestion window, in this order.
CongestionAfter(buf, nxt) ==
  LET resent == IF \E i \in DOMAIN buf : NeedsFast(buf[i])
                THEN PacketsResent(cc, nxt - snd_una, fastresend) ELSE cc
      lost == IF \E i \in DOMAIN buf : NeedsTimeout(buf[i])
              THEN PacketLost(resent) ELSE resent
  IN  EnsureAtLeastOne(lost)

\* Faulty variant: only the last flush decides.
DeadAfter_Forgets(segs) == \E s \in segs : s.xmit >= dead_link

DeadAfter(segs) == dead \/ \E s \in segs : s.xmit >= dead_link

Count(buf, Needs(_), f) ==
  [sn \in Sn |->
     IF \E i \in DOMAIN buf : buf[i].sn = sn /\ Needs(buf[i]) THEN f[sn] + 1
     ELSE f[sn]]

\* update() whose turn to flush has come.
Flush ==
  LET buf == Filled
      nxt == snd_nxt + MoveCount
      out == {i \in DOMAIN buf : NeedsSend(buf[i])}
  IN
  /\ ~reading
  /\ queued' = queued - MoveCount
  /\ snd_nxt' = nxt
  /\ snd_buf' = [i \in DOMAIN buf |-> Processed(buf[i])]
  /\ \A i \in DOMAIN buf : snd_buf'[i].xmit <= MaxXmit
  /\ cc' = CongestionAfter(buf, nxt)
  /\ dead' = DeadAfter({Processed(buf[i]) : i \in out})
  /\ sent' = Count(buf, NeedsSend, sent)
  /\ fast' = Count(buf, NeedsFast, fast)
  /\ age' = [sn \in Sn |-> IF \E i \in out : buf[i].sn = sn THEN 0 ELSE age[sn]]
  /\ UNCHANGED <<configVars, snd_una, rmt_wnd, rx_rto, inputVars, got, answered,
                 passed>>

-----------------------------------------------------------------------------
(* input(): the loop over the segments of a datagram, one in each step.    *)

Invalid == -1

\* The header of any segment brings the peer's window and the number una it
\* expects, which a full receive queue may hold back.  The first segment of a
\* datagram begins an input().
ReadHeader(wnd, buf) ==
  /\ reading' = TRUE
  /\ prev_una' = IF reading THEN prev_una ELSE snd_una
  /\ rmt_wnd' = wnd
  /\ snd_buf' = buf
  /\ snd_una' = RemoteUna(buf, snd_nxt)
  /\ UNCHANGED <<configVars, queued, snd_nxt, cc, dead, got, sent, fast, passed,
                 age>>

\* PUSH, WASK and WINS.
ReadOther(wnd, una) ==
  /\ ReadHeader(wnd, EraseBefore(snd_buf, una))
  /\ maxack' = IF reading THEN maxack ELSE Invalid
  /\ answered' = answered \union (0..(una - 1))
  /\ UNCHANGED rx_rto

\* ACK: the acknowledgement of sn, after the una of the same header.
ReadAck(wnd, una, sn) ==
  /\ ReadHeader(wnd, AckReceived(EraseBefore(snd_buf, una), snd_nxt, sn))
  /\ maxack' = IF reading /\ maxack > sn THEN maxack ELSE sn
  /\ rx_rto' \in Rto
  /\ answered' = answered \union (0..(una - 1)) \union {sn}

\* A malformed segment: input() returns an error and leaves out the end.
ReadError ==
  /\ reading
  /\ reading' = FALSE /\ prev_una' = 0 /\ maxack' = Invalid
  /\ UNCHANGED <<configVars, queued, trackerVars, rmt_wnd, cc, rx_rto, dead, got,
                 historyVars>>

\* The end of input(): acknowledge_fastack() and adjust_parameters().
EndInput ==
  LET counts == /\ maxack # Invalid
                /\ ShouldAcknowledge(snd_una, snd_nxt, maxack)
  IN
  /\ reading
  /\ reading' = FALSE /\ prev_una' = 0 /\ maxack' = Invalid
  /\ snd_buf' = IF counts THEN IncrementFastackBefore(snd_buf, maxack) ELSE snd_buf
  /\ cc' = IF snd_una > prev_una THEN AdjustParameters(cc, rmt_wnd) ELSE cc
  /\ passed' = [sn \in Sn |->
       IF counts /\ sn \in Sns(snd_buf) /\ sn < maxack THEN passed[sn] + 1
       ELSE passed[sn]]
  /\ \A sn \in Sn : passed'[sn] <= MaxPassed
  /\ UNCHANGED <<configVars, queued, snd_una, snd_nxt, rmt_wnd, rx_rto, dead, got,
                 answered, sent, fast, age>>

Input ==
  \/ \E wnd \in RemoteWindow, una \in 0..FirstMissing :
       ReadOther(wnd, una) \/ \E sn \in got : ReadAck(wnd, una, sn)
  \/ ReadError \/ EndInput

-----------------------------------------------------------------------------

Init ==
  /\ fastresend \in FastResend /\ fastlimit \in FastLimit
  /\ nodelay \in NoDelay /\ dead_link \in DeadLink
  /\ queued = 0 /\ snd_buf = <<>> /\ snd_una = 0 /\ snd_nxt = 0
  /\ rmt_wnd = SndWnd
  /\ cc = InitialCongestion
  /\ rx_rto \in Rto
  /\ dead = FALSE /\ got = {} /\ answered = {}
  /\ reading = FALSE /\ prev_una = 0 /\ maxack = Invalid
  /\ sent = [sn \in Sn |-> 0] /\ fast = [sn \in Sn |-> 0]
  /\ passed = [sn \in Sn |-> 0] /\ age = [sn \in Sn |-> 0]

Next == Configure \/ Send \/ Tick \/ Get \/ Flush \/ Input

Spec == Init /\ [][Next]_vars

-----------------------------------------------------------------------------

InFlight == [sn : Sn, xmit : 1..MaxXmit, fastack : Nat, rto : Nat, resend_in : Nat]

TypeOK ==
  /\ fastresend \in FastResend /\ fastlimit \in FastLimit
  /\ nodelay \in NoDelay /\ dead_link \in DeadLink
  /\ {queued, snd_una, snd_nxt} \subseteq 0..MaxSn
  /\ rmt_wnd \in RemoteWindow \union {SndWnd}
  /\ snd_buf \in Seq(InFlight)
  /\ cc \in Congestion
  /\ rx_rto \in Rto
  /\ dead \in BOOLEAN
  /\ reading \in BOOLEAN /\ prev_una \in 0..snd_una /\ maxack \in got \union {Invalid}
  /\ answered \subseteq got /\ got \subseteq Sn
  /\ {sent, fast, passed, age} \subseteq [Sn -> Nat]

\* snd_buf is sorted, holds nothing the receiver has not been sent, and
\* misses nothing the receiver has not got: the loops of erase(),
\* erase_before() and increment_fastack_before(), which stop at the first
\* larger number, find every segment they look for and no other.
BufferInOrder ==
  /\ \A i, j \in DOMAIN snd_buf : i < j => snd_buf[i].sn < snd_buf[j].sn
  /\ snd_una = RemoteUna(snd_buf, snd_nxt)
  /\ (0..(snd_nxt - 1)) \ got \subseteq Sns(snd_buf)

\* A datagram that acknowledges sn, or una > sn, ends the life of sn in
\* snd_buf: no segment is sent again once its acknowledgement has been read.
NothingAnsweredStays == Sns(snd_buf) \intersect answered = {}

\* Each fast retransmission of a segment is paid for by at least one more
\* datagram that acknowledged a later segment than the smallest threshold that
\* enables it says, and none is counted twice, however the threshold changes.
FastResendsAreEarned ==
  \A sn \in Sn : \/ fast[sn] = 0
                 \/ fast[sn] * (Min(FastResend \ {0}) + 1) <= passed[sn]

\* "maximum count of fast resends per segment": with a limit no segment is
\* sent again fast as often as the limit says.  (It could be once more by the
\* words; the first transmission and the timeouts count too in the code.)
FastResendsAreLimited ==
  [][fastlimit > 0 =>
       \A sn \in Sn : fast'[sn] > fast[sn] => fast'[sn] < fastlimit]_vars

\* A segment is sent again only when its own timeout has run out since its
\* last transmission, or fast.
TimeoutsAreWaitedFor ==
  [][\A i \in DOMAIN snd_buf :
       LET sn == snd_buf[i].sn IN
       sent'[sn] > sent[sn] /\ fast'[sn] = fast[sn] => age[sn] >= snd_buf[i].rto]_vars

\* The state is DeadLink from the moment that a segment has been sent
\* dead_link times, for ever, even if it is acknowledged or the threshold
\* raised afterwards, and not before.
DeadLinkIsRemembered ==
  /\ (\E sn \in Sn : \A limit \in DeadLink : sent[sn] >= limit) => dead
  /\ dead => \E sn \in Sn : \E limit \in DeadLink : sent[sn] >= limit

\* "The number of non-sequential acks required to trigger fast resend."
FastResendAfterThreshold ==
  [][Flush /\ fastresend > 0 /\ fastlimit = 0 => \A i \in DOMAIN snd_buf :
       snd_buf[i].fastack >= fastresend => sent'[snd_buf[i].sn] > sent[snd_buf[i].sn]]_vars

=============================================================================

---------------------------- MODULE ConnectionProofs ----------------------------
(***************************************************************************)
(* Proofs about Connection, for every window, message size, sequence       *)
(* number width and quota the assumptions of Endpoint allow, in this       *)
(* order: every variable keeps its type; nothing is lost, and everything   *)
(* the endpoints hold is in its place (DeliveryInvariant is inductive);    *)
(* whole messages cross once and in order, so that a connection implements *)
(* a reliable channel; the receiver neither grows without bound nor stops  *)
(* while it could go on.                                                   *)
(***************************************************************************)
EXTENDS ConnectionInvariant, NumberLemmas, SequenceTheorems, FiniteSetTheorems

-----------------------------------------------------------------------------
(* Types.                                                                  *)

LEMMA PeerProperties ==
  ASSUME NEW e \in Endpoint
  PROVE  Peer(e) \in Endpoint /\ Peer(e) # e /\ Peer(Peer(e)) = e
<1>1. PICK x, y \in Endpoint : x # y /\ Endpoint = {x, y}
  BY EndpointAssumption
<1>2. \A z \in Endpoint : Peer(z) \in Endpoint /\ Peer(z) # z
  <2> TAKE z \in Endpoint
  <2>1. \E p \in Endpoint : p # z BY <1>1
  <2>2. QED BY <2>1, Zenon DEF Peer
<1>3. QED BY <1>1, <1>2

-----------------------------------------------------------------------------
(* The operators of Endpoint.                                              *)

LEMMA WindowTypes ==
  ASSUME TypeOK, NEW e \in Endpoint
  PROVE  /\ rcv_wnd(e) \in Nat \ {0} /\ rcv_wnd(e) >= queue_limit(e)
         /\ queue_limit(e) \in Nat \ {0}
         /\ UnusedReceiveWindow(e) \in Nat
         /\ SendLimit(e) \in Nat /\ SendLimit(e) <= rmt_wnd[e]
         /\ SendLimit(e) < SeqMod
<1>1. /\ receive_window[e] \in Nat \ {0} /\ IKCP_WND_RCV \in Nat \ {0}
      /\ send_window[e] \in 1..(SeqMod - 1) /\ SeqMod \in Nat
      /\ rmt_wnd[e] \in Nat /\ Len(rcv_queue[e]) \in Nat
  BY ConfigAssumption DEF TypeOK, EndpointTypeOK
<1>2. rcv_wnd(e) \in Nat \ {0} /\ rcv_wnd(e) >= queue_limit(e)
  <2>1. receive_window[e] \in Int /\ IKCP_WND_RCV \in Int
    BY <1>1
  <2>2. /\ rcv_wnd(e) \in {receive_window[e], IKCP_WND_RCV}
        /\ rcv_wnd(e) >= receive_window[e]
    BY <2>1, MaxOfTwo, Zenon DEF rcv_wnd
  <2>3. QED BY <1>1, <2>2 DEF queue_limit
<1>3. UnusedReceiveWindow(e) \in Nat
  <2>1. rcv_wnd(e) - Len(rcv_queue[e]) \in Int /\ 0 \in Int
    BY <1>1, <1>2
  <2>2. /\ UnusedReceiveWindow(e) \in {rcv_wnd(e) - Len(rcv_queue[e]), 0}
        /\ UnusedReceiveWindow(e) >= 0
    BY <2>1, MaxOfTwo, Zenon DEF UnusedReceiveWindow
  <2>3. QED BY <2>1, <2>2
<1>4. /\ SendLimit(e) \in {send_window[e], rmt_wnd[e]}
      /\ SendLimit(e) <= rmt_wnd[e] /\ SendLimit(e) <= send_window[e]
  <2>1. send_window[e] \in Int /\ rmt_wnd[e] \in Int
    BY <1>1
  <2>2. QED BY <2>1, MinOfTwo, Zenon DEF SendLimit
<1>5. QED BY <1>1, <1>2, <1>3, <1>4 DEF queue_limit

LEMMA RemoteUnaType ==
  ASSUME NEW buf \in SUBSET Stored, NEW nxt \in Nat
  PROVE  /\ RemoteUna(buf, nxt) \in Nat
         /\ buf # {} => HasSn(buf, RemoteUna(buf, nxt))
         /\ \A s \in buf : RemoteUna(buf, nxt) <= s.sn
<1>1. CASE buf = {} BY <1>1 DEF RemoteUna
<1>2. CASE buf # {}
  <2>1. Sns(buf) \in SUBSET Nat /\ Sns(buf) # {}
    BY <1>2 DEF Sns, Stored
  <2>2. Min(Sns(buf)) \in Sns(buf) /\ \A x \in Sns(buf) : Min(Sns(buf)) =< x
    BY <2>1, MinOfNaturals
  <2>3. QED BY <1>2, <2>1, <2>2 DEF RemoteUna, Sns, HasSn
<1>3. QED BY <1>1, <1>2

LEMMA FragmentOfType ==
  ASSUME NEW buf \in SUBSET Stored, NEW sn \in Nat, HasSn(buf, sn)
  PROVE  /\ FragmentOf(buf, sn) \in Fragment
         /\ [sn |-> sn, frag |-> FragmentOf(buf, sn)] \in buf
<1> DEFINE c == CHOOSE s \in buf : s.sn = sn
<1>1. c \in buf /\ c.sn = sn
  BY Zenon DEF HasSn
<1>2. c \in Stored
  BY <1>1
<1>3. c = [sn |-> c.sn, frag |-> c.frag] /\ c.frag \in Fragment
  BY <1>2 DEF Stored
<1>4. FragmentOf(buf, sn) = c.frag
  BY DEF FragmentOf
<1> HIDE DEF c
<1>5. QED BY <1>1, <1>3, <1>4

\* What the loop of move_receive_buffer_to_queue() does in all: the fragments
\* in moved go from buf to the end of the queue.
MoveOutcome(e, buf, queue, moved) ==
  LET nxt == rcv_nxt[e] + Len(moved) IN
  /\ \A i \in 1..Len(moved) :
       [sn |-> rcv_nxt[e] + i - 1, frag |-> moved[i]] \in buf
  /\ moved = <<>> \/ Len(queue) + Len(moved) <= queue_limit(e)
  /\ \/ Len(queue) + Len(moved) >= queue_limit(e)
     \/ ~HasSn(buf, nxt % SeqMod)
  /\ rcv_buf' = [rcv_buf EXCEPT ![e] = EraseBefore(buf, nxt)]
  /\ rcv_queue' = [rcv_queue EXCEPT ![e] = queue \o moved]
  /\ rcv_nxt' = [rcv_nxt EXCEPT ![e] = nxt % SeqMod]

LEMMA MoveEffect ==
  ASSUME TypeOK, NEW e \in Endpoint, NEW buf \in SUBSET Stored,
         NEW queue \in Seq(Fragment), MoveReceiveBufferToQueue(e, buf, queue)
  PROVE  \E moved \in Seq(Fragment) : MoveOutcome(e, buf, queue, moved)
<1>1. rcv_nxt[e] \in Nat /\ rcv_nxt \in [Endpoint -> Nat]
  BY DEF TypeOK, EndpointTypeOK
<1>2. PICK k \in 0..queue_limit(e) :
        /\ MovesToQueue(e, buf, queue, k)
        /\ rcv_buf' = [rcv_buf EXCEPT ![e] = EraseBefore(buf, rcv_nxt[e] + k)]
        /\ rcv_queue' = [rcv_queue EXCEPT ![e] =
             queue \o [i \in 1..k |-> FragmentOf(buf, rcv_nxt[e] + i - 1)]]
        /\ rcv_nxt' = [rcv_nxt EXCEPT ![e] = (@ + k) % SeqMod]
  BY DEF MoveReceiveBufferToQueue
<1>3. k \in Nat
  BY WindowTypes
<1> DEFINE moved == [i \in 1..k |-> FragmentOf(buf, rcv_nxt[e] + i - 1)]
<1>4. \A i \in 1..k :
        /\ FragmentOf(buf, rcv_nxt[e] + i - 1) \in Fragment
        /\ [sn |-> rcv_nxt[e] + i - 1,
            frag |-> FragmentOf(buf, rcv_nxt[e] + i - 1)] \in buf
  <2> TAKE i \in 1..k
  <2>1. rcv_nxt[e] + (i - 1) = rcv_nxt[e] + i - 1 /\ i - 1 \in 0..(k - 1)
    BY <1>1, <1>3
  <2>2. HasSn(buf, rcv_nxt[e] + i - 1)
    BY <1>2, <2>1, Zenon DEF MovesToQueue
  <2>3. rcv_nxt[e] + i - 1 \in Nat
    BY <1>1, <1>3
  <2>4. QED BY <2>2, <2>3, FragmentOfType
<1>5. moved \in Seq(Fragment) /\ Len(moved) = k
  <2>1. moved \in [1..k -> Fragment]
    BY <1>4
  <2>2. QED BY <1>3, <2>1
<1>6. \A i \in 1..Len(moved) :
        [sn |-> rcv_nxt[e] + i - 1, frag |-> moved[i]] \in buf
  BY <1>4, <1>5
<1> HIDE DEF moved
<1>7. moved = <<>> \/ Len(queue) + Len(moved) <= queue_limit(e)
  <2>1. k = 0 \/ Len(queue) + k <= queue_limit(e)
    BY <1>2 DEF MovesToQueue
  <2>2. QED BY <1>5, <2>1
<1>8. /\ rcv_queue' = [rcv_queue EXCEPT ![e] = queue \o moved]
      /\ rcv_nxt' = [rcv_nxt EXCEPT ![e] = (rcv_nxt[e] + k) % SeqMod]
  BY <1>1, <1>2 DEF moved
<1>9. \/ Len(queue) + k >= queue_limit(e)
      \/ ~HasSn(buf, (rcv_nxt[e] + k) % SeqMod)
  BY <1>2 DEF MovesToQueue
<1>10. QED
  <2>1. rcv_buf' = [rcv_buf EXCEPT ![e] = EraseBefore(buf, rcv_nxt[e] + k)]
    BY <1>2
  <2>2. MoveOutcome(e, buf, queue, moved)
    BY <1>5, <1>6, <1>7, <1>8, <1>9, <2>1 DEF MoveOutcome
  <2>3. QED BY <1>5, <2>2

LEMMA MoveCountType ==
  ASSUME TypeOK, NEW e \in Endpoint, NEW cwnd \in Nat
  PROVE  /\ MoveCount(e, cwnd) \in 0..Len(snd_queue[e])
         /\ \/ MoveCount(e, cwnd) = 0
            \/ snd_nxt[e] + MoveCount(e, cwnd) <= (snd_una[e] + cwnd) % SeqMod
<1> DEFINE bound == (snd_una[e] + cwnd) % SeqMod
<1>1. /\ snd_nxt[e] \in Nat /\ snd_una[e] \in Nat
      /\ Len(snd_queue[e]) \in Nat /\ SeqMod \in Nat \ {0}
  BY ConfigAssumption DEF TypeOK, EndpointTypeOK
<1>2. bound \in Nat
  BY <1>1
<1>3. CASE snd_nxt[e] < bound
  <2> DEFINE count == Min({Len(snd_queue[e]), bound - snd_nxt[e]})
  <2> HIDE DEF bound
  <2>4. Len(snd_queue[e]) \in Int /\ bound - snd_nxt[e] \in Int
    BY <1>1, <1>2
  <2>1. /\ count \in {Len(snd_queue[e]), bound - snd_nxt[e]}
        /\ count <= Len(snd_queue[e]) /\ count <= bound - snd_nxt[e]
    BY <2>4, MinOfTwo, Zenon
  <2>2. MoveCount(e, cwnd) = count
    BY <1>3 DEF MoveCount, bound
  <2> HIDE DEF count
  <2>3. QED BY <1>1, <1>2, <1>3, <2>1, <2>2 DEF bound
<1>4. CASE ~(snd_nxt[e] < bound)
  BY <1>1, <1>4 DEF MoveCount
<1>5. QED BY <1>3, <1>4

-----------------------------------------------------------------------------
(* Type correctness.                                                       *)

LEMMA ChosenType ==
  ASSUME NEW S, NEW Arguments \in [Endpoint -> SUBSET S], NEW window,
         ChosenFrom(window, Arguments)
  PROVE  window \in [Endpoint -> S]
<1>1. /\ window \in [Endpoint -> UNION {Arguments[e] : e \in Endpoint}]
      /\ \A e \in Endpoint : window[e] \in Arguments[e]
  BY DEF ChosenFrom
<1>2. \A e \in Endpoint : window[e] \in S
  <2> TAKE e \in Endpoint
  <2>1. Arguments[e] \in SUBSET S OBVIOUS
  <2>2. QED BY <1>1, <2>1
<1>3. window = [e \in Endpoint |-> window[e]] BY <1>1
<1>4. QED BY <1>2, <1>3

LEMMA InitType == Init => TypeOK
<1> SUFFICES ASSUME Init PROVE TypeOK
  OBVIOUS
<1>1. /\ send_window \in [Endpoint -> 1..(SeqMod - 1)]
      /\ receive_window \in [Endpoint -> Nat \ {0}]
  <2>1. ChosenFrom(send_window, SendWindow) /\ ChosenFrom(receive_window, ReceiveWindow)
    BY DEF Init, EndpointInit
  <2>2. /\ ReceiveWindow \in [Endpoint -> SUBSET (1..(SeqMod - 1))]
        /\ SendWindow \in [Endpoint -> SUBSET (1..(SeqMod - 1))]
    BY ConfigAssumption
  <2> DEFINE S == 1..(SeqMod - 1)
  <2>3. S \subseteq Nat \ {0} OBVIOUS
  <2> HIDE DEF S
  <2>4. send_window \in [Endpoint -> S] /\ receive_window \in [Endpoint -> S]
    BY <2>1, <2>2, ChosenType DEF S
  <2>5. receive_window \in [Endpoint -> Nat \ {0}] BY <2>3, <2>4
  <2>6. QED BY <2>4, <2>5 DEF S
<1>2. rmt_wnd \in [Endpoint -> Nat]
  BY <1>1, ConfigAssumption DEF Init, EndpointInit
<1>3. EndpointTypeOK
  BY <1>1, <1>2 DEF Init, EndpointInit, EndpointTypeOK
<1>4. QED BY <1>3 DEF Init, TypeOK

LEMMA FragmentsType ==
  ASSUME NEW i \in Nat, NEW n \in Nat
  PROVE  /\ Fragments(i, n) \in Seq(Fragment)
         /\ Len(Fragments(i, n)) = n
         /\ \A j \in 1..n : Fragments(i, n)[j] = [msg |-> i, frg |-> n - j]
<1>1. Fragments(i, n) \in [1..n -> Fragment]
  BY DEF Fragments, Fragment
<1>2. QED BY <1>1 DEF Fragments

LEMMA MoveType ==
  ASSUME TypeOK, NEW e \in Endpoint, NEW buf \in SUBSET Stored,
         NEW queue \in Seq(Fragment), MoveReceiveBufferToQueue(e, buf, queue)
  PROVE  /\ rcv_buf' \in [Endpoint -> SUBSET Stored]
         /\ rcv_queue' \in [Endpoint -> Seq(Fragment)]
         /\ rcv_nxt' \in [Endpoint -> Nat]
<1>1. PICK moved \in Seq(Fragment) : MoveOutcome(e, buf, queue, moved)
  BY MoveEffect
<1>2. rcv_nxt[e] + Len(moved) \in Nat /\ SeqMod \in Nat \ {0}
  BY ConfigAssumption DEF TypeOK, EndpointTypeOK
<1>3. queue \o moved \in Seq(Fragment)
  OBVIOUS
<1>4. EraseBefore(buf, rcv_nxt[e] + Len(moved)) \in SUBSET Stored
  BY DEF EraseBefore
<1>5. (rcv_nxt[e] + Len(moved)) % SeqMod \in Nat
  BY <1>2
<1>6. /\ rcv_buf' = [rcv_buf EXCEPT ![e] =
           EraseBefore(buf, rcv_nxt[e] + Len(moved))]
      /\ rcv_queue' = [rcv_queue EXCEPT ![e] = queue \o moved]
      /\ rcv_nxt' = [rcv_nxt EXCEPT ![e] =
           (rcv_nxt[e] + Len(moved)) % SeqMod]
  BY <1>1 DEF MoveOutcome
<1>7. QED BY <1>3, <1>4, <1>5, <1>6 DEF TypeOK, EndpointTypeOK

LEMMA SetInFlightType ==
  ASSUME TypeOK, NEW e \in Endpoint, NEW buf \in SUBSET Stored,
         SetInFlight(e, buf)
  PROVE  /\ snd_buf' \in [Endpoint -> SUBSET Stored]
         /\ snd_una' \in [Endpoint -> Nat]
<1>1. RemoteUna(buf, snd_nxt[e]) \in Nat
  BY RemoteUnaType DEF TypeOK, EndpointTypeOK
<1>2. QED BY <1>1 DEF SetInFlight, TypeOK, EndpointTypeOK

LEMMA SendType ==
  ASSUME TypeOK, NEW e \in Endpoint, AppSend(e)
  PROVE  TypeOK'
<1>1. PICK n \in 1..MaxFragments : Send(e, n)
  BY DEF AppSend
<1> DEFINE frags == Fragments(Len(accepted[e]) + 1, n)
<1>2. n \in Nat /\ Len(accepted[e]) + 1 \in Nat
  BY ConfigAssumption DEF TypeOK, EndpointTypeOK
<1>3. frags \in Seq(Fragment)
  BY <1>2, FragmentsType
<1>4. /\ snd_queue' = [snd_queue EXCEPT ![e] = @ \o frags]
      /\ stream' = [stream EXCEPT ![e] = @ \o frags]
      /\ accepted' = [accepted EXCEPT ![e] = Append(@, frags)]
      /\ UNCHANGED <<configVars, snd_buf, snd_una, snd_nxt, rmt_wnd,
                     receiverVars, delivered, net>>
  BY <1>1 DEF Send, AppSend
<1> HIDE DEF frags
<1>5. /\ snd_queue' \in [Endpoint -> Seq(Fragment)]
      /\ stream' \in [Endpoint -> Seq(Fragment)]
  BY <1>3, <1>4 DEF TypeOK, EndpointTypeOK
<1>6. accepted' \in [Endpoint -> Seq(Seq(Fragment))]
  <2>1. Append(accepted[e], frags) \in Seq(Seq(Fragment))
    BY <1>3 DEF TypeOK, EndpointTypeOK
  <2>2. QED BY <1>4, <2>1 DEF TypeOK, EndpointTypeOK
<1>7. QED BY <1>4, <1>5, <1>6
        DEF TypeOK, EndpointTypeOK, configVars, receiverVars

LEMMA RecvType ==
  ASSUME TypeOK, NEW e \in Endpoint, AppRecv(e)
  PROVE  TypeOK'
<1>1. PICK k \in 1..Len(rcv_queue[e]) :
        /\ delivered' = [delivered EXCEPT ![e] =
             Append(@, SubSeq(rcv_queue[e], 1, k))]
        /\ MoveReceiveBufferToQueue(e, rcv_buf[e],
             SubSeq(rcv_queue[e], k + 1, Len(rcv_queue[e])))
  BY DEF AppRecv, Recv
<1>2. rcv_queue[e] \in Seq(Fragment) /\ rcv_buf[e] \in SUBSET Stored
  BY DEF TypeOK, EndpointTypeOK
<1>3. /\ SubSeq(rcv_queue[e], 1, k) \in Seq(Fragment)
      /\ SubSeq(rcv_queue[e], k + 1, Len(rcv_queue[e])) \in Seq(Fragment)
  BY <1>2
<1>4. /\ rcv_buf' \in [Endpoint -> SUBSET Stored]
      /\ rcv_queue' \in [Endpoint -> Seq(Fragment)]
      /\ rcv_nxt' \in [Endpoint -> Nat]
  BY <1>1, <1>2, <1>3, MoveType
<1>5. delivered' \in [Endpoint -> Seq(Seq(Fragment))]
  <2>1. Append(delivered[e], SubSeq(rcv_queue[e], 1, k)) \in Seq(Seq(Fragment))
    BY <1>3 DEF TypeOK, EndpointTypeOK
  <2>2. QED BY <1>1, <2>1 DEF TypeOK, EndpointTypeOK
<1>6. ask_tell' \in [Endpoint -> BOOLEAN]
  <2>1. ask_tell' = [ask_tell EXCEPT ![e] =
          ask_tell[e] \/ Recovered(e, rcv_queue'[e])]
    BY DEF AppRecv, Recv
  <2>2. (ask_tell[e] \/ Recovered(e, rcv_queue'[e])) \in BOOLEAN
    OBVIOUS
  <2>3. QED BY <2>1, <2>2, Zenon DEF TypeOK, EndpointTypeOK
<1>7. UNCHANGED <<configVars, senderVars, acklist, stream, accepted, net>>
  BY DEF AppRecv, Recv
<1>8. QED BY <1>4, <1>5, <1>6, <1>7
        DEF TypeOK, EndpointTypeOK, configVars, senderVars

LEMMA ResizeType ==
  ASSUME TypeOK, NEW e \in Endpoint, Resize(e)
  PROVE  TypeOK'
<1>1. \A x \in Endpoint :
        /\ SendWindow[x] \subseteq 1..(SeqMod - 1) /\ SendWindow[x] \subseteq Nat
        /\ ReceiveWindow[x] \subseteq Nat \ {0}
  BY ConfigAssumption
<1>2. CASE \E n \in SendWindow[e] : SetSendWindow(e, n)
  BY <1>1, <1>2
     DEF Resize, SetSendWindow, TypeOK, EndpointTypeOK, receiverVars, historyVars
<1>3. CASE \E n \in ReceiveWindow[e] : SetReceiveWindow(e, n)
  BY <1>1, <1>3
     DEF Resize, SetReceiveWindow, TypeOK, EndpointTypeOK, senderVars,
         receiverVars, historyVars
<1>4. QED BY <1>2, <1>3 DEF Resize

LEMMA ArriveType ==
  ASSUME TypeOK, NEW e \in Endpoint, Arrive(e)
  PROVE  TypeOK'
<1>1. PICK seg \in net : Input(e, seg) /\ UNCHANGED <<configVars, net>>
  BY DEF Arrive, Input
<1>2. /\ seg.wnd \in Nat /\ seg.una \in Nat /\ seg.sn \in Nat
      /\ seg.frag \in Fragment
  BY DEF TypeOK, Segment
<1>3. UnaReceived(snd_buf[e], seg.una) \in SUBSET Stored
  BY DEF UnaReceived, EraseBefore, TypeOK, EndpointTypeOK
<1>4. CASE InputPush(e, seg)
  <2>1. /\ rmt_wnd' \in [Endpoint -> Nat]
        /\ UNCHANGED <<snd_queue, snd_nxt, ask_tell, historyVars>>
    BY <1>2, <1>4 DEF InputPush, TypeOK, EndpointTypeOK
  <2>2. /\ snd_buf' \in [Endpoint -> SUBSET Stored]
        /\ snd_una' \in [Endpoint -> Nat]
    BY <1>3, <1>4, SetInFlightType DEF InputPush
  <2>3. acklist' \in [Endpoint -> SUBSET Nat]
    <3>1. \/ acklist' = acklist
          \/ acklist' = [acklist EXCEPT ![e] = @ \union {seg.sn}]
      BY <1>4 DEF InputPush
    <3>2. acklist[e] \union {seg.sn} \in SUBSET Nat
      BY <1>2 DEF TypeOK, EndpointTypeOK
    <3>3. QED BY <3>1, <3>2 DEF TypeOK, EndpointTypeOK
  <2>4. /\ rcv_buf' \in [Endpoint -> SUBSET Stored]
        /\ rcv_queue' \in [Endpoint -> Seq(Fragment)]
        /\ rcv_nxt' \in [Endpoint -> Nat]
    <3>1. CASE UNCHANGED <<rcv_buf, rcv_queue, rcv_nxt>>
      BY <3>1 DEF TypeOK, EndpointTypeOK
    <3>2. CASE EmplaceSegment(e, [sn |-> seg.sn, frag |-> seg.frag])
      <4>1. CASE UNCHANGED <<rcv_buf, rcv_queue, rcv_nxt>>
        BY <4>1 DEF TypeOK, EndpointTypeOK
      <4> DEFINE s == [sn |-> seg.sn, frag |-> seg.frag]
      <4>2. CASE MoveReceiveBufferToQueue(e, rcv_buf[e] \union {s}, rcv_queue[e])
        <5>1. rcv_buf[e] \union {s} \in SUBSET Stored
          BY <1>2 DEF Stored, TypeOK, EndpointTypeOK
        <5>2. rcv_queue[e] \in Seq(Fragment)
          BY DEF TypeOK, EndpointTypeOK
        <5> HIDE DEF s
        <5>3. QED BY <4>2, <5>1, <5>2, MoveType
      <4>3. QED BY <3>2, <4>1, <4>2 DEF EmplaceSegment
    <3>3. QED BY <1>4, <3>1, <3>2 DEF InputPush
  <2>5. QED BY <1>1, <2>1, <2>2, <2>3, <2>4
          DEF TypeOK, EndpointTypeOK, configVars, historyVars
<1>5. CASE InputAck(e, seg)
  <2>1. AckReceived(UnaReceived(snd_buf[e], seg.una), snd_nxt[e], seg.sn)
          \in SUBSET Stored
    BY <1>3 DEF AckReceived, Erase
  <2>2. /\ snd_buf' \in [Endpoint -> SUBSET Stored]
        /\ snd_una' \in [Endpoint -> Nat]
    BY <1>5, <2>1, SetInFlightType DEF InputAck
  <2>3. QED BY <1>1, <1>2, <1>5, <2>2
          DEF InputAck, TypeOK, EndpointTypeOK, configVars, historyVars, receiverVars
<1>6. CASE InputWask(e, seg)
  <2>1. /\ snd_buf' \in [Endpoint -> SUBSET Stored]
        /\ snd_una' \in [Endpoint -> Nat]
    BY <1>3, <1>6, SetInFlightType DEF InputWask
  <2>2. QED BY <1>1, <1>2, <1>6, <2>1
          DEF InputWask, TypeOK, EndpointTypeOK, configVars, historyVars
<1>7. CASE InputWins(e, seg)
  <2>1. /\ snd_buf' \in [Endpoint -> SUBSET Stored]
        /\ snd_una' \in [Endpoint -> Nat]
    BY <1>3, <1>7, SetInFlightType DEF InputWins
  <2>2. QED BY <1>1, <1>2, <1>7, <2>1
          DEF InputWins, TypeOK, EndpointTypeOK, configVars, historyVars, receiverVars
<1>8. QED BY <1>1, <1>4, <1>5, <1>6, <1>7 DEF Input

\* What a flush moves to the send buffer are fragments of the send queue.
LEMMA MovedType ==
  ASSUME TypeOK, NEW e \in Endpoint, NEW cwnd \in Nat
  PROVE  Moved(e, cwnd) \in SUBSET Stored
<1>1. MoveCount(e, cwnd) \in 0..Len(snd_queue[e])
  BY MoveCountType
<1>2. snd_nxt[e] \in Nat /\ snd_queue[e] \in Seq(Fragment)
  BY DEF TypeOK, EndpointTypeOK
<1>3. QED BY <1>1, <1>2 DEF Moved, Stored

LEMMA HeaderType ==
  ASSUME TypeOK, NEW e \in Endpoint, NEW cmd \in Command, NEW sn \in Nat,
         NEW frag \in Fragment
  PROVE  Header(e, cmd, sn, frag) \in Segment
<1>1. UnusedReceiveWindow(e) \in Nat /\ WndMod \in Nat \ {0}
  BY WindowTypes, ConfigAssumption
<1>2. UnusedReceiveWindow(e) % WndMod \in Nat
  BY <1>1
<1>3. rcv_nxt[e] \in Nat
  BY DEF TypeOK, EndpointTypeOK
<1>4. QED BY <1>2, <1>3 DEF Header, Segment

LEMMA FlushOutputType ==
  ASSUME TypeOK, NEW e \in Endpoint, NEW cwnd \in Nat,
         NEW due \in SUBSET snd_buf[e], NEW ask \in BOOLEAN
  PROVE  FlushOutput(e, cwnd, due, ask) \subseteq Segment
<1>1. NoFragment \in Fragment
  BY DEF NoFragment, Fragment
<1>2. Acks(e) \subseteq Segment
  <2>1. acklist[e] \subseteq Nat /\ "ACK" \in Command
    BY DEF TypeOK, EndpointTypeOK, Command
  <2>2. QED BY <1>1, <2>1, HeaderType DEF Acks
<1>3. Probes(e, ask) \subseteq Segment
  <2>1. "WASK" \in Command /\ "WINS" \in Command /\ 0 \in Nat
    BY DEF Command
  <2>2. QED BY <1>1, <2>1, HeaderType DEF Probes
<1>4. Pushes(e, Moved(e, cwnd) \union due) \subseteq Segment
  <2>1. Moved(e, cwnd) \union due \in SUBSET Stored
    BY MovedType DEF TypeOK, EndpointTypeOK
  <2>2. \A s \in Moved(e, cwnd) \union due :
          s.sn \in Nat /\ s.frag \in Fragment
    BY <2>1 DEF Stored
  <2>3. "PUSH" \in Command
    BY DEF Command
  <2>4. QED BY <2>2, <2>3, HeaderType DEF Pushes
<1>5. QED BY <1>2, <1>3, <1>4 DEF FlushOutput

LEMMA UpdateType ==
  ASSUME TypeOK, NEW e \in Endpoint, Update(e)
  PROVE  TypeOK'
<1>1. PICK cwnd \in 0..SendLimit(e), due \in SUBSET snd_buf[e], ask \in BOOLEAN :
        /\ Flush(e, cwnd, due, ask)
        /\ net' = net \union FlushOutput(e, cwnd, due, ask)
  BY DEF Update
<1>2. cwnd \in Nat
  BY <1>1, WindowTypes
<1>3. net' \subseteq Segment
  BY <1>1, <1>2, FlushOutputType DEF TypeOK
<1>4. MoveCount(e, cwnd) \in 0..Len(snd_queue[e])
  BY <1>2, MoveCountType
<1>5. snd_buf' \in [Endpoint -> SUBSET Stored]
  <2>1. snd_buf[e] \union Moved(e, cwnd) \in SUBSET Stored
    BY <1>2, MovedType DEF TypeOK, EndpointTypeOK
  <2>2. QED BY <1>1, <2>1 DEF Flush, TypeOK, EndpointTypeOK
<1>6. snd_nxt' \in [Endpoint -> Nat]
  <2>1. snd_nxt[e] + MoveCount(e, cwnd) \in Nat /\ SeqMod \in Nat \ {0}
    BY <1>4, ConfigAssumption DEF TypeOK, EndpointTypeOK
  <2>2. (snd_nxt[e] + MoveCount(e, cwnd)) % SeqMod \in Nat
    BY <2>1
  <2>3. QED BY <1>1, <2>2 DEF Flush, TypeOK, EndpointTypeOK
<1>7. snd_queue' \in [Endpoint -> Seq(Fragment)]
  <2>1. snd_queue[e] \in Seq(Fragment)
    BY DEF TypeOK, EndpointTypeOK
  <2>2. SubSeq(snd_queue[e], MoveCount(e, cwnd) + 1, Len(snd_queue[e]))
          \in Seq(Fragment)
    BY <1>4, <2>1
  <2>3. QED BY <1>1, <2>2 DEF Flush, TypeOK, EndpointTypeOK
<1>8. QED BY <1>1, <1>3, <1>5, <1>6, <1>7
        DEF Flush, TypeOK, EndpointTypeOK, configVars, historyVars

LEMMA TypeInductive == TypeOK /\ [Next]_vars => TypeOK'
<1> SUFFICES ASSUME TypeOK, [Next]_vars PROVE TypeOK'
  OBVIOUS
<1>1. ASSUME NEW e \in Endpoint, AppSend(e) PROVE TypeOK'
  BY <1>1, SendType
<1>2. ASSUME NEW e \in Endpoint, AppRecv(e) PROVE TypeOK'
  BY <1>2, RecvType
<1>3. ASSUME NEW e \in Endpoint, Arrive(e) PROVE TypeOK'
  BY <1>3, ArriveType
<1>4. ASSUME NEW e \in Endpoint, Update(e) PROVE TypeOK'
  BY <1>4, UpdateType
<1>5. ASSUME NEW e \in Endpoint, Resize(e) PROVE TypeOK'
  BY <1>5, ResizeType
<1>6. CASE UNCHANGED vars
  BY <1>6 DEF vars, endpointVars, configVars, senderVars, receiverVars,
              historyVars, TypeOK, EndpointTypeOK
<1>7. QED BY <1>1, <1>2, <1>3, <1>4, <1>5, <1>6 DEF Next

\* Every variable keeps its type: counters never go below zero, every queue
\* and buffer holds well-formed fragments, every datagram a valid command.
THEOREM TypeCorrect == Spec => []TypeOK
<1>1. Init => TypeOK
  BY InitType
<1>2. TypeOK /\ [Next]_vars => TypeOK'
  BY TypeInductive
<1>3. QED BY <1>1, <1>2, PTL DEF Spec

-----------------------------------------------------------------------------
(* What the invariant says of one endpoint, with the types it needs.       *)

LEMMA EndpointTypes ==
  ASSUME TypeOK, NEW e \in Endpoint
  PROVE  /\ snd_queue[e] \in Seq(Fragment) /\ Len(snd_queue[e]) \in Nat
         /\ snd_buf[e] \in SUBSET Stored
         /\ snd_una[e] \in Nat /\ snd_nxt[e] \in Nat /\ rmt_wnd[e] \in Nat
         /\ acklist[e] \in SUBSET Nat
         /\ rcv_buf[e] \in SUBSET Stored
         /\ rcv_queue[e] \in Seq(Fragment) /\ Len(rcv_queue[e]) \in Nat
         /\ rcv_nxt[e] \in Nat
         /\ stream[e] \in Seq(Fragment) /\ Len(stream[e]) \in Nat
BY DEF TypeOK, EndpointTypeOK

\* The stream of the peer, as the receiver of e may rely on it.
PeerStream(e) == stream[Peer(e)]

\* buf and queue are pieces of the peer's stream, at their places.
InPlace(e, buf, queue) ==
  /\ Len(queue) <= rcv_nxt[e]
  /\ \A i \in 1..Len(queue) :
       queue[i] = PeerStream(e)[rcv_nxt[e] - Len(queue) + i]
  /\ \A s \in buf :
       /\ s.sn >= rcv_nxt[e] /\ s.sn < snd_nxt[Peer(e)]
       /\ s.frag = PeerStream(e)[s.sn + 1]

\* move_receive_buffer_to_queue() keeps everything in its place and loses
\* nothing.
LEMMA MoveInPlace ==
  ASSUME TypeOK, StreamInvariant, NEW e \in Endpoint,
         NEW buf \in SUBSET Stored, NEW queue \in Seq(Fragment),
         InPlace(e, buf, queue),
         MoveReceiveBufferToQueue(e, buf, queue),
         UNCHANGED <<stream, snd_nxt>>
  PROVE  /\ ReceiverInvariant(e)'
         /\ rcv_nxt[e] <= rcv_nxt'[e]
         /\ \A sn \in Nat : sn < rcv_nxt[e] \/ HasSn(buf, sn) => Holds(e, sn)'
         /\ Taken(e)' = rcv_nxt[e] - Len(queue)
         /\ \A x \in Endpoint \ {e} :
              /\ rcv_nxt'[x] = rcv_nxt[x] /\ rcv_buf'[x] = rcv_buf[x]
              /\ rcv_queue'[x] = rcv_queue[x]
<1> DEFINE p == Peer(e)
<1>1. p \in Endpoint
  BY PeerProperties
<1>2. /\ rcv_nxt[e] \in Nat /\ snd_nxt[p] \in Nat /\ Len(queue) \in Nat
      /\ snd_nxt[p] < SeqMod /\ SeqMod \in Nat
      /\ rcv_nxt[e] <= snd_nxt[p]
  BY <1>1, EndpointTypes, ConfigAssumption
     DEF StreamInvariant, SenderInvariant, ReceiverInvariant
<1>3. PICK moved \in Seq(Fragment) : MoveOutcome(e, buf, queue, moved)
  BY MoveEffect
<1> DEFINE nxt == rcv_nxt[e] + Len(moved)
<1>4. \A i \in 1..Len(moved) :
        [sn |-> rcv_nxt[e] + i - 1, frag |-> moved[i]] \in buf
  BY <1>3 DEF MoveOutcome
<1>5. nxt <= snd_nxt[p] /\ nxt \in Nat
  <2>1. CASE Len(moved) = 0 BY <1>2, <2>1
  <2>2. CASE Len(moved) # 0
    <3>1. Len(moved) \in 1..Len(moved) BY <2>2
    <3>2. [sn |-> rcv_nxt[e] + Len(moved) - 1, frag |-> moved[Len(moved)]] \in buf
      BY <1>4, <3>1
    <3>3. rcv_nxt[e] + Len(moved) - 1 < snd_nxt[p]
      BY <3>2 DEF InPlace
    <3>4. QED BY <1>2, <3>3
  <2>3. QED BY <2>1, <2>2
<1>6. nxt % SeqMod = nxt
  <2>1. nxt \in Nat /\ SeqMod \in Nat /\ nxt < SeqMod
    BY <1>2, <1>5
  <2> HIDE DEF nxt
  <2>2. QED BY <2>1, SmallMod
<1> HIDE DEF p
<1>7. /\ rcv_buf' = [rcv_buf EXCEPT ![e] = EraseBefore(buf, nxt)]
      /\ rcv_queue' = [rcv_queue EXCEPT ![e] = queue \o moved]
      /\ rcv_nxt' = [rcv_nxt EXCEPT ![e] = nxt]
  BY <1>3, <1>6 DEF MoveOutcome
<1>8. /\ rcv_buf'[e] = EraseBefore(buf, nxt)
      /\ rcv_queue'[e] = queue \o moved
      /\ rcv_nxt'[e] = nxt
      /\ \A x \in Endpoint \ {e} :
           /\ rcv_nxt'[x] = rcv_nxt[x] /\ rcv_buf'[x] = rcv_buf[x]
           /\ rcv_queue'[x] = rcv_queue[x]
  BY <1>7 DEF TypeOK, EndpointTypeOK
<1>9. Len(rcv_queue'[e]) = Len(queue) + Len(moved)
  BY <1>8
<1>10. Taken(e)' = rcv_nxt[e] - Len(queue)
  BY <1>2, <1>8, <1>9 DEF Taken
<1>11. Taken(e)' >= 0
  BY <1>2, <1>10 DEF InPlace
<1>12. \A i \in 1..Len(rcv_queue'[e]) :
         rcv_queue'[e][i] = stream[p][rcv_nxt[e] - Len(queue) + i]
  <2> SUFFICES ASSUME NEW i \in 1..(Len(queue) + Len(moved))
               PROVE  (queue \o moved)[i] =
                        stream[p][rcv_nxt[e] - Len(queue) + i]
    BY <1>8, <1>9
  <2>1. CASE i <= Len(queue)
    <3>1. (queue \o moved)[i] = queue[i]
      BY <1>2, <2>1
    <3>2. QED BY <1>2, <2>1, <3>1 DEF InPlace, PeerStream, p
  <2>2. CASE ~(i <= Len(queue))
    <3> DEFINE j == i - Len(queue)
    <3>1. j \in 1..Len(moved) /\ (queue \o moved)[i] = moved[j]
      BY <1>2, <2>2
    <3>2. [sn |-> rcv_nxt[e] + j - 1, frag |-> moved[j]] \in buf
      BY <1>4, <3>1
    <3> HIDE DEF j
    <3>3. moved[j] = stream[p][rcv_nxt[e] + j - 1 + 1]
      BY <3>2 DEF InPlace, PeerStream, p
    <3>4. rcv_nxt[e] + j - 1 + 1 = rcv_nxt[e] - Len(queue) + i
      BY <1>2, <2>2 DEF j
    <3>5. QED BY <3>1, <3>3, <3>4
  <2>3. QED BY <2>1, <2>2
<1>13. \A s \in rcv_buf'[e] :
         /\ s.sn >= nxt /\ s.sn < snd_nxt[p]
         /\ s.frag = stream[p][s.sn + 1]
  BY <1>8 DEF EraseBefore, InPlace, PeerStream, p
<1>14. ReceiverInvariant(e)'
  BY <1>5, <1>8, <1>10, <1>11, <1>12, <1>13 DEF ReceiverInvariant, p
<1>15. ASSUME NEW sn \in Nat, sn < rcv_nxt[e] \/ HasSn(buf, sn)
       PROVE  Holds(e, sn)'
  <2>1. CASE sn < nxt
    BY <1>8, <2>1 DEF Holds
  <2>2. CASE ~(sn < nxt)
    <3>1. HasSn(buf, sn)
      BY <1>2, <1>5, <1>15, <2>2
    <3>2. HasSn(rcv_buf'[e], sn)
      BY <1>5, <1>8, <2>2, <3>1 DEF HasSn, EraseBefore
    <3>3. QED BY <3>2 DEF Holds
  <2>3. QED BY <2>1, <2>2
<1>16. rcv_nxt[e] <= rcv_nxt'[e]
  BY <1>2, <1>8
<1>17. QED BY <1>8, <1>10, <1>14, <1>15, <1>16

\* What acknowledgements take out of the send buffer, the peer holds.
LEMMA InFlightShrinks ==
  ASSUME TypeOK, DeliveryInvariant, NEW e \in Endpoint,
         NEW buf \in SUBSET snd_buf[e],
         \A s \in snd_buf[e] : s \in buf \/ Holds(Peer(e), s.sn),
         SetInFlight(e, buf),
         rmt_wnd'[e] < SeqMod,
         UNCHANGED <<snd_queue, snd_nxt, stream>>
  PROVE  /\ SenderInvariant(e)'
         /\ \A x \in Endpoint \ {e} :
              snd_buf'[x] = snd_buf[x] /\ snd_una'[x] = snd_una[x]
         /\ \A sn \in 0..(snd_nxt[e] - 1) :
              HasSn(snd_buf'[e], sn) \/ Holds(Peer(e), sn)
<1>1. /\ snd_buf'[e] = buf /\ snd_una'[e] = RemoteUna(buf, snd_nxt[e])
      /\ \A x \in Endpoint \ {e} :
           snd_buf'[x] = snd_buf[x] /\ snd_una'[x] = snd_una[x]
  BY DEF SetInFlight, TypeOK, EndpointTypeOK
<1>2. SenderInvariant(e)
  BY DEF DeliveryInvariant, StreamInvariant
<1>3. SenderInvariant(e)'
  BY <1>1, <1>2 DEF SenderInvariant
<1>4. ASSUME NEW sn \in 0..(snd_nxt[e] - 1)
      PROVE  HasSn(buf, sn) \/ Holds(Peer(e), sn)
  <2>1. HasSn(snd_buf[e], sn) \/ Holds(Peer(e), sn)
    BY DEF DeliveryInvariant, NothingIsLost
  <2>2. CASE HasSn(snd_buf[e], sn)
    <3>1. PICK s \in snd_buf[e] : s.sn = sn
      BY <2>2 DEF HasSn
    <3>2. s \in buf \/ Holds(Peer(e), sn)
      BY <3>1
    <3>3. QED BY <3>1, <3>2 DEF HasSn
  <2>3. QED BY <2>1, <2>2
<1>5. QED BY <1>1, <1>3, <1>4

\* una_received(): every segment before una is one the peer holds.
LEMMA UnaIsHonest ==
  ASSUME TypeOK, DeliveryInvariant, NEW e \in Endpoint,
         NEW seg \in net, seg.src = Peer(e)
  PROVE  /\ UnaReceived(snd_buf[e], seg.una) \in SUBSET snd_buf[e]
         /\ \A s \in snd_buf[e] :
              s \in UnaReceived(snd_buf[e], seg.una) \/ Holds(Peer(e), s.sn)
<1>1. seg.una <= rcv_nxt[Peer(e)] /\ seg.una \in Nat /\ rcv_nxt[Peer(e)] \in Nat
  BY PeerProperties, EndpointTypes
     DEF DeliveryInvariant, AcksAreHonest, TypeOK, Segment
<1>2. \A s \in snd_buf[e] : s.sn \in Nat
  BY EndpointTypes DEF Stored
<1>3. QED BY <1>1, <1>2 DEF UnaReceived, EraseBefore, Holds

\* ack_received(): so is the segment that is acknowledged.
LEMMA AckIsHonest ==
  ASSUME TypeOK, DeliveryInvariant, NEW e \in Endpoint,
         NEW seg \in net, seg.src = Peer(e), seg.cmd = "ACK"
  PROVE  LET buf == AckReceived(UnaReceived(snd_buf[e], seg.una), snd_nxt[e],
                                seg.sn)
         IN  /\ buf \in SUBSET snd_buf[e]
             /\ \A s \in snd_buf[e] : s \in buf \/ Holds(Peer(e), s.sn)
<1> DEFINE una == UnaReceived(snd_buf[e], seg.una)
           buf == AckReceived(una, snd_nxt[e], seg.sn)
<1>1. /\ una \in SUBSET snd_buf[e]
      /\ \A s \in snd_buf[e] : s \in una \/ Holds(Peer(e), s.sn)
  BY UnaIsHonest
<1>2. Holds(Peer(e), seg.sn)
  BY DEF DeliveryInvariant, AcksAreHonest
<1> HIDE DEF una
<1>3. buf \in SUBSET una /\ \A s \in una : s \in buf \/ s.sn = seg.sn
  BY DEF AckReceived, Erase
<1> HIDE DEF buf
<1>4. buf \in SUBSET snd_buf[e] /\ \A s \in snd_buf[e] : s \in buf \/ Holds(Peer(e), s.sn)
  BY <1>1, <1>2, <1>3
<1>5. QED BY <1>4 DEF buf, una

-----------------------------------------------------------------------------
(* Steps that leave the streams and the network alone.                     *)

\* Endpoint x keeps what it holds and what it has acknowledged.
Keeps(x) ==
  /\ rcv_nxt[x] <= rcv_nxt'[x]
  /\ \A sn \in Nat : Holds(x, sn) => Holds(x, sn)'
  /\ \A sn \in acklist'[x] : Holds(x, sn)'

\* Whatever x has no longer in flight, its peer holds.
Covers(x) ==
  \A sn \in 0..(snd_nxt[x] - 1) :
    HasSn(snd_buf'[x], sn) \/ Holds(Peer(x), sn)

LEMMA NetFacts ==
  ASSUME TypeOK, DeliveryInvariant, NEW seg \in net
  PROVE  /\ seg.src \in Endpoint /\ seg.sn \in Nat /\ seg.una \in Nat
         /\ seg.una <= rcv_nxt[seg.src]
         /\ seg.cmd = "ACK" => Holds(seg.src, seg.sn)
         /\ AuthenticSegment(seg)
BY DEF TypeOK, Segment, DeliveryInvariant, AcksAreHonest, StreamInvariant

LEMMA QuietStep ==
  ASSUME TypeOK, DeliveryInvariant, TypeOK',
         UNCHANGED <<net, stream, snd_nxt>>,
         \A x \in Endpoint : /\ SenderInvariant(x)' /\ ReceiverInvariant(x)'
                             /\ Keeps(x) /\ Covers(x)
  PROVE  DeliveryInvariant'
<1>1. ASSUME NEW seg \in net'
      PROVE  /\ AuthenticSegment(seg)'
             /\ seg.cmd = "ACK" => Holds(seg.src, seg.sn)'
             /\ seg.una <= rcv_nxt'[seg.src]
  <2>1. seg \in net
    BY <1>1
  <2>2. /\ seg.src \in Endpoint /\ seg.sn \in Nat /\ seg.una \in Nat
        /\ seg.una <= rcv_nxt[seg.src]
        /\ seg.cmd = "ACK" => Holds(seg.src, seg.sn)
        /\ AuthenticSegment(seg)
    BY <2>1, NetFacts
  <2>3. AuthenticSegment(seg)'
    BY <2>2 DEF AuthenticSegment
  <2>4. seg.cmd = "ACK" => Holds(seg.src, seg.sn)'
    BY <2>2 DEF Keeps
  <2>5. seg.una <= rcv_nxt'[seg.src]
    <3>1. /\ rcv_nxt[seg.src] <= rcv_nxt'[seg.src]
          /\ rcv_nxt[seg.src] \in Nat /\ rcv_nxt'[seg.src] \in Nat
      BY <2>2 DEF Keeps, TypeOK, EndpointTypeOK
    <3>2. QED BY <2>2, <3>1
  <2>6. QED BY <2>3, <2>4, <2>5
<1>2. StreamInvariant'
  BY <1>1 DEF StreamInvariant
<1>3. AcksAreHonest'
  BY <1>1 DEF AcksAreHonest, Keeps
<1>4. NothingIsLost'
  <2> SUFFICES ASSUME NEW x \in Endpoint, NEW sn \in 0..(snd_nxt[x] - 1)
               PROVE  HasSn(snd_buf'[x], sn) \/ Holds(Peer(x), sn)'
    BY DEF NothingIsLost
  <2>1. HasSn(snd_buf'[x], sn) \/ Holds(Peer(x), sn)
    BY DEF Covers
  <2>2. sn \in Nat /\ Peer(x) \in Endpoint
    BY PeerProperties, EndpointTypes
  <2>3. QED BY <2>1, <2>2 DEF Keeps
<1>5. QED BY <1>2, <1>3, <1>4 DEF DeliveryInvariant

\* What a step does not touch stays as it was.
LEMMA SameSender ==
  ASSUME TypeOK, DeliveryInvariant, NEW x \in Endpoint,
         UNCHANGED <<stream, snd_nxt>>,
         snd_queue'[x] = snd_queue[x], snd_buf'[x] = snd_buf[x],
         snd_una'[x] = snd_una[x], rmt_wnd'[x] = rmt_wnd[x]
  PROVE  SenderInvariant(x)' /\ Covers(x)
<1>1. SenderInvariant(x)'
  BY DEF DeliveryInvariant, StreamInvariant, SenderInvariant
<1>2. Covers(x)
  BY DEF DeliveryInvariant, NothingIsLost, Covers
<1>3. QED BY <1>1, <1>2

LEMMA SameReceiver ==
  ASSUME TypeOK, DeliveryInvariant, NEW x \in Endpoint,
         UNCHANGED <<stream, snd_nxt>>,
         rcv_buf'[x] = rcv_buf[x], rcv_queue'[x] = rcv_queue[x],
         rcv_nxt'[x] = rcv_nxt[x], acklist'[x] \subseteq acklist[x]
  PROVE  ReceiverInvariant(x)' /\ Keeps(x)
<1>1. ReceiverInvariant(x)'
  BY DEF DeliveryInvariant, StreamInvariant, ReceiverInvariant, Taken
<1>2. \A sn \in Nat : Holds(x, sn) => Holds(x, sn)'
  BY DEF Holds
<1>3. rcv_nxt[x] <= rcv_nxt'[x]
  BY EndpointTypes
<1>4. \A sn \in acklist'[x] : Holds(x, sn)'
  <2>1. \A sn \in acklist[x] : Holds(x, sn) /\ sn \in Nat
    BY EndpointTypes DEF DeliveryInvariant, AcksAreHonest
  <2>2. QED BY <1>2, <2>1
<1>5. QED BY <1>1, <1>2, <1>3, <1>4 DEF Keeps

\* What recv() leaves in the queue is still in its place.
LEMMA RestInPlace ==
  ASSUME TypeOK, DeliveryInvariant, NEW e \in Endpoint,
         NEW k \in 1..Len(rcv_queue[e])
  PROVE  LET rest == SubSeq(rcv_queue[e], k + 1, Len(rcv_queue[e])) IN
         /\ rest \in Seq(Fragment) /\ Len(rest) = Len(rcv_queue[e]) - k
         /\ InPlace(e, rcv_buf[e], rest)
<1> DEFINE rest == SubSeq(rcv_queue[e], k + 1, Len(rcv_queue[e]))
<1>1. /\ rcv_queue[e] \in Seq(Fragment) /\ rcv_buf[e] \in SUBSET Stored
      /\ rcv_nxt[e] \in Nat /\ Len(rcv_queue[e]) \in Nat
  BY EndpointTypes
<1>2. /\ rest \in Seq(Fragment) /\ Len(rest) = Len(rcv_queue[e]) - k
      /\ \A i \in 1..Len(rest) : rest[i] = rcv_queue[e][k + i]
  BY <1>1
<1> HIDE DEF rest
<1>3. ReceiverInvariant(e)
  BY DEF DeliveryInvariant, StreamInvariant
<1>4. Len(rest) <= rcv_nxt[e]
  BY <1>1, <1>2, <1>3 DEF ReceiverInvariant, Taken
<1>5. ASSUME NEW i \in 1..Len(rest)
      PROVE  rest[i] = PeerStream(e)[rcv_nxt[e] - Len(rest) + i]
  <2>1. k + i \in 1..Len(rcv_queue[e])
    BY <1>1, <1>2
  <2>2. rcv_queue[e][k + i] = stream[Peer(e)][Taken(e) + (k + i)]
    BY <1>3, <2>1 DEF ReceiverInvariant
  <2>3. Taken(e) + (k + i) = rcv_nxt[e] - Len(rest) + i
    BY <1>1, <1>2 DEF Taken
  <2>4. QED BY <1>2, <2>2, <2>3 DEF PeerStream
<1>6. InPlace(e, rcv_buf[e], rest)
  BY <1>3, <1>4, <1>5 DEF InPlace, ReceiverInvariant, PeerStream
<1>7. QED BY <1>2, <1>6 DEF rest

LEMMA RecvDelivery ==
  ASSUME TypeOK, DeliveryInvariant, TypeOK', NEW e \in Endpoint, AppRecv(e)
  PROVE  DeliveryInvariant'
<1>1. PICK k \in 1..Len(rcv_queue[e]) :
        MoveReceiveBufferToQueue(e, rcv_buf[e],
          SubSeq(rcv_queue[e], k + 1, Len(rcv_queue[e])))
  BY DEF AppRecv, Recv
<1> DEFINE rest == SubSeq(rcv_queue[e], k + 1, Len(rcv_queue[e]))
<1>2. UNCHANGED <<senderVars, acklist, stream, accepted, net>>
  BY DEF AppRecv, Recv
<1>3. rcv_buf[e] \in SUBSET Stored
  BY EndpointTypes
<1>4. rest \in Seq(Fragment) /\ InPlace(e, rcv_buf[e], rest)
  BY RestInPlace
<1> HIDE DEF rest
<1>5. StreamInvariant
  BY DEF DeliveryInvariant
<1>6. MoveReceiveBufferToQueue(e, rcv_buf[e], rest)
  BY <1>1 DEF rest
<1>7. UNCHANGED <<stream, snd_nxt>>
  BY <1>2 DEF senderVars
<1>8. /\ ReceiverInvariant(e)'
      /\ rcv_nxt[e] <= rcv_nxt'[e]
      /\ \A sn \in Nat : sn < rcv_nxt[e] \/ HasSn(rcv_buf[e], sn) => Holds(e, sn)'
      /\ \A x \in Endpoint \ {e} :
           /\ rcv_nxt'[x] = rcv_nxt[x] /\ rcv_buf'[x] = rcv_buf[x]
           /\ rcv_queue'[x] = rcv_queue[x]
  BY <1>3, <1>4, <1>5, <1>6, <1>7, MoveInPlace
<1>9. Keeps(e)
  <2>1. \A sn \in acklist[e] : Holds(e, sn) /\ sn \in Nat
    BY EndpointTypes DEF DeliveryInvariant, AcksAreHonest
  <2>2. QED BY <1>2, <1>8, <2>1 DEF Keeps, Holds
<1>10. ASSUME NEW x \in Endpoint
       PROVE  /\ SenderInvariant(x)' /\ ReceiverInvariant(x)'
              /\ Keeps(x) /\ Covers(x)
  <2>1. SenderInvariant(x)' /\ Covers(x)
    BY <1>2, <1>7, SameSender DEF senderVars
  <2>2. ReceiverInvariant(x)' /\ Keeps(x)
    <3>1. CASE x = e BY <1>8, <1>9, <3>1
    <3>2. CASE x # e BY <1>2, <1>7, <1>8, <3>2, SameReceiver
    <3>3. QED BY <3>1, <3>2
  <2>3. QED BY <2>1, <2>2
<1>11. QED BY <1>2, <1>7, <1>10, QuietStep

-----------------------------------------------------------------------------
(* input().                                                                *)

\* A segment of the peer's stream that is not before rcv_nxt has its place.
LEMMA ArrivalInPlace ==
  ASSUME TypeOK, DeliveryInvariant, NEW e \in Endpoint,
         NEW seg \in net, seg.src = Peer(e), seg.cmd = "PUSH",
         ShouldReceive(e, seg.sn)
  PROVE  LET s == [sn |-> seg.sn, frag |-> seg.frag] IN
         /\ s \in Stored /\ rcv_buf[e] \union {s} \in SUBSET Stored
         /\ InPlace(e, rcv_buf[e] \union {s}, rcv_queue[e])
<1> DEFINE s == [sn |-> seg.sn, frag |-> seg.frag]
<1>1. /\ seg.sn \in Nat /\ seg.frag \in Fragment
      /\ seg.sn < snd_nxt[Peer(e)] /\ seg.sn >= rcv_nxt[e]
      /\ seg.frag = stream[Peer(e)][seg.sn + 1]
  BY DEF TypeOK, Segment, DeliveryInvariant, StreamInvariant,
         AuthenticSegment, ShouldReceive
<1>2. /\ rcv_nxt[e] \in Nat /\ rcv_buf[e] \in SUBSET Stored
      /\ rcv_queue[e] \in Seq(Fragment) /\ Len(rcv_queue[e]) \in Nat
  BY EndpointTypes
<1>3. s \in Stored /\ s.sn = seg.sn /\ s.frag = seg.frag
  BY <1>1 DEF Stored
<1> HIDE DEF s
<1>4. ReceiverInvariant(e)
  BY DEF DeliveryInvariant, StreamInvariant
<1>5. /\ Len(rcv_queue[e]) <= rcv_nxt[e]
      /\ \A i \in 1..Len(rcv_queue[e]) :
           rcv_queue[e][i] = PeerStream(e)[rcv_nxt[e] - Len(rcv_queue[e]) + i]
  BY <1>2, <1>4 DEF ReceiverInvariant, Taken, PeerStream
<1>6. \A t \in rcv_buf[e] \union {s} :
        /\ t.sn >= rcv_nxt[e] /\ t.sn < snd_nxt[Peer(e)]
        /\ t.frag = PeerStream(e)[t.sn + 1]
  BY <1>1, <1>3, <1>4 DEF ReceiverInvariant, PeerStream
<1>7. QED BY <1>2, <1>3, <1>5, <1>6 DEF InPlace, s

\* The receiver's part of a PUSH.
LEMMA PushKeeps ==
  ASSUME TypeOK, DeliveryInvariant, NEW e \in Endpoint,
         NEW seg \in net, seg.src = Peer(e), InputPush(e, seg),
         UNCHANGED <<stream, snd_nxt>>
  PROVE  \A x \in Endpoint : ReceiverInvariant(x)' /\ Keeps(x)
<1> DEFINE s == [sn |-> seg.sn, frag |-> seg.frag]
<1>1. /\ seg.sn \in Nat /\ seg.frag \in Fragment
      /\ seg.sn < snd_nxt[Peer(e)]
      /\ seg.frag = stream[Peer(e)][seg.sn + 1]
  BY DEF TypeOK, Segment, DeliveryInvariant, StreamInvariant,
         AuthenticSegment, InputPush
<1>2. /\ rcv_nxt[e] \in Nat /\ rcv_buf[e] \in SUBSET Stored
      /\ rcv_queue[e] \in Seq(Fragment) /\ Len(rcv_queue[e]) \in Nat
  BY EndpointTypes
<1>3. \A x \in Endpoint : \A sn \in acklist[x] : Holds(x, sn) /\ sn \in Nat
  BY EndpointTypes DEF DeliveryInvariant, AcksAreHonest
<1>4. \A x \in Endpoint \ {e} : acklist'[x] = acklist[x]
  BY DEF InputPush, TypeOK, EndpointTypeOK
<1>5. \A sn \in acklist'[e] :
        \/ sn \in acklist[e]
        \/ sn = seg.sn /\ FitsReceiveWindow(e, seg.sn)
  BY DEF InputPush, TypeOK, EndpointTypeOK
<1>6. CASE UNCHANGED <<rcv_buf, rcv_queue, rcv_nxt>> /\ Holds(e, seg.sn)
  <2>1. \A x \in Endpoint : \A sn \in acklist'[x] : Holds(x, sn)'
    BY <1>3, <1>4, <1>5, <1>6 DEF Holds
  <2>2. QED BY <1>2, <1>6, <2>1, EndpointTypes
       DEF Keeps, Holds, DeliveryInvariant, StreamInvariant,
           ReceiverInvariant, Taken
<1>7. CASE ~FitsReceiveWindow(e, seg.sn)
  <2>1. UNCHANGED <<acklist, rcv_buf, rcv_queue, rcv_nxt>>
    BY <1>7 DEF InputPush
  <2>2. QED BY <2>1, SameReceiver
<1>8. CASE MoveReceiveBufferToQueue(e, rcv_buf[e] \union {s}, rcv_queue[e])
           /\ seg.sn >= rcv_nxt[e]
  <2>1. rcv_buf[e] \union {s} \in SUBSET Stored
    BY <1>8, ArrivalInPlace DEF ShouldReceive, InputPush
  <2>2. StreamInvariant
    BY DEF DeliveryInvariant
  <2>3. InPlace(e, rcv_buf[e] \union {s}, rcv_queue[e])
    BY <1>8, ArrivalInPlace DEF ShouldReceive, InputPush
  <2>4. HasSn(rcv_buf[e] \union {s}, seg.sn)
    <3>1. s \in rcv_buf[e] \union {s} /\ s.sn = seg.sn OBVIOUS
    <3> HIDE DEF s
    <3>2. QED BY <3>1 DEF HasSn
  <2>5. \A sn \in Nat :
          HasSn(rcv_buf[e], sn) => HasSn(rcv_buf[e] \union {s}, sn)
    BY DEF HasSn
  <2> DEFINE buf == rcv_buf[e] \union {s}
  <2> HIDE DEF s, buf
  <2>6. /\ ReceiverInvariant(e)'
        /\ rcv_nxt[e] <= rcv_nxt'[e]
        /\ \A sn \in Nat : sn < rcv_nxt[e] \/ HasSn(buf, sn) => Holds(e, sn)'
        /\ \A x \in Endpoint \ {e} :
             /\ rcv_nxt'[x] = rcv_nxt[x] /\ rcv_buf'[x] = rcv_buf[x]
             /\ rcv_queue'[x] = rcv_queue[x]
    BY <1>2, <1>8, <2>1, <2>2, <2>3, MoveInPlace DEF buf
  <2>7. Keeps(e)
    <3>1. \A sn \in Nat : Holds(e, sn) => Holds(e, sn)'
      BY <2>5, <2>6 DEF Holds, buf
    <3>2. Holds(e, seg.sn)'
      BY <1>1, <2>4, <2>6 DEF buf
    <3>3. QED BY <1>3, <1>5, <2>6, <3>1, <3>2 DEF Keeps
  <2>8. QED BY <1>4, <2>6, <2>7, SameReceiver
<1>9. QED
  <2>1. CASE ~ShouldReceive(e, seg.sn) /\ UNCHANGED <<rcv_buf, rcv_queue, rcv_nxt>>
    <3>1. Holds(e, seg.sn)
      BY <1>1, <1>2, <2>1 DEF ShouldReceive, Holds
    <3>2. QED BY <1>6, <2>1, <3>1
  <2>2. CASE ShouldReceive(e, seg.sn) /\ EmplaceSegment(e, s)
    <3>1. CASE HasSn(rcv_buf[e], seg.sn) /\ UNCHANGED <<rcv_buf, rcv_queue, rcv_nxt>>
      BY <1>6, <3>1 DEF Holds
    <3>2. CASE MoveReceiveBufferToQueue(e, rcv_buf[e] \union {s}, rcv_queue[e])
      BY <1>8, <2>2, <3>2 DEF ShouldReceive
    <3>3. QED BY <2>2, <3>1, <3>2 DEF EmplaceSegment
  <2>3. QED BY <1>7, <2>1, <2>2 DEF InputPush

\* The sender's part: every segment brings a window and an una, an ACK also
\* the number of a segment.
LEMMA InputCovers ==
  ASSUME TypeOK, DeliveryInvariant, NEW e \in Endpoint,
         NEW seg \in net, seg.src = Peer(e), Input(e, seg),
         UNCHANGED <<stream, snd_nxt>>
  PROVE  \A x \in Endpoint : SenderInvariant(x)' /\ Covers(x)
<1>1. /\ rmt_wnd' = [rmt_wnd EXCEPT ![e] = seg.wnd]
      /\ UNCHANGED snd_queue
  BY DEF Input, InputPush, InputAck, InputWask, InputWins
<1>2. rmt_wnd'[e] < SeqMod /\ \A x \in Endpoint \ {e} : rmt_wnd'[x] = rmt_wnd[x]
  <2>1. seg.wnd < WndMod /\ seg.wnd \in Nat
    BY DEF DeliveryInvariant, StreamInvariant, AuthenticSegment, TypeOK, Segment
  <2>2. QED BY <1>1, <2>1, ConfigAssumption DEF TypeOK, EndpointTypeOK
<1>3. PICK buf \in SUBSET snd_buf[e] :
        /\ \A s \in snd_buf[e] : s \in buf \/ Holds(Peer(e), s.sn)
        /\ SetInFlight(e, buf)
  <2>1. CASE InputAck(e, seg)
    BY <2>1, AckIsHonest DEF InputAck
  <2>2. CASE InputPush(e, seg) \/ InputWask(e, seg) \/ InputWins(e, seg)
    BY <2>2, UnaIsHonest DEF InputPush, InputWask, InputWins
  <2>3. QED BY <2>1, <2>2 DEF Input
<1>4. /\ SenderInvariant(e)'
      /\ \A x \in Endpoint \ {e} :
           snd_buf'[x] = snd_buf[x] /\ snd_una'[x] = snd_una[x]
      /\ \A sn \in 0..(snd_nxt[e] - 1) :
           HasSn(snd_buf'[e], sn) \/ Holds(Peer(e), sn)
  BY <1>1, <1>2, <1>3, InFlightShrinks
<1>5. QED BY <1>1, <1>2, <1>4, SameSender DEF Covers

LEMMA ArriveDelivery ==
  ASSUME TypeOK, DeliveryInvariant, TypeOK', NEW e \in Endpoint, Arrive(e)
  PROVE  DeliveryInvariant'
<1>1. PICK seg \in net : seg.src = Peer(e) /\ Input(e, seg) /\ UNCHANGED net
  BY DEF Arrive
<1>2. UNCHANGED <<stream, snd_nxt>>
  BY <1>1 DEF Input, InputPush, InputAck, InputWask, InputWins, historyVars
<1>3. \A x \in Endpoint : SenderInvariant(x)' /\ Covers(x)
  BY <1>1, <1>2, InputCovers
<1>4. \A x \in Endpoint : ReceiverInvariant(x)' /\ Keeps(x)
  <2>1. CASE InputPush(e, seg)
    BY <1>1, <1>2, <2>1, PushKeeps
  <2>2. CASE UNCHANGED <<acklist, rcv_buf, rcv_queue, rcv_nxt>>
    BY <1>2, <2>2, SameReceiver
  <2>3. QED BY <1>1, <2>1, <2>2
              DEF Input, InputAck, InputWask, InputWins, receiverVars
<1>5. QED BY <1>1, <1>2, <1>3, <1>4, QuietStep

-----------------------------------------------------------------------------
(* send().                                                                 *)

LEMMA SameDistance ==
  ASSUME NEW x \in Int, NEW y \in Int, NEW z \in Int,
         NEW i \in Int, NEW j \in Int, x + y = z, i = y + j
  PROVE  x + i = z + j
OBVIOUS

LEMMA ConcatRight ==
  ASSUME NEW s \in Seq(Fragment), NEW t \in Seq(Fragment),
         NEW j \in 1..Len(t)
  PROVE  (s \o t)[Len(s) + j] = t[j]
<1>1. Len(s) \in Nat /\ Len(t) \in Nat
  OBVIOUS
<1>2. /\ Len(s) + j \in 1..(Len(s) + Len(t))
      /\ ~(Len(s) + j <= Len(s)) /\ Len(s) + j - Len(s) = j
  BY <1>1
<1>3. \A i \in 1..(Len(s) + Len(t)) :
        (s \o t)[i] = IF i <= Len(s) THEN s[i] ELSE t[i - Len(s)]
  BY ConcatProperties
<1>4. QED BY <1>2, <1>3

LEMMA SendDelivery ==
  ASSUME TypeOK, DeliveryInvariant, TypeOK', NEW e \in Endpoint, AppSend(e)
  PROVE  DeliveryInvariant'
<1>1. PICK n \in 1..MaxFragments : Send(e, n)
  BY DEF AppSend
<1> DEFINE frags == Fragments(Len(accepted[e]) + 1, n)
<1>2. frags \in Seq(Fragment) /\ Len(frags) \in Nat
  <2>1. n \in Nat /\ Len(accepted[e]) + 1 \in Nat
    BY ConfigAssumption DEF TypeOK, EndpointTypeOK
  <2>2. QED BY <2>1, FragmentsType
<1>3. /\ snd_queue' = [snd_queue EXCEPT ![e] = @ \o frags]
      /\ stream' = [stream EXCEPT ![e] = @ \o frags]
      /\ UNCHANGED <<snd_buf, snd_una, snd_nxt, rmt_wnd, acklist, rcv_buf,
                     rcv_queue, rcv_nxt, net>>
  BY <1>1 DEF Send, AppSend, receiverVars
<1> HIDE DEF frags
<1>4. /\ snd_queue'[e] = snd_queue[e] \o frags
      /\ stream'[e] = stream[e] \o frags
      /\ \A x \in Endpoint \ {e} :
           stream'[x] = stream[x] /\ snd_queue'[x] = snd_queue[x]
  BY <1>3 DEF TypeOK, EndpointTypeOK
<1>5. \A x \in Endpoint : \A i \in 1..Len(stream[x]) : stream'[x][i] = stream[x][i]
  <2>1. stream[e] \in Seq(Fragment)
    BY EndpointTypes
  <2>2. \A i \in 1..Len(stream[e]) : (stream[e] \o frags)[i] = stream[e][i]
    BY <1>2, <2>1
  <2>3. QED BY <1>4, <2>2
<1>6. \A x \in Endpoint :
        /\ SenderInvariant(x) /\ ReceiverInvariant(x)
        /\ snd_nxt[x] \in Nat /\ snd_nxt[x] <= Len(stream[x])
        /\ Len(stream[x]) \in Nat /\ Peer(x) \in Endpoint
  BY EndpointTypes, PeerProperties
     DEF DeliveryInvariant, StreamInvariant, SenderInvariant
<1>7. SenderInvariant(e)'
  <2>1. /\ snd_queue[e] \in Seq(Fragment) /\ stream[e] \in Seq(Fragment)
        /\ Len(snd_queue[e]) \in Nat
        /\ snd_nxt[e] + Len(snd_queue[e]) = Len(stream[e])
    BY <1>6, EndpointTypes DEF SenderInvariant
  <2>2. snd_nxt'[e] + Len(snd_queue'[e]) = Len(stream'[e])
    BY <1>2, <1>3, <1>4, <1>6, <2>1
  <2>3. ASSUME NEW i \in 1..Len(snd_queue'[e])
        PROVE  snd_queue'[e][i] = stream'[e][snd_nxt'[e] + i]
    <3>1. CASE i <= Len(snd_queue[e])
      <4>1. snd_queue'[e][i] = snd_queue[e][i]
        BY <1>2, <1>4, <2>1, <3>1
      <4>2. snd_queue[e][i] = stream[e][snd_nxt[e] + i]
        BY <1>6, <2>1, <3>1 DEF SenderInvariant
      <4>3. snd_nxt[e] + i \in 1..Len(stream[e])
        BY <1>6, <2>1, <3>1
      <4>4. QED BY <1>3, <1>5, <4>1, <4>2, <4>3
    <3>2. CASE ~(i <= Len(snd_queue[e]))
      <4> DEFINE j == i - Len(snd_queue[e])
      <4>1. Len(snd_queue[e] \o frags) = Len(snd_queue[e]) + Len(frags)
        BY <1>2, <2>1
      <4>2. /\ j \in 1..Len(frags) /\ i = Len(snd_queue[e]) + j
            /\ snd_nxt[e] + i = Len(stream[e]) + j
        <5>1. i \in 1..(Len(snd_queue[e]) + Len(frags))
          BY <1>4, <4>1
        <5>2. /\ snd_nxt[e] \in Nat /\ Len(stream[e]) \in Nat
              /\ Len(snd_queue[e]) \in Nat /\ Len(frags) \in Nat
              /\ snd_nxt[e] + Len(snd_queue[e]) = Len(stream[e])
          BY <1>2, <1>6, <2>1
        <5>3. j \in 1..Len(frags)
          BY <3>2, <5>1, <5>2
        <5>4. i = Len(snd_queue[e]) + j /\ i \in Int /\ j \in Int
          BY <5>1, <5>2
        <5> HIDE DEF j
        <5>5. /\ snd_nxt[e] \in Int /\ Len(stream[e]) \in Int
              /\ Len(snd_queue[e]) \in Int
          BY <5>2
        <5>6. snd_nxt[e] + Len(snd_queue[e]) = Len(stream[e])
          BY <5>2
        <5>7. snd_nxt[e] + i = Len(stream[e]) + j
          BY <5>4, <5>5, <5>6, SameDistance, SMTT(30)
        <5>8. QED BY <5>3, <5>4, <5>7
      <4> HIDE DEF j
      <4>3. /\ (stream[e] \o frags)[Len(stream[e]) + j] = frags[j]
            /\ (snd_queue[e] \o frags)[Len(snd_queue[e]) + j] = frags[j]
        BY <1>2, <2>1, <4>2, ConcatRight
      <4>4. QED BY <1>3, <1>4, <4>2, <4>3
    <3>3. QED BY <3>1, <3>2
  <2>4. ASSUME NEW s \in snd_buf'[e]
        PROVE  s.sn < snd_nxt'[e] /\ s.frag = stream'[e][s.sn + 1]
    <3>1. s \in snd_buf[e] /\ s.sn \in Nat
      BY <1>3, EndpointTypes DEF Stored
    <3>2. s.sn < snd_nxt[e] /\ s.frag = stream[e][s.sn + 1]
      BY <1>6, <3>1 DEF SenderInvariant
    <3>3. s.sn + 1 \in 1..Len(stream[e])
      BY <1>6, <3>1, <3>2
    <3>4. QED BY <1>3, <1>5, <3>2, <3>3
  <2>5. QED BY <1>3, <1>6, <2>2, <2>3, <2>4 DEF SenderInvariant
<1>8. ASSUME NEW x \in Endpoint PROVE SenderInvariant(x)'
  <2>1. CASE x = e BY <1>7, <2>1
  <2>2. CASE x # e
    <3>1. stream'[x] = stream[x] /\ snd_queue'[x] = snd_queue[x]
      BY <1>4, <2>2
    <3>2. /\ snd_buf'[x] = snd_buf[x] /\ snd_una'[x] = snd_una[x]
          /\ snd_nxt'[x] = snd_nxt[x] /\ rmt_wnd'[x] = rmt_wnd[x]
      BY <1>3
    <3>3. SenderInvariant(x)
      BY <1>6
    <3>4. QED BY <3>1, <3>2, <3>3 DEF SenderInvariant
  <2>3. QED BY <2>1, <2>2
<1>9. ASSUME NEW x \in Endpoint PROVE ReceiverInvariant(x)'
  <2>1. /\ rcv_nxt[x] \in Nat /\ Len(rcv_queue[x]) \in Nat
        /\ rcv_nxt[x] <= Len(stream[Peer(x)]) /\ Taken(x) \in Nat
        /\ Taken(x)' = Taken(x) /\ Len(rcv_queue[x]) <= rcv_nxt[x]
    <3>1. rcv_nxt[x] \in Nat /\ Len(rcv_queue[x]) \in Nat
      BY EndpointTypes
    <3>2. rcv_nxt[x] <= snd_nxt[Peer(x)] /\ Taken(x) >= 0
      BY <1>6 DEF ReceiverInvariant
    <3>3. Taken(x)' = Taken(x)
      BY <1>3 DEF Taken
    <3>4. /\ snd_nxt[Peer(x)] <= Len(stream[Peer(x)])
          /\ snd_nxt[Peer(x)] \in Nat /\ Len(stream[Peer(x)]) \in Nat
      BY <1>6
    <3>5. QED BY <3>1, <3>2, <3>3, <3>4 DEF Taken
  <2>2. ASSUME NEW i \in 1..Len(rcv_queue[x])
        PROVE  rcv_queue[x][i] = stream'[Peer(x)][Taken(x) + i]
    <3>1. Taken(x) + i \in 1..Len(stream[Peer(x)])
      BY <1>6, <2>1 DEF Taken
    <3>2. QED BY <1>5, <1>6, <3>1 DEF ReceiverInvariant
  <2>3. ASSUME NEW s \in rcv_buf[x]
        PROVE  s.frag = stream'[Peer(x)][s.sn + 1]
    <3>1. s.sn \in Nat
      BY EndpointTypes DEF Stored
    <3>2. s.sn < snd_nxt[Peer(x)] /\ s.frag = stream[Peer(x)][s.sn + 1]
      BY <1>6 DEF ReceiverInvariant
    <3>3. s.sn + 1 \in 1..Len(stream[Peer(x)])
      BY <1>6, <3>1, <3>2
    <3>4. QED BY <1>5, <1>6, <3>2, <3>3
  <2>4. QED BY <1>3, <1>6, <2>1, <2>2, <2>3 DEF ReceiverInvariant
<1>10. ASSUME NEW seg \in net PROVE AuthenticSegment(seg)'
  <2>1. AuthenticSegment(seg) /\ seg.src \in Endpoint /\ seg.sn \in Nat
    BY NetFacts
  <2>2. CASE seg.cmd = "PUSH"
    <3>1. seg.sn + 1 \in 1..Len(stream[seg.src])
      BY <1>6, <2>1, <2>2 DEF AuthenticSegment
    <3>2. QED BY <1>3, <1>5, <2>1, <3>1 DEF AuthenticSegment
  <2>3. QED BY <2>1, <2>2 DEF AuthenticSegment
<1>11. StreamInvariant'
  BY <1>3, <1>8, <1>9, <1>10 DEF StreamInvariant
<1>12. NothingIsLost' /\ AcksAreHonest'
  BY <1>3 DEF DeliveryInvariant, NothingIsLost, AcksAreHonest, Holds
<1>13. QED BY <1>11, <1>12 DEF DeliveryInvariant

-----------------------------------------------------------------------------
(* flush().                                                                *)

LEMMA MinIsUnique ==
  ASSUME NEW S \in SUBSET Nat, NEW n \in S, \A x \in S : n <= x
  PROVE  Min(S) = n
<1>1. Min(S) \in S /\ \A x \in S : Min(S) =< x
  BY MinOfNaturals
<1>2. Min(S) \in Nat /\ n \in Nat /\ Min(S) <= n /\ n <= Min(S)
  BY <1>1
<1>3. QED BY <1>2

\* The sequence numbers from a on, counted from 1.
LEMMA PositionOf ==
  ASSUME NEW a \in Nat, NEW n \in Nat, NEW sn \in a..(a + n - 1)
  PROVE  \E i \in 1..n : sn = a + i - 1
<1>1. sn - a + 1 \in 1..n
  OBVIOUS
<1>2. sn = a + (sn - a + 1) - 1
  OBVIOUS
<1>3. QED BY <1>1, <1>2

\* move_send_queue_to_buffer() takes the next fragments of the stream.
LEMMA MovedInPlace ==
  ASSUME TypeOK, DeliveryInvariant, NEW e \in Endpoint,
         NEW cwnd \in 0..SendLimit(e)
  PROVE  LET n == MoveCount(e, cwnd) IN
         /\ n \in 0..Len(snd_queue[e])
         /\ snd_nxt[e] + n < SeqMod
         /\ (snd_nxt[e] + n) % SeqMod = snd_nxt[e] + n
         /\ \A s \in Moved(e, cwnd) :
              /\ s.sn \in snd_nxt[e]..(snd_nxt[e] + n - 1)
              /\ s.frag = stream[e][s.sn + 1]
         /\ \A sn \in snd_nxt[e]..(snd_nxt[e] + n - 1) :
              HasSn(Moved(e, cwnd), sn)
<1> DEFINE n == MoveCount(e, cwnd)
<1>1. /\ cwnd \in Nat /\ snd_nxt[e] \in Nat /\ snd_una[e] \in Nat
      /\ Len(snd_queue[e]) \in Nat /\ SeqMod \in Nat \ {0}
      /\ snd_nxt[e] < SeqMod
  BY WindowTypes, EndpointTypes, ConfigAssumption
     DEF DeliveryInvariant, StreamInvariant, SenderInvariant
<1>2. /\ n \in 0..Len(snd_queue[e])
      /\ n = 0 \/ snd_nxt[e] + n <= (snd_una[e] + cwnd) % SeqMod
  BY <1>1, MoveCountType
<1>3. (snd_una[e] + cwnd) % SeqMod \in 0..(SeqMod - 1)
  BY <1>1
<1> HIDE DEF n
<1>4. snd_nxt[e] + n < SeqMod /\ snd_nxt[e] + n \in Nat /\ n \in Nat
  BY <1>1, <1>2, <1>3
<1>5. (snd_nxt[e] + n) % SeqMod = snd_nxt[e] + n
  BY <1>1, <1>4, SmallMod
<1>6. ASSUME NEW s \in Moved(e, cwnd)
      PROVE  /\ s.sn \in snd_nxt[e]..(snd_nxt[e] + n - 1)
             /\ s.frag = stream[e][s.sn + 1]
  <2>1. PICK i \in 1..n : s = [sn |-> snd_nxt[e] + i - 1, frag |-> snd_queue[e][i]]
    BY DEF Moved, n
  <2>2. snd_queue[e][i] = stream[e][snd_nxt[e] + i]
    BY <1>1, <1>2, <2>1
       DEF DeliveryInvariant, StreamInvariant, SenderInvariant
  <2>3. s.sn = snd_nxt[e] + i - 1 /\ s.frag = snd_queue[e][i]
    BY <2>1
  <2>4. s.sn + 1 = snd_nxt[e] + i /\ s.sn \in snd_nxt[e]..(snd_nxt[e] + n - 1)
    BY <1>1, <1>4, <2>3
  <2>5. QED BY <2>2, <2>3, <2>4
<1>7. ASSUME NEW sn \in snd_nxt[e]..(snd_nxt[e] + n - 1)
      PROVE  HasSn(Moved(e, cwnd), sn)
  <2>1. PICK i \in 1..n : sn = snd_nxt[e] + i - 1
    BY <1>1, <1>4, PositionOf
  <2> DEFINE s == [sn |-> snd_nxt[e] + i - 1, frag |-> snd_queue[e][i]]
  <2>2. s.sn = sn
    BY <2>1
  <2>3. s \in Moved(e, cwnd)
    BY <2>1 DEF Moved, n
  <2> HIDE DEF s
  <2>4. QED BY <2>2, <2>3 DEF HasSn
<1>8. QED BY <1>2, <1>4, <1>5, <1>6, <1>7 DEF n

\* snd_una stays the first segment in flight when segments join at the end.
LEMMA UnaOfLonger ==
  ASSUME NEW buf \in SUBSET Stored, NEW new \in SUBSET Stored,
         NEW nxt \in Nat, NEW n \in Nat,
         \A s \in buf : s.sn < nxt,
         \A s \in new : s.sn \in nxt..(nxt + n - 1),
         \A sn \in nxt..(nxt + n - 1) : HasSn(new, sn)
  PROVE  RemoteUna(buf \union new, nxt + n) = RemoteUna(buf, nxt)
<1>1. \A s \in buf \union new : s.sn \in Nat
  BY DEF Stored
<1>2. CASE buf = {} /\ n = 0
  <2>1. new = {} BY <1>2
  <2>2. QED BY <1>2, <2>1 DEF RemoteUna
<1>3. CASE buf = {} /\ n # 0
  <2>1. HasSn(new, nxt)
    BY <1>3
  <2>2. /\ Sns(buf \union new) \in SUBSET Nat /\ nxt \in Sns(buf \union new)
        /\ \A x \in Sns(buf \union new) : nxt <= x
    BY <1>1, <1>3, <2>1 DEF Sns, HasSn
  <2>3. Min(Sns(buf \union new)) = nxt
    BY <2>2, MinIsUnique
  <2>4. buf \union new # {}
    BY <2>1 DEF HasSn
  <2>5. QED BY <1>3, <2>3, <2>4 DEF RemoteUna
<1>4. CASE buf # {}
  <2> DEFINE m == RemoteUna(buf, nxt)
  <2>1. /\ m \in Nat /\ HasSn(buf, m) /\ \A s \in buf : m <= s.sn
    BY <1>4, RemoteUnaType
  <2>2. m < nxt
    BY <2>1 DEF HasSn
  <2> HIDE DEF m
  <2>3. \A s \in new : m <= s.sn
    BY <2>1, <2>2
  <2>4. /\ Sns(buf \union new) \in SUBSET Nat /\ m \in Sns(buf \union new)
        /\ \A x \in Sns(buf \union new) : m <= x
    BY <1>1, <2>1, <2>3 DEF Sns, HasSn
  <2>5. Min(Sns(buf \union new)) = m
    BY <2>4, MinIsUnique
  <2>6. QED BY <1>4, <2>5 DEF RemoteUna, m
<1>5. QED BY <1>2, <1>3, <1>4

\* What is left of a sequence without its first n elements.
LEMMA SuffixOf ==
  ASSUME NEW S, NEW q \in Seq(S), NEW n \in 0..Len(q)
  PROVE  /\ Len(SubSeq(q, n + 1, Len(q))) = Len(q) - n
         /\ \A i \in 1..(Len(q) - n) : SubSeq(q, n + 1, Len(q))[i] = q[n + i]
<1>1. Len(q) \in Nat /\ n \in Nat /\ n <= Len(q)
  OBVIOUS
<1>2. \A i \in (n + 1)..Len(q) : q[i] \in S
  BY <1>1
<1>3. /\ Len(SubSeq(q, n + 1, Len(q)))
           = IF n + 1 <= Len(q) THEN Len(q) - (n + 1) + 1 ELSE 0
      /\ \A i \in 1..(Len(q) - (n + 1) + 1) :
           SubSeq(q, n + 1, Len(q))[i] = q[n + 1 + i - 1]
  <2>1. n + 1 \in Int /\ Len(q) \in Int BY <1>1
  <2>2. QED BY <1>2, <2>1, SubSeqProperties
<1>4. Len(SubSeq(q, n + 1, Len(q))) = Len(q) - n
  BY <1>1, <1>3
<1>5. ASSUME NEW i \in 1..(Len(q) - n)
      PROVE  SubSeq(q, n + 1, Len(q))[i] = q[n + i]
  <2>1. i \in 1..(Len(q) - (n + 1) + 1) /\ n + 1 + i - 1 = n + i
    BY <1>1
  <2>2. SubSeq(q, n + 1, Len(q))[i] = q[n + 1 + i - 1]
    BY <1>3, <2>1
  <2>3. QED BY <2>1, <2>2
<1>6. QED BY <1>4, <1>5

\* The sender's part of a flush.
LEMMA FlushSender ==
  ASSUME TypeOK, DeliveryInvariant, NEW e \in Endpoint,
         NEW cwnd \in 0..SendLimit(e), NEW due, NEW ask,
         Flush(e, cwnd, due, ask)
  PROVE  /\ \A x \in Endpoint : SenderInvariant(x)' /\ snd_nxt[x] <= snd_nxt'[x]
         /\ \A x \in Endpoint : \A sn \in 0..(snd_nxt'[x] - 1) :
              HasSn(snd_buf'[x], sn) \/ Holds(Peer(x), sn)
         /\ \A s \in Moved(e, cwnd) :
              s.sn < snd_nxt'[e] /\ s.frag = stream[e][s.sn + 1]
<1> DEFINE n == MoveCount(e, cwnd)
<1>1. /\ n \in 0..Len(snd_queue[e])
      /\ snd_nxt[e] + n < SeqMod
      /\ (snd_nxt[e] + n) % SeqMod = snd_nxt[e] + n
      /\ \A s \in Moved(e, cwnd) :
           /\ s.sn \in snd_nxt[e]..(snd_nxt[e] + n - 1)
           /\ s.frag = stream[e][s.sn + 1]
      /\ \A sn \in snd_nxt[e]..(snd_nxt[e] + n - 1) : HasSn(Moved(e, cwnd), sn)
  BY MovedInPlace
<1>2. /\ snd_nxt[e] \in Nat /\ Len(snd_queue[e]) \in Nat /\ n \in Nat
      /\ snd_queue[e] \in Seq(Fragment) /\ snd_buf[e] \in SUBSET Stored
      /\ cwnd \in Nat
  BY <1>1, EndpointTypes, WindowTypes
<1>3. /\ snd_buf'[e] = snd_buf[e] \union Moved(e, cwnd)
      /\ snd_nxt'[e] = snd_nxt[e] + n
      /\ snd_queue'[e] = SubSeq(snd_queue[e], n + 1, Len(snd_queue[e]))
      /\ \A x \in Endpoint \ {e} :
           /\ snd_buf'[x] = snd_buf[x] /\ snd_nxt'[x] = snd_nxt[x]
           /\ snd_queue'[x] = snd_queue[x]
      /\ UNCHANGED <<snd_una, rmt_wnd, stream>>
  BY <1>1 DEF Flush, TypeOK, EndpointTypeOK, historyVars
<1> HIDE DEF n
<1>4. \A x \in Endpoint : SenderInvariant(x) /\ snd_nxt[x] \in Nat
  BY EndpointTypes DEF DeliveryInvariant, StreamInvariant
<1>5. SenderInvariant(e)'
  <2>1. /\ Len(snd_queue'[e]) = Len(snd_queue[e]) - n
        /\ \A i \in 1..Len(snd_queue'[e]) :
             snd_queue'[e][i] = snd_queue[e][n + i]
    <3> DEFINE q == snd_queue[e]
    <3>1. q \in Seq(Fragment) /\ n \in 0..Len(q) BY <1>1, <1>2
    <3>2. snd_queue'[e] = SubSeq(q, n + 1, Len(q)) BY <1>3
    <3>3. Len(q) \in Nat /\ n \in Nat BY <1>2
    <3> HIDE DEF q
    <3>4. /\ Len(SubSeq(q, n + 1, Len(q))) = Len(q) - n
          /\ \A i \in 1..(Len(q) - n) : SubSeq(q, n + 1, Len(q))[i] = q[n + i]
      BY <3>1, SuffixOf
    <3>5. /\ Len(snd_queue'[e]) = Len(q) - n
          /\ \A i \in 1..Len(snd_queue'[e]) : snd_queue'[e][i] = q[n + i]
      BY <3>2, <3>4
    <3>6. QED BY <3>5 DEF q
  <2>2. snd_nxt'[e] + Len(snd_queue'[e]) = Len(stream'[e])
    <3>1. snd_nxt[e] + Len(snd_queue[e]) = Len(stream[e])
      BY <1>4 DEF SenderInvariant
    <3>2. QED BY <1>2, <1>3, <2>1, <3>1
  <2>3. ASSUME NEW i \in 1..Len(snd_queue'[e])
        PROVE  snd_queue'[e][i] = stream'[e][snd_nxt'[e] + i]
    <3>1. n + i \in 1..Len(snd_queue[e]) /\ i \in Nat
      BY <1>1, <1>2, <2>1
    <3>2. snd_queue[e][n + i] = stream[e][snd_nxt[e] + (n + i)]
      BY <1>4, <3>1 DEF SenderInvariant
    <3>3. snd_nxt[e] + (n + i) = snd_nxt[e] + n + i
      BY <1>2, <3>1
    <3>4. QED BY <1>3, <2>1, <3>2, <3>3
  <2>4. \A s \in snd_buf'[e] :
          s.sn < snd_nxt'[e] /\ s.frag = stream'[e][s.sn + 1]
    <3>1. \A s \in snd_buf[e] :
            /\ s.sn < snd_nxt[e] /\ s.frag = stream[e][s.sn + 1]
            /\ s.sn \in Nat
      BY <1>2, <1>4 DEF SenderInvariant, Stored
    <3>2. QED BY <1>1, <1>2, <1>3, <3>1
  <2>5. snd_una'[e] = RemoteUna(snd_buf'[e], snd_nxt'[e])
    <3>1. Moved(e, cwnd) \in SUBSET Stored
      BY <1>2, MovedType
    <3>2. \A s \in snd_buf[e] : s.sn < snd_nxt[e]
      BY <1>4 DEF SenderInvariant
    <3> DEFINE new == Moved(e, cwnd)
    <3>a. /\ \A s \in new : s.sn \in snd_nxt[e]..(snd_nxt[e] + n - 1)
          /\ \A sn \in snd_nxt[e]..(snd_nxt[e] + n - 1) : HasSn(new, sn)
          /\ new \in SUBSET Stored
      BY <1>1, <3>1
    <3>b. /\ snd_buf[e] \in SUBSET Stored
          /\ snd_nxt[e] \in Nat /\ n \in Nat
      BY <1>2
    <3> HIDE DEF new
    <3>c. RemoteUna(snd_buf[e] \union new, snd_nxt[e] + n)
            = RemoteUna(snd_buf[e], snd_nxt[e])
      BY <3>a, <3>b, <3>2, UnaOfLonger
    <3>3. RemoteUna(snd_buf[e] \union Moved(e, cwnd), snd_nxt[e] + n)
            = RemoteUna(snd_buf[e], snd_nxt[e])
      BY <3>c DEF new
    <3>4. QED BY <1>3, <1>4, <3>3 DEF SenderInvariant
  <2>6. snd_nxt'[e] < SeqMod /\ rmt_wnd'[e] < SeqMod
    BY <1>1, <1>3, <1>4 DEF SenderInvariant
  <2>7. QED BY <2>2, <2>3, <2>4, <2>5, <2>6 DEF SenderInvariant
<1>6. ASSUME NEW x \in Endpoint
      PROVE  SenderInvariant(x)' /\ snd_nxt[x] <= snd_nxt'[x]
  <2>1. CASE x = e BY <1>2, <1>3, <1>5, <2>1
  <2>2. CASE x # e
    <3>1. /\ snd_buf'[x] = snd_buf[x] /\ snd_nxt'[x] = snd_nxt[x]
          /\ snd_queue'[x] = snd_queue[x] /\ snd_una'[x] = snd_una[x]
          /\ rmt_wnd'[x] = rmt_wnd[x] /\ stream'[x] = stream[x]
      BY <1>3, <2>2
    <3>2. SenderInvariant(x) /\ snd_nxt[x] \in Nat
      BY <1>4
    <3>3. QED BY <3>1, <3>2 DEF SenderInvariant
  <2>3. QED BY <2>1, <2>2
<1>7. ASSUME NEW x \in Endpoint, NEW sn \in 0..(snd_nxt'[x] - 1)
      PROVE  HasSn(snd_buf'[x], sn) \/ Holds(Peer(x), sn)
  <2>1. \A t \in 0..(snd_nxt[x] - 1) : HasSn(snd_buf[x], t) \/ Holds(Peer(x), t)
    BY DEF DeliveryInvariant, NothingIsLost
  <2>2. CASE x = e
    <3>1. CASE sn < snd_nxt[e]
      <4>1. sn \in 0..(snd_nxt[x] - 1)
        BY <1>2, <2>2, <3>1
      <4>2. HasSn(snd_buf[e], sn) => HasSn(snd_buf'[e], sn)
        BY <1>3 DEF HasSn
      <4>3. QED BY <2>1, <2>2, <4>1, <4>2
    <3>2. CASE ~(sn < snd_nxt[e])
      <4>1. sn \in snd_nxt[e]..(snd_nxt[e] + n - 1)
        BY <1>2, <1>3, <2>2, <3>2
      <4>2. HasSn(Moved(e, cwnd), sn)
        BY <1>1, <4>1
      <4>3. QED BY <1>3, <2>2, <4>2 DEF HasSn
    <3>3. QED BY <3>1, <3>2
  <2>3. CASE x # e
    BY <1>3, <2>1, <2>3
  <2>4. QED BY <2>2, <2>3
<1>8. \A s \in Moved(e, cwnd) :
        s.sn < snd_nxt'[e] /\ s.frag = stream[e][s.sn + 1]
  BY <1>1, <1>2, <1>3
<1>9. QED BY <1>6, <1>7, <1>8

\* Whatever a flush sends is true when it is sent.
LEMMA OutputIsHonest ==
  ASSUME TypeOK, DeliveryInvariant, NEW e \in Endpoint,
         NEW cwnd \in 0..SendLimit(e), NEW due \in SUBSET snd_buf[e],
         NEW ask \in BOOLEAN, NEW seg \in FlushOutput(e, cwnd, due, ask)
  PROVE  /\ seg.src = e /\ seg.una = rcv_nxt[e] /\ seg.wnd < WndMod
         /\ seg.cmd = "ACK" => Holds(e, seg.sn)
         /\ seg.cmd = "PUSH" =>
              \E s \in Moved(e, cwnd) \union snd_buf[e] :
                seg.sn = s.sn /\ seg.frag = s.frag
<1>1. UnusedReceiveWindow(e) % WndMod < WndMod
  <2>1. UnusedReceiveWindow(e) \in Nat /\ WndMod \in Nat \ {0}
    BY WindowTypes, ConfigAssumption
  <2>2. QED BY <2>1
<1>2. \A sn \in acklist[e] : Holds(e, sn)
  BY DEF DeliveryInvariant, AcksAreHonest
<1>3. CASE seg \in Acks(e)
  BY <1>1, <1>2, <1>3 DEF Acks, Header
<1>4. CASE seg \in Probes(e, ask)
  <2>1. PICK cmd \in {"WASK", "WINS"} : seg = Header(e, cmd, 0, NoFragment)
    BY <1>4 DEF Probes
  <2>2. QED BY <1>1, <2>1 DEF Header
<1>5. CASE seg \in Pushes(e, Moved(e, cwnd) \union due)
  <2>1. PICK s \in Moved(e, cwnd) \union snd_buf[e] :
          seg = Header(e, "PUSH", s.sn, s.frag)
    BY <1>5 DEF Pushes
  <2>2. QED BY <1>1, <2>1 DEF Header
<1>6. QED BY <1>3, <1>4, <1>5 DEF FlushOutput

LEMMA UpdateDelivery ==
  ASSUME TypeOK, DeliveryInvariant, TypeOK', NEW e \in Endpoint, Update(e)
  PROVE  DeliveryInvariant'
<1>1. PICK cwnd \in 0..SendLimit(e), due \in SUBSET snd_buf[e], ask \in BOOLEAN :
        /\ Flush(e, cwnd, due, ask)
        /\ net' = net \union FlushOutput(e, cwnd, due, ask)
  BY DEF Update
<1>2. /\ \A x \in Endpoint : SenderInvariant(x)' /\ snd_nxt[x] <= snd_nxt'[x]
      /\ \A x \in Endpoint : \A sn \in 0..(snd_nxt'[x] - 1) :
           HasSn(snd_buf'[x], sn) \/ Holds(Peer(x), sn)
      /\ \A s \in Moved(e, cwnd) :
           s.sn < snd_nxt'[e] /\ s.frag = stream[e][s.sn + 1]
  BY <1>1, FlushSender
<1>3. UNCHANGED <<rcv_buf, rcv_queue, rcv_nxt, stream>>
  BY <1>1 DEF Flush, historyVars
<1>4. \A x \in Endpoint : acklist'[x] \subseteq acklist[x]
  BY <1>1 DEF Flush, TypeOK, EndpointTypeOK
<1>5. \A x \in Endpoint : snd_nxt[x] \in Nat /\ snd_nxt'[x] \in Nat
  BY DEF TypeOK, EndpointTypeOK
<1>6. ASSUME NEW x \in Endpoint PROVE ReceiverInvariant(x)'
  <2>1. /\ snd_nxt[Peer(x)] <= snd_nxt'[Peer(x)]
        /\ snd_nxt[Peer(x)] \in Nat /\ snd_nxt'[Peer(x)] \in Nat
    BY <1>2, <1>5, PeerProperties
  <2>2. ReceiverInvariant(x) /\ rcv_nxt[x] \in Nat
    BY EndpointTypes DEF DeliveryInvariant, StreamInvariant
  <2>3. \A s \in rcv_buf[x] : s.sn \in Nat
    BY EndpointTypes DEF Stored
  <2>4. QED BY <1>3, <2>1, <2>2, <2>3 DEF ReceiverInvariant, Taken
<1>7. ASSUME NEW seg \in net'
      PROVE  /\ AuthenticSegment(seg)'
             /\ seg.cmd = "ACK" => Holds(seg.src, seg.sn)
             /\ seg.una <= rcv_nxt[seg.src]
  <2>1. CASE seg \in net
    <3>1. /\ seg.src \in Endpoint /\ seg.sn \in Nat
          /\ seg.una <= rcv_nxt[seg.src] /\ AuthenticSegment(seg)
          /\ seg.cmd = "ACK" => Holds(seg.src, seg.sn)
      BY <2>1, NetFacts
    <3>2. AuthenticSegment(seg)'
      BY <1>2, <1>3, <1>5, <3>1 DEF AuthenticSegment
    <3>3. QED BY <3>1, <3>2
  <2>2. CASE seg \in FlushOutput(e, cwnd, due, ask)
    <3>1. /\ seg.src = e /\ seg.una = rcv_nxt[e] /\ seg.wnd < WndMod
          /\ seg.cmd = "ACK" => Holds(e, seg.sn)
          /\ seg.cmd = "PUSH" =>
               \E s \in Moved(e, cwnd) \union snd_buf[e] :
                 seg.sn = s.sn /\ seg.frag = s.frag
      BY <1>1, <2>2, OutputIsHonest
    <3>2. \A s \in snd_buf[e] :
            s.sn < snd_nxt'[e] /\ s.frag = stream[e][s.sn + 1]
      <4>1. \A s \in snd_buf[e] :
              /\ s.sn < snd_nxt[e] /\ s.frag = stream[e][s.sn + 1]
              /\ s.sn \in Nat
        BY EndpointTypes
           DEF DeliveryInvariant, StreamInvariant, SenderInvariant, Stored
      <4>2. QED BY <1>2, <1>5, <4>1
    <3>3. AuthenticSegment(seg)'
      BY <1>2, <1>3, <3>1, <3>2 DEF AuthenticSegment
    <3>4. rcv_nxt[e] \in Nat
      BY EndpointTypes
    <3>5. QED BY <3>1, <3>3, <3>4
  <2>3. QED BY <1>1, <2>1, <2>2
<1>8. StreamInvariant'
  BY <1>2, <1>6, <1>7 DEF StreamInvariant
<1>9. NothingIsLost'
  BY <1>2, <1>3 DEF NothingIsLost, Holds
<1>10. AcksAreHonest'
  <2>1. \A x \in Endpoint : \A sn \in acklist'[x] : Holds(x, sn)
    BY <1>4 DEF DeliveryInvariant, AcksAreHonest
  <2>2. QED BY <1>3, <1>7, <2>1 DEF AcksAreHonest, Holds
<1>11. QED BY <1>8, <1>9, <1>10 DEF DeliveryInvariant

-----------------------------------------------------------------------------
(* set_send_window() and set_receive_window() touch no segment.            *)

LEMMA ResizeDelivery ==
  ASSUME TypeOK, DeliveryInvariant, TypeOK', NEW e \in Endpoint, Resize(e)
  PROVE  DeliveryInvariant'
<1>1. /\ UNCHANGED <<snd_queue, snd_buf, snd_una, snd_nxt, receiverVars,
                     historyVars, net>>
      /\ \A x \in Endpoint : rmt_wnd'[x] < SeqMod
  <2>1. \A x \in Endpoint : rmt_wnd[x] < SeqMod
    BY DEF DeliveryInvariant, StreamInvariant, SenderInvariant
  <2>2. CASE \E n \in SendWindow[e] : SetSendWindow(e, n)
    <3>1. PICK n \in SendWindow[e] : SetSendWindow(e, n)
      BY <2>2
    <3>2. n < SeqMod
      BY ConfigAssumption
    <3>3. QED BY <2>1, <3>1, <3>2
              DEF Resize, SetSendWindow, TypeOK, EndpointTypeOK
  <2>3. CASE \E n \in ReceiveWindow[e] : SetReceiveWindow(e, n)
    BY <2>1, <2>3 DEF Resize, SetReceiveWindow, senderVars
  <2>4. QED BY <2>2, <2>3 DEF Resize
<1>2. UNCHANGED <<stream, acklist, rcv_buf, rcv_queue, rcv_nxt>>
  BY <1>1 DEF receiverVars, historyVars
<1>3. ASSUME NEW x \in Endpoint
      PROVE  /\ SenderInvariant(x)' /\ ReceiverInvariant(x)'
             /\ Keeps(x) /\ Covers(x)
  <2>1. SenderInvariant(x)'
    BY <1>1, <1>2 DEF DeliveryInvariant, StreamInvariant, SenderInvariant
  <2>2. Covers(x)
    BY <1>1 DEF DeliveryInvariant, NothingIsLost, Covers
  <2>3. ReceiverInvariant(x)' /\ Keeps(x)
    BY <1>1, <1>2, SameReceiver
  <2>4. QED BY <2>1, <2>2, <2>3
<1>4. QED BY <1>1, <1>2, <1>3, QuietStep

-----------------------------------------------------------------------------
(* The theorems.                                                           *)

LEMMA InitDelivery == Init => DeliveryInvariant
<1> SUFFICES ASSUME Init PROVE DeliveryInvariant
  OBVIOUS
<1>1. TypeOK
  BY InitType
<1>2. \A e \in Endpoint :
        /\ snd_queue[e] = <<>> /\ snd_buf[e] = {} /\ snd_una[e] = 0
        /\ snd_nxt[e] = 0 /\ rmt_wnd[e] = send_window[e]
        /\ acklist[e] = {} /\ rcv_buf[e] = {} /\ rcv_queue[e] = <<>>
        /\ rcv_nxt[e] = 0 /\ stream[e] = <<>>
  BY DEF Init, EndpointInit
<1>3. \A e \in Endpoint :
        /\ SeqMod \in Nat \ {0} /\ send_window[e] < SeqMod
        /\ Peer(e) \in Endpoint
  BY <1>1, PeerProperties, ConfigAssumption DEF TypeOK, EndpointTypeOK
<1>4. \A e \in Endpoint : SenderInvariant(e)
  BY <1>2, <1>3 DEF SenderInvariant, RemoteUna
<1>5. \A e \in Endpoint : ReceiverInvariant(e)
  BY <1>2, <1>3 DEF ReceiverInvariant, Taken
<1>6. net = {}
  BY DEF Init
<1>7. StreamInvariant
  BY <1>4, <1>5, <1>6 DEF StreamInvariant
<1>8. NothingIsLost /\ AcksAreHonest
  BY <1>2, <1>6 DEF NothingIsLost, AcksAreHonest
<1>9. QED BY <1>1, <1>7, <1>8 DEF DeliveryInvariant

LEMMA DeliveryInductive ==
  TypeOK /\ DeliveryInvariant /\ [Next]_vars => DeliveryInvariant'
<1> SUFFICES ASSUME TypeOK, DeliveryInvariant, [Next]_vars
             PROVE  DeliveryInvariant'
  OBVIOUS
<1>1. TypeOK'
  BY TypeInductive
<1>2. ASSUME NEW e \in Endpoint, AppSend(e) PROVE DeliveryInvariant'
  BY <1>1, <1>2, SendDelivery
<1>3. ASSUME NEW e \in Endpoint, AppRecv(e) PROVE DeliveryInvariant'
  BY <1>1, <1>3, RecvDelivery
<1>4. ASSUME NEW e \in Endpoint, Arrive(e) PROVE DeliveryInvariant'
  BY <1>1, <1>4, ArriveDelivery
<1>5. ASSUME NEW e \in Endpoint, Update(e) PROVE DeliveryInvariant'
  BY <1>1, <1>5, UpdateDelivery
<1>6. ASSUME NEW e \in Endpoint, Resize(e) PROVE DeliveryInvariant'
  BY <1>1, <1>6, ResizeDelivery
<1>7. CASE UNCHANGED vars
  BY <1>1, <1>7
     DEF vars, endpointVars, senderVars, receiverVars, historyVars,
         DeliveryInvariant, StreamInvariant, SenderInvariant, Taken,
         ReceiverInvariant, AuthenticSegment, NothingIsLost, AcksAreHonest,
         Holds
<1>8. QED BY <1>2, <1>3, <1>4, <1>5, <1>6, <1>7 DEF Next

THEOREM DeliveryInvariantHolds == Spec => []DeliveryInvariant
<1>1. Init => DeliveryInvariant
  BY InitDelivery
<1>2. TypeOK /\ DeliveryInvariant /\ [Next]_vars => DeliveryInvariant'
  BY DeliveryInductive
<1>3. Spec => []TypeOK
  BY TypeCorrect
<1>4. QED BY <1>1, <1>2, <1>3, PTL DEF Spec

\* No schedule of losses, duplicates, reordering and retransmissions makes
\* the sender forget a segment that the receiver does not hold.
THEOREM NothingIsEverLost == Spec => []NothingIsLost
<1>1. DeliveryInvariant => NothingIsLost
  BY DEF DeliveryInvariant
<1>2. QED BY <1>1, DeliveryInvariantHolds, PTL

\* No acknowledgement, however old or duplicated, speaks of a segment that
\* its sender does not hold.
THEOREM AcknowledgementsAreHonest == Spec => []AcksAreHonest
<1>1. DeliveryInvariant => AcksAreHonest
  BY DEF DeliveryInvariant
<1>2. QED BY <1>1, DeliveryInvariantHolds, PTL

\* The assertion of get_packets_in_flight_count() never fails.
THEOREM InFlightCountIsSafe == Spec => []InFlightBounds
<1>1. DeliveryInvariant => InFlightBounds
  <2> SUFFICES ASSUME DeliveryInvariant, NEW e \in Endpoint
               PROVE  /\ snd_una[e] <= snd_nxt[e]
                      /\ snd_una[e] = RemoteUna(snd_buf[e], snd_nxt[e])
                      /\ \A s \in snd_buf[e] :
                           ShouldAcknowledge(s.sn, snd_una[e], snd_nxt[e])
    BY DEF InFlightBounds
  <2>1. /\ snd_buf[e] \in SUBSET Stored /\ snd_nxt[e] \in Nat
        /\ snd_una[e] = RemoteUna(snd_buf[e], snd_nxt[e])
        /\ \A s \in snd_buf[e] : s.sn < snd_nxt[e]
    BY DEF DeliveryInvariant, StreamInvariant, SenderInvariant, TypeOK,
           EndpointTypeOK
  <2>2. /\ snd_una[e] \in Nat
        /\ snd_buf[e] # {} => HasSn(snd_buf[e], snd_una[e])
        /\ \A s \in snd_buf[e] : snd_una[e] <= s.sn
    BY <2>1, RemoteUnaType
  <2>3. snd_una[e] <= snd_nxt[e]
    <3>1. CASE snd_buf[e] = {} BY <2>1, <3>1 DEF RemoteUna
    <3>2. CASE snd_buf[e] # {}
      <4>1. snd_una[e] < snd_nxt[e]
        BY <2>1, <2>2, <3>2 DEF HasSn
      <4>2. QED BY <2>1, <2>2, <4>1
    <3>3. QED BY <3>1, <3>2
  <2>4. QED BY <2>1, <2>2, <2>3 DEF ShouldAcknowledge
<1>2. QED BY <1>1, DeliveryInvariantHolds, PTL

-----------------------------------------------------------------------------
(* What a sequence is after it has grown.                                  *)

LEMMA AppendKeeps ==
  ASSUME NEW S, NEW s \in Seq(S), NEW x \in S
  PROVE  /\ Append(s, x) \in Seq(S)
         /\ Len(s) \in Nat /\ Len(Append(s, x)) = Len(s) + 1
         /\ \A i \in 1..Len(s) : Append(s, x)[i] = s[i]
         /\ Append(s, x)[Len(s) + 1] = x
OBVIOUS

LEMMA ConcatKeeps ==
  ASSUME NEW s \in Seq(Fragment), NEW t \in Seq(Fragment)
  PROVE  /\ Len(s) \in Nat /\ Len(t) \in Nat
         /\ Len(s \o t) = Len(s) + Len(t)
         /\ \A i \in 1..Len(s) : (s \o t)[i] = s[i]
         /\ \A j \in 1..Len(t) : (s \o t)[Len(s) + j] = t[j]
<1>1. Len(s) \in Nat /\ Len(t) \in Nat /\ Len(s \o t) = Len(s) + Len(t)
  OBVIOUS
<1>2. \A i \in 1..Len(s) : (s \o t)[i] = s[i]
  BY <1>1
<1>3. QED BY <1>1, <1>2, ConcatRight

\* Every position of the longer stream is an old one or one of the message.
LEMMA OldOrNew ==
  ASSUME NEW l \in Nat, NEW n \in Nat, NEW i \in 1..(l + n)
  PROVE  i \in 1..l \/ \E j \in 1..n : i = l + j
<1>1. CASE i <= l BY <1>1
<1>2. CASE ~(i <= l)
  <2>1. i - l \in 1..n /\ i = l + (i - l)
    BY <1>2
  <2>2. QED BY <2>1
<1>3. QED BY <1>1, <1>2

LEMMA HistoryTypes ==
  ASSUME TypeOK, NEW e \in Endpoint
  PROVE  /\ accepted[e] \in Seq(Seq(Fragment)) /\ Len(accepted[e]) \in Nat
         /\ delivered[e] \in Seq(Seq(Fragment)) /\ Len(delivered[e]) \in Nat
<1>1. accepted[e] \in Seq(Seq(Fragment)) /\ delivered[e] \in Seq(Seq(Fragment))
  BY DEF TypeOK, EndpointTypeOK
<1>2. QED BY <1>1

-----------------------------------------------------------------------------
(* send().                                                                 *)

\* What send() appends to the history of e.
SentMessage(e, n) ==
  /\ stream'[e] = stream[e] \o Fragments(Len(accepted[e]) + 1, n)
  /\ accepted'[e] = Append(accepted[e], Fragments(Len(accepted[e]) + 1, n))

LEMMA SentEffect ==
  ASSUME TypeOK, NEW e \in Endpoint, NEW n \in 1..MaxFragments,
         SentMessage(e, n)
  PROVE  LET l == Len(stream[e])
             m == Len(accepted[e])
         IN  /\ l \in Nat /\ m \in Nat /\ n \in Nat \ {0}
             /\ Len(stream'[e]) = l + n /\ Len(accepted'[e]) = m + 1
             /\ \A i \in 1..l : stream'[e][i] = stream[e][i]
             /\ \A j \in 1..n :
                  stream'[e][l + j] = [msg |-> m + 1, frg |-> n - j]
             /\ \A i \in 1..m : accepted'[e][i] = accepted[e][i]
             /\ accepted'[e][m + 1] = Fragments(m + 1, n)
<1> DEFINE l == Len(stream[e])
           m == Len(accepted[e])
           f == Fragments(m + 1, n)
<1>1. /\ stream[e] \in Seq(Fragment) /\ accepted[e] \in Seq(Seq(Fragment))
      /\ m \in Nat /\ n \in Nat \ {0} /\ m + 1 \in Nat /\ n \in Nat
  BY ConfigAssumption DEF TypeOK, EndpointTypeOK
<1>2. /\ f \in Seq(Fragment) /\ Len(f) = n
      /\ \A j \in 1..n : f[j] = [msg |-> m + 1, frg |-> n - j]
  BY <1>1, FragmentsType
<1>3. stream'[e] = stream[e] \o f /\ accepted'[e] = Append(accepted[e], f)
  BY DEF SentMessage
<1> HIDE DEF f
<1>4. /\ l \in Nat /\ Len(stream'[e]) = l + n
      /\ \A i \in 1..l : stream'[e][i] = stream[e][i]
      /\ \A j \in 1..n : stream'[e][l + j] = f[j]
  <2>1. /\ Len(stream[e]) \in Nat
        /\ Len(stream[e] \o f) = Len(stream[e]) + Len(f)
        /\ \A i \in 1..Len(stream[e]) : (stream[e] \o f)[i] = stream[e][i]
        /\ \A j \in 1..Len(f) : (stream[e] \o f)[Len(stream[e]) + j] = f[j]
    BY <1>1, <1>2, ConcatKeeps
  <2>2. QED BY <1>2, <1>3, <2>1
<1>5. /\ Len(accepted'[e]) = m + 1
      /\ \A i \in 1..m : accepted'[e][i] = accepted[e][i]
      /\ accepted'[e][m + 1] = f
  BY <1>1, <1>2, <1>3, AppendKeeps
<1>6. QED BY <1>1, <1>2, <1>4, <1>5 DEF f

\* The boundaries of the longer stream are the old ones and its end.
LEMMA BoundaryGrows ==
  ASSUME TypeOK, NEW e \in Endpoint, NEW n \in 1..MaxFragments,
         SentMessage(e, n), NEW k \in 0..Len(stream[e]), NEW m \in Nat
  PROVE  Boundary(e, k, m)' <=> Boundary(e, k, m)
<1>1. \A i \in 1..Len(stream[e]) : stream'[e][i] = stream[e][i]
  BY SentEffect
<1>2. Len(stream[e]) \in Nat
  BY EndpointTypes
<1>3. k > 0 => stream'[e][k] = stream[e][k]
  BY <1>1, <1>2
<1>4. QED BY <1>3 DEF Boundary

\* A stream has one number of messages at each boundary.
LEMMA BoundaryIsUnique ==
  ASSUME NEW e \in Endpoint, NEW k \in Nat, NEW m, NEW o,
         Boundary(e, k, m), Boundary(e, k, o)
  PROVE  m = o
BY DEF Boundary

LEMMA ShapeGrows ==
  ASSUME TypeOK, NEW e \in Endpoint, NEW n \in 1..MaxFragments,
         SentMessage(e, n), StreamShape(e)
  PROVE  StreamShape(e)'
<1> DEFINE l == Len(stream[e])
           m == Len(accepted[e])
<1>1. /\ l \in Nat /\ m \in Nat /\ n \in Nat \ {0} /\ n <= MaxFragments
      /\ MaxFragments \in Nat
  BY SentEffect, ConfigAssumption
<1>2. Len(stream'[e]) = l + n /\ Len(accepted'[e]) = m + 1
  BY SentEffect
<1>3. \A i \in 1..l : stream'[e][i] = stream[e][i]
  BY SentEffect
<1>4. \A j \in 1..n : stream'[e][l + j] = [msg |-> m + 1, frg |-> n - j]
  BY SentEffect
<1>5. /\ \A i \in 1..m : accepted'[e][i] = accepted[e][i]
      /\ accepted'[e][m + 1] = Fragments(m + 1, n)
  BY SentEffect
<1>6. \A i \in 1..l :
        /\ stream[e][i].frg \in Nat /\ stream[e][i].msg \in Nat
        /\ stream[e][i].frg < MaxFragments /\ stream[e][i].msg <= m
        /\ i + stream[e][i].frg <= l
  <2>1. \A i \in 1..l : stream[e][i] \in Fragment
    BY DEF TypeOK, EndpointTypeOK
  <2>2. QED BY <2>1 DEF StreamShape, Fragment
<1>7. \A i \in 1..l : \A j \in 0..stream[e][i].frg :
        stream[e][i + j] = [msg |-> stream[e][i].msg,
                            frg |-> stream[e][i].frg - j]
  BY DEF StreamShape
<1>8. \A k \in 0..(l - 1), o \in 0..m :
        Boundary(e, k, o) =>
          /\ o < m
          /\ stream[e][k + 1].msg = o + 1
          /\ accepted[e][o + 1] = Fragments(o + 1, stream[e][k + 1].frg + 1)
  BY DEF StreamShape
<1>9. Boundary(e, l, m)
  BY DEF StreamShape
<1>10. \A k \in 0..l, o \in Nat : Boundary(e, k, o)' <=> Boundary(e, k, o)
  BY BoundaryGrows
<1> HIDE DEF l, m
<1>11. ASSUME NEW i \in 1..(l + n)
       PROVE  /\ stream'[e][i].frg < MaxFragments /\ stream'[e][i].msg <= m + 1
              /\ i + stream'[e][i].frg <= l + n
              /\ \A j \in 0..stream'[e][i].frg :
                   stream'[e][i + j] = [msg |-> stream'[e][i].msg,
                                        frg |-> stream'[e][i].frg - j]
  <2>1. CASE i \in 1..l
    <3> DEFINE f == stream[e][i].frg
    <3>1. stream'[e][i] = stream[e][i]
      BY <1>3, <2>1
    <3>2. /\ f \in Nat /\ stream[e][i].msg \in Nat
          /\ f < MaxFragments /\ stream[e][i].msg <= m /\ i + f <= l
      BY <1>6, <2>1
    <3>3. ASSUME NEW j \in 0..f
          PROVE  stream'[e][i + j] = [msg |-> stream[e][i].msg, frg |-> f - j]
      <4>1. stream[e][i + j] = [msg |-> stream[e][i].msg, frg |-> f - j]
        BY <1>7, <2>1
      <4> HIDE DEF f
      <4>2. i + j \in 1..l
        BY <1>1, <2>1, <3>2
      <4>3. QED BY <1>3, <4>1, <4>2
    <3>4. stream[e][i].msg <= m + 1 /\ i + f <= l + n
      <4> HIDE DEF f
      <4>1. QED BY <1>1, <2>1, <3>2
    <3>5. QED BY <3>1, <3>2, <3>3, <3>4
  <2>2. ASSUME NEW j \in 1..n, i = l + j
        PROVE  /\ stream'[e][i].frg < MaxFragments /\ stream'[e][i].msg <= m + 1
               /\ i + stream'[e][i].frg <= l + n
               /\ \A h \in 0..stream'[e][i].frg :
                    stream'[e][i + h] = [msg |-> stream'[e][i].msg,
                                         frg |-> stream'[e][i].frg - h]
    <3>0. stream'[e][l + j] = [msg |-> m + 1, frg |-> n - j]
      BY <1>4
    <3>1. stream'[e][i].msg = m + 1 /\ stream'[e][i].frg = n - j
      BY <2>2, <3>0
    <3>2. /\ n - j < MaxFragments /\ i + (n - j) = l + n /\ n - j \in Nat
          /\ i + (n - j) <= l + n /\ m + 1 <= m + 1
      BY <1>1, <2>2
    <3>3. ASSUME NEW h \in 0..(n - j)
          PROVE  stream'[e][i + h] = [msg |-> m + 1, frg |-> (n - j) - h]
      <4>1. j + h \in 1..n /\ i + h = l + (j + h) /\ n - (j + h) = (n - j) - h
        BY <1>1, <2>2, <3>2
      <4>2. stream'[e][l + (j + h)] = [msg |-> m + 1, frg |-> n - (j + h)]
        BY <1>4, <4>1
      <4>3. QED BY <4>1, <4>2
    <3>4. QED BY <3>1, <3>2, <3>3
  <2>3. QED BY <1>1, <2>1, <2>2, OldOrNew
<1>12. ASSUME NEW k \in 0..(l + n - 1), NEW o \in 0..(m + 1), Boundary(e, k, o)'
       PROVE  /\ o < m + 1
              /\ stream'[e][k + 1].msg = o + 1
              /\ accepted'[e][o + 1] = Fragments(o + 1, stream'[e][k + 1].frg + 1)
  <2>0. k \in Nat /\ o \in Nat
    BY <1>1
  <2>1. CASE k < l
    <3>1. Boundary(e, k, o)
      <4>1. k \in 0..l
        BY <1>1, <2>1, <2>0
      <4>2. QED BY <1>10, <1>12, <2>0, <4>1, Zenon
    <3>2. o \in 0..m
      <4>1. CASE k = 0 BY <1>1, <3>1, <4>1 DEF Boundary
      <4>2. CASE k # 0
        <5>1. k \in 1..l
          BY <1>1, <2>1, <4>2
        <5>2. stream[e][k].msg = o
          BY <3>1, <4>2 DEF Boundary
        <5>3. o <= m
          BY <1>6, <5>1, <5>2
        <5>4. QED BY <1>1, <2>0, <5>3
      <4>3. QED BY <4>1, <4>2
    <3>3. k \in 0..(l - 1) /\ k + 1 \in 1..l
      BY <1>1, <2>1
    <3>4. /\ o < m /\ stream[e][k + 1].msg = o + 1
          /\ accepted[e][o + 1] = Fragments(o + 1, stream[e][k + 1].frg + 1)
      BY <1>8, <3>1, <3>2, <3>3
    <3>5. stream'[e][k + 1] = stream[e][k + 1]
      BY <1>3, <3>3
    <3>6. o + 1 \in 1..m /\ o < m + 1
      BY <1>1, <3>2, <3>4
    <3>7. accepted'[e][o + 1] = accepted[e][o + 1]
      BY <1>5, <3>6
    <3>8. QED BY <3>4, <3>5, <3>6, <3>7
  <2>2. CASE k = l
    <3>1. Boundary(e, l, o)
      <4>1. l \in 0..l
        BY <1>1
      <4>2. QED BY <1>10, <1>12, <2>0, <2>2, <4>1
    <3>2. o = m
      BY <1>1, <1>9, <3>1, BoundaryIsUnique
    <3>3. stream'[e][l + 1] = [msg |-> m + 1, frg |-> n - 1] /\ m < m + 1
      BY <1>1, <1>4
    <3>4. stream'[e][k + 1].msg = m + 1 /\ stream'[e][k + 1].frg + 1 = n
      BY <1>1, <2>2, <3>3
    <3>5. QED BY <1>5, <3>2, <3>3, <3>4
  <2>3. CASE k > l
    <3>1. k \in 1..(l + n)
      BY <1>1, <2>3
    <3>2. PICK j \in 1..n : k = l + j
      BY <1>1, <2>3, <3>1, OldOrNew
    <3>3. stream'[e][k].frg = n - j
      <4>1. stream'[e][l + j] = [msg |-> m + 1, frg |-> n - j]
        BY <1>4
      <4>2. QED BY <3>2, <4>1
    <3>4. n - j # 0 /\ k # 0
      BY <1>1, <2>3, <3>2
    <3>5. QED BY <1>12, <3>3, <3>4 DEF Boundary
  <2>4. QED BY <1>1, <2>1, <2>2, <2>3
<1>13. Boundary(e, Len(stream[e]), Len(accepted[e]))'
  <2>1. n \in 1..n /\ l + n > 0 /\ n - n = 0
    BY <1>1
  <2>2. stream'[e][l + n] = [msg |-> m + 1, frg |-> n - n]
    BY <1>4, <2>1
  <2>3. stream'[e][l + n].frg = 0 /\ stream'[e][l + n].msg = m + 1
    BY <2>1, <2>2
  <2>4. QED BY <1>2, <2>1, <2>3 DEF Boundary
<1>14. \A i \in 1..Len(stream'[e]) :
         /\ stream'[e][i].frg < MaxFragments
         /\ stream'[e][i].msg <= Len(accepted'[e])
         /\ i + stream'[e][i].frg <= Len(stream'[e])
         /\ \A j \in 0..stream'[e][i].frg :
              stream'[e][i + j] = [msg |-> stream'[e][i].msg,
                                   frg |-> stream'[e][i].frg - j]
  BY <1>2, <1>11
<1>15. \A k \in 0..(Len(stream'[e]) - 1), o \in 0..Len(accepted'[e]) :
         Boundary(e, k, o)' =>
           /\ o < Len(accepted'[e])
           /\ stream'[e][k + 1].msg = o + 1
           /\ accepted'[e][o + 1] = Fragments(o + 1, stream'[e][k + 1].frg + 1)
  <2> SUFFICES ASSUME NEW k \in 0..(Len(stream'[e]) - 1),
                      NEW o \in 0..Len(accepted'[e]), Boundary(e, k, o)'
               PROVE  /\ o < Len(accepted'[e])
                      /\ stream'[e][k + 1].msg = o + 1
                      /\ accepted'[e][o + 1] =
                           Fragments(o + 1, stream'[e][k + 1].frg + 1)
    BY DEF Boundary
  <2>1. k \in 0..(l + n - 1) /\ o \in 0..(m + 1)
    BY <1>1, <1>2
  <2>2. QED BY <1>2, <1>12, <2>1
<1>16. QED
  <2> HIDE DEF StreamShape
  <2>1. QED BY <1>13, <1>14, <1>15 DEF StreamShape, Boundary

LEMMA SameShape ==
  ASSUME NEW x \in Endpoint, StreamShape(x),
         stream'[x] = stream[x], accepted'[x] = accepted[x]
  PROVE  StreamShape(x)'
<1> DEFINE Together(s, acc) == \A i \in 1..Len(s) :
                  /\ s[i].frg < MaxFragments
                  /\ s[i].msg <= Len(acc)
                  /\ i + s[i].frg <= Len(s)
                  /\ \A j \in 0..s[i].frg :
                       s[i + j] = [msg |-> s[i].msg, frg |-> s[i].frg - j]
           Ends(s, k, m) == \/ k = 0 /\ m = 0
                            \/ k > 0 /\ s[k].frg = 0 /\ s[k].msg = m
           Follows(s, acc) == \A k \in 0..(Len(s) - 1), m \in 0..Len(acc) :
                  Ends(s, k, m) =>
                    /\ m < Len(acc)
                    /\ s[k + 1].msg = m + 1
                    /\ acc[m + 1] = Fragments(m + 1, s[k + 1].frg + 1)
           Shape(s, acc) == /\ Together(s, acc) /\ Follows(s, acc)
                            /\ Ends(s, Len(s), Len(acc))
<1>1. Shape(stream[x], accepted[x])
  BY Zenon DEF StreamShape, Boundary
<1>2. Shape(stream'[x], accepted'[x])
  <2> HIDE DEF Shape
  <2>1. QED BY <1>1
<1>3. QED BY <1>2, Zenon DEF StreamShape, Boundary

\* What was delivered stays the beginning of what was accepted.
LEMMA DeliveredStays ==
  ASSUME TypeOK, DeliveryInvariant, FramingInvariant, NEW e \in Endpoint,
         NEW n \in 1..MaxFragments, SentMessage(e, n),
         NEW x \in Endpoint, Peer(x) = e,
         delivered'[x] = delivered[x], Taken(x)' = Taken(x)
  PROVE  DeliveredInOrder(x)'
<1> DEFINE d == Len(delivered[x])
           m == Len(accepted[e])
<1>1. /\ d <= m /\ Boundary(e, Taken(x), d)
      /\ \A i \in 1..d : delivered[x][i] = accepted[e][i]
  BY DEF FramingInvariant, DeliveredInOrder
<1>2. d \in Nat /\ m \in Nat
  BY HistoryTypes
<1>3. Len(accepted'[e]) = m + 1 /\ \A i \in 1..m : accepted'[e][i] = accepted[e][i]
  BY SentEffect
<1>4. Taken(x) \in 0..Len(stream[e])
  <2>1. /\ rcv_nxt[x] <= snd_nxt[e] /\ Taken(x) >= 0
        /\ snd_nxt[e] + Len(snd_queue[e]) = Len(stream[e])
    BY DEF DeliveryInvariant, StreamInvariant, ReceiverInvariant, SenderInvariant
  <2>2. /\ rcv_nxt[x] \in Nat /\ snd_nxt[e] \in Nat /\ Len(stream[e]) \in Nat
        /\ Len(snd_queue[e]) \in Nat /\ Len(rcv_queue[x]) \in Nat
    BY EndpointTypes
  <2>3. QED BY <2>1, <2>2 DEF Taken
<1>5. Boundary(e, Taken(x), d)'
  <2> DEFINE t == Taken(x)
  <2>1. t = 0 \/ t \in 1..Len(stream[e])
    BY <1>4
  <2>2. t # 0 => stream'[e][t] = stream[e][t]
    BY <2>1, SentEffect
  <2>3. \/ t = 0 /\ d = 0
        \/ t > 0 /\ stream[e][t].frg = 0 /\ stream[e][t].msg = d
    BY <1>1 DEF Boundary
  <2>4. QED BY <2>1, <2>2, <2>3 DEF Boundary
<1>6. /\ d <= m + 1
      /\ \A i \in 1..d : delivered[x][i] = accepted'[e][i]
  BY <1>1, <1>2, <1>3
<1>7. QED BY <1>3, <1>5, <1>6 DEF DeliveredInOrder

LEMMA SendFraming ==
  ASSUME TypeOK, DeliveryInvariant, FramingInvariant,
         NEW e \in Endpoint, AppSend(e)
  PROVE  FramingInvariant'
<1>1. PICK n \in 1..MaxFragments : Send(e, n)
  BY DEF AppSend
<1>2. SentMessage(e, n)
  BY <1>1 DEF Send, SentMessage, TypeOK, EndpointTypeOK
<1>3. /\ \A x \in Endpoint \ {e} :
           stream'[x] = stream[x] /\ accepted'[x] = accepted[x]
      /\ UNCHANGED <<delivered, rcv_nxt, rcv_queue>>
  BY <1>1 DEF Send, receiverVars, TypeOK, EndpointTypeOK
<1>4. ASSUME NEW x \in Endpoint PROVE StreamShape(x)'
  <2>1. StreamShape(x)
    BY DEF FramingInvariant
  <2>2. CASE x = e
    BY <1>2, <2>1, <2>2, ShapeGrows
  <2>3. CASE x # e
    BY <1>3, <2>1, <2>3, SameShape
  <2>4. QED BY <2>2, <2>3
<1>5. ASSUME NEW x \in Endpoint PROVE DeliveredInOrder(x)'
  <2>1. DeliveredInOrder(x) /\ Peer(x) \in Endpoint
    BY PeerProperties DEF FramingInvariant
  <2>2. delivered'[x] = delivered[x] /\ Taken(x)' = Taken(x)
    BY <1>3 DEF Taken
  <2>3. CASE Peer(x) = e
    BY <1>2, <2>2, <2>3, DeliveredStays
  <2>4. CASE Peer(x) # e
    BY <1>3, <2>1, <2>2, <2>4 DEF DeliveredInOrder, Boundary
  <2>5. QED BY <2>3, <2>4
<1>6. QED BY <1>4, <1>5 DEF FramingInvariant

-----------------------------------------------------------------------------
(* recv().                                                                 *)

\* What recv() takes from the queue is the next message of the peer.
LEMMA RecvTakesMessage ==
  ASSUME TypeOK, DeliveryInvariant, FramingInvariant, NEW e \in Endpoint,
         MessageReady(rcv_queue[e]), NEW k \in 1..Len(rcv_queue[e]),
         PopsFromQueue(rcv_queue[e], k)
  PROVE  LET d == Len(delivered[e]) IN
         /\ d < Len(accepted[Peer(e)])
         /\ SubSeq(rcv_queue[e], 1, k) = accepted[Peer(e)][d + 1]
         /\ Boundary(Peer(e), Taken(e) + k, d + 1)
<1> DEFINE q == rcv_queue[e]
           p == Peer(e)
           s == stream[p]
           t == Taken(e)
           d == Len(delivered[e])
           f == s[t + 1].frg
<1>1. p \in Endpoint
  BY PeerProperties
<1>2. /\ q \in Seq(Fragment) /\ Len(q) \in Nat /\ k \in Nat \ {0} /\ k <= Len(q)
      /\ s \in Seq(Fragment) /\ Len(s) \in Nat /\ d \in Nat
  BY <1>1, EndpointTypes, HistoryTypes
<1>3. t \in Nat /\ t + Len(q) <= Len(s)
  <2>1. /\ rcv_nxt[e] <= snd_nxt[p] /\ t >= 0
        /\ snd_nxt[p] + Len(snd_queue[p]) = Len(s)
    BY <1>1 DEF DeliveryInvariant, StreamInvariant, ReceiverInvariant,
                SenderInvariant
  <2>2. /\ rcv_nxt[e] \in Nat /\ snd_nxt[p] \in Nat /\ Len(snd_queue[p]) \in Nat
    BY <1>1, EndpointTypes
  <2> HIDE DEF q, p, s
  <2>3. t = rcv_nxt[e] - Len(q)
    BY DEF Taken, q
  <2> HIDE DEF t, d, f
  <2>4. Len(q) \in Nat /\ Len(s) \in Nat
    BY <1>2
  <2>5. t + Len(q) = rcv_nxt[e]
    BY <2>2, <2>3, <2>4
  <2>6. t \in Nat
    BY <2>1, <2>2, <2>3, <2>4
  <2>7. rcv_nxt[e] <= Len(s)
    BY <2>1, <2>2, <2>4
  <2>8. QED BY <2>5, <2>6, <2>7
<1>4. \A i \in 1..Len(q) : q[i] = s[t + i]
  BY DEF DeliveryInvariant, StreamInvariant, ReceiverInvariant
<1>5. Boundary(p, t, d) /\ d <= Len(accepted[p]) /\ StreamShape(p)
  BY <1>1 DEF FramingInvariant, DeliveredInOrder
<1>6. q # <<>> /\ (Head(q).frg = 0 \/ Len(q) >= Head(q).frg + 1)
  BY DEF MessageReady
<1>7. /\ q[k].frg = 0 \/ k = Len(q)
      /\ \A i \in 1..(k - 1) : q[i].frg # 0
  BY DEF PopsFromQueue
<1>8. Len(accepted[p]) \in Nat
  BY <1>1, HistoryTypes
<1>9. /\ d < Len(accepted[p]) /\ s[t + 1].msg = d + 1
      /\ accepted[p][d + 1] = Fragments(d + 1, f + 1)
  <2>1. t \in 0..(Len(s) - 1) /\ d \in 0..Len(accepted[p])
    BY <1>2, <1>3, <1>5, <1>8
  <2>2. QED BY <1>5, <2>1 DEF StreamShape
<1>10. /\ f \in Nat
       /\ \A j \in 0..f : s[(t + 1) + j] = [msg |-> d + 1, frg |-> f - j]
  <2>1. t + 1 \in 1..Len(s)
    BY <1>2, <1>3
  <2>2. f \in Nat
    <3>1. s[t + 1] \in Fragment
      BY <1>2, <2>1
    <3>2. QED BY <3>1 DEF Fragment
  <2>3. QED BY <1>5, <1>9, <2>1, <2>2 DEF StreamShape
<1> HIDE DEF q, p, s, t, d, f
<1>11. \A i \in 1..(f + 1) : i <= Len(q) => q[i] = [msg |-> d + 1, frg |-> f + 1 - i]
  <2> SUFFICES ASSUME NEW i \in 1..(f + 1), i <= Len(q)
               PROVE  q[i] = [msg |-> d + 1, frg |-> f + 1 - i]
    OBVIOUS
  <2>1. /\ i \in 1..Len(q) /\ i - 1 \in 0..f /\ (t + 1) + (i - 1) = t + i
        /\ f - (i - 1) = f + 1 - i
    BY <1>2, <1>3, <1>10
  <2>2. q[i] = s[t + i]
    BY <1>4, <2>1
  <2>3. s[(t + 1) + (i - 1)] = [msg |-> d + 1, frg |-> f - (i - 1)]
    BY <1>10, <2>1
  <2>4. QED BY <2>1, <2>2, <2>3
<1>12. Len(q) >= f + 1
  <2>1. 1 \in 1..(f + 1) /\ 1 <= Len(q) /\ f + 1 - 1 = f
    BY <1>2, <1>10
  <2>2. q[1] = [msg |-> d + 1, frg |-> f + 1 - 1]
    BY <1>11, <2>1
  <2>3. Head(q) = q[1]
    BY <1>2, <1>6
  <2>4. Head(q).frg = f
    BY <2>1, <2>2, <2>3
  <2>5. QED BY <1>2, <1>6, <1>10, <2>1, <2>4
<1>13. \A i \in 1..(f + 1) : q[i] = [msg |-> d + 1, frg |-> f + 1 - i]
  BY <1>2, <1>10, <1>11, <1>12
<1>14. k = f + 1
  <2>1. ~(k < f + 1)
    <3> SUFFICES ASSUME k < f + 1 PROVE FALSE
      OBVIOUS
    <3>1. k \in 1..(f + 1) /\ f + 1 - k # 0 /\ k # Len(q)
      BY <1>2, <1>10, <1>12
    <3>2. q[k] = [msg |-> d + 1, frg |-> f + 1 - k]
      BY <1>13, <3>1
    <3>3. q[k].frg # 0
      BY <3>1, <3>2
    <3>4. QED BY <1>7, <3>1, <3>3
  <2>2. ~(f + 1 < k)
    <3> SUFFICES ASSUME f + 1 < k PROVE FALSE
      OBVIOUS
    <3>1. f + 1 \in 1..(k - 1) /\ f + 1 \in 1..(f + 1) /\ f + 1 - (f + 1) = 0
      BY <1>2, <1>10
    <3>2. q[f + 1] = [msg |-> d + 1, frg |-> f + 1 - (f + 1)]
      BY <1>13, <3>1
    <3>3. q[f + 1].frg = 0
      BY <3>1, <3>2
    <3>4. QED BY <1>7, <3>1, <3>3
  <2>3. QED BY <1>2, <1>10, <2>1, <2>2
<1>15. SubSeq(q, 1, k) = Fragments(d + 1, f + 1)
  <2> DEFINE i == d + 1
             n == f + 1
  <2>1. i \in Nat /\ n \in Nat /\ k = n
    BY <1>2, <1>10, <1>14
  <2>2. \A j \in 1..n : q[j] = [msg |-> i, frg |-> n - j]
    BY <1>2, <1>10, <1>13
  <2> HIDE DEF i, n
  <2>3. /\ Fragments(i, n) \in Seq(Fragment) /\ Len(Fragments(i, n)) = n
        /\ \A j \in 1..n : Fragments(i, n)[j] = [msg |-> i, frg |-> n - j]
    BY <2>1, FragmentsType
  <2>4. /\ SubSeq(q, 1, k) \in Seq(Fragment) /\ Len(SubSeq(q, 1, k)) = k
        /\ \A j \in 1..k : SubSeq(q, 1, k)[j] = q[j]
    BY <1>2
  <2>5. SubSeq(q, 1, k) = Fragments(i, n)
    BY <2>1, <2>2, <2>3, <2>4, SeqEqual
  <2>6. QED BY <2>5 DEF i, n
<1>16. Boundary(p, t + k, d + 1)
  <2>1. t + k > 0 /\ t + k = (t + 1) + f /\ f \in 0..f /\ f - f = 0
    BY <1>3, <1>10, <1>14
  <2>2. s[(t + 1) + f] = [msg |-> d + 1, frg |-> f - f]
    BY <1>10, <2>1
  <2>3. s[t + k].frg = 0 /\ s[t + k].msg = d + 1
    BY <2>1, <2>2
  <2>4. QED BY <2>1, <2>3 DEF Boundary, s
<1>17. QED BY <1>9, <1>15, <1>16 DEF q, p, t, d

\* A step that neither accepts nor delivers at x, and takes nothing from its
\* queue, leaves the order of what was delivered alone.
LEMMA SameDelivered ==
  ASSUME NEW x \in Endpoint, DeliveredInOrder(x),
         stream'[Peer(x)] = stream[Peer(x)],
         accepted'[Peer(x)] = accepted[Peer(x)],
         delivered'[x] = delivered[x], Taken(x)' = Taken(x)
  PROVE  DeliveredInOrder(x)'
BY DEF DeliveredInOrder, Boundary

\* recv(), with everything that the proofs use of it.
Received(e, k) ==
  LET rest == SubSeq(rcv_queue[e], k + 1, Len(rcv_queue[e])) IN
  /\ MessageReady(rcv_queue[e]) /\ PopsFromQueue(rcv_queue[e], k)
  /\ rest \in Seq(Fragment) /\ Len(rest) = Len(rcv_queue[e]) - k
  /\ InPlace(e, rcv_buf[e], rest)
  /\ MoveReceiveBufferToQueue(e, rcv_buf[e], rest)
  /\ delivered' = [delivered EXCEPT ![e] = Append(@, SubSeq(rcv_queue[e], 1, k))]
  /\ UNCHANGED <<stream, accepted, snd_una, snd_nxt, receive_window>>

LEMMA RecvEffect ==
  ASSUME TypeOK, DeliveryInvariant, NEW e \in Endpoint, AppRecv(e)
  PROVE  \E k \in 1..Len(rcv_queue[e]) : Received(e, k)
<1>1. PICK k \in 1..Len(rcv_queue[e]) :
        /\ MessageReady(rcv_queue[e]) /\ PopsFromQueue(rcv_queue[e], k)
        /\ delivered' = [delivered EXCEPT ![e] =
             Append(@, SubSeq(rcv_queue[e], 1, k))]
        /\ MoveReceiveBufferToQueue(e, rcv_buf[e],
             SubSeq(rcv_queue[e], k + 1, Len(rcv_queue[e])))
  BY DEF AppRecv, Recv
<1>2. UNCHANGED <<stream, accepted, snd_una, snd_nxt, receive_window>>
  BY DEF AppRecv, Recv, senderVars, configVars
<1>3. QED BY <1>1, <1>2, RestInPlace DEF Received

\* recv() returns the message of the peer that comes next.
LEMMA RecvDelivers ==
  ASSUME TypeOK, DeliveryInvariant, FramingInvariant, NEW e \in Endpoint,
         NEW k \in 1..Len(rcv_queue[e]), Received(e, k)
  PROVE  LET d == Len(delivered[e]) IN
         /\ d < Len(accepted[Peer(e)])
         /\ delivered' = [delivered EXCEPT ![e] =
              Append(@, accepted[Peer(e)][d + 1])]
         /\ UNCHANGED accepted
         /\ Boundary(Peer(e), Taken(e) + k, d + 1)
<1>1. /\ MessageReady(rcv_queue[e]) /\ PopsFromQueue(rcv_queue[e], k)
      /\ delivered' = [delivered EXCEPT ![e] =
           Append(@, SubSeq(rcv_queue[e], 1, k))]
      /\ UNCHANGED accepted
  BY DEF Received
<1>2. /\ Len(delivered[e]) < Len(accepted[Peer(e)])
      /\ SubSeq(rcv_queue[e], 1, k) = accepted[Peer(e)][Len(delivered[e]) + 1]
      /\ Boundary(Peer(e), Taken(e) + k, Len(delivered[e]) + 1)
  BY <1>1, RecvTakesMessage
<1>3. QED BY <1>1, <1>2

LEMMA RecvFraming ==
  ASSUME TypeOK, DeliveryInvariant, FramingInvariant,
         NEW e \in Endpoint, AppRecv(e)
  PROVE  FramingInvariant'
<1> DEFINE d == Len(delivered[e])
           p == Peer(e)
<1>1. PICK k \in 1..Len(rcv_queue[e]) : Received(e, k)
  BY RecvEffect
<1>2. /\ d < Len(accepted[p])
      /\ delivered' = [delivered EXCEPT ![e] = Append(@, accepted[p][d + 1])]
      /\ Boundary(p, Taken(e) + k, d + 1)
  BY <1>1, RecvDelivers
<1>3. UNCHANGED <<stream, accepted, snd_nxt>>
  BY <1>1 DEF Received
<1>4. /\ Taken(e)' = Taken(e) + k
      /\ \A x \in Endpoint \ {e} : Taken(x)' = Taken(x)
  <2> DEFINE rest == SubSeq(rcv_queue[e], k + 1, Len(rcv_queue[e]))
  <2>1. /\ rest \in Seq(Fragment) /\ Len(rest) = Len(rcv_queue[e]) - k
        /\ InPlace(e, rcv_buf[e], rest)
        /\ MoveReceiveBufferToQueue(e, rcv_buf[e], rest)
    BY <1>1 DEF Received
  <2> HIDE DEF rest
  <2>2. rcv_buf[e] \in SUBSET Stored /\ StreamInvariant
    BY EndpointTypes DEF DeliveryInvariant
  <2>3. /\ Taken(e)' = rcv_nxt[e] - Len(rest)
        /\ \A x \in Endpoint \ {e} :
             rcv_nxt'[x] = rcv_nxt[x] /\ rcv_queue'[x] = rcv_queue[x]
    BY <1>3, <2>1, <2>2, MoveInPlace
  <2>4. rcv_nxt[e] \in Nat /\ Len(rcv_queue[e]) \in Nat
    BY EndpointTypes
  <2>5. Taken(e)' = Taken(e) + k
    BY <2>1, <2>3, <2>4 DEF Taken
  <2>6. QED BY <2>3, <2>5 DEF Taken
<1>5. ASSUME NEW x \in Endpoint PROVE StreamShape(x)'
  BY <1>3, SameShape DEF FramingInvariant
<1>6. DeliveredInOrder(e)'
  <2>1. /\ delivered[e] \in Seq(Seq(Fragment)) /\ d \in Nat
        /\ p \in Endpoint /\ Len(accepted[p]) \in Nat
        /\ accepted[p] \in Seq(Seq(Fragment))
    BY HistoryTypes, PeerProperties
  <2>2. accepted[p][d + 1] \in Seq(Fragment) /\ d + 1 <= Len(accepted[p])
    BY <1>2, <2>1
  <2>3. delivered'[e] = Append(delivered[e], accepted[p][d + 1])
    BY <1>2 DEF TypeOK, EndpointTypeOK
  <2>4. /\ Len(delivered'[e]) = d + 1
        /\ \A i \in 1..d : delivered'[e][i] = delivered[e][i]
        /\ delivered'[e][d + 1] = accepted[p][d + 1]
    BY <2>1, <2>2, <2>3, AppendKeeps
  <2>5. \A i \in 1..d : delivered[e][i] = accepted[p][i]
    BY DEF FramingInvariant, DeliveredInOrder
  <2> HIDE DEF d, p
  <2>6. \A i \in 1..(d + 1) : delivered'[e][i] = accepted[p][i]
    <3>1. ASSUME NEW i \in 1..d PROVE delivered'[e][i] = accepted[p][i]
      BY <2>4, <2>5
    <3>2. \A i \in 1..(d + 1) : i \in 1..d \/ i = d + 1
      BY <2>1
    <3>3. QED BY <2>4, <3>1, <3>2
  <2> USE DEF d, p
  <2>7. Boundary(p, Taken(e), Len(delivered[e]))'
    BY <1>2, <1>3, <1>4, <2>4 DEF Boundary
  <2>8. QED BY <1>3, <2>2, <2>4, <2>6, <2>7 DEF DeliveredInOrder
<1>7. ASSUME NEW x \in Endpoint, x # e PROVE DeliveredInOrder(x)'
  <2>1. delivered'[x] = delivered[x]
    BY <1>2, <1>7 DEF TypeOK, EndpointTypeOK
  <2>2. QED BY <1>3, <1>4, <1>7, <2>1, SameDelivered DEF FramingInvariant
<1>8. QED BY <1>5, <1>6, <1>7 DEF FramingInvariant

-----------------------------------------------------------------------------
(* Steps that the applications do not see.                                 *)

\* What input() does to the receiver of e.
Arrived(e) ==
  \/ UNCHANGED <<rcv_buf, rcv_queue, rcv_nxt>>
  \/ \E s \in Stored :
       /\ FitsReceiveWindow(e, s.sn) /\ s.sn >= rcv_nxt[e]
       /\ rcv_buf[e] \union {s} \in SUBSET Stored
       /\ InPlace(e, rcv_buf[e] \union {s}, rcv_queue[e])
       /\ MoveReceiveBufferToQueue(e, rcv_buf[e] \union {s}, rcv_queue[e])

LEMMA ArriveEffect ==
  ASSUME TypeOK, DeliveryInvariant, NEW e \in Endpoint, Arrive(e)
  PROVE  /\ Arrived(e)
         /\ UNCHANGED <<receive_window, stream, accepted, delivered, snd_nxt>>
<1>1. PICK seg \in net : seg.src = Peer(e) /\ Input(e, seg)
  BY DEF Arrive
<1>2. UNCHANGED <<receive_window, stream, accepted, delivered, snd_nxt>>
  BY <1>1 DEF Input, InputPush, InputAck, InputWask, InputWins, configVars,
              historyVars
<1>3. CASE UNCHANGED <<rcv_buf, rcv_queue, rcv_nxt>>
  BY <1>2, <1>3 DEF Arrived
<1>4. CASE InputPush(e, seg) /\ ~UNCHANGED <<rcv_buf, rcv_queue, rcv_nxt>>
  <2> DEFINE s == [sn |-> seg.sn, frag |-> seg.frag]
  <2>1. /\ seg.cmd = "PUSH" /\ FitsReceiveWindow(e, seg.sn)
        /\ ShouldReceive(e, seg.sn) /\ EmplaceSegment(e, s)
    BY <1>4 DEF InputPush
  <2>2. MoveReceiveBufferToQueue(e, rcv_buf[e] \union {s}, rcv_queue[e])
    BY <1>4, <2>1 DEF EmplaceSegment
  <2>3. /\ s \in Stored /\ rcv_buf[e] \union {s} \in SUBSET Stored
        /\ InPlace(e, rcv_buf[e] \union {s}, rcv_queue[e])
    BY <1>1, <2>1, ArrivalInPlace
  <2>4. FitsReceiveWindow(e, s.sn) /\ s.sn >= rcv_nxt[e]
    BY <2>1 DEF ShouldReceive
  <2> HIDE DEF s
  <2>5. Arrived(e)
    BY <2>2, <2>3, <2>4 DEF Arrived
  <2>6. QED BY <1>2, <2>5
<1>5. QED
  BY <1>1, <1>3, <1>4 DEF Input, InputAck, InputWask, InputWins, receiverVars

LEMMA ArriveTakesNothing ==
  ASSUME TypeOK, DeliveryInvariant, NEW e \in Endpoint, Arrive(e)
  PROVE  \A x \in Endpoint : Taken(x)' = Taken(x)
<1>1. Arrived(e) /\ UNCHANGED <<stream, snd_nxt>>
  BY ArriveEffect
<1>2. CASE UNCHANGED <<rcv_buf, rcv_queue, rcv_nxt>>
  BY <1>2 DEF Taken
<1>3. ASSUME NEW buf \in SUBSET Stored, InPlace(e, buf, rcv_queue[e]),
             MoveReceiveBufferToQueue(e, buf, rcv_queue[e])
      PROVE  \A x \in Endpoint : Taken(x)' = Taken(x)
  <2>1. rcv_queue[e] \in Seq(Fragment) /\ StreamInvariant
    BY EndpointTypes DEF DeliveryInvariant
  <2>2. /\ Taken(e)' = rcv_nxt[e] - Len(rcv_queue[e])
        /\ \A x \in Endpoint \ {e} :
             rcv_nxt'[x] = rcv_nxt[x] /\ rcv_queue'[x] = rcv_queue[x]
    BY <1>1, <1>3, <2>1, MoveInPlace
  <2>3. QED BY <2>2 DEF Taken
<1>4. QED BY <1>1, <1>2, <1>3 DEF Arrived

LEMMA QuietFraming ==
  ASSUME TypeOK, DeliveryInvariant, FramingInvariant,
         UNCHANGED <<stream, accepted, delivered>>,
         \A x \in Endpoint : Taken(x)' = Taken(x)
  PROVE  FramingInvariant'
BY SameShape, SameDelivered DEF FramingInvariant

\* The steps of input(), flush() and the setters, seen by the applications.
LEMMA QuietSteps ==
  ASSUME TypeOK, DeliveryInvariant, NEW e \in Endpoint,
         Arrive(e) \/ Update(e) \/ Resize(e)
  PROVE  /\ UNCHANGED <<stream, accepted, delivered>>
         /\ \A x \in Endpoint : Taken(x)' = Taken(x)
<1>1. CASE Arrive(e)
  BY <1>1, ArriveEffect, ArriveTakesNothing
<1>2. CASE Update(e)
  BY <1>2 DEF Update, Flush, historyVars, Taken
<1>3. CASE Resize(e)
  BY <1>3 DEF Resize, SetSendWindow, SetReceiveWindow, receiverVars,
              historyVars, Taken
<1>4. QED BY <1>1, <1>2, <1>3

-----------------------------------------------------------------------------
(* The theorems.                                                           *)

LEMMA InitFraming == Init => FramingInvariant
<1> SUFFICES ASSUME Init, NEW e \in Endpoint
             PROVE  StreamShape(e) /\ DeliveredInOrder(e)
  BY DEF FramingInvariant
<1>1. /\ stream[e] = <<>> /\ accepted[e] = <<>> /\ delivered[e] = <<>>
      /\ rcv_nxt[e] = 0 /\ rcv_queue[e] = <<>> /\ accepted[Peer(e)] = <<>>
  BY PeerProperties DEF Init, EndpointInit
<1>2. StreamShape(e)
  BY <1>1 DEF StreamShape, Boundary
<1>3. DeliveredInOrder(e)
  <2>a. Len(<<>>) = 0
    OBVIOUS
  <2>b. Len(rcv_queue[e]) = 0
    BY <1>1, <2>a, Zenon
  <2>c. Taken(e) = rcv_nxt[e] - Len(rcv_queue[e])
    BY Zenon DEF Taken
  <2>d. Len(delivered[e]) = 0 /\ Len(accepted[Peer(e)]) = 0
    BY <1>1, <2>a, Zenon
  <2>1. /\ Len(delivered[e]) = 0 /\ Len(accepted[Peer(e)]) = 0
        /\ Taken(e) = 0
    BY <1>1, <2>b, <2>c, <2>d
  <2>2. Boundary(Peer(e), Taken(e), Len(delivered[e]))
    BY <2>1 DEF Boundary
  <2>3. QED BY <2>1, <2>2 DEF DeliveredInOrder
<1>4. QED BY <1>2, <1>3

LEMMA FramingInductive ==
  DeliveryInvariant /\ FramingInvariant /\ [Next]_vars => FramingInvariant'
<1> SUFFICES ASSUME DeliveryInvariant, FramingInvariant, [Next]_vars
             PROVE  FramingInvariant'
  OBVIOUS
<1>0. TypeOK
  BY DEF DeliveryInvariant
<1>1. ASSUME NEW e \in Endpoint, AppSend(e) PROVE FramingInvariant'
  BY <1>0, <1>1, SendFraming
<1>2. ASSUME NEW e \in Endpoint, AppRecv(e) PROVE FramingInvariant'
  BY <1>0, <1>2, RecvFraming
<1>3. ASSUME NEW e \in Endpoint, Arrive(e) \/ Update(e) \/ Resize(e)
      PROVE  FramingInvariant'
  BY <1>0, <1>3, QuietSteps, QuietFraming
<1>4. CASE UNCHANGED vars
  <2>1. /\ UNCHANGED <<stream, accepted, delivered>>
        /\ \A x \in Endpoint : Taken(x)' = Taken(x)
    BY <1>4 DEF vars, endpointVars, receiverVars, historyVars, Taken
  <2>2. QED BY <1>0, <2>1, QuietFraming
<1>5. QED BY <1>1, <1>2, <1>3, <1>4 DEF Next

\* Message boundaries survive: the fragments of a message stay together in
\* the queue of the receiver, and recv() always stands between two messages.
THEOREM FramingInvariantHolds == Spec => []FramingInvariant
<1>1. Init => FramingInvariant
  BY InitFraming
<1>2. DeliveryInvariant /\ FramingInvariant /\ [Next]_vars => FramingInvariant'
  BY FramingInductive
<1>3. Spec => []DeliveryInvariant
  BY DeliveryInvariantHolds
<1>4. QED BY <1>1, <1>2, <1>3, PTL DEF Spec

\* Messages are delivered once, whole, unchanged and in order, whatever the
\* network loses, duplicates or reorders and whatever the windows are.
THEOREM ConnectionImplementsChannel == Spec => ImplementsChannel
<1>1. Init => Channel!Init
  BY DEF Init, EndpointInit, Channel!Init
<1>2. DeliveryInvariant /\ FramingInvariant /\ [Next]_vars
        => [Channel!Next]_<<accepted, delivered>>
  <2> SUFFICES ASSUME DeliveryInvariant, FramingInvariant, [Next]_vars
               PROVE  [Channel!Next]_<<accepted, delivered>>
    OBVIOUS
  <2>0. TypeOK
    BY DEF DeliveryInvariant
  <2>1. ASSUME NEW e \in Endpoint, AppSend(e) PROVE Channel!Next
    <3>1. PICK n \in 1..MaxFragments : Send(e, n)
      BY <2>1 DEF AppSend
    <3> DEFINE f == Fragments(Len(accepted[e]) + 1, n)
    <3>2. /\ accepted' = [accepted EXCEPT ![e] = Append(@, f)]
          /\ UNCHANGED delivered
      BY <3>1 DEF Send
    <3>3. f \in MessageOf(Len(accepted[e]) + 1)
      BY DEF MessageOf
    <3>4. Channel!Accept(e)
      BY <3>2, <3>3 DEF Channel!Accept
    <3>5. QED BY <3>4 DEF Channel!Next
  <2>2. ASSUME NEW e \in Endpoint, AppRecv(e) PROVE Channel!Next
    <3>1. PICK k \in 1..Len(rcv_queue[e]) : Received(e, k)
      BY <2>0, <2>2, RecvEffect
    <3>2. /\ Len(delivered[e]) < Len(accepted[Peer(e)])
          /\ delivered' = [delivered EXCEPT ![e] =
               Append(@, accepted[Peer(e)][Len(delivered[e]) + 1])]
          /\ UNCHANGED accepted
      BY <2>0, <3>1, RecvDelivers
    <3>3. Channel!Deliver(e)
      BY <3>2 DEF Channel!Deliver, Channel!Peer, Peer
    <3>4. QED BY <3>3 DEF Channel!Next
  <2>3. ASSUME NEW e \in Endpoint, Arrive(e) \/ Update(e) \/ Resize(e)
        PROVE  UNCHANGED <<accepted, delivered>>
    BY <2>0, <2>3, QuietSteps
  <2>4. CASE UNCHANGED vars
    BY <2>4 DEF vars, endpointVars, historyVars
  <2>5. QED BY <2>1, <2>2, <2>3, <2>4 DEF Next
<1>3. QED
  BY <1>1, <1>2, DeliveryInvariantHolds, FramingInvariantHolds, PTL
     DEF Spec, ImplementsChannel, Channel!Spec

-----------------------------------------------------------------------------
(* Windows: nothing grows beyond the largest window.                       *)

LEMMA LargestWindowType ==
  ASSUME NEW e \in Endpoint
  PROVE  /\ LargestWindow(e) \in Nat \ {0} /\ IKCP_WND_RCV <= LargestWindow(e)
         /\ \A w \in ReceiveWindow[e] : w \in Nat /\ w <= LargestWindow(e)
<1> DEFINE S == ReceiveWindow[e] \union {IKCP_WND_RCV}
           b == SeqMod + IKCP_WND_RCV
<1>1. /\ S \in SUBSET Nat /\ S # {} /\ b \in Nat /\ \A x \in S : x =< b
      /\ IKCP_WND_RCV \in Nat \ {0}
  BY ConfigAssumption
<1>2. LargestWindow(e) = Max(S)
  BY DEF LargestWindow
<1>3. IKCP_WND_RCV \in S /\ ReceiveWindow[e] \subseteq S
  OBVIOUS
<1> HIDE DEF S, b
<1>4. Max(S) \in S /\ \A x \in S : Max(S) >= x
  BY <1>1, MaxOfNaturals
<1>5. Max(S) \in Nat /\ Max(S) >= IKCP_WND_RCV
  BY <1>1, <1>3, <1>4
<1>6. \A w \in ReceiveWindow[e] : w \in Nat /\ w <= Max(S)
  BY <1>1, <1>3, <1>4, <1>5
<1>7. QED BY <1>1, <1>2, <1>5, <1>6

LEMMA LargestMessageType ==
  ASSUME NEW e \in Endpoint
  PROVE  /\ LargestMessage(e) \in Nat
         /\ \A n \in Nat : /\ n <= MaxFragments /\ n <= LargestWindow(e)
                           /\ n <= Quota[e]
                           => n <= LargestMessage(e)
<1> DEFINE S == {MaxFragments, LargestWindow(e), Quota[e]}
<1>1. S \in SUBSET Nat /\ S # {}
  BY ConfigAssumption, LargestWindowType
<1>2. LargestMessage(e) = Min(S)
  BY DEF LargestMessage
<1>3. Min(S) \in S
  <2> HIDE DEF S
  <2>1. QED BY <1>1, MinOfNaturals
<1>4. QED BY <1>1, <1>2, <1>3

LEMMA WindowsInUse ==
  ASSUME TypeOK, NEW e \in Endpoint, receive_window[e] \in ReceiveWindow[e]
  PROVE  /\ rcv_wnd(e) \in Nat /\ rcv_wnd(e) <= LargestWindow(e)
         /\ queue_limit(e) \in Nat /\ queue_limit(e) <= LargestWindow(e)
<1>1. /\ receive_window[e] \in Nat /\ receive_window[e] <= LargestWindow(e)
      /\ IKCP_WND_RCV \in Nat /\ IKCP_WND_RCV <= LargestWindow(e)
  BY LargestWindowType, ConfigAssumption
<1>2. rcv_wnd(e) \in {receive_window[e], IKCP_WND_RCV}
  <2>1. receive_window[e] \in Int /\ IKCP_WND_RCV \in Int
    BY <1>1
  <2>2. QED BY <2>1, MaxOfTwo, Zenon DEF rcv_wnd
<1>3. QED BY <1>1, <1>2 DEF queue_limit

\* What the receiver of e is bounded by, and whether it holds back a segment
\* that its queue has room for.
Bounded(e) ==
  /\ \A s \in rcv_buf[e] : s.sn < rcv_nxt[e] + LargestWindow(e)
  /\ Len(rcv_queue[e]) <= LargestWindow(e)

HoldsBack(e) == HasSn(rcv_buf[e], rcv_nxt[e])

\* move_receive_buffer_to_queue() stays inside the window, and stops at a
\* missing segment or a full queue.
LEMMA MoveIsBounded ==
  ASSUME TypeOK, StreamInvariant, NEW e \in Endpoint,
         receive_window[e] \in ReceiveWindow[e],
         NEW buf \in SUBSET Stored, NEW queue \in Seq(Fragment),
         InPlace(e, buf, queue),
         \A s \in buf : s.sn < rcv_nxt[e] + LargestWindow(e),
         Len(queue) <= LargestWindow(e),
         MoveReceiveBufferToQueue(e, buf, queue),
         UNCHANGED <<stream, snd_nxt, receive_window>>
  PROVE  /\ Bounded(e)'
         /\ HoldsBack(e)' => Len(rcv_queue'[e]) >= receive_window'[e]
<1>1. PICK moved \in Seq(Fragment) : MoveOutcome(e, buf, queue, moved)
  BY MoveEffect
<1> DEFINE nxt == rcv_nxt[e] + Len(moved)
<1>2. /\ rcv_nxt[e] \in Nat /\ Len(moved) \in Nat /\ Len(queue) \in Nat
      /\ LargestWindow(e) \in Nat /\ rcv_nxt'[e] \in Int
  <2>1. rcv_nxt' = [rcv_nxt EXCEPT ![e] = nxt % SeqMod]
    BY <1>1 DEF MoveOutcome
  <2>2. rcv_nxt'[e] = nxt % SeqMod
    BY <2>1 DEF TypeOK, EndpointTypeOK
  <2>3. QED BY <2>2, EndpointTypes, LargestWindowType, ConfigAssumption
<1>3. /\ rcv_buf' = [rcv_buf EXCEPT ![e] = EraseBefore(buf, nxt)]
      /\ rcv_queue' = [rcv_queue EXCEPT ![e] = queue \o moved]
      /\ rcv_nxt' = [rcv_nxt EXCEPT ![e] = nxt % SeqMod]
      /\ moved = <<>> \/ Len(queue) + Len(moved) <= queue_limit(e)
      /\ \/ Len(queue) + Len(moved) >= queue_limit(e)
         \/ ~HasSn(buf, nxt % SeqMod)
  BY <1>1 DEF MoveOutcome
<1>4. /\ rcv_buf'[e] = EraseBefore(buf, nxt)
      /\ rcv_queue'[e] = queue \o moved
      /\ rcv_nxt'[e] = nxt % SeqMod
  BY <1>3 DEF TypeOK, EndpointTypeOK
<1>5. Len(rcv_queue'[e]) = Len(queue) + Len(moved)
  BY <1>4
<1>6. rcv_nxt'[e] = nxt
  <2>1. Taken(e)' = rcv_nxt[e] - Len(queue)
    BY MoveInPlace
  <2>2. rcv_nxt'[e] - Len(rcv_queue'[e]) = rcv_nxt[e] - Len(queue)
    BY <2>1, Zenon DEF Taken
  <2>3. rcv_nxt'[e] - (Len(queue) + Len(moved)) = rcv_nxt[e] - Len(queue)
    BY <1>5, <2>2, Zenon
  <2>4. QED BY <1>2, <2>3
<1>7. \A s \in rcv_buf'[e] : s.sn < rcv_nxt'[e] + LargestWindow(e)
  <2> SUFFICES ASSUME NEW s \in rcv_buf'[e]
               PROVE  s.sn < rcv_nxt'[e] + LargestWindow(e)
    OBVIOUS
  <2>1. s \in buf
    BY <1>4 DEF EraseBefore
  <2>2. s.sn < rcv_nxt[e] + LargestWindow(e) /\ s.sn \in Nat
    BY <2>1 DEF Stored
  <2>3. QED BY <1>2, <1>6, <2>2
<1>8. Len(rcv_queue'[e]) <= LargestWindow(e)
  <2>1. CASE moved = <<>>
    BY <1>2, <1>5, <2>1
  <2>2. CASE Len(queue) + Len(moved) <= queue_limit(e)
    BY <1>2, <1>5, <2>2, WindowsInUse
  <2>3. QED BY <1>3, <2>1, <2>2
<1>9. ASSUME HoldsBack(e)' PROVE Len(rcv_queue'[e]) >= receive_window'[e]
  <2>1. PICK s \in rcv_buf'[e] : s.sn = rcv_nxt'[e]
    BY <1>9 DEF HoldsBack, HasSn
  <2>2. s \in buf /\ s.sn = nxt % SeqMod
    BY <1>4, <2>1 DEF EraseBefore
  <2>3. HasSn(buf, nxt % SeqMod)
    BY <2>2 DEF HasSn
  <2>4. Len(queue) + Len(moved) >= queue_limit(e)
    BY <1>3, <2>3
  <2>5. QED BY <1>5, <2>4 DEF queue_limit
<1>10. QED BY <1>7, <1>8, <1>9 DEF Bounded

-----------------------------------------------------------------------------
(* What a step does to the receivers.                                      *)

\* The receiver of x rests, or has moved on as far as it could.
ReceiverStep(x) ==
  \/ /\ rcv_buf'[x] = rcv_buf[x] /\ rcv_queue'[x] = rcv_queue[x]
     /\ rcv_nxt'[x] = rcv_nxt[x]
  \/ /\ Bounded(x)' /\ rcv_nxt[x] <= rcv_nxt'[x]
     /\ HoldsBack(x)' => Len(rcv_queue'[x]) >= receive_window'[x]

LEMMA MoveStep ==
  ASSUME TypeOK, DeliveryInvariant, WindowInvariant, NEW e \in Endpoint,
         NEW buf \in SUBSET Stored, NEW queue \in Seq(Fragment),
         InPlace(e, buf, queue),
         \A s \in buf : s.sn < rcv_nxt[e] + LargestWindow(e),
         Len(queue) <= LargestWindow(e),
         MoveReceiveBufferToQueue(e, buf, queue),
         UNCHANGED <<stream, snd_nxt, receive_window>>
  PROVE  \A x \in Endpoint : ReceiverStep(x)
<1>1. StreamInvariant /\ receive_window[e] \in ReceiveWindow[e]
  BY DEF DeliveryInvariant, WindowInvariant
<1>2. /\ rcv_nxt[e] <= rcv_nxt'[e]
      /\ \A x \in Endpoint \ {e} :
           /\ rcv_nxt'[x] = rcv_nxt[x] /\ rcv_buf'[x] = rcv_buf[x]
           /\ rcv_queue'[x] = rcv_queue[x]
  BY <1>1, MoveInPlace
<1>3. /\ Bounded(e)'
      /\ HoldsBack(e)' => Len(rcv_queue'[e]) >= receive_window'[e]
  BY <1>1, MoveIsBounded
<1>4. QED BY <1>2, <1>3 DEF ReceiverStep

LEMMA RecvStep ==
  ASSUME TypeOK, DeliveryInvariant, WindowInvariant, NEW e \in Endpoint,
         AppRecv(e)
  PROVE  /\ \A x \in Endpoint : ReceiverStep(x)
         /\ UNCHANGED <<snd_una, snd_nxt, stream, receive_window>>
<1>1. PICK k \in 1..Len(rcv_queue[e]) : Received(e, k)
  BY RecvEffect
<1> DEFINE rest == SubSeq(rcv_queue[e], k + 1, Len(rcv_queue[e]))
<1>2. /\ rest \in Seq(Fragment) /\ Len(rest) = Len(rcv_queue[e]) - k
      /\ InPlace(e, rcv_buf[e], rest)
      /\ MoveReceiveBufferToQueue(e, rcv_buf[e], rest)
      /\ UNCHANGED <<snd_una, snd_nxt, stream, receive_window>>
  BY <1>1 DEF Received
<1> HIDE DEF rest
<1>3. /\ rcv_buf[e] \in SUBSET Stored /\ Len(rcv_queue[e]) \in Nat
      /\ LargestWindow(e) \in Nat
      /\ \A s \in rcv_buf[e] : s.sn < rcv_nxt[e] + LargestWindow(e)
      /\ Len(rcv_queue[e]) <= LargestWindow(e)
  BY EndpointTypes, LargestWindowType DEF WindowInvariant
<1>4. Len(rest) <= LargestWindow(e)
  BY <1>2, <1>3
<1>5. QED BY <1>2, <1>3, <1>4, MoveStep

\* A segment that fits the receive window is inside the largest one.
LEMMA FittingIsBounded ==
  ASSUME TypeOK, WindowInvariant, NEW e \in Endpoint, NEW sn \in Nat,
         FitsReceiveWindow(e, sn)
  PROVE  sn < rcv_nxt[e] + LargestWindow(e)
<1>1. /\ rcv_nxt[e] \in Nat /\ rcv_wnd(e) \in Nat /\ SeqMod \in Nat \ {0}
      /\ rcv_wnd(e) <= LargestWindow(e) /\ LargestWindow(e) \in Nat
  BY EndpointTypes, WindowsInUse, LargestWindowType, ConfigAssumption
     DEF WindowInvariant
<1>2. (rcv_nxt[e] + rcv_wnd(e)) % SeqMod <= rcv_nxt[e] + rcv_wnd(e)
  BY <1>1
<1>3. QED BY <1>1, <1>2 DEF FitsReceiveWindow

LEMMA ArriveStep ==
  ASSUME TypeOK, DeliveryInvariant, WindowInvariant, NEW e \in Endpoint,
         Arrive(e)
  PROVE  /\ \A x \in Endpoint : ReceiverStep(x)
         /\ UNCHANGED <<snd_nxt, stream, receive_window>>
<1>1. Arrived(e) /\ UNCHANGED <<receive_window, stream, snd_nxt>>
  BY ArriveEffect
<1>2. CASE UNCHANGED <<rcv_buf, rcv_queue, rcv_nxt>>
  BY <1>1, <1>2 DEF ReceiverStep
<1>3. ASSUME NEW s \in Stored, FitsReceiveWindow(e, s.sn),
             rcv_buf[e] \union {s} \in SUBSET Stored,
             InPlace(e, rcv_buf[e] \union {s}, rcv_queue[e]),
             MoveReceiveBufferToQueue(e, rcv_buf[e] \union {s}, rcv_queue[e])
      PROVE  \A x \in Endpoint : ReceiverStep(x)
  <2>1. s.sn < rcv_nxt[e] + LargestWindow(e)
    BY <1>3, FittingIsBounded DEF Stored
  <2>2. /\ \A t \in rcv_buf[e] \union {s} : t.sn < rcv_nxt[e] + LargestWindow(e)
        /\ Len(rcv_queue[e]) <= LargestWindow(e)
        /\ rcv_queue[e] \in Seq(Fragment)
    BY <2>1, EndpointTypes DEF WindowInvariant
  <2>3. QED BY <1>1, <1>3, <2>2, MoveStep
<1>4. QED BY <1>1, <1>2, <1>3 DEF Arrived

LEMMA EveryReceiverStep ==
  ASSUME DeliveryInvariant, WindowInvariant, [Next]_vars
  PROVE  \A x \in Endpoint : ReceiverStep(x)
<1>0. TypeOK
  BY DEF DeliveryInvariant
<1>1. ASSUME NEW e \in Endpoint, AppRecv(e) \/ Arrive(e)
      PROVE  \A x \in Endpoint : ReceiverStep(x)
  BY <1>0, <1>1, RecvStep, ArriveStep
<1>2. CASE UNCHANGED <<rcv_buf, rcv_queue, rcv_nxt>>
  BY <1>2 DEF ReceiverStep
<1>3. ASSUME NEW e \in Endpoint, AppSend(e) \/ Update(e) \/ Resize(e)
      PROVE  UNCHANGED <<rcv_buf, rcv_queue, rcv_nxt>>
  BY <1>3 DEF AppSend, Send, Update, Flush, Resize, SetSendWindow,
              SetReceiveWindow, receiverVars
<1>4. CASE UNCHANGED vars
  BY <1>2, <1>4 DEF vars, endpointVars, receiverVars
<1>5. QED BY <1>1, <1>2, <1>3, <1>4 DEF Next

-----------------------------------------------------------------------------
(* WindowInvariant is inductive.                                           *)

\* The messages of e stay within its limits.
Limited(e) == \A i \in 1..Len(stream[e]) : stream[e][i].frg < LargestMessage(e)

LEMMA SendIsLimited ==
  ASSUME TypeOK, WindowInvariant, NEW e \in Endpoint, AppSend(e)
  PROVE  /\ \A x \in Endpoint : Limited(x)'
         /\ UNCHANGED receive_window
<1>1. PICK n \in 1..MaxFragments : Send(e, n)
  BY DEF AppSend
<1>2. UNCHANGED receive_window
  BY <1>1 DEF Send, configVars
<1>3. SentMessage(e, n) /\ \A x \in Endpoint \ {e} : stream'[x] = stream[x]
  BY <1>1 DEF Send, SentMessage, TypeOK, EndpointTypeOK
<1> DEFINE l == Len(stream[e])
<1>4. /\ l \in Nat /\ n \in Nat \ {0} /\ Len(stream'[e]) = l + n
      /\ \A i \in 1..l : stream'[e][i] = stream[e][i]
      /\ \A j \in 1..n :
           stream'[e][l + j] = [msg |-> Len(accepted[e]) + 1, frg |-> n - j]
  BY <1>3, SentEffect
<1>5. n <= LargestMessage(e) /\ LargestMessage(e) \in Nat
  <2>1. /\ l + n <= Quota[e] /\ n <= MaxFragments /\ n <= rcv_wnd(e)
    BY <1>1 DEF Send, FitsSendLimits
  <2>2. /\ rcv_wnd(e) \in Nat /\ rcv_wnd(e) <= LargestWindow(e)
        /\ LargestWindow(e) \in Nat /\ Quota[e] \in Nat
    BY WindowsInUse, LargestWindowType, ConfigAssumption DEF WindowInvariant
  <2> HIDE DEF l
  <2>3. n <= LargestWindow(e) /\ n <= Quota[e] /\ n \in Nat
    BY <1>4, <2>1, <2>2
  <2>4. QED BY <2>1, <2>3, LargestMessageType
<1> HIDE DEF l
<1>6. ASSUME NEW i \in 1..Len(stream'[e])
      PROVE  stream'[e][i].frg < LargestMessage(e)
  <2>1. i \in 1..(l + n)
    BY <1>4
  <2>2. CASE i \in 1..l
    BY <1>4, <2>2 DEF WindowInvariant, l
  <2>3. ASSUME NEW j \in 1..n, i = l + j
        PROVE  stream'[e][i].frg < LargestMessage(e)
    <3>0. stream'[e][l + j] = [msg |-> Len(accepted[e]) + 1, frg |-> n - j]
      BY <1>4
    <3>1. stream'[e][l + j].frg = n - j
      BY <3>0
    <3>2. n - j < LargestMessage(e)
      BY <1>4, <1>5
    <3>3. QED BY <2>3, <3>1, <3>2
  <2>4. QED BY <1>4, <2>1, <2>2, <2>3, OldOrNew
<1>7. ASSUME NEW x \in Endpoint PROVE Limited(x)'
  <2>1. CASE x = e
    BY <1>6, <2>1 DEF Limited
  <2>2. CASE x # e
    BY <1>3, <2>2 DEF Limited, WindowInvariant
  <2>3. QED BY <2>1, <2>2
<1>8. QED BY <1>2, <1>7

LEMMA InitWindows == Init => WindowInvariant
<1> SUFFICES ASSUME Init, NEW e \in Endpoint
             PROVE  /\ receive_window[e] \in ReceiveWindow[e]
                    /\ Bounded(e) /\ Limited(e)
  BY DEF WindowInvariant, Bounded, Limited
<1>1. /\ receive_window[e] \in ReceiveWindow[e]
      /\ rcv_buf[e] = {} /\ rcv_queue[e] = <<>> /\ stream[e] = <<>>
  BY DEF Init, EndpointInit, ChosenFrom
<1>2. Bounded(e) /\ Limited(e)
  BY <1>1, LargestWindowType DEF Bounded, Limited
<1>3. QED BY <1>1, <1>2

LEMMA WindowInductive ==
  DeliveryInvariant /\ WindowInvariant /\ [Next]_vars => WindowInvariant'
<1> SUFFICES ASSUME DeliveryInvariant, WindowInvariant, [Next]_vars,
                    NEW x \in Endpoint
             PROVE  /\ receive_window'[x] \in ReceiveWindow[x]
                    /\ Bounded(x)' /\ Limited(x)'
  BY DEF WindowInvariant, Bounded, Limited
<1>0. /\ TypeOK /\ receive_window[x] \in ReceiveWindow[x]
      /\ Bounded(x) /\ Limited(x)
  BY DEF DeliveryInvariant, WindowInvariant, Bounded, Limited
<1>1. Bounded(x)'
  <2>1. ReceiverStep(x)
    BY EveryReceiverStep
  <2>2. QED BY <1>0, <2>1 DEF ReceiverStep, Bounded
<1>2. ASSUME NEW e \in Endpoint, AppSend(e)
      PROVE  receive_window'[x] \in ReceiveWindow[x] /\ Limited(x)'
  BY <1>0, <1>2, SendIsLimited
<1>3. ASSUME stream' = stream, receive_window' = receive_window
      PROVE  receive_window'[x] \in ReceiveWindow[x] /\ Limited(x)'
  <2>1. Limited(x)'
    BY <1>0, <1>3 DEF Limited
  <2>2. QED BY <1>0, <1>3, <2>1
<1>4. ASSUME NEW e \in Endpoint, Resize(e)
      PROVE  receive_window'[x] \in ReceiveWindow[x] /\ Limited(x)'
  <2>1. stream' = stream
    BY <1>4 DEF Resize, SetSendWindow, SetReceiveWindow, historyVars
  <2>2. receive_window'[x] \in ReceiveWindow[x]
    BY <1>0, <1>4 DEF Resize, SetSendWindow, SetReceiveWindow, TypeOK,
                      EndpointTypeOK
  <2>3. QED BY <1>0, <2>1, <2>2 DEF Limited
<1>5. ASSUME NEW e \in Endpoint, AppRecv(e) \/ Arrive(e) \/ Update(e)
      PROVE  stream' = stream /\ receive_window' = receive_window
  <2>1. CASE AppRecv(e) BY <1>0, <2>1, RecvStep
  <2>2. CASE Arrive(e) BY <1>0, <2>2, ArriveStep
  <2>3. CASE Update(e) BY <2>3 DEF Update, Flush, configVars, historyVars
  <2>4. QED BY <1>5, <2>1, <2>2, <2>3
<1>6. CASE UNCHANGED vars
  <2>1. stream' = stream /\ receive_window' = receive_window
    BY <1>6 DEF vars, endpointVars, configVars, historyVars
  <2>2. QED BY <1>1, <1>3, <2>1
<1>7. QED BY <1>1, <1>2, <1>3, <1>4, <1>5, <1>6 DEF Next

LEMMA WindowInvariantHolds == Spec => []WindowInvariant
<1>1. Init => WindowInvariant
  BY InitWindows
<1>2. DeliveryInvariant /\ WindowInvariant /\ [Next]_vars => WindowInvariant'
  BY WindowInductive
<1>3. Spec => []DeliveryInvariant
  BY DeliveryInvariantHolds
<1>4. QED BY <1>1, <1>2, <1>3, PTL DEF Spec

-----------------------------------------------------------------------------
(* The theorems about windows.                                             *)

\* The receiver of a segment that fits its window stays inside the largest
\* window the application has ever set, whatever the sender overshoots.
THEOREM ReceiverStaysBounded == Spec => []ReceiverIsBounded
<1>1. DeliveryInvariant /\ WindowInvariant => ReceiverIsBounded
  <2> SUFFICES ASSUME DeliveryInvariant, WindowInvariant, NEW e \in Endpoint
               PROVE  /\ \A s \in rcv_buf[e] :
                           s.sn \in rcv_nxt[e]..(rcv_nxt[e] + LargestWindow(e) - 1)
                      /\ Cardinality(Sns(rcv_buf[e])) = Cardinality(rcv_buf[e])
                      /\ Len(rcv_queue[e]) <= LargestWindow(e)
    BY DEF ReceiverIsBounded
  <2> DEFINE buf == rcv_buf[e]
             place(sn) == stream[Peer(e)][sn + 1]
             S == Sns(buf)
             f == [sn \in S |-> [sn |-> sn, frag |-> place(sn)]]
             first == rcv_nxt[e]
             last == rcv_nxt[e] + LargestWindow(e) - 1
  <2>1. buf \in SUBSET Stored /\ first \in Nat /\ LargestWindow(e) \in Nat
    BY EndpointTypes, LargestWindowType DEF DeliveryInvariant
  <2>2. ASSUME NEW s \in buf
        PROVE  /\ s.sn \in first..last
               /\ s = [sn |-> s.sn, frag |-> place(s.sn)]
    <3>1. s.sn \in Nat /\ s = [sn |-> s.sn, frag |-> s.frag]
      BY <2>1 DEF Stored
    <3>2. s.sn >= first /\ s.frag = place(s.sn)
      BY DEF DeliveryInvariant, StreamInvariant, ReceiverInvariant
    <3>3. s.sn < first + LargestWindow(e)
      BY DEF WindowInvariant
    <3>4. QED BY <2>1, <3>1, <3>2, <3>3
  <2>3. IsFiniteSet(S)
    <3>1. S \in SUBSET (first..last)
      BY <2>2 DEF Sns
    <3>2. IsFiniteSet(first..last)
      BY <2>1, FS_Interval
    <3> HIDE DEF S, first, last
    <3>3. QED BY <3>1, <3>2, FS_Subset
  <2>4. f \in Bijection(S, buf)
    <3> HIDE DEF place
    <3>1. S = {s.sn : s \in buf}
      BY DEF Sns
    <3> HIDE DEF S, buf
    <3>2. f \in [S -> buf]
      BY <2>2, <3>1
    <3>3. \A a, b \in S : f[a] = f[b] => a = b
      OBVIOUS
    <3>4. \A s \in buf : \E a \in S : f[a] = s
      BY <2>2, <3>1
    <3> HIDE DEF f
    <3>5. f \in Injection(S, buf)
      BY <3>2, <3>3, Zenon DEF Injection, IsInjective
    <3>6. f \in Surjection(S, buf)
      BY <3>2, <3>4, Zenon DEF Surjection
    <3>7. QED BY <3>5, <3>6, Zenon DEF Bijection
  <2>5. Cardinality(S) = Cardinality(buf)
    <3> HIDE DEF f, S, buf
    <3>1. ExistsBijection(S, buf)
      BY <2>4, Zenon DEF ExistsBijection
    <3>2. QED BY <2>3, <3>1, FS_Bijection
  <2>6. QED BY <2>2, <2>5 DEF WindowInvariant
<1>2. QED BY <1>1, DeliveryInvariantHolds, WindowInvariantHolds, PTL

\* A queue at its limit holds a whole message, provided that every window
\* the receiver is given has room for the largest one the peer sends.
LEMMA QueueIsReadable ==
  ASSUME WindowsHoldMessages, DeliveryInvariant, WindowInvariant,
         NEW e \in Endpoint, Len(rcv_queue[e]) >= receive_window[e]
  PROVE  MessageReady(rcv_queue[e])
<1> DEFINE q == rcv_queue[e]
           p == Peer(e)
<1>1. /\ q \in Seq(Fragment) /\ Len(q) \in Nat
      /\ receive_window[e] \in Nat \ {0} /\ Len(stream[p]) \in Nat
      /\ snd_nxt[p] \in Nat /\ rcv_nxt[e] \in Nat
      /\ Len(snd_queue[p]) \in Nat
  BY PeerProperties, EndpointTypes DEF DeliveryInvariant, TypeOK, EndpointTypeOK
<1>2. Len(q) >= 1 /\ q # <<>>
  BY <1>1
<1>3. /\ SenderInvariant(p) /\ ReceiverInvariant(e) /\ p \in Endpoint
  BY PeerProperties DEF DeliveryInvariant, StreamInvariant
<1>4. Taken(e) + 1 \in 1..Len(stream[p])
  BY <1>1, <1>2, <1>3 DEF Taken, SenderInvariant, ReceiverInvariant
<1>5. q[1] = stream[p][Taken(e) + 1]
  BY <1>1, <1>2, <1>3 DEF ReceiverInvariant
<1>6. q[1].frg < LargestMessage(p) /\ q[1].frg \in Nat
  <2>1. stream[p][Taken(e) + 1].frg < LargestMessage(p)
    BY <1>3, <1>4 DEF WindowInvariant
  <2>2. q[1] \in Fragment
    BY <1>1, <1>2
  <2>3. QED BY <1>5, <2>1, <2>2 DEF Fragment
<1>7. LargestMessage(p) <= receive_window[e] /\ LargestMessage(p) \in Nat
  BY <1>3, LargestMessageType DEF WindowInvariant, WindowsHoldMessages
<1>8. Len(q) >= q[1].frg + 1
  BY <1>1, <1>6, <1>7
<1>9. Head(q) = q[1]
  BY <1>1, <1>2
<1> HIDE DEF q
<1>10. MessageReady(q)
  BY <1>2, <1>8, <1>9 DEF MessageReady
<1>11. QED BY <1>10 DEF q

\* A full receive queue is never stuck on a message that it cannot hold.
THEOREM FullQueueStaysReadable ==
  ASSUME WindowsHoldMessages
  PROVE  Spec => []FullQueueIsReadable
<1>1. DeliveryInvariant /\ WindowInvariant => FullQueueIsReadable
  BY QueueIsReadable DEF FullQueueIsReadable, queue_limit
<1>2. QED BY <1>1, DeliveryInvariantHolds, WindowInvariantHolds, PTL

LEMMA StallInductive ==
  /\ DeliveryInvariant /\ WindowInvariant /\ NoHeadOfLineStall
  /\ FullQueueIsReadable' /\ [Next]_vars
  => NoHeadOfLineStall'
<1> SUFFICES ASSUME DeliveryInvariant, WindowInvariant, NoHeadOfLineStall,
                    FullQueueIsReadable', [Next]_vars,
                    NEW x \in Endpoint, HoldsBack(x)'
             PROVE  MessageReady(rcv_queue'[x])
  BY DEF NoHeadOfLineStall, HoldsBack
<1>1. ReceiverStep(x)
  BY EveryReceiverStep
<1>2. CASE /\ rcv_buf'[x] = rcv_buf[x] /\ rcv_queue'[x] = rcv_queue[x]
           /\ rcv_nxt'[x] = rcv_nxt[x]
  BY <1>2 DEF NoHeadOfLineStall, HoldsBack
<1>3. CASE Len(rcv_queue'[x]) >= receive_window'[x]
  BY <1>3 DEF FullQueueIsReadable, queue_limit
<1>4. QED BY <1>1, <1>2, <1>3 DEF ReceiverStep

\* No order of arrivals, reads and window changes leaves the segment that
\* recv() waits for in rcv_buf.
THEOREM NeverStallsAtTheHead ==
  ASSUME WindowsHoldMessages
  PROVE  Spec => []NoHeadOfLineStall
<1>1. Init => NoHeadOfLineStall
  BY DEF Init, EndpointInit, NoHeadOfLineStall, HasSn
<1>2. /\ DeliveryInvariant /\ WindowInvariant /\ NoHeadOfLineStall
      /\ FullQueueIsReadable' /\ [Next]_vars
      => NoHeadOfLineStall'
  BY StallInductive
<1>3. Spec => []FullQueueIsReadable
  BY FullQueueStaysReadable
<1>4. QED
  BY <1>1, <1>2, <1>3, DeliveryInvariantHolds, WindowInvariantHolds, PTL
     DEF Spec

-----------------------------------------------------------------------------
(* Sequence numbers.                                                       *)

\* What is left in flight starts no earlier than what was in flight.
LEMMA RemoteUnaGrows ==
  ASSUME NEW old \in SUBSET Stored, NEW new \in SUBSET old, NEW nxt \in Nat,
         \A s \in old : s.sn < nxt
  PROVE  RemoteUna(old, nxt) <= RemoteUna(new, nxt)
<1>1. /\ RemoteUna(old, nxt) \in Nat /\ RemoteUna(new, nxt) \in Nat
      /\ old # {} => HasSn(old, RemoteUna(old, nxt))
      /\ \A s \in old : RemoteUna(old, nxt) <= s.sn
      /\ new # {} => HasSn(new, RemoteUna(new, nxt))
  BY RemoteUnaType
<1>2. CASE new # {}
  BY <1>1, <1>2 DEF HasSn
<1>3. CASE new = {}
  <2>1. RemoteUna(new, nxt) = nxt
    BY <1>3 DEF RemoteUna
  <2>2. CASE old = {}
    BY <2>1, <2>2 DEF RemoteUna
  <2>3. CASE old # {}
    <3>1. RemoteUna(old, nxt) < nxt
      BY <1>1, <2>3 DEF HasSn
    <3>2. QED BY <1>1, <2>1, <3>1
  <2>4. QED BY <2>2, <2>3
<1>4. QED BY <1>2, <1>3

LEMMA ArriveNeverWraps ==
  ASSUME TypeOK, DeliveryInvariant, NEW e \in Endpoint, Arrive(e)
  PROVE  \A x \in Endpoint : snd_una[x] <= snd_una'[x]
<1>1. PICK seg \in net : seg.src = Peer(e) /\ Input(e, seg)
  BY DEF Arrive
<1>2. PICK buf \in SUBSET snd_buf[e] : SetInFlight(e, buf)
  <2>1. CASE InputAck(e, seg)
    BY <1>1, <2>1, AckIsHonest DEF InputAck
  <2>2. CASE InputPush(e, seg) \/ InputWask(e, seg) \/ InputWins(e, seg)
    BY <1>1, <2>2, UnaIsHonest DEF InputPush, InputWask, InputWins
  <2>3. QED BY <1>1, <2>1, <2>2 DEF Input
<1>3. /\ snd_una'[e] = RemoteUna(buf, snd_nxt[e])
      /\ \A x \in Endpoint \ {e} : snd_una'[x] = snd_una[x]
  BY <1>2 DEF SetInFlight, TypeOK, EndpointTypeOK
<1>4. /\ snd_una[e] = RemoteUna(snd_buf[e], snd_nxt[e])
      /\ snd_buf[e] \in SUBSET Stored /\ snd_nxt[e] \in Nat
      /\ \A s \in snd_buf[e] : s.sn < snd_nxt[e]
  BY EndpointTypes DEF DeliveryInvariant, StreamInvariant, SenderInvariant
<1>5. snd_una[e] <= snd_una'[e]
  BY <1>3, <1>4, RemoteUnaGrows
<1>6. \A x \in Endpoint : snd_una[x] \in Nat
  BY EndpointTypes
<1>7. QED BY <1>3, <1>5, <1>6

\* No step takes a sequence number back, at any length of execution: near
\* the end of the number space both ends stop.
THEOREM SequenceNumbersNeverWrap == Spec => NeverWraps
<1> DEFINE Grows(x) == /\ snd_una[x] <= snd_una'[x]
                       /\ snd_nxt[x] <= snd_nxt'[x]
                       /\ rcv_nxt[x] <= rcv_nxt'[x]
<1>1. DeliveryInvariant /\ WindowInvariant /\ [Next]_vars
        => \A x \in Endpoint : Grows(x)
  <2> SUFFICES ASSUME DeliveryInvariant, WindowInvariant, [Next]_vars,
                      NEW x \in Endpoint
               PROVE  Grows(x)
    OBVIOUS
  <2>0. /\ TypeOK
        /\ snd_una[x] \in Nat /\ snd_nxt[x] \in Nat /\ rcv_nxt[x] \in Nat
    BY EndpointTypes DEF DeliveryInvariant
  <2>1. rcv_nxt[x] <= rcv_nxt'[x]
    BY <2>0, EveryReceiverStep DEF ReceiverStep
  <2>2. ASSUME NEW e \in Endpoint, Update(e)
        PROVE  snd_una[x] <= snd_una'[x] /\ snd_nxt[x] <= snd_nxt'[x]
    <3>1. PICK cwnd \in 0..SendLimit(e), due \in SUBSET snd_buf[e],
               ask \in BOOLEAN : Flush(e, cwnd, due, ask)
      BY <2>2 DEF Update
    <3>2. snd_nxt[x] <= snd_nxt'[x]
      BY <2>0, <3>1, FlushSender
    <3>3. QED BY <2>0, <3>1, <3>2 DEF Flush
  <2>3. ASSUME NEW e \in Endpoint, Arrive(e)
        PROVE  snd_una[x] <= snd_una'[x] /\ snd_nxt[x] <= snd_nxt'[x]
    BY <2>0, <2>3, ArriveNeverWraps, ArriveEffect
  <2>4. CASE UNCHANGED <<snd_una, snd_nxt>>
    BY <2>0, <2>1, <2>4
  <2>5. ASSUME NEW e \in Endpoint, AppSend(e) \/ AppRecv(e) \/ Resize(e)
        PROVE  UNCHANGED <<snd_una, snd_nxt>>
    BY <2>5 DEF AppSend, Send, AppRecv, Recv, Resize, SetSendWindow,
                SetReceiveWindow, senderVars
  <2>6. CASE UNCHANGED vars
    BY <2>4, <2>6 DEF vars, endpointVars, senderVars
  <2>7. QED BY <2>1, <2>2, <2>3, <2>4, <2>5, <2>6 DEF Next
<1>2. (\A x \in Endpoint : Grows(x))
        <=> (\A e \in Endpoint :
               /\ snd_una[e] <= snd_una'[e] /\ snd_nxt[e] <= snd_nxt'[e]
               /\ rcv_nxt[e] <= rcv_nxt'[e])
  OBVIOUS
<1> HIDE DEF Grows
<1>3. QED
  BY <1>1, <1>2, DeliveryInvariantHolds, WindowInvariantHolds, PTL
     DEF Spec, NeverWraps

===============================================================================

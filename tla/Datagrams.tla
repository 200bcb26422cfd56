-------------------------------- MODULE Datagrams --------------------------------
(***************************************************************************)
(* Sizes: how send() cuts a message into payloads and how one flush() puts *)
(* acknowledgements, probes and payloads into datagrams through Flusher.   *)
(* Every segment is a header of HEADER bytes and a payload that may be     *)
(* empty; the bytes themselves do not matter here.                         *)
(***************************************************************************)
EXTENDS Integers, Sequences, FiniteSetsExt

CONSTANTS
  MTU,              \* template parameter of ImKcpp
  HEADER,           \* fixed_size<SegmentHeader>(), 24
  RcvWnd,           \* get_receive_window()
  MaxFragments,     \* largest value of u8, 255
  MaxMessage,       \* bound: bytes of one message
  MaxBytes,         \* bound: bytes of all the messages
  MaxAcks           \* bound: acknowledgements in one flush

ASSUME SizeAssumption ==
  /\ HEADER \in Nat \ {0}
  /\ MTU \in Nat /\ MTU >= HEADER + 1      \* static_assert of MTU_TO_MSS
  /\ {RcvWnd, MaxFragments, MaxMessage, MaxBytes, MaxAcks} \subseteq Nat

VARIABLES
  snd_queue,    \* payload sizes of the segments that are to be sent
  flushing,     \* a flush() is under way
  acks, probes, \* service segments this flush still has to send
  data,         \* payload sizes this flush still has to send
  offset,       \* Flusher::offset
  payload,      \* history: payload bytes in the buffer
  datagram,     \* history: size of the last datagram, 0 if there was none
  empties,      \* history: datagrams of no byte at all
  accepted,     \* history: bytes send() has accepted
  delivered     \* history: payload bytes passed to the output callback

flusherVars == <<offset, payload, datagram, empties, delivered>>
vars == <<snd_queue, flushing, acks, probes, data, flusherVars, accepted>>

MSS == MTU - HEADER

-----------------------------------------------------------------------------
(* send().                                                                 *)

\* Faulty variant: the last, incomplete payload is not counted.
EstimateSegmentsCount_Floor(size) == Max({1, size \div MSS})

\* Faulty variant: a message of whole payloads ends with an empty one.
EstimateSegmentsCount_EmptyLast(size) == size \div MSS + 1

EstimateSegmentsCount(size) == Max({1, (size + MSS - 1) \div MSS})

EstimateMaxPayloadSize == MSS * Min({RcvWnd, MaxFragments})

\* Faulty variant: a message as long as the window is refused.
Accepts_BelowWindow(size) ==
  /\ size > 0
  /\ EstimateSegmentsCount(size) <= MaxFragments
  /\ EstimateSegmentsCount(size) < RcvWnd

Accepts(size) ==
  /\ size > 0
  /\ EstimateSegmentsCount(size) <= MaxFragments
  /\ EstimateSegmentsCount(size) <= RcvWnd

Payloads(size) ==
  [i \in 1..EstimateSegmentsCount(size) |-> Min({size - (i - 1) * MSS, MSS})]

Send(size) ==
  /\ ~flushing
  /\ accepted + size <= MaxBytes
  /\ Accepts(size)
  /\ snd_queue' = snd_queue \o Payloads(size)
  /\ accepted' = accepted + size
  /\ UNCHANGED <<flushing, acks, probes, data, flusherVars>>

-----------------------------------------------------------------------------
(* Flusher.                                                                *)

\* Faulty variant: the header that comes with the payload is forgotten.
DoesNotFit_NoHeader(size) == offset + size > MTU

DoesNotFit(size) == offset + size > MSS

IsFull == offset > MSS

\* A segment is written, after the buffer has been emptied if it must be.
\* The callback gets what the buffer holds, even when that is nothing.
Emplace(size, first) ==
  /\ offset' = (IF first THEN 0 ELSE offset) + HEADER + size
  /\ payload' = (IF first THEN 0 ELSE payload) + size
  /\ datagram' = IF first THEN offset ELSE datagram
  /\ empties' = empties + (IF first /\ offset = 0 THEN 1 ELSE 0)
  /\ delivered' = delivered + (IF first THEN payload ELSE 0)

-----------------------------------------------------------------------------
(* flush(): acknowledgements, then probes, then data, then the rest.       *)

Begin ==
  /\ ~flushing
  /\ flushing' = TRUE
  /\ acks' \in 0..MaxAcks /\ probes' \in 0..2
  /\ \E n \in 0..Len(snd_queue) :       \* as many as the windows let out
       /\ data' = SubSeq(snd_queue, 1, n)
       /\ snd_queue' = SubSeq(snd_queue, n + 1, Len(snd_queue))
  /\ UNCHANGED <<flusherVars, accepted>>

FlushAck ==
  /\ flushing /\ acks > 0
  /\ acks' = acks - 1
  /\ Emplace(0, IsFull)
  /\ UNCHANGED <<snd_queue, flushing, probes, data, accepted>>

FlushProbe ==
  /\ flushing /\ acks = 0 /\ probes > 0
  /\ probes' = probes - 1
  /\ Emplace(0, IsFull)
  /\ UNCHANGED <<snd_queue, flushing, acks, data, accepted>>

FlushData ==
  /\ flushing /\ acks = 0 /\ probes = 0 /\ data # <<>>
  /\ data' = Tail(data)
  /\ Emplace(Head(data), DoesNotFit(Head(data)))
  /\ UNCHANGED <<snd_queue, flushing, acks, probes, accepted>>

\* flush_if_not_empty().
FlushRest ==
  /\ flushing /\ acks = 0 /\ probes = 0 /\ data = <<>>
  /\ flushing' = FALSE
  /\ offset' = 0 /\ payload' = 0
  /\ datagram' = IF offset # 0 THEN offset ELSE datagram
  /\ UNCHANGED empties
  /\ delivered' = delivered + payload
  /\ UNCHANGED <<snd_queue, acks, probes, data, accepted>>

Init ==
  /\ snd_queue = <<>> /\ data = <<>>
  /\ flushing = FALSE /\ acks = 0 /\ probes = 0
  /\ offset = 0 /\ payload = 0 /\ datagram = 0 /\ empties = 0
  /\ accepted = 0 /\ delivered = 0

Next ==
  \/ \E size \in 1..MaxMessage : Send(size)
  \/ Begin \/ FlushAck \/ FlushProbe \/ FlushData \/ FlushRest

Spec == Init /\ [][Next]_vars

-----------------------------------------------------------------------------

TypeOK ==
  /\ snd_queue \in Seq(1..MSS) /\ data \in Seq(1..MSS)
  /\ flushing \in BOOLEAN
  /\ acks \in Nat /\ probes \in Nat
  /\ offset \in Nat /\ payload \in Nat
  /\ datagram \in Nat /\ empties \in Nat
  /\ accepted \in Nat /\ delivered \in Nat

\* The buffer of MTU bytes never overflows, and no datagram is empty or
\* longer than the MTU, whatever mix of segments one flush writes.
DatagramsFit ==
  /\ offset <= MTU
  /\ datagram <= MTU /\ empties = 0

\* The sum of a sequence of sizes.
Total(s) ==
  LET sum[i \in 0..Len(s)] == IF i = 0 THEN 0 ELSE sum[i - 1] + s[i]
  IN  sum[Len(s)]

\* Every byte send() has accepted is in a queue, in the buffer or passed to
\* the callback: cutting and packing neither lose nor repeat a byte.
BytesAreConserved ==
  accepted = Total(snd_queue) + Total(data) + payload + delivered

\* Whenever the application may call send(), estimate_max_payload_size() is
\* exactly the longest message that is accepted.
EstimateIsExact ==
  ~flushing => \A size \in 1..MaxMessage : Accepts(size) <=> size <= EstimateMaxPayloadSize

=============================================================================

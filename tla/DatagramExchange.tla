----------------------------- MODULE DatagramExchange -----------------------------
(***************************************************************************)
(* The bytes of a datagram: flush() of Datagrams writes segments into the  *)
(* buffer, the output callback hands the buffer to the peer, and the loop  *)
(* of input() finds the segments again, by nothing but their lengths.      *)
(* A transport may cut the end of a datagram off.                          *)
(*                                                                         *)
(* FlushResult and InputResult, the counters that both ends return to the  *)
(* application, are part of the state.                                     *)
(***************************************************************************)
EXTENDS Datagrams

VARIABLES
  buffer,     \* the first offset bytes of Flusher::buffer
  packed,     \* history: the segments in buffer
  sent,       \* FlushResult of this flush(): what it has counted so far
  wire,       \* the datagram input() reads
  held,       \* history: the segments that were packed into wire
  cut,        \* history: bytes the transport has cut off wire
  whole,      \* history: no datagram of this flush() has been cut
  reading,    \* input() is under way
  failed,     \* the last input() has returned an error
  at,         \* offset in input()
  result,     \* InputResult of this input()
  received,   \* the InputResults of this flush()'s datagrams, added up
  read        \* history: the segments input() has found in wire

bufferVars == <<buffer, packed, sent>>
inputVars == <<wire, held, cut, whole, reading, failed, at, result, received, read>>
exchangeVars == <<vars, bufferVars, inputVars>>

Service == {"ACK", "WASK", "WINS"}
Commands == Service \union {"PUSH"}

-----------------------------------------------------------------------------
(* Bytes.  Only the first byte of a header can be read as a header.        *)

Byte(what) == [cmd |-> what, len |-> 0]

Repeated(what, n) == [i \in 1..n |-> Byte(what)]

Bytes(seg) ==
  <<seg>> \o Repeated("header", HEADER - 1) \o Repeated("payload", seg.len)

-----------------------------------------------------------------------------
(* Counters.                                                               *)

NoCount == [cmd \in Commands |-> 0]

Nothing == [count |-> NoCount, dropped |-> 0, bytes |-> 0]

\* operator+ of InputResult.
Sum2(a, b) ==
  [count |-> [cmd \in Commands |-> a.count[cmd] + b.count[cmd]],
   dropped |-> a.dropped + b.dropped, bytes |-> a.bytes + b.bytes]

-----------------------------------------------------------------------------
(* flush().                                                                *)

\* The output callback, which calls input() of the peer.
Callback(lost) ==
  /\ wire' = SubSeq(buffer, 1, Len(buffer) - lost)
  /\ held' = packed
  /\ cut' = lost
  /\ whole' = (whole /\ lost = 0)
  /\ at' = 0 /\ result' = Nothing /\ read' = <<>>
  /\ reading' = (Len(wire') >= HEADER)
  /\ failed' = (Len(wire') < HEADER)
  /\ UNCHANGED received

AfterCallback(called) ==
  IF called THEN \E lost \in 0..offset : Callback(lost) ELSE UNCHANGED inputVars

\* One more segment, after the buffer has been emptied if it must be.
Put(seg, first) ==
  /\ buffer' = (IF first THEN <<>> ELSE buffer) \o Bytes(seg)
  /\ packed' = Append(IF first THEN <<>> ELSE packed, seg)
  /\ sent' = [sent EXCEPT !.count[seg.cmd] = @ + 1,
                          !.bytes = @ + (IF first THEN offset ELSE 0)]
  /\ AfterCallback(first)

StartFlush ==
  /\ ~reading
  /\ Begin
  /\ sent' = Nothing /\ received' = Nothing
  /\ wire' = <<>> /\ held' = <<>> /\ cut' = 0 /\ whole' = TRUE
  /\ reading' = FALSE /\ failed' = FALSE /\ at' = 0
  /\ result' = Nothing /\ read' = <<>>
  /\ UNCHANGED <<buffer, packed>>

PutAck == ~reading /\ FlushAck /\ Put([cmd |-> "ACK", len |-> 0], IsFull)

\* WASK comes before WINS, and each only once.
PutProbe ==
  /\ ~reading
  /\ FlushProbe
  /\ \E cmd \in {"WASK", "WINS"} :
       /\ (probes = 2 => cmd = "WASK") /\ (cmd = "WASK" => sent.count[cmd] = 0)
       /\ Put([cmd |-> cmd, len |-> 0], IsFull)

PutData ==
  /\ ~reading
  /\ FlushData
  /\ Put([cmd |-> "PUSH", len |-> Head(data)], DoesNotFit(Head(data)))

\* Faulty variant: the bytes of the last datagram are not counted.
EndFlush_NotCounted ==
  /\ ~reading
  /\ FlushRest
  /\ buffer' = <<>> /\ packed' = <<>>
  /\ UNCHANGED sent
  /\ AfterCallback(offset # 0)

EndFlush ==
  /\ ~reading
  /\ FlushRest
  /\ buffer' = <<>> /\ packed' = <<>>
  /\ sent' = [sent EXCEPT !.bytes = @ + offset]
  /\ AfterCallback(offset # 0)

AppSend ==
  /\ ~reading
  /\ \E size \in 1..MaxMessage : Send(size)
  /\ UNCHANGED <<bufferVars, inputVars>>

-----------------------------------------------------------------------------
(* The loop of input(): one segment in each step.                          *)

Rest == Len(wire) - at

HasHeader == reading /\ Rest >= HEADER

header == wire[at + 1]

Refused == header.len > Rest - HEADER \/ header.cmd \notin Commands

\* Faulty variant: the payload of a segment that is dropped is not skipped.
Skipped_OnlyTaken(taken) == IF taken THEN header.len ELSE 0

\* What the offset moves on by: decode_from() or drop_push().
Skipped(taken) == header.len

ReadPush(taken) ==
  /\ HasHeader /\ ~Refused /\ header.cmd = "PUSH"
  /\ at' = at + HEADER + Skipped(taken)
  /\ result' = [result EXCEPT !.dropped = @ + (IF taken THEN 0 ELSE 1)]
  /\ read' = Append(read, header)
  /\ UNCHANGED <<vars, bufferVars, wire, held, cut, whole, reading, failed, received>>

\* The payload length of these commands is 0 and is not looked at.
ReadService ==
  /\ HasHeader /\ ~Refused /\ header.cmd \in Service
  /\ at' = at + HEADER
  /\ result' = [result EXCEPT !.count[header.cmd] = @ + 1]
  /\ read' = Append(read, header)
  /\ UNCHANGED <<vars, bufferVars, wire, held, cut, whole, reading, failed, received>>

\* An error: the application gets no InputResult.
ReadRefused ==
  /\ HasHeader /\ Refused
  /\ reading' = FALSE /\ failed' = TRUE
  /\ UNCHANGED <<vars, bufferVars, wire, held, cut, whole, at, result, received, read>>

\* Too little is left for a header.
ReadEnds ==
  /\ reading /\ Rest < HEADER
  /\ reading' = FALSE
  /\ received' = Sum2(received, [result EXCEPT !.bytes = at])
  /\ UNCHANGED <<vars, bufferVars, wire, held, cut, whole, failed, at, result, read>>

-----------------------------------------------------------------------------

ExchangeInit ==
  /\ Init
  /\ buffer = <<>> /\ packed = <<>> /\ sent = Nothing /\ received = Nothing
  /\ wire = <<>> /\ held = <<>> /\ cut = 0 /\ whole = TRUE
  /\ reading = FALSE /\ failed = FALSE /\ at = 0
  /\ result = Nothing /\ read = <<>>

ExchangeNext ==
  \/ AppSend
  \/ StartFlush \/ PutAck \/ PutProbe \/ PutData \/ EndFlush
  \/ \E taken \in BOOLEAN : ReadPush(taken)
  \/ ReadService \/ ReadRefused \/ ReadEnds

ExchangeSpec == ExchangeInit /\ [][ExchangeNext]_exchangeVars

-----------------------------------------------------------------------------

\* input() finds the segments flush() has packed, in their order, and none
\* besides: all of them when the datagram is whole, which is never refused,
\* and the first ones when it has been cut.  Its offset stays inside.
ParsesBack ==
  /\ at <= Len(wire)
  /\ read = SubSeq(held, 1, Len(read))
  /\ cut = 0 => ~failed
  /\ cut = 0 /\ ~reading => read = held

\* When a flush has ended and every datagram has arrived whole, the counters
\* that input() has returned add up to those that flush() has returned.
\* (InputResult::cmd_push_count is never written: only drops are counted.)
CountsAgree ==
  ~flushing /\ ~reading /\ whole =>
    /\ received.bytes = sent.bytes
    /\ \A cmd \in Service : received.count[cmd] = sent.count[cmd]
    /\ received.dropped <= sent.count["PUSH"]

=============================================================================

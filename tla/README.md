# A TLA+ model of imkcpp

imkcpp is a C++20 implementation of the KCP protocol: reliable, ordered delivery
of messages over datagrams. One `ImKcpp` object is one end of a connection. It
has no thread, no socket and no clock: the application calls `send()` and
`recv()`, hands every datagram that arrives to `input()`, and calls `update()`
with the current time; what has to go out is passed to an output callback.

## 1. Inventory

All the code is in `src/imkcpp/include/`. Two objects interact only through the
datagrams their callbacks give to the transport; inside one object the parts
share state by reference and are called in one thread.

| Part (file) | State | Operations | What makes it correct |
|---|---|---|---|
| ImKcpp (`imkcpp.hpp`) | `updated`, `current`, `ts_flush` | `send`, `recv`, `input`, `update`, `flush`, `check`, setters | messages arrive once, whole and in order; nothing acknowledged is lost; a flush happens at least once per interval |
| Sender (`sender.hpp`) | `snd_queue`, `fastresend`, `fastlimit`, `nodelay`, `xmit`, `dead_link` | `send`, `move_send_queue_to_buffer`, `flush_data_segments` | fragments are numbered in the order of the stream; at most a window in flight; every segment in flight is sent again until acknowledged |
| SenderBuffer (`sender_buffer.hpp`) | `snd_buf` | `push_segment`, `erase`, `erase_before`, `increment_fastack_before`, `get_earliest_transmit_delta` | sorted by sn; a segment leaves only when acknowledged |
| SegmentTracker (`segment_tracker.hpp`) | `snd_una`, `snd_nxt` | get, set, increment | `snd_una` is the first segment in flight |
| AckController (`ack_controller.hpp`) | `acklist`, `rmt_una` | `una_received`, `ack_received`, `schedule_ack`, `acknowledge_fastack` | acknowledges only what the receiver keeps |
| Receiver (`receiver.hpp`) | `rcv_buf`, `rcv_queue`, `rcv_nxt`, `queue_limit` | `emplace_segment`, `move_receive_buffer_to_queue`, `recv`, `peek_size` | in order, bounded, no stall while there is room |
| CongestionController (`congestion_controller.hpp`) | `rcv_wnd`, `rmt_wnd`, `snd_wnd`, `cwnd`, `ssthresh`, `incr` | window setters, `packets_resent`, `packet_lost`, `adjust_parameters` | the window never exceeds what both ends allow |
| WindowProber (`window_prober.hpp`) | `probe`, `ts_probe`, `probe_wait` | `update`, flags | a closed window is asked for until it opens |
| RtoCalculator (`rto_calculator.hpp`) | `srtt`, `rttvar`, `rto`, `minrto`, `interval` | `update_rto`, setters | rto within its limits, and above the round trip of a steady link |
| Flusher (`flusher.hpp`) | `buffer`, `offset` | `emplace`, `flush_if_*` | no datagram above MTU, none empty |
| SharedCtx (`shared_ctx.hpp`) | `state`, `conv`, `interval` | get, set | |
| Segments and bytes (`segment.hpp`, `serializer.hpp`, `types.hpp`, `endian.hpp`) | none | serialize, deserialize | what is written is read back |
| Results (`results.hpp`) | counters of one `input()` or `flush()` | `+`, `+=` | both ends count the same |

### Behaviours that are hard to test

* **Delivery.** The transport may lose, duplicate, delay and reorder datagrams. Three
  pieces of state at two ends (`snd_buf`, `rcv_buf` with `rcv_queue`, and what is on the
  network) must agree at every moment: a segment may leave `snd_buf` only when the peer
  holds it for good.
* **Stale information.** `una`, ACK and `wnd` of old datagrams are applied in arrival
  order; `snd_una` is a cached copy; `check()` writes `ts_flush`.
* **Windows and limits.** The window `send()` and `input()` use, the limit of `rcv_queue`
  and the window field of the header have different ranges.
* **Retransmission.** Timeout, fast retransmission, its limit, the dead link and the
  congestion window are driven by counters whose updates interleave over several calls;
  the timeout is computed from measurements with a clock that is behind.
* **Progress.** Data, acknowledgements, window probes and their answers may all be lost;
  each must be repeated until it is no longer needed.
* **Bytes.** `input()` finds the segments of a datagram by nothing but their lengths.
* **Numbers.** Sequence numbers are compared as plain `u32`, times by signed difference,
  sizes by rounded quotients; a flush packs segments of all kinds into one buffer.
* **Time.** Two timers (`ts_flush`, `ts_probe`) on a clock that wraps, pauses and may be
  set back, at the mercy of an application that decides when to call.

There is no concurrency inside an object and nothing is persisted, so there are no
interleavings of threads, no crashes and no restarts to model: the interleavings are
those of calls, datagrams and time.

## 2. The modules

| Module | Models | Composes |
|---|---|---|
| `Endpoint` | `send`, `recv`, `input`, `flush` of one object: queues, buffers, windows, acknowledgements | |
| `Connection` | two endpoints and the network, a set of all segments ever sent | `Endpoint`, refines `ReliableChannel` |
| `LossyConnection` | two endpoints and a network that forgets, with fairness: liveness | `Endpoint` |
| `ReliableChannel` | the promise: messages are delivered at most once, whole and in order | |
| `ConnectionInvariant` | the inductive invariants of `Connection`: delivery, message boundaries, windows | `Connection` |
| `CongestionController` | the congestion window as functions on a record | |
| `CongestionEvents` | every order of losses, resends, acknowledgements and windows | `CongestionController` |
| `Transmission` | the sending half in detail: deque, timers, counters, dead link | `CongestionController` |
| `RtoCalculator` | the retransmission timeout as functions on a record | |
| `RetransmissionTimer` | measurement, timeout and backoff of one segment, with the width of the clock | `RtoCalculator` |
| `Datagrams` | sizes: fragmentation by `send`, packing by `flush` and `Flusher` | |
| `DatagramExchange` | the bytes of the buffer, the callback, the loop of `input`, the results | `Datagrams`, implements it |
| `Wire` | the bytes of a header on hosts of every byte order | |
| `Schedule` | `update`, `check`, `set_interval`, the probe timer, on a clock of finite width | |
| `MCConnection`, `MCLossyConnection`, `MCSchedule` | instances of `Connection`, `LossyConnection` and `Schedule` for TLC | |
| `NumberLemmas` | arithmetic the proofs cite | |
| `ConnectionProofs`, `TransmissionProofs`, `CongestionProofs`, `TimerProofs`, `DatagramsProofs`, `ScheduleProofs`, `WireProofs` | proofs about `Connection`, `Transmission`, `CongestionEvents`, `RetransmissionTimer`, `Datagrams` and `DatagramExchange`, `Schedule`, `Wire` | |

Definitions keep the names of the code where they can (`snd_una`, `rcv_wnd`,
`MoveReceiveBufferToQueue` for `move_receive_buffer_to_queue()`). Definitions whose name
has a suffix, `Recv_NoRefill`, and the comment "Faulty variant" are a plausible mistake in
the code they stand for: they are used nowhere, and with any of them in place of the
original a property fails.

### Endpoint and Connection

One action per operation; each is the whole handler. `Send` includes the fragmentation
into `frg` numbers that count down, `Recv` the refill of `rcv_queue` and the
flag `AskTell`, `Input` the window and `una` of the header before the command, `Flush` the
acknowledgements, probes, the move from `snd_queue` to `snd_buf` and every segment that is
sent. A refused `send()` or `recv()` changes nothing and is no step.

What is abstracted, always towards more behaviours than the code has:

* Time is absent. Any segment in flight may be sent again at any flush, the prober may ask
  at any flush with a closed remote window, and the congestion window is any number up to
  min(`snd_wnd`, `rmt_wnd`). `Transmission` and `Schedule` fill this in.
* A datagram carries one segment. `input()` handles the segments of a datagram one after
  the other, so a larger datagram is several deliveries in a row; an error in the middle
  of one is that the later segments are lost.
* The deques are sets; `Transmission` shows for `snd_buf` that it is sorted, which is what
  makes the early exits of its loops harmless.
* A payload is named by its message. `sn` of WASK and WINS is 0: no receiver looks at it.
* `flush()` before the first `update()` returns at once and is no step.

`set_send_window()` and `set_receive_window()` are the action `Resize` and come at any
moment, with the arguments an application may use (`SendWindow`, `ReceiveWindow`); with one
argument it is the constructor's. `SetSendWindow` overwrites the window the peer has
announced, as the code does; `SetReceiveWindow` moves no segment.

The network is a set: a segment stays for good and may arrive at any moment, any number of
times or never. That is loss, duplication, reordering and delay in one.

Three history variables, `stream`, `accepted` and `delivered`, record what `send()` has
accepted and `recv()` has returned.

### LossyConnection

The same endpoints, but a segment is in transit until it arrives or is lost: `Update` keeps
at most `MaxLate` of the segments that were in transit besides those it sends. What arrives
in the end must have been sent again, so nothing here is delivered by patience alone.
The congestion window and the segments that are due are again anything `Endpoint` allows;
that they are not nothing for ever is fairness, see below. The setters are not
called after traffic has begun: a receive window that may change for ever is a different
question, and safety under it is checked in `Connection`.

### Transmission

The deque `snd_buf` with `xmit`, `fastack`, `rto` and `resendts` of every segment, one
action per call; `input()` alone is a step per turn of its loop. The three kinds of
transmission are the three branches of `process_segment`. `ReadAck` and `ReadOther` are one
segment of a datagram each, with its own window and `una`, which an application that reads late
holds back; `EndInput` is `acknowledge_fastack()` and `adjust_parameters()`, which `ReadError`
leaves out. `reading` keeps `flush()` and the setters out of the loop: `input()` is
not interrupted. The receiver is the set `got` of what has
arrived, and its answers may be late, repeated or lost. Time is relative (`resend_in`),
because `has_timed_out()` looks only at the signed difference. The wrap of the clock and of
`rto`, and the values `RtoCalculator` computes, are not in this module: `Rto` is a set;
`RetransmissionTimer` has both. `Configure` is a setter, at any moment.

### RtoCalculator and RetransmissionTimer

`RtoCalculator` has the integer arithmetic of `update_rto()` with its divisions and its
width. `RetransmissionTimer` drives it: a segment at a time on a link whose round trip is
constant, `update()` at most `MaxPause` after the previous one and `MaxLate` after a flush
is due, any transmission or its acknowledgement lost. `Init` is a new object: the constructor calls no
setter of this module, so the interval of `SharedCtx` is `IKCP_INTERVAL` and that of the calculator 0 until
`ConfigureInterval`, which is `set_interval()`, comes, if ever. Times are relative to now. `lag` is how far `ImKcpp::current` is
behind, which is what `input()` measures with; every acknowledgement carries the timestamp of
its own copy, so old ones are measurements too. `Resend` backs off as the code does, without
a limit but the width of `u32`, and `left` is the signed difference `has_timed_out()` looks at.
`SetNoDelay` comes at any moment; the timeout follows the new minimum at the next measurement,
so between the two it may be below it, and `TypeOK` bounds it by `IKCP_RTO_NDL` only.
The history `granularity` is the interval the last measurement was made with; a segment keeps the one
it was sent first under. `NoSegment` is a value of its own: every record of numbers is a segment that may be under way.

### CongestionController and CongestionEvents

`packets_resent`, `packet_lost`, `adjust_parameters`, `ensure_at_least_one_packet_in_flight`
and `calculate_congestion_window` are operators on a record of `cwnd`, `ssthresh` and
`incr`, used by `CongestionEvents`, where they come in any order, and by
`Transmission`, where they come when segments cause them.

### Datagrams

Only sizes. `Begin` chooses what a flush has to send, then every segment is a step, with
`flush_if_full` before service segments and `flush_if_does_not_fit` before data.

`DatagramExchange` extends it with bytes: `Put` serialises a segment, `AfterCallback` is the
output callback, which hands the buffer to `input()` of the peer at once, with any number
of bytes cut off at the end, and `ReadPush`, `ReadService`, `ReadRefused`, `ReadEnds` are one
turn each of the loop of `input()`. A byte of a header other than the first, or of a payload,
is no header: were the loop to start there, `Refused` or a wrong segment in `read` would show
it. Whether the peer keeps a PUSH or drops it is open (`taken`); `Connection` decides it.

### Wire

An integer is the sequence of its bytes. `Serialize` and `Deserialize` are one field each,
the byte order of the two hosts is any of three: x86, where `IWORDS_MUST_ALIGN` is 0 and
`htonl()` swaps, other little-endian processors, where it does not, and big-endian ones.

### Schedule

Calls take no time; `Tick` and `SetBack` move the clock. `update()` is one action with the
flush inside it, `check()` another, which also writes `ts_flush`. `std::abs` of the least
`i32` is undefined, so `IsFarAway` may be either. Which of two applications this is, the variable
`follows` says from first to last: one sleeps until the time `check()` returns (`wake`) and is late by
one at most; the other calls whenever it likes. Both call `update()` at least every `MaxIdle`, less
than half a period of the clock (24 days): beyond that a signed difference means nothing.
`resendts` is what `get_earliest_transmit_delta()` reads, the timers of the segments in flight, set,
kept and dropped by flushes and acknowledgements as `Transmission` decides.

## 3. What is checked

| Run | Instance | Shows |
|---|---|---|
| `oneway` | one end sends 3 fragments, messages of 1 or 2, to a peer whose receive window changes between 2 and 3; 6 different segments | only what is held is acknowledged (`AcksAreHonest`), the in-flight count never underflows (`InFlightBounds`), nothing ready waits in `rcv_buf` with room in the queue (`NoHeadOfLineStall`), a full queue holds a whole message (`FullQueueIsReadable`), and the abstract channel is implemented (`ImplementsChannel`) |
| `bothways` | 4 fragments one way, 1 the other, 4 sequence numbers, a send window of 3 against a receive window of 2, 5 segments | nothing used is lost (`NothingIsLost`), the inductive invariants (`DeliveryInvariant`, `FramingInvariant`), buffers are bounded even when `set_send_window()` makes the sender overshoot (`ReceiverIsBounded`), and at the end of the numbers both ends stop (`NeverWraps`) |
| `progress` | 3 messages of one fragment through a receive window of 1 with a send window of 2; every flush loses all but one of the segments in transit | every accepted message is delivered in the end, every segment in flight acknowledged |
| `congestion` | windows 0, 1, 3, 8, up to 12 in flight, send window 2 or 6, fast resend off, 2 or 5, all changed at any moment | `cwnd` and `incr` agree within a segment, the window never stays shut, and one acknowledgement opens it by at most two |
| `resends` | 3 segments, 3 transmissions of each, congestion window on, no limit of fast resends or 2, a dead link at 2 or 3, both changed at any moment; 635 thousand states | timeouts are waited for, fast resends are earned by later acknowledgements and stay below the limit in force (`FastResendsAreLimited`), nothing answered is sent again, the deque is sorted, the dead link is remembered |
| `datagrams` | MTU 6 with a header of 2, messages of up to 10 bytes, 2 acknowledgements and 2 probes in a flush, every datagram cut anywhere | no datagram is empty or above the MTU, every byte is sent once, the limit of `send()` is the announced one; `input()` finds what was packed and nothing else (`ParsesBack`), and both ends count the same (`CountsAgree`) |
| `round_trips` | a round trip of 3, timeouts of 2 to 4, a clock of 34 values, an interval of 2 and 0 in the calculator until `set_interval(3)`, pauses of up to 3, `set_nodelay()` with 0, 1, 2, both setters at any moment or never | the timeout stays within its limits; the timer does not send a segment again before its acknowledgement can arrive (`NoSpuriousTimeout`, with its three hypotheses); a lost segment is sent again and again although its timeout wraps around (`LostSegmentIsRetried`, liveness) |
| `schedule` | a clock of 16 values, two intervals, pauses beyond the jump; an application that follows `check()`, with two timers, and one that does not, whose clock is set back once; 266 thousand states | `ts_flush` is always ahead and near; a flush every interval; missed flushes are not made up for; obeying `check()` is enough for a flush every interval (`FollowingCheckIsEnough`) and to be awake at every timer (`CheckWakesForTimers`); WASK has its pause, and comes again and again while the window is closed (liveness) |

Four more runs look for violations, below.

Why the bounds are enough: three fragments and a window of two are the smallest instance in
which a segment waits out of order while another waits outside the window; the network holds
every segment such an exchange needs and old copies of them. `bothways` has a send window
above the peer's, so the sender is outside the window as soon as the announcement is
overwritten, and as many fragments as sequence numbers, so their end is reached. In
`progress` each fragment closes the window of one, so the third is sent only after two
rounds of WASK and WINS or of announcements in acknowledgements. More segments add
states and no new case, and the claims that matter most are proved without the
bound. In `resends` three segments are needed because the congestion
window has to grow before two are in flight; three transmissions are one above the limit, and four
acknowledgements of later segments (`MaxPassed`) pay for two fast resends of one segment, the first number
a limit of 2 forbids. In
`datagrams` three headers, or a header and a payload, fill the buffer exactly, a message of
6 bytes has a full and a shorter fragment, and longer ones are offered to the limit of
`send()`. In `round_trips` the clock is more than eight times the largest
timeout, as in the code (`RtoAssumption`), and a few retransmissions take a timeout over
it; the interval is given before, after or between measurements, and a pause as long as the longer
interval makes the clock of `input()` as late as the hypothesis allows. In `schedule` timers are left
out of the application that does not follow `check()` and setting back out of the other one: `update()`
does not look at timers, and nothing is claimed of `wake` once the clock has been set back. The clock wraps in every long behaviour, and its numbers keep the order of the real ones: interval < jump, interval < probe, and `Elapse`,
`SetBacks` have steps beyond the jump. All runs check deadlock except those of
`Transmission`, where a sender whose segments have all reached the bound on
transmissions has nothing left to do, and that of `Wire`, which ends when the header has been
read.

`Connection` bounds the segments of an execution by `MaxNet`; the fragments of an
application are bounded by `Quota`. A `Connection` that has sent all it may can still
receive old segments, so it never deadlocks, also where the system would be quiet.

### Fairness

Safety needs none. Three specifications state some.

`FairSpec` of `Schedule` has weak fairness of `Tick` and of `Update`: time passes, and the
application goes on calling `update()`, which is how the library is driven: `input()` and
`check()` send nothing, and without `update()` (or `flush()`) nothing ever leaves. Nothing is
assumed of the peer, of `check()` or of when a call comes between two ticks.

`FairSpec` of `RetransmissionTimer` adds to these two weak fairness of `Arrive`: an
acknowledgement that is not lost is passed to `input()` when its time has come. Which ones
are lost is open: all of them may be.

`FairSpec` of `LossyConnection` says of an endpoint that sends, and of its peer:

* weak fairness of the updates that send the oldest segment in flight again, that take new
  fragments, and that ask a closed window. The application calls `update()`; that such
  updates come again and again is what the other modules check of the code:
  `LostSegmentIsRetried`, `NeverStarves` and `ClosedWindowIsProbed`.
* weak fairness of `recv()` and of `update()` at the peer: its application goes on reading.
* strong fairness of the arrival of the oldest segment, of its acknowledgement, of WASK and
  of a WINS with an open window: a network that loses any finite number of copies, but not all of
  infinitely many. Without it no protocol makes progress. Nothing is assumed
  of any other segment, and none of them stays in transit until it is wanted.

### Disagreements between code and documentation

Four runs look for the violation of what a comment or the documentation says, and find it:

* `small_window`: `set_receive_window(n)` with `n < 128` limits the receive queue to `n`
  but the window that `send()` and `input()` use to 128. A message of more than `n`
  fragments is accepted and acknowledged but never returned: `recv()` answers
  `waiting_for_fragment` for ever. `FullQueueIsReadable` holds (and is checked) where
  `rcv_wnd(Peer(e)) <= queue_limit(e)`.
* `fast_threshold`: fast retransmission needs one acknowledgement more than
  `set_fastresend()` documents (`<` where the comment says "required").
* `byte_order`: the README of imkcpp says it is "compatible with original KCP on the byte
  level". The original writes the least significant byte first on every host; imkcpp writes
  the most significant one first on x86 and on big-endian hosts, and the least significant
  one first on other little-endian hosts, so that an x86 and an ARM host cannot talk
  to each other either.
* `default_interval`: the interval of `RtoCalculator` (`rto_calculator.hpp:12`, "Interval aka G in
  RFC 2988", in "RTO = SRTT + max(G, K * RTTVAR)" at line 69) is 0 until `set_interval()` is called, while
  that of `SharedCtx`, by which `update()` flushes, starts at 100 ms. The constructor does not call
  it, so in a default object, on a steady link, the timeout comes down to the round trip as
  seen by a clock that is behind, and every segment is sent again while its
  acknowledgement is under way: with `set_nodelay(1)`, `update()` every 100 ms and a round trip of
  150 ms, the measurement and the timeout are 100 ms. `NoSpuriousTimeout` says what holds, of any object:
  the calculator must have been given an interval no shorter than the pauses of `update()`.

Seen while modelling, each a matter of one line that needs no run:

* `imkcpp.hpp:59`: the free window is an `i32` and the header field has 16 bits; a receive
  window of 65536 is announced as closed. `Header` has the truncation (`% WndMod`).
* `sender.hpp:193`: `dead_link` is compared with a count that includes the first
  transmission, so `set_deadlink(n)` allows *n* - 1 retransmissions where the comment at
  `imkcpp.hpp:119` says "retransmission count".
* `sender.hpp:176`: `fastlimit` is compared with the same count, of all transmissions of the segment, where
  `imkcpp.hpp:92` says "maximum count of fast resends per segment" and `constants.hpp:18` "max times to
  trigger fastack". The first transmission counts, and so does every timeout: `set_fastlimit(n)`
  allows *n* - 1 fast resends, none at all with 1, and fewer for a segment that has timed out before.
  `FastResendsAreLimited` has the number the code allows.
* `results.hpp:16`: `cmd_push_count` of `InputResult` is never written by `input()`.

## 4. What is proved

All for every value of the constants: any windows, message lengths, number of sequence
numbers, segments on the network, segment size, MTU, timeouts, intervals, width of the clock.
Every invariant and action property that a passing run checks is the statement of one of these
theorems; the run shows it on an instance.

| Theorem | States |
|---|---|
| `ConnectionProofs` | |
| `TypeCorrect`, `DeliveryInvariantHolds`, `NothingIsEverLost`, `AcknowledgementsAreHonest`, `InFlightCountIsSafe` | `TypeOK`, `DeliveryInvariant`, `NothingIsLost`, `AcksAreHonest`, `InFlightBounds` |
| `FramingInvariantHolds` | `FramingInvariant`: messages come out whole and in order |
| `ConnectionImplementsChannel` | `ImplementsChannel`: the refinement of `ReliableChannel` |
| `ReceiverStaysBounded`, `FullQueueStaysReadable`, `NeverStallsAtTheHead` | `ReceiverIsBounded`; under `WindowsHoldMessages`, `FullQueueIsReadable` and `NoHeadOfLineStall` |
| `SequenceNumbersNeverWrap` | `NeverWraps` |
| `TransmissionProofs` | |
| `TransmissionTypes`, `DequeStaysInOrder`, `AnsweredSegmentsLeave` | `TypeOK`, `BufferInOrder`, `NothingAnsweredStays` |
| `FastResendsEarned`, `FastResendsLimited`, `TimeoutsWaitedFor`, `DeadLinkRemembered` | `FastResendsAreEarned`, `FastResendsAreLimited`, `TimeoutsAreWaitedFor`, `DeadLinkIsRemembered` |
| `CongestionProofs` | |
| `WindowAlwaysMatchesIncr`, `NeverStarvesHolds`, `WindowOpensGradually` | `WindowMatchesIncr`, `NeverStarves`, `GrowsGradually` |
| `TimerProofs` | |
| `TimeoutStaysInLimits`, `TimeoutsAreNotSpurious` | `TypeOK`, `NoSpuriousTimeout` |
| `DatagramsProofs` | |
| `DatagramTypes`, `DatagramsAlwaysFit`, `EstimateIsAlwaysExact`, `BytesAlwaysConserved` | `TypeOK`, `DatagramsFit`, `EstimateIsExact`, `BytesAreConserved` |
| `ExchangeImplementsDatagrams`, `ExchangedDatagramsFit` | `ExchangeSpec => Spec`, and `DatagramsFit` of what the peer reads |
| `DatagramsParseBack`, `CountsAlwaysAgree` | `ParsesBack`, `CountsAgree` |
| `ScheduleProofs` | |
| `ScheduleTypes`, `FlushLiesAhead` | `TypeOK`, `ScheduleIsAhead` |
| `FlushesAreNotMissed`, `FlushesAreNotMadeUp`, `CheckIsEnough`, `CheckTellsOfTimers`, `ProbesKeepTheirDistance` | `FlushEveryInterval`, `FlushesArePaced`, `FollowingCheckIsEnough`, `CheckWakesForTimers`, `ProbesAreSpaced` |
| `WireProofs` | |
| `HeadersReadBack` | `FieldsReadBack` |

### Assumptions

Each module names its own, and TLC evaluates them in every run.

* `ConfigAssumption`: two endpoints, windows of at least 1 and below the number of
  sequence numbers (2^32 against an `i32`).
* `WindowsHoldMessages`, a hypothesis of two theorems and not an assumption: every window
  `set_receive_window()` is given holds the largest message of the peer. It is true in `oneway`
  and false in `small_window`, where `FullQueueIsReadable` fails.
* `RtoAssumption`, `TimerAssumption`: the width of the clock is even and more than eight times the
  largest timeout (2^32 against 60 s); round trips are below it, and the longest interval on top of it fits the
  clock. Of pauses, intervals and setters nothing is assumed: what `NoSpuriousTimeout` needs of them it says.
* `ScheduleAssumption`: an interval is below the tolerated jump (`set_interval()` clamps it to 10 to
  5000, the jump is 10000); twice the jump and twice the longest wait of the prober are below the
  period of the clock, as is twice the pause between two calls of `update()` with an interval. `Horizon`,
  where histories of time stop counting, is above what the properties compare them with.
* Sizes: an MTU with room for a header and a byte.

### Delivery

`NothingIsLost` (a used number is in `snd_buf` of its sender or held by its
receiver) is not inductive: an acknowledgement on the network may remove a segment, so what
is acknowledged must be held (`AcksAreHonest`), in acklists and on the network; that is
not inductive either, because an ACK is only as good as the numbers are unambiguous and
`rcv_nxt` never runs ahead of what was sent. `StreamInvariant` adds this: with the history
`stream`, position *i* is the fragment that gets number *i* - 1, and the queues, the buffers
and every segment on the network are pieces of it at their places. The conjunction with
`TypeOK` is `DeliveryInvariant`, which the run `bothways` checks and `DeliveryInductive`
proves preserved by each action, one lemma per operation, the setters among them: nothing in
the argument depends on the windows, which is why they may change. Sequence numbers do not wrap in
this argument because they cannot: `snd_nxt < snd_una + cwnd` fails at the end of the
numbers (`MoveEffect`), so the connection stops there. That is also the reason why
`u32` without wrap-around arithmetic is safe here, and `NeverWraps` is its consequence:
`snd_una`, the least number in flight, never goes back because nothing older returns to `snd_buf`.

`FramingInvariant` says of every position of `stream` which message and which fragment it is
(`StreamShape`), and that what `recv()` has returned is the beginning of what the peer has accepted
and ends where one of its messages does (`DeliveredInOrder`). `Send` adds a message at the end;
`Recv` takes the fragments up to the first `frg = 0`, which is the end of the message
that starts where the last one ended. From it `ConnectionImplementsChannel` follows step by step:
`Send` is `Accept`, `Recv` is `Deliver`, every other action leaves both histories alone.

`WindowInvariant` bounds what the receiver holds by the largest window it has been given;
segments in `rcv_buf` have different numbers of an interval, which bounds their number.
`NoHeadOfLineStall` needs `FullQueueIsReadable`: every operation refills the queue as
far as it goes (`ReceiverStep`), so what waits in `rcv_buf` waits for a full queue, and a full
queue is longer than the largest message and starts where one does, so it holds one.

### Retransmission

`Bookkeeping` joins the deque to the histories: sequence numbers ascend
and every one in the deque is below `snd_nxt`; each has been sent `xmit` times; its `fastack` and
the fast resends it has had, times the least threshold plus one, are no more than the
datagrams that passed it (`Accounted`); they are fewer than its transmissions, the first of which is never fast
(`FastCountsBelow`, `FirstIsNotFast`), which bounds them by the limit; its timer and its age add up to its timeout at least; and
what was never sent has no history. The lemmas on the deque (`Holds`) say what the
early exits of `erase()`, `erase_before()` and `increment_fastack_before()` leave when
it is sorted: exactly the segments a search of the whole deque would.

### Congestion window

`Invariant` is the type, `WindowMatchesIncr`, and `cwnd >= 1` after
the first flush. It is preserved by each procedure (one lemma each); the hard one is
`AvoidanceIsConsistent`: the rounded quotient lies within a segment of `incr`.
The setters change what limits `cwnd`, never `cwnd` or `incr`, so they preserve it at once.

For `GrowsGradually` the threshold must be positive too, so that an empty window is in slow start.
`AvoidanceIsGradual` splits at `incr` of one and a half segments: below, a segment of growth
ends within three segments; above, `MSS * MSS / incr` is two thirds of a segment at most.

### Round trips

The smoothed values lie between the measurements (`SmoothedIs`: nothing overflows on the way),
and a measurement is the round trip, or less by what the clock of `input()` is behind,
`MaxPause` at most (`OnTheWay`). So `srtt` is as near to the round trip (`Measured`), and `max(G, K * RTTVAR)`
adds G at least: where G was no shorter than `MaxPause`, the timeout is no shorter than the round trip, for
the calculator and for a segment sent under it (`Covered`). `set_interval()` between two measurements changes
neither the timeout nor `granularity`, which is why the history is needed: the present interval says
nothing of a timeout computed before. `Outlasts` says of a covered segment that its timer and the age of each
acknowledgement of it that is under way add up to the round trip at least, so the timer does not run out before
that acknowledgement is due; backing off keeps a segment covered (`CoveredRuns`) until half the clock.
`Timed` is the conjunction with the type.

### Datagrams and bytes

`Packed`: the type (no payload is longer than MSS, proved from the rounded
quotient in `PayloadSizes`), `DatagramsFit`, and that the buffer is empty between two flushes (`Idle`). `CountOfSize` relates
the number of fragments to the size, from which the limit of `send()` follows. Each step of
`DatagramExchange` is a step of `Datagrams` or leaves its variables alone
(`StepIsDatagramsStep`), so what is proved of sizes holds of the bytes.

`BytesAreConserved` is about sums over sequences. `Total` is a recursive function, and what the
provers cannot do by induction on its argument they do by the least index at which
two such functions differ (`Sums`, and `WFMin` of the library).

`Exchanged` is `BufferIsLaid`, the cells of the buffer are the segments that have been packed, each at
the place where the lengths of those before it say (`LaidAt`), and `WireIsRead`, the same for the
datagram the peer has been given, up to where it was cut: `input()` is always at the start of a
segment. `Counted` follows each kind of segment: sent is received plus what is in the
buffer or still to be read (`OnItsWay`).

### Schedule

Where `ts_flush` lies is not known exactly: `update()` adds an interval to it that may have been
changed since, or moves it to the present, and `check()` moves it after a long pause. `OnSchedule`
says how much room there is: with `Ahead` the signed distance to it, the time since the last flush
plus `Ahead` is no more than the longest interval as long as it is ahead, which is `FlushEveryInterval`;
and the time since the flush before that plus `Ahead` is more than the shortest, or that time
is by itself, which is `FlushesArePaced`. `SleepsInTime` adds that an application that follows
`check()` never sleeps beyond `ts_flush`, and short of it as long as it may call `check()`
again instead of `update()`. `CheckTellsOfTimers` needs no history: where no timer lies behind the wrap, the
least difference as plain numbers is the nearest timer (`SleepIs`), and where one does, either the answer is now,
because its number is below the clock, or nothing nearer is passed over. All of these are about distances on a circle: the lemmas on
`Delta` and `Later` say when they add up, which is where half the period of the clock comes in.
After the clock has been set back only the types and `ScheduleIsAhead` hold.

### Wire

Swapping twice gives the same bytes (`SwappedTwice`), so a field is read back when
writer and reader put their bytes on the wire in the same order (`WrittenOrder`). The invariant
adds that `wire` is what the writer serialised, field by field, and that `offset` is where
the next field starts.

### Only model-checked

Liveness: `EveryMessageArrives`, `EverySegmentIsAcknowledged`, `LostSegmentIsRetried` and
`ClosedWindowIsProbed`. The provers do neither fairness nor ENABLED.

## 5. Plan

Done: the modules above, in the order delivery, congestion window, retransmission, sizes,
schedule, setters, liveness, round trips, bytes; and proofs of every safety property they state.
Next, in order of what matters:

1. `Transmission` as a refinement of the sending half of `Endpoint`: what `Flush` of
   `Endpoint` leaves open is what the timers decide.
2. `LossyConnection` as a refinement of `Connection`: losing is never delivering, so that
   the theorems about `Connection` hold of the specification whose liveness is checked.

### Not modelled

Not modelled and not planned: logging and names of errors (no state), the sums of
the retransmission counts in `FlushResult`; `third_party/expected.hpp`; tests, benchmarks and
generated documentation. The memory of `std::vector` and `std::deque`, and the callback throwing
or calling back into the object, are outside the model. Timestamps that a peer invents are
too: a peer returns those it was sent.

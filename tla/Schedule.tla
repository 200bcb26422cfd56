--------------------------------- MODULE Schedule ---------------------------------
(***************************************************************************)
(* When update() flushes, what check() announces, and when WindowProber    *)
(* asks for the window of the peer, on a clock of finite width.            *)
(* The calls take no time; time passes between them.                       *)
(***************************************************************************)
EXTENDS Integers, FiniteSetsExt

CONSTANTS
  ClockMod,         \* 2^32
  Jump,             \* 10000: a difference that resets ts_flush
  Intervals,        \* arguments of set_interval(), clamped
  PROBE_INIT,       \* 7000
  PROBE_LIMIT,      \* 120000
  Rto,              \* how far ahead a flush may set the timer of a segment
  Elapse,           \* steps of the clock
  SetBacks,         \* steps back of the clock
  FollowsCheck,     \* whether the application sleeps until the time check() says
  MaxIdle,          \* the application calls update() at least so often
  PeerCloses,       \* the peer may close its window
  MaxInFlight,      \* bound: timers of segments in flight, for an application
                    \* that follows check() and for one that does not
  MaxSetBacks,      \* bound: times the clock is set back, likewise
  Horizon           \* bound: histories of time are counted up to here

ASSUME ScheduleAssumption ==
  /\ {ClockMod, Jump, PROBE_INIT, PROBE_LIMIT, MaxIdle} \subseteq Nat \ {0}
  /\ {MaxInFlight, MaxSetBacks} \subseteq [BOOLEAN -> Nat] /\ Horizon \in Nat
  /\ Intervals \subseteq Nat \ {0} /\ Intervals # {}
  /\ Elapse \subseteq Nat \ {0} /\ SetBacks \subseteq Nat \ {0}
  /\ Rto \subseteq Nat \ {0}
  /\ FollowsCheck \subseteq BOOLEAN /\ PeerCloses \in BOOLEAN
  /\ PROBE_INIT <= PROBE_LIMIT
  /\ 2 * PROBE_LIMIT < ClockMod /\ 2 * Jump < ClockMod
  /\ \A i \in Intervals : i < Jump /\ 2 * (MaxIdle + i) < ClockMod
  /\ PROBE_INIT <= Horizon /\ \A i \in Intervals : i < Horizon

VARIABLES
  follows,      \* this application does what check() says, from first to last
  clock,        \* the time the application passes to update() and check()
  updated,      \* ImKcpp::updated
  current,      \* ImKcpp::current, the time of the last update()
  ts_flush,     \* ImKcpp::ts_flush
  interval,     \* SharedCtx::interval
  resendts,     \* resendts of the segments in snd_buf
  open,         \* CongestionController::rmt_wnd is not 0
  probe_wait,   \* WindowProber::probe_wait
  ts_probe,     \* WindowProber::ts_probe
  wake,         \* history: the time check() said last, when it is followed
  since,        \* history: time since the last flush
  span,         \* history: time since the flush before that
  silence,      \* history: time since a flush found the window closed or asked
  asked,        \* history: the last update() asked
  setbacks      \* history: times the clock was set back

proberVars == <<probe_wait, ts_probe, silence>>
flushVars == <<resendts, proberVars, since, span>>
vars == <<follows, clock, updated, current, ts_flush, interval, open, wake,
          setbacks, flushVars, asked>>

Time == 0..(ClockMod - 1)

Later(t, d) == (t + d) % ClockMod

\* time_delta(): the difference as i32.
Delta(later, earlier) ==
  LET d == (later - earlier) % ClockMod
  IN  IF 2 * d < ClockMod THEN d ELSE d - ClockMod

\* The application notes when it is to call update(), if it cares.
NoteWake(t) == wake' = IF follows THEN t ELSE wake

Bounded(t) == Min({t, Horizon})

-----------------------------------------------------------------------------
(* WindowProber::update(), called by every flush().                        *)

IsDue(ts) == Delta(clock, ts) >= 0

Wait(wait, ts) == probe_wait' = wait /\ ts_probe' = ts

ProbeOpen == open /\ Wait(0, 0) /\ asked' = FALSE /\ silence' = 0

ProbeFirst ==
  /\ ~open /\ probe_wait = 0
  /\ Wait(PROBE_INIT, Later(clock, PROBE_INIT))
  /\ asked' = FALSE /\ silence' = 0

\* Faulty variant: every flush starts the timer again.
ProbeWaits_Restarts ==
  /\ ~open /\ probe_wait # 0 /\ ~IsDue(ts_probe)
  /\ Wait(probe_wait, Later(clock, probe_wait))
  /\ asked' = FALSE /\ UNCHANGED silence

ProbeWaits ==
  /\ ~open /\ probe_wait # 0 /\ ~IsDue(ts_probe)
  /\ UNCHANGED <<probe_wait, ts_probe, silence>> /\ asked' = FALSE

\* Faulty variant: the wait grows without limit.
LongerWait_Unlimited ==
  LET wait == Max({probe_wait, PROBE_INIT}) IN wait + wait \div 2

LongerWait ==
  LET wait == Max({probe_wait, PROBE_INIT})
  IN  Min({wait + wait \div 2, PROBE_LIMIT})

\* Faulty variant: the timer is not started again.
ProbeAsks_OldTimer ==
  /\ ~open /\ probe_wait # 0 /\ IsDue(ts_probe)
  /\ Wait(LongerWait, ts_probe)
  /\ asked' = TRUE /\ silence' = 0

ProbeAsks ==
  /\ ~open /\ probe_wait # 0 /\ IsDue(ts_probe)
  /\ Wait(LongerWait, Later(clock, LongerWait))
  /\ asked' = TRUE /\ silence' = 0

\* flush(), as far as time matters: segments that are due, sent fast, or new
\* get a new timer, the other ones keep theirs.
Flush ==
  /\ ProbeOpen \/ ProbeFirst \/ ProbeWaits \/ ProbeAsks
  /\ \E kept \in SUBSET {t \in resendts : ~IsDue(t)},
        fresh \in SUBSET {Later(clock, r) : r \in Rto} :
       resendts' = kept \union fresh
  /\ Cardinality(resendts') <= MaxInFlight[follows]
  /\ since' = 0 /\ span' = since

-----------------------------------------------------------------------------
(* update() and check().                                                   *)

Slap == IF updated THEN Delta(clock, ts_flush) ELSE 0

\* Faulty variant: a clock that was set back is not noticed.
HasJumped_ForwardOnly == Slap >= Jump

HasJumped == Slap >= Jump \/ Slap < -Jump

\* Faulty variant: the flushes that were missed are made up for.
NextFlush_CatchUp ==
  Later(IF updated /\ ~HasJumped THEN ts_flush ELSE clock, interval)

NextFlush ==
  LET next == Later(IF updated /\ ~HasJumped THEN ts_flush ELSE clock, interval)
  IN  IF IsDue(next) THEN Later(clock, interval) ELSE next

\* Faulty variant: the very moment of ts_flush does not count.
IsTurn_Strict == HasJumped \/ Slap > 0

IsTurn == HasJumped \/ Slap >= 0

Update ==
  /\ updated' = TRUE /\ current' = clock
  /\ NoteWake(clock)
  /\ \/ /\ IsTurn
        /\ ts_flush' = NextFlush
        /\ Flush
     \/ /\ ~IsTurn
        /\ UNCHANGED <<ts_flush, flushVars>> /\ asked' = FALSE
  /\ UNCHANGED <<follows, clock, interval, open, setbacks>>

\* Faulty variant: what lies behind the wrap of the clock is left out.
EarliestTransmit_SkipsWrapped == {t - clock : t \in {u \in resendts : u > clock}}

\* get_earliest_transmit_delta(): numbers of the clock compared as they are.
EarliestTransmit ==
  IF \E t \in resendts : t <= clock THEN {0} ELSE {t - clock : t \in resendts}

\* std::abs() of the least i32 is undefined: either answer.
IsFarAway ==
  LET d == Delta(clock, ts_flush)
  IN  IF 2 * d = -ClockMod THEN BOOLEAN ELSE {d >= Jump \/ d <= -Jump}

\* Faulty variant: the turn of the next flush is forgotten.
Sleep_IgnoresFlush == Min({interval} \union EarliestTransmit)

Sleep ==
  Min({interval, Max({0, Delta(ts_flush, clock)})} \union EarliestTransmit)

\* An application that follows check() calls update() when its time has come,
\* and does not ask once more instead.
MayCheck == follows /\ updated => wake = current \/ ~IsDue(wake)

Check ==
  /\ MayCheck
  /\ \/ /\ ~updated
        /\ NoteWake(clock) /\ UNCHANGED ts_flush
     \/ /\ updated /\ TRUE \in IsFarAway
        /\ NoteWake(clock) /\ ts_flush' = clock
     \/ /\ updated /\ FALSE \in IsFarAway /\ IsDue(ts_flush)
        /\ NoteWake(clock) /\ UNCHANGED ts_flush
     \/ /\ updated /\ FALSE \in IsFarAway /\ ~IsDue(ts_flush)
        /\ NoteWake(Later(clock, Sleep)) /\ UNCHANGED ts_flush
  /\ UNCHANGED <<follows, clock, updated, current, interval, open, setbacks,
                 flushVars, asked>>

-----------------------------------------------------------------------------
(* The application, the peer and the clock.                                *)

SetInterval ==
  /\ interval' \in Intervals \ {interval}
  /\ UNCHANGED <<follows, clock, updated, current, ts_flush, open, wake, setbacks,
                 flushVars, asked>>

\* input() reads another window, or an acknowledgement.
Announce ==
  /\ PeerCloses
  /\ open' = ~open
  /\ UNCHANGED <<follows, clock, updated, current, ts_flush, interval, wake, setbacks,
                 flushVars, asked>>

Acknowledge ==
  /\ \E t \in resendts : resendts' = resendts \ {t}
  /\ UNCHANGED <<follows, clock, updated, current, ts_flush, interval, open, wake,
                 setbacks, proberVars, since, span, asked>>

\* An application that follows check() is late by one at most.
Tick ==
  \E d \in Elapse :
    /\ updated => Delta(clock, current) + d <= MaxIdle
    /\ follows => Delta(clock, wake) + d <= 1
    /\ clock' = Later(clock, d)
    /\ since' = Bounded(since + d) /\ span' = Bounded(span + d)
    /\ silence' = Bounded(silence + d)
    /\ UNCHANGED <<follows, updated, current, ts_flush, interval, open, wake, setbacks,
                   resendts, probe_wait, ts_probe, asked>>

SetBack ==
  /\ setbacks < MaxSetBacks[follows] /\ setbacks' = setbacks + 1
  /\ \E d \in SetBacks : clock' = (clock - d) % ClockMod
  /\ UNCHANGED <<follows, updated, current, ts_flush, interval, open, wake, flushVars,
                 asked>>

Init ==
  /\ follows \in FollowsCheck
  /\ clock = ClockMod - 2
  /\ updated = FALSE /\ current = 0 /\ ts_flush = 0 /\ resendts = {}
  /\ interval \in Intervals /\ open = TRUE
  /\ probe_wait = 0 /\ ts_probe = 0
  /\ wake = clock
  /\ since = Horizon /\ span = Horizon /\ silence = 0 /\ asked = FALSE
  /\ setbacks = 0

Next == Update \/ Check \/ SetInterval \/ Announce \/ Acknowledge \/ Tick \/ SetBack

Spec == Init /\ [][Next]_vars

\* Time passes and the application goes on calling update().
FairSpec == Spec /\ WF_vars(Tick) /\ WF_vars(Update)

-----------------------------------------------------------------------------

TypeOK ==
  /\ {clock, current, ts_flush, ts_probe, wake} \subseteq Time /\ resendts \subseteq Time
  /\ {follows, updated, open, asked} \subseteq BOOLEAN
  /\ interval \in Intervals
  /\ probe_wait \in {0} \union PROBE_INIT..PROBE_LIMIT
  /\ {since, span, silence} \subseteq 0..Horizon
  /\ setbacks \in 0..MaxSetBacks[follows]

\* However the clock has jumped, update() leaves the next flush ahead of it,
\* and no further away than the interval or the jump that is tolerated.
ScheduleIsAhead ==
  [][Update => Delta(ts_flush', clock) \in 1..Max(Intervals \union {Jump})]_vars

\* update() called an interval after the last flush flushes, across the wrap
\* of the clock, changes of the interval and what check() does to ts_flush.
FlushEveryInterval ==
  [][Update /\ setbacks = 0 /\ since >= Max(Intervals) => since' = 0]_vars

\* Flushes that were missed are not made up for: of three in a row, the last
\* comes more than an interval after the first, whatever pause came before.
FlushesArePaced ==
  [][Update /\ setbacks = 0 /\ since' = 0 /\ since # 0 => span > Min(Intervals)]_vars

\* An application that sleeps until the time check() says never lets more
\* than an interval pass without a flush (and the one it is late).
FollowingCheckIsEnough ==
  follows /\ updated /\ setbacks = 0 => since <= Max(Intervals) + 1

\* An application that follows check() is told of every timer of a segment
\* that is still ahead: it never sleeps past one, nor at all when one runs out
\* now, though check() compares times as plain numbers and has_timed_out() by
\* their signed difference.
CheckWakesForTimers ==
  [][Check /\ follows =>
       \A t \in resendts :
         Delta(t, clock) >= 0 => Delta(wake', clock) <= Delta(t, clock)]_vars

\* While the window stays closed, WASK is sent PROBE_INIT apart at least.
ProbesAreSpaced ==
  [][Update /\ setbacks = 0 /\ asked' => silence >= PROBE_INIT]_vars

\* A window that stays closed is asked for again and again: WASK and WINS
\* may be lost any number of times.
ClosedWindowIsProbed == []<>(open \/ asked)

===================================================================================

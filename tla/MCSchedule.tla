------------------------------- MODULE MCSchedule -------------------------------
(***************************************************************************)
(* Bounds of the run schedule.  Timers of segments tell update() nothing,  *)
(* only what check() says, which an application that does not follow it    *)
(* does not note; one that follows it is promised something only while its *)
(* clock is not set back.                                                  *)
(***************************************************************************)
EXTENDS Schedule

InFlightBound == [follower \in BOOLEAN |-> IF follower THEN 2 ELSE 0]

SetBackBound == [follower \in BOOLEAN |-> IF follower THEN 0 ELSE 1]

=============================================================================

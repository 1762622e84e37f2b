---------------------------- MODULE CronInterval ----------------------------
(* validateCronWithMin: is a schedule slow enough?  A schedule is the set   *)
(* of minutes of a period at which it fires, over and over; {} is one that  *)
(* never fires.  The check is made once, at whatever time it is.            *)
EXTENDS Integers

CONSTANTS
  Period,       \* length of the pattern, in minutes
  MinInterval   \* MIN_SCHEDULE_INTERVAL_SECONDS, in minutes

ASSUME PeriodAssumption == Period \in Nat \ {0} /\ MinInterval \in Nat

Minute == 0..Period - 1

FiresAt(fires, t) == t % Period \in fires

(* schedule.Next(t): the first firing after t.                              *)
NextFire(fires, t) ==
  CHOOSE u \in (t + 1)..(t + Period) :
    FiresAt(fires, u) /\ \A v \in (t + 1)..(u - 1) : ~FiresAt(fires, v)

(* Mutant of Gap: both samples are taken from the reference time.           *)
GapFromNow(fires, t) == NextFire(fires, t) - t

(* Two samples: from the reference time, and from the first firing.         *)
Gap(fires, t) == NextFire(fires, NextFire(fires, t)) - NextFire(fires, t)

(* Mutant of Accepts: the interval must be longer than the minimum.         *)
AcceptsStrict(fires, t) == fires # {} /\ Gap(fires, t) > MinInterval

Accepts(fires, t) == fires # {} /\ Gap(fires, t) >= MinInterval

----------------------------------------------------------------------------
(* Reference: the distances between neighbouring firings, all of them.      *)
Gaps(fires) ==
  {g \in 1..Period : \E t \in fires : FiresAt(fires, t + g)
                                      /\ \A h \in 1..(g - 1) : ~FiresAt(fires, t + h)}

(* Over a period the check gives both answers to a schedule with gaps on    *)
(* both sides of the minimum, and one answer to every other.                *)
KindsExact ==
  \A fires \in SUBSET Minute :
    {Accepts(fires, t) : t \in Minute} =
      IF fires = {} THEN {FALSE} ELSE {g >= MinInterval : g \in Gaps(fires)}
=============================================================================

---------------------------- MODULE MCScheduler ----------------------------
(* Two workflows, one of them a system workflow without an owner, every     *)
(* kind of schedule, and two ticks that may overlap.                        *)
EXTENDS Scheduler

MCTargets == {<<"m1">>}
MCFires == [s \in Schedule |->
              CASE s = "even" -> {0, 3} [] s = "fast" -> {0, 2, 4}
                [] s = "uneven" -> {0, 1} [] s = "@hourly" -> {0}]
=============================================================================

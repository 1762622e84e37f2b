------------------------------ MODULE DailyCap ------------------------------
(* What the run-count quota promises a user, without counters or upserts:   *)
(* a day has Slots slots; a run that is admitted or whose count was lost    *)
(* takes one, and a run is turned away only when none is left that day.     *)
EXTENDS Integers, FiniteSets

CONSTANTS Run, Day, Slots

VARIABLES
  admitted,   \* per day: the runs that were let in
  lost,       \* per day: the runs that hold a slot without having been let in
  turnedAway  \* runs refused for want of a slot

vars == <<admitted, lost, turnedAway>>

Init ==
  /\ admitted = [d \in Day |-> {}]
  /\ lost = [d \in Day |-> {}]
  /\ turnedAway = {}

Taken(d) == Cardinality(admitted[d]) + Cardinality(lost[d])

Unseen(r) == r \notin turnedAway /\ \A d \in Day : r \notin admitted[d] \cup lost[d]

Admit(r, d) ==
  /\ Unseen(r) /\ Taken(d) < Slots
  /\ admitted' = [admitted EXCEPT ![d] = @ \cup {r}]
  /\ UNCHANGED <<lost, turnedAway>>

Lose(r, d) ==
  /\ Unseen(r) /\ Taken(d) < Slots
  /\ lost' = [lost EXCEPT ![d] = @ \cup {r}]
  /\ UNCHANGED <<admitted, turnedAway>>

TurnAway(r, d) ==
  /\ Unseen(r) /\ Taken(d) = Slots
  /\ turnedAway' = turnedAway \cup {r}
  /\ UNCHANGED <<admitted, lost>>

Next == \E r \in Run, d \in Day : Admit(r, d) \/ Lose(r, d) \/ TurnAway(r, d)

Spec == Init /\ [][Next]_vars
=============================================================================

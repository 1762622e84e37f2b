------------------------------- MODULE Quota -------------------------------
(* The daily caps of one user over many runs: CheckQuota, which runctl and  *)
(* the scheduler call before a run, and the two upserts of user_usage_daily *)
(* that Executor.Run makes during it.  Module Engine has one run statement  *)
(* by statement; here a run is what it does to the usage rows, runs overlap *)
(* freely, and the database's CURRENT_DATE changes between any two          *)
(* statements.  Costs are whole numbers of a small unit.                    *)
EXTENDS Integers, FiniteSets, Functions

CONSTANTS
  Run,               \* runs of the user
  Prev,              \* the run runctl makes before this one; the run itself if none
  MaxRunsPerDay, MaxCostUSDPerDay,
  StepCosts,         \* what one step with tokens can cost
  MaxStepCost,
  MaxDay,            \* bound: days that pass
  MaxFaults          \* bound: database calls that fail

Day == 1..MaxDay

ASSUME RunAssumption  == IsFiniteSet(Run) /\ Prev \in [Run -> Run]
ASSUME CapAssumption  == MaxRunsPerDay \in Nat /\ MaxCostUSDPerDay \in Nat
ASSUME StepAssumption ==
  MaxStepCost \in Nat /\ StepCosts \subseteq Nat /\ \A c \in StepCosts : c <= MaxStepCost
ASSUME BoundAssumption == MaxDay \in Nat \ {0} /\ MaxFaults \in Nat

VARIABLES
  day,       \* CURRENT_DATE
  runCount,  \* per day: user_usage_daily.run_count, 0 without a row
  cost,      \* per day: user_usage_daily.total_cost_usd, 0 without a row
  pc,        \* per run: where it stands
  inflight,  \* per run: cost of the step that is not charged yet
  faults,    \* counter of the bound MaxFaults
  countedOn, ticket,  \* history, per run: day and value of its run_count upsert, 0 if none
  stoppedOn,          \* history, per run: day whose cost cap stopped it, 0 if none
  charged,            \* history, per run: what its upserts added to cost
  slipped             \* history, per day: cost that was added by upserts that reported an error

history == <<countedOn, ticket, stoppedOn, charged, slipped>>
vars == <<day, runCount, cost, pc, inflight, faults, history>>

PC == {"new", "checked", "skipped", "exited", "failed", "running", "charge", "quota_exceeded", "done"}

TypeOK ==
  /\ day \in Day
  /\ runCount \in [Day -> Nat] /\ cost \in [Day -> Nat]
  /\ pc \in [Run -> PC]
  /\ inflight \in [Run -> StepCosts \cup {0}]
  /\ faults \in 0..MaxFaults
  /\ countedOn \in [Run -> Day \cup {0}] /\ ticket \in [Run -> Nat]
  /\ stoppedOn \in [Run -> Day \cup {0}]
  /\ charged \in [Run -> Nat] /\ slipped \in [Day -> Nat]

Init ==
  /\ day = 1
  /\ runCount = [d \in Day |-> 0] /\ cost = [d \in Day |-> 0]
  /\ pc = [r \in Run |-> "new"] /\ inflight = [r \in Run |-> 0]
  /\ faults = 0
  /\ countedOn = [r \in Run |-> 0] /\ ticket = [r \in Run |-> 0]
  /\ stoppedOn = [r \in Run |-> 0]
  /\ charged = [r \in Run |-> 0] /\ slipped = [d \in Day |-> 0]

Fault == faults < MaxFaults /\ faults' = faults + 1

----------------------------------------------------------------------------
(* runctl repeats one after the other and exits at the first error; runs of *)
(* the scheduler, and of several runctl, have no order.                     *)
MayStart(r) == Prev[r] = r \/ pc[Prev[r]] \in {"skipped", "quota_exceeded", "done"}

RunsLeft == runCount[day] < MaxRunsPerDay
CostLeft == cost[day] < MaxCostUSDPerDay

(* CheckQuota: a read of today's row, some time before the run counts.      *)
CheckQuota(r) ==
  /\ pc[r] = "new" /\ MayStart(r)
  /\ \/ RunsLeft /\ CostLeft /\ pc' = [pc EXCEPT ![r] = "checked"] /\ UNCHANGED faults
     \/ ~(RunsLeft /\ CostLeft) /\ pc' = [pc EXCEPT ![r] = "skipped"] /\ UNCHANGED faults
     \/ Fault /\ pc' = [pc EXCEPT ![r] = "exited"]
  /\ UNCHANGED <<day, runCount, cost, inflight, history>>

(* The upsert of run_count, as it is applied.                               *)
CountOn(r, d) ==
  /\ runCount' = [runCount EXCEPT ![d] = @ + 1]
  /\ countedOn' = [countedOn EXCEPT ![r] = d]
  /\ ticket' = [ticket EXCEPT ![r] = runCount[d] + 1]

(* Mutant of IsOverRunCount: the last slot of a day is never given.         *)
IsOverRunCountStrict(n) == n >= MaxRunsPerDay

IsOverRunCount(n) == n > MaxRunsPerDay

(* Mutant of CountRun: the gate trusts a value read before the upsert.      *)
CountRunUngated(r) ==
  /\ pc[r] = "checked" /\ CountOn(r, day)
  /\ pc' = [pc EXCEPT ![r] = "running"]
  /\ UNCHANGED <<day, cost, inflight, faults, stoppedOn, charged, slipped>>

(* IncrementRunCount and the gate on the count it returns.  An error leaves *)
(* it open whether the row was counted; the run fails either way.           *)
CountRun(r) ==
  /\ pc[r] = "checked"
  /\ \/ /\ CountOn(r, day)
        /\ pc' = [pc EXCEPT ![r] = IF IsOverRunCount(runCount[day] + 1)
                                   THEN "quota_exceeded" ELSE "running"]
        /\ UNCHANGED faults
     \/ Fault /\ CountOn(r, day) /\ pc' = [pc EXCEPT ![r] = "failed"]
     \/ Fault /\ pc' = [pc EXCEPT ![r] = "failed"] /\ UNCHANGED <<runCount, countedOn, ticket>>
  /\ UNCHANGED <<day, cost, inflight, stoppedOn, charged, slipped>>

(* A step that used tokens: they are paid before they are charged.          *)
Invoke(r) ==
  /\ pc[r] = "running"
  /\ \E c \in StepCosts : inflight' = [inflight EXCEPT ![r] = c]
  /\ pc' = [pc EXCEPT ![r] = "charge"]
  /\ UNCHANGED <<day, runCount, cost, faults, history>>

IsOverCostUSD(total) == total > MaxCostUSDPerDay

(* Mutant of ChargeOn: the row takes the new value in place of the sum.     *)
ChargeOnReplaced(r, d) ==
  /\ cost' = [cost EXCEPT ![d] = inflight[r]]
  /\ charged' = [charged EXCEPT ![r] = @ + inflight[r]]

(* The upsert of total_cost_usd, as it is applied.                          *)
ChargeOn(r, d) ==
  /\ cost' = [cost EXCEPT ![d] = @ + inflight[r]]
  /\ charged' = [charged EXCEPT ![r] = @ + inflight[r]]

(* Mutant of ChargeStep: the cap is read before the upsert, not from it.    *)
ChargeStepStale(r) ==
  /\ pc[r] = "charge" /\ ChargeOn(r, day)
  /\ IF IsOverCostUSD(cost[day])
     THEN /\ pc' = [pc EXCEPT ![r] = "quota_exceeded"]
          /\ stoppedOn' = [stoppedOn EXCEPT ![r] = day]
     ELSE pc' = [pc EXCEPT ![r] = "running"] /\ UNCHANGED stoppedOn
  /\ inflight' = [inflight EXCEPT ![r] = 0]
  /\ UNCHANGED <<day, runCount, faults, countedOn, ticket, slipped>>

(* RecordStepCost on today's row, which need not be the row the run was     *)
(* counted on.  Over the cap, the run stops; an error is logged only.       *)
ChargeStep(r) ==
  /\ pc[r] = "charge"
  /\ \/ /\ ChargeOn(r, day)
        /\ IF IsOverCostUSD(cost[day] + inflight[r])
           THEN /\ pc' = [pc EXCEPT ![r] = "quota_exceeded"]
                /\ stoppedOn' = [stoppedOn EXCEPT ![r] = day]
           ELSE pc' = [pc EXCEPT ![r] = "running"] /\ UNCHANGED stoppedOn
        /\ UNCHANGED <<faults, slipped>>
     \/ /\ Fault /\ ChargeOn(r, day)
        /\ slipped' = [slipped EXCEPT ![day] = @ + inflight[r]]
        /\ pc' = [pc EXCEPT ![r] = "running"] /\ UNCHANGED stoppedOn
     \/ /\ Fault /\ pc' = [pc EXCEPT ![r] = "running"]
        /\ UNCHANGED <<cost, charged, stoppedOn, slipped>>
  /\ inflight' = [inflight EXCEPT ![r] = 0]
  /\ UNCHANGED <<day, runCount, countedOn, ticket>>

(* The run ends for any other reason.                                       *)
EndRun(r) ==
  /\ pc[r] = "running"
  /\ pc' = [pc EXCEPT ![r] = "done"]
  /\ UNCHANGED <<day, runCount, cost, inflight, faults, history>>

(* CURRENT_DATE of the database moves on.                                   *)
Midnight ==
  /\ day < MaxDay
  /\ day' = day + 1
  /\ UNCHANGED <<runCount, cost, pc, inflight, faults, history>>

Step(r) == CheckQuota(r) \/ CountRun(r) \/ Invoke(r) \/ ChargeStep(r) \/ EndRun(r)

Next == Midnight \/ \E r \in Run : Step(r)

Spec == Init /\ [][Next]_vars

----------------------------------------------------------------------------
Counted(d) == {r \in Run : countedOn[r] = d}
Stopped(d) == {r \in Run : stoppedOn[r] = d}
LetIn      == {r \in Run : pc[r] \in {"running", "charge", "done"} \/ stoppedOn[r] # 0}
Admitted(d) == Counted(d) \cap LetIn
Lost(d)     == {r \in Counted(d) : pc[r] = "failed" /\ ticket[r] <= MaxRunsPerDay}

(* However the pre-flight checks interleave with the counts, no more than   *)
(* MaxRunsPerDay of the runs counted on a day ever fire a step              *)
(* (IncrementRunCount is the gate, CheckQuota only a hint).                 *)
RunCap == \A d \in Day : Cardinality(Admitted(d)) <= MaxRunsPerDay

(* The tickets of a day are exactly 1..run_count, each held by one run: no  *)
(* upsert is lost and none is counted twice.                                *)
TicketsExact ==
  \A d \in Day :
    /\ {ticket[r] : r \in Counted(d)} = 1..runCount[d]
    /\ \A r, s \in Counted(d) : ticket[r] = ticket[s] => r = s

(* Past the cap, a day's cost grows by at most one step of each run the cap *)
(* stopped, and by what was applied under an error (RecordStepCost).        *)
CostCap ==
  \A d \in Day : cost[d] <= MaxCostUSDPerDay + MaxStepCost * Cardinality(Stopped(d)) + slipped[d]

(* Where a run stands says what its row of the history holds.               *)
Progress ==
  \A r \in Run :
    /\ pc[r] \in {"new", "checked", "skipped", "exited"} => countedOn[r] = 0
    /\ pc[r] \in {"running", "charge", "done"} \/ stoppedOn[r] # 0 =>
         countedOn[r] # 0 /\ ticket[r] <= MaxRunsPerDay
    /\ stoppedOn[r] # 0 => pc[r] = "quota_exceeded"
    /\ pc[r] = "quota_exceeded" /\ stoppedOn[r] = 0 =>
         countedOn[r] # 0 /\ ticket[r] > MaxRunsPerDay

(* Every cent charged by a run is in the row of exactly one day.            *)
CostsConserved == SumFunction(cost) = SumFunction(charged)

(* The inductive invariant: the tickets of a day are the numbers up to its  *)
(* run_count, a run that was let in holds one within the cap, and every     *)
(* charge past the cost cap stopped a run of its own.                       *)
IInv == TypeOK /\ TicketsExact /\ Progress /\ CostCap

(* A day that is over is settled: the upserts use the date of the moment,   *)
(* so a run that outlives midnight leaves yesterday's row alone.            *)
PastSettled == [][\A d \in Day : d < day => runCount'[d] = runCount[d] /\ cost'[d] = cost[d]]_vars

(* The quota implements slots handed out by day (module DailyCap): runs are *)
(* let in while the day has one, and turned away only when it has none.     *)
Cap == INSTANCE DailyCap WITH
  Slots <- MaxRunsPerDay,
  admitted <- [d \in Day |-> Admitted(d)],
  lost <- [d \in Day |-> Lost(d)],
  turnedAway <- {r \in Run : \E d \in Day : r \in Counted(d) \ (Admitted(d) \cup Lost(d))}
ImplementsDailyCap == Cap!Spec
=============================================================================

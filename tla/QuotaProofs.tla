---------------------------- MODULE QuotaProofs ----------------------------
(* Proofs about module Quota, for any number of runs, days and caps: its    *)
(* inductive invariant, both caps, the settled past, and that the quota     *)
(* implements the slots of module DailyCap.                                 *)
EXTENDS Quota, NatFacts

USE RunAssumption, CapAssumption, StepAssumption, BoundAssumption

LEMMA DayFacts == Day \subseteq Nat /\ 0 \notin Day /\ 1 \in Day
BY DEF Day

LEMMA CostFacts == \A c \in StepCosts \cup {0} : c \in Nat /\ c <= MaxStepCost
<1>1. \A c \in StepCosts : c \in Nat /\ c <= MaxStepCost
  BY StepAssumption
<1>2. 0 \in Nat /\ 0 <= MaxStepCost
  BY StepAssumption
<1> QED BY <1>1, <1>2

LEMMA StoppedFinite ==
  ASSUME NEW d
  PROVE  IsFiniteSet(Stopped(d)) /\ Cardinality(Stopped(d)) \in Nat
<1>1. Stopped(d) \in SUBSET Run
  BY DEF Stopped
<1> QED BY <1>1, FS_Subset, FS_CardinalityType

LEMMA StoppedFinitePrime ==
  ASSUME NEW d
  PROVE  IsFiniteSet(Stopped(d)') /\ Cardinality(Stopped(d)') \in Nat
<1>1. Stopped(d)' \in SUBSET Run
  BY DEF Stopped
<1> QED BY <1>1, FS_Subset, FS_CardinalityType

(* The bound of CostCap moves only with the set of stopped runs.            *)
LEMMA CostCapKept ==
  ASSUME CostCap, UNCHANGED <<cost, stoppedOn, slipped>>
  PROVE  CostCap'
BY DEF CostCap, Stopped

LEMMA HistoryKept ==
  ASSUME TicketsExact, UNCHANGED <<runCount, countedOn, ticket>>
  PROVE  TicketsExact'
BY DEF TicketsExact, Counted

(* The initial state has no tickets and no stopped runs.                    *)
LEMMA InitInv == Init => IInv
<1> SUFFICES ASSUME Init PROVE IInv
  OBVIOUS
<1>1. TypeOK
  BY DayFacts DEF Init, TypeOK, PC
<1>2. TicketsExact
  <2> SUFFICES ASSUME NEW d \in Day
               PROVE  {ticket[r] : r \in Counted(d)} = 1..runCount[d] /\ Counted(d) = {}
    BY DEF TicketsExact
  <2>1. Counted(d) = {}
    BY DayFacts DEF Init, Counted
  <2>2. 1..runCount[d] = {}
    BY DEF Init
  <2> QED BY <2>1, <2>2
<1>3. Progress
  BY DEF Init, Progress
<1>4. CostCap
  <2> SUFFICES ASSUME NEW d \in Day
               PROVE  cost[d] <= MaxCostUSDPerDay + MaxStepCost * Cardinality(Stopped(d)) + slipped[d]
    BY DEF CostCap
  <2>1. Stopped(d) = {}
    BY DayFacts DEF Init, Stopped
  <2>2. Cardinality(Stopped(d)) = 0
    BY <2>1, FS_EmptySet
  <2> QED BY <2>2 DEF Init
<1> QED BY <1>1, <1>2, <1>3, <1>4 DEF IInv

----------------------------------------------------------------------------
(* The two upserts.                                                         *)
LEMMA CountOnTickets ==
  ASSUME TypeOK, TicketsExact, NEW r \in Run, countedOn[r] = 0, CountOn(r, day)
  PROVE  TicketsExact'
<1>1. runCount[day] \in Nat /\ day \in Day /\ day # 0
  BY DayFacts DEF TypeOK
<1> SUFFICES ASSUME NEW d \in Day
             PROVE  /\ {ticket[s] : s \in Counted(d)}' = 1..runCount'[d]
                    /\ \A s, t \in Counted(d)' : ticket'[s] = ticket'[t] => s = t
  BY DEF TicketsExact
<1>2. /\ runCount' = [runCount EXCEPT ![day] = @ + 1]
      /\ countedOn' = [countedOn EXCEPT ![r] = day]
      /\ ticket' = [ticket EXCEPT ![r] = runCount[day] + 1]
  BY DEF CountOn
<1>3. CASE d # day
  <2>1. Counted(d)' = Counted(d) /\ r \notin Counted(d)
    BY <1>1, <1>2, <1>3, DayFacts DEF Counted, TypeOK
  <2>2. \A s \in Counted(d) : ticket'[s] = ticket[s]
    BY <1>2, <2>1 DEF TypeOK, Counted
  <2>3. runCount'[d] = runCount[d]
    BY <1>2, <1>3 DEF TypeOK
  <2> QED BY <2>1, <2>2, <2>3 DEF TicketsExact
<1>4. CASE d = day
  <2>1. Counted(d)' = Counted(d) \cup {r} /\ r \notin Counted(d)
    BY <1>1, <1>2, <1>4, DayFacts DEF Counted, TypeOK
  <2>2. \A s \in Counted(d) : ticket'[s] = ticket[s]
    BY <1>2, <2>1 DEF TypeOK, Counted
  <2>3. ticket'[r] = runCount[d] + 1 /\ runCount'[d] = runCount[d] + 1 /\ runCount[d] \in Nat
    BY <1>1, <1>2, <1>4 DEF TypeOK
  <2>4. {ticket[s] : s \in Counted(d)} = 1..runCount[d]
    BY DEF TicketsExact
  <2>5. {ticket'[s] : s \in Counted(d)'} = (1..runCount[d]) \cup {runCount[d] + 1}
    BY <2>1, <2>2, <2>3, <2>4
  <2>6. (1..runCount[d]) \cup {runCount[d] + 1} = 1..(runCount[d] + 1)
    BY <2>3
  <2>7. \A s \in Counted(d) : ticket'[s] # ticket'[r]
    BY <2>2, <2>3, <2>4
  <2>8. \A s, t \in Counted(d) : ticket'[s] = ticket'[t] => s = t
    BY <2>2 DEF TicketsExact
  <2>9. \A s, t \in Counted(d)' : ticket'[s] = ticket'[t] => s = t
    BY <2>1, <2>7, <2>8
  <2> QED BY <2>3, <2>5, <2>6, <2>9
<1> QED BY <1>3, <1>4

LEMMA TimesSuc == ASSUME NEW m \in Nat, NEW n \in Nat
                  PROVE  m * n \in Nat /\ m * (n + 1) = m * n + m
OBVIOUS

(* A charge past the cap stops the run, which pays for it in the bound.     *)
LEMMA ChargeKeepsCap ==
  ASSUME TypeOK, CostCap, Progress, NEW r \in Run, ChargeStep(r)
  PROVE  CostCap'
<1>1. /\ day \in Day /\ day # 0 /\ cost[day] \in Nat /\ slipped[day] \in Nat
      /\ inflight[r] \in Nat /\ inflight[r] <= MaxStepCost
  <2>1. inflight[r] \in StepCosts \cup {0} /\ day \in Day /\ cost[day] \in Nat /\ slipped[day] \in Nat
    BY DEF TypeOK
  <2>2. inflight[r] \in Nat /\ inflight[r] <= MaxStepCost
    BY <2>1, CostFacts
  <2> QED BY <2>1, <2>2, DayFacts
<1> SUFFICES ASSUME NEW d \in Day
             PROVE  cost'[d] <= MaxCostUSDPerDay + MaxStepCost * Cardinality(Stopped(d)') + slipped'[d]
  BY DEF CostCap
<1>2. cost[d] <= MaxCostUSDPerDay + MaxStepCost * Cardinality(Stopped(d)) + slipped[d]
  BY DEF CostCap
<1>3. /\ cost[d] \in Nat /\ slipped[d] \in Nat
      /\ Cardinality(Stopped(d)) \in Nat /\ IsFiniteSet(Stopped(d))
  BY StoppedFinite DEF TypeOK
<1>4. stoppedOn[r] = 0 /\ r \notin Stopped(d)
  BY DayFacts DEF Progress, ChargeStep, Stopped
<1>5. CASE UNCHANGED <<cost, stoppedOn, slipped>>
  BY <1>2, <1>5 DEF Stopped
<1>6. CASE /\ ChargeOn(r, day) /\ UNCHANGED stoppedOn
           /\ slipped' = [slipped EXCEPT ![day] = @ + inflight[r]]
  <2>1. Stopped(d)' = Stopped(d)
    BY <1>6 DEF Stopped
  <2>2. \/ cost'[d] = cost[d] /\ slipped'[d] = slipped[d]
        \/ cost'[d] = cost[d] + inflight[r] /\ slipped'[d] = slipped[d] + inflight[r]
    BY <1>1, <1>3, <1>6 DEF ChargeOn, TypeOK
  <2>3. MaxStepCost * Cardinality(Stopped(d)) \in Nat
    BY <1>3, TimesSuc
  <2> QED BY <1>1, <1>2, <1>3, <2>1, <2>2, <2>3
<1>7. CASE /\ ChargeOn(r, day) /\ ~IsOverCostUSD(cost[day] + inflight[r])
           /\ UNCHANGED <<stoppedOn, slipped>>
  <2>1. Stopped(d)' = Stopped(d)
    BY <1>7 DEF Stopped
  <2>2. cost'[d] = cost[d] \/ cost'[d] <= MaxCostUSDPerDay
    BY <1>1, <1>3, <1>7 DEF ChargeOn, TypeOK, IsOverCostUSD
  <2>3. MaxStepCost * Cardinality(Stopped(d)) \in Nat
    BY <1>3, TimesSuc
  <2>4. slipped'[d] = slipped[d] /\ cost'[d] \in Nat
    BY <1>1, <1>3, <1>7 DEF ChargeOn, TypeOK
  <2> QED BY <1>1, <1>2, <1>3, <2>1, <2>2, <2>3, <2>4
<1>8. CASE /\ ChargeOn(r, day) /\ stoppedOn' = [stoppedOn EXCEPT ![r] = day]
           /\ UNCHANGED slipped
  <2>1. CASE d # day
    <3>1. Stopped(d)' = Stopped(d)
      BY <1>4, <1>8, <2>1, DayFacts DEF Stopped, TypeOK
    <3>2. cost'[d] = cost[d] /\ slipped'[d] = slipped[d]
      BY <1>8, <2>1 DEF ChargeOn, TypeOK
    <3> QED BY <1>2, <3>1, <3>2
  <2>2. CASE d = day
    <3>1. Stopped(d)' = Stopped(d) \cup {r}
      BY <1>4, <1>8, <2>2 DEF Stopped, TypeOK
    <3>2. Cardinality(Stopped(d)') = Cardinality(Stopped(d)) + 1
      BY <1>3, <1>4, <3>1, FS_AddElement
    <3>3. MaxStepCost * Cardinality(Stopped(d)') = MaxStepCost * Cardinality(Stopped(d)) + MaxStepCost
      BY <1>3, <3>2, TimesSuc
    <3>4. MaxStepCost * Cardinality(Stopped(d)) \in Nat
      BY <1>3, TimesSuc
    <3>5. cost'[d] = cost[d] + inflight[r] /\ slipped'[d] = slipped[d]
      BY <1>1, <1>8, <2>2 DEF ChargeOn, TypeOK
    <3> QED BY <1>1, <1>2, <1>3, <3>3, <3>4, <3>5
  <2> QED BY <2>1, <2>2
<1> QED BY <1>5, <1>6, <1>7, <1>8 DEF ChargeStep

----------------------------------------------------------------------------
(* Every step of a run, and midnight, preserves the invariant.              *)
LEMMA CheckQuotaInv == ASSUME IInv, NEW r \in Run, CheckQuota(r) PROVE IInv'
<1>1. /\ UNCHANGED <<day, runCount, cost, inflight, countedOn, ticket, stoppedOn, charged, slipped>>
      /\ pc[r] = "new"
  BY DEF CheckQuota, history
<1>2. \E v \in {"checked", "skipped", "exited"} : pc' = [pc EXCEPT ![r] = v]
  BY DEF CheckQuota
<1>3. TypeOK'
  <2>1. pc' \in [Run -> PC]
    BY <1>2 DEF IInv, TypeOK, PC
  <2>2. faults' \in 0..MaxFaults
    BY DEF CheckQuota, Fault, IInv, TypeOK
  <2> QED BY <1>1, <2>1, <2>2 DEF IInv, TypeOK
<1>4. Progress'
  <2>1. \A s \in Run : s # r => pc'[s] = pc[s]
    BY <1>2 DEF IInv, TypeOK
  <2>2. pc'[r] \in {"checked", "skipped", "exited"}
    BY <1>2 DEF IInv, TypeOK
  <2>3. countedOn[r] = 0 /\ stoppedOn[r] = 0
    BY <1>1 DEF IInv, Progress
  <2> QED BY <1>1, <2>1, <2>2, <2>3 DEF IInv, Progress
<1> QED BY <1>1, <1>3, <1>4, HistoryKept, CostCapKept DEF IInv

LEMMA CountRunInv == ASSUME IInv, NEW r \in Run, CountRun(r) PROVE IInv'
<1>1. UNCHANGED <<day, cost, inflight, stoppedOn, charged, slipped>> /\ pc[r] = "checked"
  BY DEF CountRun
<1>2. countedOn[r] = 0 /\ stoppedOn[r] = 0 /\ TypeOK /\ TicketsExact
  BY <1>1 DEF IInv, Progress
<1>3. day \in Day /\ day # 0 /\ runCount[day] \in Nat
  BY <1>2, DayFacts DEF TypeOK
<1>4. \E v \in {"running", "quota_exceeded", "failed"} : pc' = [pc EXCEPT ![r] = v]
  BY DEF CountRun
<1>5. \/ CountOn(r, day) /\ pc'[r] = "failed"
      \/ CountOn(r, day) /\ pc'[r] = "running" /\ runCount[day] + 1 <= MaxRunsPerDay
      \/ CountOn(r, day) /\ pc'[r] = "quota_exceeded" /\ runCount[day] + 1 > MaxRunsPerDay
      \/ UNCHANGED <<runCount, countedOn, ticket>> /\ pc'[r] = "failed"
  BY <1>2, <1>3 DEF CountRun, TypeOK, IsOverRunCount
<1>6. TypeOK'
  <2>1. pc' \in [Run -> PC]
    BY <1>2, <1>4 DEF TypeOK, PC
  <2>2. faults' \in 0..MaxFaults
    BY <1>2 DEF CountRun, Fault, TypeOK
  <2>3. runCount' \in [Day -> Nat]
    BY <1>2, <1>3, <1>5 DEF CountOn, TypeOK
  <2>4. countedOn' \in [Run -> Day \cup {0}] /\ ticket' \in [Run -> Nat]
    BY <1>2, <1>3, <1>5 DEF CountOn, TypeOK
  <2> QED BY <1>1, <1>2, <2>1, <2>2, <2>3, <2>4 DEF TypeOK
<1>7. TicketsExact'
  BY <1>2, <1>5, CountOnTickets, HistoryKept
<1>8. Progress'
  <2>1. \A s \in Run : s # r => pc'[s] = pc[s]
    BY <1>2, <1>4 DEF TypeOK
  <2>2. \A s \in Run : s # r => countedOn'[s] = countedOn[s] /\ ticket'[s] = ticket[s]
    BY <1>2, <1>5 DEF CountOn, TypeOK
  <2>3. pc'[r] \in {"running", "quota_exceeded"} => countedOn'[r] = day /\ ticket'[r] = runCount[day] + 1
    BY <1>2, <1>5 DEF CountOn, TypeOK
  <2>4. /\ pc'[r] \in {"running", "quota_exceeded", "failed"}
        /\ pc'[r] = "running" => runCount[day] + 1 <= MaxRunsPerDay
        /\ pc'[r] = "quota_exceeded" => runCount[day] + 1 > MaxRunsPerDay
    BY <1>5
  <2>5. stoppedOn' = stoppedOn
    BY <1>1
  <2> QED BY <1>2, <1>3, <2>1, <2>2, <2>3, <2>4, <2>5 DEF IInv, Progress
<1> QED BY <1>1, <1>6, <1>7, <1>8, CostCapKept DEF IInv

LEMMA InvokeInv == ASSUME IInv, NEW r \in Run, Invoke(r) \/ EndRun(r) PROVE IInv'
<1>1. /\ UNCHANGED <<day, runCount, cost, faults, countedOn, ticket, stoppedOn, charged, slipped>>
      /\ pc[r] = "running"
  BY DEF Invoke, EndRun, history
<1>2. \E v \in {"charge", "done"} : pc' = [pc EXCEPT ![r] = v]
  BY DEF Invoke, EndRun
<1>3. TypeOK'
  <2>1. pc' \in [Run -> PC]
    BY <1>2 DEF IInv, TypeOK, PC
  <2>2. inflight' \in [Run -> StepCosts \cup {0}]
    BY DEF Invoke, EndRun, IInv, TypeOK
  <2> QED BY <1>1, <2>1, <2>2 DEF IInv, TypeOK
<1>4. Progress'
  <2>1. \A s \in Run : s # r => pc'[s] = pc[s]
    BY <1>2 DEF IInv, TypeOK
  <2>2. pc'[r] \in {"charge", "done"}
    BY <1>2 DEF IInv, TypeOK
  <2> QED BY <1>1, <2>1, <2>2 DEF IInv, Progress
<1> QED BY <1>1, <1>3, <1>4, HistoryKept, CostCapKept DEF IInv

LEMMA ChargeStepInv == ASSUME IInv, NEW r \in Run, ChargeStep(r) PROVE IInv'
<1>1. UNCHANGED <<day, runCount, countedOn, ticket>> /\ pc[r] = "charge"
  BY DEF ChargeStep
<1>2. TypeOK /\ day \in Day /\ day # 0 /\ cost[day] \in Nat /\ slipped[day] \in Nat /\ charged[r] \in Nat
  BY DayFacts DEF IInv, TypeOK
<1>3. inflight[r] \in Nat
  <2>1. inflight[r] \in StepCosts \cup {0}
    BY <1>2 DEF TypeOK
  <2> QED BY <2>1, CostFacts
<1>4. /\ stoppedOn[r] = 0 /\ countedOn[r] # 0 /\ ticket[r] <= MaxRunsPerDay
  BY <1>1 DEF IInv, Progress
<1>5. \/ pc' = [pc EXCEPT ![r] = "running"] /\ stoppedOn' = stoppedOn
      \/ pc' = [pc EXCEPT ![r] = "quota_exceeded"] /\ stoppedOn' = [stoppedOn EXCEPT ![r] = day]
  BY DEF ChargeStep
<1>6. TypeOK'
  <2>1. pc' \in [Run -> PC]
    BY <1>2, <1>5 DEF TypeOK, PC
  <2>2. stoppedOn' \in [Run -> Day \cup {0}]
    BY <1>2, <1>5 DEF TypeOK
  <2>3. cost' \in [Day -> Nat] /\ charged' \in [Run -> Nat] /\ slipped' \in [Day -> Nat]
    BY <1>2, <1>3 DEF ChargeStep, ChargeOn, TypeOK
  <2>4. inflight' \in [Run -> StepCosts \cup {0}] /\ faults' \in 0..MaxFaults
    BY <1>2 DEF ChargeStep, Fault, TypeOK
  <2> QED BY <1>1, <1>2, <2>1, <2>2, <2>3, <2>4 DEF TypeOK
<1>7. Progress'
  <2>1. \A s \in Run : s # r => pc'[s] = pc[s] /\ stoppedOn'[s] = stoppedOn[s]
    BY <1>2, <1>5 DEF TypeOK
  <2>2. \/ pc'[r] = "running" /\ stoppedOn'[r] = 0
        \/ pc'[r] = "quota_exceeded" /\ stoppedOn'[r] # 0
    BY <1>2, <1>4, <1>5 DEF TypeOK
  <2> QED BY <1>1, <1>4, <2>1, <2>2 DEF IInv, Progress
<1>8. CostCap'
  BY ChargeKeepsCap DEF IInv
<1> QED BY <1>1, <1>6, <1>7, <1>8, HistoryKept DEF IInv

LEMMA MidnightInv == ASSUME IInv, Midnight PROVE IInv'
<1>1. UNCHANGED <<runCount, cost, pc, inflight, faults, countedOn, ticket, stoppedOn, charged, slipped>>
  BY DEF Midnight, history
<1>2. day' \in Day
  BY DEF Midnight, IInv, TypeOK, Day
<1>3. TypeOK'
  BY <1>1, <1>2 DEF IInv, TypeOK
<1>4. Progress'
  BY <1>1 DEF IInv, Progress
<1> QED BY <1>1, <1>3, <1>4, HistoryKept, CostCapKept DEF IInv

LEMMA StepInv == IInv /\ [Next]_vars => IInv'
<1> SUFFICES ASSUME IInv, [Next]_vars PROVE IInv'
  OBVIOUS
<1>1. CASE Midnight
  BY <1>1, MidnightInv
<1>2. CASE \E r \in Run : Step(r)
  BY <1>2, CheckQuotaInv, CountRunInv, InvokeInv, ChargeStepInv DEF Step
<1>3. CASE UNCHANGED vars
  <2>1. UNCHANGED <<day, runCount, cost, pc, inflight, faults, countedOn, ticket, stoppedOn, charged, slipped>>
    BY <1>3 DEF vars, history
  <2>2. TypeOK' /\ Progress'
    BY <2>1 DEF IInv, TypeOK, Progress
  <2> QED BY <2>1, <2>2, HistoryKept, CostCapKept DEF IInv
<1> QED BY <1>1, <1>2, <1>3 DEF Next

(* The inductive invariant holds in every reachable state, for any set of   *)
(* runs, any caps and any interleaving of their upserts.                    *)
THEOREM Invariance == Spec => []IInv
BY InitInv, StepInv, PTL DEF Spec

----------------------------------------------------------------------------
(* The slots of a day: the runs whose ticket is within the cap.             *)
Holders(d) == {r \in Counted(d) : ticket[r] <= MaxRunsPerDay}

LEMMA CountedHoldersFinite ==
  ASSUME NEW d
  PROVE  /\ IsFiniteSet(Holders(d)) /\ IsFiniteSet(Admitted(d)) /\ IsFiniteSet(Lost(d))
<1>1. Holders(d) \in SUBSET Run /\ Admitted(d) \in SUBSET Run /\ Lost(d) \in SUBSET Run
  BY DEF Holders, Admitted, Lost, Counted
<1> QED BY <1>1, FS_Subset

LEMMA HoldersSplit ==
  ASSUME IInv, NEW d \in Day
  PROVE  /\ Holders(d) = Admitted(d) \cup Lost(d) /\ Admitted(d) \cap Lost(d) = {}
<1>1. 0 # d
  BY DayFacts
<1>2. ASSUME NEW r \in Run, countedOn[r] = d
      PROVE  /\ pc[r] \in {"failed", "running", "charge", "done", "quota_exceeded"}
             /\ r \in LetIn => ticket[r] <= MaxRunsPerDay /\ pc[r] # "failed"
             /\ pc[r] = "quota_exceeded" /\ ticket[r] <= MaxRunsPerDay => r \in LetIn
  <2>1. pc[r] \in PC /\ ticket[r] \in Nat
    BY DEF IInv, TypeOK
  <2>2. pc[r] \in {"failed", "running", "charge", "done", "quota_exceeded"}
    BY <1>1, <1>2, <2>1 DEF IInv, Progress, PC
  <2>3. r \in LetIn => ticket[r] <= MaxRunsPerDay /\ pc[r] # "failed"
    BY DEF IInv, Progress, LetIn
  <2>4. ASSUME pc[r] = "quota_exceeded", ticket[r] <= MaxRunsPerDay PROVE stoppedOn[r] # 0
    <3>1. stoppedOn[r] = 0 => ticket[r] > MaxRunsPerDay
      BY <2>4 DEF IInv, Progress
    <3> QED BY <2>1, <2>4, <3>1, CapAssumption
  <2> QED BY <2>2, <2>3, <2>4 DEF LetIn
<1>3. \A r \in Run : pc[r] \in {"running", "charge", "done"} => r \in LetIn
  BY DEF LetIn
<1> QED BY <1>2, <1>3 DEF Holders, Admitted, Lost, Counted

(* A day's slots are taken in the order of the tickets: all of its counts   *)
(* up to the cap, and not one more.                                         *)
LEMMA SlotsTaken ==
  ASSUME IInv, NEW d \in Day
  PROVE  /\ Cardinality(Holders(d)) \in Nat
         /\ runCount[d] <= MaxRunsPerDay => Cardinality(Holders(d)) = runCount[d]
         /\ runCount[d] >= MaxRunsPerDay => Cardinality(Holders(d)) = MaxRunsPerDay
<1> DEFINE top == IF runCount[d] <= MaxRunsPerDay THEN runCount[d] ELSE MaxRunsPerDay
           f == [r \in Holders(d) |-> ticket[r]]
<1>1. runCount[d] \in Nat /\ top \in Nat
  BY DEF IInv, TypeOK
<1>2. {ticket[r] : r \in Counted(d)} = 1..runCount[d]
  BY DEF IInv, TicketsExact
<1>3. \A r \in Holders(d) : ticket[r] \in 1..top
  <2>1. \A r \in Holders(d) : ticket[r] \in 1..runCount[d] /\ ticket[r] <= MaxRunsPerDay
    BY <1>2 DEF Holders
  <2> QED BY <1>1, <2>1
<1>4. \A n \in 1..top : \E r \in Holders(d) : ticket[r] = n
  <2> SUFFICES ASSUME NEW n \in 1..top PROVE \E r \in Holders(d) : ticket[r] = n
    OBVIOUS
  <2>1. n \in 1..runCount[d] /\ n <= MaxRunsPerDay
    BY <1>1
  <2>2. PICK r \in Counted(d) : ticket[r] = n
    BY <1>2, <2>1
  <2> QED BY <2>1, <2>2 DEF Holders
<1>5. \A r, s \in Holders(d) : ticket[r] = ticket[s] => r = s
  BY DEF IInv, TicketsExact, Holders
<1>6. f \in Bijection(Holders(d), 1..top)
  <2>1. f \in [Holders(d) -> 1..top]
    BY <1>3
  <2>2. f \in Injection(Holders(d), 1..top)
    BY <1>5, <2>1 DEF Injection, IsInjective
  <2>3. f \in Surjection(Holders(d), 1..top)
    BY <1>4, <2>1 DEF Surjection
  <2> QED BY <2>2, <2>3 DEF Bijection
<1> HIDE DEF top
<1>7. Cardinality(1..top) = top /\ IsFiniteSet(1..top)
  <2>1. 1 \in Int /\ top \in Int
    BY <1>1
  <2>2. IsFiniteSet(1..top) /\ Cardinality(1..top) = IF 1 > top THEN 0 ELSE top - 1 + 1
    BY <2>1, FS_Interval
  <2> QED BY <1>1, <2>2
<1>8. Cardinality(Holders(d)) = top
  BY <1>6, <1>7, CountedHoldersFinite, FS_Bijection DEF ExistsBijection
<1> QED BY <1>1, <1>8 DEF top

LEMMA TakenIsHolders ==
  ASSUME IInv, NEW d \in Day
  PROVE  /\ Cardinality(Admitted(d)) \in Nat /\ Cardinality(Lost(d)) \in Nat
         /\ Cardinality(Admitted(d)) + Cardinality(Lost(d)) = Cardinality(Holders(d))
<1>1. /\ IsFiniteSet(Admitted(d)) /\ IsFiniteSet(Lost(d))
      /\ Cardinality(Admitted(d)) \in Nat /\ Cardinality(Lost(d)) \in Nat
  BY CountedHoldersFinite, FS_CardinalityType
<1>2. Cardinality(Admitted(d) \cap Lost(d)) = 0
  BY HoldersSplit, FS_EmptySet
<1>3. Cardinality(Admitted(d) \cup Lost(d)) =
        Cardinality(Admitted(d)) + Cardinality(Lost(d)) - Cardinality(Admitted(d) \cap Lost(d))
  BY <1>1, FS_Union
<1>4. Holders(d) = Admitted(d) \cup Lost(d)
  BY HoldersSplit
<1> HIDE DEF Admitted, Lost, Holders
<1> QED BY <1>1, <1>2, <1>3, <1>4

(* At most MaxRunsPerDay of the runs counted on a day fire a step.          *)
THEOREM RunCapHolds == Spec => []RunCap
<1>1. IInv => RunCap
  <2> SUFFICES ASSUME IInv, NEW d \in Day PROVE Cardinality(Admitted(d)) <= MaxRunsPerDay
    BY DEF RunCap
  <2>1. Cardinality(Holders(d)) <= MaxRunsPerDay
    BY SlotsTaken, CapAssumption DEF IInv, TypeOK
  <2> QED BY <2>1, TakenIsHolders, CapAssumption
<1> QED BY <1>1, Invariance, PTL

(* A day's cost passes the cap by at most one step of each run the cap      *)
(* stopped on that day, and by what was applied under a reported error.     *)
THEOREM CostCapHolds == Spec => []CostCap
<1>1. IInv => CostCap
  BY DEF IInv
<1> QED BY <1>1, Invariance, PTL

(* The rows of the days before today never change again.                    *)
THEOREM PastHolds == Spec => PastSettled
<1> DEFINE A == \A d \in Day : d < day => runCount'[d] = runCount[d] /\ cost'[d] = cost[d]
<1>1. IInv /\ [Next]_vars => [A]_vars
  <2> SUFFICES ASSUME IInv, Next, NEW d \in Day, d < day
               PROVE  runCount'[d] = runCount[d] /\ cost'[d] = cost[d]
    OBVIOUS
  <2>1. CASE Midnight
    BY <2>1 DEF Midnight
  <2>2. CASE \E r \in Run : Step(r)
    <3>1. day # d /\ day \in Day
      BY DayFacts DEF IInv, TypeOK, Day
    <3>2. runCount' = runCount \/ runCount' = [runCount EXCEPT ![day] = @ + 1]
      BY <2>2 DEF Step, CheckQuota, CountRun, CountOn, Invoke, ChargeStep, EndRun
    <3>3. cost' = cost \/ \E r \in Run : cost' = [cost EXCEPT ![day] = @ + inflight[r]]
      BY <2>2 DEF Step, CheckQuota, CountRun, Invoke, ChargeStep, ChargeOn, EndRun
    <3>4. runCount \in [Day -> Nat] /\ cost \in [Day -> Nat]
      BY DEF IInv, TypeOK
    <3> QED BY <3>1, <3>2, <3>3, <3>4
  <2> QED BY <2>1, <2>2 DEF Next
<1> QED BY <1>1, Invariance, PTL DEF Spec, PastSettled

----------------------------------------------------------------------------
(* The refinement.  Only a count that is applied changes the slots.         *)
TurnedAway == {r \in Run : \E d \in Day : r \in Counted(d) \ (Admitted(d) \cup Lost(d))}

LEMMA SlotsUntouched ==
  ASSUME UNCHANGED <<countedOn, ticket>>,
         \A r \in Run : countedOn[r] # 0 => (r \in LetIn <=> r \in LetIn') /\ (pc[r] = "failed" <=> pc'[r] = "failed")
  PROVE  /\ \A d \in Day : Admitted(d)' = Admitted(d) /\ Lost(d)' = Lost(d)
         /\ TurnedAway' = TurnedAway
<1>1. \A d \in Day : d # 0
  BY DayFacts
<1>2. \A d \in Day : Counted(d)' = Counted(d)
  BY DEF Counted
<1>3. \A d \in Day : \A r \in Counted(d) : r \in Run /\ countedOn[r] # 0
  BY <1>1 DEF Counted
<1>4. \A d \in Day : Admitted(d)' = Admitted(d)
  BY <1>2, <1>3 DEF Admitted
<1>5. \A d \in Day : Lost(d)' = Lost(d)
  BY <1>2, <1>3 DEF Lost
<1> QED BY <1>2, <1>4, <1>5 DEF TurnedAway

LEMMA CountMoves ==
  ASSUME IInv, NEW r \in Run, countedOn[r] = 0, stoppedOn[r] = 0, CountOn(r, day), UNCHANGED stoppedOn,
         NEW v \in {"running", "quota_exceeded", "failed"}, pc' = [pc EXCEPT ![r] = v]
  PROVE  \A d \in Day :
           /\ Counted(d)' = IF d = day THEN Counted(d) \cup {r} ELSE Counted(d)
           /\ Admitted(d)' = IF d = day /\ v = "running" THEN Admitted(d) \cup {r} ELSE Admitted(d)
           /\ Lost(d)' = IF d = day /\ v = "failed" /\ runCount[day] + 1 <= MaxRunsPerDay
                         THEN Lost(d) \cup {r} ELSE Lost(d)
           /\ r \notin Counted(d)
<1>1. /\ \A s \in Run : s # r => countedOn'[s] = countedOn[s] /\ ticket'[s] = ticket[s] /\ pc'[s] = pc[s]
      /\ countedOn'[r] = day /\ ticket'[r] = runCount[day] + 1 /\ pc'[r] = v
  BY DEF CountOn, IInv, TypeOK
<1> SUFFICES ASSUME NEW d \in Day
             PROVE  /\ Counted(d)' = IF d = day THEN Counted(d) \cup {r} ELSE Counted(d)
                    /\ Admitted(d)' = IF d = day /\ v = "running" THEN Admitted(d) \cup {r} ELSE Admitted(d)
                    /\ Lost(d)' = IF d = day /\ v = "failed" /\ runCount[day] + 1 <= MaxRunsPerDay
                                  THEN Lost(d) \cup {r} ELSE Lost(d)
                    /\ r \notin Counted(d)
  OBVIOUS
<1>2. r \notin Counted(d)
  BY DayFacts DEF Counted
<1>3. Counted(d)' = IF d = day THEN Counted(d) \cup {r} ELSE Counted(d)
  BY <1>1, <1>2 DEF Counted
<1>4. /\ \A s \in Run : s # r => (s \in LetIn' <=> s \in LetIn)
      /\ r \in LetIn' <=> v = "running"
  BY <1>1 DEF LetIn
<1>5. Admitted(d)' = IF d = day /\ v = "running" THEN Admitted(d) \cup {r} ELSE Admitted(d)
  <2>1. \A s \in Counted(d) : s \in Run /\ s # r
    BY <1>2 DEF Counted
  <2> QED BY <1>2, <1>3, <1>4, <2>1 DEF Admitted
<1>6. Lost(d)' = IF d = day /\ v = "failed" /\ runCount[day] + 1 <= MaxRunsPerDay
                 THEN Lost(d) \cup {r} ELSE Lost(d)
  <2>1. \A s \in Counted(d) : s \in Run /\ s # r
    BY <1>2 DEF Counted
  <2> QED BY <1>1, <1>2, <1>3, <2>1 DEF Lost
<1> QED BY <1>2, <1>3, <1>5, <1>6

(* Counting r takes the slot it may, or finds the day full.                 *)
LEMMA CountRunRefines ==
  ASSUME IInv, NEW r \in Run, CountRun(r)
  PROVE  Cap!Next \/ UNCHANGED Cap!vars
<1>1. /\ UNCHANGED stoppedOn /\ countedOn[r] = 0 /\ stoppedOn[r] = 0
      /\ pc[r] = "checked" /\ day \in Day /\ runCount[day] \in Nat
  BY DEF CountRun, IInv, Progress, TypeOK
<1>2. PICK v \in {"running", "quota_exceeded", "failed"} :
        /\ pc' = [pc EXCEPT ![r] = v]
        /\ \/ /\ CountOn(r, day)
              /\ v = "running" => runCount[day] + 1 <= MaxRunsPerDay
              /\ v = "quota_exceeded" => runCount[day] + 1 > MaxRunsPerDay
           \/ UNCHANGED <<runCount, countedOn, ticket>>
  <2>1. CASE CountOn(r, day) /\ pc' = [pc EXCEPT ![r] = IF runCount[day] + 1 > MaxRunsPerDay
                                                         THEN "quota_exceeded" ELSE "running"]
    <3>1. CASE runCount[day] + 1 > MaxRunsPerDay
      BY <2>1, <3>1
    <3>2. CASE ~(runCount[day] + 1 > MaxRunsPerDay)
      <4>1. runCount[day] + 1 <= MaxRunsPerDay
        BY <1>1, <3>2, CapAssumption
      <4>2. pc' = [pc EXCEPT ![r] = "running"]
        BY <2>1, <3>2
      <4> QED BY <2>1, <4>1, <4>2
    <3> QED BY <3>1, <3>2
  <2>2. CASE CountOn(r, day) /\ pc' = [pc EXCEPT ![r] = "failed"]
    BY <2>2
  <2>3. CASE pc' = [pc EXCEPT ![r] = "failed"] /\ UNCHANGED <<runCount, countedOn, ticket>>
    BY <2>3
  <2> QED BY <2>1, <2>2, <2>3 DEF CountRun, IsOverRunCount
<1>3. CASE UNCHANGED <<runCount, countedOn, ticket>>
  <2>1. \A s \in Run : countedOn[s] # 0 => pc'[s] = pc[s] /\ stoppedOn'[s] = stoppedOn[s]
    BY <1>1, <1>2 DEF IInv, TypeOK
  <2>2. (\A d \in Day : Admitted(d)' = Admitted(d) /\ Lost(d)' = Lost(d)) /\ TurnedAway' = TurnedAway
    BY <1>3, <2>1, SlotsUntouched DEF LetIn
  <2> QED BY <2>2 DEF Cap!vars, TurnedAway
<1>4. CASE CountOn(r, day) /\ (v = "running" => runCount[day] + 1 <= MaxRunsPerDay)
           /\ (v = "quota_exceeded" => runCount[day] + 1 > MaxRunsPerDay)
  <2>1. \A d \in Day :
           /\ Counted(d)' = IF d = day THEN Counted(d) \cup {r} ELSE Counted(d)
           /\ Admitted(d)' = IF d = day /\ v = "running" THEN Admitted(d) \cup {r} ELSE Admitted(d)
           /\ Lost(d)' = IF d = day /\ v = "failed" /\ runCount[day] + 1 <= MaxRunsPerDay
                         THEN Lost(d) \cup {r} ELSE Lost(d)
           /\ r \notin Counted(d)
    BY <1>1, <1>2, <1>4, CountMoves
  <2>2. /\ runCount[day] + 1 <= MaxRunsPerDay =>
             Cardinality(Admitted(day)) + Cardinality(Lost(day)) < MaxRunsPerDay
        /\ runCount[day] + 1 > MaxRunsPerDay =>
             Cardinality(Admitted(day)) + Cardinality(Lost(day)) = MaxRunsPerDay
    BY <1>1, SlotsTaken, TakenIsHolders, CapAssumption
  <2>3. \A d \in Day : r \notin Admitted(d) /\ r \notin Lost(d)
    BY <2>1 DEF Admitted, Lost
  <2>4. r \notin TurnedAway
    BY <2>1 DEF TurnedAway
  <2>5. Cap!Unseen(r)
    BY <2>3, <2>4 DEF Cap!Unseen, TurnedAway
  <2>6. Cap!Taken(day) = Cardinality(Admitted(day)) + Cardinality(Lost(day))
    <3>1. [d \in Day |-> Admitted(d)][day] = Admitted(day) /\ [d \in Day |-> Lost(d)][day] = Lost(day)
      BY <1>1
    <3>2. Cap!Taken(day) = Cardinality([d \in Day |-> Admitted(d)][day]) + Cardinality([d \in Day |-> Lost(d)][day])
      BY DEF Cap!Taken, Cap!Cardinality, Cardinality
    <3> QED BY <3>1, <3>2
  <2>7. CASE v = "running"
    <3>1. \A d \in Day : Admitted(d)' = (IF d = day THEN Admitted(d) \cup {r} ELSE Admitted(d)) /\ Lost(d)' = Lost(d)
      BY <2>1, <2>7
    <3>2. TurnedAway' = TurnedAway
      <4>1. \A d \in Day : Counted(d)' \ (Admitted(d)' \cup Lost(d)') = Counted(d) \ (Admitted(d) \cup Lost(d))
        BY <2>1, <3>1
      <4> QED BY <4>1 DEF TurnedAway
    <3>3. Cap!Admit(r, day)
      BY <1>4, <2>2, <2>5, <2>6, <2>7, <3>1, <3>2 DEF Cap!Admit, TurnedAway
    <3> QED BY <1>1, <3>3 DEF Cap!Next
  <2>8. CASE v = "failed" /\ runCount[day] + 1 <= MaxRunsPerDay
    <3>1. \A d \in Day : Lost(d)' = (IF d = day THEN Lost(d) \cup {r} ELSE Lost(d)) /\ Admitted(d)' = Admitted(d)
      BY <2>1, <2>8
    <3>2. TurnedAway' = TurnedAway
      <4>1. \A d \in Day : Counted(d)' \ (Admitted(d)' \cup Lost(d)') = Counted(d) \ (Admitted(d) \cup Lost(d))
        BY <2>1, <3>1
      <4> QED BY <4>1 DEF TurnedAway
    <3>3. Cap!Lose(r, day)
      BY <2>2, <2>5, <2>6, <2>8, <3>1, <3>2 DEF Cap!Lose, TurnedAway
    <3> QED BY <1>1, <3>3 DEF Cap!Next
  <2>9. CASE v # "running" /\ runCount[day] + 1 > MaxRunsPerDay
    <3>1. \A d \in Day : Lost(d)' = Lost(d) /\ Admitted(d)' = Admitted(d)
      BY <1>1, <2>1, <2>9, CapAssumption
    <3>2. TurnedAway' = TurnedAway \cup {r}
      <4>1. \A d \in Day : Counted(d)' \ (Admitted(d)' \cup Lost(d)') =
               IF d = day THEN (Counted(d) \ (Admitted(d) \cup Lost(d))) \cup {r}
                          ELSE Counted(d) \ (Admitted(d) \cup Lost(d))
        BY <2>1, <2>3, <3>1
      <4> QED BY <1>1, <4>1 DEF TurnedAway
    <3>3. Cap!TurnAway(r, day)
      BY <2>2, <2>5, <2>6, <2>9, <3>1, <3>2 DEF Cap!TurnAway, TurnedAway
    <3> QED BY <1>1, <3>3 DEF Cap!Next
  <2> QED BY <1>1, <1>4, <2>7, <2>8, <2>9, CapAssumption
<1> QED BY <1>2, <1>3, <1>4

LEMMA StepRefines == IInv /\ [Next]_vars => [Cap!Next]_(Cap!vars)
<1> SUFFICES ASSUME IInv, [Next]_vars PROVE Cap!Next \/ UNCHANGED Cap!vars
  OBVIOUS
<1>1. ASSUME UNCHANGED <<countedOn, ticket>>,
             \A r \in Run : countedOn[r] # 0 => (r \in LetIn <=> r \in LetIn') /\ (pc[r] = "failed" <=> pc'[r] = "failed")
      PROVE  UNCHANGED Cap!vars
  BY <1>1, SlotsUntouched DEF Cap!vars, TurnedAway
<1>2. CASE Midnight \/ UNCHANGED vars
  BY <1>1, <1>2 DEF Midnight, vars, history, LetIn
<1>3. ASSUME NEW r \in Run, CheckQuota(r) PROVE UNCHANGED Cap!vars
  <2>1. UNCHANGED <<countedOn, ticket, stoppedOn>> /\ countedOn[r] = 0
    BY <1>3 DEF CheckQuota, history, IInv, Progress
  <2>2. \A s \in Run : s # r => pc'[s] = pc[s]
    BY <1>3 DEF CheckQuota, IInv, TypeOK
  <2> QED BY <1>1, <2>1, <2>2 DEF LetIn
<1>4. ASSUME NEW r \in Run, Invoke(r) \/ EndRun(r) \/ ChargeStep(r) PROVE UNCHANGED Cap!vars
  <2>1. UNCHANGED <<countedOn, ticket>>
    BY <1>4 DEF Invoke, EndRun, ChargeStep, history
  <2>2. \A s \in Run : s # r => pc'[s] = pc[s] /\ stoppedOn'[s] = stoppedOn[s]
    BY <1>4 DEF Invoke, EndRun, ChargeStep, history, IInv, TypeOK
  <2>3. /\ pc[r] \in {"running", "charge"}
        /\ \/ pc'[r] \in {"running", "charge", "done"}
           \/ pc'[r] = "quota_exceeded" /\ stoppedOn'[r] = day
    BY <1>4 DEF Invoke, EndRun, ChargeStep, IInv, TypeOK
  <2>4. day # 0
    BY DayFacts DEF IInv, TypeOK
  <2>5. r \in LetIn /\ r \in LetIn' /\ pc'[r] # "failed" /\ pc[r] # "failed"
    BY <2>3, <2>4 DEF LetIn
  <2>6. \A s \in Run : s # r => (s \in LetIn <=> s \in LetIn')
    BY <2>2 DEF LetIn
  <2> QED BY <1>1, <2>1, <2>2, <2>5, <2>6
<1> QED BY <1>2, <1>3, <1>4, CountRunRefines DEF Next, Step

(* The quota hands out the slots of module DailyCap: it lets runs in while  *)
(* the day has a slot and turns them away only when all are taken.          *)
THEOREM ImplementsCap == Spec => ImplementsDailyCap
<1>1. Init => Cap!Init
  <2> SUFFICES ASSUME Init PROVE Cap!Init
    OBVIOUS
  <2>1. \A d \in Day : Counted(d) = {}
    BY DayFacts DEF Init, Counted
  <2>2. \A d \in Day : Admitted(d) = {} /\ Lost(d) = {}
    BY <2>1 DEF Admitted, Lost
  <2> QED BY <2>1, <2>2 DEF Cap!Init
<1> QED BY <1>1, StepRefines, Invariance, PTL DEF Spec, ImplementsDailyCap, Cap!Spec
-----------------------------------------------------------------------------
(* No cent is lost between the runs and the days: an upsert adds the same   *)
(* amount to one term of each of the two sums.                              *)
LEMMA SumsOfCosts ==
  ASSUME TypeOK
  PROVE  /\ NatOn(cost, Day) /\ SumFunction(cost) = SumFunctionOnSet(cost, Day)
         /\ NatOn(charged, Run) /\ SumFunction(charged) = SumFunctionOnSet(charged, Run)
<1>1. cost \in [Day -> Nat] /\ charged \in [Run -> Nat]
  BY DEF TypeOK
<1>2. DOMAIN cost = Day /\ DOMAIN charged = Run
  BY <1>1
<1>3. IsFiniteSet(Day)
  BY FS_Interval DEF Day
<1>4. NatOn(cost, Day) /\ NatOn(charged, Run)
  BY <1>1, <1>3 DEF NatOn
<1> QED
  BY <1>2, <1>4 DEF SumFunction

(* The same of the state after a step.                                      *)
LEMMA SumsOfCostsNext == TypeOK' => (SumFunction(cost) = SumFunctionOnSet(cost, Day))'
                                    /\ (SumFunction(charged) = SumFunctionOnSet(charged, Run))'
BY SumsOfCosts, PTL

(* An upsert of total_cost_usd keeps the two sums equal.                    *)
LEMMA ChargeConserves ==
  ASSUME TypeOK, TypeOK', CostsConserved, NEW r \in Run, ChargeOn(r, day)
  PROVE  CostsConserved'
<1>1. inflight[r] \in Nat /\ day \in Day
  BY CostFacts DEF TypeOK
<1>2. cost'[day] = cost[day] + inflight[r] /\ \A d \in Day \ {day} : cost'[d] = cost[d]
  BY <1>1 DEF ChargeOn, TypeOK
<1>3. charged'[r] = charged[r] + inflight[r] /\ \A s \in Run \ {r} : charged'[s] = charged[s]
  BY DEF ChargeOn, TypeOK
<1>4. SumFunctionOnSet(cost', Day) = SumFunctionOnSet(cost, Day) + inflight[r]
  BY <1>1, <1>2, SumsOfCosts, SumGrows
<1>5. SumFunctionOnSet(charged', Run) = SumFunctionOnSet(charged, Run) + inflight[r]
  BY <1>1, <1>3, SumsOfCosts, SumGrows
<1>6. SumFunction(cost') = SumFunctionOnSet(cost', Day)
      /\ SumFunction(charged') = SumFunctionOnSet(charged', Run)
  BY SumsOfCostsNext
<1> QED
  BY <1>4, <1>5, <1>6, SumsOfCosts DEF CostsConserved

(* Before the first charge both sums are zero.                              *)
LEMMA ConservedInit == Init => CostsConserved
<1> SUFFICES ASSUME Init PROVE CostsConserved
  OBVIOUS
<1>1. TypeOK
  BY InitInv DEF IInv
<1>2. (\A d \in Day : cost[d] = 0) /\ \A r \in Run : charged[r] = 0
  BY DEF Init
<1>3. IsFiniteSet(Day) /\ IsFiniteSet(Run)
  BY <1>1, SumsOfCosts DEF NatOn
<1>4. SumFunctionOnSet(cost, Day) = 0 /\ SumFunctionOnSet(charged, Run) = 0
  BY <1>2, <1>3, SumOfZeros
<1> QED
  BY <1>1, <1>4, SumsOfCosts DEF CostsConserved

(* No other step touches a cost.                                            *)
LEMMA ConservedStep ==
  ASSUME TypeOK, TypeOK', CostsConserved, [Next]_vars
  PROVE  CostsConserved'
<1>1. CASE UNCHANGED <<cost, charged>>
  BY <1>1 DEF CostsConserved
<1>2. ASSUME NEW r \in Run, ChargeStep(r) PROVE CostsConserved'
  <2>1. ChargeOn(r, day) \/ UNCHANGED <<cost, charged>>
    BY <1>2 DEF ChargeStep
  <2> QED
    BY <1>1, <2>1, ChargeConserves
<1>3. ASSUME NEW r \in Run, CheckQuota(r) \/ CountRun(r) \/ Invoke(r) \/ EndRun(r)
      PROVE  UNCHANGED <<cost, charged>>
  BY <1>3 DEF CheckQuota, CountRun, Invoke, EndRun, CountOn, history
<1>4. CASE Midnight
  BY <1>1, <1>4 DEF Midnight, history
<1>5. CASE UNCHANGED vars
  BY <1>1, <1>5 DEF vars, history
<1> QED
  BY <1>1, <1>2, <1>3, <1>4, <1>5 DEF Next, Step

(* However runs overlap, fail and outlive midnights, what the usage rows of *)
(* all days hold is what the upserts of all runs added (RecordStepCost).    *)
THEOREM CostsAreConserved == Spec => []CostsConserved
<1>1. IInv /\ IInv' /\ CostsConserved /\ [Next]_vars => CostsConserved'
  BY ConservedStep DEF IInv
<1> QED
  BY <1>1, ConservedInit, Invariance, PTL DEF Spec

=============================================================================

---------------------------- MODULE EngineProofs ----------------------------
(* Proofs about one run of a workflow, for every workflow, every limit and  *)
(* every number of faults and outside events: the ready queue is exact, the *)
(* rows of the run implement module RunLifecycle, its limits and its books  *)
(* hold, and its firings are justified; last, what the happy path promises. *)
EXTENDS MCHappyPath, SequenceTheorems, NatFacts

Result == [err : {"none", "failed", "timed_out"}, cost : Nat, out : Output]

(* The result of an Invoke that failed before it produced an output.        *)
LEMMA EmptyResult ==
  /\ NoResult \in Result
  /\ \A s \in {"failed", "timed_out"}, c \in Nat :
       [NoResult EXCEPT !.err = s, !.cost = c] \in Result
<1>1. NoResult.out \in Output
  BY DEF NoResult, Output
<1> QED
  BY <1>1 DEF NoResult, Result

(* The running row of a step that begins.                                   *)
LEMMA NewStepRow ==
  ASSUME TypeOK, cur \in Node
  PROVE  NewStep \in Row /\ NewStep.status = "running"
<1>1. [u \in Key |-> latest[cur][u].iter] \in [Key -> Nat]
  BY DEF TypeOK
<1>2. iteration[cur] + 1 \in Nat
  BY DEF TypeOK
<1> QED
  BY <1>1, <1>2 DEF NewStep, Row

(* What the update of a finished step does to the rows.                     *)
LEMMA FinishedRows ==
  ASSUME TypeOK, steps # <<>>
  PROVE  /\ Finished \in Seq(Row)
         /\ Len(Finished) = Len(steps)
         /\ Finished # <<>>
         /\ \A i \in 1..Len(steps) :
              Finished[i].status = IF i = Len(steps) THEN StepStatus ELSE steps[i].status
<1> DEFINE k == Len(steps)
           r == [steps[k] EXCEPT !.status = StepStatus, !.cost = result.cost]
<1>1. k \in 1..Len(steps) /\ steps[k] \in Row
  BY EmptySeq, ElementOfSeq, LenProperties DEF TypeOK
<1>2. StepStatus \in {"completed", "failed", "timed_out"} /\ result.cost \in Nat
  BY DEF TypeOK, StepStatus
<1>3. r \in Row /\ r.status = StepStatus
  BY <1>1, <1>2 DEF Row
<1>4. Finished = [steps EXCEPT ![k] = r]
  BY <1>1 DEF Finished, Row, TypeOK
<1>5. /\ [steps EXCEPT ![k] = r] \in Seq(Row)
      /\ Len([steps EXCEPT ![k] = r]) = Len(steps)
      /\ \A i \in 1..Len(steps) :
           [steps EXCEPT ![k] = r][i] = IF i = k THEN r ELSE steps[i]
  BY <1>1, <1>3, ExceptSeq DEF TypeOK
<1>6. Finished # <<>>
  BY <1>1, <1>4, <1>5, EmptySeq
<1> QED
  BY <1>3, <1>4, <1>5, <1>6

(* The status a stopped run is left with.                                   *)
Outcomes == {"completed", "failed", "timed_out", "killed", "quota_exceeded"}

(* Every action keeps the types.                                            *)
LEMMA TypeStep == TypeOK /\ QueueInv /\ RowsInv /\ [Next]_vars => TypeOK'
<1> SUFFICES ASSUME TypeOK, QueueInv, RowsInv, [Next]_vars PROVE TypeOK'
  OBVIOUS
<1> USE DEF shared, rows, graph, clocks, history, NoFault, Fault, Stop, Ended
<1>1. CASE Preflight
  BY <1>1 DEF Preflight, TypeOK
<1>2. CASE CreateRun
  BY <1>2 DEF CreateRun, TypeOK
<1>3. CASE CountRun
  <2>1. usage' \in [runs : Nat, cost : Nat]
    BY <1>3 DEF CountRun, TypeOK
  <2>2. /\ latest' \in [Node -> [Key -> [seq : Nat, iter : Nat]]]
        /\ pending' \in [Node -> BOOLEAN] /\ ready' \in Seq(Node) /\ seq' \in Nat
    <3>1. CASE SeedEntries
      <4>1. seq' \in Nat /\ ready' \in Seq(Node) /\ pending' \in [Node -> BOOLEAN]
        BY <3>1, EntryAssumption, LenProperties DEF SeedEntries, Entry
      <4>2. \A n \in Node : Entry(n) => EntryPos(n) \in Nat
        BY EntryAssumption DEF Entry, EntryPos
      <4>3. latest' \in [Node -> [Key -> [seq : Nat, iter : Nat]]]
        BY <3>1, <4>2 DEF SeedEntries, TypeOK
      <4> QED
        BY <4>1, <4>3
    <3>2. CASE UNCHANGED <<graph, ready>>
      BY <3>2 DEF TypeOK
    <3> QED
      BY <1>3, <3>1, <3>2 DEF CountRun
  <2>3. /\ UNCHANGED <<killSwitch, env, others, rows, cur, clocks, result, history>>
        /\ UNCHANGED <<iteration, lastFired, fire>>
    BY <1>3 DEF CountRun
  <2>4. pc' \in {"loop", "final"} /\ outcome' \in Outcomes /\ faults' \in Nat
    BY <1>3 DEF CountRun, TypeOK, Outcomes
  <2> QED
    BY <2>1, <2>2, <2>3, <2>4 DEF TypeOK, Outcomes
<1>4. CASE StopAtEmptyQueue \/ StopAtStepCap \/ StopAtDeadline \/ StopAtKillSwitch
  <2>1. /\ UNCHANGED <<shared, rows, graph, ready, cur, clocks, result, history>>
        /\ pc' = "final"
    BY <1>4 DEF StopAtEmptyQueue, StopAtStepCap, StopAtDeadline, StopAtKillSwitch
  <2>2. outcome' \in Outcomes
    BY <1>4 DEF StopAtEmptyQueue, StopAtStepCap, StopAtDeadline, StopAtKillSwitch, Outcomes
  <2>3. faults' \in Nat
    <3>1. faults \in Nat
      BY DEF TypeOK
    <3>2. faults' \in {faults, faults + 1}
      BY <1>4 DEF StopAtEmptyQueue, StopAtStepCap, StopAtDeadline, StopAtKillSwitch
    <3> QED
      BY <3>1, <3>2
  <2> QED
    BY <2>1, <2>2, <2>3 DEF TypeOK, Outcomes
<1>5. CASE TakeNode
  <2>1. Head(ready) \in Node /\ Tail(ready) \in Seq(Node)
    BY <1>5, HeadTailProperties DEF TakeNode, MayFire, TypeOK
  <2>2. UNCHANGED <<shared, rows, iteration, lastFired, latest, seq, fire, now, result,
                     faults, history>>
    BY <1>5 DEF TakeNode
  <2>3. cur' \in Key /\ ready' \in Seq(Node) /\ pending' \in [Node -> BOOLEAN]
    BY <1>5, <2>1 DEF TakeNode, Key, TypeOK
  <2>4. pc' \in {"final", "start"} /\ outcome' \in Outcomes /\ stepCount' \in Nat
    BY <1>5 DEF TakeNode, TypeOK, Outcomes
  <2> QED
    BY <2>2, <2>3, <2>4 DEF TypeOK, Outcomes
<1>6. CASE StartStep
  <2>1. Append(steps, NewStep) \in Seq(Row)
    BY <1>6, NewStepRow, AppendProperties DEF StartStep, QueueInv, Firing, TypeOK
  <2>2. UNCHANGED <<shared, runStatus, trades, graph, ready, cur, clocks, result, spent,
                     charged, over>>
    BY <1>6 DEF StartStep
  <2>3. pc' \in {"final", "invoke"} /\ outcome' \in Outcomes /\ faults' \in Nat /\ late' \in Nat
    BY <1>6 DEF StartStep, TypeOK, Outcomes
  <2>4. steps' \in Seq(Row)
    BY <1>6, <2>1 DEF StartStep, TypeOK
  <2> QED
    BY <2>2, <2>3, <2>4 DEF TypeOK, Outcomes
<1>7. CASE Invoke
  <2>1. cur \in Node
    BY <1>7 DEF Invoke, QueueInv, Firing
  <2>2. PICK c \in StepCosts, d \in Durations :
             /\ \/ \E o \in Outputs[cur] : result' = [err |-> "none", cost |-> c, out |-> o]
                \/ result' = [NoResult EXCEPT !.err = "failed", !.cost = c]
                \/ result' = [NoResult EXCEPT !.err = "timed_out", !.cost = c]
             /\ now' = now + d
             /\ spent' = spent + c
             /\ over' = IF c > 0 /\ usage.cost > MaxCostUSDPerDay THEN over + 1 ELSE over
    BY <1>7 DEF Invoke
  <2>3. c \in Nat /\ d \in Nat
    BY LimitAssumption
  <2>4. Outputs[cur] \subseteq Output
    BY <2>1, WorkflowAssumption
  <2>5. result' \in Result
    <3>1. \A o \in Output : [err |-> "none", cost |-> c, out |-> o] \in Result
      BY <2>3 DEF Result
    <3> QED
      BY <2>2, <2>3, <2>4, <3>1, EmptyResult
  <2>6. now \in Nat /\ spent \in Nat /\ over \in Nat
    BY DEF TypeOK
  <2>7. now' \in Nat /\ spent' \in Nat /\ over' \in Nat
    BY <2>2, <2>3, <2>6
  <2> QED
    BY <1>7, <2>5, <2>7 DEF Invoke, Result, TypeOK
<1>8. CASE PersistStep
  <2>1. Finished \in Seq(Row)
    BY <1>8, FinishedRows DEF PersistStep, RowsInv, LastOpen
  <2> QED
    BY <1>8, <2>1 DEF PersistStep, TypeOK
<1>9. CASE ChargeStep
  <2>1. result.cost \in Nat /\ usage \in [runs : Nat, cost : Nat]
    BY DEF TypeOK
  <2>2. [usage EXCEPT !.cost = @ + result.cost] \in [runs : Nat, cost : Nat]
    BY <2>1
  <2>3. charged \in Nat
    BY DEF TypeOK
  <2>4. /\ usage' \in {usage, [usage EXCEPT !.cost = @ + result.cost]}
        /\ charged' \in {charged, charged + result.cost, charged + (usage'.cost - usage.cost)}
    BY <1>9 DEF ChargeStep
  <2>5. usage'.cost \in Nat /\ usage'.cost >= usage.cost
    BY <2>1, <2>4
  <2>6. usage' \in [runs : Nat, cost : Nat] /\ charged' \in Nat
    BY <2>1, <2>2, <2>3, <2>4, <2>5
  <2>7. /\ UNCHANGED <<killSwitch, env, others, rows, graph, ready, cur, clocks, result, spent,
                        late, over>>
        /\ pc' \in {"settle", "final"}
    BY <1>9 DEF ChargeStep
  <2>8. outcome' \in Outcomes /\ faults' \in Nat
    <3>1. outcome' \in {outcome, "quota_exceeded"} /\ faults' \in {faults, faults + 1}
      BY <1>9 DEF ChargeStep
    <3> QED
      BY <3>1 DEF TypeOK, Outcomes
  <2> QED
    BY <2>6, <2>7, <2>8 DEF TypeOK, Outcomes
<1>10. CASE Settle
  <2>1. cur \in Node
    BY <1>10 DEF Settle, QueueInv, Firing
  <2>2. FiringPlan(cur, result.out) \subseteq Edge
    BY DEF FiringPlan, Out
  <2>3. UNCHANGED <<shared, rows, latest, pending, seq, ready, cur, clocks, result, faults,
                     history>>
    BY <1>10 DEF Settle
  <2>4. iteration' \in [Node -> Nat] /\ lastFired' \in [Node -> Int] /\ fire' \subseteq Edge
    <3>1. iteration \in [Node -> Nat] /\ lastFired \in [Node -> Int] /\ fire \subseteq Edge /\ seq \in Nat
      BY DEF TypeOK
    <3>2. CASE UNCHANGED graph
      BY <3>1, <3>2
    <3>3. CASE /\ iteration' = [iteration EXCEPT ![cur] = @ + 1]
               /\ lastFired' = [lastFired EXCEPT ![cur] = seq]
               /\ fire' = FiringPlan(cur, result.out)
      BY <2>1, <2>2, <3>1, <3>3
    <3> QED
      BY <1>10, <3>2, <3>3 DEF Settle
  <2>5. pc' \in {"final", "trade", "propagate"} /\ outcome' \in Outcomes
    BY <1>10 DEF Settle, TypeOK, Outcomes
  <2> QED
    BY <2>3, <2>4, <2>5 DEF TypeOK, Outcomes
<1>11. CASE RecordTrade
  <2> DEFINE TradeRow == [step : Nat, status : {"open", "abstained"}]
  <2>1. NewTrade \in TradeRow
    BY LenProperties DEF NewTrade, TypeOK
  <2>2. trades \in Seq(TradeRow)
    BY DEF TypeOK
  <2>3. Append(trades, NewTrade) \in Seq(TradeRow)
    BY <2>1, <2>2, AppendProperties
  <2>4. /\ UNCHANGED <<shared, runStatus, steps, graph, ready, cur, clocks, result, outcome,
                        history>>
        /\ pc' = "propagate"
    BY <1>11 DEF RecordTrade
  <2>5. trades' \in {trades, Append(trades, NewTrade)}
    BY <1>11 DEF RecordTrade
  <2>6. faults' \in Nat
    BY <1>11 DEF RecordTrade, TypeOK
  <2> QED
    BY <2>2, <2>3, <2>4, <2>5, <2>6 DEF TypeOK
<1>12. CASE Propagate
  <2>1. PICK e \in fire :
             /\ fire' = fire \ {e}
             /\ seq' = seq + 1
             /\ latest' = Arrive(e)
             /\ \/ ready' = Append(ready, To[e]) /\ pending' = [pending EXCEPT ![To[e]] = TRUE]
                \/ UNCHANGED <<ready, pending>>
    BY <1>12 DEF Propagate
  <2>2. e \in Edge /\ From[e] \in Node /\ To[e] \in Node
    BY <2>1, WorkflowAssumption DEF TypeOK
  <2>3. Arrive(e) \in [Node -> [Key -> [seq : Nat, iter : Nat]]]
    <3>1. latest \in [Node -> [Key -> [seq : Nat, iter : Nat]]]
      BY DEF TypeOK
    <3>2. From[e] \in Key /\ [seq |-> seq + 1, iter |-> iteration[From[e]]] \in [seq : Nat, iter : Nat]
      BY <2>2 DEF TypeOK, Key
    <3> HIDE DEF Key
    <3> QED
      BY <2>2, <3>1, <3>2 DEF Arrive
  <2>4. ready' \in Seq(Node) /\ pending' \in [Node -> BOOLEAN]
    <3>1. ready \in Seq(Node) /\ pending \in [Node -> BOOLEAN]
      BY DEF TypeOK
    <3>2. Append(ready, To[e]) \in Seq(Node) /\ [pending EXCEPT ![To[e]] = TRUE] \in [Node -> BOOLEAN]
      BY <2>2, <3>1, AppendProperties
    <3> QED
      BY <2>1, <3>1, <3>2
  <2> QED
    BY <1>12, <2>1, <2>3, <2>4 DEF Propagate, TypeOK
<1>13. CASE EndTurn
  BY <1>13 DEF EndTurn, Key, Seed, TypeOK
<1>14. CASE Finalize
  BY <1>14 DEF Finalize, TypeOK
<1>15. CASE Crash
  BY <1>15 DEF Crash, TypeOK
<1>16. CASE Environment
  <2>1. /\ UNCHANGED <<pc, rows, graph, ready, cur, clocks, result, outcome, faults>>
        /\ UNCHANGED <<spent, charged, over>> /\ env' = env + 1
    BY <1>16 DEF Environment, FlipKillSwitch, OtherRun
  <2>2. usage \in [runs : Nat, cost : Nat] /\ others \in Nat /\ killSwitch \in BOOLEAN /\ late \in Nat
    BY DEF TypeOK
  <2>3. CASE FlipKillSwitch
    BY <2>1, <2>2, <2>3 DEF FlipKillSwitch, TypeOK
  <2>4. CASE OtherRun
    <3>1. \A c \in StepCosts : c \in Nat
      BY LimitAssumption
    <3>2. usage' \in [runs : Nat, cost : Nat] /\ others' \in Nat
      BY <2>2, <2>4, <3>1 DEF OtherRun
    <3>3. UNCHANGED <<killSwitch, late>>
      BY <2>4 DEF OtherRun
    <3> QED
      BY <2>1, <3>2, <3>3 DEF TypeOK
  <2> QED
    BY <1>16, <2>3, <2>4 DEF Environment
<1>17. CASE UNCHANGED vars
  BY <1>17 DEF vars, TypeOK
<1> QED
  BY <1>1, <1>2, <1>3, <1>4, <1>5, <1>6, <1>7, <1>8, <1>9, <1>10, <1>11, <1>12, <1>13,
     <1>14, <1>15, <1>16, <1>17 DEF Next, Run

----------------------------------------------------------------------------
(* The parts of the types that speak of the ready queue.                    *)
LEMMA QueueTypes ==
  ASSUME TypeOK
  PROVE  /\ ready \in Seq(Node) /\ Len(ready) \in Nat /\ seq \in Nat
         /\ \A i \in 1..Len(ready) : ready[i] \in Node
         /\ pending \in [Node -> BOOLEAN]
         /\ lastFired \in [Node -> Int]
         /\ latest \in [Node -> [Key -> [seq : Nat, iter : Nat]]]
         /\ \A n \in Node, u \in Key : latest[n][u].seq \in Nat
<1>1. ready \in Seq(Node)
  BY DEF TypeOK
<1>2. Len(ready) \in Nat /\ \A i \in 1..Len(ready) : ready[i] \in Node
  BY <1>1, LenProperties, ElementOfSeq
<1>3. latest \in [Node -> [Key -> [seq : Nat, iter : Nat]]]
  BY DEF TypeOK
<1>4. \A n \in Node, u \in Key : latest[n][u].seq \in Nat
  BY <1>3
<1> QED
  BY <1>1, <1>2, <1>3, <1>4 DEF TypeOK

(* No node is the seed.                                                     *)
LEMMA NodePositive == \A n \in Node : n # 0 /\ n \in Key
BY WorkflowAssumption DEF Key

(* A step that leaves the queue and the inputs alone, and does not enter a  *)
(* part of the loop from outside, keeps the invariant of the queue.         *)
LEMMA QueueFrame ==
  ASSUME QueueInv,
         UNCHANGED <<ready, latest, lastFired, pending, seq, cur>>,
         pc' \in Unseeded => pc \in Unseeded,
         pc' = "loop" => pc = "loop",
         pc' \in Firing => pc \in Firing,
         pc' \in {"trade", "propagate"} => pc \in {"trade", "propagate"}
  PROVE  QueueInv'
<1>0. \A n \in Node : InQueue(n)' <=> InQueue(n)
  BY DEF InQueue
<1>1. \A n \in Node : IsReady(latest, n)' <=> IsReady(latest, n)
  BY DEF IsReady, Present
<1>2. Node \ {Held'} \subseteq Node \ {Held}
  BY NodePositive DEF Held
<1>3. QueueExact'
  <2>1. \A i, j \in 1..Len(ready') : ready'[i] = ready'[j] => i = j
    BY DEF QueueInv, QueueExact
  <2>2. \A n \in Node : pending'[n] <=> InQueue(n)'
    <3>1. \A n \in Node : pending[n] <=> InQueue(n)
      BY DEF QueueInv, QueueExact
    <3>2. pending' = pending
      OBVIOUS
    <3> QED
      BY <1>0, <3>1, <3>2, Zenon
  <2>3. \A n \in Node \ {Held} : InQueue(n) <=> IsReady(latest, n)
    BY DEF QueueInv, QueueExact
  <2>4. \A n \in Node \ {Held'} : InQueue(n)' <=> IsReady(latest, n)'
    <3> SUFFICES ASSUME NEW n \in Node \ {Held'} PROVE InQueue(n)' <=> IsReady(latest, n)'
      OBVIOUS
    <3>1. n \in Node /\ n \in Node \ {Held}
      BY <1>2
    <3>2. InQueue(n) <=> IsReady(latest, n)
      BY <2>3, <3>1
    <3>3. InQueue(n)' <=> InQueue(n)
      BY <1>0, <3>1
    <3>4. IsReady(latest, n)' <=> IsReady(latest, n)
      BY <1>1, <3>1
    <3> QED
      BY <3>2, <3>3, <3>4
  <2> QED
    BY <2>1, <2>2, <2>4 DEF QueueExact
<1>4. pc' \in Firing => ~ InQueue(cur)'
  BY DEF QueueInv, InQueue
<1> QED
  BY <1>3, <1>4 DEF QueueInv

(* The seeding puts exactly the ready nodes, the entry nodes, on the queue. *)
LEMMA QueueSeeded ==
  ASSUME TypeOK, QueueInv, pc = "count", pc' = "loop", SeedEntries,
         UNCHANGED <<lastFired, cur>>
  PROVE  QueueInv'
<1> USE QueueTypes
<1>1. /\ \A i \in 1..Len(EntrySeq) : EntrySeq[i] \in Node
      /\ Len(EntrySeq) \in Nat
  BY EntryAssumption, LenProperties, ElementOfSeq
<1>2. \A i, j \in 1..Len(EntrySeq) : EntrySeq[i] = EntrySeq[j] => i = j
  <2> SUFFICES ASSUME NEW i \in 1..Len(EntrySeq), NEW j \in 1..Len(EntrySeq), i < j
               PROVE  EntrySeq[i] # EntrySeq[j]
    BY <1>1
  <2>1. EntrySeq[i] < EntrySeq[j] /\ EntrySeq[i] \in Nat
    BY <1>1, EntryAssumption, WorkflowAssumption
  <2> QED
    BY <2>1
<1>3. \A n \in Node : InQueue(n)' <=> Entry(n)
  BY EntryAssumption DEF SeedEntries, InQueue, Entry
<1>4. \A n \in Node : Entry(n) => EntryPos(n) \in 1..Len(EntrySeq)
  BY EntryAssumption DEF Entry, EntryPos
<1>5. /\ \A n \in Node, u \in Key : latest[n][u].seq = 0
      /\ \A n \in Node : lastFired'[n] = -1
  BY DEF QueueInv, Unseeded
<1>6. \A n \in Node, u \in Key :
        latest'[n][u].seq = IF u = Seed /\ Entry(n) THEN EntryPos(n) ELSE 0
  BY <1>5 DEF SeedEntries
<1>7. \A n \in Node : IsReady(latest, n)' <=> Entry(n)
  <2> SUFFICES ASSUME NEW n \in Node PROVE IsReady(latest, n)' <=> Entry(n)
    OBVIOUS
  <2>1. CASE Entry(n)
    <3>1. Seed \in Key /\ latest'[n][Seed].seq > 0 /\ latest'[n][Seed].seq > lastFired'[n]
      BY <1>1, <1>4, <1>5, <1>6, <2>1 DEF Key
    <3>2. NonLoopUpstream(n) = {}
      BY <2>1 DEF Entry, NonLoopUpstream
    <3> QED
      BY <2>1, <3>1, <3>2 DEF IsReady, Present
  <2>2. CASE ~ Entry(n)
    BY <1>6, <2>2 DEF IsReady, Present
  <2> QED
    BY <2>1, <2>2
<1>8. QueueExact'
  BY <1>2, <1>3, <1>7 DEF QueueExact, SeedEntries
<1>9. cur' = 0
  BY DEF QueueInv, Unseeded
<1>10. \A n \in Node : lastFired'[n] <= seq' /\ \A u \in Key : latest'[n][u].seq <= seq'
  BY <1>1, <1>4, <1>5, <1>6 DEF SeedEntries
<1> QED
  BY <1>8, <1>9, <1>10 DEF QueueInv, Unseeded, Firing

(* A node popped from the queue is on it no more, and the others stay.      *)
LEMMA QueuePopped ==
  ASSUME TypeOK, QueueInv, TakeNode
  PROVE  QueueInv'
<1> USE QueueTypes
<1>1. ready # <<>> /\ pc = "loop" /\ cur = 0 /\ Held = 0
  BY DEF TakeNode, MayFire, QueueInv, Held
<1>2. PICK h \in Node :
         /\ h = Head(ready) /\ h = ready[1]
         /\ ready' = Tail(ready) /\ Len(ready') = Len(ready) - 1
         /\ \A i \in 1..(Len(ready) - 1) : ready'[i] = ready[i + 1]
         /\ Len(ready) >= 1
  BY <1>1, HeadTailProperties, EmptySeq DEF TakeNode
<1>3. \A i, j \in 1..Len(ready) : ready[i] = ready[j] => i = j
  BY DEF QueueInv, QueueExact
<1>4. /\ cur' = h /\ pending' = [pending EXCEPT ![h] = FALSE]
      /\ UNCHANGED <<lastFired, latest, seq>>
      /\ pc' \in {"start", "final"}
  BY <1>2 DEF TakeNode, Stop
<1>5. \A n \in Node : InQueue(n)' <=> InQueue(n) /\ n # h
  <2> SUFFICES ASSUME NEW n \in Node PROVE InQueue(n)' <=> InQueue(n) /\ n # h
    OBVIOUS
  <2>1. ASSUME NEW i \in 1..Len(ready'), ready'[i] = n
        PROVE  InQueue(n) /\ n # h
    BY <1>2, <1>3, <2>1 DEF InQueue
  <2>2. ASSUME NEW i \in 1..Len(ready), ready[i] = n, n # h
        PROVE  InQueue(n)'
    <3>1. i - 1 \in 1..Len(ready') /\ ready'[i - 1] = n
      BY <1>2, <2>2
    <3> QED
      BY <3>1 DEF InQueue
  <2> QED
    BY <2>1, <2>2 DEF InQueue
<1>6. \A n \in Node : IsReady(latest, n)' <=> IsReady(latest, n)
  BY <1>4 DEF IsReady, Present
<1>7. QueueExact'
  <2>1. \A i, j \in 1..Len(ready') : ready'[i] = ready'[j] => i = j
    BY <1>2, <1>3
  <2>2. \A n \in Node : pending'[n] <=> InQueue(n)'
    BY <1>2, <1>4, <1>5 DEF QueueInv, QueueExact
  <2>3. \A n \in Node : InQueue(n) <=> IsReady(latest, n)
    BY <1>1, NodePositive DEF QueueInv, QueueExact
  <2>4. Held' = h
    BY <1>4 DEF Held
  <2>5. \A n \in Node \ {Held'} : InQueue(n)' <=> IsReady(latest, n)'
    BY <1>5, <1>6, <2>3, <2>4
  <2> QED
    BY <2>1, <2>2, <2>5 DEF QueueExact
<1>8. ~ InQueue(cur)'
  <2>1. ~ InQueue(h)'
    BY <1>2, <1>5
  <2> QED
    BY <1>4, <2>1 DEF InQueue
<1>9. \A n \in Node : lastFired'[n] <= seq' /\ \A u \in Key : latest'[n][u].seq <= seq'
  <2>1. \A n \in Node : lastFired[n] <= seq /\ \A u \in Key : latest[n][u].seq <= seq
    BY DEF QueueInv
  <2> QED
    BY <1>4, <2>1
<1> QED
  BY <1>2, <1>4, <1>7, <1>8, <1>9 DEF QueueInv, Unseeded, Firing

(* A node that has fired has seen everything, and is not on the queue.      *)
LEMMA QueueSettled ==
  ASSUME TypeOK, QueueInv, Settle
  PROVE  QueueInv'
<1> USE QueueTypes
<1>1. pc = "settle" /\ cur \in Node /\ ~ InQueue(cur) /\ Held = cur
      /\ UNCHANGED <<ready, latest, pending, seq, cur>>
  BY DEF Settle, QueueInv, Firing, Held, graph
<1>2. CASE result.err # "none"
  <2>1. pc' = "final" /\ UNCHANGED lastFired
    BY <1>2 DEF Settle, Stop, graph
  <2> QED
    BY <1>1, <2>1, QueueFrame DEF Unseeded, Firing
<1>3. CASE result.err = "none"
  <2>1. lastFired' = [lastFired EXCEPT ![cur] = seq] /\ pc' \in {"trade", "propagate"}
    BY <1>3 DEF Settle
  <2>2. Held' = 0
    BY <2>1 DEF Held
  <2>3. \A n \in Node : InQueue(n)' <=> InQueue(n)
    BY <1>1 DEF InQueue
  <2>4. \A n \in Node \ {cur} : IsReady(latest, n)' <=> IsReady(latest, n)
    BY <1>1, <2>1 DEF IsReady, Present
  <2>5. ~ IsReady(latest, cur)'
    <3>1. lastFired'[cur] = seq /\ \A u \in Key : latest'[cur][u].seq <= seq
      BY <1>1, <2>1 DEF QueueInv
    <3>2. \A u \in Key : ~ (latest'[cur][u].seq > lastFired'[cur])
      BY <1>1, <3>1
    <3> QED
      BY <1>1, <3>2 DEF IsReady, Present
  <2>6. \A n \in Node : InQueue(n)' <=> IsReady(latest, n)'
    BY <1>1, <2>3, <2>4, <2>5 DEF QueueInv, QueueExact
  <2>7. QueueExact'
    <3>1. \A n \in Node : pending'[n] <=> InQueue(n)'
      BY <1>1, <2>3 DEF QueueInv, QueueExact
    <3> QED
      BY <1>1, <2>6, <3>1 DEF QueueInv, QueueExact
  <2>8. \A n \in Node : lastFired'[n] <= seq' /\ \A u \in Key : latest'[n][u].seq <= seq'
    BY <1>1, <2>1 DEF QueueInv
  <2> QED
    BY <1>1, <2>1, <2>7, <2>8 DEF QueueInv, Unseeded, Firing
<1> QED
  BY <1>2, <1>3

(* An arrival at node t along e makes t ready exactly when t is an `all`    *)
(* join that has what it waits for, or a `first` join.                      *)
LEMMA QueueArrival ==
  ASSUME TypeOK, QueueInv, Propagate
  PROVE  QueueInv'
<1> USE QueueTypes
<1>1. PICK e \in fire :
           /\ seq' = seq + 1
           /\ latest' = Arrive(e)
           /\ IF ~ pending[To[e]] /\ IsReady(latest', To[e])
              THEN ready' = Append(ready, To[e]) /\ pending' = [pending EXCEPT ![To[e]] = TRUE]
              ELSE UNCHANGED <<ready, pending>>
  BY DEF Propagate
<1> DEFINE t == To[e]
           f == From[e]
<1>2. t \in Node /\ f \in Key
  BY WorkflowAssumption DEF TypeOK, Key
<1>3. pc = "propagate" /\ Held = 0 /\ Held' = 0 /\ UNCHANGED <<pc, cur, lastFired>>
  BY DEF Propagate, Held
<1>4. \A n \in Node, u \in Key :
        latest'[n][u].seq = IF n = t /\ u = f THEN seq + 1 ELSE latest[n][u].seq
  BY <1>1, <1>2 DEF Arrive
<1> HIDE DEF t, f
<1>5. \A n \in Node \ {t} : IsReady(latest, n)' <=> IsReady(latest, n)
  BY <1>3, <1>4 DEF IsReady, Present
<1>6. /\ latest'[t][f].seq > 0 /\ latest'[t][f].seq > lastFired'[t]
      /\ \A u \in Key : latest[t][u].seq > 0 => latest'[t][u].seq > 0
  <2>1. lastFired[t] \in Int /\ lastFired[t] <= seq /\ seq \in Nat
    BY <1>2 DEF QueueInv
  <2>2. latest'[t][f].seq = seq + 1 /\ lastFired'[t] = lastFired[t]
    BY <1>2, <1>3, <1>4
  <2>3. ASSUME NEW u \in Key, latest[t][u].seq > 0 PROVE latest'[t][u].seq > 0
    <3>1. latest'[t][u].seq = seq + 1 \/ latest'[t][u].seq = latest[t][u].seq
      BY <1>2, <1>4
    <3> QED
      BY <2>1, <2>3, <3>1
  <2> QED
    BY <2>1, <2>2, <2>3
<1>7. IsReady(latest, t) => IsReady(latest, t)'
  BY <1>2, <1>3, <1>6 DEF IsReady, Present
<1>8. IsReady(latest', t) <=> IsReady(latest, t)'
  BY <1>3 DEF IsReady, Present
<1>9. \A n \in Node : InQueue(n) <=> IsReady(latest, n)
  BY <1>3, NodePositive DEF QueueInv, QueueExact
<1>10. \A n \in Node : pending[n] <=> InQueue(n)
  BY DEF QueueInv, QueueExact
<1>11. \A i, j \in 1..Len(ready) : ready[i] = ready[j] => i = j
  BY DEF QueueInv, QueueExact
<1>12. \A n \in Node : lastFired'[n] <= seq' /\ \A u \in Key : latest'[n][u].seq <= seq'
  <2>1. \A n \in Node : lastFired[n] <= seq /\ \A u \in Key : latest[n][u].seq <= seq
    BY DEF QueueInv
  <2>2. seq' = seq + 1
    BY <1>1
  <2>3. ASSUME NEW n \in Node PROVE lastFired'[n] <= seq'
    <3>1. lastFired[n] \in Int /\ lastFired[n] <= seq
      BY <2>1
    <3> QED
      BY <1>3, <2>2, <3>1
  <2>4. ASSUME NEW n \in Node, NEW u \in Key PROVE latest'[n][u].seq <= seq'
    <3>1. latest[n][u].seq \in Nat /\ latest[n][u].seq <= seq
      BY <2>1
    <3>2. latest'[n][u].seq = seq + 1 \/ latest'[n][u].seq = latest[n][u].seq
      BY <1>4
    <3>3. seq \in Nat
      OBVIOUS
    <3> QED
      BY <2>2, <3>1, <3>2, <3>3
  <2> QED
    BY <2>3, <2>4
<1>13. QueueExact'
  <2>1. CASE ~ pending[t] /\ IsReady(latest, t)'
    <3>1. ready' = Append(ready, t) /\ pending' = [pending EXCEPT ![t] = TRUE]
      BY <1>1, <1>8, <2>1 DEF t
    <3>2. /\ Len(ready') = Len(ready) + 1
          /\ \A i \in 1..Len(ready) : ready'[i] = ready[i]
          /\ ready'[Len(ready) + 1] = t
      BY <1>2, <3>1, AppendProperties
    <3>3. \A i \in 1..Len(ready) : ready[i] # t
      BY <1>2, <1>10, <2>1 DEF InQueue
    <3>4. \A i, j \in 1..Len(ready') : ready'[i] = ready'[j] => i = j
      BY <1>11, <3>2, <3>3
    <3>5. \A n \in Node : InQueue(n)' <=> InQueue(n) \/ n = t
      <4> SUFFICES ASSUME NEW n \in Node PROVE InQueue(n)' <=> InQueue(n) \/ n = t
        OBVIOUS
      <4>1. ASSUME NEW i \in 1..Len(ready'), ready'[i] = n PROVE InQueue(n) \/ n = t
        <5>1. i = Len(ready) + 1 \/ i \in 1..Len(ready)
          BY <3>2
        <5> QED
          BY <3>2, <4>1, <5>1 DEF InQueue
      <4>2. ASSUME NEW i \in 1..Len(ready), ready[i] = n PROVE InQueue(n)'
        <5>1. i \in 1..Len(ready') /\ ready'[i] = n
          BY <3>2, <4>2
        <5> QED
          BY <5>1 DEF InQueue
      <4>3. ASSUME n = t PROVE InQueue(n)'
        <5>1. Len(ready) + 1 \in 1..Len(ready')
          BY <3>2
        <5> QED
          BY <3>2, <4>3, <5>1 DEF InQueue
      <4> QED
        BY <4>1, <4>2, <4>3 DEF InQueue
    <3>6. \A n \in Node : pending'[n] <=> InQueue(n)'
      BY <1>2, <1>10, <3>1, <3>5
    <3>7. \A n \in Node : InQueue(n)' <=> IsReady(latest, n)'
      BY <1>5, <1>9, <2>1, <3>5
    <3> QED
      BY <3>4, <3>6, <3>7 DEF QueueExact
  <2>2. CASE pending[t] \/ ~ IsReady(latest, t)'
    <3>1. UNCHANGED <<ready, pending>>
      BY <1>1, <1>8, <2>2 DEF t
    <3>2. \A n \in Node : InQueue(n)' <=> InQueue(n)
      BY <3>1 DEF InQueue
    <3>3. InQueue(t) <=> IsReady(latest, t)'
      BY <1>2, <1>7, <1>9, <1>10, <2>2
    <3>4. \A n \in Node : InQueue(n)' <=> IsReady(latest, n)'
      BY <1>5, <1>9, <3>2, <3>3
    <3>5. \A n \in Node : pending'[n] <=> InQueue(n)'
      BY <1>10, <3>1, <3>2
    <3> QED
      BY <1>11, <3>1, <3>4, <3>5 DEF QueueExact
  <2> QED
    BY <2>1, <2>2
<1> QED
  BY <1>3, <1>12, <1>13 DEF QueueInv, Unseeded, Firing

(* Every step keeps the invariant of the queue.                             *)
LEMMA QueueStep == TypeOK /\ QueueInv /\ [Next]_vars => QueueInv'
<1> SUFFICES ASSUME TypeOK, QueueInv, [Next]_vars PROVE QueueInv'
  OBVIOUS
<1> USE DEF shared, rows, graph, clocks, history, Stop, Ended, Unseeded, Firing
<1>1. CASE Preflight \/ CreateRun
  BY <1>1, QueueFrame DEF Preflight, CreateRun
<1>2. CASE CountRun
  <2>1. CASE pc' = "loop"
    BY <1>2, <2>1, QueueSeeded DEF CountRun
  <2>2. CASE pc' # "loop"
    BY <1>2, <2>2, QueueFrame DEF CountRun
  <2> QED
    BY <2>1, <2>2
<1>3. CASE StopAtEmptyQueue \/ StopAtStepCap \/ StopAtDeadline \/ StopAtKillSwitch
  BY <1>3, QueueFrame DEF StopAtEmptyQueue, StopAtStepCap, StopAtDeadline, StopAtKillSwitch
<1>4. CASE StartStep \/ Invoke
  BY <1>4, QueueFrame DEF StartStep, Invoke
<1>5. CASE PersistStep \/ ChargeStep
  BY <1>5, QueueFrame DEF PersistStep, ChargeStep
<1>6. CASE RecordTrade \/ Finalize
  BY <1>6, QueueFrame DEF RecordTrade, Finalize
<1>7. CASE EndTurn
  <2>1. pc = "propagate" /\ pc' = "loop" /\ cur' = 0 /\ Held = 0 /\ Held' = 0
        /\ UNCHANGED <<ready, latest, lastFired, pending, seq>>
    BY <1>7 DEF EndTurn, Held
  <2>2. \A n \in Node : InQueue(n)' <=> InQueue(n)
    BY <2>1 DEF InQueue
  <2>3. \A n \in Node : pending'[n] <=> InQueue(n)'
    <3>1. pending' = pending /\ \A n \in Node : pending[n] <=> InQueue(n)
      BY <2>1 DEF QueueInv, QueueExact
    <3> QED
      BY <2>2, <3>1, Zenon
  <2>4. \A n \in Node : InQueue(n)' <=> IsReady(latest, n)'
    <3>1. \A n \in Node : InQueue(n) <=> IsReady(latest, n)
      BY <2>1, NodePositive DEF QueueInv, QueueExact
    <3>2. \A n \in Node : IsReady(latest, n)' <=> IsReady(latest, n)
      BY <2>1 DEF IsReady, Present
    <3> QED
      BY <2>2, <3>1, <3>2
  <2>5. \A i, j \in 1..Len(ready') : ready'[i] = ready'[j] => i = j
    BY <2>1 DEF QueueInv, QueueExact
  <2>6. QueueExact'
    BY <2>3, <2>4, <2>5 DEF QueueExact
  <2> QED
    BY <2>1, <2>6 DEF QueueInv
<1>8. CASE Crash \/ Environment
  BY <1>8, QueueFrame DEF Crash, Environment
<1>9. CASE UNCHANGED vars
  BY <1>9, QueueFrame DEF vars
<1> QED
  BY <1>1, <1>2, <1>3, <1>4, <1>5, <1>6, <1>7, <1>8, <1>9, QueuePopped, QueueSettled,
     QueueArrival DEF Next, Run

----------------------------------------------------------------------------
(* What appending a paper trade does to the set of traded steps.            *)
LEMMA TradedAppend ==
  ASSUME TypeOK, trades' \in {trades, Append(trades, NewTrade)}
  PROVE  /\ Traded \subseteq Traded' /\ Traded' \subseteq Traded \cup {Len(steps)}
         /\ trades' = Append(trades, NewTrade) => Traded' = Traded \cup {Len(steps)}
<1> DEFINE TradeRow == [step : Nat, status : {"open", "abstained"}]
<1>1. trades \in Seq(TradeRow) /\ NewTrade \in TradeRow /\ NewTrade.step = Len(steps)
  BY LenProperties DEF TypeOK, NewTrade
<1>2. /\ Len(trades) \in Nat
      /\ Len(Append(trades, NewTrade)) = Len(trades) + 1
      /\ \A i \in 1..Len(trades) : Append(trades, NewTrade)[i] = trades[i]
      /\ Append(trades, NewTrade)[Len(trades) + 1] = NewTrade
  BY <1>1, AppendProperties, LenProperties
<1> HIDE DEF TradeRow
<1>3. CASE trades' = trades
  <2>1. Traded' = Traded
    BY <1>3 DEF Traded
  <2> QED
    BY <1>1, <1>2, <1>3, <2>1
<1>4. CASE trades' = Append(trades, NewTrade)
  <2>1. Len(trades') = Len(trades) + 1
    BY <1>2, <1>4
  <2>2. \A i \in 1..Len(trades) : trades'[i].step = trades[i].step
    BY <1>2, <1>4
  <2>3. trades'[Len(trades) + 1].step = Len(steps)
    BY <1>1, <1>2, <1>4
  <2>4. \A i \in 1..Len(trades') : i \in 1..Len(trades) \/ i = Len(trades) + 1
    BY <1>2, <2>1
  <2>5. \A i \in 1..Len(trades) : i \in 1..Len(trades')
    BY <1>2, <2>1
  <2>6. Len(trades) + 1 \in 1..Len(trades')
    BY <1>2, <2>1
  <2>7. Traded' \subseteq Traded \cup {Len(steps)}
    BY <2>2, <2>3, <2>4 DEF Traded
  <2>8. Traded \subseteq Traded' /\ Len(steps) \in Traded'
    BY <2>2, <2>3, <2>5, <2>6 DEF Traded
  <2> QED
    BY <2>7, <2>8
<1> QED
  BY <1>3, <1>4

(* Every step keeps what the rows of the run look like.                     *)
LEMMA RowsStep == TypeOK /\ QueueInv /\ RowsInv /\ [Next]_vars => RowsInv'
<1> SUFFICES ASSUME TypeOK, QueueInv, RowsInv, [Next]_vars PROVE RowsInv'
  OBVIOUS
<1> USE DEF shared, rows, graph, clocks, history, Stop, Ended, Unseeded, Firing,
            Completed, LastOpen, AllCompleted
<1>0. Len(steps) \in Nat /\ steps \in Seq(Row)
  BY LenProperties DEF TypeOK
<1>1. CASE Preflight \/ CreateRun
  BY <1>1 DEF Preflight, CreateRun, RowsInv, Traded
<1>2. CASE CountRun
  <2>1. Len(steps) = 0 /\ UNCHANGED <<steps, trades, runStatus>> /\ runStatus = "running"
    BY <1>2, EmptySeq DEF CountRun, RowsInv
  <2>2. pc' = "loop" \/ (pc' = "final" /\ outcome' \in {"failed", "quota_exceeded"})
    BY <1>2 DEF CountRun
  <2> QED
    BY <2>1, <2>2 DEF RowsInv, Traded
<1>3. CASE StopAtEmptyQueue \/ StopAtStepCap \/ StopAtDeadline \/ StopAtKillSwitch
  <2>1. /\ pc = "loop" /\ pc' = "final" /\ UNCHANGED <<steps, trades, runStatus>>
        /\ outcome' \in Outcomes
    BY <1>3 DEF StopAtEmptyQueue, StopAtStepCap, StopAtDeadline, StopAtKillSwitch, MayFire,
                Outcomes
  <2> QED
    BY <2>1 DEF RowsInv, Traded, Outcomes
<1>4. CASE TakeNode
  BY <1>4 DEF TakeNode, MayFire, RowsInv, Traded
<1>5. CASE StartStep
  <2>1. /\ Append(steps, NewStep) \in Seq(Row)
        /\ Append(steps, NewStep) # <<>>
        /\ Len(Append(steps, NewStep)) = Len(steps) + 1
        /\ \A i \in 1..Len(steps) : Append(steps, NewStep)[i] = steps[i]
        /\ Append(steps, NewStep)[Len(steps) + 1] = NewStep
        /\ NewStep.status = "running"
    BY <1>0, <1>5, NewStepRow, AppendProperties DEF StartStep, QueueInv
  <2>2. /\ pc = "start" /\ UNCHANGED <<trades, runStatus>> /\ Traded' = Traded
        /\ \/ steps' = Append(steps, NewStep) /\ pc' = "invoke"
           \/ steps' \in {steps, Append(steps, NewStep)} /\ pc' = "final" /\ outcome' = "failed"
    BY <1>5 DEF StartStep, Traded
  <2>3. AllCompleted /\ runStatus = "running" /\ \A k \in Traded : k <= Len(steps)
    BY <2>2 DEF RowsInv
  <2>4. \A k \in Traded : k <= Len(steps')
    <3>0. trades \in Seq([step : Nat, status : {"open", "abstained"}])
      BY DEF TypeOK
    <3>a. \A i \in 1..Len(trades) : trades[i] \in [step : Nat, status : {"open", "abstained"}]
      BY <3>0, ElementOfSeq
    <3>1. Traded \subseteq Int
      BY <3>a DEF Traded
    <3> QED
      BY <1>0, <2>1, <2>2, <2>3, <3>1
  <2>5. \A i \in 1..(Len(steps') - 1) : steps'[i].status = "completed"
    BY <1>0, <2>1, <2>2, <2>3
  <2>6. CASE pc' = "final"
    BY <2>2, <2>3, <2>4, <2>5, <2>6 DEF RowsInv
  <2>7. CASE pc' = "invoke"
    <3>1. Len(steps') \notin Traded
      BY <1>0, <2>1, <2>2, <2>3, <2>7
    <3>2. steps' # <<>> /\ steps'[Len(steps')].status = "running"
      BY <1>0, <2>1, <2>2, <2>7
    <3> QED
      BY <2>2, <2>3, <2>4, <2>5, <2>7, <3>1, <3>2 DEF RowsInv
  <2> QED
    BY <2>2, <2>6, <2>7
<1>6. CASE Invoke
  BY <1>6 DEF Invoke, RowsInv, Traded
<1>7. CASE PersistStep
  <2>1. /\ pc = "persist" /\ UNCHANGED <<trades, runStatus, result>> /\ Traded' = Traded
        /\ \/ steps' = Finished /\ pc' = "charge"
           \/ steps' \in {steps, Finished} /\ pc' = "final" /\ outcome' = "failed"
    BY <1>7 DEF PersistStep, Traded
  <2>2. /\ steps # <<>> /\ runStatus = "running"
        /\ \A i \in 1..(Len(steps) - 1) : steps[i].status = "completed"
        /\ Len(steps) \notin Traded /\ \A k \in Traded : k <= Len(steps)
    BY <2>1 DEF RowsInv
  <2>3. /\ Len(Finished) = Len(steps) /\ Finished # <<>>
        /\ \A i \in 1..Len(steps) :
             Finished[i].status = IF i = Len(steps) THEN StepStatus ELSE steps[i].status
        /\ Len(steps) >= 1
    BY <1>0, <2>2, FinishedRows, EmptySeq
  <2>4. Len(steps') = Len(steps)
    BY <2>1, <2>3
  <2>5. \A i \in 1..(Len(steps') - 1) : steps'[i].status = "completed"
    BY <1>0, <2>1, <2>2, <2>3, <2>4
  <2>6. CASE pc' = "final"
    BY <2>1, <2>2, <2>4, <2>5, <2>6 DEF RowsInv
  <2>7. CASE pc' = "charge"
    <3>1. steps' # <<>> /\ steps'[Len(steps')].status = StepStatus
      BY <1>0, <2>1, <2>3, <2>4, <2>7
    <3>2. StepStatus' = StepStatus
      BY <2>1 DEF StepStatus
    <3> QED
      BY <2>1, <2>2, <2>4, <2>5, <2>7, <3>1, <3>2 DEF RowsInv
  <2> QED
    BY <2>1, <2>6, <2>7
<1>8. CASE ChargeStep
  <2>1. /\ pc = "charge" /\ UNCHANGED <<steps, trades, runStatus, result>>
        /\ pc' = "settle" \/ (pc' = "final" /\ outcome' = "quota_exceeded")
    BY <1>8 DEF ChargeStep
  <2>2. Traded' = Traded /\ StepStatus' = StepStatus
    BY <2>1 DEF Traded, StepStatus
  <2> QED
    BY <2>1, <2>2 DEF RowsInv
<1>9. CASE Settle
  <2>1. /\ pc = "settle" /\ UNCHANGED <<steps, trades, runStatus>> /\ Traded' = Traded
        /\ \/ result.err # "none" /\ pc' = "final" /\ outcome' = result.err
           \/ result.err = "none" /\ pc' \in {"trade", "propagate"}
    BY <1>9 DEF Settle, Traded
  <2>2. /\ steps # <<>> /\ runStatus = "running" /\ steps[Len(steps)].status = StepStatus
        /\ \A i \in 1..(Len(steps) - 1) : steps[i].status = "completed"
        /\ Len(steps) \notin Traded /\ \A k \in Traded : k <= Len(steps)
    BY <2>1 DEF RowsInv
  <2>3. \A i \in 1..Len(steps) : steps[i].status \in {"completed", StepStatus}
    <3> SUFFICES ASSUME NEW i \in 1..Len(steps) PROVE steps[i].status \in {"completed", StepStatus}
      OBVIOUS
    <3>1. i = Len(steps) \/ i \in 1..(Len(steps) - 1)
      BY <1>0
    <3> QED
      BY <2>2, <3>1
  <2>4. CASE result.err # "none"
    <3>1. result.err \in {"failed", "timed_out"}
      BY <2>4 DEF TypeOK
    <3>2. StepStatus = result.err
      BY <2>4 DEF StepStatus
    <3> QED
      BY <2>1, <2>2, <2>3, <2>4, <3>1, <3>2 DEF RowsInv
  <2>5. CASE result.err = "none"
    <3>1. StepStatus = "completed"
      BY <2>5 DEF StepStatus
    <3> QED
      BY <2>1, <2>2, <2>3, <2>5, <3>1 DEF RowsInv
  <2> QED
    BY <2>4, <2>5
<1>10. CASE RecordTrade
  <2>1. /\ pc = "trade" /\ pc' = "propagate" /\ UNCHANGED <<steps, runStatus>>
        /\ trades' \in {trades, Append(trades, NewTrade)}
    BY <1>10 DEF RecordTrade
  <2>2. Traded' \subseteq Traded \cup {Len(steps)}
    BY <2>1, TradedAppend
  <2>3. /\ steps # <<>> /\ runStatus = "running" /\ AllCompleted
        /\ \A k \in Traded : k <= Len(steps)
        /\ \A i \in 1..(Len(steps) - 1) : steps[i].status = "completed"
    BY <2>1 DEF RowsInv
  <2>4. \A k \in Traded' : k <= Len(steps)
    BY <1>0, <2>2, <2>3
  <2> QED
    BY <2>1, <2>3, <2>4 DEF RowsInv
<1>11. CASE Propagate \/ EndTurn
  BY <1>11 DEF Propagate, EndTurn, RowsInv, Traded
<1>12. CASE Finalize
  BY <1>12 DEF Finalize, RowsInv, Traded
<1>13. CASE Crash
  BY <1>13 DEF Crash, RowsInv, Traded
<1>14. CASE Environment \/ UNCHANGED vars
  <2>1. UNCHANGED <<pc, runStatus, steps, trades, outcome, result>>
    BY <1>14 DEF Environment, vars
  <2>2. Traded' = Traded /\ StepStatus' = StepStatus
    BY <2>1 DEF Traded, StepStatus
  <2> QED
    BY <2>1, <2>2 DEF RowsInv
<1> QED
  BY <1>1, <1>2, <1>3, <1>4, <1>5, <1>6, <1>7, <1>8, <1>9, <1>10, <1>11, <1>12, <1>13,
     <1>14 DEF Next, Run

(* The initial states satisfy the inductive invariant.                      *)
LEMMA InvInit == Init => IInv
<1> SUFFICES ASSUME Init PROVE IInv
  OBVIOUS
<1>1. TypeOK
  <2>1. steps \in Seq(Row) /\ trades \in Seq([step : Nat, status : {"open", "abstained"}])
        /\ ready \in Seq(Node)
    BY EmptySeq DEF Init
  <2>2. result \in Result
    BY EmptyResult DEF Init
  <2>3. latest \in [Node -> [Key -> [seq : Nat, iter : Nat]]]
    BY DEF Init
  <2>4. usage \in [runs : Nat, cost : Nat] /\ cur \in Key
    BY DEF Init, Key, Seed
  <2> QED
    BY <2>1, <2>2, <2>3, <2>4 DEF Init, TypeOK, Result
<1>2. QueueInv
  <2>1. ready = <<>> /\ Len(ready) = 0 /\ \A n \in Node : ~ pending[n]
    BY DEF Init
  <2>2. \A n \in Node, u \in Key : latest[n][u].seq = 0
    BY DEF Init
  <2>3. \A n \in Node : ~ InQueue(n) /\ ~ IsReady(latest, n)
    BY <2>1, <2>2 DEF InQueue, IsReady, Present
  <2>4. QueueExact
    BY <2>1, <2>3 DEF QueueExact
  <2> QED
    BY <2>1, <2>2, <2>4 DEF Init, QueueInv, Unseeded, Firing
<1>3. RowsInv
  BY DEF Init, RowsInv, Unseeded, Firing, Completed, AllCompleted, LastOpen, Traded
<1> QED
  BY <1>1, <1>2, <1>3 DEF IInv

(* Every step keeps the inductive invariant.                                *)
LEMMA InvNext == IInv /\ [Next]_vars => IInv'
BY TypeStep, QueueStep, RowsStep DEF IInv

(* Executor.Run keeps its inductive invariant: the types, what is on the    *)
(* ready queue, and what the rows look like at each statement.              *)
THEOREM RunInvariant == Spec => []IInv
BY InvInit, InvNext, PTL DEF Spec

(* The ready queue loses no wake-up and invents none, whatever the workflow,*)
(* its outputs, the failing calls and the outside events.                   *)
THEOREM QueueIsExact == Spec => []QueueExact
<1>1. IInv => QueueExact
  BY DEF IInv, QueueInv
<1> QED
  BY <1>1, RunInvariant, PTL
----------------------------------------------------------------------------
(* The rows as module RunLifecycle sees them.                               *)
StepLog == [i \in 1..Len(steps) |-> steps[i].status]
Statuses == {"running", "completed", "failed", "timed_out"}

(* The domain of a sequence determines its length.                          *)
LEMMA IntervalLength == \A m, n \in Nat : 1..m = 1..n => m = n
<1> SUFFICES ASSUME NEW m \in Nat, NEW n \in Nat, 1..m = 1..n PROVE m = n
  OBVIOUS
<1>1. m = 0 \/ m \in 1..n
  OBVIOUS
<1>2. n = 0 \/ n \in 1..m
  OBVIOUS
<1> QED
  BY <1>1, <1>2

(* The statuses of a sequence of rows are a sequence of the same length.    *)
LEMMA LogOf ==
  ASSUME NEW rs \in Seq(Row)
  PROVE  LET log == [i \in 1..Len(rs) |-> rs[i].status]
         IN log \in Seq(Statuses) /\ Len(log) = Len(rs)
<1> DEFINE log == [i \in 1..Len(rs) |-> rs[i].status]
<1>1. Len(rs) \in Nat
  BY LenProperties
<1>2. \A i \in 1..Len(rs) : rs[i] \in Row
  BY ElementOfSeq
<1>3. log \in [1..Len(rs) -> Statuses]
  BY <1>2 DEF Row, Statuses
<1>4. log \in Seq(Statuses)
  BY <1>1, <1>3, SeqDef
<1>5. 1..Len(log) = 1..Len(rs) /\ Len(log) \in Nat
  <2>1. DOMAIN log = 1..Len(log) /\ Len(log) \in Nat
    BY <1>4, LenProperties
  <2>2. DOMAIN log = 1..Len(rs)
    OBVIOUS
  <2> QED
    BY <2>1, <2>2
<1>6. Len(log) = Len(rs)
  BY <1>1, <1>5, IntervalLength
<1> QED
  BY <1>4, <1>6

(* What the abstract run sees of the rows.                                  *)
LEMMA LogFacts ==
  ASSUME TypeOK
  PROVE  /\ StepLog \in Seq(Statuses) /\ Len(StepLog) = Len(steps) /\ Len(steps) \in Nat
         /\ \A i \in 1..Len(steps) : StepLog[i] = steps[i].status
<1>1. steps \in Seq(Row)
  BY DEF TypeOK
<1> QED
  BY <1>1, LogOf, LenProperties DEF StepLog

(* A run without steps has an empty log.                                    *)
LEMMA InitRefines == Init => Lifecycle!Init
<1> SUFFICES ASSUME Init PROVE Lifecycle!Init
  OBVIOUS
<1>1. TypeOK
  BY InvInit DEF IInv
<1>2. Len(steps) = 0 /\ Len(trades) = 0
  BY EmptySeq DEF Init
<1>3. StepLog = <<>>
  BY <1>1, <1>2, LogFacts, EmptySeq
<1>4. Traded = {}
  BY <1>2 DEF Traded
<1> QED
  BY <1>3, <1>4 DEF Init, Lifecycle!Init, StepLog, Traded

(* A step that begins appends a running entry to the log.                   *)
LEMMA LogAppended ==
  ASSUME TypeOK, TypeOK', cur \in Node, steps' = Append(steps, NewStep)
  PROVE  StepLog' = Append(StepLog, "running")
<1>1. /\ StepLog \in Seq(Statuses) /\ Len(StepLog) = Len(steps) /\ Len(steps) \in Nat
      /\ \A i \in 1..Len(steps) : StepLog[i] = steps[i].status
  BY LogFacts
<1>2. steps \in Seq(Row) /\ NewStep \in Row /\ NewStep.status = "running"
  BY NewStepRow DEF TypeOK
<1>3. /\ Append(steps, NewStep) \in Seq(Row)
      /\ Len(Append(steps, NewStep)) = Len(steps) + 1
      /\ \A i \in 1..Len(steps) : Append(steps, NewStep)[i] = steps[i]
      /\ Append(steps, NewStep)[Len(steps) + 1] = NewStep
  BY <1>2, AppendProperties
<1>4. StepLog' \in Seq(Statuses) /\ Len(StepLog') = Len(steps) + 1
      /\ StepLog' = [i \in 1..Len(steps') |-> steps'[i].status]
  BY <1>3, LogOf DEF StepLog
<1>5. "running" \in Statuses
  BY DEF Statuses
<1>6. /\ Append(StepLog, "running") \in Seq(Statuses)
      /\ Len(Append(StepLog, "running")) = Len(steps) + 1
      /\ \A i \in 1..Len(steps) : Append(StepLog, "running")[i] = StepLog[i]
      /\ Append(StepLog, "running")[Len(steps) + 1] = "running"
  BY <1>1, <1>5, AppendProperties
<1>7. \A i \in 1..(Len(steps) + 1) : StepLog'[i] = Append(StepLog, "running")[i]
  <2> SUFFICES ASSUME NEW i \in 1..(Len(steps) + 1)
               PROVE  StepLog'[i] = Append(StepLog, "running")[i]
    OBVIOUS
  <2>1. StepLog'[i] = steps'[i].status
    BY <1>3, <1>4
  <2>2. CASE i \in 1..Len(steps)
    BY <1>1, <1>3, <1>6, <2>1, <2>2
  <2>3. CASE i = Len(steps) + 1
    BY <1>2, <1>3, <1>6, <2>1, <2>3
  <2> QED
    BY <1>1, <2>2, <2>3
<1> QED
  BY <1>4, <1>6, <1>7, SeqEqual

(* A step that ends replaces the last entry of the log.                     *)
LEMMA LogFinished ==
  ASSUME TypeOK, steps # <<>>, steps' = Finished
  PROVE  StepLog' = [StepLog EXCEPT ![Len(StepLog)] = StepStatus]
<1>1. /\ StepLog \in Seq(Statuses) /\ Len(StepLog) = Len(steps) /\ Len(steps) \in Nat
      /\ \A i \in 1..Len(steps) : StepLog[i] = steps[i].status
  BY LogFacts
<1>2. /\ Len(Finished) = Len(steps)
      /\ \A i \in 1..Len(steps) :
           Finished[i].status = IF i = Len(steps) THEN StepStatus ELSE steps[i].status
  BY FinishedRows
<1>3. StepLog' = [i \in 1..Len(steps) |-> Finished[i].status]
  BY <1>2 DEF StepLog
<1>4. StepLog' = [i \in 1..Len(steps) |->
                    IF i = Len(steps) THEN StepStatus ELSE StepLog[i]]
  BY <1>1, <1>2, <1>3
<1>5. DOMAIN StepLog = 1..Len(steps)
  BY DEF StepLog
<1> QED
  BY <1>1, <1>4, <1>5

(* Every step of the engine is a step of the lifecycle or leaves its rows   *)
(* as they are.                                                             *)
LEMMA StepRefines == IInv /\ IInv' /\ [Next]_vars => [Lifecycle!Next]_(Lifecycle!vars)
<1> SUFFICES ASSUME IInv, IInv', [Next]_vars
             PROVE  [Lifecycle!Next]_(Lifecycle!vars)
  OBVIOUS
<1> USE DEF shared, rows, graph, clocks, history, Stop, Ended, Unseeded, Firing
<1>a. TypeOK /\ TypeOK' /\ QueueInv /\ RowsInv
  BY DEF IInv
<1>b. /\ StepLog \in Seq(Statuses) /\ Len(StepLog) = Len(steps) /\ Len(steps) \in Nat
      /\ \A i \in 1..Len(steps) : StepLog[i] = steps[i].status
  BY <1>a, LogFacts
<1>c. ASSUME UNCHANGED <<runStatus, steps, trades>>
      PROVE  UNCHANGED Lifecycle!vars
  BY <1>c DEF Lifecycle!vars
<1>1. CASE CreateRun
  <2>1. runStatus = "none" /\ UNCHANGED <<steps, trades>> /\ runStatus' \in {"none", "running"}
    BY <1>a, <1>1 DEF CreateRun, RowsInv
  <2>2. CASE runStatus' = "running"
    BY <2>1, <2>2 DEF Lifecycle!Next, Lifecycle!Begin
  <2> QED
    BY <1>c, <2>1, <2>2
<1>2. CASE StartStep
  <2>1. /\ cur \in Node /\ UNCHANGED <<runStatus, trades>> /\ Traded' = Traded
        /\ steps' \in {steps, Append(steps, NewStep)}
    BY <1>a, <1>2 DEF StartStep, QueueInv, Traded
  <2>2. /\ runStatus = "running"
        /\ \A i \in 1..Len(steps) : steps[i].status = "completed"
    BY <1>a, <1>2 DEF StartStep, RowsInv, AllCompleted, Completed
  <2>3. CASE steps' = Append(steps, NewStep)
    <3>1. StepLog' = Append(StepLog, "running")
      BY <1>a, <2>1, <2>3, LogAppended
    <3>2. \A i \in 1..Len(StepLog) : StepLog[i] = "completed"
      BY <1>b, <2>2
    <3>3. Lifecycle!AllCompleted
      BY <3>2 DEF Lifecycle!AllCompleted, StepLog
    <3>4. Lifecycle!BeginStep
      BY <2>1, <2>2, <3>1, <3>3 DEF Lifecycle!BeginStep, StepLog, Traded
    <3> QED
      BY <3>4 DEF Lifecycle!Next
  <2> QED
    BY <1>c, <2>1, <2>3
<1>3. CASE PersistStep
  <2>1. /\ UNCHANGED <<runStatus, trades>> /\ Traded' = Traded
        /\ steps' \in {steps, Finished}
    BY <1>3 DEF PersistStep, Traded
  <2>2. /\ runStatus = "running"
        /\ steps # <<>> /\ steps[Len(steps)].status = "running"
    BY <1>a, <1>3 DEF PersistStep, RowsInv, LastOpen
  <2>3. CASE steps' = Finished
    <3>1. StepLog' = [StepLog EXCEPT ![Len(StepLog)] = StepStatus]
      BY <1>a, <2>2, <2>3, LogFinished
    <3>2. StepStatus \in {"completed", "failed", "timed_out"}
      BY <1>a DEF TypeOK, StepStatus
    <3>3. Len(steps) # 0
      BY <1>a, <2>2, EmptySeq DEF TypeOK
    <3>4. StepLog # <<>> /\ StepLog[Len(StepLog)] = "running"
      BY <1>b, <2>2, <3>3, EmptySeq
    <3>5. Lifecycle!EndStep
      BY <2>1, <2>2, <3>1, <3>2, <3>4 DEF Lifecycle!EndStep, StepLog, Traded
    <3> QED
      BY <3>5 DEF Lifecycle!Next
  <2> QED
    BY <1>c, <2>1, <2>3
<1>4. CASE RecordTrade
  <2>1. /\ UNCHANGED <<runStatus, steps>>
        /\ trades' \in {trades, Append(trades, NewTrade)}
    BY <1>4 DEF RecordTrade
  <2>2. /\ runStatus = "running" /\ steps # <<>> /\ Len(steps) \notin Traded
        /\ \A i \in 1..Len(steps) : steps[i].status = "completed"
    BY <1>a, <1>4 DEF RecordTrade, RowsInv, AllCompleted, Completed
  <2>3. CASE trades' = Append(trades, NewTrade)
    <3>1. Traded' = Traded \cup {Len(StepLog)}
      BY <1>a, <1>b, <2>1, <2>3, TradedAppend
    <3>2. \A i \in 1..Len(StepLog) : StepLog[i] = "completed"
      BY <1>b, <2>2
    <3>3. Lifecycle!AllCompleted
      BY <3>2 DEF Lifecycle!AllCompleted, StepLog
    <3>4. Len(steps) # 0
      BY <1>a, <2>2, EmptySeq DEF TypeOK
    <3>5. StepLog # <<>> /\ Len(StepLog) \notin Traded
      BY <1>b, <2>2, <3>4, EmptySeq
    <3>6. StepLog' = StepLog
      BY <2>1 DEF StepLog
    <3>7. Lifecycle!Trade
      BY <2>1, <2>2, <3>1, <3>3, <3>5, <3>6 DEF Lifecycle!Trade, StepLog, Traded
    <3> QED
      BY <3>7 DEF Lifecycle!Next
  <2> QED
    BY <1>c, <2>1, <2>3
<1>5. CASE Finalize
  <2>1. /\ pc = "final" /\ UNCHANGED <<steps, trades>> /\ runStatus' \in {runStatus, outcome}
    BY <1>5 DEF Finalize
  <2>2. runStatus = "running" /\ outcome \in Outcomes
    BY <1>a, <2>1 DEF RowsInv, TypeOK, Outcomes
  <2>3. /\ outcome \in {"completed", "killed"} =>
             \A i \in 1..Len(steps) : steps[i].status = "completed"
        /\ outcome = "timed_out" =>
             \A i \in 1..Len(steps) : steps[i].status \in {"completed", "timed_out"}
    BY <1>a, <2>1 DEF RowsInv, AllCompleted, Completed
  <2>4. CASE runStatus' = outcome
    <3>1. outcome \in {"completed", "killed"} => Lifecycle!AllCompleted
      <4>1. outcome \in {"completed", "killed"} =>
              \A i \in 1..Len(StepLog) : StepLog[i] = "completed"
        BY <1>b, <2>3
      <4> QED
        BY <4>1 DEF Lifecycle!AllCompleted, StepLog
    <3>2. outcome = "timed_out" =>
            \A i \in 1..Len(StepLog) : StepLog[i] \in {"completed", "timed_out"}
      BY <1>b, <2>3
    <3>3. StepLog' = StepLog /\ Traded' = Traded
      BY <2>1 DEF StepLog, Traded
    <3>4. Lifecycle!End
      BY <2>2, <2>4, <3>1, <3>2, <3>3 DEF Lifecycle!End, StepLog, Traded, Outcomes
    <3> QED
      BY <3>4 DEF Lifecycle!Next
  <2> QED
    BY <1>c, <2>1, <2>4
<1>6. CASE \/ Preflight \/ CountRun \/ TakeNode \/ Invoke \/ ChargeStep \/ Settle
           \/ Propagate \/ EndTurn \/ Crash
  BY <1>c, <1>6 DEF Preflight, CountRun, TakeNode, Invoke, ChargeStep, Settle, Propagate,
                    EndTurn, Crash
<1>7. CASE StopAtEmptyQueue \/ StopAtStepCap \/ StopAtDeadline \/ StopAtKillSwitch
  BY <1>c, <1>7 DEF StopAtEmptyQueue, StopAtStepCap, StopAtDeadline, StopAtKillSwitch
<1>8. CASE Environment \/ UNCHANGED vars
  BY <1>c, <1>8 DEF Environment, vars
<1> QED
  BY <1>1, <1>2, <1>3, <1>4, <1>5, <1>6, <1>7, <1>8 DEF Next, Run

(* Whoever reads the rows of a run sees the abstract lifecycle: one step at *)
(* a time on top of completed ones, final step statuses, a trade only of    *)
(* the step that just completed, and one terminal status that agrees with   *)
(* the steps (executor.go:150-444).                                         *)
THEOREM RunImplementsLifecycle == Spec => ImplementsLifecycle
<1>1. Spec => []IInv
  BY RunInvariant
<1> QED
  BY <1>1, InitRefines, StepRefines, PTL DEF Spec, ImplementsLifecycle, Lifecycle!Spec

----------------------------------------------------------------------------
(* What a run may use up, for every workflow, every limit and every number  *)
(* of faults and outside events: time, steps, iterations, money, and steps  *)
(* after the kill switch.                                                   *)

(* The inductive invariants.  Each says what is still to come at pc.        *)
KillInv == late = 0 \/ (late = 1 /\ killSwitch /\ pc # "start")

DeadlineInv ==
  /\ now <= PerRunTimeout + PerStepTimeout
  /\ pc \in {"start", "invoke"} => now <= PerRunTimeout

(* A paid step over the cap that is not yet charged will end the run.       *)
OverspendInv ==
  /\ over <= 1 + faults
  /\ pc \in {"persist", "charge"} =>
       over <= faults \/ (result.cost > 0 /\ usage.cost > MaxCostUSDPerDay)
  /\ pc \notin {"persist", "charge", "crashed", "final", "done"} => over <= faults

(* What the usage row lacks: one step per fault, and the step in flight.    *)
InFlight == IF pc \in {"persist", "charge"} THEN result.cost ELSE 0

LedgerInv ==
  /\ usage.cost = charged + others
  /\ result.cost <= MaxStepCost
  /\ charged + InFlight <= spent
  /\ pc # "crashed" => spent <= charged + InFlight + faults * MaxStepCost
  /\ pc = "crashed" => spent <= charged + (faults + 1) * MaxStepCost

(* The rows of a node number its firings; the row of the step in flight is  *)
(* one ahead of the node's Iteration.                                       *)
RowsOf(n)   == {i \in 1..Len(steps) : steps[i].node = n}
Numbered(j) == steps[j].iter = Cardinality({i \in 1..j : steps[i].node = steps[j].node})
InStep      == {"invoke", "persist", "charge", "settle"}

StepsInv ==
  /\ Len(steps) <= stepCount /\ stepCount <= MaxStepsPerRun
  /\ pc = "start" => Len(steps) < stepCount /\ iteration[cur] < LoopLimit[cur]
  /\ \A j \in 1..Len(steps) : Numbered(j) /\ steps[j].iter <= LoopLimit[steps[j].node]
  /\ pc \in Unseeded \cup {"loop", "start", "trade", "propagate"} =>
       \A n \in Node : Cardinality(RowsOf(n)) = iteration[n]
  /\ pc \in InStep =>
       \A n \in Node : Cardinality(RowsOf(n)) = iteration[n] + (IF n = cur THEN 1 ELSE 0)

LInv == KillInv /\ DeadlineInv /\ OverspendInv /\ LedgerInv /\ StepsInv

----------------------------------------------------------------------------
(* A run begins at most one step after the switch goes on.                  *)
LEMMA KillStep == TypeOK /\ KillInv /\ [Next]_vars => KillInv'
<1> SUFFICES ASSUME TypeOK, KillInv, [Next]_vars PROVE KillInv'
  OBVIOUS
<1> USE DEF shared, rows, graph, clocks, history, Stop, Ended
<1>1. CASE Preflight \/ CreateRun \/ CountRun
  BY <1>1 DEF Preflight, CreateRun, CountRun, KillInv
<1>2. CASE StopAtEmptyQueue \/ StopAtStepCap \/ StopAtDeadline \/ StopAtKillSwitch
  BY <1>2 DEF StopAtEmptyQueue, StopAtStepCap, StopAtDeadline, StopAtKillSwitch, MayFire, KillInv
<1>3. CASE TakeNode
  <2>1. ~killSwitch /\ late' = late
    BY <1>3 DEF TakeNode
  <2> QED
    BY <2>1 DEF KillInv
<1>4. CASE StartStep
  <2>1. /\ pc = "start" /\ pc' \in {"invoke", "final"} /\ killSwitch' = killSwitch
        /\ late' = IF killSwitch /\ pc' = "invoke" THEN late + 1 ELSE late
    BY <1>4 DEF StartStep
  <2>2. late = 0
    BY <2>1 DEF KillInv
  <2> QED
    BY <2>1, <2>2 DEF KillInv
<1>5. CASE Invoke \/ PersistStep \/ ChargeStep \/ Settle \/ RecordTrade \/ Propagate \/ EndTurn
  BY <1>5 DEF Invoke, PersistStep, ChargeStep, Settle, RecordTrade, Propagate, EndTurn, KillInv
<1>6. CASE Finalize \/ Crash
  BY <1>6 DEF Finalize, Crash, KillInv
<1>7. CASE Environment
  BY <1>7 DEF Environment, FlipKillSwitch, OtherRun, KillInv
<1>8. CASE UNCHANGED vars
  BY <1>8 DEF vars, KillInv
<1> QED
  BY <1>1, <1>2, <1>3, <1>4, <1>5, <1>6, <1>7, <1>8 DEF Next, Run

(* The deadline is looked at before a step, and a step is bounded.          *)
LEMMA DeadlineStep == TypeOK /\ DeadlineInv /\ [Next]_vars => DeadlineInv'
<1> SUFFICES ASSUME TypeOK, DeadlineInv, [Next]_vars PROVE DeadlineInv'
  OBVIOUS
<1> USE DEF shared, rows, graph, clocks, history, Stop, Ended
<1>1. CASE Preflight \/ CreateRun \/ CountRun
  BY <1>1 DEF Preflight, CreateRun, CountRun, DeadlineInv
<1>2. CASE StopAtEmptyQueue \/ StopAtStepCap \/ StopAtDeadline \/ StopAtKillSwitch
  BY <1>2 DEF StopAtEmptyQueue, StopAtStepCap, StopAtDeadline, StopAtKillSwitch, DeadlineInv
<1>3. CASE TakeNode
  BY <1>3 DEF TakeNode, MayFire, DeadlineInv
<1>4. CASE StartStep
  BY <1>4 DEF StartStep, DeadlineInv
<1>5. CASE Invoke
  <2>1. PICK d \in Durations : now' = now + d /\ pc' = "persist" /\ pc = "invoke"
    BY <1>5 DEF Invoke
  <2>2. d \in Nat /\ d <= PerStepTimeout /\ PerStepTimeout \in Nat /\ PerRunTimeout \in Nat
    BY LimitAssumption
  <2> QED
    BY <2>1, <2>2 DEF DeadlineInv, TypeOK
<1>6. CASE PersistStep \/ ChargeStep \/ Settle \/ RecordTrade \/ Propagate \/ EndTurn
  BY <1>6 DEF PersistStep, ChargeStep, Settle, RecordTrade, Propagate, EndTurn, DeadlineInv
<1>7. CASE Finalize \/ Crash
  BY <1>7 DEF Finalize, Crash, DeadlineInv
<1>8. CASE Environment \/ UNCHANGED vars
  BY <1>8 DEF Environment, vars, DeadlineInv
<1> QED
  BY <1>1, <1>2, <1>3, <1>4, <1>5, <1>6, <1>7, <1>8 DEF Next, Run

(* What an Invoke costs, whatever it returns.                               *)
LEMMA InvokeCost ==
  Invoke => \E c \in StepCosts :
              /\ result'.cost = c
              /\ spent' = spent + c
              /\ over' = IF c > 0 /\ usage.cost > MaxCostUSDPerDay THEN over + 1 ELSE over
<1> SUFFICES ASSUME Invoke
             PROVE  \E c \in StepCosts :
                      /\ result'.cost = c
                      /\ spent' = spent + c
                      /\ over' = IF c > 0 /\ usage.cost > MaxCostUSDPerDay THEN over + 1 ELSE over
  OBVIOUS
<1>1. PICK c \in StepCosts, d \in Durations :
        /\ \/ \E o \in Outputs[cur] : result' = [err |-> "none", cost |-> c, out |-> o]
           \/ result' = [NoResult EXCEPT !.err = "failed", !.cost = c]
           \/ d = PerStepTimeout /\ result' = [NoResult EXCEPT !.err = "timed_out", !.cost = c]
        /\ spent' = spent + c
        /\ over' = IF c > 0 /\ usage.cost > MaxCostUSDPerDay THEN over + 1 ELSE over
  BY Zenon DEF Invoke
<1>2. \A s : [NoResult EXCEPT !.err = s, !.cost = c].cost = c
  BY DEF NoResult
<1>3. \A o : [err |-> "none", cost |-> c, out |-> o].cost = c
  OBVIOUS
<1>4. result'.cost = c
  BY <1>1, <1>2, <1>3, Zenon
<1> QED
  BY <1>1, <1>4

(* The charge of a paid step over the cap ends the run, unless it is lost.  *)
LEMMA OverspendStep == TypeOK /\ OverspendInv /\ [Next]_vars => OverspendInv'
<1> SUFFICES ASSUME TypeOK, OverspendInv, [Next]_vars PROVE OverspendInv'
  OBVIOUS
<1> USE DEF shared, rows, graph, clocks, history, Stop, Ended, NoFault, Fault
<1>0. /\ over \in Nat /\ faults \in Nat /\ usage \in [runs : Nat, cost : Nat] /\ result.cost \in Nat
      /\ MaxCostUSDPerDay \in Nat
  BY LimitAssumption DEF TypeOK
<1>1. CASE Preflight \/ CreateRun \/ StopAtEmptyQueue \/ StopAtStepCap \/ StopAtDeadline
            \/ StopAtKillSwitch \/ TakeNode \/ Settle \/ RecordTrade \/ Propagate \/ EndTurn
            \/ StartStep \/ CountRun
  <2>1. /\ pc \notin {"persist", "charge", "crashed", "final", "done"}
        /\ pc' \notin {"persist", "charge"} /\ over' = over
        /\ faults' = faults \/ faults' = faults + 1
    <3>1. CASE Preflight \/ CreateRun \/ StopAtEmptyQueue \/ StopAtStepCap \/ StopAtDeadline
      BY <3>1 DEF Preflight, CreateRun, StopAtEmptyQueue, StopAtStepCap, StopAtDeadline
    <3>2. CASE StopAtKillSwitch \/ TakeNode
      BY <3>2 DEF StopAtKillSwitch, TakeNode, MayFire
    <3>3. CASE Settle \/ RecordTrade \/ Propagate \/ EndTurn
      BY <3>3 DEF Settle, RecordTrade, Propagate, EndTurn
    <3>4. CASE StartStep
      BY <3>4 DEF StartStep
    <3>5. CASE CountRun
      BY <3>5 DEF CountRun
    <3> QED
      BY <1>1, <3>1, <3>2, <3>3, <3>4, <3>5
  <2> QED
    BY <1>0, <2>1 DEF OverspendInv
<1>2. CASE Invoke
  <2>1. PICK c \in StepCosts :
          /\ result'.cost = c
          /\ over' = IF c > 0 /\ usage.cost > MaxCostUSDPerDay THEN over + 1 ELSE over
    BY <1>2, InvokeCost
  <2>2. pc = "invoke" /\ pc' = "persist" /\ usage' = usage /\ faults' = faults
    BY <1>2 DEF Invoke
  <2>3. over <= faults
    BY <2>2 DEF OverspendInv
  <2> QED
    BY <1>0, <2>1, <2>2, <2>3 DEF OverspendInv
<1>3. CASE PersistStep
  <2>1. /\ pc = "persist" /\ UNCHANGED <<usage, over, result>>
        /\ \/ pc' = "charge" /\ faults' = faults
           \/ pc' = "final" /\ faults' = faults + 1
    BY <1>3 DEF PersistStep
  <2> QED
    BY <1>0, <2>1 DEF OverspendInv
<1>4. CASE ChargeStep
  <2>1. pc = "charge" /\ UNCHANGED <<over, result>> /\ pc' \in {"settle", "final"}
    BY <1>4 DEF ChargeStep
  <2>2. CASE faults' = faults + 1
    BY <1>0, <2>1, <2>2 DEF OverspendInv
  <2>3. CASE faults' = faults /\ result.cost = 0
    BY <1>0, <2>1, <2>3 DEF OverspendInv
  <2>4. CASE faults' = faults /\ result.cost > 0
    <3>1. usage' = [usage EXCEPT !.cost = @ + result.cost]
          /\ (usage'.cost > MaxCostUSDPerDay => pc' = "final")
      BY <1>0, <1>4, <2>4 DEF ChargeStep
    <3>2. usage'.cost = usage.cost + result.cost
      BY <1>0, <3>1
    <3> QED
      BY <1>0, <2>1, <2>4, <3>1, <3>2 DEF OverspendInv
  <2>5. faults' = faults \/ faults' = faults + 1
    BY <1>4 DEF ChargeStep
  <2> QED
    BY <1>0, <2>2, <2>3, <2>4, <2>5
<1>5. CASE Finalize \/ Crash
  <2>1. pc' \in {"done", "crashed"} /\ over' = over /\ (faults' = faults \/ faults' = faults + 1)
    BY <1>5 DEF Finalize, Crash
  <2> QED
    BY <1>0, <2>1 DEF OverspendInv
<1>6. CASE Environment
  <2>1. UNCHANGED <<pc, over, faults, result>>
    BY <1>6 DEF Environment, FlipKillSwitch, OtherRun
  <2>2. usage' = usage \/ usage' = [usage EXCEPT !.runs = @ + 1]
        \/ \E c \in StepCosts : usage' = [usage EXCEPT !.cost = @ + c]
    BY <1>6 DEF Environment, FlipKillSwitch, OtherRun
  <2>3. usage'.cost >= usage.cost /\ usage'.cost \in Nat
    BY <1>0, <2>2, LimitAssumption
  <2> QED
    BY <1>0, <2>1, <2>3 DEF OverspendInv
<1>7. CASE UNCHANGED vars
  BY <1>7 DEF vars, OverspendInv
<1> QED
  BY <1>1, <1>2, <1>3, <1>4, <1>5, <1>6, <1>7 DEF Next, Run

(* The largest cost of a step is the cost of a step, and no step costs more.*)
LEMMA MaxStepCostIs == MaxStepCost \in Nat /\ \A c \in StepCosts : c <= MaxStepCost
BY CostAssumption, LimitAssumption DEF MaxStepCost

(* Every payment reaches the usage row, is in flight, or was cut off by a   *)
(* fault or a crash.                                                        *)
LEMMA LedgerStep == TypeOK /\ LedgerInv /\ [Next]_vars => LedgerInv'
<1> SUFFICES ASSUME TypeOK, LedgerInv, [Next]_vars PROVE LedgerInv'
  OBVIOUS
<1> USE DEF shared, rows, graph, clocks, history, Stop, Ended, NoFault, Fault
<1> DEFINE M == MaxStepCost
<1>0. /\ spent \in Nat /\ charged \in Nat /\ others \in Nat /\ faults \in Nat
      /\ usage \in [runs : Nat, cost : Nat] /\ result.cost \in Nat
  BY DEF TypeOK
<1>1. /\ M \in Nat /\ faults * M \in Nat /\ (faults + 1) * M = faults * M + M
      /\ \A c \in StepCosts : c \in Nat /\ c <= M
  <2>1. M \in Nat /\ \A c \in StepCosts : c \in Nat /\ c <= M
    BY MaxStepCostIs, LimitAssumption
  <2> HIDE DEF M
  <2>2. \A x, y \in Nat : x * y \in Nat /\ (x + 1) * y = x * y + y
    OBVIOUS
  <2> QED
    BY <1>0, <2>1, <2>2
<1> HIDE DEF M
<1>2. /\ usage.cost = charged + others /\ result.cost <= M
      /\ charged + InFlight <= spent
      /\ pc # "crashed" => spent <= charged + InFlight + faults * M
      /\ pc = "crashed" => spent <= charged + (faults + 1) * M
  BY DEF LedgerInv, M
<1>3. ASSUME usage'.cost = usage.cost, UNCHANGED <<charged, others, spent, result>>,
             faults' = faults \/ faults' = faults + 1,
             pc \notin {"persist", "charge", "crashed"}, pc' \notin {"persist", "charge", "crashed"}
      PROVE  LedgerInv'
  <2>1. InFlight = 0 /\ InFlight' = 0 /\ faults * M <= faults' * M
    BY <1>0, <1>1, <1>3 DEF InFlight
  <2> QED
    BY <1>0, <1>1, <1>2, <1>3, <2>1 DEF LedgerInv, M
<1>4. CASE Preflight \/ CreateRun \/ CountRun
  <2>1. usage'.cost = usage.cost
    BY <1>0, <1>4 DEF Preflight, CreateRun, CountRun
  <2> QED
    BY <1>3, <1>4, <2>1 DEF Preflight, CreateRun, CountRun
<1>5. CASE StopAtEmptyQueue \/ StopAtStepCap \/ StopAtDeadline \/ StopAtKillSwitch \/ TakeNode
  BY <1>3, <1>5 DEF StopAtEmptyQueue, StopAtStepCap, StopAtDeadline, StopAtKillSwitch, TakeNode,
                    MayFire
<1>6. CASE StartStep \/ Settle \/ RecordTrade \/ Propagate \/ EndTurn \/ Finalize
  BY <1>3, <1>6 DEF StartStep, Settle, RecordTrade, Propagate, EndTurn, Finalize
<1>7. CASE Invoke
  <2>1. PICK c \in StepCosts : result'.cost = c /\ spent' = spent + c
    BY <1>7, InvokeCost
  <2>2. /\ pc = "invoke" /\ pc' = "persist"
        /\ UNCHANGED <<usage, charged, others, faults>>
    BY <1>7 DEF Invoke
  <2>3. InFlight = 0 /\ InFlight' = c /\ c \in Nat /\ c <= M
    BY <1>1, <2>1, <2>2 DEF InFlight
  <2> QED
    BY <1>0, <1>1, <1>2, <2>1, <2>2, <2>3 DEF LedgerInv, M
<1>8. CASE PersistStep
  <2>1. /\ pc = "persist" /\ UNCHANGED <<usage, charged, others, spent, result>>
        /\ \/ pc' = "charge" /\ faults' = faults
           \/ pc' = "final" /\ faults' = faults + 1
    BY <1>8 DEF PersistStep
  <2>2. CASE pc' = "charge" /\ faults' = faults
    BY <1>2, <2>1, <2>2 DEF LedgerInv, InFlight, M
  <2>3. CASE pc' = "final" /\ faults' = faults + 1
    <3>1. InFlight = result.cost /\ InFlight' = 0
      BY <2>1, <2>3 DEF InFlight
    <3> QED
      BY <1>0, <1>1, <1>2, <2>1, <2>3, <3>1 DEF LedgerInv, M
  <2> QED
    BY <2>1, <2>2, <2>3
<1>9. CASE ChargeStep
  <2>1. /\ pc = "charge" /\ pc' \in {"settle", "final"} /\ UNCHANGED <<others, spent, result>>
        /\ InFlight = result.cost /\ InFlight' = 0
    BY <1>9 DEF ChargeStep, InFlight
  <2>2. CASE result.cost = 0 /\ UNCHANGED <<faults, usage, charged>>
    BY <1>0, <1>1, <1>2, <2>1, <2>2 DEF LedgerInv, M
  <2>3. CASE /\ faults' = faults /\ charged' = charged + result.cost
             /\ usage' = [usage EXCEPT !.cost = @ + result.cost]
    <3>1. usage'.cost = usage.cost + result.cost
      BY <1>0, <2>3
    <3> QED
      BY <1>0, <1>1, <1>2, <2>1, <2>3, <3>1 DEF LedgerInv, M
  <2>4. CASE /\ faults' = faults + 1 /\ charged' = charged + (usage'.cost - usage.cost)
             /\ usage' \in {usage, [usage EXCEPT !.cost = @ + result.cost]}
    <3>1. usage'.cost = usage.cost \/ usage'.cost = usage.cost + result.cost
      BY <1>0, <2>4
    <3> QED
      BY <1>0, <1>1, <1>2, <2>1, <2>4, <3>1 DEF LedgerInv, M
  <2> QED
    BY <1>9, <2>2, <2>3, <2>4 DEF ChargeStep
<1>10. CASE Crash
  <2>1. /\ pc # "crashed" /\ pc' = "crashed"
        /\ UNCHANGED <<usage, charged, others, spent, result, faults>>
    BY <1>10 DEF Crash
  <2>2. InFlight' = 0 /\ InFlight \in Nat /\ InFlight <= M
    BY <1>0, <1>1, <1>2, <2>1 DEF InFlight
  <2> QED
    BY <1>0, <1>1, <1>2, <2>1, <2>2 DEF LedgerInv, M
<1>11. CASE Environment
  <2>1. UNCHANGED <<pc, charged, spent, faults, result>> /\ InFlight' = InFlight
    BY <1>11 DEF Environment, FlipKillSwitch, OtherRun, InFlight
  <2>2. usage'.cost = charged' + others'
    <3>1. CASE UNCHANGED <<usage, others>>
      BY <1>2, <2>1, <3>1
    <3>2. CASE usage' = [usage EXCEPT !.runs = @ + 1] /\ UNCHANGED others
      BY <1>0, <1>2, <2>1, <3>2
    <3>3. CASE \E c \in StepCosts : /\ usage' = [usage EXCEPT !.cost = @ + c]
                                    /\ others' = others + c
      BY <1>0, <1>1, <1>2, <2>1, <3>3
    <3> QED
      BY <1>11, <3>1, <3>2, <3>3 DEF Environment, FlipKillSwitch, OtherRun
  <2> QED
    BY <1>2, <2>1, <2>2 DEF LedgerInv, M
<1>12. CASE UNCHANGED vars
  BY <1>12 DEF vars, LedgerInv, InFlight
<1> QED
  BY <1>4, <1>5, <1>6, <1>7, <1>8, <1>9, <1>10, <1>11, <1>12 DEF Next, Run

----------------------------------------------------------------------------
(* The rows of a node are finitely many.                                    *)
LEMMA RowsFinite ==
  ASSUME TypeOK, NEW n
  PROVE  IsFiniteSet(RowsOf(n)) /\ Cardinality(RowsOf(n)) \in Nat
<1>1. IsFiniteSet(1..Len(steps))
  BY FS_Interval, LenProperties DEF TypeOK
<1>2. RowsOf(n) \subseteq 1..Len(steps)
  BY DEF RowsOf
<1> QED
  BY <1>1, <1>2, FS_Subset, FS_CardinalityType

(* A finished row keeps its node and its number.                            *)
LEMMA FinishedNames ==
  ASSUME TypeOK, steps # <<>>
  PROVE  \A i \in 1..Len(steps) : /\ Finished[i].node = steps[i].node
                                  /\ Finished[i].iter = steps[i].iter
<1> DEFINE k == Len(steps)
           r == [steps[k] EXCEPT !.status = StepStatus, !.cost = result.cost]
<1>1. k \in 1..Len(steps) /\ steps[k] \in Row /\ DOMAIN steps = 1..Len(steps)
  BY EmptySeq, ElementOfSeq, LenProperties DEF TypeOK
<1>2. r.node = steps[k].node /\ r.iter = steps[k].iter
  BY <1>1 DEF Row
<1>3. Finished = [steps EXCEPT ![k] = r]
  BY <1>1 DEF Finished, Row, TypeOK
<1>4. \A i \in 1..Len(steps) : Finished[i] = IF i = k THEN r ELSE steps[i]
  BY <1>1, <1>3
<1> QED
  BY <1>2, <1>4

(* Rows that keep their nodes and numbers keep their numbering.             *)
LEMMA SameNumbering ==
  ASSUME StepsInv, Len(steps') = Len(steps), Len(steps) \in Nat,
         \A i \in 1..Len(steps) : /\ steps'[i].node = steps[i].node
                                  /\ steps'[i].iter = steps[i].iter
  PROVE  /\ \A j \in 1..Len(steps') : Numbered(j)' /\ steps'[j].iter <= LoopLimit[steps'[j].node]
         /\ \A n \in Node : RowsOf(n)' = RowsOf(n)
<1>1. \A n \in Node : RowsOf(n)' = RowsOf(n)
  BY DEF RowsOf
<1>2. ASSUME NEW j \in 1..Len(steps)
      PROVE  Numbered(j)' /\ steps'[j].iter <= LoopLimit[steps'[j].node]
  <2>1. {i \in 1..j : steps'[i].node = steps'[j].node} = {i \in 1..j : steps[i].node = steps[j].node}
    <3>1. \A i \in 1..j : i \in 1..Len(steps)
      BY <1>2
    <3> QED
      BY <1>2, <3>1
  <2> QED
    BY <1>2, <2>1 DEF StepsInv, Numbered
<1> QED
  BY <1>1, <1>2

(* The row of a new step takes the next number of its node.                 *)
LEMMA NextNumber ==
  ASSUME TypeOK, StepsInv, cur \in Node, steps' = Append(steps, NewStep),
         Cardinality(RowsOf(cur)) = iteration[cur], iteration[cur] < LoopLimit[cur]
  PROVE  /\ \A j \in 1..Len(steps') : Numbered(j)' /\ steps'[j].iter <= LoopLimit[steps'[j].node]
         /\ \A n \in Node : Cardinality(RowsOf(n)') = Cardinality(RowsOf(n)) + (IF n = cur THEN 1 ELSE 0)
<1> DEFINE k == Len(steps) + 1
<1>1. /\ Len(steps) \in Nat /\ Len(steps') = k
      /\ \A i \in 1..Len(steps) : steps'[i] = steps[i]
      /\ steps'[k] = NewStep
  BY NewStepRow, AppendProperties, LenProperties DEF TypeOK
<1>2. NewStep.node = cur /\ NewStep.iter = iteration[cur] + 1 /\ iteration[cur] \in Nat
      /\ LoopLimit[cur] \in Nat
  BY WorkflowAssumption DEF NewStep, TypeOK
<1>3. \A n \in Node : n # cur => RowsOf(n)' = RowsOf(n)
  BY <1>1, <1>2 DEF RowsOf
<1>4. RowsOf(cur) \cup {k} = {i \in 1..k : steps'[i].node = cur}
  BY <1>1, <1>2 DEF RowsOf
<1>5. Cardinality(RowsOf(cur) \cup {k}) = Cardinality(RowsOf(cur)) + 1
  <2>1. k \notin RowsOf(cur)
    BY <1>1 DEF RowsOf
  <2> QED
    BY <2>1, RowsFinite, FS_AddElement
<1>6. ASSUME NEW n \in Node
      PROVE  Cardinality(RowsOf(n)') = Cardinality(RowsOf(n)) + (IF n = cur THEN 1 ELSE 0)
  <2>1. CASE n = cur
    <3>1. RowsOf(n)' = RowsOf(n) \cup {k}
      BY <1>1, <1>4, <2>1 DEF RowsOf
    <3> QED
      BY <1>5, <2>1, <3>1
  <2>2. CASE n # cur
    BY <1>3, <2>2, RowsFinite
  <2> QED
    BY <2>1, <2>2
<1>7. ASSUME NEW j \in 1..Len(steps')
      PROVE  Numbered(j)' /\ steps'[j].iter <= LoopLimit[steps'[j].node]
  <2>1. CASE j = k
    <3>1. steps'[j].iter = Cardinality({i \in 1..j : steps'[i].node = steps'[j].node})
      BY <1>1, <1>2, <1>4, <1>5, <2>1
    <3>2. Numbered(j)'
      BY <3>1 DEF Numbered
    <3>3. steps'[j].iter <= LoopLimit[steps'[j].node]
      BY <1>1, <1>2, <2>1
    <3> QED
      BY <3>2, <3>3
  <2>2. CASE j \in 1..Len(steps)
    <3>1. \A i \in 1..j : i \in 1..Len(steps)
      BY <1>1, <2>2
    <3>2. {i \in 1..j : steps'[i].node = steps'[j].node} = {i \in 1..j : steps[i].node = steps[j].node}
      BY <1>1, <2>2, <3>1
    <3>3. steps'[j] = steps[j]
      BY <1>1, <2>2
    <3> QED
      BY <2>2, <3>2, <3>3 DEF StepsInv, Numbered
  <2> QED
    BY <1>1, <2>1, <2>2
<1> QED
  BY <1>6, <1>7

(* Every step keeps the numbering of the rows and the step count.           *)
LEMMA StepsStep == TypeOK /\ QueueInv /\ RowsInv /\ StepsInv /\ [Next]_vars => StepsInv'
<1> SUFFICES ASSUME TypeOK, QueueInv, RowsInv, StepsInv, [Next]_vars PROVE StepsInv'
  OBVIOUS
<1> USE DEF shared, rows, graph, clocks, history, Stop, Ended, Unseeded, Firing, InStep
<1>0. /\ Len(steps) \in Nat /\ stepCount \in Nat /\ MaxStepsPerRun \in Nat
      /\ Len(steps) <= stepCount /\ stepCount <= MaxStepsPerRun
      /\ iteration \in [Node -> Nat] /\ LoopLimit \in [Node -> Nat]
  BY LenProperties, LimitAssumption, WorkflowAssumption DEF TypeOK, StepsInv
<1>1. ASSUME steps' = steps
      PROVE  /\ \A j \in 1..Len(steps') : Numbered(j)' /\ steps'[j].iter <= LoopLimit[steps'[j].node]
             /\ \A n \in Node : RowsOf(n)' = RowsOf(n)
  BY <1>0, <1>1, SameNumbering
<1>2. CASE /\ UNCHANGED <<steps, stepCount, iteration, cur>>
           /\ \/ pc' = pc
              \/ pc' \in {"final", "done", "refused", "crashed"}
              \/ pc \in InStep /\ pc' \in InStep
              \/ pc \in Unseeded \cup {"trade", "propagate"} /\ pc' \in Unseeded \cup {"loop", "propagate"}
  BY <1>1, <1>2 DEF StepsInv
<1>3. CASE Preflight \/ CreateRun \/ CountRun
  <2>1. UNCHANGED <<steps, stepCount, iteration, cur>>
    BY <1>3 DEF Preflight, CreateRun, CountRun, SeedEntries
  <2> QED
    BY <1>2, <1>3, <2>1 DEF Preflight, CreateRun, CountRun
<1>4. CASE StopAtEmptyQueue \/ StopAtStepCap \/ StopAtDeadline \/ StopAtKillSwitch
  BY <1>2, <1>4 DEF StopAtEmptyQueue, StopAtStepCap, StopAtDeadline, StopAtKillSwitch
<1>5. CASE TakeNode
  <2>1. UNCHANGED <<steps, iteration>> /\ pc = "loop" /\ stepCount < MaxStepsPerRun
    BY <1>5 DEF TakeNode, MayFire
  <2>2. \/ pc' = "final" /\ stepCount' = stepCount
        \/ /\ pc' = "start" /\ stepCount' = stepCount + 1 /\ cur' = Head(ready)
           /\ ~(iteration[Head(ready)] + 1 > LoopLimit[Head(ready)])
    BY <1>5 DEF TakeNode
  <2>3. CASE pc' = "final" /\ stepCount' = stepCount
    BY <1>1, <2>1, <2>3 DEF StepsInv
  <2>4. CASE pc' = "start" /\ stepCount' = stepCount + 1
    <3>1. Head(ready) \in Node
      BY <1>5, HeadTailProperties DEF TakeNode, MayFire, TypeOK
    <3>2. iteration[Head(ready)] < LoopLimit[Head(ready)] /\ cur' = Head(ready)
      BY <1>0, <2>2, <2>4, <3>1
    <3>3. iteration'[cur'] < LoopLimit[cur'] /\ Len(steps') < stepCount'
          /\ stepCount' <= MaxStepsPerRun /\ Len(steps') <= stepCount'
      BY <1>0, <2>1, <2>4, <3>2
    <3>4. \A n \in Node : Cardinality(RowsOf(n)') = iteration'[n]
      BY <1>1, <2>1 DEF StepsInv
    <3> QED
      BY <1>1, <2>1, <2>4, <3>3, <3>4 DEF StepsInv
  <2> QED
    BY <2>2, <2>3, <2>4
<1>6. CASE StartStep
  <2>1. /\ pc = "start" /\ cur \in Node /\ UNCHANGED <<stepCount, iteration, cur>>
        /\ steps' \in {steps, Append(steps, NewStep)}
        /\ pc' = "final" \/ (pc' = "invoke" /\ steps' = Append(steps, NewStep))
    BY <1>6 DEF StartStep, QueueInv
  <2>2. /\ iteration[cur] < LoopLimit[cur] /\ Len(steps) < stepCount
        /\ \A n \in Node : Cardinality(RowsOf(n)) = iteration[n]
    BY <2>1 DEF StepsInv
  <2>3. CASE steps' = Append(steps, NewStep)
    <3>1. /\ \A j \in 1..Len(steps') : Numbered(j)' /\ steps'[j].iter <= LoopLimit[steps'[j].node]
          /\ \A n \in Node : Cardinality(RowsOf(n)') =
                             Cardinality(RowsOf(n)) + (IF n = cur THEN 1 ELSE 0)
      BY <2>1, <2>2, <2>3, NextNumber
    <3>2. Len(steps') = Len(steps) + 1
      BY <2>1, <2>3, NewStepRow, AppendProperties DEF TypeOK
    <3>3. Len(steps') <= stepCount' /\ stepCount' <= MaxStepsPerRun
      BY <1>0, <2>1, <2>2, <3>2
    <3>4. \A n \in Node : Cardinality(RowsOf(n)') = iteration'[n] + (IF n = cur' THEN 1 ELSE 0)
      BY <2>1, <2>2, <3>1
    <3> QED
      BY <2>1, <3>1, <3>3, <3>4 DEF StepsInv
  <2>4. CASE steps' = steps /\ pc' = "final"
    BY <1>2, <2>1, <2>4
  <2> QED
    BY <2>1, <2>3, <2>4
<1>7. CASE PersistStep
  <2>1. /\ pc = "persist" /\ pc' \in {"charge", "final"} /\ steps' \in {steps, Finished}
        /\ UNCHANGED <<stepCount, iteration, cur>>
    BY <1>7 DEF PersistStep
  <2>2. steps # <<>>
    BY <2>1 DEF RowsInv, LastOpen
  <2>3. CASE steps' = Finished
    <3>1. Len(steps') = Len(steps)
      BY <2>2, <2>3, FinishedRows
    <3>2. \A i \in 1..Len(steps) : steps'[i].node = steps[i].node /\ steps'[i].iter = steps[i].iter
      BY <2>2, <2>3, FinishedNames
    <3>3. /\ \A j \in 1..Len(steps') : Numbered(j)' /\ steps'[j].iter <= LoopLimit[steps'[j].node]
          /\ \A n \in Node : RowsOf(n)' = RowsOf(n)
      BY <1>0, <3>1, <3>2, SameNumbering
    <3> QED
      BY <1>0, <2>1, <3>1, <3>3 DEF StepsInv
  <2> QED
    BY <1>2, <2>1, <2>3
<1>8. CASE Invoke \/ ChargeStep
  BY <1>2, <1>8 DEF Invoke, ChargeStep
<1>9. CASE Settle
  <2>1. UNCHANGED <<steps, stepCount, cur>> /\ pc = "settle" /\ cur \in Node
    BY <1>9 DEF Settle, QueueInv
  <2>2. CASE pc' = "final" /\ iteration' = iteration
    BY <1>2, <2>1, <2>2
  <2>3. CASE pc' \in {"trade", "propagate"} /\ iteration' = [iteration EXCEPT ![cur] = @ + 1]
    <3>1. \A n \in Node : iteration'[n] = iteration[n] + (IF n = cur THEN 1 ELSE 0)
      BY <1>0, <2>3
    <3>2. \A n \in Node : Cardinality(RowsOf(n)') = iteration'[n]
      BY <1>1, <2>1, <3>1 DEF StepsInv
    <3> QED
      BY <1>0, <1>1, <2>1, <2>3, <3>2 DEF StepsInv
  <2> QED
    BY <1>9, <2>2, <2>3 DEF Settle
<1>10. CASE RecordTrade \/ Propagate \/ Finalize \/ Crash
  BY <1>2, <1>10 DEF RecordTrade, Propagate, Finalize, Crash
<1>11. CASE EndTurn
  <2>1. UNCHANGED <<steps, stepCount, iteration>> /\ pc = "propagate" /\ pc' = "loop"
    BY <1>11 DEF EndTurn
  <2> QED
    BY <1>0, <1>1, <2>1 DEF StepsInv
<1>12. CASE Environment \/ UNCHANGED vars
  BY <1>2, <1>12 DEF Environment, vars
<1> QED
  BY <1>3, <1>4, <1>5, <1>6, <1>7, <1>8, <1>9, <1>10, <1>11, <1>12 DEF Next, Run

(* The invariants hold of the initial states.                               *)
LEMMA LimitsInit == Init => LInv
<1> SUFFICES ASSUME Init PROVE LInv
  OBVIOUS
<1>1. KillInv /\ DeadlineInv /\ OverspendInv
  BY LimitAssumption DEF Init, KillInv, DeadlineInv, OverspendInv
<1>2. LedgerInv
  <2>1. result.cost = 0 /\ usage.cost = 0 /\ InFlight = 0
    BY DEF Init, NoResult, InFlight
  <2>2. MaxStepCost \in Nat
    BY MaxStepCostIs
  <2> QED
    BY <2>1, <2>2 DEF Init, LedgerInv
<1>3. StepsInv
  <2>1. Len(steps) = 0
    BY EmptySeq DEF Init
  <2>2. \A n \in Node : Cardinality(RowsOf(n)) = 0
    BY <2>1, FS_EmptySet DEF RowsOf
  <2> QED
    BY <2>1, <2>2, LimitAssumption DEF Init, StepsInv, InStep
<1> QED
  BY <1>1, <1>2, <1>3 DEF LInv

(* The invariants hold in every reachable state.                            *)
LEMMA LimitsInvariant == Spec => []LInv
<1>1. IInv /\ LInv /\ [Next]_vars => LInv'
  BY KillStep, DeadlineStep, OverspendStep, LedgerStep, StepsStep DEF IInv, LInv
<1> QED
  BY <1>1, LimitsInit, RunInvariant, PTL DEF Spec

(* However the switch is flipped, a run begins at most the one step it had  *)
(* already decided on (executor.go:247-268).                                *)
THEOREM KillSwitchStops == Spec => []KillStops
<1>1. LInv => KillStops
  BY DEF LInv, KillInv, KillStops
<1> QED
  BY <1>1, LimitsInvariant, PTL

(* Whatever the steps take, a run overshoots its deadline by at most one    *)
(* step timeout (executor.go:240-245, 288-294).                             *)
THEOREM DeadlineHolds == Spec => []WithinDeadline
<1>1. LInv => WithinDeadline
  BY DEF LInv, DeadlineInv, WithinDeadline
<1> QED
  BY <1>1, LimitsInvariant, PTL

(* Over the cap a run pays for one more step, and for one more per fault,   *)
(* whatever other runs charge meanwhile (executor.go:355-369).              *)
THEOREM OverspendIsBounded == Spec => []OverspendBounded
<1>1. LInv => OverspendBounded
  BY DEF LInv, OverspendInv, OverspendBounded
<1> QED
  BY <1>1, LimitsInvariant, PTL

(* What a run paid and its user was charged differ by at most one step per  *)
(* fault and one for the step in flight (executor.go:332-369).              *)
THEOREM LedgerIsExact == Spec => []LedgerExact
<1>1. IInv /\ LInv => LedgerExact
  <2> SUFFICES ASSUME TypeOK, LedgerInv PROVE LedgerExact
    BY DEF IInv, LInv
  <2> DEFINE M == MaxStepCost
  <2>1. spent \in Nat /\ charged \in Nat /\ faults \in Nat /\ M \in Nat /\ result.cost \in Nat
    BY MaxStepCostIs DEF TypeOK
  <2> HIDE DEF M
  <2>2. \A x, y \in Nat : x * y \in Nat /\ (x + 1) * y = x * y + y /\ (x + 0) * y = x * y
    OBVIOUS
  <2>3. /\ faults * M \in Nat /\ (faults + 1) * M = faults * M + M
        /\ (faults + 0) * M = faults * M
    BY <2>1, <2>2
  <2>4. /\ usage.cost = charged + others /\ result.cost <= M /\ charged + InFlight <= spent
        /\ pc # "crashed" => spent <= charged + InFlight + faults * M
        /\ pc = "crashed" => spent <= charged + (faults + 1) * M
    BY DEF LedgerInv, M
  <2>5. InFlight = (IF pc \in {"persist", "charge"} THEN result.cost ELSE 0)
    BY DEF InFlight
  <2>6. charged <= spent
    BY <2>1, <2>4, <2>5
  <2>7. CASE pc \in {"persist", "charge", "crashed"}
    <3>1. spent - charged <= (faults + 1) * M /\ Unsettled = 1
      BY <2>1, <2>3, <2>4, <2>5, <2>7 DEF Unsettled
    <3> QED
      BY <2>4, <2>6, <3>1 DEF LedgerExact, M
  <2>8. CASE pc \notin {"persist", "charge", "crashed"}
    <3>1. spent - charged <= (faults + 0) * M /\ Unsettled = 0
      BY <2>1, <2>3, <2>4, <2>5, <2>8 DEF Unsettled
    <3> QED
      BY <2>4, <2>6, <3>1 DEF LedgerExact, M
  <2> QED
    BY <2>7, <2>8
<1> QED
  BY <1>1, LimitsInvariant, RunInvariant, PTL

(* Whatever the loops do, a run has at most MaxStepsPerRun rows, and a      *)
(* node's rows are numbered 1, 2, 3, ... up to its iteration limit          *)
(* (executor.go:234-269, 371-376).                                          *)
THEOREM LimitsAlwaysHold == Spec => []LimitsHold
<1>1. IInv /\ LInv => LimitsHold
  <2> SUFFICES ASSUME TypeOK, StepsInv PROVE LimitsHold
    BY DEF IInv, LInv
  <2>1. Len(steps) <= MaxStepsPerRun
    <3>1. Len(steps) \in Nat /\ stepCount \in Nat /\ MaxStepsPerRun \in Nat
      BY LenProperties, LimitAssumption DEF TypeOK
    <3> QED
      BY <3>1 DEF StepsInv
  <2>2. \A j \in 1..Len(steps) :
          /\ steps[j].iter = Cardinality({i \in 1..j : steps[i].node = steps[j].node})
          /\ steps[j].iter <= LoopLimit[steps[j].node]
    BY Zenon DEF StepsInv, Numbered
  <2> QED
    BY <2>1, <2>2, Zenon DEF LimitsHold
<1> QED
  BY <1>1, LimitsInvariant, RunInvariant, PTL
----------------------------------------------------------------------------
(* The step rows are the books the usage row can be reconciled with: what a *)
(* charge adds is in them first, and what they show has been paid.          *)
Costs == [i \in DOMAIN steps |-> steps[i].cost]

BooksInv ==
  /\ charged <= RowCost /\ RowCost <= spent
  /\ pc = "charge" => charged + result.cost <= RowCost
  /\ pc = "persist" => RowCost + result.cost <= spent
  /\ pc \in {"invoke", "persist"} => steps[Len(steps)].cost = 0

(* The sum of the rows is one over 1..Len(steps).                           *)
RowSums ==
  /\ Len(steps) \in Nat /\ RowCost \in Nat
  /\ NatOn(Costs, 1..Len(steps))
  /\ \A i \in 1..Len(steps) : Costs[i] = steps[i].cost
  /\ RowCost = SumFunctionOnSet(Costs, 1..Len(steps))

LEMMA RowSum == TypeOK => RowSums
<1> SUFFICES ASSUME steps \in Seq(Row) PROVE RowSums
  BY DEF TypeOK
<1>1. Len(steps) \in Nat /\ DOMAIN steps = 1..Len(steps) /\ \A i \in 1..Len(steps) : steps[i] \in Row
  BY LenProperties, ElementOfSeq
<1>2. \A i \in 1..Len(steps) : Costs[i] = steps[i].cost /\ steps[i].cost \in Nat
  BY <1>1 DEF Costs, Row
<1>3. NatOn(Costs, 1..Len(steps))
  <2>1. IsFiniteSet(1..Len(steps))
    BY <1>1, FS_Interval
  <2>2. \A i \in 1..Len(steps) : Costs[i] \in Nat
    BY <1>2
  <2> QED
    BY <2>1, <2>2 DEF NatOn
<1>4. DOMAIN Costs = 1..Len(steps)
  BY <1>1 DEF Costs
<1>5. RowCost = SumFunctionOnSet(Costs, 1..Len(steps))
  BY <1>4 DEF RowCost, Costs, SumFunction
<1>6. RowCost \in Nat
  BY <1>3, <1>5, SumRemove
<1> QED
  BY <1>1, <1>2, <1>3, <1>5, <1>6 DEF RowSums

(* The same of the rows after a step.                                       *)
LEMMA RowSumNext == TypeOK' => RowSums'
BY RowSum, PTL

(* A running row costs nothing yet.                                         *)
LEMMA RowAppended ==
  ASSUME TypeOK, TypeOK', cur \in Node, steps' = Append(steps, NewStep)
  PROVE  RowCost' = RowCost /\ steps'[Len(steps')].cost = 0
<1> DEFINE n == Len(steps)
<1>1. n \in Nat /\ Len(steps') = n + 1 /\ steps'[n + 1] = NewStep /\ \A i \in 1..n : steps'[i] = steps[i]
  BY NewStepRow, AppendProperties, LenProperties DEF TypeOK
<1>2. steps'[n + 1].cost = 0
  BY <1>1 DEF NewStep
<1>3. /\ NatOn(Costs, 1..n) /\ RowCost = SumFunctionOnSet(Costs, 1..n) /\ RowCost \in Nat
      /\ \A i \in 1..n : Costs[i] = steps[i].cost
  BY RowSum DEF RowSums
<1>4. /\ NatOn(Costs', 1..(n + 1)) /\ RowCost' = SumFunctionOnSet(Costs', 1..(n + 1))
      /\ \A i \in 1..(n + 1) : Costs'[i] = steps'[i].cost
  BY <1>1, RowSumNext DEF RowSums
<1>0. RowCost \in Nat
  BY <1>3
<1> HIDE DEF n
<1>5. SumFunctionOnSet(Costs', 1..n) = SumFunctionOnSet(Costs, 1..n)
  <2>1. \A i \in 1..n : Costs[i] = Costs'[i]
    BY <1>1, <1>3, <1>4
  <2> QED
    BY <1>3, <2>1, SumSame
<1>6. (1..(n + 1)) \ {n + 1} = 1..n /\ n + 1 \in 1..(n + 1)
  BY <1>1
<1>7. SumFunctionOnSet(Costs', 1..(n + 1)) = Costs'[n + 1] + SumFunctionOnSet(Costs', (1..(n + 1)) \ {n + 1})
  BY <1>4, <1>6, SumRemove
<1>8. Costs'[n + 1] = 0
  BY <1>2, <1>4, <1>6
<1>9. RowCost' = 0 + RowCost
  BY <1>3, <1>4, <1>5, <1>6, <1>7, <1>8
<1> QED
  BY <1>0, <1>1, <1>2, <1>9

(* The update of a finished step adds its cost to a row that had none.      *)
LEMMA RowFinished ==
  ASSUME TypeOK, TypeOK', steps' = Finished, steps # <<>>, steps[Len(steps)].cost = 0
  PROVE  RowCost' = RowCost + result.cost
<1> DEFINE k == Len(steps)
           r == [steps[k] EXCEPT !.status = StepStatus, !.cost = result.cost]
<1>1. k \in 1..k /\ steps[k] \in Row /\ DOMAIN steps = 1..k /\ Len(steps') = k
  <2>1. k \in 1..Len(steps) /\ steps[k] \in Row /\ DOMAIN steps = 1..Len(steps)
    <3>1. steps \in Seq(Row) /\ Len(steps) \in Nat /\ DOMAIN steps = 1..Len(steps)
      BY LenProperties DEF TypeOK
    <3>2. Len(steps) # 0
      BY <3>1, EmptySeq
    <3> QED
      BY <3>1, <3>2, ElementOfSeq
  <2>2. Len(steps') = k
    BY FinishedRows
  <2> QED
    BY <2>1, <2>2
<1>2. r.cost = result.cost
  BY <1>1 DEF Row
<1>3. steps' = [steps EXCEPT ![k] = r]
  BY <1>1 DEF Finished, Row, TypeOK
<1>4. \A i \in 1..k : steps'[i] = IF i = k THEN r ELSE steps[i]
  BY <1>1, <1>3
<1>5. /\ NatOn(Costs, 1..k) /\ RowCost = SumFunctionOnSet(Costs, 1..k)
      /\ \A i \in 1..k : Costs[i] = steps[i].cost
  BY RowSum DEF RowSums
<1>6. /\ RowCost' = SumFunctionOnSet(Costs', 1..k)
      /\ \A i \in 1..k : Costs'[i] = steps'[i].cost
  BY <1>1, RowSumNext DEF RowSums
<1>7. result.cost \in Nat
  BY DEF TypeOK
<1>8. Costs'[k] = Costs[k] + result.cost
  <2>1. steps'[k].cost = result.cost
    BY <1>1, <1>2, <1>4
  <2>2. Costs'[k] = steps'[k].cost /\ Costs[k] = steps[k].cost
    BY <1>1, <1>5, <1>6
  <2> QED
    BY <1>7, <2>1, <2>2
<1>9. \A i \in (1..k) \ {k} : Costs'[i] = Costs[i]
  BY <1>4, <1>5, <1>6
<1> HIDE DEF k
<1> QED
  BY <1>1, <1>5, <1>6, <1>7, <1>8, <1>9, SumGrows

(* The rows get the cost of a step after it was paid and before it is       *)
(* charged.                                                                 *)
LEMMA BooksStep ==
  ASSUME TypeOK, TypeOK', QueueInv, RowsInv, BooksInv, [Next]_vars
  PROVE  BooksInv'
<1> USE DEF shared, rows, graph, clocks, history, Stop, Ended, NoFault, Fault
<1>0. /\ spent \in Nat /\ charged \in Nat /\ result.cost \in Nat /\ RowCost \in Nat
      /\ charged <= RowCost /\ RowCost <= spent
  BY RowSum DEF TypeOK, BooksInv, RowSums
<1>1. ASSUME UNCHANGED <<steps, charged, spent, result>>,
             pc' \in {"invoke", "persist", "charge"} => pc' = pc
      PROVE  BooksInv'
  <2>1. RowCost' = RowCost
    BY <1>1 DEF RowCost
  <2> QED
    BY <1>1, <2>1 DEF BooksInv
<1>2. CASE Preflight \/ CreateRun \/ CountRun \/ StopAtEmptyQueue \/ StopAtStepCap
           \/ StopAtDeadline \/ StopAtKillSwitch \/ TakeNode
  BY <1>1, <1>2 DEF Preflight, CreateRun, CountRun, StopAtEmptyQueue, StopAtStepCap,
                    StopAtDeadline, StopAtKillSwitch, TakeNode, MayFire
<1>3. CASE Settle \/ RecordTrade \/ Propagate \/ EndTurn \/ Finalize \/ Crash
  BY <1>1, <1>3 DEF Settle, RecordTrade, Propagate, EndTurn, Finalize, Crash
<1>4. CASE Environment
  BY <1>1, <1>4 DEF Environment, FlipKillSwitch, OtherRun
<1>5. CASE UNCHANGED vars
  BY <1>1, <1>5 DEF vars
<1>6. CASE StartStep
  <2>1. /\ pc' \in {"invoke", "final"} /\ UNCHANGED <<charged, spent, result>>
        /\ steps' = Append(steps, NewStep) \/ (steps' = steps /\ pc' = "final")
    BY <1>6 DEF StartStep
  <2>2. CASE steps' = Append(steps, NewStep)
    <3>0. cur \in Node
      BY <1>6 DEF StartStep, QueueInv, Firing
    <3>1. RowCost' = RowCost /\ steps'[Len(steps')].cost = 0
      BY <2>2, <3>0, RowAppended
    <3> QED
      BY <1>0, <2>1, <3>1 DEF BooksInv
  <2>3. CASE steps' = steps /\ pc' = "final"
    BY <1>1, <2>1, <2>3
  <2> QED
    BY <2>1, <2>2, <2>3
<1>7. CASE Invoke
  <2>1. PICK c \in StepCosts : result'.cost = c /\ spent' = spent + c
    BY <1>7, InvokeCost
  <2>2. pc = "invoke" /\ pc' = "persist" /\ UNCHANGED <<steps, charged>>
    BY <1>7 DEF Invoke
  <2>3. RowCost' = RowCost /\ c \in Nat
    BY <2>2, LimitAssumption DEF RowCost
  <2> QED
    BY <1>0, <2>1, <2>2, <2>3 DEF BooksInv
<1>8. CASE PersistStep
  <2>1. /\ pc = "persist" /\ pc' \in {"charge", "final"} /\ UNCHANGED <<charged, spent, result>>
        /\ steps' = Finished \/ (steps' = steps /\ pc' = "final")
    BY <1>8 DEF PersistStep
  <2>2. CASE steps' = Finished
    <3>1. steps # <<>> /\ steps[Len(steps)].cost = 0 /\ RowCost + result.cost <= spent
      BY <2>1 DEF RowsInv, LastOpen, BooksInv
    <3>2. RowCost' = RowCost + result.cost
      BY <2>2, <3>1, RowFinished
    <3> QED
      BY <1>0, <2>1, <3>1, <3>2 DEF BooksInv
  <2>3. CASE steps' = steps /\ pc' = "final"
    BY <1>1, <2>1, <2>3
  <2> QED
    BY <2>1, <2>2, <2>3
<1>9. CASE ChargeStep
  <2>1. pc = "charge" /\ pc' \in {"settle", "final"} /\ UNCHANGED <<steps, spent, result>>
    BY <1>9 DEF ChargeStep
  <2>2. RowCost' = RowCost /\ charged + result.cost <= RowCost
    BY <2>1 DEF RowCost, BooksInv
  <2>3. charged' = charged \/ charged' = charged + result.cost
    <3>1. usage \in [runs : Nat, cost : Nat]
      BY DEF TypeOK
    <3>2. CASE charged' = charged + (usage'.cost - usage.cost)
               /\ usage' \in {usage, [usage EXCEPT !.cost = @ + result.cost]}
      <4>1. usage'.cost = usage.cost \/ usage'.cost = usage.cost + result.cost
        BY <3>1, <3>2
      <4> QED
        BY <1>0, <3>1, <3>2, <4>1
    <3> QED
      BY <1>9, <3>2 DEF ChargeStep
  <2> QED
    BY <1>0, <2>1, <2>2, <2>3 DEF BooksInv
<1> QED
  BY <1>2, <1>3, <1>4, <1>5, <1>6, <1>7, <1>8, <1>9 DEF Next, Run

(* A run that has not begun has an empty ledger.                            *)
LEMMA BooksInit == Init => BooksInv
<1> SUFFICES ASSUME Init PROVE BooksInv
  OBVIOUS
<1>1. steps = <<>> /\ Len(steps) = 0 /\ steps \in Seq(Row)
  BY EmptySeq DEF Init
<1>2. RowCost = SumFunctionOnSet(Costs, 1..0) /\ NatOn(Costs, 1..0)
  BY <1>1, InvInit, RowSum DEF IInv, RowSums
<1>3. 1..0 = {}
  OBVIOUS
<1>4. RowCost = 0
  BY <1>2, <1>3, SumRemove
<1> QED
  BY <1>4 DEF Init, BooksInv

(* Whatever is lost between the rows and the usage row can be recovered     *)
(* from the rows: the charged costs are among theirs, and theirs have been  *)
(* paid (executor.go:332-369).                                              *)
THEOREM BooksReconcile == Spec => []Reconcilable
<1>1. IInv /\ IInv' /\ BooksInv /\ [Next]_vars => BooksInv'
  BY BooksStep DEF IInv
<1>2. BooksInv => Reconcilable
  BY DEF BooksInv, Reconcilable
<1> QED
  BY <1>1, <1>2, BooksInit, RunInvariant, PTL DEF Spec

----------------------------------------------------------------------------
(* What the step rows of a run say of its firings, for every workflow, its  *)
(* joins and conditions, and every number of faults: each firing had its    *)
(* reason, no input is left unseen by a run that completes, and of a node's *)
(* conditional edges one at most is taken.                                  *)

(* The statements after which no step begins; what a row of the node would  *)
(* be given now.                                                            *)
Over   == {"final"} \cup Ended
Inputs(n) == [u \in Key |-> latest[n][u].iter]

(* Stamps: what arrives comes from a firing that took place, and what a row *)
(* was given has not become newer than what the node holds.                 *)
StampsInv ==
  /\ \A n \in Node, u \in Key : latest[n][u].seq > 0 => latest[n][u].iter > 0
  /\ \A n \in Node, u \in Node : latest[n][u].iter <= iteration[u]
  /\ \A i \in 1..Len(steps), u \in Key : steps[i].inputs[u] <= latest[steps[i].node][u].iter

(* The rows whose node has been settled since.                              *)
Past == IF pc \in InStep THEN 1..(Len(steps) - 1) ELSE 1..Len(steps)

(* Inputs: what arrived since a node's last firing is newer than all of its *)
(* rows; the row in flight has what the node holds; and a node to which     *)
(* nothing arrived since has a row of what it holds.                        *)
InputsInv ==
  /\ pc \notin Over => \A i \in Past, u \in Key :
       LET n == steps[i].node
       IN latest[n][u].seq > lastFired[n] => steps[i].inputs[u] < latest[n][u].iter
  /\ pc \in InStep =>
       steps # <<>> /\ steps[Len(steps)].node = cur /\ steps[Len(steps)].inputs = Inputs(cur)
  /\ \A n \in Node : (\A u \in Key : latest[n][u].seq <= lastFired[n]) =>
       \E i \in 1..Len(steps) : steps[i].node = n /\ steps[i].inputs = Inputs(n)

(* Stops: a node about to fire is ready, and a run that completes has       *)
(* nothing left to fire.                                                    *)
StopsInv ==
  /\ pc = "start" => IsReady(latest, cur)
  /\ pc \in {"final", "done"} /\ outcome = "completed" => ready = <<>> /\ cur = 0

(* Branches: of the edges still to propagate at most one is conditional,    *)
(* and until it is taken no node reached by conditional edges only holds    *)
(* the output of this firing.                                               *)
Branch(e)      == Cond[e] # "always"
BranchOnly(n, t) == \A f \in Out(n) : To[f] = t => Branch(f)

FireInv ==
  pc \in {"trade", "propagate"} =>
    /\ fire \subseteq Out(cur) /\ iteration[cur] > 0
    /\ \A i \in 1..Len(steps) : steps[i].inputs[cur] < iteration[cur]
    /\ \A d, e \in fire : Branch(d) /\ Branch(e) => d = e
    /\ \A e \in fire, t \in Node :
         Branch(e) /\ BranchOnly(cur, t) => latest[t][cur].iter < iteration[cur]

BranchInv ==
  \A n, s, t \in Node :
    s # t /\ BranchOnly(n, s) /\ BranchOnly(n, t) /\ latest[s][n].iter > 0 =>
      latest[s][n].iter # latest[t][n].iter

FInv == StampsInv /\ InputsInv /\ StopsInv /\ FiringsJustified /\ FireInv /\ BranchInv

----------------------------------------------------------------------------
(* The types these proofs need, value by value.                             *)
LEMMA Shapes ==
  ASSUME TypeOK
  PROVE  /\ steps \in Seq(Row) /\ Len(steps) \in Nat
         /\ \A i \in 1..Len(steps) : steps[i].node \in Node /\ steps[i].inputs \in [Key -> Nat]
         /\ \A i \in 1..Len(steps), u \in Key : steps[i].inputs[u] \in Nat
         /\ \A n \in Node, u \in Key : latest[n][u].seq \in Nat /\ latest[n][u].iter \in Nat
         /\ \A n \in Node : iteration[n] \in Nat /\ lastFired[n] \in Int
         /\ Node \subseteq Key /\ Seed \in Key /\ Seed \notin Node
<1>1. steps \in Seq(Row) /\ Len(steps) \in Nat
  BY LenProperties DEF TypeOK
<1>2. \A i \in 1..Len(steps) : steps[i] \in Row
  BY <1>1, ElementOfSeq
<1>3. \A i \in 1..Len(steps) : steps[i].node \in Node /\ steps[i].inputs \in [Key -> Nat]
  BY <1>2 DEF Row
<1>4. \A i \in 1..Len(steps), u \in Key : steps[i].inputs[u] \in Nat
  BY <1>3
<1>5. latest \in [Node -> [Key -> [seq : Nat, iter : Nat]]]
  BY DEF TypeOK
<1>6. \A n \in Node, u \in Key : latest[n][u].seq \in Nat /\ latest[n][u].iter \in Nat
  BY <1>5
<1>7. \A n \in Node : iteration[n] \in Nat /\ lastFired[n] \in Int
  BY DEF TypeOK
<1>8. Node \subseteq Key /\ Seed \in Key /\ Seed \notin Node
  BY WorkflowAssumption DEF Key, Seed
<1> QED
  BY <1>1, <1>3, <1>4, <1>6, <1>7, <1>8

(* A finished row keeps its node and its inputs.                            *)
LEMMA FinishedKeeps ==
  ASSUME TypeOK, steps # <<>>
  PROVE  /\ Len(Finished) = Len(steps)
         /\ \A i \in 1..Len(steps) : /\ Finished[i].node = steps[i].node
                                     /\ Finished[i].inputs = steps[i].inputs
<1> DEFINE k == Len(steps)
           r == [steps[k] EXCEPT !.status = StepStatus, !.cost = result.cost]
<1>1. k \in 1..Len(steps) /\ steps[k] \in Row /\ DOMAIN steps = 1..Len(steps)
  BY EmptySeq, ElementOfSeq, LenProperties DEF TypeOK
<1>2. r.node = steps[k].node /\ r.inputs = steps[k].inputs
  BY <1>1 DEF Row
<1>3. Finished = [steps EXCEPT ![k] = r]
  BY <1>1 DEF Finished, Row, TypeOK
<1>4. \A i \in 1..Len(steps) : Finished[i] = IF i = k THEN r ELSE steps[i]
  BY <1>1, <1>3
<1> QED
  BY <1>2, <1>4, FinishedRows

(* A row that begins is its node's, with what the node holds.               *)
LEMMA NewRow ==
  ASSUME TypeOK, cur \in Node, steps' = Append(steps, NewStep)
  PROVE  /\ Len(steps') = Len(steps) + 1
         /\ \A i \in 1..Len(steps) : steps'[i] = steps[i]
         /\ steps'[Len(steps) + 1].node = cur /\ steps'[Len(steps) + 1].inputs = Inputs(cur)
<1>1. steps \in Seq(Row) /\ NewStep \in Row
  BY NewStepRow DEF TypeOK
<1>2. NewStep.node = cur /\ NewStep.inputs = Inputs(cur)
  BY DEF NewStep, Inputs
<1> QED
  BY <1>1, <1>2, AppendProperties

SameRows ==
  /\ Len(steps') = Len(steps)
  /\ \A i \in 1..Len(steps) : steps'[i].node = steps[i].node /\ steps'[i].inputs = steps[i].inputs

----------------------------------------------------------------------------
(* A step that leaves the nodes' inputs and firings alone and takes the run *)
(* nowhere else keeps the invariant.                                        *)
LEMMA FiringsFrame ==
  ASSUME TypeOK, FInv, SameRows, UNCHANGED <<latest, iteration, lastFired>>,
         pc' \in {"trade", "propagate"} => pc \in {"trade", "propagate"} /\ UNCHANGED <<cur, fire>>,
         pc' \in InStep => pc \in InStep /\ cur' = cur,
         pc \in Over => pc' \in Over,
         pc \in InStep => pc' \in InStep \cup Over,
         pc' = "start" => IsReady(latest, cur'),
         pc' \in {"final", "done"} /\ outcome' = "completed" => ready' = <<>> /\ cur' = 0
  PROVE  FInv'
<1>1. /\ Len(steps') = Len(steps) /\ Len(steps) \in Nat
      /\ \A i \in 1..Len(steps) : steps'[i].node = steps[i].node /\ steps'[i].inputs = steps[i].inputs
      /\ latest' = latest /\ iteration' = iteration /\ lastFired' = lastFired
  BY Shapes DEF SameRows
<1>2. StampsInv'
  BY <1>1 DEF FInv, StampsInv
<1>3. \A n : Inputs(n)' = Inputs(n)
  BY <1>1 DEF Inputs
<1>4. InputsInv'
  <2>1. ASSUME pc' \notin Over, NEW i \in Past', NEW u \in Key,
               latest'[steps'[i].node][u].seq > lastFired'[steps'[i].node]
        PROVE  steps'[i].inputs[u] < latest'[steps'[i].node][u].iter
    <3>1. pc \notin Over
      BY <2>1
    <3>2. i \in Past /\ i \in 1..Len(steps)
      BY <1>1, <2>1, <3>1 DEF Past
    <3>3. latest[steps[i].node][u].seq > lastFired[steps[i].node] =>
            steps[i].inputs[u] < latest[steps[i].node][u].iter
      BY <3>1, <3>2 DEF FInv, InputsInv
    <3> QED
      BY <1>1, <2>1, <3>2, <3>3
  <2>2. ASSUME pc' \in InStep
        PROVE  steps' # <<>> /\ steps'[Len(steps')].node = cur'
               /\ steps'[Len(steps')].inputs = Inputs(cur)'
    <3>1. /\ steps # <<>> /\ steps[Len(steps)].node = cur /\ steps[Len(steps)].inputs = Inputs(cur)
          /\ cur' = cur
      BY <2>2 DEF FInv, InputsInv
    <3>2. Len(steps) \in 1..Len(steps)
      BY <1>1, <3>1, Shapes, EmptySeq
    <3>3. Len(steps') # 0
      BY <1>1, <3>2
    <3>4. Inputs(cur)' = Inputs(cur)
      BY <1>1, <3>1 DEF Inputs
    <3> QED
      BY <1>1, <3>1, <3>2, <3>3, <3>4
  <2>3. ASSUME NEW n \in Node, \A u \in Key : latest'[n][u].seq <= lastFired'[n]
        PROVE  \E i \in 1..Len(steps') : steps'[i].node = n /\ steps'[i].inputs = Inputs(n)'
    <3>1. PICK i \in 1..Len(steps) : steps[i].node = n /\ steps[i].inputs = Inputs(n)
      BY <1>1, <2>3 DEF FInv, InputsInv
    <3> QED
      BY <1>1, <1>3, <3>1
  <2> QED
    BY <2>1, <2>2, <2>3 DEF InputsInv
<1>5. StopsInv'
  <2>1. pc' = "start" => IsReady(latest, cur)'
    BY <1>1 DEF IsReady, Present
  <2> QED
    BY <2>1 DEF StopsInv
<1>6. FiringsJustified'
  BY <1>1 DEF FInv, FiringsJustified
<1>7. FireInv'
  <2> SUFFICES ASSUME pc' \in {"trade", "propagate"} PROVE FireInv'
    BY DEF FireInv
  <2>1. pc \in {"trade", "propagate"} /\ cur' = cur /\ fire' = fire
    OBVIOUS
  <2> QED
    BY <1>1, <2>1 DEF FInv, FireInv
<1>8. BranchInv'
  BY <1>1 DEF FInv, BranchInv
<1> QED
  BY <1>2, <1>4, <1>5, <1>6, <1>7, <1>8 DEF FInv

(* Before the seeding no node holds anything and there are no rows.         *)
LEMMA FiringsSeeded ==
  ASSUME TypeOK, QueueInv, RowsInv, FInv, pc = "count", pc' = "loop", SeedEntries,
         UNCHANGED <<steps, iteration, lastFired, cur, outcome>>
  PROVE  FInv'
<1>1. /\ Len(steps) = 0 /\ Len(steps') = 0
      /\ \A n \in Node, u \in Key : latest[n][u].seq = 0
      /\ \A n \in Node : lastFired'[n] = -1
  BY EmptySeq DEF QueueInv, RowsInv, Unseeded
<1>2. \A n \in Node, u \in Key :
        /\ u = Seed /\ Entry(n) => latest'[n][u].seq = EntryPos(n) /\ latest'[n][u].iter = 1
        /\ ~(u = Seed /\ Entry(n)) => latest'[n][u] = latest[n][u]
  BY DEF SeedEntries
<1>3. \A n \in Node, u \in Node : latest'[n][u] = latest[n][u]
  BY <1>2, Shapes
<1>4. StampsInv'
  <2>1. \A n \in Node, u \in Key : latest'[n][u].seq > 0 => latest'[n][u].iter > 0
    <3> SUFFICES ASSUME NEW n \in Node, NEW u \in Key, latest'[n][u].seq > 0
                 PROVE  latest'[n][u].iter > 0
      OBVIOUS
    <3>1. CASE u = Seed /\ Entry(n)
      BY <1>2, <3>1
    <3>2. CASE ~(u = Seed /\ Entry(n))
      BY <1>1, <1>2, <3>2
    <3> QED
      BY <3>1, <3>2
  <2>2. \A n \in Node, u \in Node : latest'[n][u].iter <= iteration'[u]
    BY <1>3 DEF FInv, StampsInv
  <2> QED
    BY <1>1, <2>1, <2>2 DEF StampsInv
<1>5. InputsInv'
  <2>1. ASSUME NEW n \in Node PROVE \E u \in Key : ~(latest'[n][u].seq <= lastFired'[n])
    <3>1. lastFired'[n] = -1 /\ Seed \in Key
      BY <1>1, Shapes
    <3>2. CASE Entry(n)
      <4>1. latest'[n][Seed].seq = EntryPos(n) /\ EntryPos(n) \in 1..Len(EntrySeq)
        BY <1>2, <3>1, <3>2, EntryAssumption DEF Entry, EntryPos
      <4>2. Len(EntrySeq) \in Nat
        BY EntryAssumption, LenProperties
      <4> QED
        BY <3>1, <4>1, <4>2
    <3>3. CASE ~Entry(n)
      <4>1. latest'[n][Seed].seq = 0
        BY <1>1, <1>2, <3>1, <3>3
      <4> QED
        BY <3>1, <4>1
    <3> QED
      BY <3>2, <3>3
  <2>2. Past' = {}
    BY <1>1 DEF Past, InStep
  <2> QED
    BY <2>1, <2>2 DEF InputsInv, InStep
<1>6. StopsInv' /\ FireInv'
  BY DEF StopsInv, FireInv
<1>7. FiringsJustified'
  BY <1>1 DEF FiringsJustified
<1>8. BranchInv'
  BY <1>3 DEF FInv, BranchInv
<1> QED
  BY <1>4, <1>5, <1>6, <1>7, <1>8 DEF FInv

(* The row of a step that begins: its node was ready, so it has what an     *)
(* `all` join waits for and something newer than every earlier row.         *)
LEMMA FiringsStarted ==
  ASSUME TypeOK, FInv, cur \in Node, pc = "start", steps' = Append(steps, NewStep),
         pc' = "invoke" \/ (pc' = "final" /\ outcome' = "failed"),
         UNCHANGED <<latest, iteration, lastFired, cur>>
  PROVE  FInv'
<1> DEFINE k == Len(steps) + 1
<1>1. /\ Len(steps') = k /\ Len(steps) \in Nat
      /\ \A i \in 1..Len(steps) : steps'[i] = steps[i]
      /\ steps'[k].node = cur /\ steps'[k].inputs = Inputs(cur)
      /\ latest' = latest /\ iteration' = iteration /\ lastFired' = lastFired /\ cur' = cur
  BY NewRow, Shapes
<1>2. \A n : Inputs(n)' = Inputs(n)
  BY <1>1 DEF Inputs
<1>3. \A u \in Key : steps'[k].inputs[u] = latest[cur][u].iter /\ latest[cur][u].iter \in Nat
  BY <1>1, Shapes DEF Inputs
<1> HIDE DEF k
<1>4. \A i \in 1..k : i \in 1..Len(steps) \/ i = k
  BY <1>1 DEF k
<1>5. /\ \A i \in 1..Len(steps) : i \in 1..k
      /\ k \in 1..k
  BY <1>1 DEF k
<1>6. StampsInv'
  <2>1. \A i \in 1..k, u \in Key : steps'[i].inputs[u] <= latest[steps'[i].node][u].iter
    <3> SUFFICES ASSUME NEW i \in 1..k, NEW u \in Key
                 PROVE  steps'[i].inputs[u] <= latest[steps'[i].node][u].iter
      OBVIOUS
    <3>1. CASE i \in 1..Len(steps)
      BY <1>1, <3>1 DEF FInv, StampsInv
    <3>2. CASE i = k
      BY <1>1, <1>3, <3>2
    <3> QED
      BY <1>4, <3>1, <3>2
  <2> QED
    BY <1>1, <2>1 DEF FInv, StampsInv
<1>7. Past = 1..Len(steps) /\ pc \notin Over
  BY DEF Past, InStep, Over, Ended
<1>8. InputsInv'
  <2>1. ASSUME pc' \notin Over, NEW i \in Past', NEW u \in Key,
               latest'[steps'[i].node][u].seq > lastFired'[steps'[i].node]
        PROVE  steps'[i].inputs[u] < latest'[steps'[i].node][u].iter
    <3>1. pc' = "invoke"
      BY <2>1 DEF Over
    <3>2. i \in 1..Len(steps)
      BY <1>1, <2>1, <3>1 DEF Past, InStep, k
    <3>3. latest[steps[i].node][u].seq > lastFired[steps[i].node] =>
            steps[i].inputs[u] < latest[steps[i].node][u].iter
      BY <1>7, <3>2 DEF FInv, InputsInv
    <3> QED
      BY <1>1, <2>1, <3>2, <3>3
  <2>2. /\ steps' # <<>> /\ steps'[Len(steps')].node = cur'
        /\ steps'[Len(steps')].inputs = Inputs(cur)'
    <3>1. Len(steps') # 0
      BY <1>1 DEF k
    <3>2. Inputs(cur)' = Inputs(cur)
      BY <1>1 DEF Inputs
    <3> QED
      BY <1>1, <3>1, <3>2
  <2>3. ASSUME NEW n \in Node, \A u \in Key : latest'[n][u].seq <= lastFired'[n]
        PROVE  \E i \in 1..Len(steps') : steps'[i].node = n /\ steps'[i].inputs = Inputs(n)'
    <3>1. PICK i \in 1..Len(steps) : steps[i].node = n /\ steps[i].inputs = Inputs(n)
      BY <1>1, <2>3 DEF FInv, InputsInv
    <3> QED
      BY <1>1, <1>2, <1>5, <3>1
  <2> QED
    BY <2>1, <2>2, <2>3 DEF InputsInv
<1>9. StopsInv' /\ FireInv'
  BY DEF StopsInv, FireInv
<1>10. FiringsJustified'
  <2>1. IsReady(latest, cur)
    BY DEF FInv, StopsInv
  <2>2. ASSUME Join[cur] = "all", NEW u \in NonLoopUpstream(cur)
        PROVE  steps'[k].inputs[u] > 0
    <3>1. u \in Key /\ latest[cur][u].seq > 0
      BY <2>1, <2>2 DEF IsReady, Present
    <3>2. latest[cur][u].iter > 0
      BY <3>1 DEF FInv, StampsInv
    <3> QED
      BY <1>3, <3>1, <3>2
  <2>3. ASSUME NEW i \in 1..Len(steps), steps[i].node = cur
        PROVE  \E u \in Key : steps'[k].inputs[u] > steps[i].inputs[u]
    <3>1. PICK u \in Key : latest[cur][u].seq > lastFired[cur]
      BY <2>1 DEF IsReady, Present
    <3>2. steps[i].inputs[u] < latest[cur][u].iter
      BY <1>7, <2>3, <3>1 DEF FInv, InputsInv
    <3>3. steps[i].inputs[u] \in Nat
      BY <3>1, Shapes
    <3> QED
      BY <1>3, <3>1, <3>2, <3>3
  <2>4. ASSUME NEW j \in 1..k
        PROVE  /\ Join[steps'[j].node] = "all" =>
                    \A u \in NonLoopUpstream(steps'[j].node) : steps'[j].inputs[u] > 0
               /\ \A i \in 1..(j - 1) : steps'[i].node = steps'[j].node =>
                    \E u \in Key : steps'[j].inputs[u] > steps'[i].inputs[u]
    <3>1. CASE j \in 1..Len(steps)
      <4>1. \A i \in 1..(j - 1) : i \in 1..Len(steps)
        BY <1>1, <3>1
      <4> QED
        BY <1>1, <3>1, <4>1 DEF FInv, FiringsJustified
    <3>2. CASE j = k
      <4>1. \A i \in 1..(j - 1) : i \in 1..Len(steps)
        BY <1>1, <3>2 DEF k
      <4>2. \A i \in 1..(j - 1) : steps'[i].node = steps'[j].node =>
              \E u \in Key : steps'[j].inputs[u] > steps'[i].inputs[u]
        BY <1>1, <2>3, <3>2, <4>1
      <4>3. Join[cur] = "all" => \A u \in NonLoopUpstream(cur) : steps'[k].inputs[u] > 0
        BY <2>2
      <4> QED
        BY <1>1, <3>2, <4>2, <4>3
    <3> QED
      BY <1>4, <3>1, <3>2
  <2> QED
    BY <1>1, <2>4 DEF FiringsJustified
<1>11. BranchInv'
  BY <1>1 DEF FInv, BranchInv
<1> QED
  BY <1>6, <1>8, <1>9, <1>10, <1>11 DEF FInv

(* Of the edges that fire at most one is conditional.                       *)
LEMMA OneBranchFires ==
  ASSUME NEW n, NEW out, NEW d \in FiringPlan(n, out), NEW e \in FiringPlan(n, out),
         Branch(d), Branch(e)
  PROVE  d = e
<1>1. d \in Nat /\ e \in Nat
  BY WorkflowAssumption DEF FiringPlan, Out
<1>2. d <= e /\ e <= d
  BY DEF FiringPlan, Branch
<1> QED
  BY <1>1, <1>2

(* A settled firing is newer than whatever anybody holds of its node.       *)
LEMMA FiringsSettled ==
  ASSUME TypeOK, QueueInv, FInv, cur \in Node, pc = "settle", pc' \in {"trade", "propagate"},
         iteration' = [iteration EXCEPT ![cur] = @ + 1],
         lastFired' = [lastFired EXCEPT ![cur] = seq],
         fire' = FiringPlan(cur, result.out),
         UNCHANGED <<steps, latest, cur>>
  PROVE  FInv'
<1>1. /\ steps' = steps /\ latest' = latest /\ cur' = cur
      /\ iteration'[cur] = iteration[cur] + 1 /\ lastFired'[cur] = seq
      /\ \A n \in Node \ {cur} : iteration'[n] = iteration[n] /\ lastFired'[n] = lastFired[n]
      /\ iteration[cur] \in Nat /\ Len(steps) \in Nat
  BY Shapes DEF TypeOK
<1>2. \A n : Inputs(n)' = Inputs(n)
  BY <1>1 DEF Inputs
<1>3. \A n \in Node, u \in Node : latest[n][u].iter <= iteration[u] /\ latest[n][u].iter \in Nat
  BY Shapes DEF FInv, StampsInv
<1>4. /\ steps # <<>> /\ steps[Len(steps)].node = cur /\ steps[Len(steps)].inputs = Inputs(cur)
      /\ Len(steps) \in 1..Len(steps)
  <2>1. steps # <<>> /\ steps[Len(steps)].node = cur /\ steps[Len(steps)].inputs = Inputs(cur)
    BY DEF FInv, InputsInv, InStep
  <2> QED
    BY <1>1, <2>1, Shapes, EmptySeq
<1>5. \A u \in Key : latest[cur][u].seq <= seq
  BY DEF QueueInv
<1>6. StampsInv'
  <2>1. ASSUME NEW n \in Node, NEW u \in Node PROVE latest[n][u].iter <= iteration'[u]
    <3>1. CASE u = cur
      BY <1>1, <1>3, <3>1
    <3>2. CASE u # cur
      BY <1>1, <1>3, <3>2
    <3> QED
      BY <3>1, <3>2
  <2> QED
    BY <1>1, <2>1 DEF FInv, StampsInv
<1>7. InputsInv'
  <2>1. ASSUME NEW i \in Past', NEW u \in Key,
               latest'[steps'[i].node][u].seq > lastFired'[steps'[i].node]
        PROVE  steps'[i].inputs[u] < latest'[steps'[i].node][u].iter
    <3>1. i \in 1..Len(steps)
      BY <1>1, <2>1 DEF Past, InStep
    <3>2. steps[i].node \in Node /\ latest[steps[i].node][u].seq \in Nat /\ seq \in Nat
      BY <3>1, Shapes DEF TypeOK
    <3>3. steps[i].node # cur
      BY <1>1, <1>5, <2>1, <3>2
    <3>4. i \in Past
      BY <1>1, <1>4, <3>1, <3>3 DEF Past
    <3>5. pc \notin Over
      BY DEF Over, Ended
    <3>6. latest[steps[i].node][u].seq > lastFired[steps[i].node] =>
            steps[i].inputs[u] < latest[steps[i].node][u].iter
      BY <3>4, <3>5 DEF FInv, InputsInv
    <3> QED
      BY <1>1, <2>1, <3>2, <3>3, <3>6
  <2>2. ASSUME NEW n \in Node, \A u \in Key : latest'[n][u].seq <= lastFired'[n]
        PROVE  \E i \in 1..Len(steps') : steps'[i].node = n /\ steps'[i].inputs = Inputs(n)'
    <3>1. CASE n = cur
      BY <1>1, <1>2, <1>4, <3>1
    <3>2. CASE n # cur
      <4>1. \A u \in Key : latest[n][u].seq <= lastFired[n]
        BY <1>1, <2>2, <3>2
      <4>2. PICK i \in 1..Len(steps) : steps[i].node = n /\ steps[i].inputs = Inputs(n)
        BY <4>1 DEF FInv, InputsInv
      <4> QED
        BY <1>1, <1>2, <4>2
    <3> QED
      BY <3>1, <3>2
  <2> QED
    BY <2>1, <2>2 DEF InputsInv, InStep
<1>8. StopsInv'
  BY DEF StopsInv
<1>9. FiringsJustified'
  BY <1>1 DEF FInv, FiringsJustified
<1>10. FireInv'
  <2>1. fire' \subseteq Out(cur)
    BY DEF FiringPlan
  <2>2. ASSUME NEW i \in 1..Len(steps) PROVE steps[i].inputs[cur] < iteration'[cur]
    <3>1. cur \in Key /\ steps[i].node \in Node /\ steps[i].inputs[cur] \in Nat
      BY Shapes
    <3>2. steps[i].inputs[cur] <= latest[steps[i].node][cur].iter
      BY <3>1 DEF FInv, StampsInv
    <3>3. latest[steps[i].node][cur].iter <= iteration[cur] /\ latest[steps[i].node][cur].iter \in Nat
      BY <1>3, <3>1
    <3> QED
      BY <1>1, <3>1, <3>2, <3>3
  <2>3. \A d, e \in fire' : Branch(d) /\ Branch(e) => d = e
    BY OneBranchFires
  <2>4. ASSUME NEW t \in Node PROVE latest[t][cur].iter < iteration'[cur]
    BY <1>1, <1>3
  <2>5. iteration'[cur] > 0
    BY <1>1
  <2> QED
    BY <1>1, <2>1, <2>2, <2>3, <2>4, <2>5 DEF FireInv
<1>11. BranchInv'
  BY <1>1 DEF FInv, BranchInv
<1> QED
  BY <1>6, <1>7, <1>8, <1>9, <1>10, <1>11 DEF FInv

(* An arrival is newer than what the rows of its node were given, and comes *)
(* along an `always` edge or along the one conditional edge of the firing.  *)
LEMMA FiringsArrived ==
  ASSUME TypeOK, QueueInv, FInv, cur \in Node, pc = "propagate", pc' = "propagate",
         NEW e \in fire, fire' = fire \ {e}, latest' = Arrive(e),
         UNCHANGED <<steps, iteration, lastFired, cur>>
  PROVE  FInv'
<1> DEFINE t == To[e]
<1>1. e \in Edge /\ t \in Node /\ From[e] = cur /\ cur \in Key /\ fire \subseteq Out(cur)
  BY WorkflowAssumption, Shapes DEF FInv, FireInv, Out
<1>2. \A n \in Node, u \in Key :
        latest'[n][u] = IF n = t /\ u = cur THEN [seq |-> seq + 1, iter |-> iteration[cur]]
                                             ELSE latest[n][u]
  BY <1>1 DEF Arrive, TypeOK
<1>3. /\ steps' = steps /\ iteration' = iteration /\ lastFired' = lastFired /\ cur' = cur
      /\ latest'[t][cur].seq = seq + 1 /\ latest'[t][cur].iter = iteration[cur]
      /\ \A n \in Node, u \in Key : ~(n = t /\ u = cur) => latest'[n][u] = latest[n][u]
  BY <1>1, <1>2
<1>4. /\ iteration[cur] \in Nat /\ iteration[cur] > 0 /\ seq \in Nat /\ Len(steps) \in Nat
      /\ \A i \in 1..Len(steps) : steps[i].inputs[cur] < iteration[cur]
  BY Shapes DEF FInv, FireInv, TypeOK
<1>5. lastFired[t] \in Int /\ lastFired[t] <= seq
  BY <1>1, Shapes DEF QueueInv
<1> HIDE DEF t
<1>6. StampsInv'
  <2>1. ASSUME NEW n \in Node, NEW u \in Key, latest'[n][u].seq > 0 PROVE latest'[n][u].iter > 0
    <3>1. CASE n = t /\ u = cur
      BY <1>3, <1>4, <3>1
    <3>2. CASE ~(n = t /\ u = cur)
      BY <1>3, <2>1, <3>2 DEF FInv, StampsInv
    <3> QED
      BY <3>1, <3>2
  <2>2. ASSUME NEW n \in Node, NEW u \in Node PROVE latest'[n][u].iter <= iteration[u]
    <3>0. u \in Key
      BY Shapes
    <3>1. CASE n = t /\ u = cur
      BY <1>3, <1>4, <3>1
    <3>2. CASE ~(n = t /\ u = cur)
      BY <1>3, <3>0, <3>2 DEF FInv, StampsInv
    <3> QED
      BY <3>1, <3>2
  <2>3. ASSUME NEW i \in 1..Len(steps), NEW u \in Key
        PROVE  steps[i].inputs[u] <= latest'[steps[i].node][u].iter
    <3>0. steps[i].node \in Node /\ steps[i].inputs[u] \in Nat
      BY Shapes
    <3>1. CASE steps[i].node = t /\ u = cur
      BY <1>3, <1>4, <3>0, <3>1
    <3>2. CASE ~(steps[i].node = t /\ u = cur)
      BY <1>3, <3>0, <3>2 DEF FInv, StampsInv
    <3> QED
      BY <3>1, <3>2
  <2> QED
    BY <1>3, <2>1, <2>2, <2>3 DEF StampsInv
<1>7. InputsInv'
  <2>1. ASSUME NEW i \in Past', NEW u \in Key,
               latest'[steps'[i].node][u].seq > lastFired'[steps'[i].node]
        PROVE  steps'[i].inputs[u] < latest'[steps'[i].node][u].iter
    <3>1. i \in 1..Len(steps) /\ i \in Past /\ pc \notin Over
      BY <1>3, <2>1 DEF Past, InStep, Over, Ended
    <3>2. steps[i].node \in Node
      BY <3>1, Shapes
    <3>3. CASE steps[i].node = t /\ u = cur
      BY <1>3, <1>4, <3>1, <3>3
    <3>4. CASE ~(steps[i].node = t /\ u = cur)
      <4>1. latest[steps[i].node][u].seq > lastFired[steps[i].node] =>
              steps[i].inputs[u] < latest[steps[i].node][u].iter
        BY <3>1 DEF FInv, InputsInv
      <4> QED
        BY <1>3, <2>1, <3>2, <3>4, <4>1
    <3> QED
      BY <3>3, <3>4
  <2>2. ASSUME NEW n \in Node, \A u \in Key : latest'[n][u].seq <= lastFired'[n]
        PROVE  \E i \in 1..Len(steps') : steps'[i].node = n /\ steps'[i].inputs = Inputs(n)'
    <3>1. n # t
      <4>1. seq + 1 > lastFired'[t]
        BY <1>3, <1>4, <1>5
      <4> QED
        BY <1>1, <1>3, <1>4, <1>5, <2>2, <4>1
    <3>2. \A u \in Key : latest'[n][u] = latest[n][u]
      BY <1>3, <3>1
    <3>3. Inputs(n)' = Inputs(n)
      BY <3>2 DEF Inputs
    <3>4. PICK i \in 1..Len(steps) : steps[i].node = n /\ steps[i].inputs = Inputs(n)
      BY <1>3, <2>2, <3>2 DEF FInv, InputsInv
    <3> QED
      BY <1>3, <3>3, <3>4
  <2> QED
    BY <2>1, <2>2 DEF InputsInv, InStep
<1>8. StopsInv'
  BY DEF StopsInv
<1>9. FiringsJustified'
  BY <1>3 DEF FInv, FiringsJustified
<1>10. FireInv'
  <2>1. \A a, b \in fire : Branch(a) /\ Branch(b) => a = b
    BY DEF FInv, FireInv
  <2>2. ASSUME NEW a \in fire \ {e}, NEW v \in Node, Branch(a), BranchOnly(cur, v)
        PROVE  latest'[v][cur].iter < iteration[cur]
    <3>1. ~Branch(e)
      BY <2>1, <2>2
    <3>2. v # t
      BY <1>1, <2>2, <3>1 DEF BranchOnly, t
    <3>3. latest[v][cur].iter < iteration[cur]
      BY <2>2 DEF FInv, FireInv
    <3> QED
      BY <1>1, <1>3, <3>2, <3>3
  <2>3. fire' \subseteq Out(cur) /\ \A a, b \in fire' : Branch(a) /\ Branch(b) => a = b
    BY <1>1, <2>1
  <2> QED
    BY <1>3, <1>4, <2>2, <2>3 DEF FireInv
<1>11. BranchInv'
  <2> SUFFICES ASSUME NEW n \in Node, NEW r \in Node, NEW s \in Node, r # s,
                      BranchOnly(n, r), BranchOnly(n, s), latest'[r][n].iter > 0
               PROVE  latest'[r][n].iter # latest'[s][n].iter
    BY DEF BranchInv
  <2>0. n \in Key
    BY Shapes
  <2>1. latest[r][n].iter > 0 => latest[r][n].iter # latest[s][n].iter
    BY DEF FInv, BranchInv
  <2>2. CASE n = cur /\ t \in {r, s}
    <3>1. Branch(e)
      BY <1>1, <2>2 DEF BranchOnly, t
    <3>2. latest[r][n].iter < iteration[cur] /\ latest[s][n].iter < iteration[cur]
      BY <2>2, <3>1 DEF FInv, FireInv
    <3>3. latest[r][n].iter \in Nat /\ latest[s][n].iter \in Nat
      BY <2>0, Shapes
    <3>4. CASE t = r
      <4>1. latest'[r][n].iter = iteration[cur] /\ latest'[s][n] = latest[s][n]
        BY <1>3, <2>0, <2>2, <3>4
      <4> QED
        BY <1>4, <3>2, <3>3, <4>1
    <3>5. CASE t = s
      <4>1. latest'[s][n].iter = iteration[cur] /\ latest'[r][n] = latest[r][n]
        BY <1>3, <2>0, <2>2, <3>5
      <4> QED
        BY <1>4, <3>2, <3>3, <4>1
    <3> QED
      BY <2>2, <3>4, <3>5
  <2>3. CASE ~(n = cur /\ t \in {r, s})
    <3>1. latest'[r][n] = latest[r][n] /\ latest'[s][n] = latest[s][n]
      BY <1>3, <2>0, <2>3
    <3> QED
      BY <2>1, <3>1
  <2> QED
    BY <2>2, <2>3
<1> QED
  BY <1>6, <1>7, <1>8, <1>9, <1>10, <1>11 DEF FInv

----------------------------------------------------------------------------
(* Every step keeps the invariant.                                          *)
LEMMA FiringsStep == TypeOK /\ QueueInv /\ RowsInv /\ FInv /\ [Next]_vars => FInv'
<1> SUFFICES ASSUME TypeOK, QueueInv, RowsInv, FInv, [Next]_vars PROVE FInv'
  OBVIOUS
<1> USE DEF shared, rows, graph, clocks, history, Stop, Ended, Over, InStep
<1>0. steps' = steps => SameRows
  BY DEF SameRows
<1>1. CASE Preflight \/ CreateRun
  BY <1>0, <1>1, FiringsFrame DEF Preflight, CreateRun
<1>2. CASE CountRun
  <2>1. CASE pc' = "loop"
    BY <1>2, <2>1, FiringsSeeded DEF CountRun
  <2>2. CASE pc' # "loop"
    <3>1. pc = "count" /\ pc' = "final" /\ outcome' \in {"failed", "quota_exceeded"}
          /\ UNCHANGED <<steps, latest, iteration, lastFired>>
      BY <1>2, <2>2 DEF CountRun
    <3> QED
      BY <1>0, <3>1, FiringsFrame
  <2> QED
    BY <2>1, <2>2
<1>3. CASE StopAtEmptyQueue \/ StopAtStepCap \/ StopAtDeadline \/ StopAtKillSwitch
  <2>1. /\ pc = "loop" /\ pc' = "final" /\ UNCHANGED <<steps, latest, iteration, lastFired, ready, cur>>
        /\ outcome' = "completed" => ready = <<>>
    BY <1>3 DEF StopAtEmptyQueue, StopAtStepCap, StopAtDeadline, StopAtKillSwitch, MayFire
  <2>2. cur = 0
    BY <2>1 DEF QueueInv
  <2> QED
    BY <1>0, <2>1, <2>2, FiringsFrame
<1>4. CASE TakeNode
  <2>1. /\ pc = "loop" /\ cur' = Head(ready) /\ ready # <<>>
        /\ UNCHANGED <<steps, latest, iteration, lastFired>>
        /\ pc' = "start" \/ (pc' = "final" /\ outcome' = "failed")
    BY <1>4 DEF TakeNode, MayFire
  <2>2. IsReady(latest, Head(ready))
    <3>1. Len(ready) \in Nat /\ Len(ready) # 0 /\ Head(ready) = ready[1]
      BY <2>1, QueueTypes, EmptySeq DEF TypeOK
    <3>2. 1 \in 1..Len(ready)
      BY <3>1
    <3>3. Head(ready) \in Node /\ InQueue(Head(ready))
      BY <3>1, <3>2, QueueTypes DEF InQueue
    <3>4. Held = 0
      BY <2>1 DEF Held, QueueInv
    <3> QED
      BY <3>3, <3>4, NodePositive DEF QueueInv, QueueExact
  <2> QED
    BY <1>0, <2>1, <2>2, FiringsFrame
<1>5. CASE StartStep
  <2>1. /\ pc = "start" /\ UNCHANGED <<latest, iteration, lastFired, cur>>
        /\ \/ steps' = Append(steps, NewStep) /\ pc' = "invoke"
           \/ steps' \in {steps, Append(steps, NewStep)} /\ pc' = "final" /\ outcome' = "failed"
    BY <1>5 DEF StartStep
  <2>2. cur \in Node
    BY <2>1 DEF QueueInv, Firing
  <2>3. CASE steps' = Append(steps, NewStep)
    BY <2>1, <2>2, <2>3, FiringsStarted
  <2>4. CASE steps' = steps /\ pc' = "final" /\ outcome' = "failed"
    BY <1>0, <2>1, <2>4, FiringsFrame
  <2> QED
    BY <2>1, <2>3, <2>4
<1>6. CASE Invoke \/ ChargeStep
  BY <1>0, <1>6, FiringsFrame DEF Invoke, ChargeStep
<1>7. CASE PersistStep
  <2>1. /\ pc = "persist" /\ UNCHANGED <<latest, iteration, lastFired, cur>>
        /\ steps' \in {steps, Finished}
        /\ pc' = "charge" \/ (pc' = "final" /\ outcome' = "failed")
    BY <1>7 DEF PersistStep
  <2>2. steps # <<>>
    BY <2>1 DEF RowsInv, LastOpen
  <2>3. SameRows
    BY <2>1, <2>2, FinishedKeeps DEF SameRows
  <2> QED
    BY <2>1, <2>3, FiringsFrame
<1>8. CASE Settle
  <2>1. pc = "settle" /\ UNCHANGED <<steps, latest, cur>>
    BY <1>8 DEF Settle
  <2>2. cur \in Node
    BY <2>1 DEF QueueInv, Firing
  <2>3. CASE result.err # "none"
    <3>1. pc' = "final" /\ outcome' = result.err /\ UNCHANGED <<iteration, lastFired>>
      BY <1>8, <2>3 DEF Settle
    <3>2. result.err \in {"failed", "timed_out"}
      BY <2>3 DEF TypeOK
    <3> QED
      BY <1>0, <2>1, <3>1, <3>2, FiringsFrame
  <2>4. CASE result.err = "none"
    BY <1>8, <2>1, <2>2, <2>4, FiringsSettled DEF Settle
  <2> QED
    BY <2>3, <2>4
<1>9. CASE RecordTrade \/ EndTurn
  BY <1>0, <1>9, FiringsFrame DEF RecordTrade, EndTurn
<1>10. CASE Propagate
  <2>1. PICK e \in fire : fire' = fire \ {e} /\ latest' = Arrive(e)
    BY <1>10 DEF Propagate
  <2>2. pc = "propagate" /\ UNCHANGED <<pc, steps, iteration, lastFired, cur>>
    BY <1>10 DEF Propagate
  <2>3. cur \in Node
    BY <2>2 DEF QueueInv
  <2> QED
    BY <2>1, <2>2, <2>3, FiringsArrived
<1>11. CASE Finalize
  BY <1>0, <1>11, FiringsFrame DEF Finalize, FInv, StopsInv
<1>12. CASE Crash
  BY <1>0, <1>12, FiringsFrame DEF Crash
<1>13. CASE Environment \/ UNCHANGED vars
  <2>1. UNCHANGED <<pc, steps, latest, iteration, lastFired, cur, fire, ready, outcome>>
    BY <1>13 DEF Environment, vars
  <2>2. /\ pc = "start" => IsReady(latest, cur)
        /\ pc \in {"final", "done"} /\ outcome = "completed" => ready = <<>> /\ cur = 0
    BY DEF FInv, StopsInv
  <2> QED
    BY <1>0, <2>1, <2>2, FiringsFrame
<1> QED
  BY <1>1, <1>2, <1>3, <1>4, <1>5, <1>6, <1>7, <1>8, <1>9, <1>10, <1>11, <1>12, <1>13
  DEF Next, Run

(* The initial states satisfy it.                                           *)
LEMMA FiringsInit == Init => FInv
<1> SUFFICES ASSUME Init PROVE FInv
  OBVIOUS
<1>1. /\ Len(steps) = 0 /\ pc = "preflight"
      /\ \A n \in Node : iteration[n] = 0 /\ lastFired[n] = -1
      /\ \A n \in Node, u \in Key : latest[n][u].seq = 0 /\ latest[n][u].iter = 0
      /\ Node \subseteq Key /\ Seed \in Key
  BY EmptySeq DEF Init, Key
<1>2. StampsInv
  BY <1>1 DEF StampsInv
<1>3. InputsInv
  <2>1. \A n \in Node : ~(latest[n][Seed].seq <= lastFired[n])
    BY <1>1
  <2> QED
    BY <1>1, <2>1 DEF InputsInv, Past, InStep
<1>4. StopsInv /\ FireInv
  BY <1>1 DEF StopsInv, FireInv
<1>5. FiringsJustified
  BY <1>1 DEF FiringsJustified
<1>6. BranchInv
  BY <1>1 DEF BranchInv
<1> QED
  BY <1>2, <1>3, <1>4, <1>5, <1>6 DEF FInv

(* The firings of a run keep their inductive invariant: what arrived since  *)
(* a node last fired is newer than all its rows, and what it holds          *)
(* otherwise is in one of them (executor.go:257-416).                       *)
THEOREM FiringsInvariant == Spec => []FInv
<1>1. IInv /\ FInv /\ [Next]_vars => FInv'
  BY FiringsStep DEF IInv
<1> QED
  BY <1>1, FiringsInit, RunInvariant, PTL DEF Spec

(* An `all` node first fires with an input from every non-loop upstream,    *)
(* and no node fires again without an input newer than those of each        *)
(* earlier firing (isReady, executor.go:460-495).                           *)
THEOREM FiringsAreJustified == Spec => []FiringsJustified
<1>1. FInv => FiringsJustified
  BY DEF FInv
<1> QED
  BY <1>1, FiringsInvariant, PTL

(* A run that ends as completed has given every node that has its required  *)
(* inputs the latest of each: the empty queue (executor.go:233-236) is no   *)
(* accident of a lost wake-up.                                              *)
THEOREM NothingIsMissed == Spec => []NothingMissed
<1>1. IInv /\ FInv => NothingMissed
  <2> SUFFICES ASSUME IInv, FInv, pc \in {"final", "done"}, outcome = "completed", NEW n \in Node,
                      \E u \in Key : latest[n][u].seq > 0,
                      Join[n] = "all" => NonLoopUpstream(n) \subseteq {u \in Key : latest[n][u].seq > 0}
               PROVE  \E j \in 1..Len(steps) : /\ steps[j].node = n
                                               /\ steps[j].inputs = [u \in Key |-> latest[n][u].iter]
    BY DEF NothingMissed
  <2>1. TypeOK /\ QueueInv
    BY DEF IInv
  <2>2. ready = <<>> /\ cur = 0
    BY DEF FInv, StopsInv
  <2>3. ~InQueue(n)
    BY <2>2 DEF InQueue
  <2>4. ~IsReady(latest, n)
    BY <2>1, <2>2, <2>3, NodePositive DEF QueueInv, QueueExact, Held
  <2>5. \A u \in Key : latest[n][u].seq > 0 => ~(latest[n][u].seq > lastFired[n])
    BY <2>4 DEF IsReady, Present
  <2>6. lastFired[n] \in Int /\ \A u \in Key : latest[n][u].seq \in Nat
    BY <2>1, Shapes
  <2>7. \A u \in Key : latest[n][u].seq <= lastFired[n]
    BY <2>5, <2>6
  <2> QED
    BY <2>7 DEF FInv, InputsInv, Inputs
<1> QED
  BY <1>1, RunInvariant, FiringsInvariant, PTL

(* Of a node's conditional edges a firing takes at most one                 *)
(* (edgeFiringPlan, edges.go:77).                                           *)
THEOREM OneBranchAtMost == Spec => []OneBranchPerFiring
<1>1. FInv => OneBranchPerFiring
  <2> SUFFICES ASSUME FInv, NEW d \in Edge, NEW e \in Edge, From[e] = From[d], To[d] # To[e],
                      \A f \in Out(From[d]) : To[f] \in {To[d], To[e]} => Cond[f] # "always",
                      latest[To[d]][From[d]].iter > 0
               PROVE  latest[To[d]][From[d]].iter # latest[To[e]][From[d]].iter
    BY DEF OneBranchPerFiring
  <2>1. From[d] \in Node /\ To[d] \in Node /\ To[e] \in Node
    BY WorkflowAssumption
  <2>2. BranchOnly(From[d], To[d]) /\ BranchOnly(From[d], To[e])
    BY DEF BranchOnly, Branch
  <2> QED
    BY <2>1, <2>2 DEF FInv, BranchInv
<1> QED
  BY <1>1, FiringsInvariant, PTL

----------------------------------------------------------------------------
(* The happy path: the executor decides on the thesis that was assessed.    *)
(* The proof follows the turns that thesis and risk assessor take: every    *)
(* verdict is about the thesis of the same number, and every thesis but the *)
(* first was given the verdict before it.                                   *)

(* What the argument needs of the happy path's graph; edge 5 takes the      *)
(* thesis to the executor.                                                  *)
HappyFacts ==
  /\ {executor, risk, scout, thesis, watcher} \subseteq Node
  /\ thesis \notin {watcher, scout, risk} /\ executor \notin {risk, thesis}
  /\ risk \notin {watcher, scout}
  /\ \A e \in Edge : /\ To[e] = thesis => From[e] \in {watcher, scout, risk}
                     /\ To[e] = risk => From[e] = thesis
  /\ 5 \in Edge /\ From[5] = thesis /\ To[5] = executor /\ Cond[5] = "always"
  /\ \A e \in Edge : From[e] = thesis /\ To[e] = executor => e = 5
  /\ BranchOnly(risk, executor) /\ BranchOnly(risk, thesis)
  /\ ~Entry(thesis) /\ ~Entry(risk)
  /\ LoopLimit[scout] = 1 /\ LoopLimit[watcher] = 1
  /\ \A n \in {executor, risk, thesis} : Join[n] = "all"
  /\ {watcher, scout} \subseteq NonLoopUpstream(thesis)
  /\ thesis \in NonLoopUpstream(risk)
  /\ risk \in NonLoopUpstream(executor)

(* The executor has the latest thesis, once it has been propagated.         *)
ThesisArrived ==
  \/ pc \in Over
  \/ latest[executor][thesis].iter = iteration[thesis]
  \/ pc \in {"trade", "propagate"} /\ cur = thesis /\ 5 \in fire

(* The thesis and the risk assessor take turns: the k-th verdict is about   *)
(* the k-th thesis, which was given the verdict before it.                  *)
Turns ==
  /\ iteration[risk] <= iteration[thesis] /\ iteration[thesis] <= iteration[risk] + 1
  /\ \A i \in 1..Len(steps) : /\ steps[i].node = thesis => steps[i].inputs[risk] + 1 = steps[i].iter
                              /\ steps[i].node = risk => steps[i].inputs[thesis] = steps[i].iter

(* Firings and rows: a firing has a row of its number, and the row in       *)
(* flight has the next one.                                                 *)
RowPerFiring ==
  /\ \A n \in Node : iteration[n] <= LoopLimit[n]
  /\ \A n \in Node : \A y \in 1..iteration[n] :
       \E i \in 1..Len(steps) : steps[i].node = n /\ steps[i].iter = y
  /\ pc \in InStep => steps[Len(steps)].iter = iteration[cur] + 1

(* Where the inputs of the two come from.                                   *)
Sources ==
  /\ \A u \in Key \ {watcher, scout, risk} : latest[thesis][u].iter = 0
  /\ \A u \in Key \ {thesis} : latest[risk][u].iter = 0

(* No thesis answers the verdict that the executor holds.                   *)
Unanswered ==
  \A i \in 1..Len(steps) : steps[i].node = thesis /\ latest[executor][risk].iter > 0 =>
     steps[i].inputs[risk] # latest[executor][risk].iter

HappyInv == ThesisArrived /\ Turns /\ RowPerFiring /\ Sources /\ Unanswered
              /\ ExecutorSeesAssessedThesis

(* The graph of cmd/runctl has them.                                        *)
LEMMA HappyPathFacts == IsHappyPath => HappyFacts
<1> SUFFICES ASSUME IsHappyPath PROVE HappyFacts
  OBVIOUS
<1>1. /\ Node = 1..5 /\ Edge = 1..6 /\ LoopEdge = {6}
      /\ From = <<5, 3, 4, 2, 4, 2>> /\ To = <<4, 4, 2, 1, 1, 4>>
      /\ Cond = <<"always", "always", "always", "approved", "always", "rejected">>
      /\ Join = [n \in 1..5 |-> "all"]
      /\ LoopLimit = [n \in 1..5 |-> IF n \in {4, 2} THEN 5 ELSE 1]
  BY DEF IsHappyPath, MCNode, MCEdge, MCFrom, MCTo, MCCond, MCLoop, MCJoin, MCLimit,
         executor, risk, scout, thesis, watcher
<1>2. /\ executor = 1 /\ risk = 2 /\ scout = 3 /\ thesis = 4 /\ watcher = 5
  BY DEF executor, risk, scout, thesis, watcher
<1>3. \A e \in Edge : e \in {1, 2, 3, 4, 5, 6}
  BY <1>1
<1>4. /\ From[1] = 5 /\ From[2] = 3 /\ From[3] = 4 /\ From[4] = 2 /\ From[5] = 4 /\ From[6] = 2
      /\ To[1] = 4 /\ To[2] = 4 /\ To[3] = 2 /\ To[4] = 1 /\ To[5] = 1 /\ To[6] = 4
  BY <1>1
<1>5. Cond[4] = "approved" /\ Cond[5] = "always" /\ Cond[6] = "rejected"
  BY <1>1
<1>6. {1, 2, 3, 4, 5, 6} \subseteq Edge /\ {1, 2, 3, 4, 5} \subseteq Node
  BY <1>1
<1>7. \A e \in Edge : /\ To[e] = 4 => From[e] \in {5, 3, 2}
                      /\ To[e] = 2 => From[e] = 4
                      /\ From[e] = 4 /\ To[e] = 1 => e = 5
                      /\ From[e] = 2 /\ To[e] = 1 => e = 4
                      /\ From[e] = 2 /\ To[e] = 4 => e = 6
  <2> TAKE e \in Edge
  <2>1. CASE e \in {1, 2, 3}
    BY <1>4, <2>1
  <2>2. CASE e \in {4, 5, 6}
    BY <1>4, <2>2
  <2> QED
    BY <1>3, <2>1, <2>2
<1>8. BranchOnly(2, 1) /\ BranchOnly(2, 4)
  BY <1>5, <1>7 DEF BranchOnly, Branch, Out
<1>9. 3 \in In(2) /\ 1 \in In(4)
  BY <1>4, <1>6 DEF In
<1>10. {5, 3} \subseteq NonLoopUpstream(4) /\ 4 \in NonLoopUpstream(2) /\ 2 \in NonLoopUpstream(1)
  <2>1. 1 \in In(4) \ LoopEdge /\ 2 \in In(4) \ LoopEdge /\ 3 \in In(2) \ LoopEdge
        /\ 4 \in In(1) \ LoopEdge
    BY <1>1, <1>4, <1>6 DEF In
  <2> QED
    BY <1>4, <2>1 DEF NonLoopUpstream
<1>11. LoopLimit[3] = 1 /\ LoopLimit[5] = 1 /\ Join[1] = "all" /\ Join[2] = "all" /\ Join[4] = "all"
  BY <1>1
<1> QED
  BY <1>2, <1>4, <1>5, <1>6, <1>7, <1>8, <1>9, <1>10, <1>11 DEF HappyFacts, Entry

(* The rows keep their nodes, numbers and inputs.                           *)
SameFirings ==
  /\ Len(steps') = Len(steps)
  /\ \A i \in 1..Len(steps) : /\ steps'[i].node = steps[i].node /\ steps'[i].iter = steps[i].iter
                              /\ steps'[i].inputs = steps[i].inputs

(* A step that moves no output and no iteration and keeps the rows keeps    *)
(* the invariant.                                                           *)
LEMMA HappyFrame ==
  ASSUME TypeOK, FInv, HappyInv, SameFirings, UNCHANGED <<latest, iteration>>,
         pc \in Over => pc' \in Over,
         pc \in {"trade", "propagate"} /\ cur = thesis /\ 5 \in fire =>
           \/ pc' \in Over
           \/ pc' \in {"trade", "propagate"} /\ UNCHANGED <<cur, fire>>,
         pc' \in InStep => pc \in InStep /\ cur' = cur
  PROVE  HappyInv'
<1>1. /\ Len(steps') = Len(steps) /\ Len(steps) \in Nat
      /\ \A i \in 1..Len(steps) : /\ steps'[i].node = steps[i].node /\ steps'[i].iter = steps[i].iter
                                  /\ steps'[i].inputs = steps[i].inputs
      /\ latest' = latest /\ iteration' = iteration
  BY Shapes DEF SameFirings
<1>2. ThesisArrived'
  BY <1>1 DEF HappyInv, ThesisArrived
<1>3. Turns'
  BY <1>1 DEF HappyInv, Turns
<1>4. RowPerFiring'
  <2>1. \A n \in Node : iteration'[n] <= LoopLimit[n]
    BY <1>1 DEF HappyInv, RowPerFiring
  <2>2. ASSUME NEW n \in Node, NEW y \in 1..iteration[n]
        PROVE  \E i \in 1..Len(steps) : steps'[i].node = n /\ steps'[i].iter = y
    BY <1>1, <2>2 DEF HappyInv, RowPerFiring
  <2>3. ASSUME pc' \in InStep PROVE steps'[Len(steps)].iter = iteration[cur] + 1 /\ cur' = cur
    <3>1. steps[Len(steps)].iter = iteration[cur] + 1 /\ cur' = cur
      BY <2>3 DEF HappyInv, RowPerFiring
    <3>2. steps # <<>>
      BY <2>3 DEF FInv, InputsInv
    <3>3. Len(steps) \in 1..Len(steps)
      BY <1>1, <3>2, Shapes, EmptySeq
    <3> QED
      BY <1>1, <3>1, <3>3
  <2> QED
    BY <1>1, <2>1, <2>2, <2>3 DEF RowPerFiring
<1>5. Sources'
  BY <1>1 DEF HappyInv, Sources
<1>6. Unanswered'
  BY <1>1 DEF HappyInv, Unanswered
<1>7. ExecutorSeesAssessedThesis'
  <2> SUFFICES ASSUME NEW j \in 1..Len(steps), steps[j].node = executor
               PROVE  \E i \in 1..(j - 1) :
                        /\ steps'[i].node = risk
                        /\ steps'[i].iter = steps[j].inputs[risk]
                        /\ steps'[i].inputs[thesis] = steps[j].inputs[thesis]
    BY <1>1 DEF ExecutorSeesAssessedThesis
  <2>1. PICK i \in 1..(j - 1) : /\ steps[i].node = risk
                                /\ steps[i].iter = steps[j].inputs[risk]
                                /\ steps[i].inputs[thesis] = steps[j].inputs[thesis]
    BY DEF HappyInv, ExecutorSeesAssessedThesis
  <2>2. i \in 1..Len(steps)
    BY <1>1
  <2> QED
    BY <1>1, <2>1, <2>2
<1> QED
  BY <1>2, <1>3, <1>4, <1>5, <1>6, <1>7 DEF HappyInv

(* Before the seeding there are no rows, and the two are no entry nodes.    *)
LEMMA HappySeeded ==
  ASSUME TypeOK, QueueInv, RowsInv, HappyFacts, HappyInv, pc = "count", pc' = "loop", SeedEntries,
         UNCHANGED <<steps, iteration>>
  PROVE  HappyInv'
<1>1. Len(steps) = 0 /\ Len(steps') = 0 /\ iteration' = iteration
  BY EmptySeq DEF RowsInv, Unseeded
<1>2. \A n \in Node, u \in Key : u # Seed \/ ~Entry(n) => latest'[n][u] = latest[n][u]
  BY DEF SeedEntries
<1>3. /\ {executor, risk, thesis} \subseteq Node /\ {executor, risk, thesis} \subseteq Key
      /\ Seed \notin Node /\ ~Entry(thesis) /\ ~Entry(risk)
  BY Shapes DEF HappyFacts
<1>4. /\ latest'[executor][thesis] = latest[executor][thesis]
      /\ latest'[executor][risk] = latest[executor][risk]
      /\ \A u \in Key : latest'[thesis][u] = latest[thesis][u] /\ latest'[risk][u] = latest[risk][u]
  BY <1>2, <1>3
<1>5. ThesisArrived'
  BY <1>1, <1>4 DEF HappyInv, ThesisArrived, Over, Ended
<1>6. Turns' /\ Unanswered' /\ ExecutorSeesAssessedThesis'
  BY <1>1 DEF HappyInv, Turns, Unanswered, ExecutorSeesAssessedThesis
<1>7. RowPerFiring'
  <2>1. \A n \in Node : \A y \in 1..iteration[n] : FALSE
    BY <1>1 DEF HappyInv, RowPerFiring
  <2> QED
    BY <1>1, <2>1 DEF HappyInv, RowPerFiring, InStep
<1>8. Sources'
  BY <1>4 DEF HappyInv, Sources
<1> QED
  BY <1>5, <1>6, <1>7, <1>8 DEF HappyInv

(* A firing that completes: its row has its number, and the thesis is on    *)
(* its way to the executor.                                                 *)
LEMMA HappySettled ==
  ASSUME TypeOK, FInv, StepsInv, HappyFacts, HappyInv, cur \in Node, pc = "settle",
         pc' \in {"trade", "propagate"},
         iteration' = [iteration EXCEPT ![cur] = @ + 1],
         fire' = FiringPlan(cur, result.out),
         UNCHANGED <<steps, latest, cur>>
  PROVE  HappyInv'
<1> DEFINE k == Len(steps)
<1>1. /\ steps' = steps /\ latest' = latest /\ cur' = cur /\ k \in Nat
      /\ iteration'[cur] = iteration[cur] + 1
      /\ \A n \in Node \ {cur} : iteration'[n] = iteration[n]
      /\ \A n \in Node : iteration[n] \in Nat
  BY Shapes DEF TypeOK
<1>2. /\ steps # <<>> /\ steps[k].node = cur /\ steps[k].iter = iteration[cur] + 1
      /\ steps[k].inputs = Inputs(cur)
  BY DEF FInv, InputsInv, InStep, HappyInv, RowPerFiring
<1>3. k \in 1..k
  BY <1>1, <1>2, Shapes, EmptySeq
<1>4. /\ {executor, risk, thesis} \subseteq Node /\ risk # thesis
      /\ {executor, risk, thesis} \subseteq Key
  BY Shapes DEF HappyFacts
<1>5. ThesisArrived'
  <2>1. latest[executor][thesis].iter = iteration[thesis]
    BY DEF HappyInv, ThesisArrived, Over, Ended
  <2>2. CASE cur = thesis
    <3>1. 5 \in FiringPlan(thesis, result.out)
      BY DEF HappyFacts, FiringPlan, Out
    <3> QED
      BY <1>1, <2>2, <3>1 DEF ThesisArrived
  <2>3. CASE cur # thesis
    BY <1>1, <1>4, <2>1, <2>3 DEF ThesisArrived
  <2> QED
    BY <2>2, <2>3
<1>6. Turns'
  <2>1. \A i \in 1..k : /\ steps[i].node = thesis => steps[i].inputs[risk] + 1 = steps[i].iter
                        /\ steps[i].node = risk => steps[i].inputs[thesis] = steps[i].iter
    BY DEF HappyInv, Turns
  <2>2. iteration[risk] <= iteration[thesis] /\ iteration[thesis] <= iteration[risk] + 1
    BY DEF HappyInv, Turns
  <2>3. /\ steps[k].inputs[risk] <= iteration[risk] /\ steps[k].inputs[risk] \in Nat
        /\ steps[k].inputs[thesis] <= iteration[thesis] /\ steps[k].inputs[thesis] \in Nat
    <3>1. steps[k].inputs[risk] = latest[cur][risk].iter /\ steps[k].inputs[thesis] = latest[cur][thesis].iter
      BY <1>2, <1>4 DEF Inputs
    <3>2. latest[cur][risk].iter <= iteration[risk] /\ latest[cur][thesis].iter <= iteration[thesis]
      BY <1>4 DEF FInv, StampsInv
    <3>3. latest[cur][risk].iter \in Nat /\ latest[cur][thesis].iter \in Nat
      BY <1>4, Shapes
    <3> QED
      BY <3>1, <3>2, <3>3
  <2>4. iteration'[risk] <= iteration'[thesis] /\ iteration'[thesis] <= iteration'[risk] + 1
    <3>1. CASE cur = thesis
      <4>1. steps[k].inputs[risk] + 1 = iteration[thesis] + 1
        BY <1>2, <1>3, <2>1, <3>1
      <4>2. iteration'[thesis] = iteration[thesis] + 1 /\ iteration'[risk] = iteration[risk]
        BY <1>1, <1>4, <3>1
      <4> QED
        BY <1>1, <1>4, <2>2, <2>3, <4>1, <4>2
    <3>2. CASE cur = risk
      <4>1. steps[k].inputs[thesis] = iteration[risk] + 1
        BY <1>2, <1>3, <2>1, <3>2
      <4>2. iteration'[thesis] = iteration[thesis] /\ iteration'[risk] = iteration[risk] + 1
        BY <1>1, <1>4, <3>2
      <4> QED
        BY <1>1, <1>4, <2>2, <2>3, <4>1, <4>2
    <3>3. CASE cur \notin {thesis, risk}
      BY <1>1, <1>4, <2>2, <3>3
    <3> QED
      BY <3>1, <3>2, <3>3
  <2> QED
    BY <1>1, <2>1, <2>4 DEF Turns
<1>7. RowPerFiring'
  <2>1. \A n \in Node : iteration'[n] <= LoopLimit[n]
    <3>1. steps[k].iter <= LoopLimit[steps[k].node]
      BY <1>3 DEF StepsInv
    <3>2. iteration'[cur] <= LoopLimit[cur]
      BY <1>1, <1>2, <3>1
    <3> QED
      BY <1>1, <3>2 DEF HappyInv, RowPerFiring
  <2>2. ASSUME NEW n \in Node, NEW y \in 1..iteration'[n]
        PROVE  \E i \in 1..k : steps[i].node = n /\ steps[i].iter = y
    <3>1. CASE n = cur /\ y = iteration[cur] + 1
      BY <1>2, <1>3, <3>1
    <3>2. CASE y \in 1..iteration[n]
      BY <3>2 DEF HappyInv, RowPerFiring
    <3>3. n # cur => y \in 1..iteration[n]
      BY <1>1
    <3>4. n = cur /\ y # iteration[cur] + 1 => y \in 1..iteration[n]
      BY <1>1
    <3> QED
      BY <3>1, <3>2, <3>3, <3>4
  <2> QED
    BY <1>1, <2>1, <2>2 DEF RowPerFiring, InStep
<1>8. Sources' /\ Unanswered' /\ ExecutorSeesAssessedThesis'
  BY <1>1 DEF HappyInv, Sources, Unanswered, ExecutorSeesAssessedThesis
<1> QED
  BY <1>5, <1>6, <1>7, <1>8 DEF HappyInv

(* An output that arrives: the executor hears of a verdict only when no     *)
(* thesis has answered it.                                                  *)
LEMMA HappyArrived ==
  ASSUME TypeOK, FInv, HappyFacts, HappyInv, cur \in Node, pc = "propagate", pc' = "propagate",
         NEW e \in fire, fire' = fire \ {e}, latest' = Arrive(e),
         UNCHANGED <<steps, iteration, cur>>
  PROVE  HappyInv'
<1>1. e \in Edge /\ To[e] \in Node /\ From[e] = cur /\ cur \in Key /\ fire \subseteq Out(cur)
  BY WorkflowAssumption, Shapes DEF FInv, FireInv, Out
<1>2. \A n \in Node, u \in Key :
        latest'[n][u] = IF n = To[e] /\ u = cur THEN [seq |-> seq + 1, iter |-> iteration[cur]]
                                                ELSE latest[n][u]
  BY <1>1 DEF Arrive, TypeOK
<1>3. /\ {executor, risk, thesis} \subseteq Node /\ risk # thesis
      /\ {executor, risk, thesis} \subseteq Key
      /\ To[e] = thesis => cur \in {watcher, scout, risk}
      /\ To[e] = risk => cur = thesis
      /\ cur = thesis /\ To[e] = executor => e = 5
      /\ From[5] = thesis /\ To[5] = executor
  BY <1>1, Shapes DEF HappyFacts
<1>4. steps' = steps /\ iteration' = iteration /\ cur' = cur
  OBVIOUS
<1>5. ThesisArrived'
  <2>1. CASE e = 5
    <3>1. latest'[executor][thesis].iter = iteration[thesis]
      BY <1>1, <1>2, <1>3, <2>1
    <3> QED
      BY <1>4, <3>1 DEF ThesisArrived
  <2>2. CASE e # 5
    <3>1. latest'[executor][thesis] = latest[executor][thesis]
      BY <1>2, <1>3, <2>2
    <3> QED
      BY <1>4, <2>2, <3>1 DEF HappyInv, ThesisArrived, Over, Ended
  <2> QED
    BY <2>1, <2>2
<1>6. Turns' /\ ExecutorSeesAssessedThesis'
  BY <1>4 DEF HappyInv, Turns, ExecutorSeesAssessedThesis
<1>7. RowPerFiring'
  BY <1>4 DEF HappyInv, RowPerFiring, InStep
<1>8. Sources'
  <2>1. \A u \in Key \ {watcher, scout, risk} : latest'[thesis][u] = latest[thesis][u]
    BY <1>2, <1>3
  <2>2. \A u \in Key \ {thesis} : latest'[risk][u] = latest[risk][u]
    BY <1>2, <1>3
  <2> QED
    BY <2>1, <2>2 DEF HappyInv, Sources
<1>9. Unanswered'
  <2>1. CASE To[e] = executor /\ cur = risk
    <3>1. latest'[executor][risk].iter = iteration[risk]
      BY <1>2, <1>3, <2>1
    <3>2. \A i \in 1..Len(steps) : steps[i].inputs[risk] < iteration[risk]
      BY <2>1 DEF FInv, FireInv
    <3>3. \A i \in 1..Len(steps) : steps[i].inputs[risk] \in Nat
      BY <1>3, Shapes
    <3>4. iteration[risk] \in Nat
      BY <1>3, Shapes
    <3>5. \A i \in 1..Len(steps) : steps[i].inputs[risk] # iteration[risk]
      BY <3>2, <3>3, <3>4
    <3> QED
      BY <1>4, <3>1, <3>5 DEF Unanswered
  <2>2. CASE ~(To[e] = executor /\ cur = risk)
    <3>1. latest'[executor][risk] = latest[executor][risk]
      BY <1>2, <1>3, <2>2
    <3> QED
      BY <1>4, <3>1 DEF HappyInv, Unanswered
  <2> QED
    BY <2>1, <2>2
<1> QED
  BY <1>5, <1>6, <1>7, <1>8, <1>9 DEF HappyInv

(* The input that lets one of the two fire again is the other's: the other  *)
(* inputs it has come from nodes that fire once.                            *)
NewerFromOther ==
  \A j \in 1..Len(steps) : \A i \in 1..(j - 1) : steps[i].node = steps[j].node =>
    /\ steps[j].node = thesis => steps[j].inputs[risk] > steps[i].inputs[risk]
    /\ steps[j].node = risk => steps[j].inputs[thesis] > steps[i].inputs[thesis]

(* It holds in every state that the invariants describe.                    *)
LEMMA OtherIsNewer ==
  TypeOK /\ FInv /\ HappyFacts /\ Sources /\ RowPerFiring => NewerFromOther
<1> SUFFICES ASSUME TypeOK, FInv, HappyFacts, Sources, RowPerFiring,
                    NEW j \in 1..Len(steps), NEW i \in 1..(j - 1), steps[i].node = steps[j].node
             PROVE  /\ steps[j].node = thesis => steps[j].inputs[risk] > steps[i].inputs[risk]
                    /\ steps[j].node = risk => steps[j].inputs[thesis] > steps[i].inputs[thesis]
  BY DEF NewerFromOther
<1>1. i \in 1..Len(steps)
  BY Shapes
<1>2. \A u \in Key : steps[i].inputs[u] \in Nat /\ steps[j].inputs[u] \in Nat
  BY <1>1, Shapes
<1>3. PICK u \in Key : steps[j].inputs[u] > steps[i].inputs[u]
  BY DEF FInv, FiringsJustified
<1>4. /\ steps[j].inputs[u] <= latest[steps[j].node][u].iter
      /\ \A n \in Node : latest[n][u].iter \in Nat
  BY Shapes DEF FInv, StampsInv
<1>5. latest[steps[j].node][u].iter # 0
  <2>1. steps[j].node \in Node
    BY Shapes
  <2> QED
    BY <1>2, <1>3, <1>4, <2>1
<1>6. CASE steps[j].node = thesis
  <2>1. u \in {watcher, scout, risk}
    BY <1>5, <1>6 DEF Sources
  <2>2. CASE u \in {watcher, scout}
    <3>1. steps[i].inputs[u] > 0
      <4>1. Join[thesis] = "all" /\ u \in NonLoopUpstream(thesis)
        BY <2>2 DEF HappyFacts
      <4> QED
        BY <1>1, <1>6, <4>1 DEF FInv, FiringsJustified
    <3>2. u \in Node /\ thesis \in Node /\ LoopLimit[u] = 1
      BY <2>2 DEF HappyFacts
    <3>3. latest[thesis][u].iter <= iteration[u] /\ iteration[u] <= 1
      BY <3>2 DEF FInv, StampsInv, RowPerFiring
    <3>4. iteration[u] \in Nat
      BY <3>2, Shapes
    <3> QED
      BY <1>2, <1>3, <1>4, <1>6, <3>1, <3>2, <3>3, <3>4
  <2>3. CASE u = risk
    BY <1>3, <1>6, <2>3 DEF HappyFacts
  <2> QED
    BY <2>1, <2>2, <2>3
<1>7. CASE steps[j].node = risk
  <2>1. u = thesis
    BY <1>5, <1>7 DEF Sources
  <2> QED
    BY <1>3, <1>7, <2>1 DEF HappyFacts
<1> QED
  BY <1>6, <1>7

(* The same of the state after a step.                                      *)
LEMMA OtherIsNewerNext ==
  HappyFacts /\ TypeOK' /\ FInv' /\ Sources' /\ RowPerFiring' => NewerFromOther'
<1>1. HappyFacts => HappyFacts'
  BY DEF HappyFacts, BranchOnly, Branch, Out, Entry, In, NonLoopUpstream
<1>2. TypeOK' /\ FInv' /\ HappyFacts' /\ Sources' /\ RowPerFiring' => NewerFromOther'
  BY OtherIsNewer, PTL
<1> QED
  BY <1>1, <1>2

(* A row that begins continues the turns, and when it is the executor's it  *)
(* has the thesis of its verdict: a later thesis would have been given that *)
(* very verdict, which approved.                                            *)
LEMMA HappyStarted ==
  ASSUME TypeOK, TypeOK', FInv, FInv', HappyFacts, HappyInv, cur \in Node, pc = "start",
         iteration[cur] < LoopLimit[cur], steps' = Append(steps, NewStep),
         pc' \in {"invoke", "final"}, UNCHANGED <<latest, iteration, cur>>
  PROVE  HappyInv'
<1> DEFINE k == Len(steps) + 1
<1>1. /\ Len(steps') = k /\ Len(steps) \in Nat
      /\ \A i \in 1..Len(steps) : steps'[i] = steps[i]
      /\ steps'[k].node = cur /\ steps'[k].inputs = Inputs(cur)
      /\ latest' = latest /\ iteration' = iteration /\ cur' = cur
  BY NewRow, Shapes
<1>2. steps'[k].iter = iteration[cur] + 1
  <2>1. steps \in Seq(Row) /\ NewStep \in Row
    BY NewStepRow DEF TypeOK
  <2>2. steps'[k] = NewStep
    BY <2>1, AppendProperties
  <2> QED
    BY <2>2 DEF NewStep
<1>3. \A u \in Key : steps'[k].inputs[u] = latest[cur][u].iter /\ latest[cur][u].iter \in Nat
  BY <1>1, Shapes DEF Inputs
<1> HIDE DEF k
<1>4. \A i \in 1..k : i \in 1..Len(steps) \/ i = k
  BY <1>1 DEF k
<1>5. k \in 1..k /\ (\A i \in 1..Len(steps) : i \in 1..k /\ i \in 1..(k - 1))
  BY <1>1 DEF k
<1>6. /\ {executor, risk, thesis} \subseteq Node /\ risk # thesis
      /\ {executor, risk, thesis} \subseteq Key /\ executor \notin {risk, thesis}
      /\ iteration[risk] \in Nat /\ iteration[thesis] \in Nat
  BY Shapes DEF HappyFacts
<1>7. /\ latest[executor][thesis].iter = iteration[thesis]
      /\ iteration[risk] <= iteration[thesis] /\ iteration[thesis] <= iteration[risk] + 1
      /\ \A i \in 1..Len(steps) : /\ steps[i].node = thesis => steps[i].inputs[risk] + 1 = steps[i].iter
                                  /\ steps[i].node = risk => steps[i].inputs[thesis] = steps[i].iter
      /\ \A n \in Node : \A y \in 1..iteration[n] :
           \E i \in 1..Len(steps) : steps[i].node = n /\ steps[i].iter = y
  BY DEF HappyInv, ThesisArrived, Over, Ended, Turns, RowPerFiring
<1>8. Sources'
  BY <1>1 DEF HappyInv, Sources
<1>9. RowPerFiring'
  <2>1. \A n \in Node : iteration'[n] <= LoopLimit[n]
    BY <1>1 DEF HappyInv, RowPerFiring
  <2>2. ASSUME NEW n \in Node, NEW y \in 1..iteration[n]
        PROVE  \E i \in 1..k : steps'[i].node = n /\ steps'[i].iter = y
    BY <1>1, <1>5, <1>7, <2>2
  <2> QED
    BY <1>1, <1>2, <2>1, <2>2 DEF RowPerFiring
<1>10. NewerFromOther'
  BY <1>8, <1>9, OtherIsNewerNext
<1>11. ASSUME NEW i \in 1..Len(steps), steps[i].node = cur
       PROVE  /\ cur = thesis => latest[thesis][risk].iter > steps[i].inputs[risk]
              /\ cur = risk => latest[risk][thesis].iter > steps[i].inputs[thesis]
  <2>1. steps'[i].node = cur /\ i \in 1..(k - 1) /\ k \in 1..Len(steps')
    BY <1>1, <1>5, <1>11
  <2>2. /\ steps'[k].node = thesis => steps'[k].inputs[risk] > steps'[i].inputs[risk]
        /\ steps'[k].node = risk => steps'[k].inputs[thesis] > steps'[i].inputs[thesis]
    BY <1>1, <2>1, <1>10 DEF NewerFromOther
  <2> QED
    BY <1>1, <1>3, <1>6, <1>11, <2>2
<1>12. \A n, u \in Node : latest[n][u].iter <= iteration[u] /\ latest[n][u].iter \in Nat
  BY Shapes DEF FInv, StampsInv
<1>13. ASSUME Join[cur] = "all", NEW u \in NonLoopUpstream(cur) PROVE latest[cur][u].iter > 0
  <2>1. IsReady(latest, cur)
    BY DEF FInv, StopsInv
  <2>2. u \in Key /\ latest[cur][u].seq > 0
    BY <1>13, <2>1 DEF IsReady, Present
  <2> QED
    BY <2>2 DEF FInv, StampsInv
<1>14. cur = thesis => latest[thesis][risk].iter = iteration[thesis]
  <2> SUFFICES ASSUME cur = thesis PROVE latest[thesis][risk].iter = iteration[thesis]
    OBVIOUS
  <2>1. latest[thesis][risk].iter <= iteration[risk] /\ latest[thesis][risk].iter \in Nat
    BY <1>6, <1>12
  <2>2. CASE iteration[thesis] = 0
    BY <1>6, <1>7, <2>1, <2>2
  <2>3. CASE iteration[thesis] > 0
    <3>1. iteration[thesis] \in 1..iteration[thesis]
      BY <1>6, <2>3
    <3>2. PICK i \in 1..Len(steps) : steps[i].node = thesis /\ steps[i].iter = iteration[thesis]
      BY <1>6, <1>7, <3>1
    <3>3. steps[i].inputs[risk] + 1 = iteration[thesis] /\ steps[i].inputs[risk] \in Nat
      BY <1>6, <1>7, <3>2, Shapes
    <3>4. latest[thesis][risk].iter > steps[i].inputs[risk]
      BY <1>11, <3>2
    <3> QED
      BY <1>6, <1>7, <2>1, <3>3, <3>4
  <2> QED
    BY <1>6, <2>2, <2>3
<1>15. cur = risk => latest[risk][thesis].iter = iteration[risk] + 1
  <2> SUFFICES ASSUME cur = risk PROVE latest[risk][thesis].iter = iteration[risk] + 1
    OBVIOUS
  <2>1. latest[risk][thesis].iter <= iteration[thesis] /\ latest[risk][thesis].iter \in Nat
    BY <1>6, <1>12
  <2>2. CASE iteration[risk] = 0
    <3>1. latest[risk][thesis].iter > 0
      BY <1>13 DEF HappyFacts
    <3> QED
      BY <1>6, <1>7, <2>1, <2>2, <3>1
  <2>3. CASE iteration[risk] > 0
    <3>1. iteration[risk] \in 1..iteration[risk]
      BY <1>6, <2>3
    <3>2. PICK i \in 1..Len(steps) : steps[i].node = risk /\ steps[i].iter = iteration[risk]
      BY <1>6, <1>7, <3>1
    <3>3. steps[i].inputs[thesis] = iteration[risk]
      BY <1>7, <3>2
    <3>4. latest[risk][thesis].iter > steps[i].inputs[thesis]
      BY <1>11, <3>2
    <3> QED
      BY <1>6, <1>7, <2>1, <3>3, <3>4
  <2> QED
    BY <1>6, <2>2, <2>3
<1>16. ThesisArrived'
  BY <1>1, <1>7 DEF ThesisArrived
<1>17. Turns'
  <2>1. /\ cur = thesis => steps'[k].inputs[risk] + 1 = steps'[k].iter
        /\ cur = risk => steps'[k].inputs[thesis] = steps'[k].iter
    BY <1>2, <1>3, <1>6, <1>14, <1>15
  <2>2. \A i \in 1..k : /\ steps'[i].node = thesis => steps'[i].inputs[risk] + 1 = steps'[i].iter
                        /\ steps'[i].node = risk => steps'[i].inputs[thesis] = steps'[i].iter
    <3> TAKE i \in 1..k
    <3>1. CASE i \in 1..Len(steps)
      BY <1>1, <1>7, <3>1
    <3>2. CASE i = k
      BY <1>1, <2>1, <3>2
    <3> QED
      BY <1>4, <3>1, <3>2
  <2> QED
    BY <1>1, <1>7, <2>2 DEF Turns
<1>18. Unanswered'
  <2> SUFFICES ASSUME NEW i \in 1..k, steps'[i].node = thesis, latest[executor][risk].iter > 0
               PROVE  steps'[i].inputs[risk] # latest[executor][risk].iter
    BY <1>1 DEF Unanswered
  <2>1. CASE i \in 1..Len(steps)
    BY <1>1, <2>1 DEF HappyInv, Unanswered
  <2>2. CASE i = k
    <3>1. cur = thesis /\ steps'[i].inputs[risk] = latest[thesis][risk].iter
      BY <1>1, <1>3, <1>6, <2>2
    <3>2. BranchOnly(risk, executor) /\ BranchOnly(risk, thesis)
      BY DEF HappyFacts
    <3>3. latest[executor][risk].iter # latest[thesis][risk].iter
      BY <1>6, <3>2 DEF FInv, BranchInv
    <3> QED
      BY <3>1, <3>3
  <2> QED
    BY <1>4, <2>1, <2>2
<1>19. ExecutorSeesAssessedThesis'
  <2> DEFINE x == latest[executor][risk].iter
  <2>1. ASSUME cur = executor
        PROVE  \E i \in 1..Len(steps) : /\ steps[i].node = risk /\ steps[i].iter = x
                                        /\ steps[i].inputs[thesis] = iteration[thesis]
    <3>1. x > 0 /\ x <= iteration[risk] /\ x \in Nat
      BY <1>6, <1>12, <1>13, <2>1 DEF HappyFacts
    <3>2. x \in 1..iteration[risk]
      BY <1>6, <3>1
    <3>3. PICK i \in 1..Len(steps) : steps[i].node = risk /\ steps[i].iter = x
      BY <1>6, <1>7, <3>2
    <3>4. steps[i].inputs[thesis] = x
      BY <1>7, <3>3
    <3>5. iteration[thesis] = x
      <4>1. x <= iteration[thesis]
        BY <1>6, <1>7, <3>1
      <4>2. ASSUME x # iteration[thesis] PROVE FALSE
        <5>1. x + 1 \in 1..iteration[thesis]
          BY <1>6, <3>1, <4>1, <4>2
        <5>2. PICK h \in 1..Len(steps) : steps[h].node = thesis /\ steps[h].iter = x + 1
          BY <1>6, <1>7, <5>1
        <5>3. steps[h].inputs[risk] + 1 = x + 1 /\ steps[h].inputs[risk] \in Nat
          BY <1>6, <1>7, <5>2, Shapes
        <5>4. steps[h].inputs[risk] = x
          BY <3>1, <5>3
        <5> QED
          BY <3>1, <5>2, <5>4 DEF HappyInv, Unanswered
      <4> QED
        BY <4>2
    <3> QED
      BY <3>3, <3>4, <3>5
  <2> HIDE DEF x
  <2> SUFFICES ASSUME NEW j \in 1..k, steps'[j].node = executor
               PROVE  \E i \in 1..(j - 1) :
                        /\ steps'[i].node = risk
                        /\ steps'[i].iter = steps'[j].inputs[risk]
                        /\ steps'[i].inputs[thesis] = steps'[j].inputs[thesis]
    BY <1>1 DEF ExecutorSeesAssessedThesis
  <2>2. CASE j \in 1..Len(steps)
    <3>1. PICK i \in 1..(j - 1) : /\ steps[i].node = risk
                                  /\ steps[i].iter = steps[j].inputs[risk]
                                  /\ steps[i].inputs[thesis] = steps[j].inputs[thesis]
      BY <1>1, <2>2 DEF HappyInv, ExecutorSeesAssessedThesis
    <3>2. i \in 1..Len(steps)
      BY <1>1, <2>2
    <3> QED
      BY <1>1, <2>2, <3>1, <3>2
  <2>3. CASE j = k
    <3>1. cur = executor
      BY <1>1, <2>3
    <3>2. PICK i \in 1..Len(steps) : /\ steps[i].node = risk /\ steps[i].iter = x
                                     /\ steps[i].inputs[thesis] = iteration[thesis]
      BY <2>1, <3>1
    <3>3. steps'[k].inputs[risk] = x /\ steps'[k].inputs[thesis] = iteration[thesis]
      BY <1>3, <1>6, <1>7, <3>1 DEF x
    <3> QED
      BY <1>1, <1>5, <2>3, <3>2, <3>3
  <2> QED
    BY <1>4, <2>2, <2>3
<1> QED
  BY <1>8, <1>9, <1>16, <1>17, <1>18, <1>19 DEF HappyInv

(* Every step of a run keeps the invariant of the happy path.               *)
LEMMA HappyStep ==
  ASSUME HappyFacts
  PROVE  IInv /\ FInv /\ LInv /\ HappyInv /\ TypeOK' /\ FInv' /\ [Next]_vars => HappyInv'
<1> SUFFICES ASSUME TypeOK, QueueInv, RowsInv, FInv, StepsInv, HappyInv,
                    TypeOK', FInv', [Next]_vars
             PROVE  HappyInv'
  BY DEF IInv, LInv
<1> USE DEF shared, rows, graph, clocks, history, Stop, Ended, Over, InStep
<1>0. steps' = steps => SameFirings
  BY DEF SameFirings
<1>1. CASE Preflight \/ CreateRun
  BY <1>0, <1>1, HappyFrame DEF Preflight, CreateRun
<1>2. CASE CountRun
  <2>1. CASE pc' = "loop"
    BY <1>2, <2>1, HappySeeded DEF CountRun
  <2>2. CASE pc' # "loop"
    <3>1. pc = "count" /\ pc' = "final" /\ UNCHANGED <<steps, latest, iteration>>
      BY <1>2, <2>2 DEF CountRun
    <3> QED
      BY <1>0, <3>1, HappyFrame
  <2> QED
    BY <2>1, <2>2
<1>3. CASE StopAtEmptyQueue \/ StopAtStepCap \/ StopAtDeadline \/ StopAtKillSwitch
  <2>1. pc = "loop" /\ pc' = "final" /\ UNCHANGED <<steps, latest, iteration>>
    BY <1>3 DEF StopAtEmptyQueue, StopAtStepCap, StopAtDeadline, StopAtKillSwitch, MayFire
  <2> QED
    BY <1>0, <2>1, HappyFrame
<1>4. CASE TakeNode
  <2>1. pc = "loop" /\ pc' \in {"start", "final"} /\ UNCHANGED <<steps, latest, iteration>>
    BY <1>4 DEF TakeNode, MayFire
  <2> QED
    BY <1>0, <2>1, HappyFrame
<1>5. CASE StartStep
  <2>1. /\ pc = "start" /\ pc' \in {"invoke", "final"} /\ UNCHANGED <<latest, iteration, cur>>
        /\ steps' = Append(steps, NewStep) \/ (steps' = steps /\ pc' = "final")
    BY <1>5 DEF StartStep
  <2>2. cur \in Node /\ iteration[cur] < LoopLimit[cur]
    BY <2>1 DEF QueueInv, Firing, StepsInv
  <2>3. CASE steps' = Append(steps, NewStep)
    BY <2>1, <2>2, <2>3, HappyStarted
  <2>4. CASE steps' = steps /\ pc' = "final"
    BY <1>0, <2>1, <2>4, HappyFrame
  <2> QED
    BY <2>1, <2>3, <2>4
<1>6. CASE Invoke \/ ChargeStep
  BY <1>0, <1>6, HappyFrame DEF Invoke, ChargeStep
<1>7. CASE PersistStep
  <2>1. /\ pc = "persist" /\ pc' \in {"charge", "final"} /\ UNCHANGED <<latest, iteration, cur>>
        /\ steps' \in {steps, Finished}
    BY <1>7 DEF PersistStep
  <2>2. steps # <<>>
    BY <2>1 DEF RowsInv, LastOpen
  <2>3. SameFirings
    BY <1>0, <2>1, <2>2, FinishedKeeps, FinishedNames DEF SameFirings
  <2> QED
    BY <2>1, <2>3, HappyFrame
<1>8. CASE Settle
  <2>1. pc = "settle" /\ UNCHANGED <<steps, latest, cur>>
    BY <1>8 DEF Settle
  <2>2. cur \in Node
    BY <2>1 DEF QueueInv, Firing
  <2>3. CASE result.err # "none"
    <3>1. pc' = "final" /\ UNCHANGED iteration
      BY <1>8, <2>3 DEF Settle
    <3> QED
      BY <1>0, <2>1, <3>1, HappyFrame
  <2>4. CASE result.err = "none"
    BY <1>8, <2>1, <2>2, <2>4, HappySettled DEF Settle
  <2> QED
    BY <2>3, <2>4
<1>9. CASE RecordTrade \/ EndTurn
  BY <1>0, <1>9, HappyFrame DEF RecordTrade, EndTurn
<1>10. CASE Propagate
  <2>1. PICK e \in fire : fire' = fire \ {e} /\ latest' = Arrive(e)
    BY <1>10 DEF Propagate
  <2>2. pc = "propagate" /\ UNCHANGED <<pc, steps, iteration, cur>>
    BY <1>10 DEF Propagate
  <2>3. cur \in Node
    BY <2>2 DEF QueueInv
  <2> QED
    BY <2>1, <2>2, <2>3, HappyArrived
<1>11. CASE Finalize \/ Crash
  BY <1>0, <1>11, HappyFrame DEF Finalize, Crash
<1>12. CASE Environment \/ UNCHANGED vars
  <2>1. UNCHANGED <<pc, steps, latest, iteration, cur, fire>>
    BY <1>12 DEF Environment, vars
  <2> QED
    BY <1>0, <2>1, HappyFrame
<1> QED
  BY <1>1, <1>2, <1>3, <1>4, <1>5, <1>6, <1>7, <1>8, <1>9, <1>10, <1>11, <1>12
  DEF Next, Run

(* Nothing has fired at first.                                              *)
LEMMA HappyInit ==
  ASSUME HappyFacts
  PROVE  Init => HappyInv
<1> SUFFICES ASSUME Init PROVE HappyInv
  OBVIOUS
<1>1. /\ Len(steps) = 0 /\ pc = "preflight"
      /\ \A n \in Node : iteration[n] = 0
      /\ \A n \in Node, u \in Key : latest[n][u].iter = 0
  BY EmptySeq DEF Init
<1>2. /\ {executor, risk, thesis} \subseteq Node /\ {executor, risk, thesis} \subseteq Key
  BY DEF HappyFacts, Key
<1>3. ThesisArrived /\ Sources /\ Turns
  BY <1>1, <1>2 DEF ThesisArrived, Sources, Turns
<1>4. RowPerFiring
  <2>1. \A n \in Node : 0 <= LoopLimit[n]
    BY WorkflowAssumption
  <2>2. \A n \in Node : \A y \in 1..iteration[n] : FALSE
    BY <1>1
  <2> QED
    BY <1>1, <2>1, <2>2 DEF RowPerFiring, InStep
<1>5. Unanswered /\ ExecutorSeesAssessedThesis
  BY <1>1 DEF Unanswered, ExecutorSeesAssessedThesis
<1> QED
  BY <1>3, <1>4, <1>5 DEF HappyInv

(* On the happy path, whatever its steps cost and produce, however long     *)
(* they take and whatever fails, the executor decides on the thesis that    *)
(* the verdict it was given is about (executor.go:257-416, the graph of     *)
(* cmd/runctl).                                                             *)
THEOREM ExecutorSeesItsThesis ==
  ASSUME IsHappyPath
  PROVE  Spec => []ExecutorSeesAssessedThesis
<1>1. HappyFacts
  BY HappyPathFacts
<1>2. Init => HappyInv
  BY <1>1, HappyInit
<1>3. IInv /\ FInv /\ LInv /\ HappyInv /\ TypeOK' /\ FInv' /\ [Next]_vars => HappyInv'
  BY <1>1, HappyStep
<1>4. IInv => TypeOK
  BY DEF IInv
<1>5. HappyInv => ExecutorSeesAssessedThesis
  BY DEF HappyInv
<1> QED
  BY <1>2, <1>3, <1>4, <1>5, RunInvariant, FiringsInvariant, LimitsInvariant, PTL DEF Spec
=============================================================================

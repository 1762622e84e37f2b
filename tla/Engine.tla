------------------------------- MODULE Engine -------------------------------
(* One run of a workflow: Executor.Run of internal/engine.  The run goes    *)
(* through the statements of Run in order (pc); between two of them it can  *)
(* crash, the operator can flip the kill switch and other runs of the user  *)
(* can count and charge.  The database is external: a call applies or       *)
(* fails, and a failed write may have been applied all the same (a reply    *)
(* lost after the commit).                                                  *)
(*                                                                          *)
(* A step's output is abstracted to what the edges and the paper trade read *)
(* of it; payloads are identified by the iteration that produced them.      *)
(* Node keys and edges are numbers, so that they have the order of node_key *)
(* and of EdgeOrderClause.                                                  *)
EXTENDS Integers, Sequences, FiniteSets, Functions

CONSTANTS
  Node, Edge,        \* the workflow, as NewGraph built it
  From, To, Cond,    \* ends and condition of each edge
  LoopEdge,          \* edges marked by markLoopEdges (module LoopEdges)
  Join, LoopLimit,   \* join_strategy and loop_iteration_limit of each node
  Decider,           \* nodes whose output type is trading_decision.v1
  EntrySeq,          \* entry nodes sorted by node_key
  Outputs,           \* outputs an agent may produce, per node
  MaxStepsPerRun, PerStepTimeout, PerRunTimeout,
  MaxRunsPerDay, MaxCostUSDPerDay,
  StepCosts,         \* what one Invoke can cost; 0: no tokens, or tokens without a price
  Durations,         \* how long one Invoke can take
  MaxFaults,         \* bound: database calls that fail
  MaxEnv,            \* bound: actions of the operator and of other runs
  MayCrash           \* may the process die during the run?

Seed == 0                    \* upstream key of the seeded market_target
Key  == Node \cup {Seed}

Out(n) == {e \in Edge : From[e] = n}
In(n)  == {e \in Edge : To[e] = n}
NonLoopUpstream(n) == {From[e] : e \in In(n) \ LoopEdge}
IsTerminal(n) == n \in Decider /\ Out(n) = {}

Output == [approved : {"absent", "true", "false", "malformed"},
           text : SUBSET STRING, side : {"none", "YES", "NO", "ABSTAIN"}]

ASSUME WorkflowAssumption ==
  /\ Node \subseteq Nat \ {0} /\ Edge \subseteq Nat /\ LoopEdge \subseteq Edge
  /\ From \in [Edge -> Node] /\ To \in [Edge -> Node]
  /\ Join \in [Node -> {"all", "first"}] /\ LoopLimit \in [Node -> Nat]
  /\ Cond \in [Edge -> STRING] /\ Outputs \in [Node -> SUBSET Output]
  /\ Decider \subseteq Node
ASSUME EntryAssumption ==
  /\ EntrySeq \in Seq(Node) /\ EntrySeq # <<>>
  /\ \A n \in Node : In(n) = {} <=> \E i \in 1..Len(EntrySeq) : EntrySeq[i] = n
  /\ \A i, j \in 1..Len(EntrySeq) : i < j => EntrySeq[i] < EntrySeq[j]
ASSUME LimitAssumption ==
  /\ MaxStepsPerRun \in Nat \ {0} /\ PerStepTimeout \in Nat /\ PerRunTimeout \in Nat
  /\ MaxRunsPerDay \in Nat /\ MaxCostUSDPerDay \in Nat
  /\ StepCosts \subseteq Nat /\ Durations \subseteq 0..PerStepTimeout
  /\ MaxFaults \in Nat /\ MaxEnv \in Nat /\ MayCrash \in BOOLEAN
ASSUME CostAssumption == \E c \in StepCosts : \A d \in StepCosts : d <= c

VARIABLES
  pc,          \* the statement of Run that comes next
  killSwitch, usage,                \* shared rows: system_config, user_usage_daily
  runStatus, steps, trades,         \* the run's rows
  iteration, lastFired, latest,     \* per node: Iteration, LastFiredSeq, LatestUpstreamOutputs
  pending, ready, seq, fire,        \* Pending, the ready queue, seq, edges still to propagate
  cur, stepCount, now,              \* the node being fired, steps and time since the start
  result, outcome,                  \* what Invoke returned; terminalStatus
  env, faults,                      \* counters of the bounds MaxEnv and MaxFaults
  spent, charged, others,           \* history: paid by this run, added to usage by it, by others
  late, over                        \* history: steps begun since the switch went on, paid steps over the cap

shared  == <<killSwitch, usage, env, others>>
rows    == <<runStatus, steps, trades>>
graph   == <<iteration, lastFired, latest, pending, seq, fire>>
clocks  == <<stepCount, now>>
history == <<spent, charged, late, over>>
vars == <<pc, shared, rows, graph, ready, cur, clocks, result, outcome, faults, history>>

----------------------------------------------------------------------------
(* Edge conditions.  The boolean reads of `approved` differ in the default  *)
(* they give a malformed value, so that it matches neither condition.       *)
Matches(out, cond) ==
  CASE cond = "always"   -> TRUE
    [] cond = "approved" -> out.approved = "true"
    [] cond = "rejected" -> out.approved = "false"
    [] OTHER             -> cond \in out.text

(* Mutant of FiringPlan: every matching condition fires, not the first one. *)
FiringPlanAll(n, out) == {e \in Out(n) : Matches(out, Cond[e])}

(* Every `always` edge, and the first conditional edge that matches.        *)
FiringPlan(n, out) ==
  LET hits == {e \in Out(n) : Cond[e] # "always" /\ Matches(out, Cond[e])}
  IN {e \in Out(n) : Cond[e] = "always"} \cup {e \in hits : \A d \in hits : e <= d}

(* isReady on the inputs lat; the code's `latest` holds an upstream when    *)
(* its sequence number is positive.                                         *)
Present(lat, n) == {u \in Key : lat[n][u].seq > 0}

(* Mutant of IsReady: a loop edge counts towards the first firing.          *)
IsReadyAllUpstream(lat, n) ==
  /\ \E u \in Present(lat, n) : lat[n][u].seq > lastFired[n]
  /\ Join[n] = "all" => {From[e] : e \in In(n)} \subseteq Present(lat, n)

(* Mutant of IsReady: every join is `first`.                                *)
IsReadyAny(lat, n) == \E u \in Present(lat, n) : lat[n][u].seq > lastFired[n]

(* Something arrived since the last firing, and an `all` join has every     *)
(* upstream it waits for at first.                                          *)
IsReady(lat, n) ==
  /\ \E u \in Present(lat, n) : lat[n][u].seq > lastFired[n]
  /\ Join[n] = "all" => NonLoopUpstream(n) \subseteq Present(lat, n)

----------------------------------------------------------------------------
NoResult == [err |-> "none", cost |-> 0, out |-> [approved |-> "absent", text |-> {}, side |-> "none"]]

Init ==
  /\ pc = "preflight"
  /\ killSwitch \in BOOLEAN
  /\ usage = [runs |-> 0, cost |-> 0] /\ env = 0 /\ others = 0
  /\ runStatus = "none" /\ steps = <<>> /\ trades = <<>>
  /\ iteration = [n \in Node |-> 0]
  /\ lastFired = [n \in Node |-> -1]
  /\ latest = [n \in Node |-> [u \in Key |-> [seq |-> 0, iter |-> 0]]]
  /\ pending = [n \in Node |-> FALSE]
  /\ ready = <<>> /\ seq = 0 /\ fire = {}
  /\ cur = 0 /\ stepCount = 0 /\ now = 0
  /\ result = NoResult /\ outcome = "completed"
  /\ faults = 0 /\ spent = 0 /\ charged = 0 /\ late = 0 /\ over = 0

NoFault == UNCHANGED faults
Fault   == faults < MaxFaults /\ faults' = faults + 1

(* break out of the loop, or return through finalizeRunStatus.              *)
Stop(status) == pc' = "final" /\ outcome' = status

(* Kill switch and graph are read before the run has a row: when the switch *)
(* is on or a read fails, the caller gets an error and no row is written.   *)
Preflight ==
  /\ pc = "preflight"
  /\ \/ NoFault /\ ~killSwitch /\ pc' = "create"
     \/ NoFault /\ killSwitch  /\ pc' = "refused"
     \/ Fault /\ pc' = "refused"
  /\ UNCHANGED <<shared, rows, graph, ready, cur, clocks, result, outcome, history>>

CreateRun ==
  /\ pc = "create"
  /\ \/ NoFault /\ runStatus' = "running" /\ pc' = "count"
     \/ Fault /\ runStatus' \in {runStatus, "running"} /\ pc' = "refused"
  /\ UNCHANGED <<shared, steps, trades, graph, ready, cur, clocks, result, outcome, history>>

(* Entry nodes get the market target, in node_key order.  Its fields share  *)
(* one key and one sequence number here: only comparisons with the sequence *)
(* numbers of other arrivals matter, and an entry node has no others.       *)
Entry(n)    == In(n) = {}
EntryPos(n) == CHOOSE i \in 1..Len(EntrySeq) : EntrySeq[i] = n

SeedEntries ==
  /\ seq' = Len(EntrySeq)
  /\ latest' = [n \in Node |-> [u \in Key |->
                  IF u = Seed /\ Entry(n) THEN [seq |-> EntryPos(n), iter |-> 1]
                                          ELSE latest[n][u]]]
  /\ pending' = [n \in Node |-> Entry(n)]
  /\ ready' = EntrySeq

(* Mutant of CountRun: the run over the quota returns without its status.   *)
CountRunNoFinalize ==
  /\ pc = "count"
  /\ \/ /\ NoFault
        /\ usage' = [usage EXCEPT !.runs = @ + 1]
        /\ \/ /\ usage'.runs > MaxRunsPerDay
              /\ pc' = "done" /\ UNCHANGED outcome
              /\ UNCHANGED <<graph, ready>>
           \/ /\ usage'.runs <= MaxRunsPerDay
              /\ pc' = "loop" /\ SeedEntries
              /\ UNCHANGED <<outcome, iteration, lastFired, fire>>
     \/ /\ Fault
        /\ usage' \in {usage, [usage EXCEPT !.runs = @ + 1]}
        /\ Stop("failed")
        /\ UNCHANGED <<graph, ready>>
  /\ UNCHANGED <<killSwitch, env, others, rows, cur, clocks, result, history>>

(* The atomic upsert of run_count, its gate, and the seeding that follows.  *)
CountRun ==
  /\ pc = "count"
  /\ \/ /\ NoFault
        /\ usage' = [usage EXCEPT !.runs = @ + 1]
        /\ \/ /\ usage'.runs > MaxRunsPerDay
              /\ Stop("quota_exceeded")
              /\ UNCHANGED <<graph, ready>>
           \/ /\ usage'.runs <= MaxRunsPerDay
              /\ pc' = "loop" /\ SeedEntries
              /\ UNCHANGED <<outcome, iteration, lastFired, fire>>
     \/ /\ Fault
        /\ usage' \in {usage, [usage EXCEPT !.runs = @ + 1]}
        /\ Stop("failed")
        /\ UNCHANGED <<graph, ready>>
  /\ UNCHANGED <<killSwitch, env, others, rows, cur, clocks, result, history>>

----------------------------------------------------------------------------
(* The loop's checks, in their order.                                       *)
StopAtEmptyQueue ==
  /\ pc = "loop" /\ ready = <<>>
  /\ Stop("completed")
  /\ UNCHANGED <<shared, rows, graph, ready, cur, clocks, result, faults, history>>

StopAtStepCap ==
  /\ pc = "loop" /\ ready # <<>> /\ stepCount >= MaxStepsPerRun
  /\ Stop("failed")
  /\ UNCHANGED <<shared, rows, graph, ready, cur, clocks, result, faults, history>>

StopAtDeadline ==
  /\ pc = "loop" /\ ready # <<>> /\ stepCount < MaxStepsPerRun /\ now > PerRunTimeout
  /\ Stop("timed_out")
  /\ UNCHANGED <<shared, rows, graph, ready, cur, clocks, result, faults, history>>

(* Mutants of MayFire: no step cap, no deadline.                            *)
MayFireNoCap      == pc = "loop" /\ ready # <<>> /\ now <= PerRunTimeout
MayFireNoDeadline == pc = "loop" /\ ready # <<>> /\ stepCount < MaxStepsPerRun

(* The checks passed, up to the kill switch.                                *)
MayFire == pc = "loop" /\ ready # <<>> /\ stepCount < MaxStepsPerRun /\ now <= PerRunTimeout

StopAtKillSwitch ==
  /\ MayFire
  /\ \/ NoFault /\ killSwitch /\ Stop("killed")
     \/ Fault /\ Stop("failed")
  /\ UNCHANGED <<shared, rows, graph, ready, cur, clocks, result, history>>

(* Mutant of TakeNode: the popped node stays marked as queued.              *)
TakeNodeStillPending ==
  /\ MayFire /\ ~killSwitch
  /\ cur' = Head(ready) /\ ready' = Tail(ready)
  /\ IF iteration[Head(ready)] + 1 > LoopLimit[Head(ready)]
     THEN Stop("failed") /\ UNCHANGED stepCount
     ELSE stepCount' = stepCount + 1 /\ pc' = "start" /\ UNCHANGED outcome
  /\ UNCHANGED <<shared, rows, graph, now, result, faults, history>>

(* Mutant of TakeNode: the kill switch is only read at the start of the run.*)
TakeNodeNoKill ==
  /\ MayFire
  /\ cur' = Head(ready) /\ ready' = Tail(ready)
  /\ pending' = [pending EXCEPT ![Head(ready)] = FALSE]
  /\ IF iteration[Head(ready)] + 1 > LoopLimit[Head(ready)]
     THEN Stop("failed") /\ UNCHANGED stepCount
     ELSE stepCount' = stepCount + 1 /\ pc' = "start" /\ UNCHANGED outcome
  /\ UNCHANGED <<shared, rows, iteration, lastFired, latest, seq, fire, now, result,
                 faults, history>>

(* The kill switch read off: pop the queue, unless the node's iterations    *)
(* are used up.                                                             *)
TakeNode ==
  /\ MayFire /\ ~killSwitch
  /\ cur' = Head(ready) /\ ready' = Tail(ready)
  /\ pending' = [pending EXCEPT ![Head(ready)] = FALSE]
  /\ IF iteration[Head(ready)] + 1 > LoopLimit[Head(ready)]
     THEN Stop("failed") /\ UNCHANGED stepCount
     ELSE stepCount' = stepCount + 1 /\ pc' = "start" /\ UNCHANGED outcome
  /\ UNCHANGED <<shared, rows, iteration, lastFired, latest, seq, fire, now, result,
                 faults, history>>

(* AddStep: a running row with the merged inputs of the node.               *)
NewStep == [node |-> cur, iter |-> iteration[cur] + 1, status |-> "running",
            inputs |-> [u \in Key |-> latest[cur][u].iter], cost |-> 0]

StartStep ==
  /\ pc = "start"
  /\ \/ /\ NoFault /\ steps' = Append(steps, NewStep)
        /\ pc' = "invoke" /\ UNCHANGED outcome
     \/ /\ Fault /\ steps' \in {steps, Append(steps, NewStep)}
        /\ Stop("failed")
  /\ late' = IF killSwitch /\ pc' = "invoke" THEN late + 1 ELSE late
  /\ UNCHANGED <<shared, runStatus, trades, graph, ready, cur, clocks, result, spent,
                 charged, over>>

(* The agent runtime under the step's context: it returns within the step   *)
(* timeout, with a valid output or an error, and with the tokens it used    *)
(* either way.  A step that runs into the timeout used all of it.           *)
Invoke ==
  /\ pc = "invoke"
  /\ \E c \in StepCosts, d \in Durations :
       /\ \/ \E o \in Outputs[cur] : result' = [err |-> "none", cost |-> c, out |-> o]
          \/ result' = [NoResult EXCEPT !.err = "failed", !.cost = c]
          \/ /\ d = PerStepTimeout
             /\ result' = [NoResult EXCEPT !.err = "timed_out", !.cost = c]
       /\ now' = now + d
       /\ spent' = spent + c
       /\ over' = IF c > 0 /\ usage.cost > MaxCostUSDPerDay THEN over + 1 ELSE over
  /\ pc' = "persist"
  /\ UNCHANGED <<shared, rows, graph, ready, cur, stepCount, outcome, faults, charged, late>>

StepStatus == IF result.err = "none" THEN "completed" ELSE result.err
Finished   == [steps EXCEPT ![Len(steps)].status = StepStatus, ![Len(steps)].cost = result.cost]

(* Mutant of PersistStep: a failed update is ignored.                       *)
PersistStepContinues ==
  /\ pc = "persist"
  /\ \/ NoFault /\ steps' = Finished
     \/ Fault /\ steps' \in {steps, Finished}
  /\ pc' = "charge"
  /\ UNCHANGED <<shared, runStatus, trades, graph, ready, cur, clocks, result, outcome, history>>

(* UpdateStepCompleted.  When it fails the run ends before the cost of the  *)
(* step reaches the usage row.                                              *)
PersistStep ==
  /\ pc = "persist"
  /\ \/ NoFault /\ steps' = Finished /\ pc' = "charge" /\ UNCHANGED outcome
     \/ Fault /\ steps' \in {steps, Finished} /\ Stop("failed")
  /\ UNCHANGED <<shared, runStatus, trades, graph, ready, cur, clocks, result, history>>

(* Mutant of ChargeStep: a failed charge is tried again.                    *)
ChargeStepRetried ==
  /\ pc = "charge"
  /\ \/ /\ result.cost = 0
        /\ NoFault /\ pc' = "settle" /\ UNCHANGED <<usage, charged, outcome>>
     \/ /\ NoFault
        /\ usage' = [usage EXCEPT !.cost = @ + result.cost]
        /\ charged' = charged + result.cost
        /\ IF usage'.cost > MaxCostUSDPerDay THEN Stop("quota_exceeded")
                                             ELSE pc' = "settle" /\ UNCHANGED outcome
     \/ /\ Fault
        /\ usage' \in {usage, [usage EXCEPT !.cost = @ + result.cost]}
        /\ charged' = charged + (usage'.cost - usage.cost)
        /\ UNCHANGED <<pc, outcome>>
  /\ UNCHANGED <<killSwitch, env, others, rows, graph, ready, cur, clocks, result, spent,
                 late, over>>

(* Mutant of ChargeStep: the cap is not looked at.                          *)
ChargeStepNoCap ==
  /\ pc = "charge"
  /\ pc' = "settle"
  /\ \/ NoFault /\ usage' = [usage EXCEPT !.cost = @ + result.cost]
     \/ Fault /\ usage' \in {usage, [usage EXCEPT !.cost = @ + result.cost]}
  /\ charged' = charged + (usage'.cost - usage.cost)
  /\ UNCHANGED <<killSwitch, env, others, rows, graph, ready, cur, clocks, result, outcome,
                 spent, late, over>>

(* RecordStepCost, skipped for a step without tokens.  Tokens that have no  *)
(* price are charged with cost 0 and meet the cap all the same.  A failed   *)
(* charge is logged and the run goes on.                                    *)
ChargeStep ==
  /\ pc = "charge"
  /\ \/ /\ result.cost = 0
        /\ NoFault /\ pc' = "settle" /\ UNCHANGED <<usage, charged, outcome>>
     \/ /\ NoFault
        /\ usage' = [usage EXCEPT !.cost = @ + result.cost]
        /\ charged' = charged + result.cost
        /\ IF usage'.cost > MaxCostUSDPerDay THEN Stop("quota_exceeded")
                                             ELSE pc' = "settle" /\ UNCHANGED outcome
     \/ /\ Fault
        /\ usage' \in {usage, [usage EXCEPT !.cost = @ + result.cost]}
        /\ charged' = charged + (usage'.cost - usage.cost)
        /\ pc' = "settle" /\ UNCHANGED outcome
  /\ UNCHANGED <<killSwitch, env, others, rows, graph, ready, cur, clocks, result, spent,
                 late, over>>

(* A failed step ends the run with its status; a completed one updates the  *)
(* node, and its output is traded or propagated.                            *)
Settle ==
  /\ pc = "settle"
  /\ \/ /\ result.err # "none"
        /\ Stop(result.err)
        /\ UNCHANGED graph
     \/ /\ result.err = "none"
        /\ iteration' = [iteration EXCEPT ![cur] = @ + 1]
        /\ lastFired' = [lastFired EXCEPT ![cur] = seq]
        /\ fire' = FiringPlan(cur, result.out)
        /\ pc' = IF IsTerminal(cur) THEN "trade" ELSE "propagate"
        /\ UNCHANGED <<outcome, latest, pending, seq>>
  /\ UNCHANGED <<shared, rows, ready, cur, clocks, result, faults, history>>

(* recordPaperTrade: one row per firing of the terminal node; a failed      *)
(* insert is logged and the run goes on.                                    *)
NewTrade == [step   |-> Len(steps),
             status |-> IF result.out.side = "ABSTAIN" THEN "abstained" ELSE "open"]

RecordTrade ==
  /\ pc = "trade"
  /\ \/ NoFault /\ trades' = IF result.out.side = "none" THEN trades ELSE Append(trades, NewTrade)
     \/ Fault /\ result.out.side # "none" /\ trades' \in {trades, Append(trades, NewTrade)}
  /\ pc' = "propagate"
  /\ UNCHANGED <<shared, runStatus, steps, graph, ready, cur, clocks, result, outcome, history>>

(* One turn of the loop over the edges that fire.                           *)
Arrive(e) == [latest EXCEPT ![To[e]][From[e]] = [seq |-> seq + 1, iter |-> iteration[From[e]]]]

(* Mutant of Propagate: only a node's own arrival decides, a queued one     *)
(* does not hear of it.                                                     *)
PropagateTwice ==
  /\ pc = "propagate" /\ fire # {}
  /\ \E e \in fire :
       /\ \A d \in fire : e <= d
       /\ fire' = fire \ {e}
       /\ seq' = seq + 1
       /\ latest' = Arrive(e)
       /\ IF IsReady(latest', To[e])
          THEN ready' = Append(ready, To[e]) /\ pending' = [pending EXCEPT ![To[e]] = TRUE]
          ELSE UNCHANGED <<ready, pending>>
  /\ UNCHANGED <<pc, shared, rows, iteration, lastFired, cur, clocks, result, outcome, faults,
                 history>>

Propagate ==
  /\ pc = "propagate" /\ fire # {}
  /\ \E e \in fire :
       /\ \A d \in fire : e <= d
       /\ fire' = fire \ {e}
       /\ seq' = seq + 1
       /\ latest' = Arrive(e)
       /\ IF ~pending[To[e]] /\ IsReady(latest', To[e])
          THEN ready' = Append(ready, To[e]) /\ pending' = [pending EXCEPT ![To[e]] = TRUE]
          ELSE UNCHANGED <<ready, pending>>
  /\ UNCHANGED <<pc, shared, rows, iteration, lastFired, cur, clocks, result, outcome, faults,
                 history>>

EndTurn ==
  /\ pc = "propagate" /\ fire = {}
  /\ pc' = "loop" /\ cur' = 0
  /\ UNCHANGED <<shared, rows, graph, ready, clocks, result, outcome, faults, history>>

(* finalizeRunStatus; its error is logged or dropped.                       *)
Finalize ==
  /\ pc = "final"
  /\ \/ NoFault /\ runStatus' = outcome
     \/ Fault /\ runStatus' \in {runStatus, outcome}
  /\ pc' = "done"
  /\ UNCHANGED <<shared, steps, trades, graph, ready, cur, clocks, result, outcome, history>>

----------------------------------------------------------------------------
Ended == {"refused", "done", "crashed"}

(* The process dies.  No code looks for the rows it leaves behind.          *)
Crash ==
  /\ MayCrash /\ pc \notin Ended
  /\ pc' = "crashed"
  /\ UNCHANGED <<shared, rows, graph, ready, cur, clocks, result, outcome, faults, history>>

FlipKillSwitch ==
  /\ killSwitch' = ~killSwitch
  /\ late' = 0
  /\ UNCHANGED <<usage, others, spent, charged, over>>

(* Another run of the user counts itself, or charges one of its steps.      *)
OtherRun ==
  /\ \/ usage' = [usage EXCEPT !.runs = @ + 1] /\ UNCHANGED others
     \/ \E c \in StepCosts \ {0} : /\ usage' = [usage EXCEPT !.cost = @ + c]
                                   /\ others' = others + c
  /\ UNCHANGED <<killSwitch, late, spent, charged, over>>

Environment ==
  /\ env < MaxEnv /\ pc \notin Ended
  /\ env' = env + 1
  /\ FlipKillSwitch \/ OtherRun
  /\ UNCHANGED <<pc, rows, graph, ready, cur, clocks, result, outcome, faults>>

Run == \/ Preflight \/ CreateRun \/ CountRun
       \/ StopAtEmptyQueue \/ StopAtStepCap \/ StopAtDeadline \/ StopAtKillSwitch
       \/ TakeNode \/ StartStep \/ Invoke \/ PersistStep \/ ChargeStep \/ Settle
       \/ RecordTrade \/ Propagate \/ EndTurn \/ Finalize

Next == Run \/ Crash \/ Environment

Spec     == Init /\ [][Next]_vars
FairSpec == Spec /\ WF_vars(Run)

----------------------------------------------------------------------------
Row == [node : Node, iter : Nat, status : {"running", "completed", "failed", "timed_out"},
        inputs : [Key -> Nat], cost : Nat]

TypeOK ==
  /\ pc \in {"preflight", "create", "count", "loop", "start", "invoke", "persist", "charge",
             "settle", "trade", "propagate", "final"} \cup Ended
  /\ killSwitch \in BOOLEAN /\ usage \in [runs : Nat, cost : Nat]
  /\ runStatus \in {"none", "running", "completed", "failed", "timed_out", "killed",
                    "quota_exceeded"}
  /\ steps \in Seq(Row)
  /\ trades \in Seq([step : Nat, status : {"open", "abstained"}])
  /\ iteration \in [Node -> Nat] /\ lastFired \in [Node -> Int]
  /\ latest \in [Node -> [Key -> [seq : Nat, iter : Nat]]]
  /\ pending \in [Node -> BOOLEAN] /\ ready \in Seq(Node) /\ seq \in Nat /\ fire \subseteq Edge
  /\ cur \in Key /\ stepCount \in Nat /\ now \in Nat
  /\ result \in [err : {"none", "failed", "timed_out"}, cost : Nat, out : Output]
  /\ outcome \in {"completed", "failed", "timed_out", "killed", "quota_exceeded"}
  /\ env \in Nat /\ faults \in Nat
  /\ spent \in Nat /\ charged \in Nat /\ others \in Nat /\ late \in Nat /\ over \in Nat

InQueue(n) == \E i \in 1..Len(ready) : ready[i] = n

(* The node between its pop and the update of its LastFiredSeq.             *)
Held == IF pc \in {"trade", "propagate"} THEN 0 ELSE cur

(* No wake-up is lost and none is invented: apart from the node being fired,*)
(* a node is on the ready queue, once and marked Pending, exactly when its  *)
(* inputs make it ready (executor.go:401-416, 460-495).                     *)
QueueExact ==
  /\ \A i, j \in 1..Len(ready) : ready[i] = ready[j] => i = j
  /\ \A n \in Node : pending[n] <=> InQueue(n)
  /\ \A n \in Node \ {Held} : InQueue(n) <=> IsReady(latest, n)

(* The inductive invariant behind QueueExact: nothing has arrived before    *)
(* the seeding, the node being fired is not queued, and no arrival or       *)
(* firing is ahead of the sequence counter.                                 *)
Unseeded == {"preflight", "create", "count"}
Firing   == {"start", "invoke", "persist", "charge", "settle"}

QueueInv ==
  /\ QueueExact
  /\ pc \in Unseeded => /\ ready = <<>> /\ cur = 0
                        /\ \A n \in Node, u \in Key : latest[n][u].seq = 0
                        /\ \A n \in Node : lastFired[n] = -1
  /\ pc = "loop" => cur = 0
  /\ pc \in Firing => cur \in Node /\ ~InQueue(cur)
  /\ pc \in {"trade", "propagate"} => cur \in Node
  /\ \A n \in Node : lastFired[n] <= seq /\ \A u \in Key : latest[n][u].seq <= seq

(* The inductive invariant behind ImplementsLifecycle: what the rows of the *)
(* run look like at each statement.                                         *)
Completed(i) == steps[i].status = "completed"
LastOpen     == steps # <<>> /\ steps[Len(steps)].status = "running"
AllCompleted == \A i \in 1..Len(steps) : Completed(i)
Traded       == {trades[i].step : i \in 1..Len(trades)}

RowsInv ==
  /\ \A i \in 1..(Len(steps) - 1) : Completed(i)
  /\ pc \in {"preflight", "create"} => runStatus = "none"
  /\ pc \in Unseeded => steps = <<>> /\ trades = <<>>
  /\ pc \in Firing \cup {"count", "loop", "trade", "propagate", "final"} => runStatus = "running"
  /\ pc \in {"loop", "start", "trade", "propagate"} => AllCompleted
  /\ pc \in {"invoke", "persist"} => LastOpen
  /\ pc \in {"charge", "settle"} => steps # <<>> /\ steps[Len(steps)].status = StepStatus
  /\ pc \in {"trade", "propagate"} => steps # <<>>
  /\ pc \in {"invoke", "persist", "charge", "settle", "trade"} => Len(steps) \notin Traded
  /\ \A k \in Traded : k <= Len(steps)
  /\ pc = "final" =>
       /\ outcome \in {"completed", "killed"} => AllCompleted
       /\ outcome = "timed_out" =>
            \A i \in 1..Len(steps) : steps[i].status \in {"completed", "timed_out"}

IInv == TypeOK /\ QueueInv /\ RowsInv

(* A run that ends as completed has left no input unseen: every node that   *)
(* has its required inputs has a row that was given the latest of each.     *)
NothingMissed ==
  (pc \in {"final", "done"} /\ outcome = "completed") =>
    \A n \in Node :
      LET seen == {u \in Key : latest[n][u].seq > 0}
      IN (seen # {} /\ (Join[n] = "all" => NonLoopUpstream(n) \subseteq seen)) =>
           \E j \in 1..Len(steps) : /\ steps[j].node = n
                                    /\ steps[j].inputs = [u \in Key |-> latest[n][u].iter]

(* Of a node's conditional edges a firing takes at most one: no two targets *)
(* that only such edges lead to hold the output of the same firing.         *)
OneBranchPerFiring ==
  \A d, e \in Edge :
    LET n == From[d]
    IN (/\ From[e] = n /\ To[d] # To[e]
        /\ \A f \in Out(n) : To[f] \in {To[d], To[e]} => Cond[f] # "always"
        /\ latest[To[d]][n].iter > 0) =>
         latest[To[d]][n].iter # latest[To[e]][n].iter

(* What the step rows say of the joins: an `all` node first fires with an   *)
(* input from every non-loop upstream, and a node fires again only on an    *)
(* input newer than those of each earlier firing.                           *)
FiringsJustified ==
  \A j \in 1..Len(steps) :
    /\ Join[steps[j].node] = "all" =>
         \A u \in NonLoopUpstream(steps[j].node) : steps[j].inputs[u] > 0
    /\ \A i \in 1..(j - 1) : steps[i].node = steps[j].node =>
         \E u \in Key : steps[j].inputs[u] > steps[i].inputs[u]

(* The rows number a node's firings 1, 2, 3, ... up to its iteration limit, *)
(* and there are at most MaxStepsPerRun of them, whatever the loops do.     *)
LimitsHold ==
  /\ Len(steps) <= MaxStepsPerRun
  /\ \A j \in 1..Len(steps) :
       /\ steps[j].iter = Cardinality({i \in 1..j : steps[i].node = steps[j].node})
       /\ steps[j].iter <= LoopLimit[steps[j].node]

(* A run outlives its deadline by at most the step that was in flight, so   *)
(* it ends before the scheduler's dispatch context does.                    *)
WithinDeadline == now <= PerRunTimeout + PerStepTimeout

(* After the kill switch goes on a run begins at most the one step it was   *)
(* about to begin (timeouts.go:25-27).                                      *)
KillStops == late <= 1

MaxStepCost == CHOOSE c \in StepCosts : \A d \in StepCosts : d <= c
Unsettled   == IF pc \in {"persist", "charge", "crashed"} THEN 1 ELSE 0

(* The user's usage row grows by what the run paid, never by more, and by   *)
(* less only for steps a database error or a crash cut off: one each.       *)
LedgerExact ==
  /\ usage.cost = charged + others
  /\ charged <= spent
  /\ spent - charged <= (faults + Unsettled) * MaxStepCost

(* executor.go:351-353: a lost charge is recoverable, because whatever the  *)
(* usage row has of this run is in its step rows, and they never show more  *)
(* than the run paid.                                                       *)
RowCost      == SumFunction([i \in DOMAIN steps |-> steps[i].cost])
Reconcilable == charged <= RowCost /\ RowCost <= spent

(* Once the user's cost is over the cap, a run pays for at most one more    *)
(* step, and one more for each charge the database loses.                   *)
OverspendBounded == over <= 1 + faults

(* paper_trades.go:141-142: a run makes at most one paper trade.            *)
AtMostOneTrade == Len(trades) <= 1

(* Every run ends, and unless a database call failed or the process died    *)
(* its row does not stay running.                                           *)
RunSettles ==
  /\ <>(pc \in Ended)
  /\ <>[](runStatus # "running" \/ faults > 0 \/ pc = "crashed")

(* The run as its rows show it implements module RunLifecycle.              *)
Lifecycle == INSTANCE RunLifecycle
               WITH status <- runStatus,
                    log    <- [i \in 1..Len(steps) |-> steps[i].status],
                    traded <- {trades[i].step : i \in 1..Len(trades)}
ImplementsLifecycle == Lifecycle!Spec
=============================================================================

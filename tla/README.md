# A verification project for Sibyl Hub

Sibyl Hub (`src/`, Go) runs workflows of language-model agents about prediction
markets. A workflow is a graph of nodes, each an agent; the engine fires the
nodes, follows the edges, and writes a paper trade when a terminal node decides.
This directory holds TLA+ modules of that code, the TLC runs that check them on
small instances, and theorems about them that TLAPS checks for every value of
the constants. `PROJECT.json` lists the runs, the source lines behind each
definition, the hazards and the theorems.

## The system

All code is under `src/api`. There is no HTTP server yet: the programs are the
command-line tools of `cmd/`, of which `runctl` runs a workflow. PostgreSQL is
the only persistent state.

| Component | State it keeps | Operations | What makes it correct |
|---|---|---|---|
| Engine, one run (`internal/engine/executor.go`, `edges.go`, `inputs.go`, `timeouts.go`, `paper_trades.go`) | per node: iteration, last firing, latest inputs, Pending; the ready queue and the sequence counter; rows of the run | `Executor.Run`: preflight, create, count, seed, step loop, finalise | no wake-up lost or invented; joins, limits, deadline and kill switch hold; the rows tell what happened; the user pays what was spent |
| Loop edges (`graph.go`) | `IsLoop` of each edge | `markLoopEdges`, a depth-first search | what stays unmarked is acyclic, what is marked closes a cycle |
| Graph loading (`graph.go`, `repos/workflows.go`, `cmd/runctl`) | `workflows`, `workflow_nodes`, `workflow_edges`, `users` | `NewGraph`, `bootstrapHappyPathWorkflow`, `mustResolveUser` | no run starts on part of a workflow; one email is one user |
| Billing (`internal/billing`, `repos/usage.go`) | `user_usage_daily` | `CheckQuota`, `IncrementRunCount`, `RecordStepCost` | caps per user and day hold under concurrent runs |
| Kill switch (`repos/system_config.go`) | `system_config` | read, set | no step begins once it is on |
| Rows (`repos/runs.go`, `repos/paper_trades.go`) | `workflow_runs`, `agent_steps`, `paper_trades` | create, update, list | statuses only move forward |
| Scheduler (`internal/scheduler`) | cron entries per workflow | `Reload`, `fire`, `dispatch` | entries follow the table; a workflow has one job; nothing is dispatched after a stop |
| Cron validation (`scheduler/validation.go`) | none | `ValidateCronInterval` | no accepted schedule fires too often |
| Agent runtime (`internal/runtime`) | per call: attempts, rounds, usage | `Invoke` | every token used is billed; retry and round caps hold |
| Polymarket client (`internal/polymarket`) | TTL cache, rate limiter | `getJSON`, `fetchWithRetry` | a body's age is bounded, the rate is kept, every call returns |
| Type registry (`internal/types`) | compiled schemas | `Load`, `Reload`, `Get`, `Validate` | a registry is one state of the table, whole or not at all |
| Agent templates (`repos/agent_templates.go`) | `agent_templates` | `Create`, `Update`, `Fork`, `Delete` | no template names a type that is not registered |
| Market subscriptions (`repos/subscriptions.go`) | `strategy_market_subscriptions` | `SyncForWorkflow` | they equal the workflow's `market_targets` |
| Tools (`internal/tools`) | a start-up map | `Invoke` | adapters only |

A run is started by `runctl` or by the scheduler's `dispatch`, each in a
goroutine of its own. Runs share nothing in memory: they meet in the kill-switch
row, in the user's usage row and in their own rows. The engine calls the agent
runtime, the runtime calls the model and the tools, the tools call the
Polymarket client. So the hard behaviours are: one sequential program whose
every database call may fail or be applied without its reply; a process that can
die between any two calls, with no recovery code; shared rows that other runs
and the operator change between two calls; and a firing discipline (joins, loop
edges, sequence numbers, the Pending flag) whose mistakes show only as a run
that ends "completed" without having done its work.

Where a mistake would hide, component by component, is the list `hazards` of
`PROJECT.json`, each at its line with the properties that would show it.

## The modules

### LoopEdges, MCLoopEdges, LoopEdgesProofs

`markLoopEdges` is recursive in Go. Here it is a state machine: `stack` holds one
element per activation of `dfs`, `todo[n]` the edges its range loop has still to
visit. `EnterRoot` is a turn of the outer loop, `Visit` a turn of the inner one,
`Finish` the return. Colours are the code's. `clock` and `fin` are history: when
a node finished. The workflow is the initial value of `graph`, a sequence of
edges in the order their rows are read.

* `FinishOrder`: among finished nodes unmarked edges lead to nodes finished
  earlier, so they have no cycle; otherwise an `all` join would wait for itself.
* `MarksCloseCycle`: an edge is marked only when the stack is a path from its
  target back to its source; otherwise an `all` join could fire too early.
* `JoinsUnblocked`: when every node is reachable, a run whose joins are all
  `all` can fire every node. It rests on `Reached`, which is proved: the search
  finishes exactly the nodes a run can reach.

The run `loop_edges` covers every edge list of at most four edges over three of
five nodes, self loops and parallel edges included (no constraint of
`workflow_edges` excludes either), plus the happy path. Three nodes suffice for a
cycle with an entrance, a cross edge and a forward edge at once. `loop_cycles`
checks what the comments claim of *every* cycle and finds the exception: a cycle
that no entry node leads to. Node keys are numbers, so that they have an order.

### Engine, RunLifecycle, MCHappyPath, MCFanIn, MCLedger, EngineProofs

`Engine` is `Executor.Run`. `pc` is the statement that comes next; each action is
one statement group between two points where something else can happen, that
is, between two calls. The variables are those of the code (`iteration`,
`lastFired`, `latest`, `pending`, `ready`, `seq`, `stepCount`), the rows it writes
(`runStatus`, `steps`, `trades`), the shared rows (`killSwitch`, `usage`) and a few
history variables for the properties (`spent`, `charged`, `others`, `late`, `over`).

| Action | Code (`executor.go`) |
|---|---|
| `Preflight`, `CreateRun` | 130-164 |
| `CountRun` (with `SeedEntries`) | 170-212 |
| `StopAtEmptyQueue`, `StopAtStepCap`, `StopAtDeadline`, `StopAtKillSwitch` | 233-255 |
| `TakeNode`, `StartStep`, `Invoke` | 257-294 |
| `PersistStep`, `ChargeStep`, `Settle` | 296-381 |
| `RecordTrade`, `Propagate` (one turn per edge), `EndTurn` | 383-417 |
| `Finalize` | 419-444 |
| `Crash`, `Environment` (`FlipKillSwitch`, `OtherRun`) | the world around the run |

A database call either applies or fails, and a failed write may have been
applied all the same. Abstractions:

* An output is what the edges and the paper trade read of it: the `approved`
  field (absent, true, false or malformed), the substring conditions it
  satisfies, the side. Payloads are identified by the iteration that made them.
* The seeded fields of the market target share one key and one sequence number;
  an entry node has no other inputs, so only "newer than the last firing" counts.
* Costs and times are small numbers; cost 0 stands for a step without tokens,
  which is not charged, and for one whose tokens have no price, which is. Only
  `Invoke` takes time. The caller's context does not expire during a run: 10
  minutes and one step of 90 seconds stay below the 12 minutes of `dispatch`
  (`WithinDeadline`).
* The day does not change during a run.

`RunLifecycle` is what a reader of the rows may rely on: one step at a time, on
top of completed ones; a finished step keeps its status; at most one trade per
step, right after it completed; one terminal status, which agrees with the steps.
`Engine` implements it (`ImplementsLifecycle`, a refinement mapping that forgets
everything but the rows).

| Run | Instance and bounds | What it asks |
|---|---|---|
| `happy_path` | the five nodes and six edges of `runctl`, real limits (5 iterations, 50 steps), a verdict that approves, rejects or is malformed, one fault, one outside event, crashes | that the executor's verdict is about the thesis it gets, and that the run ends |
| `fan_in` | four nodes: `first` and `all` joins, parallel edges, a self loop, a substring condition that overlaps `rejected`, a step cap of 6 that is reached, one fault | the queue, the joins, the limits, that nothing is missed, and the choice of one branch |
| `fan_in_trades` | the same workflow, no fault | the comment that a run has at most one trade |
| `ledger` | three nodes in a line; costs 0-2 against a cap of 2, durations 0 or 2 against a deadline of 3, two faults, two outside events, crashes | money, time, kill switch, lifecycle |

Two faults and two outside events are enough for a lost charge after a lost
update, and for another run to push the row over the cap while the switch flips.

**Properties.** `QueueExact`: apart from the node being fired, a node is on the
ready queue, once and marked Pending, exactly when its inputs make it ready.
`NothingMissed`: a run that ends as completed has given every node with its
required inputs the latest of each. `FiringsJustified`, `LimitsHold` and
`OneBranchPerFiring` read the joins, the caps and the branch choice off the step
rows, not off the engine's variables. `ExecutorSeesAssessedThesis`: the executor's
verdict is about the thesis it is given. `LedgerExact` bounds what the usage row
can lack by one step per failed call or crash; `Reconcilable`: the step rows show
at least what was charged, and never more than was paid; `OverspendBounded`: over
the cap a run pays for one more step and one per lost charge; `KillStops`: after
the switch goes on at most one more step begins; `WithinDeadline`: the deadline
is overrun by at most one step. `RunSettles`: every run ends, and its row leaves
`running` unless a call failed or the process died.

**Fairness.** `FairSpec` adds `WF_vars(Run)`: the goroutine of a run keeps being
scheduled, its database calls return (they run under contexts and a pool), and
`Invoke` returns within its timeout. Nothing is assumed of the operator, of other
runs or of crashes.

**Deadlock** is not checked: a run ends, and nothing follows.

### AgentRuntime, MCAgentRuntime, AgentRuntimeProofs

`AgentRuntime` opens the action `Invoke` of `Engine`: `Runtime.Invoke` and the
tool rounds of `generateOnce` inside it. `pc` again is the statement that comes
next. `result` is the `InvokeResult` under construction, `usage` the sum that
`generateOnce` keeps and hands over when it returns, `open` the tool_use blocks of
the last response that have no tool_result yet.

| Action | Code (`agent.go`) |
|---|---|
| `GetType` | 114-129: an unknown output type ends the step before anything is sent |
| `Resolve` | 203-228: a new attempt, its tools looked up |
| `CallFails`, `FinalResponse`, `ToolResponse` | 229-268: the three ways a call ends, the round cap among them |
| `DispatchTool` | 281-317: one block, whatever its tool does |
| `Check` | 141-182: parse, validate, retry once |

A text is abstracted to what becomes of it (no JSON, JSON that cannot be decoded
again, invalid, valid), a model name to whether it is empty and whether the price
table knows it, and the price of a token to 1. Prompt and completion tokens are
one number. An agent that declares no tools gets no tool_use block: the API sends
none. The step's deadline needs no variable: it fails the call it meets, and tools
that it interrupts answer with an error block.

| Run | Instance and bounds | What it asks |
|---|---|---|
| `agent_runtime` | 2 attempts and 6 rounds, as in the code; 1 or 2 tokens a response; up to 2 blocks | `TokensCounted`: however `Invoke` ends, the result counts all tokens. `PricedUnlessCut`: it prices them, unless a call failed. `CallsBounded`: at most 12 calls, and what `attempts` says. `Answered`: no call with an unanswered tool_use block. `Returns` |
| `agent_runtime_cut` | the same | the comment that tokens paid for keep their price on final failure |

Two sizes of response tell a lost token from a lost response, and two blocks a
lost answer from a lost message. `Returns` assumes `WF_vars(Next)`: the HTTP client
has a timeout, the engine gives every step a context of 90 seconds, and tools
get that context.

### Quota, DailyCap, MCQuota, QuotaProofs

`Engine` has one run and lets other runs touch its usage row. `Quota` has all
runs of one user and nothing else of a run: each is a sequence `CheckQuota`,
`CountRun`, (`Invoke`, `ChargeStep`)*, and they interleave freely. `CountRun` and
`ChargeStep` are atomic, being one upsert each with `RETURNING`, but their gate
acts on what they return. `Midnight` changes `CURRENT_DATE` between any two
statements, so a run may be counted on one row and charged on the next. `Prev`
chains the runs of one `runctl --repeat`, which exits at the first error; runs
of the scheduler have no order. A failing upsert may have been applied.

`DailyCap` is what a user is promised, without counters: a day has so many
slots, an admitted run takes one, so does a run whose count was applied under an
error, and a run is turned away only when none is left that day. `Quota`
implements it (`ImplementsDailyCap`). `RunCap` bounds the runs let in, `CostCap` a
day's cost: past the cap at most one step of each run the cap stopped.
`CostsConserved`: every cent charged is in the row of exactly one day.

The run `quota` has four runs, two of them one `--repeat`, two days, both caps 2,
one fault. A third run is needed to be turned away, a fourth to be so on the
other day or after the lost count.

### CronInterval, Scheduler, MCScheduler, SchedulerProofs

`CronInterval` is `validateCronWithMin` as operators: a schedule is the set of
minutes of a period at which it fires, `Gap` the two samples the code takes, and
`Gaps` the reference definition, all distances between neighbouring firings.

`Scheduler` has the `workflows` table, the entries map, cron's own jobs, the calls
of `fire` those jobs make and the goroutines they dispatch.

| Action | Code (`scheduler.go`) |
|---|---|
| `StartReload`, `SaveReload` | a call of `Reload`, by `Start` (113) or after a save (129), with its `loadActive`, which may fail (133-140) |
| `RemoveEntry`, `RemovedAll`, `AddEntry`, `ReloadDone` | the rest of `Reload`, 142-177, row by row; saves, ticks and runs come in between |
| `StartCron`, `StopCron` | 116-124 |
| `Fire`, `ReadKillSwitch`, `DispatchTarget` | `fire`, 244-292 |
| `Preflight`, `CountRun`, `ReachCost` | the dispatched `Executor.Run`: pre-flight, count, and a charge that brings the day to its cost cap |
| `SaveWorkflow`, `DeleteWorkflow`, `FlipKillSwitch`, `Restart` | the world around |

The mutex that `Reload` holds is the variable `step`: one reload at a time. `Start`
is one call of `Reload` and, unless it fails, `StartCron`. The doc of `Reload`
(`scheduler.go:129`, `DECISION_LOG.md:220`) has the handler of an update call it once
after the save; that handler is not in the repository yet. So a save adds one to
`owed`, the calls still to be made; a deletion adds none, and neither does a call
that failed. `missed` is history: a change that no call is left to see, because
it is a deletion after the last call or because that call failed. A job carries the targets its closure captured.
The time of a registration is any minute of the period. Runs belong to one user.

* `JobsMatchEntries`: cron's jobs and the entries map name each other; otherwise
  a workflow fires twice, or on a schedule nobody can remove.
* `EntriesMatchRows`: after a reload no save has overtaken, what is registered is
  active, under the schedule of its row.
* `IntervalRule`: what the two-sample check really decides. For every schedule it
  gives both answers over time exactly when its gaps lie on both sides of the
  minimum (`KindsExact`); what is registered has a gap of the minimum; and every
  active owned workflow that never fires too fast is registered.
* `TicksInOrder`: between two saves only active workflows fire, and a stopped
  scheduler whose ticks are over dispatches nothing more.
* `CallsSuffice`: one call per save is enough. When the calls owed are made, no
  Reload is under way and nothing was `missed`, the entries are those of the active
  rows, compared row by row (`CaughtUp`), whatever was saved, failed or restarted before.
* `Converges`: once saves, failures and restarts end, the entries catch up and stay
  so, unless the scheduler is stopped, could not start, or a change was `missed`: a
  failed Reload that no save follows is repeated by nobody, and its entries stay stale.

The run `scheduler` has an owned and a system workflow, schedules with even gaps,
uneven gaps, gaps below the minimum, and a descriptor, over a period of 6
minutes with a minimum of 3; two saves, two ticks, three of both together
(`MaxEvents`), one fault or restart. The second save may fall into the Reload of the
first, or make up for a call that failed, and two ticks are what can overlap.
Fairness: `WF(StartReload)` and `WF(SaveReload)`, since `Start` and each save's
handler make their one call, which waits for the mutex and no longer; and
`WF(ReloadStep)`, since a reload under way holds the mutex and only computes.
`owed` bounds the calls: no Reload recurs by itself. Nothing else is assumed:
nobody has to save, to call again after an error, to stop or to restart.

### PolymarketClient, MCPolymarketClient, PolymarketProofs

`getJSON` with its LRU cache, `fetchWithRetry`, the token bucket and concurrent
callers. Time is counted in ticks of one token; ages and remaining times replace
clocks, so the state space is finite. `Tick` happens only when every call waits
for something: the client's own steps take no time. The server is free: it
answers at any moment (`Respond`) with a body of that moment that then travels
until `ReadAll`, throttles with or without `Retry-After` (`Throttled`), breaks the
connection (`Broken`), answers with another status (`Refused`) or never
(`Overdue`); a context may end at any wait (`Cancelled`). Two misses on one URL
both fetch, as nothing in the code keeps them apart.

* `FreshEnough`: a returned body is no older than its TTL and one request.
* `GoesBackLittle`: the slower of two fetches may put an older body over a newer
  one; how far back it takes later callers is bounded by one request.
* `WithinRate`: retries are requests too; over any window at most the burst and
  one request per further tick leave.
* `CallsReturn`: every call comes back, whatever the server does.

The run has two callers, a metadata and a price URL with different TTLs, one
cache slot (so that they evict each other), a burst of 2, one retry. Fairness:
`SF(Tick)`, time goes on though calls in progress disable it again and again, and
`WF` of the client's own steps. Nothing is assumed of the server.

### WorkflowStore, AgentCatalog, Subscriptions, MCRows, StoreProofs

`WorkflowStore`: `runctl` finds or creates its user (`GetByEmail`, `CreateUser`),
saves templates, workflow, nodes and edges one statement after the other
(`CreateTemplate` ... `CreateEdge`), and runs what it saved; other calls of
`Executor.Run` read any stored workflow with `NewGraph`'s separate statements
(`GetByID` ... `NewGraph`, `CreateRun`); `DeleteWorkflow` cascades and
`DeleteTemplate` is refused while a node refers to it. Foreign keys and the
unique email are those of the migration. `WholeGraph`: a run that gets its row has
read the whole graph, if it was all there when reading began, or if `runctl` saved
it for that run; of a run that starts in the middle of another process's save it
says nothing, since the code promises nothing. A failing INSERT may have been
applied, and its row stays. `OneAccount`: processes of one email work for one user.

`AgentCatalog`: `type_definitions` grows by migrations; each process loads it into
a registry of its own, and checks templates against that (`Create`, `Update` with
its optional fields, `GetByID`, `MustExist`, and the INSERT or UPDATE apart).
`TemplatesTyped`: no template names a type without a row and a schema that
compiles, whichever process wrote it and however updates interleave.
`RegistryIsSnapshot`: a reload that fails halfway changes nothing.

`Subscriptions`: the transaction the repository prescribes to callers (update the
workflow, `SyncForWorkflow`, commit), under the row locks PostgreSQL takes.
`InSync`: what is committed never disagrees. Without the update's lock it would be
the union of two lists, as the mutant of `Update` shows.

The run `rows` checks the three side by side: they share no table, so `part` says
which of them a behaviour exercises, and their states add up. Bounds: two
`runctl` of one email and one other run, two nodes and an edge, one fault and one
deletion; two processes with a request each, two templates, three types (core,
added later, not compilable); three overlapping transactions over lists with
repeated and empty slugs. Templates are symmetric, and so are the processes.

**Deadlock** is off in all these runs: bounded saves, faults and runs run out.

### Findings

Shown by a run:

* `markLoopEdges` starts only at entry nodes (`graph.go:210`): a cycle no entry
  node leads to keeps its edges unmarked, against `graph.go:160-161, 187-189`. An
  `all` join fed by it never fires and the run ends as completed (`loop_cycles`).
* A terminal node with a `first` join may fire, and trade, more than once
  (`executor.go:384`), against `repos/paper_trades.go:142` (`fan_in_trades`).
* When a call of a later tool round or of the second attempt fails, the model name
  is lost (`agent.go:238`, `agent.go:138`) and with it the price of every token of
  the step: the tokens are reported at cost 0 and the user's cost cap does not
  see them, against `agent.go:58-61` (`agent_runtime_cut`).

Met while modelling, and visible in the models without a run of their own:

* Two runs of one user that overlap may each pass the cost cap by a step
  (`executor.go:362`, `quota.go:88`); `quota.go:32-36` speaks of one step.
  `CostCap` has the term `Cardinality(Stopped(d))`.
* A descriptor such as `@hourly` passes `ValidateCronInterval` (`validation.go:64`,
  `ParseStandard`) and is refused by the scheduler's own parser
  (`scheduler.go:98, 226-229`), after the old job was removed (163-164): an active
  workflow without a job. `IntervalRule` excepts `Descriptor`.
* `Reload` leaves a workflow alone whose schedule is unchanged
  (`scheduler.go:159-161`), so its job keeps the `market_targets` it was given
  (223-225), against `scheduler.go:38-39`. No property compares them.
* A schedule with uneven gaps may be accepted although it fires too fast at times
  (`validation.go:73-80`), against `validation.go:37-38`; `KindsExact` says when.
* `NewGraph` does not look up the declared types again (`graph.go:109-122`),
  against the comment `graph.go:90-92`; harmless as long as `TemplatesTyped` holds.

## Proofs

Every theorem holds for every value of the constants: any workflow, limits,
costs, attempts and rounds that the named assumptions of the modules allow. These
say no more than the code does: limits and costs are numbers, edges join nodes
of the workflow, the entry nodes are those without incoming edges in key order
(`NewGraph` refuses a workflow without one), a run may take at least one step, a
step lasts at most its timeout, among the costs of a step there is a
greatest one, users, runs and callers are finitely many, there is a URL to ask for,
and `"unset"` (an optional field that is absent) is not a template. TLC evaluates each assumption in the runs.

**LoopEdgesProofs.** `IInv` says that gray is exactly the stack, that the stack is a
path, and that what a `todo` list no longer holds is either marked or leads to a
node already finished or to the activation just called. From it: `SearchInvariant`,
`UnmarkedAcyclic` (`FinishOrder`), `SearchReaches` (`Reached`), `MarksAreCycles`
(`MarksCloseCycle`) and `JoinsNeverStarve` (`JoinsUnblocked`).

**EngineProofs.** `IInv` of `Engine` is `TypeOK /\ QueueInv /\ RowsInv`. `QueueExact`
alone is not inductive: between `TakeNode` and `EndTurn` one node is off the queue
and its arrivals are half delivered, so `QueueInv` also says what holds of that node
and of sequence numbers at each statement, and `RowsInv` what the last step row
looks like there. Results: `RunInvariant` and `QueueIsExact`.

`RunImplementsLifecycle`: initial states map to initial states, and each action of
`Engine` to one action of `RunLifecycle` or to a stutter. `RowsInv` is what the
mapping needs: a row is finished only while it is the last and running, and a
trade follows the step it belongs to.

Firings: what the rows say of the firings, on top of the first invariant.
`FInv` relates a node's inputs to its rows. Nothing a row was given is newer
than what the node holds (`StampsInv`). What arrived since the last firing is newer
than in every row, what did not is in one of them (`InputsInv`); both change
hands at `Settle`, which sets the last firing to the sequence counter. A node
about to fire is ready, and a completed run has an empty queue (`StopsInv`, from
`QueueExact`). Until the one conditional edge of a firing is taken, no node that
only such edges lead to holds its output (`FireInv`, `BranchInv`). Results:
`FiringsInvariant`, `FiringsAreJustified`, `NothingIsMissed`, `OneBranchAtMost`.

Limits: a further invariant, `LInv`, on top of the first, follows the
history variables from statement to statement: `KillInv` (the one
step begun after the switch went on is the last), `DeadlineInv` (the deadline is checked before each
step and only `Invoke` takes time), `OverspendInv`, `LedgerInv` (what is paid and not
yet charged) and `StepsInv` (the iterations count the rows). Results:
`KillSwitchStops`, `DeadlineHolds`, `OverspendIsBounded`, `LedgerIsExact`,
`LimitsAlwaysHold`.

Books: `Reconcilable` compares sums over the rows. `BooksInv` says when they change: a
step is paid in `Invoke`, enters its row, which cost nothing before, in
`PersistStep`, and the usage row only in `ChargeStep`. The sums themselves are
`SumFunction` of the community modules; what changes one term or adds one
does to them is in `NatFacts`. Result: `BooksReconcile`.

Happy path: `ExecutorSeesAssessedThesis` is about one graph, so its theorem assumes
`IsHappyPath` (the nodes, edges, joins and limits of `runctl`) and leaves costs, outputs,
limits of the run and faults open. Thesis and risk assessor take turns (`Turns`): each
fires again only on something of the other's, since what else they have comes from nodes
that fire once (`OtherIsNewer`, from `FiringsJustified`). So the k-th verdict is about the
k-th thesis, and the thesis after it was given that verdict. The executor always has the
latest thesis (`ThesisArrived`), and no thesis was given the verdict it has
(`Unanswered`: approved and rejected exclude each other, `BranchInv`); hence the two
belong together. Result: `ExecutorSeesItsThesis`.

**AgentRuntimeProofs.** `IInv` of `AgentRuntime` says at each statement where the
tokens, the calls and the blocks are: the tokens of a conversation in progress are
in `usage` and not yet in the result (`TokensInv`), the calls of the attempts before
are at most their rounds (`CallsInv`), the unanswered blocks are `open`
(`BlocksInv`). Results: `InvokeInvariant`, `TokensAreCounted`, `OnlyCutsLosePrice`,
`CallsAreBounded`, `ToolsAreAnswered`.

**QuotaProofs.** `IInv` of `Quota`: the tickets of a day are exactly `1..run_count`,
each held by one run (`TicketsExact`); where a run stands says which ticket it has
(`Progress`); and every charge past the cost cap stopped a run of its own
(`CostCap`, inductive with these). Results: `Invariance`, `RunCapHolds` (a counting
argument over the tickets), `CostCapHolds`, `PastHolds` (the row of a day that is
over never changes) and `ImplementsCap`, the refinement of `DailyCap`.
`CostsAreConserved` (`CostsConserved`) adds that each upsert adds the same amount to one
term of the sum over the days and to one of the sum over the runs.

**SchedulerProofs.** `JobsMatchEntries` is inductive once ids are never reused
(`IdsUnique`), and `EntriesMatchRows` once a reload under way is known to work on
the rows as they are while nothing is saved (`ReloadInv`). Results:
`SchedulerInvariant`, `JobsAreEntries`, `EntriesAreRows` and, from both,
`TicksStayInOrder`. `OneCallPerSave` (`CallsSuffice`) needs `CallsInv`: a change since the
last completed query has a call to come, or is `missed`; with none of them the
last query saw the table as it is, and `IInv` and `RuleInv` (below) give both halves
of `CaughtUp`.

`CheckIsExact` (`KindsExact`) is about module `CronInterval` alone: the next firing exists
and is unique, the gap the check measures is one of the schedule's, and every gap is
measured at some time, so the check wavers exactly when the gaps lie on both sides of the
minimum. `IntervalsAreKept` (`IntervalRule`) adds the `Reload`: `RuleInv` follows a row the
check must accept from `want` to `todo` to `entries`.

**StoreProofs.** `OneAccount` follows from `AccountsInv`: an email has one row, and an
owner is a row. `WholeGraph` follows from `SavedInv` and `Reads`: the rows of a stored
workflow are kept while it is there, a deleted workflow never returns, and the
foreign key of `workflow_runs` asks for it once more at the end of the reads.
Results: `StoreInvariant`, `GraphIsWhole`, `AccountIsOne`.

The module extends `MCRows`, for its instances `Catalog` and `Subs`. `TemplatesTyped` is
inductive with `RegistryInv` (a registry holds types that have a row and compile) and
`RequestInv` (what a request goes on to write has passed the check of its process); no
type is ever removed, so what was checked once stays good, however stale the registry.
`InSync` needs `LockInv`: between the update of a workflow and the commit a transaction
holds the row lock, alone, so nobody changes what it deletes and copies. Results:
`CatalogInvariant`, `TemplatesAreTyped`, `RegistriesAreSnapshots`, `SubsInvariant`,
`SubscriptionsInSync`.

**PolymarketProofs.** For any number of calls and URLs, any TTLs, cache size,
timeout, retries and rate. `WithinRate` is inductive once tokens in the bucket and
reserved tokens that are due count as requests, and the other reserved ones are known to
fall due one a tick (`RateInv`). `BodyInv` and `CacheInv` say what the age of a body and
what is left of its request, or of its cache entry, add up to, how far an entry may be
behind the newest body a caller got, and that a URL has one entry. Results: `ClientInvariant`,
`BodiesAreFresh`, `BodiesGoBackLittle`, `RequestsWithinRate`.

**NatFacts.** What several of these share: the least element of a set of naturals,
inductions over naturals and over the subsets of a finite set (stated for the set of the
values that have the property, since a theorem with an operator parameter cannot
be used), and the lemmas on sums.

**Only model-checked.** The liveness properties (`RunSettles`, `Returns`, `Converges`,
`CallsReturn`): fairness is out of the prover's reach.

## Not modelled, and why

* Tools and `agentctl`, `pmctl`, `typecheck`: adapters that make one call.
* `pricing.go` and the environment variables of the caps: constants.
* Compiling and validating JSON schemas, parsing cron expressions: libraries; the
  models have their outcomes.
* `polymarket/types.go`, order-book parsing, prompts, JSON fences, error texts,
  latencies: data that no property is about.
* `UpdatePassword` and `UpdateStepStatus`, which nothing calls, the list queries,
  which change nothing, and `db.go`, which opens the pool.
* Two overlapping calls of `Registry.Reload` in one process: nothing makes them.

## Plan

Done: engine, loop edges, lifecycle, agent runtime, quota, scheduler, Polymarket
client, rows. Left:

1. `AgentRuntime` as a refinement of the action `Invoke` of `Engine`.
2. `PolymarketClient` over a clock that is not a counter of tokens, so that the
   burst and the timeout can be any numbers in a proof.

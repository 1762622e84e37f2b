----------------------------- MODULE Scheduler -----------------------------
(* The scheduler: the workflows table, the entries map that Reload keeps in *)
(* step with it, the jobs robfig/cron holds, and the ticks those jobs fire. *)
(* Reload holds the mutex from its query to its last registration, so one   *)
(* Reload is under way at a time; ticks, saves and runs do not wait for it. *)
(*                                                                          *)
(* All workflows belong to one user, whose other runs are left out.         *)
EXTENDS CronInterval, Sequences, FiniteSets

CONSTANTS
  Workflow, Owned,   \* workflows; those with an owner_id
  Schedule, Fires,   \* cron expressions; the minutes ParseStandard reads in each
  Descriptor,        \* "@hourly" and the like, which only ParseStandard reads
  TargetLists,       \* values of market_targets
  MaxRunsPerDay,
  MaxSaves, MaxTicks, MaxFaults,  \* bounds: saves, ticks, failures and restarts
  MaxEvents                       \* bound: saves and ticks together

Null == "null"               \* schedule_cron IS NULL
Row  == [live : BOOLEAN, active : BOOLEAN, schedule : Schedule \cup {Null}, targets : TargetLists]

Phase == {"new", "starting", "loaded", "running", "failed", "stopped"}
Entry == [id : Nat, schedule : Schedule \cup {Null}]
Job   == [id : Nat \ {0}, wf : Workflow, targets : TargetLists]
TickState == [wf : Workflow, targets : TargetLists, next : Nat, at : {"kill", "targets", "over"}]
RunState  == [tick : Nat, target : Nat,
              at : {"spawned", "preflighted", "running", "quota_exceeded", "refused", "died"}]

ASSUME ScheduleAssumption ==
  /\ Owned \subseteq Workflow /\ Null \notin Schedule /\ Descriptor \subseteq Schedule
  /\ Fires \in [Schedule -> SUBSET Minute]
ASSUME BoundAssumption ==
  /\ MaxRunsPerDay \in Nat
  /\ MaxSaves \in Nat /\ MaxTicks \in Nat /\ MaxFaults \in Nat /\ MaxEvents \in Nat

VARIABLES
  rows,              \* the workflows table
  phase,             \* where Start has come to, and whether Stop was called
  entries,           \* s.entries: workflow -> cron entry id and schedule; id 0: none
  jobs,              \* cron's entries: id, workflow and the targets the closure captured
  nextId,            \* the next cron.EntryID
  step, want, todo,  \* Reload: where it stands, what loadActive returned, what is left
  ticks,             \* the calls of fire, in the order they began
  runs,              \* the goroutines they dispatched
  killSwitch, runCount,  \* shared rows: system_config, run_count of the user's day
  costReached,       \* total_cost_usd of that day is at the cap
  saves, faults,     \* counters of the bounds
  owed,              \* calls of Reload that handlers of a save are still to make
  synced,            \* history: no row was saved since the last completed Reload's query
  missed             \* history: a change no call of Reload is going to see

table  == <<rows, saves>>
cron   == <<entries, jobs, nextId>>
reload == <<step, want, todo>>
fired  == <<ticks, runs>>
shared == <<killSwitch, runCount, costReached>>
calls  == <<owed, synced, missed>>
vars == <<table, phase, cron, reload, fired, shared, faults, calls>>

NoEntry == [id |-> 0, schedule |-> Null]
Registered(w) == entries[w].id # 0
Active(r) == r.live /\ r.active /\ r.schedule # Null

Init ==
  /\ rows \in [Workflow -> {r \in Row : r.live}] /\ saves = 0
  /\ phase = "new"
  /\ entries = [w \in Workflow |-> NoEntry] /\ jobs = {} /\ nextId = 1
  /\ step = "idle" /\ want = {} /\ todo = {}
  /\ ticks = <<>> /\ runs = <<>>
  /\ killSwitch = FALSE /\ runCount = 0 /\ costReached = FALSE
  /\ faults = 0 /\ owed = 0 /\ synced = FALSE /\ missed = FALSE

NoFault == UNCHANGED faults
Fault   == faults < MaxFaults /\ faults' = faults + 1
MaySave == saves < MaxSaves /\ saves + Len(ticks) < MaxEvents

----------------------------------------------------------------------------
(* The table, through WorkflowsRepo.  A nil parameter of Update leaves its  *)
(* column alone, so a schedule, once set, is replaced but never removed.    *)
(* The handler of an update calls Reload once it is saved; a deletion is    *)
(* seen by the calls still to come, those of saves and the one of Start.    *)
Save(w, r) == rows' = [rows EXCEPT ![w] = r] /\ saves' = saves + 1 /\ synced' = FALSE

SaveWorkflow(w) ==
  /\ MaySave /\ rows[w].live
  /\ \E r \in Row \ {rows[w]} :
       r.live /\ (r.schedule = Null => rows[w].schedule = Null) /\ Save(w, r)
  /\ owed' = owed + 1 /\ missed' = FALSE
  /\ UNCHANGED <<phase, cron, reload, fired, shared, faults>>

DeleteWorkflow(w) ==
  /\ MaySave /\ rows[w].live
  /\ Save(w, [rows[w] EXCEPT !.live = FALSE])
  /\ missed' = (owed = 0 /\ phase # "new")
  /\ UNCHANGED <<phase, cron, reload, fired, shared, faults, owed>>

----------------------------------------------------------------------------
(* Reload, under the mutex.                                                 *)
Wanted(w) == \E x \in want : x.wf = w
Stale(w)  == Registered(w) /\ ~Wanted(w)

(* loadActive.                                                              *)
Loaded ==
  /\ NoFault /\ step' = "remove" /\ synced' = TRUE /\ missed' = FALSE
  /\ want' = {[wf |-> w, row |-> rows[w]] : w \in {v \in Workflow : Active(rows[v])}}

(* Mutant of NotLoaded: rows.Err() is not looked at, so that the rows read  *)
(* before the error are taken for all of them.                              *)
LoadedInPart ==
  /\ Fault /\ step' = "remove" /\ synced' = TRUE /\ missed' = FALSE
  /\ want' \in SUBSET {[wf |-> w, row |-> rows[w]] : w \in {v \in Workflow : Active(rows[v])}}

(* An error of it leaves the entries as they are, and nobody calls again.   *)
NotLoaded ==
  /\ Fault /\ UNCHANGED <<step, want, synced>>
  /\ missed' = (owed' = 0 /\ phase' # "new")

(* The call of Start, which hands the error to its caller.                  *)
StartReload ==
  /\ step = "idle" /\ phase = "new"
  /\ UNCHANGED <<table, cron, todo, fired, shared, owed>>
  /\ \/ phase' = "starting" /\ Loaded
     \/ phase' = "failed" /\ NotLoaded

(* Mutant of SaveReload: a call that finds the mutex taken leaves the work  *)
(* to the Reload under way.                                                 *)
SaveReloadSkipped ==
  /\ owed > 0 /\ owed' = owed - 1
  /\ UNCHANGED <<table, phase, cron, todo, fired, shared>>
  /\ \/ step = "idle" /\ (Loaded \/ NotLoaded)
     \/ step # "idle" /\ UNCHANGED <<step, want, synced, missed, faults>>

(* The call a handler makes after its save: it waits for the mutex.         *)
SaveReload ==
  /\ step = "idle" /\ owed > 0 /\ owed' = owed - 1
  /\ UNCHANGED <<table, phase, cron, todo, fired, shared>>
  /\ Loaded \/ NotLoaded

(* Mutant of Unregister: the entry is forgotten, the job is not removed.    *)
UnregisterMapOnly(w) ==
  /\ entries' = [entries EXCEPT ![w] = NoEntry]
  /\ UNCHANGED jobs

(* cron.Remove and delete(s.entries).                                       *)
Unregister(w) ==
  /\ entries' = [entries EXCEPT ![w] = NoEntry]
  /\ jobs' = {j \in jobs : j.id # entries[w].id}

RemoveEntry(w) ==
  /\ step = "remove" /\ Stale(w) /\ Unregister(w)
  /\ UNCHANGED <<table, phase, nextId, reload, fired, shared, faults, calls>>

RemovedAll ==
  /\ step = "remove" /\ \A w \in Workflow : ~Stale(w)
  /\ step' = "add" /\ todo' = want
  /\ UNCHANGED <<table, phase, cron, want, fired, shared, faults, calls>>

(* registerLocked at minute t: the interval check, the owner, AddFunc.      *)
Registrable(x, t) ==
  /\ Accepts(Fires[x.row.schedule], t)
  /\ x.wf \in Owned
  /\ x.row.schedule \notin Descriptor

MayRegister(x) == \E t \in Minute : Registrable(x, t)
MayFail(x)     == \E t \in Minute : ~Registrable(x, t)

Register(x, js) ==
  /\ jobs' = js \cup {[id |-> nextId, wf |-> x.wf, targets |-> x.row.targets]}
  /\ entries' = [entries EXCEPT ![x.wf] = [id |-> nextId, schedule |-> x.row.schedule]]
  /\ nextId' = nextId + 1

(* Mutant of AddEntry: the job of the old schedule stays in cron.           *)
AddEntryNoRemove(x) ==
  /\ step = "add" /\ x \in todo /\ todo' = todo \ {x}
  /\ \/ /\ Registered(x.wf) /\ entries[x.wf].schedule = x.row.schedule
        /\ UNCHANGED cron
     \/ /\ entries[x.wf].schedule # x.row.schedule /\ MayRegister(x)
        /\ Register(x, jobs)
     \/ /\ entries[x.wf].schedule # x.row.schedule /\ MayFail(x)
        /\ Unregister(x.wf) /\ UNCHANGED nextId
  /\ UNCHANGED <<table, phase, step, want, fired, shared, faults, calls>>

(* Mutant of AddEntry: a changed schedule is not noticed.                   *)
AddEntryIfNew(x) ==
  /\ step = "add" /\ x \in todo /\ todo' = todo \ {x}
  /\ \/ Registered(x.wf) /\ UNCHANGED cron
     \/ ~Registered(x.wf) /\ MayRegister(x) /\ Register(x, jobs)
     \/ ~Registered(x.wf) /\ MayFail(x) /\ UNCHANGED cron
  /\ UNCHANGED <<table, phase, step, want, fired, shared, faults, calls>>

(* One turn of the loop over the wanted rows: nothing for an unchanged      *)
(* schedule; otherwise the old job goes, and the new one comes if it may.   *)
AddEntry(x) ==
  /\ step = "add" /\ x \in todo /\ todo' = todo \ {x}
  /\ \/ /\ Registered(x.wf) /\ entries[x.wf].schedule = x.row.schedule
        /\ UNCHANGED cron
     \/ /\ entries[x.wf].schedule # x.row.schedule /\ MayRegister(x)
        /\ Register(x, {j \in jobs : j.id # entries[x.wf].id})
     \/ /\ entries[x.wf].schedule # x.row.schedule /\ MayFail(x)
        /\ Unregister(x.wf) /\ UNCHANGED nextId
  /\ UNCHANGED <<table, phase, step, want, fired, shared, faults, calls>>

ReloadDone ==
  /\ step = "add" /\ todo = {}
  /\ step' = "idle" /\ want' = {}
  /\ phase' = IF phase = "starting" THEN "loaded" ELSE phase
  /\ UNCHANGED <<table, cron, todo, fired, shared, faults, calls>>

----------------------------------------------------------------------------
(* cron.Start after the first Reload, cron.Stop at shutdown.                *)
StartCron ==
  /\ phase = "loaded" /\ phase' = "running"
  /\ UNCHANGED <<table, cron, reload, fired, shared, faults, calls>>

StopCron ==
  /\ phase = "running" /\ phase' = "stopped"
  /\ UNCHANGED <<table, cron, reload, fired, shared, faults, calls>>

(* The job of an entry is due: cron calls fire in a goroutine of its own,   *)
(* whether or not an earlier tick of the job is still under way.            *)
Fire(j) ==
  /\ phase = "running" /\ Len(ticks) < MaxTicks /\ saves + Len(ticks) < MaxEvents
  /\ ticks' = Append(ticks, [wf |-> j.wf, targets |-> j.targets, next |-> 1, at |-> "kill"])
  /\ UNCHANGED <<table, phase, cron, reload, runs, shared, faults, calls>>

TickGoes(i, at) == ticks' = [ticks EXCEPT ![i].at = at]

(* The kill switch is read once per tick.                                   *)
ReadKillSwitch(i) ==
  /\ ticks[i].at = "kill"
  /\ \/ NoFault /\ TickGoes(i, IF killSwitch \/ ticks[i].targets = <<>> THEN "over" ELSE "targets")
     \/ Fault /\ TickGoes(i, "over")
  /\ UNCHANGED <<table, phase, cron, reload, runs, shared, calls>>

(* CheckQuota, then `go dispatch` for the target; the first target that is  *)
(* over the quota, or cannot be checked, ends the tick.                     *)
OverQuota == runCount >= MaxRunsPerDay \/ costReached

DispatchTarget(i) ==
  /\ ticks[i].at = "targets"
  /\ \/ /\ NoFault /\ ~OverQuota
        /\ runs' = Append(runs, [tick |-> i, target |-> ticks[i].next, at |-> "spawned"])
        /\ ticks' = [ticks EXCEPT ![i].next = @ + 1,
                                  ![i].at = IF ticks[i].next = Len(ticks[i].targets) THEN "over" ELSE @]
     \/ NoFault /\ OverQuota /\ TickGoes(i, "over") /\ UNCHANGED runs
     \/ Fault /\ TickGoes(i, "over") /\ UNCHANGED runs
  /\ UNCHANGED <<table, phase, cron, reload, shared, calls>>

----------------------------------------------------------------------------
(* The dispatched Executor.Run as far as this module sees it: its pre-flight*)
(* read of the kill switch and the graph, then its count (module Quota).    *)
RunGoes(k, at) == runs' = [runs EXCEPT ![k].at = at]
RowOf(k) == rows[ticks[runs[k].tick].wf]

Preflight(k) ==
  /\ runs[k].at = "spawned"
  /\ \/ NoFault /\ RunGoes(k, IF killSwitch \/ ~RowOf(k).live THEN "refused" ELSE "preflighted")
     \/ Fault /\ RunGoes(k, "refused")
  /\ UNCHANGED <<table, phase, cron, reload, ticks, shared, calls>>

CountRun(k) ==
  /\ runs[k].at = "preflighted"
  /\ \/ /\ NoFault /\ RowOf(k).live /\ runCount' = runCount + 1
        /\ RunGoes(k, IF runCount' > MaxRunsPerDay THEN "quota_exceeded" ELSE "running")
     \/ NoFault /\ ~RowOf(k).live /\ RunGoes(k, "refused") /\ UNCHANGED runCount
     \/ Fault /\ RunGoes(k, "refused") /\ runCount' \in {runCount, runCount + 1}
  /\ UNCHANGED <<table, phase, cron, reload, ticks, killSwitch, costReached, calls>>

(* A step of a run is charged, and the day's cost is at the cap.            *)
ReachCost(k) ==
  /\ runs[k].at = "running" /\ ~costReached /\ costReached' = TRUE
  /\ UNCHANGED <<table, phase, cron, reload, fired, killSwitch, runCount, faults, calls>>

FlipKillSwitch ==
  /\ MaySave /\ saves' = saves + 1
  /\ killSwitch' = ~killSwitch
  /\ UNCHANGED <<rows, phase, cron, reload, fired, runCount, costReached, faults, calls>>

(* The process dies and is started again: only the tables are left.         *)
Restart ==
  /\ phase # "new" /\ Fault
  /\ phase' = "new"
  /\ entries' = [w \in Workflow |-> NoEntry] /\ jobs' = {} /\ nextId' = 1
  /\ step' = "idle" /\ want' = {} /\ todo' = {}
  /\ owed' = 0 /\ synced' = FALSE /\ missed' = FALSE
  /\ ticks' = [i \in 1..Len(ticks) |-> [ticks[i] EXCEPT !.at = "over"]]
  /\ runs' = [k \in 1..Len(runs) |->
                [runs[k] EXCEPT !.at = IF @ \in {"spawned", "preflighted", "running"} THEN "died" ELSE @]]
  /\ UNCHANGED <<table, shared>>

ReloadStep == \/ \E w \in Workflow : RemoveEntry(w)
              \/ RemovedAll
              \/ \E x \in todo : AddEntry(x)
              \/ ReloadDone
TickStep(i) == ReadKillSwitch(i) \/ DispatchTarget(i)
RunStep(k)  == Preflight(k) \/ CountRun(k) \/ ReachCost(k)

Next ==
  \/ \E w \in Workflow : SaveWorkflow(w) \/ DeleteWorkflow(w)
  \/ FlipKillSwitch \/ Restart
  \/ StartReload \/ SaveReload \/ ReloadStep
  \/ StartCron \/ StopCron
  \/ \E j \in jobs : Fire(j)
  \/ \E i \in 1..Len(ticks) : TickStep(i)
  \/ \E k \in 1..Len(runs) : RunStep(k)

Spec == Init /\ [][Next]_vars

(* Start is called, a handler that has saved makes its one call of Reload,  *)
(* and a Reload under way goes on.  Nobody is obliged to save, to call again*)
(* after an error, to stop or to restart.                                   *)
FairSpec == Spec /\ WF_vars(StartReload) /\ WF_vars(SaveReload) /\ WF_vars(ReloadStep)

----------------------------------------------------------------------------
TypeOK ==
  /\ rows \in [Workflow -> Row]
  /\ phase \in Phase
  /\ entries \in [Workflow -> Entry]
  /\ jobs \subseteq Job
  /\ nextId \in Nat \ {0}
  /\ step \in {"idle", "remove", "add"}
  /\ want \subseteq [wf : Workflow, row : Row] /\ todo \subseteq want
  /\ ticks \in Seq(TickState) /\ runs \in Seq(RunState)
  /\ killSwitch \in BOOLEAN /\ runCount \in Nat /\ costReached \in BOOLEAN
  /\ owed \in Nat /\ synced \in BOOLEAN /\ missed \in BOOLEAN
  /\ saves \in Nat /\ faults \in Nat

(* cron holds exactly the jobs the entries map knows, one per workflow: no  *)
(* workflow fires twice, and none fires on a schedule nobody can remove.    *)
JobsMatchEntries ==
  /\ \A j \in jobs : entries[j.wf].id = j.id
  /\ \A w \in Workflow : Registered(w) => \E j \in jobs : j.wf = w

(* After a Reload that no save has overtaken every entry is an active row   *)
(* with its schedule: inactive, deleted and re-scheduled workflows are gone.*)
Reloaded == synced /\ step = "idle"
EntriesMatchRows ==
  Reloaded => \A w \in Workflow :
    Registered(w) => Active(rows[w]) /\ entries[w].schedule = rows[w].schedule

(* What JobsMatchEntries rests on: an entry id is never given out again.    *)
IdsUnique ==
  /\ \A w \in Workflow : entries[w].id < nextId
  /\ \A v, w \in Workflow : Registered(v) /\ entries[v].id = entries[w].id => v = w

(* What EntriesMatchRows rests on: while nothing is saved, a Reload works   *)
(* on the rows as they are, and what it has passed has the row's schedule.  *)
ReloadInv ==
  /\ step # "add" => todo = {}
  /\ step # "idle" /\ synced => \A x \in want : Active(x.row) /\ x.row = rows[x.wf]
  /\ step = "add" => \A w \in Workflow : Registered(w) =>
       \E x \in want : x.wf = w /\ (x \in todo \/ entries[w].schedule = x.row.schedule)

(* The inductive invariant.                                                 *)
IInv == TypeOK /\ JobsMatchEntries /\ IdsUnique /\ ReloadInv /\ EntriesMatchRows

(* The interval check tells schedules with a gap below the minimum exactly  *)
(* as KindsExact says: one whose gaps are all alike (every n minutes) is    *)
(* never registered when it fires faster than the minimum, one with uneven  *)
(* gaps has at least one of the minimum, and after a Reload every active,   *)
(* owned row that never fires too fast is there (validateCronWithMin).      *)
Slow == {s \in Schedule : Fires[s] # {} /\ \A g \in Gaps(Fires[s]) : g >= MinInterval}
IntervalRule ==
  /\ KindsExact
  /\ \A w \in Workflow :
       Registered(w) => \E g \in Gaps(Fires[entries[w].schedule]) : g >= MinInterval
  /\ Reloaded => \A w \in Owned :
       Active(rows[w]) /\ rows[w].schedule \in Slow \ Descriptor => Registered(w)

(* What IntervalRule rests on, along a Reload: it works on active rows, and *)
(* while nothing is saved a row the check must accept is wanted, then to be *)
(* registered, then registered.                                             *)
RuleInv ==
  /\ \A x \in want : Active(x.row)
  /\ \A w \in Workflow :
       Registered(w) => \E g \in Gaps(Fires[entries[w].schedule]) : g >= MinInterval
  /\ synced => \A w \in Owned :
       Active(rows[w]) /\ rows[w].schedule \in Slow \ Descriptor =>
         \/ step = "remove" /\ Wanted(w)
         \/ step = "add" /\ \E x \in todo : x.wf = w
         \/ step # "remove" /\ Registered(w)

(* Between two saves only active workflows fire: what is left of an old     *)
(* registration starts no tick after the Reload that dropped it.  And once  *)
(* Stop has drained the ticks no further run is dispatched (runs that were  *)
(* dispatched before are not waited for).                                   *)
FiresActive == \A i \in 1..Len(ticks') : i > Len(ticks) /\ Reloaded => Active(rows[ticks'[i].wf])
Drained     == phase = "stopped" /\ \A i \in 1..Len(ticks) : ticks[i].at = "over"
QuietAfterStop ==
  Drained => phase' = "new" \/ (Len(ticks') = Len(ticks) /\ Len(runs') = Len(runs))
TicksInOrder == [][FiresActive /\ QuietAfterStop]_vars

(* The entries are those of the active rows: none of another workflow or    *)
(* schedule, and one for every row the interval check cannot refuse.        *)
CaughtUp ==
  /\ \A w \in Workflow :
       Registered(w) => Active(rows[w]) /\ entries[w].schedule = rows[w].schedule
  /\ \A w \in Owned :
       Active(rows[w]) /\ rows[w].schedule \in Slow \ Descriptor => Registered(w)

(* One call per save is enough: once Start and the handlers have made their *)
(* calls and none of them failed last, the entries are those of the table,  *)
(* whatever was saved or failed on the way.                                 *)
CallsSuffice == step = "idle" /\ owed = 0 /\ ~missed /\ phase # "new" => CaughtUp

(* What it rests on: a change the entries do not show has a call to come.   *)
CallsInv == synced \/ missed \/ owed > 0 \/ phase = "new"

(* When saves, failures and restarts end, the entries catch up with the     *)
(* table and stay so although each save has one call of Reload and Start    *)
(* another: a call that finds a Reload under way must not be dropped.  What *)
(* no call is left to see, after an error or a deletion, is not promised,   *)
(* nor anything once the scheduler is stopped or could not start.           *)
Converges == <>[](phase \in {"stopped", "failed"} \/ missed \/ CaughtUp)
=============================================================================

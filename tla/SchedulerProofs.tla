-------------------------- MODULE SchedulerProofs --------------------------
(* Proofs about module Scheduler, for any number of workflows, schedules,   *)
(* saves, ticks, failures and restarts: its inductive invariant, that cron  *)
(* holds exactly the jobs the entries map knows, that a Reload no save has  *)
(* overtaken leaves only active rows, which ticks and dispatches begin, and *)
(* what the interval check accepts.                                         *)
EXTENDS Scheduler, SequenceTheorems, NatFacts

USE ScheduleAssumption, BoundAssumption

(* The parts of the invariant besides the types.                            *)
Core == JobsMatchEntries /\ IdsUnique /\ ReloadInv /\ EntriesMatchRows

(* They look at the table, the entries, the jobs and Reload only.           *)
LEMMA CoreKept ==
  ASSUME Core, UNCHANGED <<rows, entries, jobs, nextId, step, want, todo, synced>>
  PROVE  Core'
<1>1. /\ rows' = rows /\ entries' = entries /\ jobs' = jobs /\ nextId' = nextId
      /\ step' = step /\ want' = want /\ todo' = todo /\ synced' = synced
  OBVIOUS
<1>2. \A w : Registered(w)' <=> Registered(w)
  BY <1>1 DEF Registered
<1>3. Reloaded' <=> Reloaded
  BY <1>1 DEF Reloaded
<1>4. JobsMatchEntries'
  BY <1>1, <1>2 DEF Core, JobsMatchEntries
<1>5. IdsUnique'
  BY <1>1, <1>2 DEF Core, IdsUnique
<1>6. ReloadInv'
  BY <1>1, <1>2 DEF Core, ReloadInv
<1>7. EntriesMatchRows'
  BY <1>1, <1>2, <1>3 DEF Core, EntriesMatchRows
<1> QED BY <1>4, <1>5, <1>6, <1>7 DEF Core

(* Whatever the entries, no promise about the rows is made once one was     *)
(* saved; the jobs do not depend on them.                                   *)
LEMMA CoreAfterSave ==
  ASSUME Core, synced' = FALSE, UNCHANGED <<entries, jobs, nextId, step, want, todo>>
  PROVE  Core'
<1>1. /\ entries' = entries /\ jobs' = jobs /\ nextId' = nextId
      /\ step' = step /\ want' = want /\ todo' = todo
  OBVIOUS
<1>2. \A w : Registered(w)' <=> Registered(w)
  BY <1>1 DEF Registered
<1>3. JobsMatchEntries'
  BY <1>1, <1>2 DEF Core, JobsMatchEntries
<1>4. IdsUnique'
  BY <1>1, <1>2 DEF Core, IdsUnique
<1>5. ReloadInv'
  BY <1>1, <1>2 DEF Core, ReloadInv
<1>6. EntriesMatchRows'
  BY DEF EntriesMatchRows, Reloaded
<1> QED BY <1>3, <1>4, <1>5, <1>6 DEF Core

(* At the start there are no entries and no jobs.                           *)
LEMMA InitInv == Init => IInv
<1> SUFFICES ASSUME Init PROVE IInv
  OBVIOUS
<1>1. rows \in [Workflow -> Row] /\ entries \in [Workflow -> Entry]
  BY DEF Init, NoEntry, Entry
<1>2. ticks = << >> /\ runs = << >>
  BY DEF Init
<1>3. TypeOK
  <2>1. ticks \in Seq(TickState) /\ runs \in Seq(RunState)
    BY <1>2, EmptySeq
  <2>2. jobs \subseteq Job /\ want \subseteq [wf : Workflow, row : Row] /\ todo \subseteq want
    BY DEF Init
  <2>3. nextId \in Nat \ {0} /\ runCount \in Nat /\ saves \in Nat /\ faults \in Nat
    BY DEF Init
  <2>4. phase = "new" /\ step = "idle" /\ killSwitch = FALSE /\ costReached = FALSE
         /\ owed = 0 /\ synced = FALSE /\ missed = FALSE
    BY DEF Init
  <2> QED BY <1>1, <2>1, <2>2, <2>3, <2>4 DEF TypeOK, Phase
<1>4. \A w \in Workflow : entries[w].id = 0
  BY DEF Init, NoEntry
<1>5. JobsMatchEntries /\ IdsUnique
  BY <1>4 DEF Init, JobsMatchEntries, IdsUnique, Registered
<1>6. ReloadInv /\ EntriesMatchRows
  BY DEF Init, ReloadInv, EntriesMatchRows, Reloaded
<1> QED BY <1>3, <1>5, <1>6 DEF IInv

----------------------------------------------------------------------------
(* The table and the world around the scheduler.                            *)
LEMMA SaveInv ==
  ASSUME IInv, NEW w \in Workflow, SaveWorkflow(w) \/ DeleteWorkflow(w)
  PROVE  IInv'
<1>1. PICK r \in Row : Save(w, r)
  <2>1. rows[w] \in Row
    BY DEF IInv, TypeOK
  <2>2. [rows[w] EXCEPT !.live = FALSE] \in Row
    BY <2>1 DEF Row
  <2> QED BY <2>2 DEF SaveWorkflow, DeleteWorkflow
<1>2. rows' \in [Workflow -> Row] /\ saves' \in Nat /\ synced' = FALSE
  BY <1>1 DEF Save, IInv, TypeOK
<1>3. UNCHANGED <<phase, cron, reload, fired, shared, faults>>
  BY DEF SaveWorkflow, DeleteWorkflow
<1>4. owed' \in Nat
  BY DEF SaveWorkflow, DeleteWorkflow, IInv, TypeOK
<1>5. missed' \in BOOLEAN
  BY DEF SaveWorkflow, DeleteWorkflow
<1>6. TypeOK'
  BY <1>2, <1>3, <1>4, <1>5 DEF IInv, TypeOK, cron, reload, fired, shared
<1>7. Core'
  BY <1>2, <1>3, CoreAfterSave DEF IInv, Core, cron, reload
<1> QED BY <1>6, <1>7 DEF IInv, Core

LEMMA FlipInv == ASSUME IInv, FlipKillSwitch PROVE IInv'
<1>1. killSwitch' \in BOOLEAN
  BY DEF FlipKillSwitch
<1>2. /\ saves' \in Nat
      /\ UNCHANGED <<rows, phase, cron, reload, fired, runCount, costReached, faults, calls>>
  BY DEF FlipKillSwitch, IInv, TypeOK
<1>3. TypeOK'
  BY <1>1, <1>2 DEF IInv, TypeOK, cron, reload, fired, calls
<1>4. Core'
  BY <1>2, CoreKept DEF IInv, Core, cron, reload, calls
<1> QED BY <1>3, <1>4 DEF IInv, Core

LEMMA FaultType == ASSUME TypeOK, NoFault \/ Fault PROVE faults' \in Nat
BY DEF TypeOK, NoFault, Fault

(* Only the tables outlive the process.                                     *)
LEMMA RestartInv == ASSUME IInv, Restart PROVE IInv'
<1>1. /\ entries' = [w \in Workflow |-> NoEntry] /\ jobs' = {} /\ nextId' = 1
      /\ step' = "idle" /\ want' = {} /\ todo' = {} /\ phase' = "new"
      /\ owed' = 0 /\ synced' = FALSE /\ missed' = FALSE
      /\ UNCHANGED <<table, shared>>
  BY DEF Restart
<1>2. entries' \in [Workflow -> Entry]
  BY <1>1 DEF NoEntry, Entry
<1>3. ticks' \in Seq(TickState)
  <2>1. ticks \in Seq(TickState) /\ Len(ticks) \in Nat
    BY LenProperties DEF IInv, TypeOK
  <2>2. \A i \in 1..Len(ticks) : [ticks[i] EXCEPT !.at = "over"] \in TickState
    <3> SUFFICES ASSUME NEW i \in 1..Len(ticks) PROVE [ticks[i] EXCEPT !.at = "over"] \in TickState
      OBVIOUS
    <3>1. ticks[i] \in TickState
      BY <2>1, ElementOfSeq
    <3> QED BY <3>1 DEF TickState
  <2>3. ticks' = [i \in 1..Len(ticks) |-> [ticks[i] EXCEPT !.at = "over"]]
    BY DEF Restart
  <2> QED BY <2>1, <2>2, <2>3, IsASeq
<1>4. runs' \in Seq(RunState)
  <2>1. runs \in Seq(RunState) /\ Len(runs) \in Nat
    BY LenProperties DEF IInv, TypeOK
  <2> DEFINE over(k) ==
        [runs[k] EXCEPT !.at = IF @ \in {"spawned", "preflighted", "running"} THEN "died" ELSE @]
  <2>2. \A k \in 1..Len(runs) : over(k) \in RunState
    <3> SUFFICES ASSUME NEW k \in 1..Len(runs) PROVE over(k) \in RunState
      OBVIOUS
    <3>1. runs[k] \in RunState
      BY <2>1, ElementOfSeq
    <3> QED BY <3>1 DEF RunState
  <2>3. runs' = [k \in 1..Len(runs) |-> over(k)]
    BY DEF Restart
  <2> HIDE DEF over
  <2> QED BY <2>1, <2>2, <2>3, IsASeq
<1>5. faults' \in Nat
  BY FaultType DEF Restart, IInv
<1>6. TypeOK'
  <2>1. nextId' \in Nat \ {0} /\ jobs' \subseteq Job
    BY <1>1
  <2>2. want' \subseteq [wf : Workflow, row : Row] /\ todo' \subseteq want'
    BY <1>1
  <2>3. rows' = rows /\ saves' = saves /\ killSwitch' = killSwitch /\ runCount' = runCount
         /\ costReached' = costReached
    BY <1>1 DEF table, shared
  <2>4. phase' \in Phase /\ step' = "idle" /\ owed' = 0 /\ synced' = FALSE /\ missed' = FALSE
    BY <1>1 DEF Phase
  <2> QED BY <1>2, <1>3, <1>4, <1>5, <2>1, <2>2, <2>3, <2>4 DEF IInv, TypeOK
<1>7. \A w \in Workflow : entries'[w].id = 0
  BY <1>1 DEF NoEntry
<1>8. JobsMatchEntries' /\ IdsUnique'
  BY <1>1, <1>7 DEF JobsMatchEntries, IdsUnique, Registered
<1>9. ReloadInv' /\ EntriesMatchRows'
  BY <1>1 DEF ReloadInv, EntriesMatchRows, Reloaded
<1> QED BY <1>6, <1>8, <1>9 DEF IInv

----------------------------------------------------------------------------
(* Reload.                                                                  *)
LEMMA LoadInv == ASSUME IInv, StartReload \/ SaveReload PROVE IInv'
<1>0. phase' \in Phase /\ owed' \in Nat /\ missed' \in BOOLEAN
  <2>1. phase' \in Phase
    BY DEF StartReload, SaveReload, IInv, TypeOK, Phase
  <2>2. owed' \in Nat
    BY DEF StartReload, SaveReload, IInv, TypeOK
  <2>3. missed' \in BOOLEAN
    BY DEF StartReload, SaveReload, Loaded, NotLoaded
  <2> QED BY <2>1, <2>2, <2>3
<1>1. UNCHANGED <<rows, saves, entries, jobs, nextId, todo, ticks, runs, killSwitch, runCount, costReached>>
  BY DEF StartReload, SaveReload, table, cron, fired, shared
<1>2. faults' \in Nat
  BY FaultType DEF StartReload, SaveReload, Loaded, NotLoaded, IInv
<1>3. step = "idle" /\ todo = {}
  BY DEF StartReload, SaveReload, IInv, ReloadInv
<1>4. CASE UNCHANGED <<step, want, synced>>
  <2>1. TypeOK'
    BY <1>0, <1>1, <1>2, <1>4 DEF IInv, TypeOK
  <2>2. Core'
    BY <1>1, <1>4, CoreKept DEF IInv, Core
  <2> QED BY <2>1, <2>2 DEF IInv, Core
<1>5. CASE /\ step' = "remove" /\ synced' = TRUE
           /\ want' = {[wf |-> w, row |-> rows[w]] : w \in {v \in Workflow : Active(rows[v])}}
  <2>1. want' \subseteq [wf : Workflow, row : Row]
    BY <1>5 DEF IInv, TypeOK
  <2>2. TypeOK'
    <3>1. step' \in {"idle", "remove", "add"} /\ synced' \in BOOLEAN
      BY <1>5
    <3>2. todo' \subseteq want'
      BY <1>1, <1>3
    <3> QED BY <1>0, <1>1, <1>2, <2>1, <3>1, <3>2 DEF IInv, TypeOK
  <2>3. \A w : Registered(w)' <=> Registered(w)
    BY <1>1 DEF Registered
  <2>4. JobsMatchEntries' /\ IdsUnique'
    BY <1>1, <2>3 DEF IInv, JobsMatchEntries, IdsUnique
  <2>5. \A x \in want' : Active(x.row) /\ x.row = rows[x.wf]
    BY <1>5
  <2>6. ReloadInv'
    BY <1>1, <1>3, <1>5, <2>5 DEF ReloadInv, Active
  <2>7. EntriesMatchRows'
    BY <1>5 DEF EntriesMatchRows, Reloaded
  <2> QED BY <2>2, <2>4, <2>6, <2>7 DEF IInv
<1> QED BY <1>4, <1>5 DEF StartReload, SaveReload, Loaded, NotLoaded

(* An entry goes and its job with it; the jobs of the others stay, because  *)
(* they have other ids.                                                     *)
LEMMA UnregisterJobs ==
  ASSUME IInv, NEW w \in Workflow, Unregister(w), nextId' = nextId
  PROVE  /\ entries' \in [Workflow -> Entry] /\ jobs' \subseteq Job
         /\ JobsMatchEntries' /\ IdsUnique'
         /\ ~Registered(w)'
         /\ \A v \in Workflow \ {w} : entries'[v] = entries[v]
<1>1. entries \in [Workflow -> Entry] /\ jobs \subseteq Job /\ nextId \in Nat \ {0}
  BY DEF IInv, TypeOK
<1>2. /\ entries' = [entries EXCEPT ![w] = NoEntry]
      /\ jobs' = {j \in jobs : j.id # entries[w].id}
  BY DEF Unregister
<1>3. /\ entries' \in [Workflow -> Entry] /\ jobs' \subseteq Job
      /\ entries'[w].id = 0
      /\ \A v \in Workflow \ {w} : entries'[v] = entries[v]
  BY <1>1, <1>2 DEF NoEntry, Entry
<1>4. \A j \in jobs' : j \in jobs /\ j.wf \in Workflow /\ j.wf # w /\ entries'[j.wf].id = j.id
  <2> SUFFICES ASSUME NEW j \in jobs' PROVE j \in jobs /\ j.wf \in Workflow \ {w} /\ entries[j.wf].id = j.id
    BY <1>3
  <2>1. j \in jobs /\ j.id # entries[w].id /\ j.wf \in Workflow
    BY <1>1, <1>2 DEF Job
  <2>2. entries[j.wf].id = j.id
    BY <2>1 DEF IInv, JobsMatchEntries
  <2> QED BY <2>1, <2>2
<1>5. \A v \in Workflow : Registered(v)' => v # w /\ Registered(v)
  BY <1>3 DEF Registered
<1>6. ASSUME NEW v \in Workflow, Registered(v)'
      PROVE  \E j \in jobs' : j.wf = v
  <2>1. v # w /\ Registered(v)
    BY <1>5, <1>6
  <2>2. PICK j \in jobs : j.wf = v
    BY <2>1 DEF IInv, JobsMatchEntries
  <2>3. j.id = entries[v].id
    BY <2>2 DEF IInv, JobsMatchEntries
  <2>4. j.id # entries[w].id
    BY <2>1, <2>3 DEF IInv, IdsUnique
  <2> QED BY <1>2, <2>2, <2>4
<1>7. JobsMatchEntries'
  BY <1>4, <1>6 DEF JobsMatchEntries
<1>8. IdsUnique'
  <2>1. \A v \in Workflow : entries'[v].id < nextId
    BY <1>1, <1>3 DEF IInv, IdsUnique
  <2>2. ASSUME NEW u \in Workflow, NEW v \in Workflow, Registered(u)', entries'[u].id = entries'[v].id
        PROVE  u = v
    <3>1. u # w /\ Registered(u) /\ entries'[u] = entries[u]
      BY <1>3, <1>5, <2>2
    <3>2. v # w
      BY <1>3, <2>2, <3>1 DEF Registered
    <3> QED BY <1>3, <2>2, <3>1, <3>2 DEF IInv, IdsUnique
  <2> QED BY <2>1, <2>2 DEF IdsUnique
<1> QED BY <1>3, <1>7, <1>8 DEF Registered

LEMMA RemoveEntryInv == ASSUME IInv, NEW w \in Workflow, RemoveEntry(w) PROVE IInv'
<1>1. UNCHANGED <<rows, saves, phase, nextId, step, want, todo, ticks, runs,
                 killSwitch, runCount, costReached, faults, owed, synced, missed>>
  BY DEF RemoveEntry, table, reload, fired, shared, calls
<1>2. Unregister(w) /\ step = "remove"
  BY DEF RemoveEntry
<1>3. /\ entries' \in [Workflow -> Entry] /\ jobs' \subseteq Job
      /\ JobsMatchEntries' /\ IdsUnique'
  BY <1>1, <1>2, UnregisterJobs
<1>4. TypeOK'
  BY <1>1, <1>3 DEF IInv, TypeOK
<1>5. ReloadInv'
  BY <1>1, <1>2 DEF IInv, ReloadInv
<1>6. EntriesMatchRows'
  BY <1>1, <1>2 DEF EntriesMatchRows, Reloaded
<1> QED BY <1>3, <1>4, <1>5, <1>6 DEF IInv

LEMMA RemovedAllInv == ASSUME IInv, RemovedAll PROVE IInv'
<1>1. UNCHANGED <<rows, saves, phase, entries, jobs, nextId, want, ticks, runs,
                 killSwitch, runCount, costReached, faults, owed, synced, missed>>
  BY DEF RemovedAll, table, cron, fired, shared, calls
<1>2. step = "remove" /\ step' = "add" /\ todo' = want
  BY DEF RemovedAll
<1>3. TypeOK'
  BY <1>1, <1>2 DEF IInv, TypeOK
<1>4. \A w : Registered(w)' <=> Registered(w)
  BY <1>1 DEF Registered
<1>5. JobsMatchEntries' /\ IdsUnique'
  BY <1>1, <1>4 DEF IInv, JobsMatchEntries, IdsUnique
<1>6. \A w \in Workflow : Registered(w) => \E x \in want : x.wf = w
  BY DEF RemovedAll, Stale, Wanted
<1>7. ReloadInv'
  BY <1>1, <1>2, <1>4, <1>6 DEF IInv, ReloadInv
<1>8. EntriesMatchRows'
  BY <1>2 DEF EntriesMatchRows, Reloaded
<1> QED BY <1>3, <1>5, <1>7, <1>8 DEF IInv

(* The old job goes, the new one has an id no other entry has.              *)
LEMMA RegisterJobs ==
  ASSUME IInv, NEW x \in want, Register(x, {j \in jobs : j.id # entries[x.wf].id})
  PROVE  /\ entries' \in [Workflow -> Entry] /\ jobs' \subseteq Job /\ nextId' \in Nat \ {0}
         /\ JobsMatchEntries' /\ IdsUnique'
         /\ entries'[x.wf].schedule = x.row.schedule
         /\ \A v \in Workflow \ {x.wf} : entries'[v] = entries[v]
<1> DEFINE w   == x.wf
           new == [id |-> nextId, wf |-> w, targets |-> x.row.targets]
           e   == [id |-> nextId, schedule |-> x.row.schedule]
<1>1. entries \in [Workflow -> Entry] /\ jobs \subseteq Job /\ nextId \in Nat \ {0}
  BY DEF IInv, TypeOK
<1>2. w \in Workflow /\ x.row \in Row
  BY DEF IInv, TypeOK
<1>3. /\ entries' = [entries EXCEPT ![w] = e]
      /\ jobs' = {j \in jobs : j.id # entries[w].id} \cup {new}
      /\ nextId' = nextId + 1
  BY DEF Register
<1>4. new \in Job /\ new.id = nextId /\ new.wf = w /\ e \in Entry /\ e.id = nextId /\ e.schedule = x.row.schedule
  BY <1>1, <1>2 DEF Job, Entry, Row
<1> HIDE DEF new, e
<1>5. /\ entries' \in [Workflow -> Entry] /\ jobs' \subseteq Job /\ nextId' \in Nat \ {0}
      /\ entries'[w] = e
      /\ \A v \in Workflow \ {w} : entries'[v] = entries[v]
  BY <1>1, <1>2, <1>3, <1>4
<1>6. \A j \in jobs' : entries'[j.wf].id = j.id
  <2> SUFFICES ASSUME NEW j \in jobs' PROVE entries'[j.wf].id = j.id
    OBVIOUS
  <2>1. CASE j = new
    BY <2>1, <1>4, <1>5
  <2>2. CASE j \in jobs /\ j.id # entries[w].id
    <3>1. entries[j.wf].id = j.id /\ j.wf \in Workflow
      BY <2>2, <1>1 DEF IInv, JobsMatchEntries, Job
    <3> QED BY <2>2, <3>1, <1>5
  <2> QED BY <1>3, <2>1, <2>2
<1>7. ASSUME NEW v \in Workflow, Registered(v)'
      PROVE  \E j \in jobs' : j.wf = v
  <2>1. CASE v = w
    BY <2>1, <1>3, <1>4
  <2>2. CASE v # w
    <3>1. Registered(v)
      BY <1>5, <1>7, <2>2 DEF Registered
    <3>2. PICK j \in jobs : j.wf = v
      BY <3>1 DEF IInv, JobsMatchEntries
    <3>3. j.id = entries[v].id
      BY <3>2 DEF IInv, JobsMatchEntries
    <3>4. j.id # entries[w].id
      BY <1>2, <2>2, <3>1, <3>3 DEF IInv, IdsUnique
    <3> QED BY <1>3, <3>2, <3>4
  <2> QED BY <2>1, <2>2
<1>8. \A v \in Workflow : entries[v].id \in Nat /\ entries[v].id < nextId
  BY <1>1 DEF IInv, IdsUnique, Entry
<1>9. IdsUnique'
  <2>1. \A v \in Workflow : entries'[v].id < nextId'
    BY <1>1, <1>3, <1>4, <1>5, <1>8
  <2>2. ASSUME NEW u \in Workflow, NEW v \in Workflow, Registered(u)', entries'[u].id = entries'[v].id
        PROVE  u = v
    <3>1. CASE u = w /\ v # w
      <4>1. entries'[u].id = nextId /\ entries'[v] = entries[v]
        BY <1>4, <1>5, <3>1
      <4>2. entries[v].id = nextId /\ entries[v].id < nextId /\ nextId \in Nat
        BY <1>1, <1>8, <2>2, <4>1
      <4> QED BY <4>2
    <3>2. CASE v = w /\ u # w
      <4>1. entries'[v].id = nextId /\ entries'[u] = entries[u]
        BY <1>4, <1>5, <3>2
      <4>2. entries[u].id = nextId /\ entries[u].id < nextId /\ nextId \in Nat
        BY <1>1, <1>8, <2>2, <4>1
      <4> QED BY <4>2
    <3>3. CASE u # w /\ v # w
      <4>1. entries'[u] = entries[u] /\ entries'[v] = entries[v]
        BY <1>5, <3>3
      <4>2. Registered(u)
        BY <2>2, <4>1 DEF Registered
      <4> QED BY <2>2, <4>1, <4>2 DEF IInv, IdsUnique
    <3> QED BY <3>1, <3>2, <3>3
  <2> QED BY <2>1, <2>2 DEF IdsUnique
<1> QED BY <1>4, <1>5, <1>6, <1>7, <1>9 DEF JobsMatchEntries

(* One turn of the loop: what it leaves of the entry has the row's schedule.*)
LEMMA AddEntryInv == ASSUME IInv, NEW x \in todo, AddEntry(x) PROVE IInv'
<1>1. UNCHANGED <<rows, saves, phase, step, want, ticks, runs,
                 killSwitch, runCount, costReached, faults, owed, synced, missed>>
  BY DEF AddEntry, table, fired, shared, calls
<1>2. step = "add" /\ todo' = todo \ {x} /\ x \in want
  BY DEF AddEntry, IInv, TypeOK
<1>3. x.wf \in Workflow
  BY <1>2 DEF IInv, TypeOK
<1>4. /\ entries' \in [Workflow -> Entry] /\ jobs' \subseteq Job /\ nextId' \in Nat \ {0}
      /\ JobsMatchEntries' /\ IdsUnique'
      /\ Registered(x.wf)' => entries'[x.wf].schedule = x.row.schedule
      /\ \A v \in Workflow \ {x.wf} : entries'[v] = entries[v]
  <2>1. CASE entries[x.wf].schedule = x.row.schedule /\ UNCHANGED cron
    <3>1. entries' = entries /\ jobs' = jobs /\ nextId' = nextId
      BY <2>1 DEF cron
    <3>2. \A w : Registered(w)' <=> Registered(w)
      BY <3>1 DEF Registered
    <3>3. JobsMatchEntries' /\ IdsUnique'
      BY <3>1, <3>2 DEF IInv, JobsMatchEntries, IdsUnique
    <3> QED BY <2>1, <3>1, <3>3 DEF IInv, TypeOK
  <2>2. CASE Register(x, {j \in jobs : j.id # entries[x.wf].id})
    BY <1>2, <2>2, RegisterJobs
  <2>3. CASE Unregister(x.wf) /\ UNCHANGED nextId
    <3>1. nextId' \in Nat \ {0}
      BY <2>3 DEF IInv, TypeOK
    <3> QED BY <1>3, <2>3, <3>1, UnregisterJobs
  <2> QED BY <2>1, <2>2, <2>3 DEF AddEntry
<1>5. TypeOK'
  BY <1>1, <1>2, <1>4 DEF IInv, TypeOK
<1>6. ReloadInv'
  <2>1. step' = "add" /\ want' = want /\ rows' = rows /\ synced' = synced
    BY <1>1, <1>2
  <2>2. step # "idle" /\ synced => \A y \in want : Active(y.row) /\ y.row = rows[y.wf]
    BY DEF IInv, ReloadInv
  <2>3. ASSUME NEW v \in Workflow, Registered(v)'
        PROVE  \E y \in want : y.wf = v /\ (y \in todo' \/ entries'[v].schedule = y.row.schedule)
    <3>1. CASE v = x.wf
      BY <1>2, <1>4, <2>3, <3>1
    <3>2. CASE v # x.wf
      <4>1. entries'[v] = entries[v]
        BY <1>4, <3>2
      <4>2. Registered(v)
        BY <2>3, <4>1 DEF Registered
      <4>3. PICK y \in want : y.wf = v /\ (y \in todo \/ entries[v].schedule = y.row.schedule)
        BY <1>2, <4>2 DEF IInv, ReloadInv
      <4> QED BY <1>2, <3>2, <4>1, <4>3
    <3> QED BY <3>1, <3>2
  <2> QED BY <1>2, <2>1, <2>2, <2>3 DEF ReloadInv
<1>7. EntriesMatchRows'
  BY <1>1, <1>2 DEF EntriesMatchRows, Reloaded
<1> QED BY <1>4, <1>5, <1>6, <1>7 DEF IInv

(* With nothing left to do every entry has its row's schedule.              *)
LEMMA ReloadDoneInv == ASSUME IInv, ReloadDone PROVE IInv'
<1>1. UNCHANGED <<rows, saves, entries, jobs, nextId, todo, ticks, runs,
                 killSwitch, runCount, costReached, faults, owed, synced, missed>>
  BY DEF ReloadDone, table, cron, fired, shared, calls
<1>2. step = "add" /\ todo = {} /\ step' = "idle" /\ want' = {}
  BY DEF ReloadDone
<1>3. phase' \in Phase
  BY DEF ReloadDone, IInv, TypeOK, Phase
<1>4. TypeOK'
  <2>1. step' \in {"idle", "remove", "add"} /\ want' \subseteq [wf : Workflow, row : Row] /\ todo' \subseteq want'
    BY <1>1, <1>2
  <2> QED BY <1>1, <1>3, <2>1 DEF IInv, TypeOK
<1>5. \A w : Registered(w)' <=> Registered(w)
  BY <1>1 DEF Registered
<1>6. JobsMatchEntries' /\ IdsUnique'
  BY <1>1, <1>5 DEF IInv, JobsMatchEntries, IdsUnique
<1>7. ReloadInv'
  BY <1>1, <1>2 DEF ReloadInv
<1>8. EntriesMatchRows'
  <2> SUFFICES ASSUME synced, NEW w \in Workflow, Registered(w)
               PROVE  Active(rows[w]) /\ entries[w].schedule = rows[w].schedule
    BY <1>1, <1>2, <1>5 DEF EntriesMatchRows, Reloaded, Active
  <2>1. PICK x \in want : x.wf = w /\ entries[w].schedule = x.row.schedule
    BY <1>2 DEF IInv, ReloadInv
  <2>2. Active(x.row) /\ x.row = rows[w]
    BY <1>2, <2>1 DEF IInv, ReloadInv
  <2> QED BY <2>1, <2>2
<1> QED BY <1>4, <1>6, <1>7, <1>8 DEF IInv

----------------------------------------------------------------------------
(* cron, the ticks and the runs they dispatch: none of them touches what    *)
(* the entries promise.                                                     *)
LEMMA TickInSeq == ASSUME IInv, NEW i \in 1..Len(ticks) PROVE ticks[i] \in TickState
BY ElementOfSeq DEF IInv, TypeOK

LEMMA TickGoesType ==
  ASSUME IInv, NEW i \in 1..Len(ticks), NEW at \in {"kill", "targets", "over"}, TickGoes(i, at)
  PROVE  ticks' \in Seq(TickState) /\ Len(ticks') = Len(ticks)
<1>1. [ticks[i] EXCEPT !.at = at] \in TickState
  BY TickInSeq DEF TickState
<1>2. ticks' = [ticks EXCEPT ![i] = [ticks[i] EXCEPT !.at = at]]
  BY DEF TickGoes
<1>3. ticks \in Seq(TickState)
  BY DEF IInv, TypeOK
<1> HIDE DEF TickState
<1> QED BY <1>1, <1>2, <1>3, ExceptSeq

LEMMA RunGoesType ==
  ASSUME IInv, NEW k \in 1..Len(runs),
         NEW at \in {"preflighted", "running", "quota_exceeded", "refused"}, RunGoes(k, at)
  PROVE  runs' \in Seq(RunState) /\ Len(runs') = Len(runs)
<1>1. runs \in Seq(RunState) /\ runs[k] \in RunState
  BY ElementOfSeq DEF IInv, TypeOK
<1>2. [runs[k] EXCEPT !.at = at] \in RunState
  BY <1>1 DEF RunState
<1>3. runs' = [runs EXCEPT ![k] = [runs[k] EXCEPT !.at = at]]
  BY DEF RunGoes
<1> QED BY <1>1, <1>2, <1>3, ExceptSeq

(* What is left to show of such a step are the types of what it changes.    *)
LEMMA WorldInv ==
  ASSUME IInv, UNCHANGED <<table, cron, reload, killSwitch, calls>>,
         phase' \in Phase,
         ticks' \in Seq(TickState), runs' \in Seq(RunState), runCount' \in Nat /\ costReached' \in BOOLEAN, faults' \in Nat
  PROVE  IInv'
<1>1. UNCHANGED <<rows, saves, entries, jobs, nextId, step, want, todo, killSwitch, owed, synced, missed>>
  BY DEF table, cron, reload, calls
<1>2. TypeOK'
  BY <1>1 DEF IInv, TypeOK
<1>3. Core'
  BY <1>1, CoreKept DEF IInv, Core
<1> QED BY <1>2, <1>3 DEF IInv, Core

LEMMA CronInv == ASSUME IInv, StartCron \/ StopCron PROVE IInv'
<1>1. UNCHANGED <<table, cron, reload, fired, shared, faults, calls>>
  BY DEF StartCron, StopCron
<1>2. phase' \in Phase
  BY DEF StartCron, StopCron, Phase
<1>3. UNCHANGED <<ticks, runs, killSwitch, runCount, costReached, faults>>
  BY <1>1 DEF fired, shared
<1>4. ticks' \in Seq(TickState) /\ runs' \in Seq(RunState) /\ runCount' \in Nat /\ costReached' \in BOOLEAN /\ faults' \in Nat
  BY <1>3 DEF IInv, TypeOK
<1> QED BY <1>1, <1>2, <1>3, <1>4, WorldInv

LEMMA FireAppends ==
  ASSUME IInv, NEW j \in jobs, Fire(j)
  PROVE  /\ ticks' \in Seq(TickState) /\ Len(ticks') = Len(ticks) + 1 /\ Len(ticks) \in Nat
         /\ ticks'[Len(ticks) + 1].wf = j.wf
<1> DEFINE new == [wf |-> j.wf, targets |-> j.targets, next |-> 1, at |-> "kill"]
<1>1. new \in TickState /\ new.wf = j.wf
  BY DEF IInv, TypeOK, Job, TickState
<1>2. ticks' = Append(ticks, new) /\ ticks \in Seq(TickState)
  BY DEF Fire, IInv, TypeOK
<1> HIDE DEF new
<1> QED BY <1>1, <1>2, AppendProperties, LenProperties

LEMMA FireInv == ASSUME IInv, NEW j \in jobs, Fire(j) PROVE IInv'
<1>1. UNCHANGED <<table, phase, cron, reload, runs, shared, faults, calls>>
  BY DEF Fire
<1>2. UNCHANGED <<runs, phase, killSwitch, runCount, costReached, faults>>
  BY <1>1 DEF shared
<1>3. runs' \in Seq(RunState) /\ runCount' \in Nat /\ costReached' \in BOOLEAN /\ faults' \in Nat
      /\ phase' \in Phase
  BY <1>2 DEF IInv, TypeOK
<1> QED BY <1>1, <1>2, <1>3, FireAppends, WorldInv

LEMMA ReadKillSwitchInv == ASSUME IInv, NEW i \in 1..Len(ticks), ReadKillSwitch(i) PROVE IInv'
<1>1. UNCHANGED <<table, phase, cron, reload, runs, shared, calls>>
  BY DEF ReadKillSwitch
<1>2. faults' \in Nat
  BY FaultType DEF ReadKillSwitch, IInv
<1>3. \E at \in {"kill", "targets", "over"} : TickGoes(i, at)
  BY DEF ReadKillSwitch
<1>4. ticks' \in Seq(TickState)
  BY <1>3, TickGoesType
<1>5. UNCHANGED <<runs, phase, killSwitch, runCount, costReached>>
  BY <1>1 DEF shared
<1>6. runs' \in Seq(RunState) /\ runCount' \in Nat /\ costReached' \in BOOLEAN /\ phase' \in Phase
  BY <1>5 DEF IInv, TypeOK
<1> QED BY <1>1, <1>2, <1>4, <1>5, <1>6, WorldInv

LEMMA DispatchTargetInv == ASSUME IInv, NEW i \in 1..Len(ticks), DispatchTarget(i) PROVE IInv'
<1>1. UNCHANGED <<table, phase, cron, reload, shared, calls>>
  BY DEF DispatchTarget
<1>2. faults' \in Nat
  BY FaultType DEF DispatchTarget, IInv
<1>3. UNCHANGED <<phase, killSwitch, runCount, costReached>>
  BY <1>1 DEF shared
<1>4. runs \in Seq(RunState) /\ ticks \in Seq(TickState) /\ ticks[i] \in TickState
  BY TickInSeq DEF IInv, TypeOK
<1>5. ticks' \in Seq(TickState) /\ runs' \in Seq(RunState)
  <2>1. CASE TickGoes(i, "over") /\ UNCHANGED runs
    BY <1>4, <2>1, TickGoesType
  <2>2. CASE /\ runs' = Append(runs, [tick |-> i, target |-> ticks[i].next, at |-> "spawned"])
             /\ ticks' = [ticks EXCEPT ![i].next = @ + 1,
                              ![i].at = IF ticks[i].next = Len(ticks[i].targets) THEN "over" ELSE @]
    <3> DEFINE n   == ticks[i].next + 1
               at  == IF ticks[i].next = Len(ticks[i].targets) THEN "over" ELSE ticks[i].at
               go  == [ticks[i] EXCEPT !.next = n, !.at = at]
               run == [tick |-> i, target |-> ticks[i].next, at |-> "spawned"]
    <3>1. go \in TickState
      <4>1. n \in Nat /\ at \in {"kill", "targets", "over"}
        BY <1>4 DEF TickState
      <4> HIDE DEF n, at
      <4> QED BY <1>4, <4>1 DEF TickState
    <3>2. run \in RunState
      <4>1. i \in Nat
        BY <1>4, LenProperties
      <4> QED BY <1>4, <4>1 DEF TickState, RunState
    <3>3. ticks' = [ticks EXCEPT ![i] = go] /\ runs' = Append(runs, run)
      BY <2>2
    <3> HIDE DEF go, run, n, at
    <3> QED BY <1>4, <3>1, <3>2, <3>3, ExceptSeq, AppendProperties
  <2> QED BY <2>1, <2>2 DEF DispatchTarget
<1>6. runCount' \in Nat /\ costReached' \in BOOLEAN /\ phase' \in Phase
  BY <1>3 DEF IInv, TypeOK
<1> QED BY <1>1, <1>2, <1>3, <1>5, <1>6, WorldInv

LEMMA PreflightInv == ASSUME IInv, NEW k \in 1..Len(runs), Preflight(k) PROVE IInv'
<1>1. UNCHANGED <<table, phase, cron, reload, ticks, shared, calls>>
  BY DEF Preflight
<1>2. faults' \in Nat
  BY FaultType DEF Preflight, IInv
<1>3. \E at \in {"preflighted", "refused"} : RunGoes(k, at)
  BY DEF Preflight
<1>4. runs' \in Seq(RunState)
  BY <1>3, RunGoesType
<1>5. UNCHANGED <<ticks, phase, killSwitch, runCount, costReached>>
  BY <1>1 DEF shared
<1>6. ticks' \in Seq(TickState) /\ runCount' \in Nat /\ costReached' \in BOOLEAN /\ phase' \in Phase
  BY <1>5 DEF IInv, TypeOK
<1> QED BY <1>1, <1>2, <1>4, <1>5, <1>6, WorldInv

LEMMA CountRunInv == ASSUME IInv, NEW k \in 1..Len(runs), CountRun(k) PROVE IInv'
<1>1. UNCHANGED <<table, phase, cron, reload, ticks, killSwitch, costReached, calls>>
  BY DEF CountRun
<1>2. faults' \in Nat
  BY FaultType DEF CountRun, IInv
<1>3. \E at \in {"running", "quota_exceeded", "refused"} : RunGoes(k, at)
  BY DEF CountRun
<1>4. runs' \in Seq(RunState)
  BY <1>3, RunGoesType
<1>5. runCount' \in Nat /\ costReached' \in BOOLEAN
  BY DEF CountRun, IInv, TypeOK
<1>6. UNCHANGED <<ticks, phase>>
  BY <1>1
<1>7. ticks' \in Seq(TickState) /\ phase' \in Phase
  BY <1>6 DEF IInv, TypeOK
<1> QED BY <1>1, <1>2, <1>4, <1>5, <1>7, WorldInv

LEMMA ReachCostInv == ASSUME IInv, NEW k \in 1..Len(runs), ReachCost(k) PROVE IInv'
<1>1. UNCHANGED <<table, phase, cron, reload, fired, killSwitch, runCount, faults, calls>>
  BY DEF ReachCost
<1>2. costReached' \in BOOLEAN
  BY DEF ReachCost
<1>3. UNCHANGED <<ticks, runs, phase, runCount, faults>>
  BY <1>1 DEF fired
<1>4. /\ ticks' \in Seq(TickState) /\ runs' \in Seq(RunState) /\ runCount' \in Nat
      /\ faults' \in Nat /\ phase' \in Phase
  BY <1>3 DEF IInv, TypeOK
<1> QED BY <1>1, <1>2, <1>4, WorldInv

----------------------------------------------------------------------------
LEMMA StutterInv == ASSUME IInv, UNCHANGED vars PROVE IInv'
<1>1. UNCHANGED <<table, phase, cron, reload, ticks, runs, killSwitch, runCount, costReached, faults, calls>>
  BY DEF vars, fired, shared
<1>2. /\ phase' \in Phase
      /\ ticks' \in Seq(TickState) /\ runs' \in Seq(RunState) /\ runCount' \in Nat /\ costReached' \in BOOLEAN /\ faults' \in Nat
  BY <1>1 DEF IInv, TypeOK
<1> QED BY <1>1, <1>2, WorldInv

LEMMA StepInv == IInv /\ [Next]_vars => IInv'
<1> SUFFICES ASSUME IInv, [Next]_vars PROVE IInv'
  OBVIOUS
<1>1. CASE \E w \in Workflow : SaveWorkflow(w) \/ DeleteWorkflow(w)
  BY <1>1, SaveInv
<1>2. CASE FlipKillSwitch \/ Restart
  BY <1>2, FlipInv, RestartInv
<1>3. CASE StartReload \/ SaveReload
  BY <1>3, LoadInv
<1>4. CASE ReloadStep
  BY <1>4, RemoveEntryInv, RemovedAllInv, AddEntryInv, ReloadDoneInv DEF ReloadStep
<1>5. CASE StartCron \/ StopCron
  BY <1>5, CronInv
<1>6. CASE \E j \in jobs : Fire(j)
  BY <1>6, FireInv
<1>7. CASE \E i \in 1..Len(ticks) : TickStep(i)
  BY <1>7, ReadKillSwitchInv, DispatchTargetInv DEF TickStep
<1>8. CASE \E k \in 1..Len(runs) : RunStep(k)
  BY <1>8, PreflightInv, CountRunInv, ReachCostInv DEF RunStep
<1>9. CASE UNCHANGED vars
  BY <1>9, StutterInv
<1> QED BY <1>1, <1>2, <1>3, <1>4, <1>5, <1>6, <1>7, <1>8, <1>9 DEF Next

(* The inductive invariant holds in every reachable state, for any set of   *)
(* workflows and schedules, through failures and restarts.                  *)
THEOREM SchedulerInvariant == Spec => []IInv
BY InitInv, StepInv, PTL DEF Spec

(* cron holds exactly the jobs the entries map knows: nothing fires twice,  *)
(* and every job can be removed (Reload, registerLocked).                   *)
THEOREM JobsAreEntries == Spec => []JobsMatchEntries
<1>1. IInv => JobsMatchEntries
  BY DEF IInv
<1> QED BY <1>1, SchedulerInvariant, PTL

(* After a Reload that no save has overtaken every entry is an active row   *)
(* with its schedule.                                                       *)
THEOREM EntriesAreRows == Spec => []EntriesMatchRows
<1>1. IInv => EntriesMatchRows
  BY DEF IInv
<1> QED BY <1>1, SchedulerInvariant, PTL

----------------------------------------------------------------------------
(* Only Fire makes the ticks longer, and only for a job of an entry.        *)
LEMMA FireIsActive ==
  ASSUME IInv, NEW j \in jobs, Fire(j)
  PROVE  FiresActive
<1>1. j.wf \in Workflow /\ Registered(j.wf)
  <2>1. j \in Job /\ j.wf \in Workflow /\ j.id # 0
    BY DEF IInv, TypeOK, Job
  <2>2. entries[j.wf].id = j.id
    BY DEF IInv, JobsMatchEntries
  <2> QED BY <2>1, <2>2 DEF Registered
<1>2. Reloaded => Active(rows[j.wf])
  BY <1>1 DEF IInv, EntriesMatchRows
<1>3. /\ Len(ticks') = Len(ticks) + 1 /\ Len(ticks) \in Nat
      /\ ticks'[Len(ticks) + 1].wf = j.wf
  BY FireAppends
<1> SUFFICES ASSUME NEW i \in 1..Len(ticks'), i > Len(ticks), Reloaded PROVE Active(rows[ticks'[i].wf])
  BY DEF FiresActive
<1>4. i = Len(ticks) + 1
  BY <1>3
<1> QED BY <1>2, <1>3, <1>4

LEMMA SameTicks ==
  ASSUME IInv, Len(ticks') = Len(ticks)
  PROVE  FiresActive
<1>1. Len(ticks) \in Nat
  BY LenProperties DEF IInv, TypeOK
<1> QED BY <1>1 DEF FiresActive

(* Every other step leaves their number alone; the runs grow only in a tick *)
(* that is under way.                                                       *)
LEMMA StepKeepsOrder == IInv /\ [Next]_vars => FiresActive /\ QuietAfterStop
<1> SUFFICES ASSUME IInv, [Next]_vars PROVE FiresActive /\ QuietAfterStop
  OBVIOUS
<1>1. CASE \/ \E w \in Workflow : SaveWorkflow(w) \/ DeleteWorkflow(w)
           \/ FlipKillSwitch \/ StartReload \/ SaveReload \/ ReloadStep \/ StartCron \/ StopCron
           \/ UNCHANGED vars
  <2>1. UNCHANGED <<ticks, runs>>
    BY <1>1 DEF SaveWorkflow, DeleteWorkflow, FlipKillSwitch, StartReload, SaveReload, ReloadStep, RemoveEntry,
                RemovedAll, AddEntry, ReloadDone, StartCron, StopCron, fired, vars
  <2> QED BY <2>1, SameTicks DEF QuietAfterStop
<1>2. CASE Restart
  <2>1. Len(ticks) \in Nat
    BY LenProperties DEF IInv, TypeOK
  <2>2. Len(ticks') = Len(ticks)
    BY <1>2, <2>1 DEF Restart
  <2>3. phase' = "new"
    BY <1>2 DEF Restart
  <2> QED BY <2>2, <2>3, SameTicks DEF QuietAfterStop
<1>3. CASE \E j \in jobs : Fire(j)
  <2>1. phase = "running"
    BY <1>3 DEF Fire
  <2> QED BY <1>3, <2>1, FireIsActive DEF QuietAfterStop, Drained
<1>4. ASSUME NEW i \in 1..Len(ticks), TickStep(i)
      PROVE  FiresActive /\ QuietAfterStop
  <2>1. ~Drained
    BY <1>4 DEF Drained, TickStep, ReadKillSwitch, DispatchTarget
  <2>2. ticks \in Seq(TickState)
    BY DEF IInv, TypeOK
  <2>3. \E t : ticks' = [ticks EXCEPT ![i] = t]
    BY <1>4 DEF TickStep, ReadKillSwitch, DispatchTarget, TickGoes
  <2>4. Len(ticks') = Len(ticks)
    BY <2>2, <2>3
  <2> QED BY <2>1, <2>4, SameTicks DEF QuietAfterStop
<1>5. ASSUME NEW k \in 1..Len(runs), RunStep(k)
      PROVE  FiresActive /\ QuietAfterStop
  <2>1. ticks' = ticks
    BY <1>5 DEF RunStep, Preflight, CountRun, ReachCost, fired
  <2>2. runs \in Seq(RunState)
    BY DEF IInv, TypeOK
  <2>3. \/ runs' = runs
        \/ \E at \in {"preflighted", "running", "quota_exceeded", "refused"} : RunGoes(k, at)
    BY <1>5 DEF RunStep, Preflight, CountRun, ReachCost, fired
  <2>4. Len(runs') = Len(runs)
    BY <2>3, RunGoesType
  <2> QED BY <2>1, <2>4, SameTicks DEF QuietAfterStop
<1> QED BY <1>1, <1>2, <1>3, <1>4, <1>5 DEF Next

(* Between saves only active workflows fire, and a scheduler whose ticks    *)
(* have drained dispatches nothing more until it is started again.          *)
THEOREM TicksStayInOrder == Spec => TicksInOrder
BY SchedulerInvariant, StepKeepsOrder, PTL DEF Spec, TicksInOrder

----------------------------------------------------------------------------
(* Module CronInterval.                                                     *)

(* What a minute of the first three periods is of its period.               *)
LEMMA Residue ==
  ASSUME NEW t \in 0..Period - 1
  PROVE  t % Period = t /\ (t + Period) % Period = t /\ (t + 2 * Period) % Period = t
<1>1. t % Period = t
  BY PeriodAssumption
<1>2. (t + Period) % Period = t
  BY PeriodAssumption
<1>3. (t + 2 * Period) % Period = t
  BY PeriodAssumption
<1> QED
  BY <1>1, <1>2, <1>3

(* Counting on from a minute or from what it is of its period is the same.  *)
LEMMA Shift ==
  ASSUME NEW u \in 0..2 * Period - 1, NEW g \in 0..Period
  PROVE  u % Period \in Minute /\ ((u % Period) + g) % Period = (u + g) % Period
<1>1. Period \in Nat /\ Period > 0
  BY PeriodAssumption
<1>2. CASE u < Period
  <2>1. u \in 0..Period - 1 /\ u % Period = u
    BY <1>1, <1>2, Residue
  <2> QED
    BY <2>1 DEF Minute
<1>3. CASE u >= Period
  <2>1. PICK r \in 0..Period - 1 : u = r + Period
    <3>1. u - Period \in 0..Period - 1 /\ u = (u - Period) + Period
      BY <1>1, <1>3
    <3> QED
      BY <3>1
  <2>2. u % Period = r
    BY <2>1, Residue
  <2>3. CASE r + g < Period
    <3>1. r + g \in 0..Period - 1 /\ u + g = (r + g) + Period
      BY <1>1, <2>1, <2>3
    <3>2. (r + g) % Period = r + g /\ ((r + g) + Period) % Period = r + g
      BY <3>1, Residue
    <3> QED
      BY <2>2, <3>1, <3>2 DEF Minute
  <2>4. CASE r + g >= Period
    <3>1. PICK s \in 0..Period - 1 : r + g = s + Period
      <4>1. (r + g) - Period \in 0..Period - 1 /\ r + g = ((r + g) - Period) + Period
        BY <1>1, <2>4
      <4> QED
        BY <4>1
    <3>2. u + g = s + 2 * Period
      BY <1>1, <2>1, <3>1
    <3>3. (s + Period) % Period = s /\ (s + 2 * Period) % Period = s
      BY Residue
    <3> QED
      BY <2>2, <3>1, <3>2, <3>3 DEF Minute
  <2> QED
    BY <1>1, <2>3, <2>4
<1> QED
  BY <1>1, <1>2, <1>3

(* schedule.Next of a schedule that fires: within a period, and nothing     *)
(* fires before.                                                            *)
IsNext(fires, t, u) ==
  /\ u \in (t + 1)..(t + Period) /\ FiresAt(fires, u)
  /\ \A v \in (t + 1)..(u - 1) : ~FiresAt(fires, v)

LEMMA NextUnique ==
  ASSUME NEW fires, NEW t \in Nat, NEW u, NEW v, IsNext(fires, t, u), IsNext(fires, t, v)
  PROVE  u = v
<1>1. u \in Int /\ v \in Int /\ t + 1 <= u /\ t + 1 <= v
  BY PeriodAssumption DEF IsNext
<1>2. ~ (u < v) /\ ~ (v < u)
  BY <1>1 DEF IsNext
<1> QED
  BY <1>1, <1>2

LEMMA NextFires ==
  ASSUME NEW fires \in SUBSET Minute, fires # {}, NEW t \in 0..2 * Period - 1
  PROVE  IsNext(fires, t, NextFire(fires, t))
<1>1. Period \in Nat /\ Period > 0 /\ t \in Nat
  BY PeriodAssumption
<1> DEFINE F == {u \in (t + 1)..(t + Period) : FiresAt(fires, u)}
<1>2. F # {}
  <2>1. PICK f \in fires : f \in 0..Period - 1
    BY DEF Minute
  <2>2. f % Period = f /\ (f + Period) % Period = f /\ (f + 2 * Period) % Period = f
    BY <2>1, Residue
  <2>3. \/ f \in (t + 1)..(t + Period) \/ f + Period \in (t + 1)..(t + Period)
        \/ f + 2 * Period \in (t + 1)..(t + Period)
    BY <1>1, <2>1
  <2> QED
    BY <2>1, <2>2, <2>3 DEF FiresAt
<1>3. F \subseteq Nat
  BY <1>1
<1>4. PICK u \in F : \A v \in F : u <= v
  <2> HIDE DEF F
  <2> QED
    BY <1>2, <1>3, LeastNat
<1>5. IsNext(fires, t, u)
  <2>1. ASSUME NEW v \in (t + 1)..(u - 1), FiresAt(fires, v) PROVE FALSE
    <3>1. u \in (t + 1)..(t + Period)
      BY <1>4
    <3>2. v \in F /\ ~ (u <= v)
      BY <1>1, <2>1, <3>1
    <3> QED
      BY <1>4, <3>2
  <2> QED
    BY <1>4, <2>1 DEF IsNext
<1>6. \E w \in (t + 1)..(t + Period) :
        FiresAt(fires, w) /\ \A v \in (t + 1)..(w - 1) : ~FiresAt(fires, v)
  BY <1>5 DEF IsNext
<1> QED
  BY <1>6 DEF NextFire, IsNext

(* The gap the check measures is one of the schedule.                       *)
LEMMA GapInGaps ==
  ASSUME NEW fires \in SUBSET Minute, fires # {}, NEW t \in Minute
  PROVE  Gap(fires, t) \in Gaps(fires)
<1>1. Period \in Nat /\ Period > 0 /\ t \in 0..Period - 1 /\ t \in 0..2 * Period - 1
  BY PeriodAssumption DEF Minute
<1>2. PICK u : u = NextFire(fires, t)
  OBVIOUS
<1>3. PICK v : v = NextFire(fires, u)
  OBVIOUS
<1>4. IsNext(fires, t, u)
  BY <1>1, <1>2, NextFires
<1>5. u \in 0..2 * Period - 1 /\ u \in Nat
  BY <1>1, <1>4 DEF IsNext
<1>6. IsNext(fires, u, v)
  BY <1>3, <1>5, NextFires
<1> DEFINE r == u % Period
           g == v - u
<1>7. g \in 1..Period /\ v = u + g
  BY <1>1, <1>5, <1>6 DEF IsNext
<1>8. r \in fires
  BY <1>4 DEF IsNext, FiresAt
<1>9. \A h \in 0..Period : FiresAt(fires, r + h) <=> FiresAt(fires, u + h)
  BY <1>5, Shift DEF FiresAt
<1>10. FiresAt(fires, r + g)
  BY <1>1, <1>6, <1>7, <1>9 DEF IsNext
<1>11. ASSUME NEW h \in 1..(g - 1) PROVE ~FiresAt(fires, r + h)
  <2>1. h \in 0..Period /\ u + h \in (u + 1)..(v - 1)
    BY <1>1, <1>5, <1>7, <1>11
  <2> QED
    BY <1>6, <1>9, <2>1 DEF IsNext
<1>12. Gap(fires, t) = g
  BY <1>2, <1>3 DEF Gap
<1> HIDE DEF r, g
<1> QED
  BY <1>7, <1>8, <1>10, <1>11, <1>12 DEF Gaps

(* At some minute it measures any of them.                                  *)
LEMMA GapIsMeasured ==
  ASSUME NEW fires \in SUBSET Minute, NEW g \in Gaps(fires)
  PROVE  fires # {} /\ \E t \in Minute : Gap(fires, t) = g
<1>1. Period \in Nat /\ Period > 0
  BY PeriodAssumption
<1>2. PICK r \in fires : /\ FiresAt(fires, r + g)
                         /\ \A h \in 1..(g - 1) : ~FiresAt(fires, r + h)
  BY DEF Gaps
<1>3. g \in 1..Period /\ r \in 0..Period - 1 /\ fires # {}
  BY <1>2 DEF Gaps, Minute
<1> DEFINE t == IF r = 0 THEN Period - 1 ELSE r - 1
           u == IF r = 0 THEN Period ELSE r
<1>4. t \in Minute /\ t \in 0..2 * Period - 1 /\ u = t + 1 /\ u \in 0..2 * Period - 1
  BY <1>1, <1>3 DEF Minute
<1>5. u % Period = r
  <2>1. r % Period = r /\ (0 + Period) % Period = 0
    BY <1>1, <1>3, Residue
  <2> QED
    BY <1>1, <2>1
<1> HIDE DEF t, u
<1>6. IsNext(fires, t, u)
  BY <1>1, <1>2, <1>4, <1>5 DEF IsNext, FiresAt
<1>7. NextFire(fires, t) = u
  BY <1>3, <1>4, <1>6, NextFires, NextUnique
<1>8. \A h \in 0..Period : FiresAt(fires, r + h) <=> FiresAt(fires, u + h)
  BY <1>4, <1>5, Shift DEF FiresAt
<1>9. IsNext(fires, u, u + g)
  <2>1. u + g \in (u + 1)..(u + Period)
    BY <1>1, <1>3, <1>4
  <2>2. FiresAt(fires, u + g)
    BY <1>1, <1>2, <1>3, <1>8
  <2>3. ASSUME NEW v \in (u + 1)..((u + g) - 1) PROVE ~FiresAt(fires, v)
    <3>1. v - u \in 1..(g - 1) /\ v - u \in 0..Period /\ u + (v - u) = v
      BY <1>1, <1>3, <1>4
    <3> QED
      BY <1>2, <1>8, <3>1
  <2> QED
    BY <2>1, <2>2, <2>3 DEF IsNext
<1>10. NextFire(fires, u) = u + g
  BY <1>3, <1>4, <1>9, NextFires, NextUnique
<1>11. Gap(fires, t) = g
  BY <1>3, <1>4, <1>7, <1>10 DEF Gap
<1> QED
  BY <1>3, <1>4, <1>11

(* validateCronWithMin, for every length of the period and every minimum:   *)
(* what it answers over a period is what the gaps say.                      *)
THEOREM CheckIsExact == KindsExact
<1> SUFFICES ASSUME NEW fires \in SUBSET Minute
             PROVE  {Accepts(fires, t) : t \in Minute} =
                      IF fires = {} THEN {FALSE} ELSE {g >= MinInterval : g \in Gaps(fires)}
  BY DEF KindsExact
<1>1. 0 \in Minute
  BY PeriodAssumption DEF Minute
<1>2. CASE fires = {}
  <2>1. \A t \in Minute : Accepts(fires, t) = FALSE
    BY <1>2 DEF Accepts
  <2> QED
    BY <1>1, <1>2, <2>1
<1>3. CASE fires # {}
  <2>1. \A t \in Minute : Accepts(fires, t) = (Gap(fires, t) >= MinInterval)
    BY <1>3 DEF Accepts
  <2>2. \A t \in Minute : Gap(fires, t) \in Gaps(fires)
    BY <1>3, GapInGaps
  <2>3. \A g \in Gaps(fires) : \E t \in Minute : Gap(fires, t) = g
    BY GapIsMeasured
  <2>4. ASSUME NEW b \in {Accepts(fires, t) : t \in Minute}
        PROVE  b \in {g >= MinInterval : g \in Gaps(fires)}
    BY <2>1, <2>2
  <2>5. ASSUME NEW b \in {g >= MinInterval : g \in Gaps(fires)}
        PROVE  b \in {Accepts(fires, t) : t \in Minute}
    <3>1. PICK g \in Gaps(fires) : b = (g >= MinInterval)
      OBVIOUS
    <3>2. PICK t \in Minute : Gap(fires, t) = g
      BY <2>3
    <3>3. Accepts(fires, t) = b
      BY <2>1, <3>1, <3>2
    <3> QED
      BY <3>3
  <2> QED
    BY <1>3, <2>4, <2>5
<1> QED
  BY <1>2, <1>3

----------------------------------------------------------------------------
(* The interval rule along a Reload.  Steps that look at neither the table  *)
(* nor Reload nor the entries keep it.                                      *)
LEMMA RuleKept ==
  ASSUME RuleInv, UNCHANGED <<rows, entries, want, todo, step, synced>>
  PROVE  RuleInv'
<1>1. /\ rows' = rows /\ entries' = entries /\ want' = want /\ todo' = todo
      /\ step' = step /\ synced' = synced
  OBVIOUS
<1>2. \A w : (Registered(w)' <=> Registered(w)) /\ (Wanted(w)' <=> Wanted(w))
  BY <1>1 DEF Registered, Wanted
<1> QED BY <1>1, <1>2 DEF RuleInv

(* A save takes the promise back until the next Reload.                     *)
LEMMA RuleAfterSave ==
  ASSUME RuleInv, NEW w \in Workflow, SaveWorkflow(w) \/ DeleteWorkflow(w)
  PROVE  RuleInv'
<1>1. entries' = entries /\ want' = want /\ synced' = FALSE
  BY DEF SaveWorkflow, DeleteWorkflow, Save, cron, reload
<1>2. \A v : Registered(v)' <=> Registered(v)
  BY <1>1 DEF Registered
<1> QED BY <1>1, <1>2 DEF RuleInv

(* A restart forgets every registration.                                    *)
LEMMA RuleAfterRestart == ASSUME IInv, Restart PROVE RuleInv'
<1>1. want' = {} /\ synced' = FALSE /\ entries' = [w \in Workflow |-> NoEntry]
  BY DEF Restart
<1>2. \A w \in Workflow : ~ Registered(w)'
  BY <1>1 DEF Registered, NoEntry
<1> QED BY <1>1, <1>2 DEF RuleInv

(* loadActive returns every active row.                                     *)
LEMMA RuleAfterLoad == ASSUME IInv, RuleInv, StartReload \/ SaveReload PROVE RuleInv'
<1>1. /\ rows' = rows /\ entries' = entries
      /\ step = "idle"
  BY DEF StartReload, SaveReload, table, cron
<1>2. CASE /\ step' = "remove" /\ todo' = todo
           /\ want' = {[wf |-> w, row |-> rows[w]] : w \in {v \in Workflow : Active(rows[v])}}
  <2>1. \A x \in want' : Active(x.row)
    BY <1>2
  <2>2. \A w \in Owned : Active(rows[w]) => \E x \in want' : x.wf = w
    <3>1. TAKE w \in Owned
    <3>2. HAVE Active(rows[w])
    <3>3. [wf |-> w, row |-> rows[w]] \in want'
      BY <1>2, <3>2
    <3> QED BY <3>3
  <2>3. \A w : Registered(w)' <=> Registered(w)
    BY <1>1 DEF Registered
  <2> QED BY <1>1, <1>2, <2>1, <2>2, <2>3 DEF RuleInv, Wanted
<1>3. CASE UNCHANGED <<step, want, synced>>
  <2>1. todo' = todo
    BY DEF StartReload, SaveReload
  <2> QED BY <1>1, <1>3, <2>1, RuleKept
<1> QED BY <1>2, <1>3 DEF StartReload, SaveReload, Loaded, NotLoaded

(* An entry that goes leaves the others as they are.                        *)
LEMMA RuleAfterRemove == ASSUME IInv, RuleInv, NEW w \in Workflow, RemoveEntry(w) PROVE RuleInv'
<1>1. /\ rows' = rows /\ want' = want /\ todo' = todo /\ step' = step /\ synced' = synced
      /\ step = "remove" /\ entries' = [entries EXCEPT ![w] = NoEntry]
  BY DEF RemoveEntry, table, calls, reload, Unregister
<1>2. entries \in [Workflow -> Entry]
  BY DEF IInv, TypeOK
<1>3. ASSUME NEW v \in Workflow, Registered(v)' PROVE Registered(v) /\ entries'[v] = entries[v]
  BY <1>1, <1>2, <1>3 DEF Registered, NoEntry
<1>4. \A v : Wanted(v)' <=> Wanted(v)
  BY <1>1 DEF Wanted
<1> QED BY <1>1, <1>3, <1>4 DEF RuleInv

(* The rows to register are all the wanted ones.                            *)
LEMMA RuleAfterRemoved == ASSUME IInv, RuleInv, RemovedAll PROVE RuleInv'
<1>1. /\ rows' = rows /\ want' = want /\ todo' = want /\ step' = "add" /\ synced' = synced
      /\ step = "remove" /\ entries' = entries
  BY DEF RemovedAll, table, calls, cron
<1>2. \A v : Registered(v)' <=> Registered(v)
  BY <1>1 DEF Registered
<1> QED BY <1>1, <1>2 DEF RuleInv, Wanted

(* What the check accepts has a gap of the minimum; what is slow enough     *)
(* everywhere it never refuses.                                             *)
LEMMA RegistrableRule ==
  ASSUME NEW x \in [wf : Workflow, row : Row], Active(x.row)
  PROVE  /\ MayRegister(x) => \E g \in Gaps(Fires[x.row.schedule]) : g >= MinInterval
         /\ MayFail(x) => ~ (x.wf \in Owned /\ x.row.schedule \in Slow \ Descriptor)
<1>1. x.row.schedule \in Schedule /\ Fires[x.row.schedule] \in SUBSET Minute
  BY DEF Active, Row
<1>2. ASSUME MayRegister(x) PROVE \E g \in Gaps(Fires[x.row.schedule]) : g >= MinInterval
  <2>1. PICK t \in Minute : Accepts(Fires[x.row.schedule], t)
    BY <1>2 DEF MayRegister, Registrable
  <2> QED BY <1>1, <2>1, GapInGaps DEF Accepts
<1>3. ASSUME MayFail(x), x.wf \in Owned, x.row.schedule \in Slow \ Descriptor PROVE FALSE
  <2>1. PICK t \in Minute : ~ Accepts(Fires[x.row.schedule], t)
    BY <1>3 DEF MayFail, Registrable
  <2> QED BY <1>1, <1>3, <2>1, GapInGaps DEF Accepts, Slow
<1> QED BY <1>2, <1>3

(* One turn of the loop: a row that must be accepted is registered now.     *)
LEMMA RuleAfterAdd == ASSUME IInv, RuleInv, NEW x \in todo, AddEntry(x) PROVE RuleInv'
<1>1. /\ rows' = rows /\ want' = want /\ step' = step /\ synced' = synced
      /\ step = "add" /\ todo' = todo \ {x} /\ x \in want
  BY DEF AddEntry, table, calls, IInv, TypeOK
<1>2. x \in [wf : Workflow, row : Row] /\ Active(x.row) /\ entries \in [Workflow -> Entry]
  BY <1>1 DEF IInv, TypeOK, RuleInv
<1>3. nextId # 0 /\ x.wf \in Workflow
  BY <1>2 DEF IInv, TypeOK
<1>4. \/ Registered(x.wf) /\ entries[x.wf].schedule = x.row.schedule /\ entries' = entries
      \/ /\ MayRegister(x)
         /\ entries' = [entries EXCEPT ![x.wf] = [id |-> nextId, schedule |-> x.row.schedule]]
      \/ MayFail(x) /\ entries' = [entries EXCEPT ![x.wf] = NoEntry]
  BY DEF AddEntry, Register, Unregister, cron
<1>5. \A v \in Workflow \ {x.wf} : entries'[v] = entries[v] /\ (Registered(v)' <=> Registered(v))
  BY <1>2, <1>3, <1>4 DEF Registered
<1>6. ASSUME NEW v \in Workflow, Registered(v)'
      PROVE  \E g \in Gaps(Fires[entries'[v].schedule]) : g >= MinInterval
  <2>1. CASE v # x.wf
    BY <1>5, <1>6, <2>1 DEF RuleInv
  <2>2. CASE v = x.wf
    <3>1. CASE Registered(x.wf) /\ entries' = entries
      BY <2>2, <3>1 DEF RuleInv
    <3>2. CASE /\ MayRegister(x)
               /\ entries' = [entries EXCEPT ![x.wf] = [id |-> nextId, schedule |-> x.row.schedule]]
      <4>1. entries'[v].schedule = x.row.schedule
        BY <1>2, <1>3, <2>2, <3>2
      <4> QED BY <1>2, <3>2, <4>1, RegistrableRule
    <3>3. CASE entries' = [entries EXCEPT ![x.wf] = NoEntry]
      BY <1>2, <1>3, <1>6, <2>2, <3>3 DEF Registered, NoEntry
    <3> QED BY <1>4, <3>1, <3>2, <3>3
  <2> QED BY <2>1, <2>2
<1>7. ASSUME synced, NEW v \in Owned, Active(rows[v]), rows[v].schedule \in Slow \ Descriptor
      PROVE  (\E y \in todo' : y.wf = v) \/ Registered(v)'
  <2>1. v \in Workflow /\ ((\E y \in todo : y.wf = v) \/ Registered(v))
    BY <1>1, <1>7 DEF RuleInv
  <2>2. CASE v # x.wf
    BY <1>1, <1>5, <2>1, <2>2
  <2>3. CASE v = x.wf
    <3>1. x.row = rows[v]
      BY <1>1, <1>7, <2>3 DEF IInv, ReloadInv
    <3>2. ~ MayFail(x)
      BY <1>2, <1>7, <2>3, <3>1, RegistrableRule
    <3>3. Registered(x.wf)'
      BY <1>2, <1>3, <1>4, <3>2 DEF Registered
    <3> QED BY <2>3, <3>3
  <2> QED BY <2>2, <2>3
<1>8. \A y \in want' : Active(y.row)
  BY <1>1 DEF RuleInv
<1> QED BY <1>1, <1>6, <1>7, <1>8 DEF RuleInv

(* Nothing is left to register.                                             *)
LEMMA RuleAfterReload == ASSUME IInv, RuleInv, ReloadDone PROVE RuleInv'
<1>1. /\ rows' = rows /\ want' = {} /\ step' = "idle" /\ synced' = synced
      /\ step = "add" /\ todo = {} /\ entries' = entries
  BY DEF ReloadDone, table, calls, cron
<1>2. \A v : Registered(v)' <=> Registered(v)
  BY <1>1 DEF Registered
<1> QED BY <1>1, <1>2 DEF RuleInv

(* Every step keeps the rule.                                               *)
LEMMA RuleStep == IInv /\ RuleInv /\ [Next]_vars => RuleInv'
<1> SUFFICES ASSUME IInv, RuleInv, [Next]_vars PROVE RuleInv'
  OBVIOUS
<1>1. CASE \E w \in Workflow : SaveWorkflow(w) \/ DeleteWorkflow(w)
  BY <1>1, RuleAfterSave
<1>2. CASE Restart
  BY <1>2, RuleAfterRestart
<1>3. CASE StartReload \/ SaveReload
  BY <1>3, RuleAfterLoad
<1>4. CASE ReloadStep
  BY <1>4, RuleAfterRemove, RuleAfterRemoved, RuleAfterAdd, RuleAfterReload DEF ReloadStep
<1>5. CASE \/ FlipKillSwitch \/ StartCron \/ StopCron \/ \E j \in jobs : Fire(j)
           \/ \E i \in 1..Len(ticks) : TickStep(i)
           \/ \E k \in 1..Len(runs) : RunStep(k)
  <2>1. UNCHANGED <<rows, entries, want, todo, step, synced>>
    BY <1>5 DEF FlipKillSwitch, StartCron, StopCron, Fire, TickStep, ReadKillSwitch, DispatchTarget,
                RunStep, Preflight, CountRun, ReachCost, table, cron, reload, fired, calls
  <2> QED BY <2>1, RuleKept
<1>6. CASE UNCHANGED vars
  <2>1. UNCHANGED <<rows, entries, want, todo, step, synced>>
    BY <1>6 DEF vars, table, cron, reload, calls
  <2> QED BY <2>1, RuleKept
<1> QED BY <1>1, <1>2, <1>3, <1>4, <1>5, <1>6 DEF Next

(* The interval check answers as the gaps say, whatever the period and the  *)
(* minimum; no schedule without a gap of the minimum is registered, and an  *)
(* owned row that never fires too fast is never left out by a Reload        *)
(* (validateCronWithMin, registerLocked).                                   *)
THEOREM IntervalsAreKept == Spec => []IntervalRule
<1>1. Init => RuleInv
  BY DEF Init, RuleInv, Registered, NoEntry
<1>2. RuleInv => IntervalRule
  <2>1. RuleInv /\ Reloaded => \A w \in Owned :
          Active(rows[w]) /\ rows[w].schedule \in Slow \ Descriptor => Registered(w)
    BY DEF RuleInv, Reloaded
  <2> QED BY <2>1, CheckIsExact DEF RuleInv, IntervalRule
<1> QED BY <1>1, <1>2, SchedulerInvariant, RuleStep, PTL DEF Spec

----------------------------------------------------------------------------
(* The calls of Reload.  Whatever step is taken, a change the entries do    *)
(* not show has a call to come or is one no call was left for.              *)
LEMMA CallsStep == IInv /\ CallsInv /\ [Next]_vars => CallsInv'
<1> SUFFICES ASSUME IInv, CallsInv, [Next]_vars PROVE CallsInv'
  OBVIOUS
<1>1. owed \in Nat
  BY DEF IInv, TypeOK
<1>2. CASE \E w \in Workflow : SaveWorkflow(w)
  <2>1. owed' > 0
    BY <1>1, <1>2 DEF SaveWorkflow
  <2> QED BY <2>1 DEF CallsInv
<1>3. CASE \E w \in Workflow : DeleteWorkflow(w)
  <2>1. (missed' <=> (owed = 0 /\ phase # "new")) /\ phase' = phase /\ owed' = owed
    BY <1>3 DEF DeleteWorkflow
  <2> QED BY <1>1, <2>1 DEF CallsInv
<1>4. CASE StartReload \/ SaveReload
  <2>1. CASE Loaded
    BY <2>1 DEF Loaded, CallsInv
  <2>2. CASE NotLoaded
    <3>1. missed' <=> (owed' = 0 /\ phase' # "new")
      BY <2>2 DEF NotLoaded
    <3>2. owed' \in Nat
      BY <1>1, <1>4 DEF StartReload, SaveReload
    <3> QED BY <3>1, <3>2 DEF CallsInv
  <2> QED BY <1>4, <2>1, <2>2 DEF StartReload, SaveReload
<1>5. CASE ReloadStep
  <2>1. UNCHANGED calls /\ (phase = "new" => phase' = "new")
    BY <1>5 DEF ReloadStep, RemoveEntry, RemovedAll, AddEntry, ReloadDone
  <2> QED BY <2>1 DEF CallsInv, calls
<1>6. CASE StartCron \/ StopCron
  <2>1. UNCHANGED calls /\ phase # "new"
    BY <1>6 DEF StartCron, StopCron
  <2> QED BY <2>1 DEF CallsInv, calls
<1>7. CASE Restart
  BY <1>7 DEF Restart, CallsInv
<1>8. CASE \/ FlipKillSwitch \/ \E j \in jobs : Fire(j)
           \/ \E i \in 1..Len(ticks) : TickStep(i)
           \/ \E k \in 1..Len(runs) : RunStep(k)
           \/ UNCHANGED vars
  <2>1. UNCHANGED calls /\ phase' = phase
    BY <1>8 DEF FlipKillSwitch, Fire, TickStep, ReadKillSwitch, DispatchTarget, RunStep, Preflight,
                CountRun, ReachCost, vars
  <2> QED BY <2>1 DEF CallsInv, calls
<1> QED BY <1>2, <1>3, <1>4, <1>5, <1>6, <1>7, <1>8 DEF Next

(* One call of Reload per save is enough, however the calls, the saves and  *)
(* the failures follow each other: when the calls are made and the last one *)
(* did not fail, the entries are those of the table (Start, Reload).        *)
THEOREM OneCallPerSave == Spec => []CallsSuffice
<1>1. Init => RuleInv /\ CallsInv
  BY DEF Init, RuleInv, CallsInv, Registered, NoEntry
<1>2. IInv /\ RuleInv /\ CallsInv => CallsSuffice
  <2> SUFFICES ASSUME IInv, RuleInv, CallsInv, step = "idle", owed = 0, ~missed, phase # "new"
               PROVE  CaughtUp
    BY DEF CallsSuffice
  <2>1. synced /\ Reloaded
    BY DEF CallsInv, Reloaded
  <2>2. \A w \in Workflow :
          Registered(w) => Active(rows[w]) /\ entries[w].schedule = rows[w].schedule
    BY <2>1 DEF IInv, EntriesMatchRows
  <2>3. \A w \in Owned :
          Active(rows[w]) /\ rows[w].schedule \in Slow \ Descriptor => Registered(w)
    BY <2>1 DEF RuleInv
  <2> QED BY <2>2, <2>3 DEF CaughtUp
<1> QED BY <1>1, <1>2, SchedulerInvariant, RuleStep, CallsStep, PTL DEF Spec
=============================================================================

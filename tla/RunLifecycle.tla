---------------------------- MODULE RunLifecycle ----------------------------
(* What a run promises to whoever reads its rows (the run-detail page, the  *)
(* reconciliation of costs): the status of the run, the statuses of its     *)
(* agent_steps in the order they began, and the steps that led to a paper   *)
(* trade.  Nothing here says which node fires when.                         *)
EXTENDS Naturals, Sequences

VARIABLES status,   \* workflow_runs.status, "none" before the insert
          log,      \* agent_steps.status of each step
          traded    \* the steps with a paper trade

vars == <<status, log, traded>>

Init == status = "none" /\ log = <<>> /\ traded = {}

AllCompleted == \A i \in 1..Len(log) : log[i] = "completed"

Begin == /\ status = "none"
         /\ status' = "running"
         /\ UNCHANGED <<log, traded>>

(* One step at a time, and only on top of completed ones.                   *)
BeginStep == /\ status = "running" /\ AllCompleted
             /\ log' = Append(log, "running")
             /\ UNCHANGED <<status, traded>>

(* A finished step keeps its status for good.                               *)
EndStep == /\ status = "running"
           /\ log # <<>> /\ log[Len(log)] = "running"
           /\ \E s \in {"completed", "failed", "timed_out"} :
                log' = [log EXCEPT ![Len(log)] = s]
           /\ UNCHANGED <<status, traded>>

(* A trade belongs to the step that has just completed, and is its only one.*)
Trade == /\ status = "running" /\ log # <<>> /\ AllCompleted
         /\ Len(log) \notin traded
         /\ traded' = traded \cup {Len(log)}
         /\ UNCHANGED <<status, log>>

(* The terminal status is written once.  A completed run has only completed *)
(* steps, so has a killed one, and a timed-out one no failed step.          *)
End == /\ status = "running"
       /\ status' \in {"completed", "failed", "timed_out", "killed", "quota_exceeded"}
       /\ status' \in {"completed", "killed"} => AllCompleted
       /\ status' = "timed_out" => \A i \in 1..Len(log) : log[i] \in {"completed", "timed_out"}
       /\ UNCHANGED <<log, traded>>

Next == Begin \/ BeginStep \/ EndStep \/ Trade \/ End

Spec == Init /\ [][Next]_vars
=============================================================================

--------------------------- MODULE Subscriptions ---------------------------
(* market_targets of one workflow and its strategy_market_subscriptions,    *)
(* which transactions keep in step: begin, WorkflowsRepo.Update,            *)
(* SyncForWorkflow, commit, in the order the repository prescribes to its   *)
(* callers.  PostgreSQL's READ COMMITTED is modelled by its locks: a        *)
(* statement sees what is committed when it begins, and waits for rows      *)
(* another transaction has written and not committed.                       *)
EXTENDS Integers, Sequences, FiniteSets, SequencesExt

CONSTANTS
  Tx,                \* transactions
  Lists,             \* the target lists they save
  Empty,             \* the empty slug
  MaxFaults          \* bound: statements that fail, callers that stop

ListAssumption == MaxFaults \in Nat /\ \A s \in Lists : IsFiniteSet(DOMAIN s)

VARIABLES
  exists, targets, subs,  \* committed: the workflow row, its market_targets, the subscriptions
  lock,                   \* transactions that have written the workflow row
  pc, list,               \* per transaction: where it stands, the list it saves
  deleted, inserted,      \* per transaction: the subscriptions it has written, uncommitted
  faults                  \* counter of the bound MaxFaults

committed == <<exists, targets, subs>>
written   == <<deleted, inserted>>
vars      == <<committed, lock, pc, list, written, faults>>

Slugs == (UNION {Range(s) : s \in Lists}) \ {Empty}
TypeOK ==
  /\ exists \in BOOLEAN /\ targets \in Lists /\ subs \subseteq Slugs
  /\ lock \subseteq Tx
  /\ pc \in [Tx -> {"idle", "update", "delete", "copy", "commit", "done"}]
  /\ list \in [Tx -> Lists]
  /\ deleted \in [Tx -> SUBSET Slugs] /\ inserted \in [Tx -> SUBSET Slugs]
  /\ faults \in 0..MaxFaults

(* What SyncForWorkflow makes of a list: no empty slug, none twice.         *)
Rows(s) == Range(s) \ {Empty}

Init ==
  /\ exists = TRUE /\ targets \in Lists /\ subs = Rows(targets)
  /\ lock = {} /\ pc = [x \in Tx |-> "idle"]
  /\ list = [x \in Tx |-> CHOOSE s \in Lists : TRUE]
  /\ deleted = [x \in Tx |-> {}] /\ inserted = [x \in Tx |-> {}]
  /\ faults = 0

Open == {x \in Tx : pc[x] \notin {"idle", "done"}}
Goto(x, s) == pc' = [pc EXCEPT ![x] = s]

Begin(x) ==
  /\ pc[x] = "idle"
  /\ \E s \in Lists : list' = [list EXCEPT ![x] = s]
  /\ Goto(x, "update")
  /\ UNCHANGED <<committed, lock, written, faults>>

End(x) ==
  /\ Goto(x, "done") /\ lock' = lock \ {x}
  /\ deleted' = [deleted EXCEPT ![x] = {}] /\ inserted' = [inserted EXCEPT ![x] = {}]
  /\ UNCHANGED list

(* Mutant of Update: the workflow row is not written.                       *)
UpdateUnlocked(x) ==
  /\ pc[x] = "update"
  /\ exists /\ Goto(x, "delete")
  /\ UNCHANGED <<committed, lock, list, written, faults>>

(* Update locks the row until the transaction ends; no row: ErrNotFound.    *)
Update(x) ==
  /\ pc[x] = "update" /\ lock = {}
  /\ \/ exists /\ lock' = {x} /\ Goto(x, "delete") /\ UNCHANGED <<list, written>>
     \/ ~exists /\ End(x)
  /\ UNCHANGED <<committed, faults>>

(* SyncForWorkflow deletes the rows it sees ...                             *)
Delete(x) ==
  /\ pc[x] = "delete"
  /\ \A y \in Open \ {x} : deleted[y] \cap subs = {}
  /\ deleted' = [deleted EXCEPT ![x] = subs]
  /\ Goto(x, "copy")
  /\ UNCHANGED <<committed, lock, list, inserted, faults>>

(* ... and copies its own in.  The primary key refuses a slug that is       *)
(* committed and waits for one that is not; the foreign key needs the       *)
(* workflow.                                                                *)
Copy(x) ==
  /\ pc[x] = "copy"
  /\ \A y \in Open \ {x} : (inserted[y] \cup deleted[y]) \cap Rows(list[x]) = {}
  /\ \/ /\ exists /\ Rows(list[x]) \cap (subs \ deleted[x]) = {}
        /\ inserted' = [inserted EXCEPT ![x] = Rows(list[x])]
        /\ Goto(x, "commit") /\ UNCHANGED <<lock, list, deleted>>
     \/ ~(exists /\ Rows(list[x]) \cap (subs \ deleted[x]) = {}) /\ End(x)
  /\ UNCHANGED <<committed, faults>>

Commit(x) ==
  /\ pc[x] = "commit"
  /\ targets' = list[x]
  /\ subs' = (subs \ deleted[x]) \cup inserted[x]
  /\ End(x) /\ UNCHANGED <<exists, faults>>

(* A statement fails, or the caller does, before the commit.                *)
Rollback(x) ==
  /\ x \in Open
  /\ faults < MaxFaults /\ faults' = faults + 1
  /\ End(x) /\ UNCHANGED committed

(* WorkflowsRepo.Delete waits for the row and takes the subscriptions too.  *)
DeleteWorkflow ==
  /\ exists /\ lock = {}
  /\ exists' = FALSE /\ subs' = {}
  /\ UNCHANGED <<targets, lock, pc, list, written, faults>>

Step(x) == Update(x) \/ Delete(x) \/ Copy(x) \/ Commit(x)
Next == DeleteWorkflow \/ \E x \in Tx : Begin(x) \/ Step(x) \/ Rollback(x)

Spec == Init /\ [][Next]_vars

----------------------------------------------------------------------------
(* What is committed never disagrees: the subscriptions are the targets     *)
(* without empty and repeated slugs, and go with the workflow, whatever     *)
(* transactions overlap and wherever they fail.                             *)
InSync == subs = IF exists THEN Rows(targets) ELSE {}

(* What InSync rests on: the row lock of Update keeps one transaction at a  *)
(* time in the statements after it, so when it commits, what it deleted is  *)
(* still all there is, and the workflow is still there.                     *)
Writing(x) == pc[x] \in {"delete", "copy", "commit"}
LockInv ==
  /\ lock = {x \in Tx : Writing(x)} /\ \A x, y \in lock : x = y
  /\ lock # {} => exists
  /\ \A x \in Tx :
       /\ pc[x] \in {"copy", "commit"} => deleted[x] = subs
       /\ pc[x] = "commit" => inserted[x] = Rows(list[x])

(* The inductive invariant.                                                 *)
IInv == TypeOK /\ LockInv /\ InSync
=============================================================================

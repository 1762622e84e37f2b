--------------------------- MODULE WorkflowStore ---------------------------
(* The rows of users, templates, workflows, nodes and edges: runctl, which  *)
(* saves a workflow statement by statement outside a transaction, and       *)
(* NewGraph, which reads one the same way, among deletions that cascade.    *)
(* Each runctl saves one workflow, which has its name here; template, node  *)
(* and edge number i of runctl p is <<p, i>>, and node i uses template i.   *)
EXTENDS Integers, Sequences, FiniteSets

CONSTANTS
  Runctl,            \* runctl processes
  Executor,          \* other calls of Executor.Run, for any stored workflow
  Email, EmailOf,    \* the --user-email of each runctl
  N,                 \* templates, and so nodes, of the workflow runctl saves
  Wiring,            \* its edges <<from, to>>, in the order runctl saves them
  MaxFaults,         \* bound: statements that fail
  MaxDeletes         \* bound: rows somebody deletes

Node == 1..N
Edge == DOMAIN Wiring
Total == 2 * N + 1 + Len(Wiring)   \* statements of bootstrapHappyPathWorkflow

ASSUME PlanAssumption == N \in Nat \ {0} /\ Wiring \in Seq(Node \X Node)
ASSUME ProcessAssumption == Runctl \cap Executor = {} /\ EmailOf \in [Runctl -> Email]
ASSUME BoundAssumption == MaxFaults \in Nat /\ MaxDeletes \in Nat

Process == Runctl \cup Executor
None    == "none"

VARIABLES
  users,             \* rows of users: email and the runctl that made them
  templates, workflows, nodes, edges,  \* rows of the other tables
  runs,              \* rows of workflow_runs, by the process that made them
  pc,
  owner,             \* per runctl: the user it resolved
  made,              \* per runctl: statements of the bootstrap the database has done
  workflow,          \* per process: RunRequest.WorkflowID
  seenNodes, seenEdges,  \* per process: what NewGraph has read
  unread,            \* per process: nodes whose template it has yet to read
  whole,             \* history, per process: the workflow was complete when NewGraph began
  faults, deletes    \* counters of the bounds

tables == <<users, templates, workflows, nodes, edges, runs>>
graph  == <<workflow, seenNodes, seenEdges, unread, whole>>
bounds == <<faults, deletes>>
vars   == <<tables, pc, owner, made, graph, bounds>>

PC == {"lookup", "signup", "bootstrap", "idle", "start", "nodes", "edges", "templates", "insert",
       "running", "failed"}

TypeOK ==
  /\ users \subseteq [email : Email, by : Runctl]
  /\ templates \subseteq Runctl \X Node /\ workflows \subseteq Runctl
  /\ nodes \subseteq Runctl \X Node /\ edges \subseteq Runctl \X Edge
  /\ runs \subseteq Process
  /\ pc \in [Process -> PC]
  /\ owner \in [Runctl -> Runctl \cup {None}] /\ made \in [Runctl -> 0..Total]
  /\ workflow \in [Process -> Runctl \cup {None}]
  /\ seenNodes \in [Process -> SUBSET Node] /\ seenEdges \in [Process -> SUBSET Edge]
  /\ unread \in [Process -> SUBSET Node] /\ whole \in [Process -> BOOLEAN]
  /\ faults \in 0..MaxFaults /\ deletes \in 0..MaxDeletes

Init ==
  /\ users = {} /\ templates = {} /\ workflows = {} /\ nodes = {} /\ edges = {} /\ runs = {}
  /\ pc = [p \in Process |-> IF p \in Runctl THEN "lookup" ELSE "idle"]
  /\ owner = [p \in Runctl |-> None] /\ made = [p \in Runctl |-> 0]
  /\ workflow = [p \in Process |-> None]
  /\ seenNodes = [p \in Process |-> {}] /\ seenEdges = [p \in Process |-> {}]
  /\ unread = [p \in Process |-> {}] /\ whole = [p \in Process |-> FALSE]
  /\ faults = 0 /\ deletes = 0

At(p, s)   == pc[p] = s
Goto(p, s) == pc' = [pc EXCEPT ![p] = s]

Fault == faults < MaxFaults /\ faults' = faults + 1 /\ UNCHANGED deletes
Errs(refused) == (refused /\ UNCHANGED bounds) \/ Fault   \* a statement that fails

----------------------------------------------------------------------------
(* mustResolveUser: any error of the lookup counts as no user.              *)
Accounts(p) == {u \in users : u.email = EmailOf[p]}

GetByEmail(p) ==
  /\ At(p, "lookup")
  /\ \/ \E u \in Accounts(p) :
          owner' = [owner EXCEPT ![p] = u.by] /\ Goto(p, "bootstrap") /\ UNCHANGED bounds
     \/ Errs(Accounts(p) = {}) /\ Goto(p, "signup") /\ UNCHANGED owner
  /\ UNCHANGED <<tables, made, graph>>

(* Mutant of CreateUser: the email is not unique.                           *)
CreateUserAgain(p) ==
  /\ At(p, "signup")
  /\ users' = users \cup {[email |-> EmailOf[p], by |-> p]}
  /\ owner' = [owner EXCEPT ![p] = p] /\ Goto(p, "bootstrap")
  /\ UNCHANGED <<bounds, templates, workflows, nodes, edges, runs, made, graph>>

(* email is UNIQUE: of two runctl that found no user one fails and exits.   *)
(* So does one whose row is there but whose reply is lost.                  *)
CreateUser(p) ==
  /\ At(p, "signup")
  /\ \/ /\ Accounts(p) = {}
        /\ users' = users \cup {[email |-> EmailOf[p], by |-> p]}
        /\ \/ owner' = [owner EXCEPT ![p] = p] /\ Goto(p, "bootstrap") /\ UNCHANGED bounds
           \/ Fault /\ Goto(p, "failed") /\ UNCHANGED owner
     \/ Errs(Accounts(p) # {}) /\ Goto(p, "failed") /\ UNCHANGED <<users, owner>>
  /\ UNCHANGED <<templates, workflows, nodes, edges, runs, made, graph>>

----------------------------------------------------------------------------
(* bootstrapHappyPathWorkflow: N templates, the workflow, N nodes, the      *)
(* edges.  A statement that fails ends runctl and leaves what was saved, the*)
(* row of that statement too when only its reply is lost.                   *)
Saving(p, first, last) == At(p, "bootstrap") /\ made[p] + 1 \in first..last
Saved(p) ==
  /\ made' = [made EXCEPT ![p] = @ + 1]
  /\ \/ made[p] + 1 < Total /\ UNCHANGED <<pc, workflow, bounds>>
     \/ /\ made[p] + 1 = Total /\ Goto(p, "start")
        /\ workflow' = [workflow EXCEPT ![p] = p] /\ UNCHANGED bounds
     \/ Fault /\ Goto(p, "failed") /\ UNCHANGED workflow
  /\ UNCHANGED <<seenNodes, seenEdges, unread, whole>>
Exit(p) == Goto(p, "failed") /\ UNCHANGED <<made, graph>>

CreateTemplate(p) ==
  /\ Saving(p, 1, N)
  /\ \/ templates' = templates \cup {<<p, made[p] + 1>>} /\ Saved(p)
     \/ Errs(FALSE) /\ Exit(p) /\ UNCHANGED templates
  /\ UNCHANGED <<users, workflows, nodes, edges, runs, owner>>

CreateWorkflow(p) ==
  /\ Saving(p, N + 1, N + 1)
  /\ \/ workflows' = workflows \cup {p} /\ Saved(p)
     \/ Errs(FALSE) /\ Exit(p) /\ UNCHANGED workflows
  /\ UNCHANGED <<users, templates, nodes, edges, runs, owner>>

(* The foreign keys of a node: its workflow and its template.               *)
CreateNode(p) ==
  LET i  == made[p] - N
      ok == p \in workflows /\ <<p, i>> \in templates
  IN /\ Saving(p, N + 2, 2 * N + 1)
     /\ \/ ok /\ nodes' = nodes \cup {<<p, i>>} /\ Saved(p)
        \/ Errs(~ok) /\ Exit(p) /\ UNCHANGED nodes
     /\ UNCHANGED <<users, templates, workflows, edges, runs, owner>>

(* And of an edge: its workflow and both nodes.                             *)
Ends(k) == {Wiring[k][1], Wiring[k][2]}

(* Mutant of CreateEdge: an edge that fails is passed over.                 *)
CreateEdgeAnyway(p) ==
  LET k == made[p] - 2 * N
  IN /\ Saving(p, 2 * N + 2, Total)
     /\ edges' \in {edges, edges \cup {<<p, k>>}}
     /\ Saved(p)
     /\ UNCHANGED <<users, templates, workflows, nodes, runs, owner>>

CreateEdge(p) ==
  LET k  == made[p] - 2 * N
      ok == p \in workflows /\ \A i \in Ends(k) : <<p, i>> \in nodes
  IN /\ Saving(p, 2 * N + 2, Total)
     /\ \/ ok /\ edges' = edges \cup {<<p, k>>} /\ Saved(p)
        \/ Errs(~ok) /\ Exit(p) /\ UNCHANGED edges
     /\ UNCHANGED <<users, templates, workflows, nodes, runs, owner>>

----------------------------------------------------------------------------
(* Executor.Run up to its workflow_runs row: NewGraph is GetByID, ListNodes,*)
(* ListEdges and a GetByID per template, each a statement of its own on the *)
(* pool, so rows come and go between them.  Any error ends the run.         *)
Whole(w) ==
  /\ \A i \in Node : <<w, i>> \in nodes
  /\ \A k \in Edge : <<w, k>> \in edges

Refuse(p, refused) == Errs(refused) /\ Goto(p, "failed") /\ UNCHANGED <<tables, owner, made, graph>>

Run(p) ==
  /\ p \in Executor /\ At(p, "idle")
  /\ \E w \in workflows : workflow' = [workflow EXCEPT ![p] = w]
  /\ Goto(p, "start")
  /\ UNCHANGED <<tables, owner, made, seenNodes, seenEdges, unread, whole, bounds>>

GetByID(p) ==
  /\ At(p, "start")
  /\ \/ /\ workflow[p] \in workflows /\ Goto(p, "nodes")
        /\ whole' = [whole EXCEPT ![p] = Whole(workflow[p])]
        /\ UNCHANGED <<tables, owner, made, workflow, seenNodes, seenEdges, unread, bounds>>
     \/ Refuse(p, workflow[p] \notin workflows)

ListNodes(p) ==
  /\ At(p, "nodes")
  /\ \/ /\ seenNodes' = [seenNodes EXCEPT ![p] = {i \in Node : <<workflow[p], i>> \in nodes}]
        /\ unread' = [unread EXCEPT ![p] = seenNodes'[p]]
        /\ Goto(p, "edges")
        /\ UNCHANGED <<tables, owner, made, workflow, seenEdges, whole, bounds>>
     \/ Refuse(p, FALSE)

ListEdges(p) ==
  /\ At(p, "edges")
  /\ \/ /\ seenEdges' = [seenEdges EXCEPT ![p] = {k \in Edge : <<workflow[p], k>> \in edges}]
        /\ Goto(p, "templates")
        /\ UNCHANGED <<tables, owner, made, workflow, seenNodes, unread, whole, bounds>>
     \/ Refuse(p, FALSE)

(* One template, in no order that matters.                                  *)
GetTemplate(p) ==
  /\ At(p, "templates")
  /\ \E i \in unread[p] :
       \/ /\ <<workflow[p], i>> \in templates
          /\ unread' = [unread EXCEPT ![p] = @ \ {i}]
          /\ UNCHANGED <<tables, pc, owner, made, workflow, seenNodes, seenEdges, whole, bounds>>
       \/ Refuse(p, <<workflow[p], i>> \notin templates)

(* The rest of NewGraph: every edge between nodes it has, and an entry node.*)
Wired(p)   == \A k \in seenEdges[p] : Ends(k) \subseteq seenNodes[p]
Entries(p) == seenNodes[p] \ {Wiring[k][2] : k \in seenEdges[p]}
NewGraph(p) ==
  /\ At(p, "templates") /\ unread[p] = {}
  /\ Goto(p, IF Wired(p) /\ Entries(p) # {} THEN "insert" ELSE "failed")
  /\ UNCHANGED <<tables, owner, made, graph, bounds>>

(* Mutant of CreateRun: workflow_runs has no foreign key.                   *)
CreateRunAnyway(p) ==
  /\ At(p, "insert")
  /\ runs' = runs \cup {p} /\ Goto(p, "running")
  /\ UNCHANGED <<users, templates, workflows, nodes, edges, owner, made, graph, bounds>>

(* runsRepo.Create, whose foreign key asks for the workflow once more.      *)
CreateRun(p) ==
  /\ At(p, "insert")
  /\ \/ /\ workflow[p] \in workflows /\ runs' = runs \cup {p}
        /\ \/ Goto(p, "running") /\ UNCHANGED bounds
           \/ Fault /\ Goto(p, "failed")
        /\ UNCHANGED <<users, templates, workflows, nodes, edges, owner, made, graph>>
     \/ Refuse(p, workflow[p] \notin workflows)

----------------------------------------------------------------------------
(* Somebody deletes a workflow, with its nodes, edges and runs, or a        *)
(* template no node refers to.                                              *)
Deletes == deletes < MaxDeletes /\ deletes' = deletes + 1 /\ UNCHANGED faults

DeleteWorkflow(w) ==
  /\ w \in workflows /\ Deletes
  /\ workflows' = workflows \ {w}
  /\ nodes' = {n \in nodes : n[1] # w} /\ edges' = {e \in edges : e[1] # w}
  /\ runs' = {p \in runs : workflow[p] # w}
  /\ UNCHANGED <<users, templates, pc, owner, made, graph>>

DeleteTemplate(t) ==
  /\ t \in templates /\ t \notin nodes /\ Deletes
  /\ templates' = templates \ {t}
  /\ UNCHANGED <<users, workflows, nodes, edges, runs, pc, owner, made, graph>>

Next ==
  \/ \E p \in Runctl :
       \/ GetByEmail(p) \/ CreateUser(p)
       \/ CreateTemplate(p) \/ CreateWorkflow(p) \/ CreateNode(p) \/ CreateEdge(p)
  \/ \E p \in Process :
       \/ Run(p) \/ GetByID(p) \/ ListNodes(p) \/ ListEdges(p) \/ GetTemplate(p)
       \/ NewGraph(p) \/ CreateRun(p)
  \/ \E w \in Runctl : DeleteWorkflow(w)
  \/ \E t \in Runctl \X Node : DeleteTemplate(t)

Spec == Init /\ [][Next]_vars

----------------------------------------------------------------------------
(* NewGraph's statements see different states of the tables, yet a run that *)
(* gets its row has the whole graph, if the workflow was all there when     *)
(* NewGraph began (a deletion in between takes the row the run's foreign    *)
(* key needs), and in any case if runctl saved it for this run: whatever    *)
(* fails in the bootstrap, or is deleted during it.                         *)
WholeGraph ==
  \A p \in Process :
    At(p, "running") /\ (whole[p] \/ p \in Runctl) => seenNodes[p] = Node /\ seenEdges[p] = Edge

(* Two runctl with one email work for one user, however their lookups and   *)
(* insertions interleave: the daily caps count by user.                     *)
OneAccount ==
  \A p, q \in Runctl :
    EmailOf[p] = EmailOf[q] /\ owner[p] # None /\ owner[q] # None => owner[p] = owner[q]

(* What OneAccount rests on: an owner is a row, and an email has one row.   *)
AccountsInv ==
  /\ \A u, v \in users : u.email = v.email => u = v
  /\ \A p \in Runctl : owner[p] # None => [email |-> EmailOf[p], by |-> owner[p]] \in users

(* What WholeGraph rests on: as long as a workflow is there, so is all that *)
(* its runctl has saved of it, ...                                          *)
SavedInv ==
  \A w \in workflows :
    /\ made[w] > N
    /\ \A i \in Node : N + 1 + i <= made[w] => <<w, i>> \in nodes
    /\ \A k \in Edge : 2 * N + 1 + k <= made[w] => <<w, k>> \in edges

(* ... one that was deleted does not come back, and what NewGraph has read  *)
(* of a complete workflow is all of it, while the workflow is there.        *)
Reading == {"nodes", "edges", "templates", "insert"}
Reads(p) ==
  LET w == workflow[p]
  IN /\ pc[p] \in Reading \cup {"start"} => w \in Runctl /\ made[w] > N
     /\ At(p, "start") /\ p \in Runctl => w = p /\ made[p] = Total
     /\ pc[p] \in Reading \cup {"running"} /\ p \in Runctl => whole[p]
     /\ pc[p] \in Reading /\ whole[p] /\ w \in workflows =>
          /\ Whole(w)
          /\ pc[p] # "nodes" => seenNodes[p] = Node
          /\ pc[p] \in {"templates", "insert"} => seenEdges[p] = Edge
     /\ At(p, "running") /\ whole[p] => seenNodes[p] = Node /\ seenEdges[p] = Edge

(* The inductive invariant.                                                 *)
IInv == TypeOK /\ AccountsInv /\ SavedInv /\ \A p \in Process : Reads(p)
=============================================================================

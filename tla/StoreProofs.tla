---------------------------- MODULE StoreProofs ----------------------------
(* Proofs about the rows people write, the modules MCRows puts together.    *)
(* WorkflowStore, for any number of processes, nodes, edges, failures and   *)
(* deletions: runctls of one email work for one user, and a run gets a      *)
(* whole graph.  AgentCatalog: templates name only types that compile.      *)
(* Subscriptions: they agree with the targets.  Each part is proved about   *)
(* the specification of its module.                                         *)
EXTENDS MCRows, TLAPS

USE PlanAssumption, ProcessAssumption, BoundAssumption

LEMMA PlanFacts ==
  /\ N \in Nat /\ Len(Wiring) \in Nat /\ Total \in Nat /\ Total > N
  /\ Edge = 1..Len(Wiring)
  /\ Runctl \subseteq Process
<1>1. Wiring \in Seq(Node \X Node)
  BY PlanAssumption
<1>2. Len(Wiring) \in Nat /\ Edge = 1..Len(Wiring)
  BY <1>1 DEF Edge
<1> QED BY <1>2, PlanAssumption DEF Total, Process

(* What every step leaves true of the stored workflows: made only grows,    *)
(* and a workflow that was created loses nothing while it is there.         *)
Keeps ==
  /\ made' \in [Runctl -> 0..Total]
  /\ \A w \in Runctl : made[w] <= made'[w]
  /\ \A w \in Runctl : made[w] > N /\ w \in workflows' => w \in workflows
  /\ \A w \in workflows' : /\ \A i \in Node : <<w, i>> \in nodes => <<w, i>> \in nodes'
                           /\ \A k \in Edge : <<w, k>> \in edges => <<w, k>> \in edges'

(* What a process has read stands if a step keeps that, and leaves the      *)
(* process itself alone.                                                    *)
LEMMA ReadsKept ==
  ASSUME TypeOK, Keeps, NEW p \in Process, Reads(p),
         pc'[p] = pc[p], workflow'[p] = workflow[p], whole'[p] = whole[p],
         seenNodes'[p] = seenNodes[p], seenEdges'[p] = seenEdges[p],
         p \in Runctl /\ pc[p] = "start" => made'[p] = made[p]
  PROVE  Reads(p)'
<1> DEFINE w == workflow[p]
<1>1. pc[p] \in Reading \cup {"start"} => w \in Runctl /\ made[w] > N
  BY DEF Reads
<1>2. w \in Runctl /\ made[w] > N => made'[w] > N
  <2> SUFFICES ASSUME w \in Runctl, made[w] > N PROVE made'[w] > N
    OBVIOUS
  <2>1. made[w] \in Nat /\ made'[w] \in Nat /\ made[w] <= made'[w]
    BY PlanFacts DEF TypeOK, Keeps
  <2> QED BY <2>1, PlanFacts
<1>3. pc[p] \in Reading /\ w \in workflows' => w \in workflows
  BY <1>1 DEF Keeps
<1>4. w \in workflows' /\ Whole(w) => Whole(w)'
  BY DEF Keeps, Whole
<1> QED BY <1>1, <1>2, <1>3, <1>4 DEF Reads, At, Reading

LEMMA AccountsKept ==
  ASSUME AccountsInv, UNCHANGED <<users, owner>>
  PROVE  AccountsInv'
BY DEF AccountsInv

(* A step that leaves the stored rows and the bootstraps alone.             *)
LEMMA RowsUntouched ==
  ASSUME TypeOK, SavedInv, UNCHANGED <<workflows, nodes, edges, made>>
  PROVE  SavedInv' /\ Keeps
<1>1. workflows' = workflows /\ nodes' = nodes /\ edges' = edges /\ made' = made
  OBVIOUS
<1>2. made \in [Runctl -> 0..Total] /\ \A w \in Runctl : made[w] \in Nat
  BY PlanFacts DEF TypeOK
<1>3. SavedInv'
  BY <1>1 DEF SavedInv
<1>4. \A w \in Runctl : made[w] <= made'[w]
  BY <1>1, <1>2
<1> QED BY <1>1, <1>2, <1>3, <1>4 DEF Keeps

(* At the start nobody has done anything.                                   *)
LEMMA InitInv == Init => IInv
<1> SUFFICES ASSUME Init PROVE IInv
  OBVIOUS
<1>1. \A p \in Process : pc[p] \in {"lookup", "idle"}
  BY DEF Init
<1>2. TypeOK
  <2>1. pc \in [Process -> PC]
    BY DEF Init, PC
  <2>2. /\ owner \in [Runctl -> Runctl \cup {None}] /\ made \in [Runctl -> 0..Total]
        /\ workflow \in [Process -> Runctl \cup {None}]
    BY PlanFacts DEF Init
  <2>3. /\ seenNodes \in [Process -> SUBSET Node] /\ seenEdges \in [Process -> SUBSET Edge]
        /\ unread \in [Process -> SUBSET Node] /\ whole \in [Process -> BOOLEAN]
    BY DEF Init
  <2>4. faults \in 0..MaxFaults /\ deletes \in 0..MaxDeletes
    BY DEF Init
  <2> QED BY <2>1, <2>2, <2>3, <2>4 DEF Init, TypeOK
<1>3. AccountsInv /\ SavedInv
  BY DEF Init, AccountsInv, SavedInv
<1>4. \A p \in Process : Reads(p)
  BY <1>1 DEF Reads, At, Reading
<1> QED BY <1>2, <1>3, <1>4 DEF IInv

----------------------------------------------------------------------------
LEMMA FaultType == ASSUME TypeOK, Fault \/ UNCHANGED bounds
                   PROVE  faults' \in 0..MaxFaults /\ deletes' \in 0..MaxDeletes
<1>1. faults \in 0..MaxFaults /\ deletes \in 0..MaxDeletes
  BY DEF TypeOK
<1>2. CASE Fault
  BY <1>1, <1>2 DEF Fault
<1>3. CASE UNCHANGED bounds
  BY <1>1, <1>3 DEF bounds
<1> QED BY <1>2, <1>3

(* The steps of mustResolveUser: a process on its way to the bootstrap.     *)
LEMMA ResolveInv ==
  ASSUME IInv, NEW p \in Runctl,
         UNCHANGED <<templates, workflows, nodes, edges, runs, made, graph>>,
         \E s \in {"signup", "bootstrap", "failed"} : Goto(p, s),
         users' \subseteq [email : Email, by : Runctl],
         owner' \in [Runctl -> Runctl \cup {None}],
         Fault \/ UNCHANGED bounds,
         AccountsInv'
  PROVE  IInv'
<1>1. UNCHANGED <<templates, workflows, nodes, edges, runs, made, workflow, seenNodes, seenEdges, unread, whole>>
  BY DEF graph
<1>2. pc' \in [Process -> PC] /\ pc'[p] \in {"signup", "bootstrap", "failed"}
      /\ \A q \in Process \ {p} : pc'[q] = pc[q]
  BY PlanFacts DEF Goto, IInv, TypeOK, PC
<1>3. TypeOK'
  BY <1>1, <1>2, FaultType DEF IInv, TypeOK
<1>4. SavedInv' /\ Keeps
  BY <1>1, RowsUntouched DEF IInv
<1>5. ASSUME NEW q \in Process PROVE Reads(q)'
  <2>1. CASE q = p
    BY <1>2, <2>1 DEF Reads, At, Reading
  <2>2. CASE q # p
    BY <1>1, <1>2, <1>4, <2>2, ReadsKept DEF IInv
  <2> QED BY <2>1, <2>2
<1> QED BY <1>3, <1>4, <1>5 DEF IInv

LEMMA GetByEmailInv == ASSUME IInv, NEW p \in Runctl, GetByEmail(p) PROVE IInv'
<1>1. UNCHANGED <<users, templates, workflows, nodes, edges, runs, made, graph>>
  BY DEF GetByEmail, tables
<1>2. Fault \/ UNCHANGED bounds
  BY DEF GetByEmail, Errs
<1>3. CASE Goto(p, "signup") /\ UNCHANGED owner
  <2>1. AccountsInv'
    BY <1>1, <1>3, AccountsKept DEF IInv
  <2> QED BY <1>1, <1>2, <1>3, <2>1, ResolveInv DEF IInv, TypeOK
<1>4. ASSUME NEW u \in Accounts(p), owner' = [owner EXCEPT ![p] = u.by], Goto(p, "bootstrap")
      PROVE  IInv'
  <2>1. u \in users /\ u.email = EmailOf[p] /\ u.by \in Runctl /\ u = [email |-> EmailOf[p], by |-> u.by]
    BY DEF Accounts, IInv, TypeOK
  <2>2. owner' \in [Runctl -> Runctl \cup {None}]
    BY <1>4, <2>1 DEF IInv, TypeOK
  <2>3. AccountsInv'
    BY <1>1, <1>4, <2>1 DEF IInv, AccountsInv, TypeOK
  <2> QED BY <1>1, <1>2, <1>4, <2>2, <2>3, ResolveInv DEF IInv, TypeOK
<1> QED BY <1>3, <1>4 DEF GetByEmail

LEMMA CreateUserInv == ASSUME IInv, NEW p \in Runctl, CreateUser(p) PROVE IInv'
<1>1. UNCHANGED <<templates, workflows, nodes, edges, runs, made, graph>>
  BY DEF CreateUser
<1>2. Fault \/ UNCHANGED bounds
  BY DEF CreateUser, Errs
<1>3. CASE Goto(p, "failed") /\ UNCHANGED <<users, owner>>
  <2>1. AccountsInv'
    BY <1>3, AccountsKept DEF IInv
  <2> QED BY <1>1, <1>2, <1>3, <2>1, ResolveInv DEF IInv, TypeOK
<1>4. CASE /\ Accounts(p) = {}
           /\ users' = users \cup {[email |-> EmailOf[p], by |-> p]}
           /\ \/ owner' = [owner EXCEPT ![p] = p] /\ Goto(p, "bootstrap")
              \/ owner' = owner /\ Goto(p, "failed")
  <2>1. EmailOf[p] \in Email
    BY ProcessAssumption
  <2>2. users' \subseteq [email : Email, by : Runctl] /\ owner' \in [Runctl -> Runctl \cup {None}]
    <3>1. users' \subseteq [email : Email, by : Runctl]
      BY <1>4, <2>1 DEF IInv, TypeOK
    <3>2. owner \in [Runctl -> Runctl \cup {None}]
      BY DEF IInv, TypeOK
    <3>3. [owner EXCEPT ![p] = p] \in [Runctl -> Runctl \cup {None}]
      BY <3>2
    <3> QED BY <1>4, <3>1, <3>2, <3>3
  <2>3. \A u \in users : u.email # EmailOf[p]
    BY <1>4 DEF Accounts
  <2>4. \A u, v \in users' : u.email = v.email => u = v
    BY <1>4, <2>3 DEF IInv, AccountsInv
  <2>5. \A q \in Runctl : owner'[q] # None => [email |-> EmailOf[q], by |-> owner'[q]] \in users'
    <3>1. CASE owner' = [owner EXCEPT ![p] = p]
      BY <1>4, <3>1 DEF IInv, AccountsInv, TypeOK
    <3>2. CASE owner' = owner
      BY <1>4, <3>2 DEF IInv, AccountsInv
    <3> QED BY <1>4, <3>1, <3>2
  <2>6. AccountsInv'
    BY <2>4, <2>5 DEF AccountsInv
  <2>7. \E s \in {"signup", "bootstrap", "failed"} : Goto(p, s)
    BY <1>4
  <2> QED BY <1>1, <1>2, <2>2, <2>6, <2>7, ResolveInv
<1> QED BY <1>3, <1>4 DEF CreateUser

----------------------------------------------------------------------------
(* A statement of the bootstrap that is applied: the rows it adds keep what *)
(* SavedInv says, and the process goes on in the bootstrap, starts its run  *)
(* or, when the reply is lost, has failed.                                  *)
LEMMA SavedStep ==
  ASSUME IInv, NEW p \in Runctl, At(p, "bootstrap"), Saved(p), made[p] < Total,
         UNCHANGED <<users, owner, runs>>,
         templates' \subseteq Runctl \X Node, workflows' \subseteq Runctl,
         nodes' \subseteq Runctl \X Node, edges' \subseteq Runctl \X Edge,
         workflows \subseteq workflows', nodes \subseteq nodes', edges \subseteq edges',
         workflows' = workflows \/ (made[p] = N /\ workflows' = workflows \cup {p}),
         SavedInv'
  PROVE  IInv'
<1>1. /\ UNCHANGED <<seenNodes, seenEdges, unread, whole>> /\ UNCHANGED <<users, owner, runs>>
      /\ Fault \/ UNCHANGED bounds
  BY DEF Saved
<1>2. /\ made \in [Runctl -> 0..Total] /\ made[p] \in Nat
      /\ made' = [made EXCEPT ![p] = @ + 1]
  BY PlanFacts DEF Saved, IInv, TypeOK
<1>3. made' \in [Runctl -> 0..Total] /\ made'[p] = made[p] + 1 /\ \A w \in Runctl \ {p} : made'[w] = made[w]
  BY <1>2, PlanFacts
<1>4. Keeps
  <2>1. \A w \in Runctl : made[w] <= made'[w]
    <3> SUFFICES ASSUME NEW w \in Runctl PROVE made[w] <= made'[w]
      OBVIOUS
    <3>1. made[w] \in Nat
      BY <1>2, PlanFacts
    <3> QED BY <1>2, <1>3, <3>1
  <2>2. \A w \in Runctl : made[w] > N /\ w \in workflows' => w \in workflows
    BY <1>2, PlanFacts
  <2> QED BY <1>3, <2>1, <2>2 DEF Keeps
<1>5. /\ pc' \in [Process -> PC] /\ workflow' \in [Process -> Runctl \cup {None}]
      /\ \A q \in Process \ {p} : pc'[q] = pc[q] /\ workflow'[q] = workflow[q]
      /\ pc'[p] \in {"bootstrap", "failed"} \/ (pc'[p] = "start" /\ workflow'[p] = p /\ made'[p] = Total)
  <2>1. CASE made[p] + 1 = Total /\ Goto(p, "start") /\ workflow' = [workflow EXCEPT ![p] = p]
    <3>1. pc' = [pc EXCEPT ![p] = "start"] /\ workflow' = [workflow EXCEPT ![p] = p]
      BY <2>1 DEF Goto
    <3>2. p \in Process /\ "start" \in PC /\ pc \in [Process -> PC]
          /\ workflow \in [Process -> Runctl \cup {None}]
      BY PlanFacts DEF IInv, TypeOK, PC
    <3>3. made'[p] = Total
      BY <1>3, <2>1
    <3> QED BY <3>1, <3>2, <3>3
  <2>2. CASE UNCHANGED <<pc, workflow>>
    BY <2>2 DEF At, IInv, TypeOK, PC
  <2>3. CASE Goto(p, "failed") /\ UNCHANGED workflow
    BY <2>3, PlanFacts DEF Goto, IInv, TypeOK, PC
  <2> QED BY <2>1, <2>2, <2>3 DEF Saved
<1>6. TypeOK'
  <2>1. faults' \in 0..MaxFaults /\ deletes' \in 0..MaxDeletes
    BY <1>1, FaultType DEF IInv
  <2>2. users' = users /\ owner' = owner /\ runs' = runs
    BY <1>1
  <2>3. seenNodes' = seenNodes /\ seenEdges' = seenEdges /\ unread' = unread /\ whole' = whole
    BY <1>1
  <2> QED BY <1>3, <1>5, <2>1, <2>2, <2>3 DEF IInv, TypeOK
<1>7. AccountsInv'
  BY <1>1, AccountsKept DEF IInv
<1>8. ASSUME NEW q \in Process PROVE Reads(q)'
  <2>1. CASE q = p
    <3>1. CASE pc'[p] \in {"bootstrap", "failed"}
      BY <2>1, <3>1 DEF Reads, At, Reading
    <3>2. CASE pc'[p] = "start" /\ workflow'[p] = p /\ made'[p] = Total
      <4>1. made'[p] > N
        BY <3>2, PlanFacts
      <4> QED BY <2>1, <3>2, <4>1 DEF Reads, At, Reading
    <3> QED BY <1>5, <3>1, <3>2
  <2>2. CASE q # p
    <3>1. seenNodes' = seenNodes /\ seenEdges' = seenEdges /\ whole' = whole
      BY <1>1
    <3>2. q \in Runctl => made'[q] = made[q]
      BY <1>3, <2>2
    <3> QED BY <1>4, <1>5, <2>2, <3>1, <3>2, ReadsKept DEF IInv
  <2> QED BY <2>1, <2>2
<1> QED BY <1>6, <1>7, <1>8 DEF IInv

(* One that fails ends runctl and leaves what was saved.                    *)
LEMMA ExitStep ==
  ASSUME IInv, NEW p \in Runctl, Exit(p), Fault \/ UNCHANGED bounds, UNCHANGED tables, UNCHANGED owner
  PROVE  IInv'
<1>1. UNCHANGED <<users, templates, workflows, nodes, edges, runs>> /\ UNCHANGED <<made, graph>>
  BY DEF Exit, tables
<1>2. AccountsInv'
  BY <1>1, AccountsKept DEF IInv
<1>3. users' \subseteq [email : Email, by : Runctl] /\ owner' \in [Runctl -> Runctl \cup {None}]
  BY <1>1 DEF IInv, TypeOK
<1>4. \E s \in {"signup", "bootstrap", "failed"} : Goto(p, s)
  BY DEF Exit
<1> QED BY <1>1, <1>2, <1>3, <1>4, ResolveInv

LEMMA CreateTemplateInv == ASSUME IInv, NEW p \in Runctl, CreateTemplate(p) PROVE IInv'
<1>1. UNCHANGED <<users, workflows, nodes, edges, runs, owner>> /\ made[p] \in Nat
  BY PlanFacts DEF CreateTemplate, IInv, TypeOK
<1>2. At(p, "bootstrap") /\ made[p] + 1 \in 1..N
  BY DEF CreateTemplate, Saving
<1>3. CASE templates' = templates \cup {<<p, made[p] + 1>>} /\ Saved(p)
  <2>1. templates' \subseteq Runctl \X Node
    BY <1>2, <1>3 DEF IInv, TypeOK, Node
  <2>2. made[p] < Total
    BY <1>1, <1>2, PlanFacts
  <2>3. p \notin workflows
    BY <1>1, <1>2, PlanFacts DEF IInv, SavedInv
  <2>4. made' = [made EXCEPT ![p] = @ + 1] /\ made \in [Runctl -> 0..Total]
    BY <1>3 DEF Saved, IInv, TypeOK
  <2>5. \A w \in workflows : made'[w] = made[w]
    BY <2>3, <2>4 DEF IInv, TypeOK
  <2>6. SavedInv'
    BY <1>1, <2>5 DEF IInv, SavedInv
  <2>7. workflows' = workflows /\ nodes' = nodes /\ edges' = edges
    BY <1>1
  <2> QED BY <1>1, <1>2, <1>3, <2>1, <2>2, <2>6, <2>7, SavedStep DEF IInv, TypeOK
<1>4. CASE Errs(FALSE) /\ Exit(p) /\ UNCHANGED templates
  BY <1>1, <1>4, ExitStep DEF Errs, tables
<1> QED BY <1>3, <1>4 DEF CreateTemplate

LEMMA CreateWorkflowInv == ASSUME IInv, NEW p \in Runctl, CreateWorkflow(p) PROVE IInv'
<1>1. UNCHANGED <<users, templates, nodes, edges, runs, owner>> /\ made[p] \in Nat
  BY PlanFacts DEF CreateWorkflow, IInv, TypeOK
<1>2. At(p, "bootstrap") /\ made[p] = N
  BY <1>1, PlanFacts DEF CreateWorkflow, Saving
<1>3. CASE workflows' = workflows \cup {p} /\ Saved(p)
  <2>1. made[p] < Total
    BY <1>2, PlanFacts
  <2>2. made' = [made EXCEPT ![p] = @ + 1] /\ made \in [Runctl -> 0..Total]
    BY <1>3 DEF Saved, IInv, TypeOK
  <2>3. p \notin workflows
    BY <1>2, PlanFacts DEF IInv, SavedInv
  <2>4. made'[p] = N + 1 /\ \A w \in workflows : made'[w] = made[w]
    BY <1>2, <2>2, <2>3 DEF IInv, TypeOK
  <2>5. SavedInv'
    <3> SUFFICES ASSUME NEW w \in workflows'
                 PROVE  /\ made'[w] > N
                        /\ \A i \in Node : N + 1 + i <= made'[w] => <<w, i>> \in nodes
                        /\ \A k \in Edge : 2 * N + 1 + k <= made'[w] => <<w, k>> \in edges
      BY <1>1 DEF SavedInv
    <3>1. CASE w = p
      BY <2>4, <3>1, PlanFacts DEF Node
    <3>2. CASE w \in workflows
      BY <2>4, <3>2 DEF IInv, SavedInv
    <3> QED BY <1>3, <3>1, <3>2
  <2>6. workflows' \subseteq Runctl /\ templates' = templates /\ nodes' = nodes /\ edges' = edges
    BY <1>1, <1>3 DEF IInv, TypeOK
  <2> QED BY <1>1, <1>2, <1>3, <2>1, <2>5, <2>6, SavedStep DEF IInv, TypeOK
<1>4. CASE Errs(FALSE) /\ Exit(p) /\ UNCHANGED workflows
  BY <1>1, <1>4, ExitStep DEF Errs, tables
<1> QED BY <1>3, <1>4 DEF CreateWorkflow

LEMMA CreateNodeInv == ASSUME IInv, NEW p \in Runctl, CreateNode(p) PROVE IInv'
<1> DEFINE i == made[p] - N
<1>1. UNCHANGED <<users, templates, workflows, edges, runs, owner>> /\ made[p] \in Nat
  BY PlanFacts DEF CreateNode, IInv, TypeOK
<1>2. At(p, "bootstrap") /\ made[p] + 1 \in (N + 2)..(2 * N + 1)
  BY DEF CreateNode, Saving
<1>3. CASE nodes' = nodes \cup {<<p, i>>} /\ Saved(p)
  <2>1. i \in Node /\ made[p] < Total
    BY <1>1, <1>2, PlanFacts DEF Node, Total
  <2>2. made' = [made EXCEPT ![p] = @ + 1] /\ made \in [Runctl -> 0..Total]
    BY <1>3 DEF Saved, IInv, TypeOK
  <2>3. nodes' \subseteq Runctl \X Node /\ nodes \subseteq nodes' /\ <<p, i>> \in nodes'
    BY <1>3, <2>1 DEF IInv, TypeOK
  <2>4. SavedInv'
    <3> SUFFICES ASSUME NEW w \in workflows
                 PROVE  /\ made'[w] > N
                        /\ \A j \in Node : N + 1 + j <= made'[w] => <<w, j>> \in nodes'
                        /\ \A k \in Edge : 2 * N + 1 + k <= made'[w] => <<w, k>> \in edges
      BY <1>1 DEF SavedInv
    <3>1. CASE w = p
      <4>1. made'[p] = made[p] + 1
        BY <2>2
      <4>2. \A j \in Node : N + 1 + j <= made[p] + 1 => j = i \/ N + 1 + j <= made[p]
        BY <1>1, PlanFacts DEF Node
      <4>3. \A k \in Edge : ~(2 * N + 1 + k <= made[p] + 1)
        BY <1>1, <1>2, PlanFacts
      <4>4. made[p] + 1 > N
        BY <1>1, <1>2, PlanFacts
      <4>5. \A j \in Node : N + 1 + j <= made[p] => <<p, j>> \in nodes
        BY <3>1 DEF IInv, SavedInv
      <4> HIDE DEF i
      <4> QED BY <2>3, <3>1, <4>1, <4>2, <4>3, <4>4, <4>5
    <3>2. CASE w # p
      <4>1. made'[w] = made[w]
        BY <2>2, <3>2 DEF IInv, TypeOK
      <4> QED BY <2>3, <4>1 DEF IInv, SavedInv
    <3> QED BY <3>1, <3>2
  <2>5. workflows' = workflows /\ templates' = templates /\ edges' = edges
    BY <1>1
  <2> QED BY <1>1, <1>2, <1>3, <2>1, <2>3, <2>4, <2>5, SavedStep DEF IInv, TypeOK
<1>4. CASE (Fault \/ UNCHANGED bounds) /\ Exit(p) /\ UNCHANGED nodes
  BY <1>1, <1>4, ExitStep DEF tables
<1> QED BY <1>3, <1>4 DEF CreateNode, Errs

LEMMA CreateEdgeInv == ASSUME IInv, NEW p \in Runctl, CreateEdge(p) PROVE IInv'
<1> DEFINE k == made[p] - 2 * N
<1>1. UNCHANGED <<users, templates, workflows, nodes, runs, owner>> /\ made[p] \in Nat
  BY PlanFacts DEF CreateEdge, IInv, TypeOK
<1>2. At(p, "bootstrap") /\ made[p] + 1 \in (2 * N + 2)..Total
  BY DEF CreateEdge, Saving
<1>3. CASE edges' = edges \cup {<<p, k>>} /\ Saved(p)
  <2>1. k \in Edge /\ made[p] < Total
    BY <1>1, <1>2, PlanFacts DEF Total
  <2>2. made' = [made EXCEPT ![p] = @ + 1] /\ made \in [Runctl -> 0..Total]
    BY <1>3 DEF Saved, IInv, TypeOK
  <2>3. edges' \subseteq Runctl \X Edge /\ edges \subseteq edges' /\ <<p, k>> \in edges'
    BY <1>3, <2>1 DEF IInv, TypeOK
  <2>4. SavedInv'
    <3> SUFFICES ASSUME NEW w \in workflows
                 PROVE  /\ made'[w] > N
                        /\ \A j \in Node : N + 1 + j <= made'[w] => <<w, j>> \in nodes
                        /\ \A e \in Edge : 2 * N + 1 + e <= made'[w] => <<w, e>> \in edges'
      BY <1>1 DEF SavedInv
    <3>1. CASE w = p
      <4>1. made'[p] = made[p] + 1
        BY <2>2
      <4>2. \A e \in Edge : 2 * N + 1 + e <= made[p] + 1 => e = k \/ 2 * N + 1 + e <= made[p]
        <5> SUFFICES ASSUME NEW e \in Edge, 2 * N + 1 + e <= made[p] + 1
                     PROVE  e = k \/ 2 * N + 1 + e <= made[p]
          OBVIOUS
        <5>1. e \in Nat /\ N \in Nat
          BY PlanFacts
        <5> QED BY <1>1, <5>1
      <4>3. \A j \in Node : N + 1 + j <= made[p]
        BY <1>1, <1>2, PlanFacts DEF Node
      <4>4. made[p] + 1 > N
        BY <1>1, <1>2, PlanFacts
      <4>5. /\ \A j \in Node : <<p, j>> \in nodes
            /\ \A e \in Edge : 2 * N + 1 + e <= made[p] => <<p, e>> \in edges
        BY <3>1, <4>3 DEF IInv, SavedInv
      <4> HIDE DEF k
      <4> QED BY <2>3, <3>1, <4>1, <4>2, <4>4, <4>5
    <3>2. CASE w # p
      <4>1. made'[w] = made[w]
        BY <2>2, <3>2 DEF IInv, TypeOK
      <4> QED BY <2>3, <4>1 DEF IInv, SavedInv
    <3> QED BY <3>1, <3>2
  <2>5. workflows' = workflows /\ templates' = templates /\ nodes' = nodes
    BY <1>1
  <2> QED BY <1>1, <1>2, <1>3, <2>1, <2>3, <2>4, <2>5, SavedStep DEF IInv, TypeOK
<1>4. CASE (Fault \/ UNCHANGED bounds) /\ Exit(p) /\ UNCHANGED edges
  BY <1>1, <1>4, ExitStep DEF tables
<1> QED BY <1>3, <1>4 DEF CreateEdge, Errs

----------------------------------------------------------------------------
(* A statement of NewGraph changes what its own process knows; what is left *)
(* to show is what that process has read.                                   *)
LEMMA ReadStep ==
  ASSUME IInv, NEW p \in Process,
         UNCHANGED <<users, templates, workflows, nodes, edges, owner, made>>, runs' \subseteq Process,
         Fault \/ UNCHANGED bounds,
         pc' \in [Process -> PC], workflow' \in [Process -> Runctl \cup {None}],
         seenNodes' \in [Process -> SUBSET Node], seenEdges' \in [Process -> SUBSET Edge],
         unread' \in [Process -> SUBSET Node], whole' \in [Process -> BOOLEAN],
         \A q \in Process \ {p} :
           /\ pc'[q] = pc[q] /\ workflow'[q] = workflow[q] /\ whole'[q] = whole[q]
           /\ seenNodes'[q] = seenNodes[q] /\ seenEdges'[q] = seenEdges[q],
         Reads(p)'
  PROVE  IInv'
<1>1. /\ users' = users /\ templates' = templates /\ workflows' = workflows
      /\ nodes' = nodes /\ edges' = edges /\ owner' = owner /\ made' = made
  OBVIOUS
<1>2. faults' \in 0..MaxFaults /\ deletes' \in 0..MaxDeletes
  BY FaultType DEF IInv
<1>3. TypeOK'
  BY <1>1, <1>2 DEF IInv, TypeOK
<1>4. AccountsInv'
  BY <1>1, AccountsKept DEF IInv
<1>5. SavedInv' /\ Keeps
  BY <1>1, RowsUntouched DEF IInv
<1>6. ASSUME NEW q \in Process \ {p} PROVE Reads(q)'
  BY <1>1, <1>5, ReadsKept DEF IInv
<1> QED BY <1>3, <1>4, <1>5, <1>6 DEF IInv

LEMMA RefuseInv ==
  ASSUME IInv, NEW p \in Process, Goto(p, "failed"), Fault \/ UNCHANGED bounds,
         UNCHANGED <<tables, owner, made, graph>>
  PROVE  IInv'
<1>1. UNCHANGED <<users, templates, workflows, nodes, edges, owner, made>>
      /\ UNCHANGED <<runs, workflow, seenNodes, seenEdges, unread, whole>>
  BY DEF tables, graph
<1>2. pc' \in [Process -> PC] /\ pc'[p] = "failed" /\ \A q \in Process \ {p} : pc'[q] = pc[q]
  BY DEF Goto, IInv, TypeOK, PC
<1>3. /\ runs' \subseteq Process /\ workflow' \in [Process -> Runctl \cup {None}]
      /\ seenNodes' \in [Process -> SUBSET Node] /\ seenEdges' \in [Process -> SUBSET Edge]
      /\ unread' \in [Process -> SUBSET Node] /\ whole' \in [Process -> BOOLEAN]
  BY <1>1 DEF IInv, TypeOK
<1>4. Reads(p)'
  BY <1>2 DEF Reads, At, Reading
<1> QED BY <1>1, <1>2, <1>3, <1>4, ReadStep

LEMMA RunInv == ASSUME IInv, NEW p \in Process, Run(p) PROVE IInv'
<1>1. UNCHANGED <<users, templates, workflows, nodes, edges, owner, made>>
      /\ UNCHANGED <<runs, seenNodes, seenEdges, unread, whole, bounds>>
  BY DEF Run, tables
<1>2. PICK w \in workflows : workflow' = [workflow EXCEPT ![p] = w]
  BY DEF Run
<1>3. w \in Runctl /\ made[w] > N
  BY DEF IInv, TypeOK, SavedInv
<1>4. /\ pc' \in [Process -> PC] /\ pc'[p] = "start" /\ \A q \in Process \ {p} : pc'[q] = pc[q]
      /\ p \notin Runctl
  BY ProcessAssumption DEF Run, Goto, IInv, TypeOK, PC
<1>5. /\ workflow' \in [Process -> Runctl \cup {None}] /\ workflow'[p] = w
      /\ \A q \in Process \ {p} : workflow'[q] = workflow[q]
  BY <1>2, <1>3 DEF IInv, TypeOK
<1>6. /\ runs' \subseteq Process
      /\ seenNodes' \in [Process -> SUBSET Node] /\ seenEdges' \in [Process -> SUBSET Edge]
      /\ unread' \in [Process -> SUBSET Node] /\ whole' \in [Process -> BOOLEAN]
  BY <1>1 DEF IInv, TypeOK
<1>7. Reads(p)'
  BY <1>1, <1>3, <1>4, <1>5 DEF Reads, At, Reading
<1> QED BY <1>1, <1>4, <1>5, <1>6, <1>7, ReadStep

(* A runctl reads the workflow it saved last: it has all of it, or nothing. *)
LEMMA WholeOwn ==
  ASSUME IInv, NEW p \in Runctl, At(p, "start"), workflow[p] \in workflows
  PROVE  Whole(workflow[p])
<1>1. workflow[p] = p /\ made[p] = Total
  BY PlanFacts DEF IInv, Reads
<1>2. /\ \A i \in Node : N + 1 + i <= Total
      /\ \A k \in Edge : 2 * N + 1 + k <= Total
  BY PlanFacts DEF Node, Total
<1> QED BY <1>1, <1>2 DEF IInv, SavedInv, Whole

LEMMA GetByIDInv == ASSUME IInv, NEW p \in Process, GetByID(p) PROVE IInv'
<1>1. CASE Refuse(p, workflow[p] \notin workflows)
  BY <1>1, RefuseInv DEF Refuse, Errs
<1>2. CASE /\ workflow[p] \in workflows /\ Goto(p, "nodes")
           /\ whole' = [whole EXCEPT ![p] = Whole(workflow[p])]
           /\ UNCHANGED <<tables, owner, made, workflow, seenNodes, seenEdges, unread, bounds>>
  <2>1. UNCHANGED <<users, templates, workflows, nodes, edges, owner, made>>
        /\ UNCHANGED <<runs, workflow, seenNodes, seenEdges, unread, bounds>>
    BY <1>2 DEF tables
  <2>2. pc' \in [Process -> PC] /\ pc'[p] = "nodes" /\ \A q \in Process \ {p} : pc'[q] = pc[q]
    BY <1>2 DEF Goto, IInv, TypeOK, PC
  <2>3. Whole(workflow[p]) \in BOOLEAN
    BY DEF Whole
  <2>4. /\ whole' \in [Process -> BOOLEAN] /\ whole'[p] = Whole(workflow[p])
        /\ \A q \in Process \ {p} : whole'[q] = whole[q]
    BY <1>2, <2>3, Zenon DEF IInv, TypeOK
  <2>5. /\ runs' \subseteq Process /\ workflow' \in [Process -> Runctl \cup {None}]
        /\ seenNodes' \in [Process -> SUBSET Node] /\ seenEdges' \in [Process -> SUBSET Edge]
        /\ unread' \in [Process -> SUBSET Node]
    BY <2>1 DEF IInv, TypeOK
  <2>6. workflow[p] \in Runctl /\ made[workflow[p]] > N
    BY DEF GetByID, IInv, Reads, At
  <2>7. p \in Runctl => whole'[p]
    BY <1>2, <2>4, WholeOwn DEF GetByID
  <2>8. Whole(workflow[p])' <=> Whole(workflow[p])
    BY <2>1 DEF Whole
  <2>9. Reads(p)'
    BY <2>1, <2>2, <2>4, <2>6, <2>7, <2>8 DEF Reads, At, Reading
  <2> QED BY <2>1, <2>2, <2>4, <2>5, <2>9, ReadStep
<1> QED BY <1>1, <1>2 DEF GetByID

LEMMA ListNodesInv == ASSUME IInv, NEW p \in Process, ListNodes(p) PROVE IInv'
<1>1. CASE Refuse(p, FALSE)
  BY <1>1, RefuseInv DEF Refuse, Errs
<1>2. CASE /\ seenNodes' = [seenNodes EXCEPT ![p] = {i \in Node : <<workflow[p], i>> \in nodes}]
           /\ unread' = [unread EXCEPT ![p] = seenNodes'[p]]
           /\ Goto(p, "edges")
           /\ UNCHANGED <<tables, owner, made, workflow, seenEdges, whole, bounds>>
  <2>1. UNCHANGED <<users, templates, workflows, nodes, edges, owner, made>>
        /\ UNCHANGED <<runs, workflow, seenEdges, whole, bounds>>
    BY <1>2 DEF tables
  <2>2. pc' \in [Process -> PC] /\ pc'[p] = "edges" /\ \A q \in Process \ {p} : pc'[q] = pc[q]
    BY <1>2 DEF Goto, IInv, TypeOK, PC
  <2>3. /\ seenNodes' \in [Process -> SUBSET Node] /\ seenNodes'[p] = {i \in Node : <<workflow[p], i>> \in nodes}
        /\ \A q \in Process \ {p} : seenNodes'[q] = seenNodes[q]
    BY <1>2 DEF IInv, TypeOK
  <2>4. unread' \in [Process -> SUBSET Node]
    BY <1>2, <2>3 DEF IInv, TypeOK
  <2>5. /\ runs' \subseteq Process /\ workflow' \in [Process -> Runctl \cup {None}]
        /\ seenEdges' \in [Process -> SUBSET Edge] /\ whole' \in [Process -> BOOLEAN]
    BY <2>1 DEF IInv, TypeOK
  <2>6. Reads(p) /\ pc[p] = "nodes"
    BY DEF ListNodes, IInv, At
  <2>7. Whole(workflow[p])' <=> Whole(workflow[p])
    BY <2>1 DEF Whole
  <2>8. Whole(workflow[p]) => seenNodes'[p] = Node
    BY <2>3 DEF Whole
  <2>9. Reads(p)'
    BY <2>1, <2>2, <2>6, <2>7, <2>8 DEF Reads, At, Reading
  <2> QED BY <2>1, <2>2, <2>3, <2>4, <2>5, <2>9, ReadStep
<1> QED BY <1>1, <1>2 DEF ListNodes

LEMMA ListEdgesInv == ASSUME IInv, NEW p \in Process, ListEdges(p) PROVE IInv'
<1>1. CASE Refuse(p, FALSE)
  BY <1>1, RefuseInv DEF Refuse, Errs
<1>2. CASE /\ seenEdges' = [seenEdges EXCEPT ![p] = {k \in Edge : <<workflow[p], k>> \in edges}]
           /\ Goto(p, "templates")
           /\ UNCHANGED <<tables, owner, made, workflow, seenNodes, unread, whole, bounds>>
  <2>1. UNCHANGED <<users, templates, workflows, nodes, edges, owner, made>>
        /\ UNCHANGED <<runs, workflow, seenNodes, unread, whole, bounds>>
    BY <1>2 DEF tables
  <2>2. pc' \in [Process -> PC] /\ pc'[p] = "templates" /\ \A q \in Process \ {p} : pc'[q] = pc[q]
    BY <1>2 DEF Goto, IInv, TypeOK, PC
  <2>3. /\ seenEdges' \in [Process -> SUBSET Edge] /\ seenEdges'[p] = {k \in Edge : <<workflow[p], k>> \in edges}
        /\ \A q \in Process \ {p} : seenEdges'[q] = seenEdges[q]
    BY <1>2 DEF IInv, TypeOK
  <2>4. /\ runs' \subseteq Process /\ workflow' \in [Process -> Runctl \cup {None}]
        /\ seenNodes' \in [Process -> SUBSET Node] /\ unread' \in [Process -> SUBSET Node]
        /\ whole' \in [Process -> BOOLEAN]
    BY <2>1 DEF IInv, TypeOK
  <2>5. Reads(p) /\ pc[p] = "edges"
    BY DEF ListEdges, IInv, At
  <2>6. Whole(workflow[p])' <=> Whole(workflow[p])
    BY <2>1 DEF Whole
  <2>7. Whole(workflow[p]) => seenEdges'[p] = Edge
    BY <2>3 DEF Whole
  <2>8. Reads(p)'
    BY <2>1, <2>2, <2>5, <2>6, <2>7 DEF Reads, At, Reading
  <2> QED BY <2>1, <2>2, <2>3, <2>4, <2>8, ReadStep
<1> QED BY <1>1, <1>2 DEF ListEdges

LEMMA GetTemplateInv == ASSUME IInv, NEW p \in Process, GetTemplate(p) PROVE IInv'
<1>1. PICK i \in unread[p] :
        \/ /\ unread' = [unread EXCEPT ![p] = @ \ {i}]
           /\ UNCHANGED <<tables, pc, owner, made, workflow, seenNodes, seenEdges, whole, bounds>>
        \/ Refuse(p, <<workflow[p], i>> \notin templates)
  BY DEF GetTemplate
<1>2. CASE Refuse(p, <<workflow[p], i>> \notin templates)
  BY <1>2, RefuseInv DEF Refuse, Errs
<1>3. CASE /\ unread' = [unread EXCEPT ![p] = @ \ {i}]
           /\ UNCHANGED <<tables, pc, owner, made, workflow, seenNodes, seenEdges, whole, bounds>>
  <2>1. UNCHANGED <<users, templates, workflows, nodes, edges, owner, made>>
        /\ UNCHANGED <<runs, pc, workflow, seenNodes, seenEdges, whole, bounds>>
    BY <1>3 DEF tables
  <2>2. unread' \in [Process -> SUBSET Node]
    BY <1>3 DEF IInv, TypeOK
  <2>3. /\ runs' \subseteq Process /\ workflow' \in [Process -> Runctl \cup {None}]
        /\ pc' \in [Process -> PC]
        /\ seenNodes' \in [Process -> SUBSET Node] /\ seenEdges' \in [Process -> SUBSET Edge]
        /\ whole' \in [Process -> BOOLEAN]
    BY <2>1 DEF IInv, TypeOK
  <2>4. SavedInv' /\ Keeps
    BY <2>1, RowsUntouched DEF IInv
  <2>5. Reads(p)'
    BY <2>1, <2>4, ReadsKept DEF IInv
  <2> QED BY <2>1, <2>2, <2>3, <2>5, ReadStep
<1> QED BY <1>1, <1>2, <1>3

LEMMA NewGraphInv == ASSUME IInv, NEW p \in Process, NewGraph(p) PROVE IInv'
<1>1. UNCHANGED <<tables, owner, made, graph, bounds>>
  BY DEF NewGraph
<1>2. CASE Goto(p, "failed")
  BY <1>1, <1>2, RefuseInv
<1>3. CASE Goto(p, "insert")
  <2>1. UNCHANGED <<users, templates, workflows, nodes, edges, owner, made>>
        /\ UNCHANGED <<runs, workflow, seenNodes, seenEdges, unread, whole, bounds>>
    BY <1>1 DEF tables, graph
  <2>2. pc' \in [Process -> PC] /\ pc'[p] = "insert" /\ \A q \in Process \ {p} : pc'[q] = pc[q]
    BY <1>3 DEF Goto, IInv, TypeOK, PC
  <2>3. /\ runs' \subseteq Process /\ workflow' \in [Process -> Runctl \cup {None}]
        /\ seenNodes' \in [Process -> SUBSET Node] /\ seenEdges' \in [Process -> SUBSET Edge]
        /\ unread' \in [Process -> SUBSET Node] /\ whole' \in [Process -> BOOLEAN]
    BY <2>1 DEF IInv, TypeOK
  <2>4. Reads(p) /\ pc[p] = "templates"
    BY DEF NewGraph, IInv, At
  <2>5. Whole(workflow[p])' <=> Whole(workflow[p])
    BY <2>1 DEF Whole
  <2>6. Reads(p)'
    BY <2>1, <2>2, <2>4, <2>5 DEF Reads, At, Reading
  <2> QED BY <2>1, <2>2, <2>3, <2>6, ReadStep
<1> QED BY <1>2, <1>3 DEF NewGraph

(* The foreign key: a run whose workflow is still there has all of it.      *)
LEMMA CreateRunInv == ASSUME IInv, NEW p \in Process, CreateRun(p) PROVE IInv'
<1>1. CASE Refuse(p, workflow[p] \notin workflows)
  BY <1>1, RefuseInv DEF Refuse, Errs
<1>2. CASE /\ workflow[p] \in workflows /\ runs' = runs \cup {p} /\ Goto(p, "running")
           /\ UNCHANGED <<users, templates, workflows, nodes, edges, owner, made, graph, bounds>>
  <2>1. UNCHANGED <<users, templates, workflows, nodes, edges, owner, made>>
        /\ UNCHANGED <<workflow, seenNodes, seenEdges, unread, whole, bounds>>
    BY <1>2 DEF graph
  <2>2. pc' \in [Process -> PC] /\ pc'[p] = "running" /\ \A q \in Process \ {p} : pc'[q] = pc[q]
    BY <1>2 DEF Goto, IInv, TypeOK, PC
  <2>3. /\ runs' \subseteq Process /\ workflow' \in [Process -> Runctl \cup {None}]
        /\ seenNodes' \in [Process -> SUBSET Node] /\ seenEdges' \in [Process -> SUBSET Edge]
        /\ unread' \in [Process -> SUBSET Node] /\ whole' \in [Process -> BOOLEAN]
    BY <1>2, <2>1 DEF IInv, TypeOK
  <2>4. Reads(p) /\ pc[p] = "insert"
    BY DEF CreateRun, IInv, At
  <2>5. whole[p] => seenNodes[p] = Node /\ seenEdges[p] = Edge
    BY <1>2, <2>4 DEF Reads, Reading
  <2>6. p \in Runctl => whole[p]
    BY <2>4 DEF Reads, Reading
  <2>7. Reads(p)'
    BY <2>1, <2>2, <2>5, <2>6 DEF Reads, At, Reading
  <2> QED BY <2>1, <2>2, <2>3, <2>7, ReadStep
<1>3. CASE /\ runs' = runs \cup {p} /\ Fault /\ Goto(p, "failed")
           /\ UNCHANGED <<users, templates, workflows, nodes, edges, owner, made, graph>>
  <2>1. UNCHANGED <<users, templates, workflows, nodes, edges, owner, made>>
        /\ UNCHANGED <<workflow, seenNodes, seenEdges, unread, whole>>
    BY <1>3 DEF graph
  <2>2. pc' \in [Process -> PC] /\ pc'[p] = "failed" /\ \A q \in Process \ {p} : pc'[q] = pc[q]
    BY <1>3 DEF Goto, IInv, TypeOK, PC
  <2>3. /\ runs' \subseteq Process /\ workflow' \in [Process -> Runctl \cup {None}]
        /\ seenNodes' \in [Process -> SUBSET Node] /\ seenEdges' \in [Process -> SUBSET Edge]
        /\ unread' \in [Process -> SUBSET Node] /\ whole' \in [Process -> BOOLEAN]
    BY <1>3, <2>1 DEF IInv, TypeOK
  <2>4. Reads(p)'
    BY <2>2 DEF Reads, At, Reading
  <2> QED BY <1>3, <2>1, <2>2, <2>3, <2>4, ReadStep
<1> QED BY <1>1, <1>2, <1>3 DEF CreateRun

----------------------------------------------------------------------------
(* A deletion takes all of a workflow, or a template nobody refers to.      *)
LEMMA DeleteInv ==
  ASSUME IInv, Deletes, UNCHANGED <<users, pc, owner, made, graph>>,
         templates' \subseteq templates, workflows' \subseteq workflows,
         nodes' \subseteq nodes, edges' \subseteq edges, runs' \subseteq runs,
         \A w \in workflows' :
           /\ \A i \in Node : <<w, i>> \in nodes => <<w, i>> \in nodes'
           /\ \A k \in Edge : <<w, k>> \in edges => <<w, k>> \in edges'
  PROVE  IInv'
<1>1. /\ users' = users /\ pc' = pc /\ owner' = owner /\ made' = made
      /\ workflow' = workflow /\ seenNodes' = seenNodes /\ seenEdges' = seenEdges
      /\ unread' = unread /\ whole' = whole
  BY DEF graph
<1>2. faults' \in 0..MaxFaults /\ deletes' \in 0..MaxDeletes
  BY BoundAssumption DEF Deletes, IInv, TypeOK
<1>3. TypeOK'
  BY <1>1, <1>2 DEF IInv, TypeOK
<1>4. AccountsInv'
  BY <1>1, AccountsKept DEF IInv
<1>5. SavedInv'
  BY <1>1 DEF IInv, SavedInv
<1>6. Keeps
  <2>1. made' \in [Runctl -> 0..Total] /\ \A w \in Runctl : made[w] <= made'[w]
    BY <1>1, PlanFacts DEF IInv, TypeOK
  <2> QED BY <2>1 DEF Keeps
<1>7. ASSUME NEW p \in Process PROVE Reads(p)'
  BY <1>1, <1>6, ReadsKept DEF IInv
<1> QED BY <1>3, <1>4, <1>5, <1>7 DEF IInv

LEMMA DeleteWorkflowInv == ASSUME IInv, NEW w \in Runctl, DeleteWorkflow(w) PROVE IInv'
<1>1. /\ workflows' = workflows \ {w}
      /\ nodes' = {n \in nodes : n[1] # w} /\ edges' = {e \in edges : e[1] # w}
      /\ runs' \subseteq runs
      /\ UNCHANGED <<users, templates, pc, owner, made, graph>>
  BY DEF DeleteWorkflow
<1>2. \A v \in workflows' :
        /\ \A i \in Node : <<v, i>> \in nodes => <<v, i>> \in nodes'
        /\ \A k \in Edge : <<v, k>> \in edges => <<v, k>> \in edges'
  BY <1>1
<1>3. Deletes
  BY DEF DeleteWorkflow
<1> QED BY <1>1, <1>2, <1>3, DeleteInv

LEMMA DeleteTemplateInv == ASSUME IInv, NEW t \in Runctl \X Node, DeleteTemplate(t) PROVE IInv'
<1>1. /\ templates' \subseteq templates /\ Deletes
      /\ UNCHANGED <<users, workflows, nodes, edges, runs, pc, owner, made, graph>>
  BY DEF DeleteTemplate
<1> QED BY <1>1, DeleteInv

LEMMA StepInv == IInv /\ [Next]_vars => IInv'
<1> SUFFICES ASSUME IInv, [Next]_vars PROVE IInv'
  OBVIOUS
<1>1. ASSUME NEW p \in Runctl, GetByEmail(p) \/ CreateUser(p) PROVE IInv'
  BY <1>1, GetByEmailInv, CreateUserInv
<1>2. ASSUME NEW p \in Runctl, CreateTemplate(p) \/ CreateWorkflow(p) \/ CreateNode(p) \/ CreateEdge(p)
      PROVE  IInv'
  BY <1>2, CreateTemplateInv, CreateWorkflowInv, CreateNodeInv, CreateEdgeInv
<1>3. ASSUME NEW p \in Process, Run(p) \/ GetByID(p) \/ ListNodes(p) \/ ListEdges(p)
      PROVE  IInv'
  BY <1>3, RunInv, GetByIDInv, ListNodesInv, ListEdgesInv
<1>4. ASSUME NEW p \in Process, GetTemplate(p) \/ NewGraph(p) \/ CreateRun(p)
      PROVE  IInv'
  BY <1>4, GetTemplateInv, NewGraphInv, CreateRunInv
<1>5. CASE \E w \in Runctl : DeleteWorkflow(w)
  BY <1>5, DeleteWorkflowInv
<1>6. CASE \E t \in Runctl \X Node : DeleteTemplate(t)
  BY <1>6, DeleteTemplateInv
<1>7. CASE UNCHANGED vars
  <2>1. /\ UNCHANGED <<users, templates, workflows, nodes, edges, runs, pc, owner, made>>
        /\ UNCHANGED <<workflow, seenNodes, seenEdges, unread, whole, faults, deletes>>
    BY <1>7 DEF vars, tables, graph, bounds
  <2>2. TypeOK'
    BY <2>1 DEF IInv, TypeOK
  <2>3. AccountsInv'
    BY <2>1, AccountsKept DEF IInv
  <2>4. SavedInv' /\ Keeps
    BY <2>1, RowsUntouched DEF IInv
  <2>5. ASSUME NEW p \in Process PROVE Reads(p)'
    BY <2>1, <2>4, ReadsKept DEF IInv
  <2> QED BY <2>2, <2>3, <2>4, <2>5 DEF IInv
<1> QED BY <1>1, <1>2, <1>3, <1>4, <1>5, <1>6, <1>7 DEF Next

(* The inductive invariant holds in every reachable state, for any number   *)
(* of processes and any workflow runctl saves.                              *)
THEOREM StoreInvariant == Spec => []IInv
BY InitInv, StepInv, PTL DEF Spec

(* A run that gets its row has the whole graph, if the workflow was all     *)
(* there when NewGraph began, or its own runctl saved it.                   *)
THEOREM GraphIsWhole == Spec => []WholeGraph
<1>1. IInv => WholeGraph
  <2> SUFFICES ASSUME IInv, NEW p \in Process, At(p, "running"), whole[p] \/ p \in Runctl
               PROVE  seenNodes[p] = Node /\ seenEdges[p] = Edge
    BY DEF WholeGraph
  <2>1. Reads(p) /\ pc[p] = "running"
    BY DEF IInv, At
  <2> QED BY <2>1 DEF Reads, At
<1> QED BY <1>1, StoreInvariant, PTL

(* Two runctls of one email work for one user.                              *)
THEOREM AccountIsOne == Spec => []OneAccount
<1>1. IInv => OneAccount
  <2> SUFFICES ASSUME IInv, NEW p \in Runctl, NEW q \in Runctl,
                      EmailOf[p] = EmailOf[q], owner[p] # None, owner[q] # None
               PROVE  owner[p] = owner[q]
    BY DEF OneAccount
  <2>1. [email |-> EmailOf[p], by |-> owner[p]] = [email |-> EmailOf[q], by |-> owner[q]]
    BY DEF IInv, AccountsInv
  <2> QED BY <2>1
<1> QED BY <1>1, StoreInvariant, PTL

----------------------------------------------------------------------------
(* Module AgentCatalog.  What it keeps of processes, requests and rows.     *)
ProcessTypes ==
  /\ typeRows \subseteq Type /\ up \subseteq Server
  /\ registry \in [Server -> SUBSET Type] /\ loader \in [Server -> Catalog!Loader]
  /\ snapshots \subseteq SUBSET Type
RequestTypes ==
  /\ requestPc \in [Request -> {"idle", "read", "check", "insert", "update"}]
  /\ param \in [Request -> Catalog!Param] /\ toCheck \in [Request -> SUBSET Type]
TemplateTypes ==
  /\ catalogRows \in [Template -> Catalog!Row]
  /\ \A t \in Template : Catalog!IsRow(t) \/ catalogRows[t] = Catalog!NoRow(catalogRows[t].state)

(* RequestInv, of one request.                                              *)
RequestOK(s, p, k) ==
  /\ s = "check" => \A c \in p.set : p.types[c] \subseteq k
  /\ s \in {"insert", "update"} => \A c \in p.set : p.types[c] \subseteq Catalog!Good
  /\ s \in {"read", "update"} => p.id # Catalog!Unset
  /\ s = "insert" \/ (s = "check" /\ p.id = Catalog!Unset) => p.set = Catalog!Column

LEMMA CatalogParts ==
  /\ Catalog!IInv <=>
       /\ ProcessTypes /\ RequestTypes /\ TemplateTypes
       /\ Catalog!TemplatesTyped /\ Catalog!RegistryIsSnapshot /\ Catalog!RegistryInv /\ Catalog!RequestInv
  /\ Catalog!RequestInv <=> \A q \in Request : RequestOK(requestPc[q], param[q], toCheck[q])
<1>1. Catalog!TypeOK <=> ProcessTypes /\ RequestTypes /\ TemplateTypes
  BY DEF Catalog!TypeOK, ProcessTypes, RequestTypes, TemplateTypes
<1>2. Catalog!RequestInv <=> \A q \in Request : RequestOK(requestPc[q], param[q], toCheck[q])
  BY DEF Catalog!RequestInv, RequestOK
<1> QED
  BY <1>1, <1>2 DEF Catalog!IInv

(* Steps that touch neither the table nor a registry.                       *)
LEMMA StillKeeps ==
  ASSUME ProcessTypes, Catalog!RegistryInv, Catalog!RegistryIsSnapshot, Catalog!Still
  PROVE  ProcessTypes' /\ Catalog!RegistryInv' /\ Catalog!RegistryIsSnapshot' /\ Catalog!Good' = Catalog!Good
<1>1. /\ typeRows' = typeRows /\ up' = up /\ registry' = registry /\ loader' = loader
      /\ snapshots' = snapshots
  BY DEF Catalog!Still, Catalog!process
<1>2. Catalog!Good' = Catalog!Good
  BY <1>1 DEF Catalog!Good
<1> QED
  BY <1>1, <1>2 DEF ProcessTypes, Catalog!RegistryInv, Catalog!RegistryIsSnapshot

(* Steps that leave the rows alone.                                         *)
LEMMA RowsKept ==
  ASSUME TemplateTypes, Catalog!TemplatesTyped, UNCHANGED catalogRows, Catalog!Good \subseteq Catalog!Good'
  PROVE  TemplateTypes' /\ Catalog!TemplatesTyped'
<1>1. \A t : (Catalog!IsRow(t)' <=> Catalog!IsRow(t)) /\ Catalog!TypesOf(t)' = Catalog!TypesOf(t)
  BY DEF Catalog!IsRow, Catalog!TypesOf
<1> QED
  BY <1>1 DEF TemplateTypes, Catalog!TemplatesTyped, Catalog!Good

(* One row changes, to one whose types are good, or that is gone.           *)
LEMMA RowPut ==
  ASSUME TemplateTypes, Catalog!TemplatesTyped, Catalog!Good' = Catalog!Good, NEW t \in Template, NEW row \in Catalog!Row,
         catalogRows' = [catalogRows EXCEPT ![t] = row],
         IF row.state = "live" THEN Catalog!Named(row.types) \subseteq Catalog!Good ELSE row = Catalog!NoRow(row.state)
  PROVE  TemplateTypes' /\ Catalog!TemplatesTyped'
<1>1. catalogRows \in [Template -> Catalog!Row]
  BY DEF TemplateTypes
<1>2. catalogRows'[t] = row /\ \A u \in Template \ {t} : catalogRows'[u] = catalogRows[u]
  BY <1>1
<1>3. catalogRows' \in [Template -> Catalog!Row]
  BY <1>1
<1>4. ASSUME NEW u \in Template
      PROVE  /\ catalogRows'[u].state = "live" \/ catalogRows'[u] = Catalog!NoRow(catalogRows'[u].state)
             /\ catalogRows'[u].state = "live" => Catalog!Named(catalogRows'[u].types) \subseteq Catalog!Good
  <2>1. CASE u = t
    BY <1>2, <2>1
  <2>2. CASE u # t
    BY <1>2, <2>2 DEF TemplateTypes, Catalog!TemplatesTyped, Catalog!IsRow, Catalog!TypesOf, Catalog!Good
  <2> QED
    BY <2>1, <2>2
<1>5. TemplateTypes'
  BY <1>3, <1>4 DEF TemplateTypes, Catalog!IsRow, Catalog!NoRow
<1>6. Catalog!TemplatesTyped'
  BY <1>4 DEF Catalog!TemplatesTyped, Catalog!IsRow, Catalog!TypesOf, Catalog!Good, Catalog!Named
<1> QED
  BY <1>5, <1>6

(* One request goes on, the others stay as they are.                        *)
LEMMA RequestGoes ==
  ASSUME RequestTypes, Catalog!RequestInv, Catalog!Good' = Catalog!Good, NEW q \in Request,
         NEW s \in {"idle", "read", "check", "insert", "update"}, NEW p \in Catalog!Param, NEW k \in SUBSET Type,
         RequestOK(s, p, k),
         requestPc' = [requestPc EXCEPT ![q] = s], param' = [param EXCEPT ![q] = p],
         toCheck' = [toCheck EXCEPT ![q] = k]
  PROVE  RequestTypes' /\ Catalog!RequestInv'
<1>1. RequestTypes'
  BY DEF RequestTypes
<1>2. /\ requestPc'[q] = s /\ param'[q] = p /\ toCheck'[q] = k
      /\ \A r \in Request \ {q} : /\ requestPc'[r] = requestPc[r] /\ param'[r] = param[r]
                                  /\ toCheck'[r] = toCheck[r]
  BY DEF RequestTypes
<1>3. ASSUME NEW r \in Request PROVE RequestOK(requestPc'[r], param'[r], toCheck'[r])
  <2>1. CASE r = q
    BY <1>2, <2>1
  <2>2. CASE r # q
    BY <1>2, <2>2, CatalogParts
  <2> QED
    BY <2>1, <2>2
<1>4. Catalog!RequestInv'
  BY <1>3 DEF Catalog!RequestInv, RequestOK
<1> QED
  BY <1>1, <1>4

(* A request that ends.                                                     *)
LEMMA RequestEnds ==
  ASSUME RequestTypes, Catalog!RequestInv, Catalog!Good' = Catalog!Good, NEW q \in Request, Catalog!Done(q)
  PROVE  RequestTypes' /\ Catalog!RequestInv'
<1>1. Catalog!NoParam \in Catalog!Param
  BY DEF Catalog!NoParam, Catalog!Param, Catalog!NoTypes
<1>2. RequestOK("idle", Catalog!NoParam, {})
  BY DEF RequestOK
<1> QED
  BY <1>1, <1>2, RequestGoes DEF Catalog!Done, Catalog!Goto

(* No request moves.                                                        *)
LEMMA RequestsKept ==
  ASSUME RequestTypes, Catalog!RequestInv, UNCHANGED Catalog!request, Catalog!Good \subseteq Catalog!Good'
  PROVE  RequestTypes' /\ Catalog!RequestInv'
<1>1. requestPc' = requestPc /\ param' = param /\ toCheck' = toCheck
  BY DEF Catalog!request
<1>2. RequestTypes'
  BY <1>1 DEF RequestTypes
<1>3. Catalog!RequestInv'
  BY <1>1 DEF Catalog!RequestInv
<1> QED
  BY <1>2, <1>3

(* The types of a request, and what an update makes of a row.               *)
LEMMA TypesTyped ==
  ASSUME NEW types \in Catalog!Types
  PROVE  types \in [Catalog!Column -> SUBSET Type] /\ Catalog!Named(types) \subseteq Type
         /\ \A c \in Catalog!Column : types[c] \subseteq Catalog!Named(types)
BY CatalogAssumption DEF Catalog!Types, Catalog!Named, Catalog!TypeAssumption

LEMMA MergedTyped ==
  ASSUME RequestTypes, TemplateTypes, NEW q \in Request, param[q].id \in Template
  PROVE  /\ Catalog!Merged(q) \in [Catalog!Column -> SUBSET Type] /\ Catalog!Named(Catalog!Merged(q)) \in SUBSET Type
         /\ \A c \in param[q].set : param[q].types[c] \subseteq Catalog!Named(Catalog!Merged(q))
<1>1. param[q] \in Catalog!Param /\ catalogRows[param[q].id] \in Catalog!Row
  BY DEF RequestTypes, TemplateTypes
<1>2. Catalog!Merged(q) \in [Catalog!Column -> SUBSET Type]
  BY <1>1 DEF Catalog!Merged, Catalog!Param, Catalog!Row
<1>3. Catalog!Named(Catalog!Merged(q)) \in SUBSET Type
  BY <1>2 DEF Catalog!Named
<1>4. \A c \in param[q].set : param[q].types[c] = Catalog!Merged(q)[c] /\ c \in Catalog!Column
  BY <1>1 DEF Catalog!Merged, Catalog!Param
<1>5. \A c \in param[q].set : param[q].types[c] \subseteq Catalog!Named(Catalog!Merged(q))
  BY <1>4 DEF Catalog!Named
<1> QED
  BY <1>2, <1>3, <1>5

(* Migrations, and the processes that load the table.                       *)
LEMMA MigrateInv == ASSUME Catalog!IInv, Catalog!Migrate PROVE Catalog!IInv'
<1>1. PICK t \in Type \ typeRows : typeRows' = typeRows \cup {t}
  BY DEF Catalog!Migrate
<1>2. /\ snapshots' = snapshots \cup {typeRows'} /\ up' = up /\ registry' = registry
      /\ loader' = loader /\ catalogRows' = catalogRows /\ UNCHANGED Catalog!request
  BY DEF Catalog!Migrate, Catalog!process
<1>3. Catalog!Good \subseteq Catalog!Good'
  BY <1>1 DEF Catalog!Good
<1>4. ProcessTypes' /\ Catalog!RegistryIsSnapshot'
  BY <1>1, <1>2, CatalogParts DEF ProcessTypes, Catalog!RegistryIsSnapshot
<1>5. Catalog!RegistryInv'
  BY <1>1, <1>2, <1>3, CatalogParts DEF Catalog!RegistryInv
<1>6. TemplateTypes' /\ Catalog!TemplatesTyped'
  BY <1>2, <1>3, RowsKept, CatalogParts
<1>7. RequestTypes' /\ Catalog!RequestInv'
  BY <1>2, <1>3, RequestsKept, CatalogParts
<1> QED
  BY <1>4, <1>5, <1>6, <1>7 DEF Catalog!IInv, Catalog!TypeOK, ProcessTypes, RequestTypes, TemplateTypes

(* The parts of a later state.                                              *)
LEMMA PartsLater ==
  ASSUME ProcessTypes', RequestTypes', TemplateTypes', Catalog!TemplatesTyped', Catalog!RegistryIsSnapshot',
         Catalog!RegistryInv', Catalog!RequestInv'
  PROVE  Catalog!IInv'
BY DEF Catalog!IInv, Catalog!TypeOK, ProcessTypes, RequestTypes, TemplateTypes

LEMMA LoaderInv ==
  ASSUME Catalog!IInv, NEW s \in Server, Catalog!Reload(s) \/ Catalog!Compile(s)
  PROVE  Catalog!IInv'
<1>1. /\ ProcessTypes /\ RequestTypes /\ TemplateTypes /\ Catalog!TemplatesTyped
      /\ Catalog!RegistryIsSnapshot /\ Catalog!RegistryInv /\ Catalog!RequestInv
  BY CatalogParts
<1>2. /\ typeRows' = typeRows /\ catalogRows' = catalogRows /\ UNCHANGED Catalog!request
      /\ snapshots' = snapshots /\ Catalog!Good' = Catalog!Good
  BY DEF Catalog!Reload, Catalog!Compile, Catalog!Good
<1>3. /\ TemplateTypes' /\ Catalog!TemplatesTyped' /\ RequestTypes' /\ Catalog!RequestInv'
  BY <1>1, <1>2, RowsKept, RequestsKept
<1>4. registry \in [Server -> SUBSET Type] /\ loader \in [Server -> Catalog!Loader]
  BY <1>1 DEF ProcessTypes
<1>5. CASE Catalog!Reload(s)
  <2>1. /\ up' = up /\ registry' = registry
        /\ loader' = [loader EXCEPT ![s] = [at |-> "compile", rows |-> typeRows]]
    BY <1>5 DEF Catalog!Reload
  <2>2. [at |-> "compile", rows |-> typeRows] \in Catalog!Loader
    BY <1>1 DEF ProcessTypes, Catalog!Loader
  <2>3. ProcessTypes' /\ Catalog!RegistryIsSnapshot'
    BY <1>1, <1>2, <2>1, <2>2 DEF ProcessTypes, Catalog!RegistryIsSnapshot
  <2>4. \A r \in Server : loader'[r].at = "compile" => loader'[r].rows \in snapshots
    BY <1>1, <1>4, <2>1 DEF Catalog!RegistryInv
  <2>5. Catalog!RegistryInv'
    BY <1>1, <1>2, <2>1, <2>4 DEF Catalog!RegistryInv
  <2> QED
    BY <1>3, <2>3, <2>5, PartsLater
<1>6. CASE Catalog!Compile(s)
  <2>1. loader[s].at = "compile" /\ loader' = [loader EXCEPT ![s] = [at |-> "idle", rows |-> {}]]
    BY <1>6 DEF Catalog!Compile
  <2>2. [at |-> "idle", rows |-> {}] \in Catalog!Loader
    BY DEF Catalog!Loader
  <2>3. \A r \in Server : loader'[r].at = "compile" => loader'[r].rows \in snapshots
    BY <1>1, <1>4, <2>1 DEF Catalog!RegistryInv
  <2>4. loader[s].rows \in snapshots /\ loader[s].rows \subseteq typeRows /\ loader[s].rows \subseteq Type
    BY <1>1, <2>1 DEF Catalog!RegistryInv, ProcessTypes
  <2>5. CASE UNCHANGED <<registry, up>>
    <3>1. ProcessTypes' /\ Catalog!RegistryIsSnapshot'
      BY <1>1, <1>2, <2>1, <2>2, <2>5 DEF ProcessTypes, Catalog!RegistryIsSnapshot
    <3>2. Catalog!RegistryInv'
      BY <1>1, <1>2, <2>3, <2>5 DEF Catalog!RegistryInv
    <3> QED
      BY <1>3, <3>1, <3>2, PartsLater
  <2>6. CASE /\ loader[s].rows \cap Broken = {}
             /\ registry' = [registry EXCEPT ![s] = loader[s].rows] /\ up' = up \cup {s}
    <3>1. ProcessTypes'
      BY <1>1, <1>2, <2>1, <2>2, <2>4, <2>6 DEF ProcessTypes
    <3>2. \A r \in up' : registry'[r] \in snapshots
      BY <1>1, <1>4, <2>4, <2>6 DEF Catalog!RegistryIsSnapshot, ProcessTypes
    <3>3. \A r \in Server : registry'[r] \subseteq Catalog!Good
      BY <1>1, <1>4, <2>4, <2>6 DEF Catalog!RegistryInv, Catalog!Good
    <3>4. Catalog!RegistryIsSnapshot'
      BY <1>2, <3>2 DEF Catalog!RegistryIsSnapshot
    <3>5. Catalog!RegistryInv'
      BY <1>1, <1>2, <2>3, <3>3 DEF Catalog!RegistryInv
    <3> QED
      BY <1>3, <3>1, <3>4, <3>5, PartsLater
  <2> QED
    BY <1>6, <2>5, <2>6 DEF Catalog!Compile
<1> QED
  BY <1>5, <1>6

(* The steps of a request that write no row.                                *)
LEMMA CheckingInv ==
  ASSUME Catalog!IInv, NEW q \in Request, Catalog!Create(q) \/ Catalog!Update(q) \/ Catalog!GetByID(q) \/ Catalog!MustExist(q)
  PROVE  Catalog!IInv'
<1>1. /\ ProcessTypes /\ RequestTypes /\ TemplateTypes /\ Catalog!TemplatesTyped
      /\ Catalog!RegistryIsSnapshot /\ Catalog!RegistryInv /\ Catalog!RequestInv /\ RequestOK(requestPc[q], param[q], toCheck[q])
  BY CatalogParts
<1>2. Catalog!Still /\ catalogRows' = catalogRows
  BY DEF Catalog!Create, Catalog!Update, Catalog!GetByID, Catalog!MustExist
<1>3. /\ ProcessTypes' /\ Catalog!RegistryInv' /\ Catalog!RegistryIsSnapshot' /\ Catalog!Good' = Catalog!Good
      /\ TemplateTypes' /\ Catalog!TemplatesTyped'
  <2>1. ProcessTypes' /\ Catalog!RegistryInv' /\ Catalog!RegistryIsSnapshot' /\ Catalog!Good' = Catalog!Good
    BY <1>1, <1>2, StillKeeps
  <2> QED
    BY <1>1, <1>2, <2>1, RowsKept
<1>4. /\ param[q] \in Catalog!Param /\ toCheck[q] \in SUBSET Type
      /\ param = [param EXCEPT ![q] = param[q]] /\ toCheck = [toCheck EXCEPT ![q] = toCheck[q]]
  BY <1>1 DEF RequestTypes
<1>5. CASE Catalog!Create(q)
  <2>1. PICK types \in Catalog!Types :
          /\ param' = [param EXCEPT ![q] = [id |-> Catalog!Unset, set |-> Catalog!Column, types |-> types]]
          /\ toCheck' = [toCheck EXCEPT ![q] = Catalog!Named(types)]
    BY <1>5 DEF Catalog!Create
  <2> DEFINE p == [id |-> Catalog!Unset, set |-> Catalog!Column, types |-> types]
  <2>2. p \in Catalog!Param /\ Catalog!Named(types) \in SUBSET Type
    BY TypesTyped DEF Catalog!Param
  <2>3. RequestOK("check", p, Catalog!Named(types))
    BY TypesTyped DEF RequestOK
  <2>4. requestPc' = [requestPc EXCEPT ![q] = "check"]
    BY <1>5 DEF Catalog!Create, Catalog!Goto
  <2>5. RequestTypes' /\ Catalog!RequestInv'
    BY <1>1, <1>3, <2>1, <2>2, <2>3, <2>4, RequestGoes
  <2> QED
    BY <1>3, <2>5, PartsLater
<1>6. CASE Catalog!Update(q)
  <2>1. PICK t \in Template, set \in SUBSET Catalog!Column, types \in Catalog!Types :
          /\ param' = [param EXCEPT ![q] =
                [id |-> t, set |-> set, types |-> [c \in Catalog!Column |-> IF c \in set THEN types[c] ELSE {}]]]
          /\ requestPc' = [requestPc EXCEPT ![q] = IF set = {} THEN "update" ELSE "read"]
    BY <1>6 DEF Catalog!Update, Catalog!Goto
  <2> DEFINE p == [id |-> t, set |-> set, types |-> [c \in Catalog!Column |-> IF c \in set THEN types[c] ELSE {}]]
             s == IF set = {} THEN "update" ELSE "read"
  <2>2. p \in Catalog!Param
    BY TypesTyped DEF Catalog!Param
  <2>3. t # Catalog!Unset
    BY CatalogAssumption DEF Catalog!TypeAssumption, Catalog!Unset
  <2>4. RequestOK(s, p, toCheck[q]) /\ s \in {"idle", "read", "check", "insert", "update"}
    BY <2>3 DEF RequestOK
  <2>5. toCheck' = [toCheck EXCEPT ![q] = toCheck[q]] /\ requestPc' = [requestPc EXCEPT ![q] = s]
        /\ param' = [param EXCEPT ![q] = p]
    BY <1>4, <1>6, <2>1 DEF Catalog!Update
  <2> HIDE DEF p, s
  <2>6. RequestTypes' /\ Catalog!RequestInv'
    BY <1>1, <1>3, <1>4, <2>2, <2>4, <2>5, RequestGoes
  <2> QED
    BY <1>3, <2>6, PartsLater
<1>7. CASE Catalog!GetByID(q)
  <2>1. CASE Catalog!Done(q)
    BY <1>1, <1>3, <2>1, RequestEnds, PartsLater
  <2>2. CASE /\ toCheck' = [toCheck EXCEPT ![q] = Catalog!Named(Catalog!Merged(q))]
             /\ Catalog!Goto(q, "check") /\ UNCHANGED param
    <3>1. param[q].id \in Template /\ param[q].id # Catalog!Unset
      BY <1>1, <1>4, <1>7 DEF Catalog!GetByID, Catalog!At, RequestOK, Catalog!Param
    <3>2. /\ Catalog!Named(Catalog!Merged(q)) \in SUBSET Type
          /\ \A c \in param[q].set : param[q].types[c] \subseteq Catalog!Named(Catalog!Merged(q))
      BY <1>1, <3>1, MergedTyped
    <3>3. RequestOK("check", param[q], Catalog!Named(Catalog!Merged(q)))
      BY <3>1, <3>2 DEF RequestOK
    <3>4. RequestTypes' /\ Catalog!RequestInv'
      BY <1>1, <1>3, <1>4, <2>2, <3>2, <3>3, RequestGoes DEF Catalog!Goto
    <3> QED
      BY <1>3, <3>4, PartsLater
  <2> QED
    BY <1>7, <2>1, <2>2 DEF Catalog!GetByID
<1>8. CASE Catalog!MustExist(q)
  <2>1. CASE Catalog!Done(q)
    BY <1>1, <1>3, <2>1, RequestEnds, PartsLater
  <2>2. CASE /\ toCheck[q] \subseteq registry[ServedBy[q]]
             /\ Catalog!Goto(q, IF param[q].id = Catalog!Unset THEN "insert" ELSE "update")
             /\ UNCHANGED <<param, toCheck>>
    <3>1. registry[ServedBy[q]] \subseteq Catalog!Good
      BY <1>1, CatalogAssumption DEF Catalog!RegistryInv, Catalog!RequestAssumption
    <3>2. requestPc[q] = "check"
      BY <1>8 DEF Catalog!MustExist, Catalog!At
    <3> DEFINE s == IF param[q].id = Catalog!Unset THEN "insert" ELSE "update"
    <3>3. RequestOK(s, param[q], toCheck[q]) /\ s \in {"idle", "read", "check", "insert", "update"}
      BY <1>1, <2>2, <3>1, <3>2 DEF RequestOK
    <3>4. /\ requestPc' = [requestPc EXCEPT ![q] = s] /\ param' = [param EXCEPT ![q] = param[q]]
          /\ toCheck' = [toCheck EXCEPT ![q] = toCheck[q]]
      BY <1>4, <2>2 DEF Catalog!Goto
    <3> HIDE DEF s
    <3>5. RequestTypes' /\ Catalog!RequestInv'
      BY <1>1, <1>3, <1>4, <3>3, <3>4, RequestGoes
    <3> QED
      BY <1>3, <3>5, PartsLater
  <2> QED
    BY <1>8, <2>1, <2>2 DEF Catalog!MustExist
<1> QED
  BY <1>5, <1>6, <1>7, <1>8

(* The steps that write one: what is inserted or set was checked, a fork    *)
(* copies a row that is good, and a row that is deleted names no type.      *)
LEMMA WritingInv ==
  ASSUME Catalog!IInv, NEW q \in Request,
         Catalog!InsertTemplate(q) \/ Catalog!UpdateTemplate(q) \/ Catalog!Fork(q) \/ Catalog!Delete(q)
  PROVE  Catalog!IInv'
<1>1. /\ ProcessTypes /\ RequestTypes /\ TemplateTypes /\ Catalog!TemplatesTyped
      /\ Catalog!RegistryIsSnapshot /\ Catalog!RegistryInv /\ Catalog!RequestInv /\ RequestOK(requestPc[q], param[q], toCheck[q])
      /\ catalogRows \in [Template -> Catalog!Row] /\ param[q] \in Catalog!Param
  BY CatalogParts DEF TemplateTypes, RequestTypes
<1>2. Catalog!Still
  BY DEF Catalog!InsertTemplate, Catalog!UpdateTemplate, Catalog!Fork, Catalog!Delete
<1>3. /\ ProcessTypes' /\ Catalog!RegistryInv' /\ Catalog!RegistryIsSnapshot' /\ Catalog!Good' = Catalog!Good
  BY <1>1, <1>2, StillKeeps
<1>4. RequestTypes' /\ Catalog!RequestInv'
  <2>1. Catalog!Done(q) \/ UNCHANGED Catalog!request
    BY DEF Catalog!InsertTemplate, Catalog!UpdateTemplate, Catalog!Fork, Catalog!Delete
  <2> QED
    BY <1>1, <1>3, <2>1, RequestEnds, RequestsKept
<1>5. TemplateTypes' /\ Catalog!TemplatesTyped'
  <2>1. CASE UNCHANGED catalogRows
    BY <1>1, <1>3, <2>1, RowsKept
  <2>2. ASSUME Catalog!InsertTemplate(q),
               Catalog!Insert([state |-> "live", types |-> param[q].types, forkedFrom |-> Catalog!Unset])
        PROVE  TemplateTypes' /\ Catalog!TemplatesTyped'
    <3> DEFINE row == [state |-> "live", types |-> param[q].types, forkedFrom |-> Catalog!Unset]
    <3>1. PICK t \in Template : catalogRows' = [catalogRows EXCEPT ![t] = row]
      BY <2>2 DEF Catalog!Insert
    <3>2. row \in Catalog!Row /\ row.state = "live" /\ row.types = param[q].types
      BY <1>1 DEF Catalog!Row, Catalog!Param
    <3>3. \A c \in Catalog!Column : param[q].types[c] \subseteq Catalog!Good
      BY <1>1, <2>2 DEF Catalog!InsertTemplate, Catalog!At, RequestOK
    <3>4. Catalog!Named(row.types) \subseteq Catalog!Good
      BY <3>2, <3>3 DEF Catalog!Named
    <3> HIDE DEF row
    <3> QED
      BY <1>1, <1>3, <3>1, <3>2, <3>4, RowPut
  <2>3. ASSUME Catalog!UpdateTemplate(q), Catalog!IsRow(param[q].id),
               catalogRows' = [catalogRows EXCEPT ![param[q].id].types = Catalog!Merged(q)]
        PROVE  TemplateTypes' /\ Catalog!TemplatesTyped'
    <3>1. param[q].id \in Template /\ requestPc[q] = "update"
      BY <1>1, <2>3 DEF Catalog!UpdateTemplate, Catalog!At, RequestOK, Catalog!Param
    <3> DEFINE t == param[q].id
               row == [catalogRows[t] EXCEPT !.types = Catalog!Merged(q)]
    <3>2. catalogRows' = [catalogRows EXCEPT ![t] = row]
      BY <1>1, <2>3, <3>1
    <3>3. Catalog!Merged(q) \in [Catalog!Column -> SUBSET Type]
      BY <1>1, <3>1, MergedTyped
    <3>4. row \in Catalog!Row /\ row.state = "live" /\ row.types = Catalog!Merged(q)
      BY <1>1, <2>3, <3>1, <3>3 DEF Catalog!Row, Catalog!IsRow
    <3>5. \A c \in Catalog!Column : Catalog!Merged(q)[c] \subseteq Catalog!Good
      <4>1. \A c \in Catalog!Column : catalogRows[t].types[c] \subseteq Catalog!Good
        BY <1>1, <2>3, <3>1 DEF Catalog!TemplatesTyped, Catalog!TypesOf, Catalog!Named, Catalog!Good
      <4> QED
        BY <1>1, <3>1, <4>1 DEF RequestOK, Catalog!Merged
    <3>6. Catalog!Named(row.types) \subseteq Catalog!Good
      BY <3>4, <3>5 DEF Catalog!Named
    <3> HIDE DEF row
    <3> QED
      BY <1>1, <1>3, <3>1, <3>2, <3>4, <3>6, RowPut
  <2>4. CASE Catalog!Fork(q)
    <3>1. PICK source \in Template :
            Catalog!IsRow(source) /\ Catalog!Insert([catalogRows[source] EXCEPT !.forkedFrom = source])
      BY <2>4 DEF Catalog!Fork
    <3> DEFINE row == [catalogRows[source] EXCEPT !.forkedFrom = source]
    <3>2. PICK t \in Template : catalogRows' = [catalogRows EXCEPT ![t] = row]
      BY <3>1 DEF Catalog!Insert
    <3>3. row \in Catalog!Row /\ row.state = "live" /\ row.types = catalogRows[source].types
      BY <1>1, <3>1 DEF Catalog!Row, Catalog!IsRow
    <3>4. Catalog!Named(row.types) \subseteq Catalog!Good
      BY <1>1, <3>1, <3>3 DEF Catalog!TemplatesTyped, Catalog!TypesOf, Catalog!Good
    <3> HIDE DEF row
    <3> QED
      BY <1>1, <1>3, <3>2, <3>3, <3>4, RowPut
  <2>5. CASE Catalog!Delete(q)
    <3>1. PICK t \in Template : catalogRows' = [catalogRows EXCEPT ![t] = Catalog!NoRow("gone")]
      BY <2>5 DEF Catalog!Delete
    <3>2. Catalog!NoRow("gone") \in Catalog!Row /\ Catalog!NoRow("gone").state = "gone"
      BY DEF Catalog!NoRow, Catalog!Row, Catalog!NoTypes
    <3> QED
      BY <1>1, <1>3, <3>1, <3>2, RowPut
  <2> QED
    BY <2>1, <2>2, <2>3, <2>4, <2>5 DEF Catalog!InsertTemplate, Catalog!UpdateTemplate
<1> QED
  BY <1>3, <1>4, <1>5, PartsLater

LEMMA CatalogInit == Catalog!Init => Catalog!IInv
<1> SUFFICES ASSUME Catalog!Init PROVE Catalog!IInv
  OBVIOUS
<1>1. ProcessTypes /\ Catalog!RegistryIsSnapshot
  BY CatalogAssumption DEF Catalog!Init, ProcessTypes, Catalog!RegistryIsSnapshot, Catalog!Loader, Catalog!TypeAssumption
<1>2. Catalog!RegistryInv
  BY DEF Catalog!Init, Catalog!RegistryInv
<1>3. Catalog!NoParam \in Catalog!Param /\ Catalog!NoRow("unborn") \in Catalog!Row
  BY DEF Catalog!NoParam, Catalog!Param, Catalog!NoTypes, Catalog!NoRow, Catalog!Row
<1>4. RequestTypes /\ Catalog!RequestInv
  BY <1>3 DEF Catalog!Init, RequestTypes, Catalog!RequestInv
<1>5. TemplateTypes /\ Catalog!TemplatesTyped
  BY <1>3 DEF Catalog!Init, TemplateTypes, Catalog!TemplatesTyped, Catalog!IsRow, Catalog!NoRow
<1> QED
  BY <1>1, <1>2, <1>4, <1>5, CatalogParts

LEMMA CatalogNext == Catalog!IInv /\ [Catalog!Next]_Catalog!vars => Catalog!IInv'
<1> SUFFICES ASSUME Catalog!IInv, [Catalog!Next]_Catalog!vars PROVE Catalog!IInv'
  OBVIOUS
<1>1. CASE UNCHANGED Catalog!vars
  <2>1. Catalog!Still /\ UNCHANGED catalogRows /\ UNCHANGED Catalog!request
    BY <1>1 DEF Catalog!vars, Catalog!Still
  <2>2. ProcessTypes' /\ Catalog!RegistryInv' /\ Catalog!RegistryIsSnapshot' /\ Catalog!Good' = Catalog!Good
    BY <2>1, StillKeeps, CatalogParts
  <2>3. TemplateTypes' /\ Catalog!TemplatesTyped' /\ RequestTypes' /\ Catalog!RequestInv'
    BY <2>1, <2>2, RowsKept, RequestsKept, CatalogParts
  <2> QED
    BY <2>2, <2>3, PartsLater
<1> QED
  BY <1>1, MigrateInv, LoaderInv, CheckingInv, WritingInv DEF Catalog!Next

(* The inductive invariant of the catalog, for any processes, requests,     *)
(* types and templates.                                                     *)
THEOREM CatalogInvariant == Catalog!Spec => []Catalog!IInv
<1> QED
  BY CatalogInit, CatalogNext, PTL DEF Catalog!Spec

(* No template names a type without a row and a schema that compiles,       *)
(* whichever process wrote it, with whatever registry (agents.go, Create,   *)
(* Update, Fork).                                                           *)
THEOREM TemplatesAreTyped == Catalog!Spec => []TemplatesTyped
<1>1. Catalog!IInv => TemplatesTyped
  BY DEF Catalog!IInv, TemplatesTyped
<1> QED
  BY <1>1, CatalogInvariant, PTL

(* A registry in use is the table as one query saw it, whatever reload      *)
(* failed in between (registry.go, Reload).                                 *)
THEOREM RegistriesAreSnapshots == Catalog!Spec => []RegistryIsSnapshot
<1>1. Catalog!IInv => RegistryIsSnapshot
  BY DEF Catalog!IInv, RegistryIsSnapshot
<1> QED
  BY <1>1, CatalogInvariant, PTL
----------------------------------------------------------------------------
(* Module Subscriptions.  Of the variables of a transaction only its own    *)
(* change; what every other one has read and written stands.                *)
TxTypes ==
  /\ txPc \in [Tx -> {"idle", "update", "delete", "copy", "commit", "done"}]
  /\ list \in [Tx -> Lists]
  /\ deleted \in [Tx -> SUBSET Subs!Slugs] /\ inserted \in [Tx -> SUBSET Subs!Slugs]

LEMMA RowsAreSlugs == \A s \in Lists : Subs!Rows(s) \subseteq Subs!Slugs
<1> SUFFICES ASSUME NEW s \in Lists, NEW m \in Subs!Range(s), m # Empty PROVE m \in Subs!Slugs
  BY DEF Subs!Rows
<1>1. Subs!Range(s) \in {Subs!Range(l) : l \in Lists}
  OBVIOUS
<1>2. m \in UNION {Subs!Range(l) : l \in Lists}
  BY <1>1
<1> QED
  BY <1>2 DEF Subs!Slugs

LEMMA OneWriter ==
  ASSUME Subs!IInv, NEW x \in Tx, Subs!Writing(x)
  PROVE  lock = {x} /\ exists /\ \A y \in Tx \ {x} : ~Subs!Writing(y)
BY DEF Subs!IInv, Subs!LockInv

(* One transaction goes on with the locks it has.                           *)
TxOK(x) ==
  /\ txPc[x] \in {"copy", "commit"} => deleted[x] = subs
  /\ txPc[x] = "commit" => inserted[x] = Subs!Rows(list[x])

LEMMA SubsBegin == ASSUME Subs!IInv, NEW x \in Tx, Subs!Begin(x) PROVE Subs!IInv'
<1>1. /\ UNCHANGED <<exists, targets, subs, lock, deleted, inserted, txFaults>>
      /\ txPc[x] = "idle" /\ txPc' = [txPc EXCEPT ![x] = "update"]
  BY DEF Subs!Begin, Subs!committed, Subs!written, Subs!Goto
<1>2. PICK s \in Lists : list' = [list EXCEPT ![x] = s]
  BY DEF Subs!Begin
<1>3. Subs!TypeOK'
  BY <1>1, <1>2 DEF Subs!IInv, Subs!TypeOK
<1>4. \A y \in Tx : Subs!Writing(y)' <=> Subs!Writing(y)
  BY <1>1 DEF Subs!IInv, Subs!TypeOK, Subs!Writing
<1>5. Subs!LockInv'
  BY <1>1, <1>2, <1>4 DEF Subs!IInv, Subs!TypeOK, Subs!LockInv
<1> QED
  BY <1>1, <1>3, <1>5 DEF Subs!IInv, Subs!InSync

(* A transaction that ends drops its lock and what it wrote.                *)
LEMMA SubsEnd ==
  ASSUME Subs!IInv, NEW x \in Tx, Subs!End(x), txFaults' \in 0..MaxFaults, UNCHANGED exists,
         \/ UNCHANGED <<targets, subs>>
         \/ /\ Subs!Writing(x) /\ targets' \in Lists /\ subs' = Subs!Rows(targets')
  PROVE  Subs!IInv'
<1>1. /\ txPc' = [txPc EXCEPT ![x] = "done"] /\ lock' = lock \ {x} /\ list' = list
      /\ deleted' = [deleted EXCEPT ![x] = {}] /\ inserted' = [inserted EXCEPT ![x] = {}]
  BY DEF Subs!End, Subs!Goto
<1>2. Subs!TypeOK'
  <2>1. subs' \subseteq Subs!Slugs /\ targets' \in Lists
    BY RowsAreSlugs DEF Subs!IInv, Subs!TypeOK
  <2> QED
    BY <1>1, <2>1 DEF Subs!IInv, Subs!TypeOK
<1>3. /\ txPc'[x] = "done"
      /\ \A y \in Tx \ {x} :
           txPc'[y] = txPc[y] /\ deleted'[y] = deleted[y] /\ inserted'[y] = inserted[y]
  BY <1>1 DEF Subs!IInv, Subs!TypeOK
<1>4. \A y \in Tx : Subs!Writing(y)' <=> Subs!Writing(y) /\ y # x
  BY <1>3 DEF Subs!Writing
<1>5. lock' = {y \in Tx : Subs!Writing(y)'}
  BY <1>1, <1>4 DEF Subs!IInv, Subs!LockInv
<1>6. ASSUME NEW y \in Tx, txPc'[y] \in {"copy", "commit"}
      PROVE  deleted'[y] = subs' /\ (txPc'[y] = "commit" => inserted'[y] = Subs!Rows(list'[y]))
  <2>1. y # x /\ Subs!Writing(y)
    BY <1>3, <1>6 DEF Subs!Writing
  <2>2. ~ Subs!Writing(x)
    BY <2>1, OneWriter
  <2> QED
    BY <1>1, <1>3, <1>6, <2>1, <2>2 DEF Subs!IInv, Subs!LockInv
<1>7. Subs!LockInv'
  BY <1>1, <1>5, <1>6 DEF Subs!IInv, Subs!LockInv, Subs!Writing, Subs!Rows
<1>8. Subs!InSync'
  <2>1. CASE UNCHANGED <<targets, subs>>
    BY <2>1 DEF Subs!IInv, Subs!InSync, Subs!Rows
  <2>2. CASE /\ Subs!Writing(x) /\ targets' \in Lists /\ subs' = Subs!Rows(targets')
    <3>1. exists'
      BY <2>2, OneWriter
    <3> QED
      BY <2>2, <3>1 DEF Subs!InSync, Subs!Rows
  <2> QED
    BY <2>1, <2>2
<1> QED
  BY <1>2, <1>7, <1>8 DEF Subs!IInv

(* The statements, and the deletion of the workflow.                        *)
LEMMA SubsUpdate == ASSUME Subs!IInv, NEW x \in Tx, Subs!Update(x) PROVE Subs!IInv'
<1>1. UNCHANGED <<exists, targets, subs, txFaults>> /\ txPc[x] = "update" /\ lock = {}
  BY DEF Subs!Update, Subs!committed
<1>2. CASE Subs!End(x)
  BY <1>1, <1>2, SubsEnd DEF Subs!IInv, Subs!TypeOK
<1>3. CASE exists /\ lock' = {x} /\ Subs!Goto(x, "delete") /\ UNCHANGED <<list, Subs!written>>
  <2>1. /\ txPc' = [txPc EXCEPT ![x] = "delete"] /\ list' = list /\ deleted' = deleted
        /\ inserted' = inserted
    BY <1>3 DEF Subs!Goto, Subs!written
  <2>2. Subs!TypeOK'
    BY <1>1, <1>3, <2>1 DEF Subs!IInv, Subs!TypeOK
  <2>3. \A y \in Tx : ~Subs!Writing(y)
    BY <1>1 DEF Subs!IInv, Subs!LockInv
  <2>4. txPc'[x] = "delete" /\ \A y \in Tx \ {x} : txPc'[y] = txPc[y]
    BY <2>1 DEF Subs!IInv, Subs!TypeOK
  <2>5. \A y \in Tx : Subs!Writing(y)' <=> y = x
    BY <2>3, <2>4 DEF Subs!Writing
  <2>6. Subs!LockInv'
    BY <1>1, <1>3, <2>3, <2>4, <2>5 DEF Subs!LockInv, Subs!Writing
  <2> QED
    BY <1>1, <2>2, <2>6 DEF Subs!IInv, Subs!InSync
<1> QED
  BY <1>2, <1>3 DEF Subs!Update

LEMMA SubsDelete == ASSUME Subs!IInv, NEW x \in Tx, Subs!Delete(x) PROVE Subs!IInv'
<1>1. /\ UNCHANGED <<exists, targets, subs, txFaults, lock, list, inserted>> /\ txPc[x] = "delete"
      /\ txPc' = [txPc EXCEPT ![x] = "copy"] /\ deleted' = [deleted EXCEPT ![x] = subs]
  BY DEF Subs!Delete, Subs!committed, Subs!Goto
<1>2. Subs!TypeOK'
  BY <1>1 DEF Subs!IInv, Subs!TypeOK
<1>3. /\ txPc'[x] = "copy" /\ deleted'[x] = subs
      /\ \A y \in Tx \ {x} : txPc'[y] = txPc[y] /\ deleted'[y] = deleted[y]
  BY <1>1 DEF Subs!IInv, Subs!TypeOK
<1>4. \A y \in Tx : Subs!Writing(y)' <=> Subs!Writing(y)
  BY <1>1, <1>3 DEF Subs!Writing
<1>5. Subs!LockInv'
  BY <1>1, <1>3, <1>4 DEF Subs!IInv, Subs!LockInv, Subs!Rows
<1> QED
  BY <1>1, <1>2, <1>5 DEF Subs!IInv, Subs!InSync

LEMMA SubsCopy == ASSUME Subs!IInv, NEW x \in Tx, Subs!Copy(x) PROVE Subs!IInv'
<1>1. UNCHANGED <<exists, targets, subs, txFaults>> /\ txPc[x] = "copy"
  BY DEF Subs!Copy, Subs!committed
<1>2. CASE Subs!End(x)
  BY <1>1, <1>2, SubsEnd DEF Subs!IInv, Subs!TypeOK
<1>3. CASE /\ inserted' = [inserted EXCEPT ![x] = Subs!Rows(list[x])]
           /\ Subs!Goto(x, "commit") /\ UNCHANGED <<lock, list, deleted>>
  <2>1. txPc' = [txPc EXCEPT ![x] = "commit"]
    BY <1>3 DEF Subs!Goto
  <2>2. Subs!Rows(list[x]) \subseteq Subs!Slugs
    BY RowsAreSlugs DEF Subs!IInv, Subs!TypeOK
  <2>3. Subs!TypeOK'
    BY <1>1, <1>3, <2>1, <2>2 DEF Subs!IInv, Subs!TypeOK
  <2>4. /\ txPc'[x] = "commit" /\ inserted'[x] = Subs!Rows(list[x])
        /\ \A y \in Tx \ {x} : txPc'[y] = txPc[y] /\ inserted'[y] = inserted[y]
    BY <1>3, <2>1 DEF Subs!IInv, Subs!TypeOK
  <2>5. \A y \in Tx : Subs!Writing(y)' <=> Subs!Writing(y)
    BY <1>1, <2>4 DEF Subs!Writing
  <2>6. Subs!LockInv'
    BY <1>1, <1>3, <2>4, <2>5 DEF Subs!IInv, Subs!LockInv, Subs!Rows
  <2> QED
    BY <1>1, <2>3, <2>6 DEF Subs!IInv, Subs!InSync
<1> QED
  BY <1>2, <1>3 DEF Subs!Copy

LEMMA SubsCommit == ASSUME Subs!IInv, NEW x \in Tx, Subs!Commit(x) PROVE Subs!IInv'
<1>1. /\ txPc[x] = "commit" /\ targets' = list[x] /\ subs' = (subs \ deleted[x]) \cup inserted[x]
      /\ UNCHANGED exists /\ Subs!End(x) /\ txFaults' = txFaults
  BY DEF Subs!Commit
<1>2. Subs!Writing(x) /\ deleted[x] = subs /\ inserted[x] = Subs!Rows(list[x]) /\ list[x] \in Lists
  BY <1>1 DEF Subs!IInv, Subs!LockInv, Subs!Writing, Subs!TypeOK
<1>3. subs' = Subs!Rows(targets')
  BY <1>1, <1>2
<1> QED
  BY <1>1, <1>2, <1>3, SubsEnd DEF Subs!IInv, Subs!TypeOK

LEMMA SubsRollback == ASSUME Subs!IInv, NEW x \in Tx, Subs!Rollback(x) PROVE Subs!IInv'
<1>1. UNCHANGED <<exists, targets, subs>> /\ Subs!End(x) /\ txFaults' \in 0..MaxFaults
  BY SubsAssumption DEF Subs!Rollback, Subs!committed, Subs!IInv, Subs!TypeOK, Subs!ListAssumption
<1> QED
  BY <1>1, SubsEnd

LEMMA SubsDeleteWorkflow == ASSUME Subs!IInv, Subs!DeleteWorkflow PROVE Subs!IInv'
<1>1. /\ lock = {} /\ exists' = FALSE /\ subs' = {}
      /\ UNCHANGED <<targets, lock, txPc, list, deleted, inserted, txFaults>>
  BY DEF Subs!DeleteWorkflow, Subs!written
<1>2. \A y \in Tx : ~Subs!Writing(y) /\ ~Subs!Writing(y)'
  BY <1>1 DEF Subs!IInv, Subs!LockInv, Subs!Writing
<1> QED
  BY <1>1, <1>2 DEF Subs!IInv, Subs!TypeOK, Subs!LockInv, Subs!InSync, Subs!Writing

(* The inductive invariant of the subscriptions, for any transactions,      *)
(* lists and failures.                                                      *)
THEOREM SubsInvariant == Subs!Spec => []Subs!IInv
<1>1. Subs!Init => Subs!IInv
  <2> SUFFICES ASSUME Subs!Init PROVE Subs!IInv
    OBVIOUS
  <2>1. (CHOOSE s \in Lists : TRUE) \in Lists
    BY DEF Subs!Init
  <2>2. Subs!TypeOK
    BY <2>1, RowsAreSlugs, SubsAssumption DEF Subs!Init, Subs!TypeOK, Subs!ListAssumption
  <2> QED
    BY <2>2 DEF Subs!Init, Subs!IInv, Subs!LockInv, Subs!InSync, Subs!Writing
<1>2. Subs!IInv /\ [Subs!Next]_Subs!vars => Subs!IInv'
  <2> SUFFICES ASSUME Subs!IInv, [Subs!Next]_Subs!vars PROVE Subs!IInv'
    OBVIOUS
  <2>1. CASE UNCHANGED Subs!vars
    BY <2>1 DEF Subs!vars, Subs!committed, Subs!written, Subs!IInv, Subs!TypeOK, Subs!LockInv, Subs!InSync, Subs!Writing
  <2> QED
    BY <2>1, SubsBegin, SubsUpdate, SubsDelete, SubsCopy, SubsCommit, SubsRollback,
       SubsDeleteWorkflow DEF Subs!Next, Subs!Step
<1> QED
  BY <1>1, <1>2, PTL DEF Subs!Spec

(* Subscriptions and targets never disagree, whatever transactions overlap  *)
(* and wherever they fail (SyncForWorkflow after Update).                   *)
THEOREM SubscriptionsInSync == Subs!Spec => []InSync
<1>1. Subs!IInv => InSync
  BY DEF Subs!IInv, InSync
<1> QED
  BY <1>1, SubsInvariant, PTL
=============================================================================

----------------------------- MODULE LoopEdges -----------------------------
(* Loop-edge detection of engine.NewGraph: the recursive depth-first search *)
(* markLoopEdges, started from every entry node in node_key order, marks an *)
(* edge as a loop edge when it leads to a node still on the DFS stack.  The *)
(* executor's `all` joins wait for every upstream that is NOT behind a loop *)
(* edge, so what this search leaves unmarked decides which nodes can fire.  *)
(*                                                                          *)
(* The recursion is a state machine: one activation of dfs per element of   *)
(* stack, the edges its range loop has still to visit in todo.  A workflow  *)
(* is a sequence of edges, in the order (priority, id) the rows are read;   *)
(* node keys are numbers, so that they have an order.  Parallel edges and   *)
(* self loops are allowed: no constraint of workflow_edges excludes them.   *)
EXTENDS Naturals, Sequences

CONSTANTS Node,    \* the workflow's nodes, by node_key
          Graphs   \* the edge lists the search may be given

ASSUME NodeAssumption   == Node \subseteq Nat
ASSUME GraphsAssumption == Graphs \subseteq Seq([from : Node, to : Node])

VARIABLES graph,   \* the edges of the workflow, fixed for the run
          roots,   \* entry nodes the outer loop has still to look at
          color,   \* white, gray (on the stack) or black (finished)
          stack,   \* activations of dfs, the innermost one last
          todo,    \* todo[n]: edges of n its loop has still to visit
          loop,    \* edges with IsLoop = true
          clock,   \* history: number of nodes finished so far
          fin      \* history: fin[n] is the value of clock when n finished

vars == <<graph, roots, color, stack, todo, loop, clock, fin>>

Edge    == DOMAIN graph
Out(n)  == {e \in Edge : graph[e].from = n}
Entries == {n \in Node : \A e \in Edge : graph[e].to # n}

----------------------------------------------------------------------------
(* NewGraph refuses a workflow without entry nodes before the search runs.  *)
Init == /\ graph \in Graphs
        /\ Entries # {}
        /\ roots = Entries
        /\ color = [n \in Node |-> "white"]
        /\ stack = <<>>
        /\ todo  = [n \in Node |-> Out(n)]
        /\ loop  = {}
        /\ clock = 0
        /\ fin   = [n \in Node |-> 0]

Top == stack[Len(stack)]

(* dfs(n): a call from the outer loop or from a visited edge.               *)
Call(n) == /\ color' = [color EXCEPT ![n] = "gray"]
           /\ stack' = Append(stack, n)

(* One turn of the loop over the sorted entry nodes.                        *)
EnterRoot(n) ==
  /\ stack = <<>>
  /\ n \in roots
  /\ \A m \in roots : n <= m
  /\ roots' = roots \ {n}
  /\ IF color[n] = "white" THEN Call(n) ELSE UNCHANGED <<color, stack>>
  /\ UNCHANGED <<graph, todo, loop, clock, fin>>

(* Mutant of Visit: the gray case is forgotten and no edge is ever marked.  *)
VisitMarkingNone(e) ==
  /\ stack # <<>>
  /\ e \in todo[Top]
  /\ \A d \in todo[Top] : e <= d
  /\ todo' = [todo EXCEPT ![Top] = @ \ {e}]
  /\ IF color[graph[e].to] = "white" THEN Call(graph[e].to)
                                     ELSE UNCHANGED <<color, stack>>
  /\ UNCHANGED <<graph, roots, loop, clock, fin>>

(* Mutant of Visit: every node seen before counts as an ancestor.           *)
VisitMarkingSeen(e) ==
  /\ stack # <<>>
  /\ e \in todo[Top]
  /\ \A d \in todo[Top] : e <= d
  /\ todo' = [todo EXCEPT ![Top] = @ \ {e}]
  /\ loop' = IF color[graph[e].to] # "white" THEN loop \cup {e} ELSE loop
  /\ IF color[graph[e].to] = "white" THEN Call(graph[e].to)
                                     ELSE UNCHANGED <<color, stack>>
  /\ UNCHANGED <<graph, roots, clock, fin>>

(* One turn of the loop over n.Outgoing in the innermost activation.        *)
Visit(e) ==
  /\ stack # <<>>
  /\ e \in todo[Top]
  /\ \A d \in todo[Top] : e <= d
  /\ todo' = [todo EXCEPT ![Top] = @ \ {e}]
  /\ loop' = IF color[graph[e].to] = "gray" THEN loop \cup {e} ELSE loop
  /\ IF color[graph[e].to] = "white" THEN Call(graph[e].to)
                                     ELSE UNCHANGED <<color, stack>>
  /\ UNCHANGED <<graph, roots, clock, fin>>

(* The innermost activation has visited its edges and returns.              *)
Finish ==
  /\ stack # <<>>
  /\ todo[Top] = {}
  /\ color' = [color EXCEPT ![Top] = "black"]
  /\ stack' = SubSeq(stack, 1, Len(stack) - 1)
  /\ clock' = clock + 1
  /\ fin'   = [fin EXCEPT ![Top] = clock + 1]
  /\ UNCHANGED <<graph, roots, todo, loop>>

Next == \/ \E n \in roots : EnterRoot(n)
        \/ \E e \in Edge  : Visit(e)
        \/ Finish

Spec == Init /\ [][Next]_vars

Done == roots = {} /\ stack = <<>>

----------------------------------------------------------------------------
TypeOK ==
  /\ graph \in Graphs
  /\ roots \subseteq Node
  /\ color \in [Node -> {"white", "gray", "black"}]
  /\ stack \in Seq(Node)
  /\ todo  \in [Node -> SUBSET Edge]
  /\ \A n \in Node : todo[n] \subseteq Out(n)
  /\ loop \subseteq Edge
  /\ clock \in Nat
  /\ fin \in [Node -> Nat]

(* The gray nodes are exactly the open activations, each open once.         *)
StackOK ==
  /\ \A i, j \in 1..Len(stack) : stack[i] = stack[j] => i = j
  /\ \A n \in Node : color[n] = "gray" <=> \E i \in 1..Len(stack) : stack[i] = n

(* Every activation was called along an edge of the one below it.           *)
StackIsPath ==
  \A i \in 1..(Len(stack) - 1) :
    \E e \in Edge : graph[e].from = stack[i] /\ graph[e].to = stack[i + 1]

Unvisited ==
  \A n \in Node : /\ color[n] = "white" => todo[n] = Out(n)
                  /\ color[n] = "black" => todo[n] = {}

(* An edge that was visited and not marked leads to a finished node, or to  *)
(* the activation its visit has just called.                                *)
VisitedOK ==
  \A e \in Edge :
    (e \notin loop /\ e \notin todo[graph[e].from]) =>
      \/ color[graph[e].to] = "black"
      \/ \E i \in 1..(Len(stack) - 1) :
           stack[i] = graph[e].from /\ stack[i + 1] = graph[e].to

(* A marked edge leads to a node the search has entered, and so has every   *)
(* turn of the outer loop.                                                  *)
LoopSeen  == \A e \in loop : color[graph[e].to] # "white"
RootsSeen == /\ roots \subseteq Entries
             /\ \A n \in Entries \ roots : color[n] # "white"

(* A node was entered from the outer loop or along an edge that stays       *)
(* unmarked.                                                                *)
Called ==
  \A n \in Node : color[n] # "white" =>
    \/ n \in Entries
    \/ \E e \in Edge \ loop : graph[e].to = n /\ e \notin todo[graph[e].from]

(* Among finished nodes the unmarked edges lead to nodes finished earlier:  *)
(* what markLoopEdges leaves unmarked has no cycle, so that no `all` join   *)
(* waits for its own output.                                                *)
FinishOrder ==
  \A e \in Edge \ loop :
    color[graph[e].from] = "black" =>
      /\ color[graph[e].to] = "black"
      /\ fin[graph[e].to] < fin[graph[e].from]

FinClock == \A n \in Node : fin[n] <= clock

(* The nodes the edges lead to from the entry nodes: the smallest set that  *)
(* contains the entry nodes and the targets of its members' edges.          *)
FollowsEdges(S) == /\ Entries \subseteq S
                   /\ \A e \in Edge : graph[e].from \in S => graph[e].to \in S
Reachable == {n \in Node : \A S \in SUBSET Node : FollowsEdges(S) => n \in S}

(* The search visits nothing that no run could reach.                       *)
SeenReachable == {n \in Node : color[n] # "white"} \subseteq Reachable

(* The inductive invariant of the search: the parts above together.         *)
IInv == TypeOK /\ StackOK /\ StackIsPath /\ Unvisited /\ VisitedOK
          /\ LoopSeen /\ RootsSeen /\ Called /\ FinClock /\ FinishOrder
          /\ SeenReachable

(* What JoinsUnblocked rests on: the search ends with exactly the nodes     *)
(* finished that a run could reach, so no edge a run can propagate along is *)
(* left unclassified.                                                       *)
Reached == Done => {n \in Node : color[n] = "black"} = Reachable

(* An edge is only marked when it closes a cycle: the stack is a path of    *)
(* edges from its target to its source (graph.go:159-161).                  *)
MarkClosesCycle ==
  \A e \in loop' \ loop :
    \E i \in 1..Len(stack) :
      /\ stack[i] = graph[e].to
      /\ stack[Len(stack)] = graph[e].from
      /\ \A j \in i..(Len(stack) - 1) :
           \E d \in Edge : graph[d].from = stack[j] /\ graph[d].to = stack[j + 1]
MarksCloseCycle == [][MarkClosesCycle]_vars

(* NonLoopUpstreamKeys of a node, as NewGraph computes it from the marks.   *)
NonLoopUpstream(n) == {graph[e].from : e \in {d \in Edge \ loop : graph[d].to = n}}
Upstream(n)        == {graph[e].from : e \in {d \in Edge : graph[d].to = n}}

(* The nodes a run can fire when every join is `all` and every edge fires:  *)
(* entry nodes, and nodes that hear from someone once all their non-loop    *)
(* upstreams have fired.                                                    *)
FiresFrom(S) == /\ Entries \subseteq S
                /\ \A n \in Node :
                     (Upstream(n) \cap S # {} /\ NonLoopUpstream(n) \subseteq S) => n \in S
Fireable == {n \in Node : \A S \in SUBSET Node : FiresFrom(S) => n \in S}

(* When every node can be reached, the marks leave no `all` join waiting    *)
(* for ever: each node's non-loop upstreams can all fire before it.         *)
JoinsUnblocked == (Done /\ Reachable = Node) => Fireable = Node

(* graph.go:160-161, 187-189: a marked edge is "exactly a cycle-creating    *)
(* edge", and "multiple disconnected components are handled naturally":     *)
(* after the search no cycle is left without a marked edge.                 *)
EveryCycleMarked ==
  Done => \A S \in SUBSET Node \ {{}} :
            \E n \in S : \A e \in Edge \ loop :
              ~ (graph[e].from = n /\ graph[e].to \in S)
=============================================================================

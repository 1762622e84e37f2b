-------------------------- MODULE LoopEdgesProofs --------------------------
(* Proofs about the loop-edge search, for every workflow: what it leaves    *)
(* unmarked is acyclic, what it marks closes a cycle, and it classifies     *)
(* exactly the edges a run can reach.                                       *)
EXTENDS LoopEdges, SequenceTheorems, NatFacts

(* What appending an activation to the DFS stack does to its elements.      *)
LEMMA PushStack ==
  ASSUME NEW s \in Seq(Node), NEW n \in Node
  PROVE  /\ Append(s, n) \in Seq(Node)
         /\ Len(Append(s, n)) = Len(s) + 1
         /\ \A i \in 1..Len(s) : Append(s, n)[i] = s[i]
         /\ Append(s, n)[Len(s) + 1] = n
  OBVIOUS

(* What the return of the innermost activation does to the DFS stack.       *)
LEMMA PopStack ==
  ASSUME NEW s \in Seq(Node), s # <<>>
  PROVE  /\ Len(s) \in Nat \ {0}
         /\ s[Len(s)] \in Node
         /\ SubSeq(s, 1, Len(s) - 1) \in Seq(Node)
         /\ Len(SubSeq(s, 1, Len(s) - 1)) = Len(s) - 1
         /\ \A i \in 1..(Len(s) - 1) : SubSeq(s, 1, Len(s) - 1)[i] = s[i]
<1>1. Len(s) \in Nat \ {0} /\ s[Len(s)] \in Node
  BY EmptySeq, ElementOfSeq
<1>2. 1 \in Int /\ Len(s) - 1 \in Int /\ \A i \in 1..(Len(s) - 1) : s[i] \in Node
  BY <1>1, ElementOfSeq
<1>3. /\ SubSeq(s, 1, Len(s) - 1) \in Seq(Node)
      /\ Len(SubSeq(s, 1, Len(s) - 1))
           = IF 1 <= Len(s) - 1 THEN (Len(s) - 1) - 1 + 1 ELSE 0
      /\ \A i \in 1..((Len(s) - 1) - 1 + 1) :
           SubSeq(s, 1, Len(s) - 1)[i] = s[1 + i - 1]
  BY <1>2, SubSeqProperties
<1>4. Len(SubSeq(s, 1, Len(s) - 1)) = Len(s) - 1
  <2>1. \A k \in Nat \ {0} : (IF 1 <= k - 1 THEN (k - 1) - 1 + 1 ELSE 0) = k - 1
    OBVIOUS
  <2> QED
    BY <1>1, <1>3, <2>1
<1>5. \A i \in 1..(Len(s) - 1) : SubSeq(s, 1, Len(s) - 1)[i] = s[i]
  <2> SUFFICES ASSUME NEW i \in 1..(Len(s) - 1)
               PROVE  SubSeq(s, 1, Len(s) - 1)[i] = s[i]
    OBVIOUS
  <2>1. i \in 1..((Len(s) - 1) - 1 + 1) /\ 1 + i - 1 = i
    BY <1>1
  <2> QED
    BY <1>3, <2>1
<1> QED
  BY <1>1, <1>3, <1>4, <1>5

(* The edges of an admissible workflow join two of its nodes.               *)
LEMMA EdgeEnds ==
  ASSUME graph \in Graphs
  PROVE  \A e \in Edge : graph[e].from \in Node /\ graph[e].to \in Node
<1>1. graph \in Seq([from : Node, to : Node])
  BY GraphsAssumption
<1>2. \A e \in Edge : graph[e] \in [from : Node, to : Node]
  BY <1>1, LenProperties DEF Edge
<1> QED
  BY <1>2

(* Every step of the search keeps TypeOK.                                   *)
LEMMA TypeStep == TypeOK /\ [Next]_vars => TypeOK'
<1> SUFFICES ASSUME TypeOK, [Next]_vars PROVE TypeOK'
  OBVIOUS
<1>1. ASSUME NEW n \in roots, EnterRoot(n) PROVE TypeOK'
  <2>1. n \in Node
    BY <1>1 DEF TypeOK
  <2>2. stack' \in Seq(Node)
    <3>1. stack' = stack \/ stack' = Append(stack, n)
      BY <1>1 DEF EnterRoot, Call
    <3> QED
      BY <2>1, <3>1, PushStack DEF TypeOK
  <2>3. color' \in [Node -> {"white", "gray", "black"}]
    BY <1>1, <2>1 DEF EnterRoot, Call, TypeOK
  <2> QED
    BY <1>1, <2>2, <2>3 DEF EnterRoot, TypeOK, Edge, Out
<1>2. ASSUME NEW e \in Edge, Visit(e) PROVE TypeOK'
  <2>1. Top \in Node
    BY <1>2, PopStack DEF Visit, TypeOK, Top
  <2>2. stack' \in Seq(Node) /\ color' \in [Node -> {"white", "gray", "black"}]
    BY <1>2, EdgeEnds, PushStack DEF Visit, Call, TypeOK
  <2>3. /\ todo' \in [Node -> SUBSET Edge]
        /\ \A n \in Node : todo'[n] \subseteq Out(n)
    BY <1>2, <2>1 DEF Visit, TypeOK
  <2>4. loop' \subseteq Edge
    BY <1>2 DEF Visit, TypeOK
  <2> QED
    BY <1>2, <2>2, <2>3, <2>4 DEF Visit, TypeOK, Edge, Out
<1>3. CASE Finish
  <2>1. Top \in Node /\ stack' \in Seq(Node)
    BY <1>3, PopStack DEF Finish, TypeOK, Top
  <2>2. clock' \in Nat /\ fin' \in [Node -> Nat]
    BY <1>3, <2>1 DEF Finish, TypeOK
  <2>3. color' \in [Node -> {"white", "gray", "black"}]
    BY <1>3, <2>1 DEF Finish, TypeOK
  <2> QED
    BY <1>3, <2>1, <2>2, <2>3 DEF Finish, TypeOK, Edge, Out
<1>4. CASE UNCHANGED vars
  BY <1>4 DEF vars, TypeOK, Edge, Out
<1> QED
  BY <1>1, <1>2, <1>3, <1>4 DEF Next

(* The search keeps its variables in their types: node colours, a stack of  *)
(* nodes, and per node only edges that leave it.                            *)
THEOREM TypeCorrect == Spec => []TypeOK
<1>1. Init => TypeOK
  <2> SUFFICES ASSUME Init PROVE TypeOK
    OBVIOUS
  <2>1. /\ roots \subseteq Node /\ loop \subseteq Edge
        /\ todo \in [Node -> SUBSET Edge]
        /\ \A n \in Node : todo[n] \subseteq Out(n)
    BY DEF Init, Entries, Out
  <2> QED
    BY <2>1 DEF Init, TypeOK
<1> QED
  BY <1>1, TypeStep, PTL DEF Spec

----------------------------------------------------------------------------
(* The steps leave the workflow alone, and with it what is derived from it. *)
LEMMA GraphFixed ==
  ASSUME [Next]_vars
  PROVE  /\ graph' = graph /\ Edge' = Edge /\ Entries' = Entries
         /\ \A n \in Node : Out(n)' = Out(n)
         /\ Reachable' = Reachable
<1>1. graph' = graph
  BY DEF Next, EnterRoot, Visit, Finish, vars
<1> QED
  BY <1>1 DEF Edge, Entries, Out, Reachable, FollowsEdges

(* A call of dfs for a white node keeps gray and stack in step, and keeps   *)
(* the stack a path when the node is called along an edge.                  *)
LEMMA CallStack ==
  ASSUME TypeOK, StackOK, StackIsPath, graph' = graph,
         NEW n \in Node, color[n] = "white", Call(n),
         stack # <<>> => \E e \in Edge : graph[e].from = Top /\ graph[e].to = n
  PROVE  /\ StackOK' /\ StackIsPath'
         /\ Len(stack) \in Nat
         /\ Len(stack') = Len(stack) + 1
         /\ \A i \in 1..Len(stack) : stack'[i] = stack[i]
         /\ stack'[Len(stack) + 1] = n
         /\ \A m \in Node : color'[m] = IF m = n THEN "gray" ELSE color[m]
<1>1. /\ Len(stack) \in Nat
      /\ Len(stack') = Len(stack) + 1
      /\ \A i \in 1..Len(stack) : stack'[i] = stack[i]
      /\ stack'[Len(stack) + 1] = n
  BY PushStack, LenProperties DEF TypeOK, Call
<1>2. \A m \in Node : color'[m] = IF m = n THEN "gray" ELSE color[m]
  BY DEF Call, TypeOK
<1>3. \A i \in 1..Len(stack) : stack[i] # n
  BY DEF StackOK
<1>4. StackOK'
  <2>1. \A i, j \in 1..Len(stack') : stack'[i] = stack'[j] => i = j
    BY <1>1, <1>3 DEF StackOK
  <2>2. ASSUME NEW m \in Node
        PROVE  color'[m] = "gray" <=> \E i \in 1..Len(stack') : stack'[i] = m
    <3>1. CASE m = n
      <4>1. Len(stack) + 1 \in 1..Len(stack')
        BY <1>1
      <4> QED
        BY <1>1, <1>2, <3>1, <4>1
    <3>2. CASE m # n
      <4>1. color'[m] = "gray" <=> \E i \in 1..Len(stack) : stack[i] = m
        BY <1>2, <3>2 DEF StackOK
      <4>2. (\E i \in 1..Len(stack) : stack[i] = m)
              <=> \E i \in 1..Len(stack') : stack'[i] = m
        BY <1>1, <3>2
      <4> QED
        BY <4>1, <4>2
    <3> QED
      BY <3>1, <3>2
  <2> QED
    BY <2>1, <2>2 DEF StackOK
<1>5. StackIsPath'
  <2> SUFFICES ASSUME NEW i \in 1..(Len(stack') - 1)
               PROVE  \E e \in Edge : graph[e].from = stack'[i] /\ graph[e].to = stack'[i + 1]
    BY DEF StackIsPath, Edge
  <2>1. CASE i = Len(stack)
    <3>1. stack # <<>>
      BY <1>1, <2>1, EmptySeq
    <3> QED
      BY <1>1, <2>1, <3>1 DEF Top
  <2>2. CASE i # Len(stack)
    <3>1. i \in 1..(Len(stack) - 1) /\ i \in 1..Len(stack) /\ i + 1 \in 1..Len(stack)
      BY <1>1, <2>2
    <3> QED
      BY <1>1, <3>1 DEF StackIsPath
  <2> QED
    BY <2>1, <2>2
<1> QED
  BY <1>1, <1>2, <1>4, <1>5

(* The outer loop's turn keeps the invariant: a white entry node becomes    *)
(* the only activation.                                                     *)
LEMMA EnterRootInv ==
  ASSUME IInv, TypeOK', NEW n \in roots, EnterRoot(n)
  PROVE  IInv'
<1> USE DEF IInv
<1>0. [Next]_vars
  BY DEF Next
<1>1. /\ graph' = graph /\ Edge' = Edge /\ Entries' = Entries
      /\ \A m \in Node : Out(m)' = Out(m)
      /\ Reachable' = Reachable
  BY <1>0, GraphFixed
<1>2. /\ stack = <<>> /\ roots' = roots \ {n} /\ n \in Node
      /\ todo' = todo /\ loop' = loop /\ clock' = clock /\ fin' = fin
      /\ roots \subseteq Node
  BY DEF EnterRoot, TypeOK
<1>3. CASE color[n] = "white"
  <2>1. Call(n)
    BY <1>3 DEF EnterRoot
  <2>2. /\ StackOK' /\ StackIsPath'
        /\ \A m \in Node : color'[m] = IF m = n THEN "gray" ELSE color[m]
    BY <1>1, <1>2, <1>3, <2>1, CallStack
  <2>3. Unvisited'
    BY <1>1, <1>2, <2>2 DEF Unvisited
  <2>4. VisitedOK'
    <3>1. Len(stack) = 0
      BY <1>2, EmptySeq
    <3>2. \A e \in Edge : (e \notin loop /\ e \notin todo[graph[e].from])
                            => color[graph[e].to] = "black"
      BY <3>1 DEF VisitedOK
    <3> QED
      BY <1>1, <1>2, <1>3, <2>2, <3>2, EdgeEnds DEF VisitedOK, TypeOK
  <2>5. RootsSeen'
    <3>1. \A m \in Entries : m \in Node
      BY DEF Entries
    <3> QED
      BY <1>1, <1>2, <2>2, <3>1 DEF RootsSeen
  <2>6. FinClock' /\ FinishOrder'
    BY <1>1, <1>2, <1>3, <2>2, EdgeEnds DEF FinClock, FinishOrder, TypeOK
  <2>7. SeenReachable'
    <3>1. n \in Reachable
      BY <1>2 DEF RootsSeen, Reachable, FollowsEdges
    <3> QED
      BY <1>1, <2>2, <3>1 DEF SeenReachable
  <2>8. LoopSeen'
    BY <1>1, <1>2, <2>2, EdgeEnds DEF LoopSeen, TypeOK
  <2>9. Called'
    BY <1>1, <1>2, <2>2 DEF Called, RootsSeen
  <2> QED
    BY <2>2, <2>3, <2>4, <2>5, <2>6, <2>7, <2>8, <2>9
<1>4. CASE color[n] # "white"
  <2>1. color' = color /\ stack' = stack
    BY <1>4 DEF EnterRoot
  <2>2. StackOK' /\ StackIsPath' /\ Unvisited' /\ VisitedOK' /\ SeenReachable'
    BY <1>1, <1>2, <2>1
       DEF StackOK, StackIsPath, Unvisited, VisitedOK, SeenReachable
  <2>3. LoopSeen' /\ RootsSeen' /\ Called' /\ FinClock' /\ FinishOrder'
    BY <1>1, <1>2, <1>4, <2>1 DEF LoopSeen, RootsSeen, Called, FinClock, FinishOrder
  <2> QED
    BY <2>2, <2>3
<1> QED
  BY <1>3, <1>4

(* Visiting an edge keeps the invariant: its target is called, found open   *)
(* (the edge is marked) or found finished.                                  *)
LEMMA VisitInv ==
  ASSUME IInv, TypeOK', NEW e \in Edge, Visit(e)
  PROVE  IInv'
<1> USE DEF IInv
<1> DEFINE v == graph[e].to
<1>0. [Next]_vars
  BY DEF Next
<1>1. /\ graph' = graph /\ Edge' = Edge /\ Entries' = Entries
      /\ \A m \in Node : Out(m)' = Out(m)
      /\ Reachable' = Reachable
  BY <1>0, GraphFixed
<1>2. /\ stack # <<>> /\ roots' = roots /\ clock' = clock /\ fin' = fin
      /\ e \in todo[Top] /\ todo' = [todo EXCEPT ![Top] = @ \ {e}]
      /\ loop' = IF color[v] = "gray" THEN loop \cup {e} ELSE loop
  BY DEF Visit
<1>3. /\ Len(stack) \in Nat \ {0} /\ stack[Len(stack)] = Top
      /\ Top \in Node /\ v \in Node /\ graph[e].from = Top
  BY <1>2, PopStack, EdgeEnds DEF TypeOK, Top, Out
<1>4. color[Top] = "gray"
  BY <1>3 DEF StackOK
<1>5. \A m \in Node : todo'[m] = IF m = Top THEN todo[m] \ {e} ELSE todo[m]
  BY <1>2, <1>3 DEF TypeOK
<1>6. \A d \in Edge \ {e} : d \notin todo'[graph[d].from] => d \notin todo[graph[d].from]
  BY <1>5, EdgeEnds DEF TypeOK
<1>7. CASE color[v] = "white"
  <2>1. Call(v) /\ loop' = loop
    BY <1>2, <1>7 DEF Visit
  <2>2. /\ StackOK' /\ StackIsPath'
        /\ Len(stack') = Len(stack) + 1
        /\ \A i \in 1..Len(stack) : stack'[i] = stack[i]
        /\ stack'[Len(stack) + 1] = v
        /\ \A m \in Node : color'[m] = IF m = v THEN "gray" ELSE color[m]
    BY <1>1, <1>3, <1>7, <2>1, CallStack
  <2>3. Unvisited'
    BY <1>1, <1>4, <1>5, <1>7, <2>2 DEF Unvisited
  <2>4. VisitedOK'
    <3> SUFFICES ASSUME NEW d \in Edge, d \notin loop, d \notin todo'[graph[d].from]
                 PROVE  \/ color'[graph[d].to] = "black"
                        \/ \E i \in 1..(Len(stack') - 1) :
                             stack'[i] = graph[d].from /\ stack'[i + 1] = graph[d].to
      BY <1>1, <2>1 DEF VisitedOK
    <3>1. CASE d = e
      <4>1. Len(stack) \in 1..(Len(stack') - 1)
        BY <1>3, <2>2
      <4>2. stack'[Len(stack)] = graph[d].from /\ stack'[Len(stack) + 1] = graph[d].to
        BY <1>3, <2>2, <3>1
      <4> QED
        BY <4>1, <4>2
    <3>2. CASE d # e
      <4>1. \/ color[graph[d].to] = "black"
            \/ \E i \in 1..(Len(stack) - 1) :
                 stack[i] = graph[d].from /\ stack[i + 1] = graph[d].to
        BY <1>6, <3>2 DEF VisitedOK
      <4>2. CASE color[graph[d].to] = "black"
        BY <1>7, <2>2, <4>2, EdgeEnds DEF TypeOK
      <4>3. ASSUME NEW i \in 1..(Len(stack) - 1),
                   stack[i] = graph[d].from, stack[i + 1] = graph[d].to
            PROVE  \E j \in 1..(Len(stack') - 1) :
                     stack'[j] = graph[d].from /\ stack'[j + 1] = graph[d].to
        <5>1. i \in 1..(Len(stack') - 1) /\ i \in 1..Len(stack) /\ i + 1 \in 1..Len(stack)
          BY <1>3, <2>2
        <5> QED
          BY <2>2, <4>3, <5>1
      <4> QED
        BY <4>1, <4>2, <4>3
    <3> QED
      BY <3>1, <3>2
  <2>5. RootsSeen'
    <3>1. \A m \in Entries : m \in Node
      BY DEF Entries
    <3> QED
      BY <1>1, <1>2, <2>2, <3>1 DEF RootsSeen
  <2>6. FinClock' /\ FinishOrder'
    BY <1>1, <1>2, <1>7, <2>1, <2>2, EdgeEnds DEF FinClock, FinishOrder, TypeOK
  <2>7. SeenReachable'
    <3>1. Top \in Reachable
      BY <1>3, <1>4 DEF SeenReachable
    <3>2. v \in Reachable
      BY <1>3, <3>1 DEF Reachable, FollowsEdges
    <3> QED
      BY <1>1, <2>2, <3>2 DEF SeenReachable
  <2>8. LoopSeen'
    BY <1>1, <2>1, <2>2, EdgeEnds DEF LoopSeen, TypeOK
  <2>9. Called'
    <3> SUFFICES ASSUME NEW m \in Node, color'[m] # "white", m \notin Entries
                 PROVE  \E d \in Edge \ loop :
                          graph[d].to = m /\ d \notin todo'[graph[d].from]
      BY <1>1, <2>1 DEF Called
    <3>1. CASE m = v
      <4>1. e \notin loop
        BY <1>7 DEF LoopSeen
      <4>2. e \notin todo'[graph[e].from]
        BY <1>3, <1>5
      <4> QED
        BY <3>1, <4>1, <4>2
    <3>2. CASE m # v
      <4>1. PICK d \in Edge \ loop : graph[d].to = m /\ d \notin todo[graph[d].from]
        BY <2>2, <3>2 DEF Called
      <4>2. d \notin todo'[graph[d].from]
        BY <1>5, <4>1, EdgeEnds DEF TypeOK
      <4> QED
        BY <4>1, <4>2
    <3> QED
      BY <3>1, <3>2
  <2> QED
    BY <2>2, <2>3, <2>4, <2>5, <2>6, <2>7, <2>8, <2>9
<1>8. CASE color[v] # "white"
  <2>1. color' = color /\ stack' = stack
    BY <1>8 DEF Visit
  <2>2. StackOK' /\ StackIsPath' /\ RootsSeen' /\ FinClock' /\ SeenReachable'
    BY <1>1, <1>2, <2>1 DEF StackOK, StackIsPath, RootsSeen, FinClock, SeenReachable
  <2>3. Unvisited'
    BY <1>1, <1>4, <1>5, <2>1 DEF Unvisited
  <2>4. loop \subseteq loop'
    BY <1>2
  <2>5. FinishOrder'
    BY <1>1, <1>2, <2>1, <2>4 DEF FinishOrder
  <2>6. e \notin loop' => color[v] = "black"
    BY <1>2, <1>3, <1>8 DEF TypeOK
  <2>7. VisitedOK'
    <3> SUFFICES ASSUME NEW d \in Edge, d \notin loop', d \notin todo'[graph[d].from]
                 PROVE  \/ color[graph[d].to] = "black"
                        \/ \E i \in 1..(Len(stack) - 1) :
                             stack[i] = graph[d].from /\ stack[i + 1] = graph[d].to
      BY <1>1, <2>1 DEF VisitedOK
    <3>1. CASE d = e
      BY <2>6, <3>1
    <3>2. CASE d # e
      BY <1>6, <2>4, <3>2 DEF VisitedOK
    <3> QED
      BY <3>1, <3>2
  <2>8. LoopSeen'
    BY <1>1, <1>2, <1>8, <2>1 DEF LoopSeen
  <2>9. Called'
    <3> SUFFICES ASSUME NEW m \in Node, color[m] # "white", m \notin Entries
                 PROVE  \E d \in Edge \ loop' :
                          graph[d].to = m /\ d \notin todo'[graph[d].from]
      BY <1>1, <2>1 DEF Called
    <3>1. PICK d \in Edge \ loop : graph[d].to = m /\ d \notin todo[graph[d].from]
      BY DEF Called
    <3>2. d # e
      BY <1>2, <1>3, <3>1
    <3> QED
      BY <1>2, <1>5, <3>1, <3>2, EdgeEnds DEF TypeOK
  <2> QED
    BY <2>2, <2>3, <2>5, <2>7, <2>8, <2>9
<1> QED
  BY <1>7, <1>8

(* A return keeps the invariant: every unmarked edge of the node that       *)
(* finishes leads to a node that finished before it.                        *)
LEMMA FinishInv ==
  ASSUME IInv, TypeOK', Finish
  PROVE  IInv'
<1> USE DEF IInv
<1>0. [Next]_vars
  BY DEF Next
<1>1. /\ graph' = graph /\ Edge' = Edge /\ Entries' = Entries
      /\ \A m \in Node : Out(m)' = Out(m)
      /\ Reachable' = Reachable
  BY <1>0, GraphFixed
<1>2. /\ stack # <<>> /\ todo[Top] = {} /\ roots' = roots /\ todo' = todo
      /\ loop' = loop /\ clock' = clock + 1 /\ clock \in Nat
  BY DEF Finish, TypeOK
<1>3. /\ Len(stack) \in Nat \ {0} /\ stack[Len(stack)] = Top /\ Top \in Node
      /\ Len(stack') = Len(stack) - 1
      /\ \A i \in 1..(Len(stack) - 1) : stack'[i] = stack[i]
  BY <1>2, PopStack DEF Finish, TypeOK, Top
<1>4. color[Top] = "gray"
  BY <1>3 DEF StackOK
<1>5. /\ \A m \in Node : color'[m] = IF m = Top THEN "black" ELSE color[m]
      /\ \A m \in Node : fin'[m] = IF m = Top THEN clock + 1 ELSE fin[m]
  BY <1>3 DEF Finish, TypeOK
<1>6. StackOK'
  <2>1. \A i, j \in 1..Len(stack') : stack'[i] = stack'[j] => i = j
    BY <1>3 DEF StackOK
  <2>2. ASSUME NEW m \in Node
        PROVE  color'[m] = "gray" <=> \E i \in 1..Len(stack') : stack'[i] = m
    <3>1. CASE m = Top
      <4>1. \A i \in 1..Len(stack') : stack'[i] # Top
        BY <1>3 DEF StackOK
      <4> QED
        BY <1>5, <3>1, <4>1
    <3>2. CASE m # Top
      <4>1. color'[m] = "gray" <=> \E i \in 1..Len(stack) : stack[i] = m
        BY <1>5, <3>2 DEF StackOK
      <4>2. (\E i \in 1..Len(stack) : stack[i] = m)
              <=> \E i \in 1..Len(stack') : stack'[i] = m
        BY <1>3, <3>2
      <4> QED
        BY <4>1, <4>2
    <3> QED
      BY <3>1, <3>2
  <2> QED
    BY <2>1, <2>2 DEF StackOK
<1>7. StackIsPath'
  <2> SUFFICES ASSUME NEW i \in 1..(Len(stack') - 1)
               PROVE  \E e \in Edge : graph[e].from = stack'[i] /\ graph[e].to = stack'[i + 1]
    BY <1>1 DEF StackIsPath
  <2>1. i \in 1..(Len(stack) - 1) /\ i + 1 \in 1..(Len(stack) - 1)
    BY <1>3
  <2> QED
    BY <1>3, <2>1 DEF StackIsPath
<1>8. Unvisited'
  BY <1>1, <1>2, <1>5 DEF Unvisited
<1>9. VisitedOK'
  <2> SUFFICES ASSUME NEW d \in Edge, d \notin loop, d \notin todo[graph[d].from]
               PROVE  \/ color'[graph[d].to] = "black"
                      \/ \E i \in 1..(Len(stack') - 1) :
                           stack'[i] = graph[d].from /\ stack'[i + 1] = graph[d].to
    BY <1>1, <1>2 DEF VisitedOK
  <2>1. CASE color[graph[d].to] = "black"
    BY <1>5, <2>1, EdgeEnds DEF TypeOK
  <2>2. ASSUME NEW i \in 1..(Len(stack) - 1),
               stack[i] = graph[d].from, stack[i + 1] = graph[d].to
        PROVE  \/ color'[graph[d].to] = "black"
               \/ \E j \in 1..(Len(stack') - 1) :
                    stack'[j] = graph[d].from /\ stack'[j + 1] = graph[d].to
    <3>1. CASE i + 1 = Len(stack)
      BY <1>3, <1>5, <2>2, <3>1
    <3>2. CASE i + 1 # Len(stack)
      <4>1. /\ i \in 1..(Len(stack') - 1)
            /\ i + 1 \in 1..(Len(stack) - 1)
        BY <1>3, <3>2
      <4> QED
        BY <1>3, <2>2, <4>1
    <3> QED
      BY <3>1, <3>2
  <2> QED
    BY <2>1, <2>2 DEF VisitedOK
<1>10. RootsSeen'
  <2>1. \A m \in Entries : m \in Node
    BY DEF Entries
  <2> QED
    BY <1>1, <1>2, <1>5, <2>1 DEF RootsSeen
<1>11. FinClock'
  <2>1. \A m \in Node : fin[m] \in Nat /\ fin[m] <= clock
    BY DEF FinClock, TypeOK
  <2>2. \A m \in Node : fin'[m] <= clock + 1
    BY <1>2, <1>5, <2>1
  <2> QED
    BY <1>2, <2>2 DEF FinClock
<1>12. FinishOrder'
  <2> SUFFICES ASSUME NEW d \in Edge, d \notin loop, color'[graph[d].from] = "black"
               PROVE  color'[graph[d].to] = "black" /\ fin'[graph[d].to] < fin'[graph[d].from]
    BY <1>1, <1>2 DEF FinishOrder
  <2>1. graph[d].from \in Node /\ graph[d].to \in Node
    BY EdgeEnds DEF TypeOK
  <2>2. CASE graph[d].from # Top
    BY <1>4, <1>5, <2>1, <2>2 DEF FinishOrder
  <2>3. CASE graph[d].from = Top
    <3>1. \A i \in 1..(Len(stack) - 1) : stack[i] # Top
      BY <1>3 DEF StackOK
    <3>2. color[graph[d].to] = "black"
      BY <1>2, <2>3, <3>1 DEF VisitedOK
    <3>3. fin[graph[d].to] \in Nat /\ fin[graph[d].to] <= clock
      BY <2>1 DEF FinClock, TypeOK
    <3> QED
      BY <1>2, <1>4, <1>5, <2>1, <2>3, <3>2, <3>3
  <2> QED
    BY <2>2, <2>3
<1>13. SeenReachable'
  BY <1>1, <1>4, <1>5 DEF SeenReachable
<1>14. LoopSeen'
  BY <1>1, <1>2, <1>5, EdgeEnds DEF LoopSeen, TypeOK
<1>15. Called'
  BY <1>1, <1>2, <1>4, <1>5 DEF Called
<1> QED
  BY <1>6, <1>7, <1>8, <1>9, <1>10, <1>11, <1>12, <1>13, <1>14, <1>15

(* IInv holds initially and every step keeps it.                            *)
LEMMA InitInv == Init => IInv
<1> SUFFICES ASSUME Init PROVE IInv
  OBVIOUS
<1>1. TypeOK
  <2>1. /\ roots \subseteq Node /\ loop \subseteq Edge
        /\ todo \in [Node -> SUBSET Edge]
        /\ \A n \in Node : todo[n] \subseteq Out(n)
    BY DEF Init, Entries, Out
  <2> QED
    BY <2>1 DEF Init, TypeOK
<1>2. Len(stack) = 0
  BY EmptySeq DEF Init
<1>3. \A n \in Node : color[n] = "white" /\ todo[n] = Out(n) /\ fin[n] = 0
  BY DEF Init
<1>4. StackOK /\ StackIsPath /\ Unvisited
  BY <1>2, <1>3 DEF StackOK, StackIsPath, Unvisited
<1>5. VisitedOK
  BY <1>1, <1>3, EdgeEnds DEF VisitedOK, Out, TypeOK
<1>6. RootsSeen /\ SeenReachable /\ LoopSeen /\ Called
  BY <1>3 DEF RootsSeen, SeenReachable, LoopSeen, Called, Init
<1>7. FinClock /\ FinishOrder
  BY <1>1, <1>3, EdgeEnds DEF FinClock, FinishOrder, TypeOK, Init
<1> QED
  BY <1>1, <1>4, <1>5, <1>6, <1>7 DEF IInv

LEMMA NextInv == IInv /\ [Next]_vars => IInv'
<1> SUFFICES ASSUME IInv, [Next]_vars PROVE IInv'
  OBVIOUS
<1>1. TypeOK'
  BY TypeStep DEF IInv
<1>2. ASSUME NEW n \in roots, EnterRoot(n) PROVE IInv'
  BY <1>1, <1>2, EnterRootInv
<1>3. ASSUME NEW e \in Edge, Visit(e) PROVE IInv'
  BY <1>1, <1>3, VisitInv
<1>4. CASE Finish
  BY <1>1, <1>4, FinishInv
<1>5. CASE UNCHANGED vars
  <2>1. Reachable' = Reachable /\ Entries' = Entries /\ Edge' = Edge
        /\ \A n \in Node : Out(n)' = Out(n)
    BY <1>5, GraphFixed
  <2> QED
    BY <1>1, <1>5, <2>1 DEF vars, IInv, StackOK, StackIsPath, Unvisited, VisitedOK,
       LoopSeen, RootsSeen, Called, FinClock, FinishOrder, SeenReachable
<1> QED
  BY <1>2, <1>3, <1>4, <1>5 DEF Next

----------------------------------------------------------------------------
(* The invariant of the search, for every workflow.                         *)
THEOREM SearchInvariant == Spec => []IInv
BY InitInv, NextInv, PTL DEF Spec

(* Unmarked edges of finished nodes lead to nodes finished earlier: what    *)
(* markLoopEdges leaves unmarked is acyclic, whatever the workflow.         *)
THEOREM UnmarkedAcyclic == Spec => []FinishOrder
<1>1. IInv => FinishOrder
  BY DEF IInv
<1> QED
  BY <1>1, SearchInvariant, PTL

(* At its end the search has finished exactly the nodes that can be reached *)
(* from the entry nodes, and so classified every edge a run can use.        *)
THEOREM SearchReaches == Spec => []Reached
<1>1. IInv => Reached
  <2> SUFFICES ASSUME IInv, Done
               PROVE  {n \in Node : color[n] = "black"} = Reachable
    BY DEF Reached
  <2> DEFINE B == {n \in Node : color[n] = "black"}
  <2>1. \A n \in Node : color[n] = "white" \/ n \in B
    <3>1. Len(stack) = 0
      BY EmptySeq DEF Done
    <3> QED
      <4>1. \A n \in Node : color[n] # "gray"
        <5>1. 1..Len(stack) = {}
          BY <3>1
        <5> QED
          BY <5>1 DEF IInv, StackOK
      <4> QED
        BY <4>1 DEF IInv, TypeOK
  <2>2. Entries \subseteq B
    BY <2>1 DEF IInv, RootsSeen, Done, Entries
  <2>3. \A e \in Edge : graph[e].from \in B => graph[e].to \in B
    <3> SUFFICES ASSUME NEW e \in Edge, graph[e].from \in B
                 PROVE  graph[e].to \in B
      OBVIOUS
    <3>1. graph[e].to \in Node
      BY EdgeEnds DEF IInv, TypeOK
    <3>2. CASE e \in loop
      BY <3>1, <3>2, <2>1 DEF IInv, LoopSeen
    <3>3. CASE e \notin loop
      BY <3>1, <3>3 DEF IInv, FinishOrder
    <3> QED
      BY <3>2, <3>3
  <2>4. Reachable \subseteq B
    BY <2>2, <2>3 DEF Reachable, FollowsEdges
  <2>5. B \subseteq Reachable
    BY DEF IInv, SeenReachable
  <2> QED
    BY <2>4, <2>5
<1> QED
  BY <1>1, SearchInvariant, PTL

(* An edge is marked only while the stack is a path of edges from its       *)
(* target to its source: it closes a cycle, whatever the workflow.          *)
THEOREM MarksAreCycles == Spec => MarksCloseCycle
<1>1. IInv /\ [Next]_vars => [MarkClosesCycle]_vars
  <2> SUFFICES ASSUME IInv, [Next]_vars, NEW e \in loop' \ loop
               PROVE  \E i \in 1..Len(stack) :
                        /\ stack[i] = graph[e].to
                        /\ stack[Len(stack)] = graph[e].from
                        /\ \A j \in i..(Len(stack) - 1) :
                             \E d \in Edge : graph[d].from = stack[j] /\ graph[d].to = stack[j + 1]
    BY DEF MarkClosesCycle
  <2>1. PICK d \in Edge : Visit(d)
    BY DEF Next, EnterRoot, Finish, vars
  <2>2. /\ d = e /\ color[graph[e].to] = "gray" /\ stack # <<>> /\ e \in todo[Top]
    BY <2>1 DEF Visit
  <2>3. Len(stack) \in Nat \ {0} /\ Top \in Node
    BY <2>2, PopStack DEF IInv, TypeOK, Top
  <2>4. stack[Len(stack)] = graph[e].from
    BY <2>2, <2>3 DEF IInv, TypeOK, Out, Top
  <2>5. PICK i \in 1..Len(stack) : stack[i] = graph[e].to
    BY <2>1, <2>2, EdgeEnds DEF IInv, TypeOK, StackOK
  <2>6. \A j \in i..(Len(stack) - 1) :
          \E f \in Edge : graph[f].from = stack[j] /\ graph[f].to = stack[j + 1]
    BY <2>3, <2>5 DEF IInv, StackIsPath
  <2> QED
    BY <2>4, <2>5, <2>6
<1> QED
  BY <1>1, SearchInvariant, PTL DEF MarksCloseCycle, Spec

(* When every node can be reached from an entry node, the marks leave no    *)
(* `all` join of the workflow waiting for ever, whatever the workflow: a    *)
(* node that could not fire would have a non-loop upstream that finished    *)
(* earlier and could not fire either.                                       *)
THEOREM JoinsNeverStarve == Spec => []JoinsUnblocked
<1>1. IInv /\ Reached => JoinsUnblocked
  <2> SUFFICES ASSUME IInv, Reached, Done, Reachable = Node,
                      NEW S \in SUBSET Node, FiresFrom(S),
                      Node \ S # {}
               PROVE  FALSE
    BY DEF JoinsUnblocked, Fireable
  <2>1. \A n \in Node : color[n] = "black"
    BY DEF Reached
  <2>2. \A n \in Node : fin[n] \in Nat
    BY DEF IInv, TypeOK
  <2>3. \A n \in Node : clock - fin[n] \in Nat
    <3>1. clock \in Nat /\ \A n \in Node : fin[n] <= clock
      BY DEF IInv, TypeOK, FinClock
    <3>2. \A c, f \in Nat : f <= c => c - f \in Nat
      OBVIOUS
    <3> QED
      BY <2>2, <3>1, <3>2
  <2> DEFINE F == {clock - fin[n] : n \in Node \ S}
  <2>4. PICK n \in Node \ S : \A m \in Node \ S : clock - fin[n] <= clock - fin[m]
    <3>1. F \subseteq Nat /\ F # {}
      BY <2>3
    <3>2. PICK k \in F : \A l \in F : k <= l
      <4> HIDE DEF F
      <4> QED
        BY <3>1, LeastNat
    <3> QED
      BY <3>2
  <2>5. \A m \in Node \ S : fin[m] <= fin[n]
    <3>1. clock \in Nat
      BY DEF IInv, TypeOK
    <3>2. \A c, f, g \in Nat : c - f <= c - g => g <= f
      OBVIOUS
    <3> QED
      BY <2>2, <2>4, <3>1, <3>2
  <2>6. ASSUME NEW e \in Edge \ loop, graph[e].to = n
        PROVE  graph[e].from \in S
    <3>1. graph[e].from \in Node
      BY EdgeEnds DEF IInv, TypeOK
    <3>2. fin[n] < fin[graph[e].from]
      BY <2>1, <2>6, <3>1 DEF IInv, FinishOrder
    <3> QED
      BY <2>2, <2>5, <3>1, <3>2
  <2>7. PICK e \in Edge \ loop : graph[e].to = n
    <3>1. n \notin Entries
      BY DEF FiresFrom
    <3> QED
      BY <2>1, <3>1 DEF IInv, Called
  <2>8. graph[e].from \in Upstream(n) \cap S
    BY <2>6, <2>7 DEF Upstream
  <2>9. NonLoopUpstream(n) \subseteq S
    BY <2>6 DEF NonLoopUpstream
  <2> QED
    BY <2>8, <2>9 DEF FiresFrom
<1> QED
  BY <1>1, SearchInvariant, SearchReaches, PTL
=============================================================================

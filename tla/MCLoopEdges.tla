---------------------------- MODULE MCLoopEdges ----------------------------
(* Every workflow whose edges, at most MaxEdges of them in any order, join  *)
(* three of five nodes, and the happy-path workflow of cmd/runctl.          *)
EXTENDS LoopEdges

CONSTANT MaxEdges   \* bound: edges of an enumerated workflow

Pairs == [from : 1..3, to : 1..3]
SmallGraphs == UNION {[1..k -> Pairs] : k \in 0..MaxEdges}

(* executor 1, risk 2, scout 3, thesis 4, watcher 5: the order of the node  *)
(* keys.  Edges by priority, and within one priority in one of the orders   *)
(* their random ids can give them.                                          *)
Ed(a, b) == [from |-> a, to |-> b]
HappyEdges == <<Ed(5, 4), Ed(3, 4), Ed(4, 2), Ed(2, 1), Ed(4, 1), Ed(2, 4)>>

MCNode   == 1..5
MCGraphs == SmallGraphs \cup {HappyEdges}
=============================================================================

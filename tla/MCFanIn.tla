------------------------------ MODULE MCFanIn ------------------------------
(* A workflow with everything the happy path lacks: a `first` join at the   *)
(* terminal node, parallel edges, a self loop, substring conditions, two    *)
(* conditional branches that can match at once, and step and iteration      *)
(* limits within reach.                                                     *)
EXTENDS Engine

MCNode  == 1..4
MCEdge  == 1..6
MCFrom  == <<1, 1, 2, 3, 3, 2>>
MCTo    == <<3, 3, 3, 3, 4, 4>>
MCCond  == <<"always", "yes", "always", "rejected", "yes", "always">>
MCLoop  == {4}
MCJoin  == <<"all", "all", "all", "first">>
MCLimit == <<1, 1, 3, 5>>
MCEntry == <<1, 2>>

Verdict(a, t) == [approved |-> a, text |-> t, side |-> "none"]
MCOutputs ==
  <<{Verdict("absent", t) : t \in SUBSET {"yes"}},
    {Verdict("absent", {})},
    {Verdict(a, t) : a \in {"true", "false"}, t \in SUBSET {"yes"}},
    {[approved |-> "absent", text |-> {}, side |-> sd] : sd \in {"NO", "none"}}>>
=============================================================================

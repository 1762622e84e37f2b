------------------------------ MODULE MCLedger -----------------------------
(* Three agents in a line, the last one the terminal: the run whose costs,  *)
(* durations, failures and outside events are varied, with caps and         *)
(* timeouts a few steps reach.                                              *)
EXTENDS Engine

MCNode  == 1..3
MCEdge  == 1..2
MCFrom  == <<1, 2>>
MCTo    == <<2, 3>>
MCCond  == <<"always", "always">>
MCJoin  == [n \in MCNode |-> "all"]
MCLimit == [n \in MCNode |-> 5]
MCEntry == <<1>>
MCOutputs ==
  [n \in MCNode |-> {[approved |-> "absent", text |-> {},
                      side |-> IF n = 3 THEN "YES" ELSE "none"]}]
=============================================================================

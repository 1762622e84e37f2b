---------------------------- MODULE MCHappyPath ----------------------------
(* The happy-path workflow that cmd/runctl bootstraps, with its real join   *)
(* strategies and iteration limits.  The risk assessor may approve, reject  *)
(* or return a malformed verdict; the executor may trade or abstain.        *)
EXTENDS Engine

executor == 1
risk     == 2
scout    == 3
thesis   == 4
watcher  == 5

Plain(a, sd) == [approved |-> a, text |-> {}, side |-> sd]

MCNode  == 1..5
MCEdge  == 1..6
MCFrom  == <<watcher, scout, thesis, risk, thesis, risk>>
MCTo    == <<thesis, thesis, risk, executor, executor, thesis>>
MCCond  == <<"always", "always", "always", "approved", "always", "rejected">>
MCLoop  == {6}
MCJoin  == [n \in MCNode |-> "all"]
MCLimit == [n \in MCNode |-> IF n \in {thesis, risk} THEN 5 ELSE 1]
MCEntry == <<scout, watcher>>
MCOutputs ==
  [n \in MCNode |->
     IF n = risk THEN {Plain(a, "none") : a \in {"true", "false", "malformed"}}
     ELSE IF n = executor THEN {Plain("absent", sd) : sd \in {"YES", "ABSTAIN"}}
     ELSE {Plain("absent", "none")}]

(* The happy path, whatever it costs, times out at or produces.             *)
IsHappyPath ==
  /\ Node = MCNode /\ Edge = MCEdge /\ From = MCFrom /\ To = MCTo /\ Cond = MCCond
  /\ LoopEdge = MCLoop /\ Join = MCJoin /\ LoopLimit = MCLimit

(* The paper executor decides on the thesis the risk assessor approved: the *)
(* thesis among its inputs is the one the verdict among them was about.     *)
ExecutorSeesAssessedThesis ==
  \A j \in 1..Len(steps) : steps[j].node = executor =>
    \E i \in 1..(j - 1) :
      /\ steps[i].node = risk
      /\ steps[i].iter = steps[j].inputs[risk]
      /\ steps[i].inputs[thesis] = steps[j].inputs[thesis]
=============================================================================

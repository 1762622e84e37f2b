------------------------------ MODULE MCQuota ------------------------------
(* Two runs of one runctl --repeat and two scheduled ones, over a midnight. *)
EXTENDS Quota

MCPrev == [r \in Run |-> IF r = 2 THEN 1 ELSE r]
=============================================================================

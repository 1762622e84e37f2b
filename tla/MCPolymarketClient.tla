------------------------- MODULE MCPolymarketClient -------------------------
(* Two concurrent callers of two URLs with one cache slot between them.     *)
EXTENDS PolymarketClient

(* sleepWithJitter doubles from attempt to attempt, the jitter adds less.   *)
MCBackoff == [a \in 0..Retries - 1 |-> {2 ^ a}]
=============================================================================

----------------------------- MODULE AgentRuntime -----------------------------
(* One step of an agent: Runtime.Invoke of internal/runtime, which module   *)
(* Engine takes as a single action.  An attempt is a conversation of up to  *)
(* MaxToolRounds calls of the Messages API with tool dispatch in between; a *)
(* text that does not parse or validate is tried again.                     *)
(*                                                                          *)
(* A text is abstracted to what parsing and validation say of it, tokens to *)
(* small numbers, and the price table to whether it knows the model: the    *)
(* cost of n tokens is n or 0.  The step's context may expire at any time;  *)
(* it then fails the call it meets.                                         *)
EXTENDS Integers

CONSTANTS
  MaxAttempts,     \* 2 in Invoke
  MaxToolRounds,   \* 6
  MaxBlocks,       \* bound: tool_use blocks of one response
  Tokens           \* what one response can count

ASSUME RuntimeAssumption ==
  /\ MaxAttempts \in Nat \ {0} /\ MaxToolRounds \in Nat \ {0}
  /\ MaxBlocks \in Nat /\ Tokens \subseteq Nat

VARIABLES
  pc,
  agent,           \* the template: output type and model known, tools declared
  attempt, round,  \* loop variables of Invoke and generateOnce
  usage,           \* totalUsage of generateOnce
  open,            \* tool_use blocks of the last response still to dispatch
  text,            \* what the last final response holds
  result, err,     \* InvokeResult and the error beside it
  calls, paid,     \* history: calls answered, tokens they counted
  asked, answered  \* history: tool_use blocks received, tool_result blocks appended

vars == <<pc, agent, attempt, round, usage, open, text, result, err, calls, paid, asked,
          answered>>

Agent == [type : {"known", "unknown"}, price : {"known", "unknown"},
          tools : {"none", "resolved", "unresolved"}]
Texts == {"none", "garbage", "undecodable", "invalid", "valid"}
Model == {"none", "echoed"}   \* the empty string, or what the API echoed

Init ==
  /\ pc = "start" /\ agent \in Agent
  /\ attempt = 0 /\ round = 0 /\ usage = 0 /\ open = 0 /\ text = "none"
  /\ result = [tokens |-> 0, model |-> "none", attempts |-> 0, cost |-> 0, output |-> "nil"]
  /\ err = "none"
  /\ calls = 0 /\ paid = 0 /\ asked = 0 /\ answered = 0

(* CostUSD: a name the price table does not have costs nothing.             *)
CostUSD(model, n) == IF model = "echoed" /\ agent.price = "known" THEN n ELSE 0

(* generateOnce returns: Invoke adds the usage u and takes over the model.  *)
Added(u, model) == [result EXCEPT !.tokens = @ + u, !.model = model, !.attempts = attempt]

(* finishResult                                                             *)
Priced(r) == [r EXCEPT !.cost = CostUSD(r.model, r.tokens)]

(* The schema of the output type is read first; without it nothing is sent, *)
(* and the result is nil, which the initial record stands for.              *)
GetType ==
  /\ pc = "start"
  /\ IF agent.type = "known" THEN pc' = "attempt" /\ attempt' = 1 /\ UNCHANGED err
                        ELSE pc' = "done" /\ err' = "type" /\ UNCHANGED attempt
  /\ UNCHANGED <<agent, round, usage, open, text, result, calls, paid, asked, answered>>

(* generateOnce resolves the declared tools anew in every attempt.          *)
Resolve ==
  /\ pc = "attempt"
  /\ usage' = 0
  /\ IF agent.tools = "unresolved"
     THEN pc' = "done" /\ err' = "tools" /\ result' = Priced(Added(0, "none")) /\ UNCHANGED round
     ELSE pc' = "call" /\ round' = 1 /\ UNCHANGED <<err, result>>
  /\ UNCHANGED <<agent, attempt, open, text, calls, paid, asked, answered>>

(* Mutant of CallFails: the usage of the earlier rounds is dropped.         *)
CallFailsNoUsage ==
  /\ pc = "call"
  /\ pc' = "done" /\ err' = "api"
  /\ result' = Priced(Added(0, "none"))
  /\ UNCHANGED <<agent, attempt, round, usage, open, text, calls, paid, asked, answered>>

(* Mutant of CallFails: a first call that fails starts the attempt over,   *)
(* uncounted.                                                               *)
CallFailsRetried ==
  /\ pc = "call"
  /\ \/ /\ round = 1 /\ pc' = "attempt" /\ UNCHANGED <<err, result>>
     \/ /\ round > 1 /\ pc' = "done" /\ err' = "api" /\ result' = Priced(Added(usage, "none"))
  /\ UNCHANGED <<agent, attempt, round, usage, open, text, calls, paid, asked, answered>>

(* The transport, the API or the decoding fails, or the context expires:    *)
(* no retry, and generateOnce returns the earlier usage without a model.    *)
CallFails ==
  /\ pc = "call"
  /\ pc' = "done" /\ err' = "api"
  /\ result' = Priced(Added(usage, "none"))
  /\ UNCHANGED <<agent, attempt, round, usage, open, text, calls, paid, asked, answered>>

(* A response counts its tokens.                                            *)
Counted(t) == calls' = calls + 1 /\ paid' = paid + t /\ usage' = usage + t

FinalResponse ==
  /\ pc = "call"
  /\ \E t \in Tokens : Counted(t) /\ result' = Added(usage', "echoed")
  /\ text' \in Texts \ {"none"}
  /\ pc' = "check"
  /\ UNCHANGED <<agent, attempt, round, open, err, asked, answered>>

(* Mutant of ToolResponse: the cap forgets which model answered.            *)
ToolResponseNoModel ==
  /\ pc = "call" /\ agent.tools = "resolved"
  /\ \E t \in Tokens, b \in 1..MaxBlocks :
       /\ Counted(t)
       /\ IF round = MaxToolRounds
          THEN /\ pc' = "done" /\ err' = "cap"
               /\ result' = Priced(Added(usage', "none"))
               /\ UNCHANGED <<open, asked>>
          ELSE /\ pc' = "tools" /\ open' = b /\ asked' = asked + b
               /\ UNCHANGED <<err, result>>
  /\ UNCHANGED <<agent, attempt, round, text, answered>>

(* Mutant of ToolResponse: the last round dispatches and calls again.       *)
ToolResponseNoCap ==
  /\ pc = "call" /\ agent.tools = "resolved"
  /\ \E t \in Tokens, b \in 1..MaxBlocks :
       /\ Counted(t)
       /\ IF round > MaxToolRounds
          THEN /\ pc' = "done" /\ err' = "cap"
               /\ result' = Priced(Added(usage', "echoed"))
               /\ UNCHANGED <<open, asked>>
          ELSE /\ pc' = "tools" /\ open' = b /\ asked' = asked + b
               /\ UNCHANGED <<err, result>>
  /\ UNCHANGED <<agent, attempt, round, text, answered>>

(* The model wants tools: in the last round that is an error.               *)
ToolResponse ==
  /\ pc = "call" /\ agent.tools = "resolved"
  /\ \E t \in Tokens, b \in 1..MaxBlocks :
       /\ Counted(t)
       /\ IF round = MaxToolRounds
          THEN /\ pc' = "done" /\ err' = "cap"
               /\ result' = Priced(Added(usage', "echoed"))
               /\ UNCHANGED <<open, asked>>
          ELSE /\ pc' = "tools" /\ open' = b /\ asked' = asked + b
               /\ UNCHANGED <<err, result>>
  /\ UNCHANGED <<agent, attempt, round, text, answered>>

(* Mutant of DispatchTool: a failing tool leaves its block unanswered.      *)
DispatchToolSilent ==
  /\ pc = "tools"
  /\ open' = open - 1
  /\ answered' \in {answered, answered + 1}
  /\ IF open' = 0 THEN pc' = "call" /\ round' = round + 1 ELSE UNCHANGED <<pc, round>>
  /\ UNCHANGED <<agent, attempt, usage, text, result, err, calls, paid, asked>>

(* One tool_use block: unknown, server-side and failing tools answer with   *)
(* an is_error block, the others with their result.                         *)
DispatchTool ==
  /\ pc = "tools"
  /\ open' = open - 1
  /\ answered' = answered + 1
  /\ IF open' = 0 THEN pc' = "call" /\ round' = round + 1 ELSE UNCHANGED <<pc, round>>
  /\ UNCHANGED <<agent, attempt, usage, text, result, err, calls, paid, asked>>

(* Parse and validate the text: a bad one is tried once more.  Text that is *)
(* JSON and cannot be decoded all the same, such as an overflowing number,  *)
(* passes for a fault of the program and is not.                            *)
Check ==
  /\ pc = "check"
  /\ \/ /\ text = "valid"
        /\ pc' = "done" /\ result' = Priced([result EXCEPT !.output = "valid"])
        /\ UNCHANGED <<attempt, err>>
     \/ /\ text = "undecodable"
        /\ pc' = "done" /\ err' = "validate" /\ result' = Priced(result)
        /\ UNCHANGED attempt
     \/ /\ text \in {"garbage", "invalid"} /\ attempt < MaxAttempts
        /\ pc' = "attempt" /\ attempt' = attempt + 1
        /\ UNCHANGED <<result, err>>
     \/ /\ text \in {"garbage", "invalid"} /\ attempt = MaxAttempts
        /\ pc' = "done" /\ err' = "rejected" /\ result' = Priced(result)
        /\ UNCHANGED attempt
  /\ UNCHANGED <<agent, round, usage, open, text, calls, paid, asked, answered>>

Next == \/ GetType \/ Resolve \/ CallFails \/ FinalResponse \/ ToolResponse \/ DispatchTool
        \/ Check

Spec     == Init /\ [][Next]_vars
FairSpec == Spec /\ WF_vars(Next)

----------------------------------------------------------------------------
TypeOK ==
  /\ pc \in {"start", "attempt", "call", "tools", "check", "done"} /\ agent \in Agent
  /\ attempt \in 0..MaxAttempts /\ round \in 0..MaxToolRounds
  /\ usage \in Nat /\ open \in Nat /\ text \in Texts
  /\ result \in [tokens : Nat, model : Model, attempts : 0..MaxAttempts, cost : Nat,
                 output : {"nil", "valid"}]
  /\ err \in {"none", "type", "tools", "api", "cap", "validate", "rejected"}
  /\ calls \in Nat /\ paid \in Nat /\ asked \in Nat /\ answered \in Nat

(* Whichever way Invoke ends, its result counts the tokens of every         *)
(* response of every round and attempt, as the usage row and the step row   *)
(* are to (agent.go:58-61, 136-137).                                        *)
TokensCounted == pc = "done" => result.tokens = paid

(* Unless a call failed, the tokens of all rounds and attempts are priced,  *)
(* also when the text was never valid or the tool rounds ran out.           *)
PricedUnlessCut == (pc = "done" /\ err # "api" /\ agent.price = "known") => result.cost = paid

(* A step makes at most MaxToolRounds calls per attempt (agent.go:184-187), *)
(* and the result tells the attempts it took: one per rejected text, and    *)
(* the last.                                                                *)
CallsBounded ==
  /\ calls <= MaxAttempts * MaxToolRounds
  /\ pc = "done" => calls <= result.attempts * MaxToolRounds

(* No call is made with a tool_use block left unanswered: the API refuses   *)
(* such a conversation (agent.go:275-278).                                  *)
Answered == pc = "call" => asked = answered

(* The inductive invariant behind the four above: what of the tokens, the   *)
(* calls and the tool blocks is still to come at each statement.            *)
Earlier == (attempt - 1) * MaxToolRounds

TokensInv ==
  /\ result.tokens + (IF pc \in {"call", "tools"} THEN usage ELSE 0) = paid
  /\ pc = "start" => result.tokens = 0 /\ result.cost = 0
  /\ agent.tools = "unresolved" => result.tokens = 0 /\ pc \in {"start", "attempt", "done"}
  /\ pc = "check" => result.model = "echoed"
  /\ err # "none" => pc = "done"
  /\ (pc = "done" /\ err # "api" /\ agent.price = "known") => result.cost = result.tokens

CallsInv ==
  /\ pc = "start" => calls = 0 /\ result.attempts = 0
  /\ pc \in {"attempt", "call", "tools", "check"} => attempt >= 1
  /\ pc = "attempt" => calls <= Earlier
  /\ pc = "call"  => calls <= Earlier + round - 1 /\ 1 <= round
  /\ pc = "tools" => calls <= Earlier + round /\ round < MaxToolRounds
  /\ pc = "check" => calls <= Earlier + MaxToolRounds /\ result.attempts = attempt
  /\ pc = "done"  => calls <= result.attempts * MaxToolRounds

BlocksInv ==
  /\ asked = answered + (IF pc = "tools" THEN open ELSE 0)
  /\ pc = "tools" => open >= 1

IInv == TypeOK /\ TokensInv /\ CallsInv /\ BlocksInv

(* Invoke returns.                                                          *)
Returns == <>(pc = "done")

(* agent.go:58-61: on final failure "token/cost fields are still populated  *)
(* - already-paid-for tokens don't roll back".                              *)
PaidTokensPriced == (pc = "done" /\ agent.price = "known") => result.cost = paid
=============================================================================

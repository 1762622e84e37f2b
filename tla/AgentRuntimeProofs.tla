-------------------------- MODULE AgentRuntimeProofs --------------------------
(* Proofs about Runtime.Invoke, for every number of attempts, rounds, tool  *)
(* blocks and tokens.                                                       *)
EXTENDS AgentRuntime, TLAPS

Result == [tokens : Nat, model : Model, attempts : 0..MaxAttempts, cost : Nat,
           output : {"nil", "valid"}]

(* What the end of an attempt and the pricing do to a result.               *)
LEMMA ResultFields ==
  ASSUME TypeOK
  PROVE  \A u \in Nat, m \in Model :
           /\ Added(u, m) \in Result /\ Added(u, m).tokens = result.tokens + u
           /\ Added(u, m).model = m /\ Added(u, m).attempts = attempt
<1> SUFFICES ASSUME NEW u \in Nat, NEW m \in Model
             PROVE  /\ Added(u, m) \in Result /\ Added(u, m).tokens = result.tokens + u
                    /\ Added(u, m).model = m /\ Added(u, m).attempts = attempt
  OBVIOUS
<1>1. result \in Result /\ attempt \in 0..MaxAttempts /\ result.tokens + u \in Nat
  BY DEF TypeOK, Result
<1>2. PICK w \in Nat : w = result.tokens + u
  BY <1>1
<1>3. Added(u, m) = [result EXCEPT !.tokens = w, !.model = m, !.attempts = attempt]
  BY <1>2 DEF Added
<1>4. /\ Added(u, m) \in Result /\ Added(u, m).tokens = w
      /\ Added(u, m).model = m /\ Added(u, m).attempts = attempt
  BY <1>1, <1>3 DEF Result
<1> QED
  BY <1>2, <1>4

(* Pricing sets the cost and nothing else.                                  *)
LEMMA PricedFields ==
  ASSUME TypeOK
  PROVE  \A r \in Result :
           /\ Priced(r) \in Result /\ Priced(r).tokens = r.tokens
           /\ Priced(r).attempts = r.attempts /\ Priced(r).output = r.output
           /\ Priced(r).model = r.model
           /\ Priced(r).cost = IF r.model = "echoed" /\ agent.price = "known" THEN r.tokens ELSE 0
BY DEF TypeOK, Priced, CostUSD, Result

(* The output of a result does not touch its counts.                        *)
LEMMA OutputFields ==
  ASSUME TypeOK
  PROVE  LET r == [result EXCEPT !.output = "valid"]
         IN r \in Result /\ r.tokens = result.tokens /\ r.attempts = result.attempts
            /\ r.model = result.model
BY DEF TypeOK, Result

(* Every action keeps the types.                                            *)
LEMMA TypeStep == TypeOK /\ CallsInv /\ BlocksInv /\ [Next]_vars => TypeOK'
<1> SUFFICES ASSUME TypeOK, CallsInv, BlocksInv, [Next]_vars PROVE TypeOK'
  OBVIOUS
<1> USE RuntimeAssumption
<1>0. result \in Result /\ usage \in Nat /\ attempt \in 0..MaxAttempts
  BY DEF TypeOK, Result
<1>m. "none" \in Model /\ "echoed" \in Model
  BY DEF Model
<1>1. CASE GetType
  BY <1>1 DEF GetType, TypeOK
<1>2. CASE Resolve
  <2>1. Priced(Added(0, "none")) \in Result
    BY <1>m, ResultFields, PricedFields
  <2>2. result' \in Result
    BY <1>0, <1>2, <2>1 DEF Resolve
  <2>3. /\ pc' \in {"done", "call"} /\ usage' = 0 /\ round' \in {round, 1} /\ err' \in {err, "tools"}
        /\ UNCHANGED <<agent, attempt, open, text, calls, paid, asked, answered>>
    BY <1>2 DEF Resolve
  <2>4. round' \in 0..MaxToolRounds
    BY <2>3 DEF TypeOK
  <2> QED
    BY <2>2, <2>3, <2>4 DEF TypeOK, Result
<1>3. CASE CallFails
  <2>1. result' \in Result
    BY <1>0, <1>m, <1>3, ResultFields, PricedFields DEF CallFails
  <2> QED
    BY <1>3, <2>1 DEF CallFails, TypeOK, Result
<1>4. CASE FinalResponse
  <2>1. PICK t \in Tokens : Counted(t) /\ result' = Added(usage', "echoed")
    BY <1>4 DEF FinalResponse
  <2>2. usage' \in Nat /\ calls' \in Nat /\ paid' \in Nat
    BY <2>1 DEF Counted, TypeOK
  <2>3. result' \in Result
    BY <1>m, <2>1, <2>2, ResultFields
  <2> QED
    BY <1>4, <2>2, <2>3 DEF FinalResponse, Texts, TypeOK, Result
<1>5. CASE ToolResponse
  <2>1. PICK t \in Tokens, b \in 1..MaxBlocks :
          /\ Counted(t)
          /\ \/ /\ pc' = "done" /\ err' = "cap" /\ UNCHANGED <<open, asked>>
                /\ result' = Priced(Added(usage', "echoed"))
             \/ /\ pc' = "tools" /\ open' = b /\ asked' = asked + b /\ UNCHANGED <<err, result>>
    BY <1>5 DEF ToolResponse
  <2>2. usage' \in Nat /\ calls' \in Nat /\ paid' \in Nat
    BY <2>1 DEF Counted, TypeOK
  <2>3. result' \in Result
    <3>1. Added(usage', "echoed") \in Result
      BY <1>m, <2>2, ResultFields
    <3>2. Priced(Added(usage', "echoed")) \in Result
      BY <3>1, PricedFields
    <3> QED
      BY <1>0, <2>1, <3>2
  <2>4. open' \in Nat /\ asked' \in Nat /\ pc' \in {"done", "tools"} /\ err' \in {err, "cap"}
    BY <2>1 DEF TypeOK
  <2>5. UNCHANGED <<agent, attempt, round, text, answered>>
    BY <1>5 DEF ToolResponse
  <2> QED
    BY <2>2, <2>3, <2>4, <2>5 DEF TypeOK, Result
<1>6. CASE DispatchTool
  BY <1>6 DEF DispatchTool, TypeOK, CallsInv, BlocksInv
<1>7. CASE Check
  <2>1. result' \in Result
    BY <1>0, <1>7, OutputFields, PricedFields DEF Check
  <2> QED
    BY <1>7, <2>1 DEF Check, TypeOK, Result
<1>8. CASE UNCHANGED vars
  BY <1>8 DEF vars, TypeOK
<1> QED
  BY <1>1, <1>2, <1>3, <1>4, <1>5, <1>6, <1>7, <1>8 DEF Next

(* The result and the conversation in progress hold all tokens together.    *)
LEMMA TokensStep == TypeOK /\ TokensInv /\ [Next]_vars => TokensInv'
<1> SUFFICES ASSUME TypeOK, TokensInv, [Next]_vars PROVE TokensInv'
  OBVIOUS
<1> USE RuntimeAssumption
<1>0. result \in Result /\ usage \in Nat /\ paid \in Nat /\ result.tokens \in Nat
  BY DEF TypeOK, Result
<1>m. "none" \in Model /\ "echoed" \in Model
  BY DEF Model
<1>1. CASE GetType
  <2>1. /\ pc = "start" /\ pc' \in {"attempt", "done"}
        /\ agent' = agent /\ result' = result /\ paid' = paid
        /\ pc' = "done" \/ err' = err
    BY <1>1 DEF GetType
  <2> QED
    BY <1>0, <2>1 DEF TokensInv
<1>2. CASE Resolve
  <2>1. /\ Added(0, "none") \in Result /\ Added(0, "none").tokens = result.tokens + 0
        /\ Added(0, "none").model = "none"
    BY <1>m, ResultFields
  <2>2. Priced(Added(0, "none")).tokens = result.tokens /\ Priced(Added(0, "none")).cost = 0
    BY <1>0, <2>1, PricedFields
  <2>3. /\ pc = "attempt" /\ usage' = 0 /\ agent' = agent /\ paid' = paid
        /\ \/ agent.tools = "unresolved" /\ pc' = "done" /\ result' = Priced(Added(0, "none"))
           \/ agent.tools # "unresolved" /\ pc' = "call" /\ result' = result /\ err' = err
    BY <1>2 DEF Resolve
  <2>4. result.tokens = paid /\ err = "none" /\ (agent.tools = "unresolved" => result.tokens = 0)
    BY <1>0, <2>3 DEF TokensInv
  <2>5. CASE agent.tools = "unresolved" /\ pc' = "done" /\ result' = Priced(Added(0, "none"))
    BY <2>2, <2>3, <2>4, <2>5 DEF TokensInv
  <2>6. CASE agent.tools # "unresolved" /\ pc' = "call" /\ result' = result /\ err' = err
    BY <1>0, <2>3, <2>4, <2>6 DEF TokensInv
  <2> QED
    BY <2>3, <2>5, <2>6
<1>3. CASE CallFails
  <2>1. Added(usage, "none") \in Result /\ Added(usage, "none").tokens = result.tokens + usage
    BY <1>0, <1>m, ResultFields
  <2>2. Priced(Added(usage, "none")).tokens = result.tokens + usage
    BY <2>1, PricedFields
  <2>3. /\ pc = "call" /\ pc' = "done" /\ err' = "api" /\ agent' = agent /\ paid' = paid
        /\ result' = Priced(Added(usage, "none"))
    BY <1>3 DEF CallFails
  <2> QED
    BY <1>0, <2>2, <2>3 DEF TokensInv
<1>4. CASE FinalResponse
  <2>1. PICK t \in Tokens : Counted(t) /\ result' = Added(usage', "echoed")
    BY <1>4 DEF FinalResponse
  <2>2. usage' = usage + t /\ paid' = paid + t /\ t \in Nat /\ usage' \in Nat
    BY <1>0, <2>1 DEF Counted
  <2>3. result'.tokens = result.tokens + usage' /\ result'.model = "echoed"
    BY <1>m, <2>1, <2>2, ResultFields
  <2> QED
    BY <1>0, <1>4, <2>2, <2>3 DEF FinalResponse, TokensInv
<1>5. CASE ToolResponse
  <2>1. PICK t \in Tokens :
          /\ Counted(t)
          /\ \/ pc' = "done" /\ result' = Priced(Added(usage', "echoed"))
             \/ pc' = "tools" /\ result' = result /\ err' = err
    BY <1>5 DEF ToolResponse
  <2>2. usage' = usage + t /\ paid' = paid + t /\ t \in Nat /\ usage' \in Nat
    BY <1>0, <2>1 DEF Counted
  <2>3. pc = "call" /\ agent' = agent
    BY <1>5 DEF ToolResponse
  <2>4. CASE pc' = "done" /\ result' = Priced(Added(usage', "echoed"))
    <3>1. /\ Added(usage', "echoed") \in Result
          /\ Added(usage', "echoed").tokens = result.tokens + usage'
          /\ Added(usage', "echoed").model = "echoed"
      BY <1>m, <2>2, ResultFields
    <3>2. /\ result'.tokens = result.tokens + usage'
          /\ agent.price = "known" => result'.cost = result'.tokens
      BY <2>4, <3>1, PricedFields
    <3>3. /\ result'.tokens = paid' /\ agent'.tools # "unresolved"
          /\ agent'.price = "known" => result'.cost = result'.tokens
      BY <1>0, <2>2, <2>3, <3>2 DEF TokensInv
    <3> QED
      BY <1>0, <2>2, <2>4, <3>2, <3>3 DEF TokensInv
  <2>5. CASE pc' = "tools" /\ result' = result /\ err' = err
    BY <1>0, <2>2, <2>3, <2>5 DEF TokensInv
  <2> QED
    BY <2>1, <2>4, <2>5
<1>6. CASE DispatchTool
  BY <1>6 DEF DispatchTool, TokensInv
<1>7. CASE Check
  <2>1. /\ pc = "check" /\ pc' \in {"attempt", "done"} /\ agent' = agent /\ paid' = paid
        /\ \/ pc' = "attempt" /\ result' = result /\ err' = err
           \/ pc' = "done" /\ result' = Priced(result)
           \/ pc' = "done" /\ result' = Priced([result EXCEPT !.output = "valid"])
    BY <1>7 DEF Check
  <2>2. result.model = "echoed" /\ result.tokens = paid /\ err = "none"
    BY <1>0, <2>1 DEF TokensInv
  <2>3. \/ pc' = "attempt" /\ result' = result /\ err' = err
        \/ /\ pc' = "done" /\ result'.tokens = result.tokens
           /\ agent.price = "known" => result'.cost = result'.tokens
    <3> DEFINE r == [result EXCEPT !.output = "valid"]
    <3>1. r \in Result /\ r.tokens = result.tokens /\ r.model = "echoed"
      BY <2>2, OutputFields
    <3>2. /\ Priced(result).tokens = result.tokens
          /\ agent.price = "known" => Priced(result).cost = Priced(result).tokens
      BY <1>0, <2>2, PricedFields
    <3>3. /\ Priced(r).tokens = result.tokens
          /\ agent.price = "known" => Priced(r).cost = Priced(r).tokens
      BY <3>1, PricedFields
    <3> HIDE DEF r
    <3>4. CASE pc' = "attempt" /\ result' = result /\ err' = err
      BY <3>4
    <3>5. CASE pc' = "done" /\ result' = Priced(result)
      BY <3>2, <3>5
    <3>6. CASE pc' = "done" /\ result' = Priced(r)
      BY <3>3, <3>6
    <3> USE DEF r
    <3> QED
      BY <2>1, <3>4, <3>5, <3>6
  <2> QED
    BY <1>0, <2>1, <2>2, <2>3 DEF TokensInv
<1>8. CASE UNCHANGED vars
  BY <1>8 DEF vars, TokensInv
<1> QED
  BY <1>1, <1>2, <1>3, <1>4, <1>5, <1>6, <1>7, <1>8 DEF Next

(* The products the bound on the calls is made of.                          *)
LEMMA Products ==
  /\ \A a \in Nat : a * MaxToolRounds \in Nat
  /\ \A a \in Nat \ {0} : (a - 1) * MaxToolRounds + MaxToolRounds = a * MaxToolRounds
  /\ \A a \in Nat : ((a + 1) - 1) * MaxToolRounds = a * MaxToolRounds
  /\ \A a, b \in Nat : a <= b => a * MaxToolRounds <= b * MaxToolRounds
BY RuntimeAssumption

(* A conversation stays within its rounds, and an attempt follows another.  *)
LEMMA CallsStep == TypeOK /\ CallsInv /\ BlocksInv /\ [Next]_vars => CallsInv'
<1> SUFFICES ASSUME TypeOK, CallsInv, BlocksInv, [Next]_vars PROVE CallsInv'
  OBVIOUS
<1> DEFINE T(a) == a * MaxToolRounds
<1>0. /\ result \in Result /\ usage \in Nat /\ attempt \in Nat /\ round \in 0..MaxToolRounds
      /\ calls \in Nat /\ MaxToolRounds \in Nat \ {0} /\ attempt \in 0..MaxAttempts
  BY RuntimeAssumption DEF TypeOK, Result
<1>m. "none" \in Model /\ "echoed" \in Model
  BY DEF Model
<1>p. /\ \A a \in Nat : T(a) \in Nat
      /\ attempt >= 1 => T(attempt - 1) + MaxToolRounds = T(attempt) /\ T(attempt - 1) \in Nat
      /\ T((attempt + 1) - 1) = T(attempt)
      /\ T(0) = 0 /\ T(1 - 1) = 0
  BY <1>0, Products
<1>e. /\ pc = "attempt" => calls <= T(attempt - 1)
      /\ pc = "call"  => calls <= T(attempt - 1) + round - 1 /\ 1 <= round
      /\ pc = "tools" => calls <= T(attempt - 1) + round /\ round < MaxToolRounds
      /\ pc = "check" => calls <= T(attempt - 1) + MaxToolRounds /\ result.attempts = attempt
      /\ pc = "done"  => calls <= T(result.attempts)
      /\ pc = "start" => calls = 0 /\ result.attempts = 0
      /\ pc \in {"attempt", "call", "tools", "check"} => attempt >= 1
  BY DEF CallsInv, Earlier
<1>q. ASSUME /\ pc' = "attempt" => calls' <= T(attempt' - 1)
             /\ pc' = "call"  => calls' <= T(attempt' - 1) + round' - 1 /\ 1 <= round'
             /\ pc' = "tools" => calls' <= T(attempt' - 1) + round' /\ round' < MaxToolRounds
             /\ pc' = "check" => calls' <= T(attempt' - 1) + MaxToolRounds
                                /\ result'.attempts = attempt'
             /\ pc' = "done"  => calls' <= T(result'.attempts)
             /\ pc' = "start" => calls' = 0 /\ result'.attempts = 0
             /\ pc' \in {"attempt", "call", "tools", "check"} => attempt' >= 1
      PROVE  CallsInv'
  BY <1>q DEF CallsInv, Earlier
<1>a. \A u \in Nat, m \in Model : Added(u, m).attempts = attempt
                                 /\ Priced(Added(u, m)).attempts = attempt
  BY ResultFields, PricedFields
<1> HIDE DEF T
<1>1. CASE GetType
  <2>1. pc = "start" /\ UNCHANGED <<calls, result>>
        /\ \/ pc' = "attempt" /\ attempt' = 1
           \/ pc' = "done" /\ attempt' = attempt
    BY <1>1 DEF GetType
  <2> QED
    BY <1>0, <1>e, <1>p, <1>q, <2>1
<1>2. CASE Resolve
  <2>1. pc = "attempt" /\ UNCHANGED <<calls, attempt>>
        /\ (\/ pc' = "done" /\ result'.attempts = attempt
            \/ pc' = "call" /\ round' = 1 /\ UNCHANGED result)
    BY <1>2, <1>a, <1>m DEF Resolve
  <2> QED
    BY <1>0, <1>e, <1>p, <1>q, <2>1
<1>3. CASE CallFails
  <2>1. pc = "call" /\ pc' = "done" /\ calls' = calls /\ result'.attempts = attempt
    BY <1>0, <1>3, <1>a, <1>m DEF CallFails
  <2> QED
    BY <1>0, <1>e, <1>p, <1>q, <2>1
<1>4. CASE FinalResponse
  <2>1. PICK t \in Tokens : Counted(t) /\ result' = Added(usage', "echoed")
    BY <1>4 DEF FinalResponse
  <2>2. calls' = calls + 1 /\ usage' \in Nat
    BY <1>0, <2>1, RuntimeAssumption DEF Counted
  <2>3. pc = "call" /\ pc' = "check" /\ attempt' = attempt /\ result'.attempts = attempt
    BY <1>4, <1>a, <1>m, <2>1, <2>2 DEF FinalResponse
  <2> QED
    BY <1>0, <1>e, <1>p, <1>q, <2>2, <2>3
<1>5. CASE ToolResponse
  <2>1. PICK t \in Tokens :
          /\ Counted(t)
          /\ \/ round = MaxToolRounds /\ pc' = "done" /\ result' = Priced(Added(usage', "echoed"))
             \/ round # MaxToolRounds /\ pc' = "tools" /\ result' = result
    BY <1>5 DEF ToolResponse
  <2>2. calls' = calls + 1 /\ usage' \in Nat
    BY <1>0, <2>1, RuntimeAssumption DEF Counted
  <2>3. pc = "call" /\ attempt' = attempt /\ round' = round
    BY <1>5 DEF ToolResponse
  <2>4. CASE round = MaxToolRounds /\ pc' = "done" /\ result' = Priced(Added(usage', "echoed"))
    <3>1. result'.attempts = attempt
      BY <1>a, <1>m, <2>2, <2>4
    <3> QED
      BY <1>0, <1>e, <1>p, <1>q, <2>2, <2>3, <2>4, <3>1
  <2>5. CASE round # MaxToolRounds /\ pc' = "tools" /\ result' = result
    BY <1>0, <1>e, <1>p, <1>q, <2>2, <2>3, <2>5
  <2> QED
    BY <2>1, <2>4, <2>5
<1>6. CASE DispatchTool
  <2>1. pc = "tools" /\ UNCHANGED <<attempt, calls, result>>
        /\ \/ pc' = "call" /\ round' = round + 1
           \/ pc' = pc /\ round' = round
    BY <1>6 DEF DispatchTool
  <2> QED
    BY <1>0, <1>e, <1>p, <1>q, <2>1
<1>7. CASE Check
  <2>1. /\ pc = "check" /\ calls' = calls
        /\ \/ pc' = "attempt" /\ attempt' = attempt + 1
           \/ pc' = "done" /\ result' \in {Priced(result), Priced([result EXCEPT !.output = "valid"])}
    BY <1>7 DEF Check
  <2>2. pc' = "done" => result'.attempts = attempt
    BY <1>0, <1>e, <2>1, OutputFields, PricedFields
  <2> QED
    BY <1>0, <1>e, <1>p, <1>q, <2>1, <2>2
<1>8. CASE UNCHANGED vars
  BY <1>8 DEF vars, CallsInv, Earlier
<1> QED
  BY <1>1, <1>2, <1>3, <1>4, <1>5, <1>6, <1>7, <1>8 DEF Next

(* Every tool_use block is answered before the next call.                   *)
LEMMA BlocksStep == TypeOK /\ BlocksInv /\ [Next]_vars => BlocksInv'
<1> SUFFICES ASSUME TypeOK, BlocksInv, [Next]_vars PROVE BlocksInv'
  OBVIOUS
<1>0. asked \in Nat /\ answered \in Nat /\ open \in Nat
  BY DEF TypeOK
<1>1. CASE ToolResponse
  <2>1. PICK b \in 1..MaxBlocks :
          \/ pc' = "done" /\ UNCHANGED <<open, asked>>
          \/ pc' = "tools" /\ open' = b /\ asked' = asked + b
    BY <1>1 DEF ToolResponse
  <2>2. pc = "call" /\ answered' = answered
    BY <1>1 DEF ToolResponse
  <2> QED
    BY <1>0, <2>1, <2>2, RuntimeAssumption DEF BlocksInv
<1>2. CASE DispatchTool
  <2>1. /\ pc = "tools" /\ open' = open - 1 /\ answered' = answered + 1 /\ asked' = asked
        /\ \/ open' = 0 /\ pc' = "call"
           \/ open' # 0 /\ pc' = pc
    BY <1>2 DEF DispatchTool
  <2> QED
    BY <1>0, <2>1 DEF BlocksInv
<1>3. CASE GetType \/ Resolve \/ CallFails \/ FinalResponse \/ Check \/ UNCHANGED vars
  <2>1. open' = open /\ asked' = asked /\ answered' = answered
    BY <1>3 DEF GetType, Resolve, CallFails, FinalResponse, Check, vars
  <2>2. pc' = pc \/ (pc # "tools" /\ pc' # "tools")
    BY <1>3 DEF GetType, Resolve, CallFails, FinalResponse, Check, vars
  <2> QED
    BY <1>0, <2>1, <2>2 DEF BlocksInv
<1> QED
  BY <1>1, <1>2, <1>3 DEF Next

(* Runtime.Invoke keeps its inductive invariant.                            *)
THEOREM InvokeInvariant == Spec => []IInv
<1>1. Init => IInv
  <2> SUFFICES ASSUME Init PROVE IInv
    OBVIOUS
  <2>1. result \in Result
    BY RuntimeAssumption DEF Init, Result, Model
  <2>2. TypeOK
    BY <2>1, RuntimeAssumption DEF Init, Texts, TypeOK, Result
  <2>3. TokensInv
    BY DEF Init, TokensInv
  <2>4. CallsInv /\ BlocksInv
    BY DEF Init, CallsInv, BlocksInv
  <2> QED
    BY <2>2, <2>3, <2>4 DEF IInv
<1>2. IInv /\ [Next]_vars => IInv'
  BY TypeStep, TokensStep, CallsStep, BlocksStep DEF IInv
<1> QED
  BY <1>1, <1>2, PTL DEF Spec

(* However Invoke ends, its result counts every token of every round and    *)
(* attempt (agent.go:136-137, 240-241).                                     *)
THEOREM TokensAreCounted == Spec => []TokensCounted
<1>1. IInv => TokensCounted
  BY DEF IInv, TypeOK, TokensInv, TokensCounted
<1> QED
  BY <1>1, InvokeInvariant, PTL

(* Only a failing call loses the price of tokens (agent.go:238, 527-535).   *)
THEOREM OnlyCutsLosePrice == Spec => []PricedUnlessCut
<1>1. IInv => PricedUnlessCut
  BY DEF IInv, TypeOK, TokensInv, PricedUnlessCut
<1> QED
  BY <1>1, InvokeInvariant, PTL

(* A step never makes more calls than its attempts times the tool rounds.   *)
THEOREM CallsAreBounded == Spec => []CallsBounded
<1>1. IInv => CallsBounded
  <2> SUFFICES ASSUME TypeOK, CallsInv PROVE CallsBounded
    BY DEF IInv
  <2> DEFINE T(a) == a * MaxToolRounds
  <2>1. /\ calls \in Nat /\ attempt \in Nat /\ result.attempts \in Nat /\ MaxAttempts \in Nat
        /\ attempt <= MaxAttempts /\ result.attempts <= MaxAttempts
        /\ MaxToolRounds \in Nat /\ round \in Nat /\ round <= MaxToolRounds
    BY RuntimeAssumption DEF TypeOK
  <2>2. /\ T(attempt) <= T(MaxAttempts) /\ T(result.attempts) <= T(MaxAttempts)
        /\ attempt >= 1 => T(attempt - 1) + MaxToolRounds = T(attempt)
        /\ T(attempt) \in Nat /\ T(MaxAttempts) \in Nat /\ T(result.attempts) \in Nat
        /\ attempt >= 1 => T(attempt - 1) \in Nat
    BY <2>1, Products
  <2>3. /\ pc = "start" => calls = 0
        /\ pc \in {"attempt", "call", "tools", "check"} => attempt >= 1
        /\ pc = "attempt" => calls <= T(attempt - 1)
        /\ pc = "call"  => calls <= T(attempt - 1) + round - 1
        /\ pc = "tools" => calls <= T(attempt - 1) + round
        /\ pc = "check" => calls <= T(attempt - 1) + MaxToolRounds
        /\ pc = "done"  => calls <= T(result.attempts)
    BY DEF CallsInv, Earlier
  <2>4. pc \in {"start", "attempt", "call", "tools", "check", "done"}
    BY DEF TypeOK
  <2> HIDE DEF T
  <2>5. calls <= T(MaxAttempts)
    BY <2>1, <2>2, <2>3, <2>4
  <2>6. pc = "done" => calls <= T(result.attempts)
    BY <2>3
  <2> USE DEF T
  <2> QED
    BY <2>5, <2>6 DEF CallsBounded
<1> QED
  BY <1>1, InvokeInvariant, PTL

(* No call is made with a tool_use block unanswered.                        *)
THEOREM ToolsAreAnswered == Spec => []Answered
<1>1. IInv => Answered
  BY DEF IInv, TypeOK, BlocksInv, Answered
<1> QED
  BY <1>1, InvokeInvariant, PTL
=============================================================================

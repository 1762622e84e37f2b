\* Two runctl that share an email and another run of what they save; a core
\* type, one added later and one that does not compile; three overlapping saves.
CONSTANTS
  Runctl = {r1, r2} Executor = {x1} Email = {e1} EmailOf <- MCEmailOf
  N = 2 Wiring <- MCWiring
  MaxFaults = 1 MaxDeletes = 1
  s1 = s1 s2 = s2 q1 = q1 q2 = q2 a = a b = b Empty = e
  Server = {s1, s2} Request = {q1, q2} ServedBy <- MCServedBy
  Type = {ta, tb, tc} CoreTypes = {ta} Broken = {tc} InputTypes = {{ta}} OutputTypes = {ta, tb}
  Template = {t1, t2}
  Tx = {x1, x2, x3} Lists <- MCLists
SYMMETRY Symmetry
SPECIFICATION MCSpec
INVARIANTS WholeGraph OneAccount TemplatesTyped RegistryIsSnapshot InSync
CHECK_DEADLOCK FALSE

SPECIFICATION MCSpec
SYMMETRY Symmetry
CONSTANTS
  o1 = o1
  o2 = o2
  o3 = o3
  x1 = x1
  x2 = x2
  c1 = c1
  c2 = c2
  c3 = c3
  c4 = c4
  Operators = {o1, o2, o3}
  Roles = {r1}
  Sites = {s1}
  Permissions = {"act", "manage"}
  Manage = "manage"
  All = All
  Actions = {x1, x2}
  Kind <- KindOf
  Required <- RequiredOf
  Requests = {q1}
  Workers = {w1, w2}
  None = None
  Staff = {o2}
  Grants <- Given
  Scopes <- Reach
  Commands = {c1, c2, c3, c4}
  Id <- IdOf
  Key <- KeyOf
  Operation <- OperationOf
  Target <- TargetOf
  Tokens = {"t"}
  Deliveries = {d1, d2, d3}
  NoCommand = NoCommand
INVARIANTS
  TwoOperators
  ExecutedMeansDone
  DoneOnce

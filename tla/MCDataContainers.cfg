SPECIFICATION Spec
CONSTANTS
  Clients = {c1, c2}
  Containers = {k1}
  Bundles = {b1}
  Downloads = {d1}
  Files = {f1}
  Values = {v1, v2}
  MaxActs = 1
  Absent = Absent
  None = None
INVARIANTS
  TypeOK
  LeftoverIsReported
PROPERTIES
  DataAnswersHold
  NeverOverwritten
CHECK_DEADLOCK FALSE
SYMMETRY Symmetry

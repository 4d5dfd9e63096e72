SPECIFICATION Spec
CONSTANTS
  Clients = {c1, c2}
  Containers = {k1, k2}
  Bundles = {b1}
  Downloads = {d1}
  Files = {f1}
  Values = {v1}
  MaxActs = 0
  Absent = Absent
  None = None
PROPERTIES
  ClearsOwnContainer
CHECK_DEADLOCK FALSE

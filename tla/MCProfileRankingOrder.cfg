SPECIFICATION Spec
CONSTANTS
  p1 = p1
  p2 = p2
  p3 = p3
  i1 = i1
  Profiles = {p1, p2}
  Identities = {i1}
  MaxScore = 1
INVARIANTS
  MostPreferredFirst
CHECK_DEADLOCK FALSE

SPECIFICATION Spec
CONSTANTS
  Sims = {s1, s2}
  Clients = {c1, c2}
  Apps = {a1}
  MaxMeddling = 1
INVARIANTS
  TypeOK
  RequestsAreFresh
PROPERTIES
  AnswersHold
CHECK_DEADLOCK FALSE

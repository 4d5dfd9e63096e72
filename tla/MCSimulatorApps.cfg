SPECIFICATION AppsSpec
CONSTANTS
  Sims = {s1}
  Clients = {c1, c2}
  Apps = {a1}
  Versions = {v1, v2}
  MaxMeddling = 1
INVARIANTS
  AppsTypeOK
  RequestsAreFresh
PROPERTIES
  AppAnswersHold
  AnswersHold
  ImplementsDevice
SYMMETRY Symmetry
CHECK_DEADLOCK FALSE

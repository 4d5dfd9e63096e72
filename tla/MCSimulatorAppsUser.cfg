SPECIFICATION AppsSpec
CONSTANTS
  Sims = {s1, s2}
  Clients = {c1}
  Apps = {a1}
  Versions = {v1, v2}
  MaxMeddling = 1
PROPERTIES
  EveryCommandAnswers
CHECK_DEADLOCK FALSE

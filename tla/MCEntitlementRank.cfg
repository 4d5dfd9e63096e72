SPECIFICATION Spec
CONSTANTS
  Keys = {k1, k2}
  Strings = {"a", "b", "*", "team.*", "YES", "NO"}
  Star = "*"
  TeamStars = {"team.*"}
  Values <- SomeValues
INVARIANTS
  TypeOK
  RankIsOfNoOrder
  ExactRanksFirst
CHECK_DEADLOCK FALSE

SPECIFICATION Spec
CONSTANTS
  App = App
  Objects = {o1, o2, calabash}
  Plugins = {x1}
  Calabash = calabash
  Resources = {calabash}
  t1 = t1
  t2 = t2
  q = q
  Profiles = {p1, p2, q}
  Teams = {t1, t2}
  TeamOf <- SomeTeams
  None = None
  MaxRuns = 2
  MaxMisjudged = 1
INVARIANTS
  TypeOK
  SealsHold
  OneTeamThroughout
SYMMETRY Symmetry
CHECK_DEADLOCK FALSE

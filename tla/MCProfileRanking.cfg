SPECIFICATION NamedSpec
CONSTANTS
  p1 = p1
  p2 = p2
  p3 = p3
  i1 = i1
  Profiles = {p1, p2, p3}
  Identities = {i1, i2}
  MaxScore = 1
INVARIANTS
  TypeOK
  NothingLost
  IndexInBounds
  SortedUnlessRaced
  MatchSuits
  IdentityFindsProfile
PROPERTIES
  ChoiceEnds
CHECK_DEADLOCK FALSE

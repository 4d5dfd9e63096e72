SPECIFICATION Spec
CONSTANTS
  Devices = {d1}
  Clients = {c1, c2}
  Versions = {v1, v2}
  Profiles = {p1, p2}
  None = None
  Unsigned = Unsigned
  Broken = Broken
INVARIANTS
  TypeOK
  SealedForDevice
  StoppedFirst
PROPERTIES
  ImplementsDevice
SYMMETRY Symmetry
CHECK_DEADLOCK FALSE

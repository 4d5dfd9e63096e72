SPECIFICATION Spec
CONSTANTS
  Clients = {c1, c2}
  Bundles = {b1}
  Files = {f1, f2}
  Values = {v1}
  MaxActs = 1
  None = None
  Absent = Absent
INVARIANTS
  TypeOK
PROPERTIES
  UploadsOneFile
  OverwritesOnlyWhenAsked
  CommandsEnd
CHECK_DEADLOCK FALSE

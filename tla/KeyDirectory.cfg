SPECIFICATION Spec
CONSTANTS
  Peers = {p1, p2}
  None = None
  Initial = 2
  Batch = 2
  Limit = 2
  MaxSends = 3
  MaxCrashes = 1
SYMMETRY Symmetry
INVARIANTS
  TypeOK
  SessionsWork
  DirectoryBacked
  NoSharedKey
PROPERTIES
  OrphansOnlyInWindow
CHECK_DEADLOCK FALSE

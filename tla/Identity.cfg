SPECIFICATION Spec
CONSTANTS
  MaxLogins = 2
  MaxReloads = 2
  MaxSockets = 3
  MaxTasks = 1
  Signouts = {c1, c2}
SYMMETRY Symmetry
INVARIANTS
  TypeOK
  KeysOfDevice
  OneSocket
  NoTokenLeft
CHECK_DEADLOCK FALSE

SPECIFICATION Spec
CONSTANTS
  Messages = {m1}
  Devices = {w, d}
  Watched = w
  Sockets = {k1, k2}
  NoSocket = NoSocket
  MaxReloads = 1
  MaxDrops = 1
  MaxCuts = 1
  MaxBreaks = 2
  MaxCrashes = 2
SYMMETRY Symmetry
INVARIANTS
  WrittenIsShown
PROPERTIES
  ImplementsLog
CHECK_DEADLOCK FALSE

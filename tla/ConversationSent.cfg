SPECIFICATION Spec
CONSTANTS
  Own = {o1, o2}
  Peer = {p1, p2}
  Devices = {d1, d2}
  MaxReloads = 2
  MaxDrops = 1
SYMMETRY Symmetry
INVARIANT SentWasHanded
CHECK_DEADLOCK FALSE

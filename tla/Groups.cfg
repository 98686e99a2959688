SPECIFICATION Spec
CONSTANTS
  Me = Me
  Users = {Me, u1}
  Msgs = {m1, m2}
  None = None
  MaxChanges = 2
  MaxDrops = 1
  MaxReloads = 2
SYMMETRY Symmetry
INVARIANTS
  TypeOK
  KeysStayInside
  NoneUnreadable
  NoneStranded
  IndexUsedOnce
PROPERTIES
  ImplementsAudience
CHECK_DEADLOCK FALSE

SPECIFICATION FairSpec
CONSTANTS
  Me = Me
  Users = {Me, u1, u2}
  Msgs = {m1, m2}
  None = None
  MaxChanges = 0
  MaxDrops = 0
  MaxReloads = 0
PROPERTIES
  EventuallyRead
CHECK_DEADLOCK FALSE

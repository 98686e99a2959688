SPECIFICATION FairSpec
CONSTANTS
  a = a
  b1 = b1
  b2 = b2
  A = A
  B = B
  None = None
  Devices = {a, b1, b2}
  Users = {A, B}
  MaxAttempts = 3
  MaxHangUps = 1
  Callers = {a}
  UserOf <- UserOfDef
INVARIANTS
  TypeOK
  RingingHasOffer
  MicInCall
  ConnectedHasPeer
PROPERTIES
  DeadCallsEnd
CHECK_DEADLOCK FALSE

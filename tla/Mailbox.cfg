SPECIFICATION FairSpec
CONSTANTS
  Msgs = {m1, m2}
  Sockets = {k1, k2}
  NoSocket = NoSocket
  MaxDrops = 2
  MaxCrashes = 2
INVARIANTS
  TypeOK
  HandledOnce
  RowsOnTheWay
PROPERTIES
  ImplementsStoreForward
  EventuallyDelivered
CHECK_DEADLOCK FALSE

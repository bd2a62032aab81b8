SPECIFICATION FairSpec
CONSTANTS
  a1 = a1  a2 = a2  b1 = b1  wa1 = wa1  wa2 = wa2  wb = wb
  None = None
  Events = {a1, a2, b1}
  Streams = {"a", "b"}
  Workers = {wa1, wa2, wb}
  StreamOf <- MCStreamOf
  InteractionOf <- OneInteraction
  CausesOf <- Mutual
  Malformed = {}
  MaxRestarts = 1
  MaxDisruptions = 2
INVARIANTS
  TypeOK
  ParkedIsNotIngested
  LedgerExtendsStream
  ConflictFree
  InteractionAcyclic
PROPERTIES
  SettledOrParked
  DeliveryPromise
CHECK_DEADLOCK FALSE

SPECIFICATION Spec
CONSTANTS
  Rows = {1, 2, 3}
  Documents = {1, 2}
  DocumentOf <- MCDocumentOf
  VersionOf <- MCVersionOf
  Replicas = {r1, r2}
  Serving = {r2}
  Archivable = {1}
  BatchSize = 2
  MaxRestarts = 1
INVARIANTS
  TypeOK
  DeliveredIsLive
PROPERTIES
  DeliveryPromise
  CommittedGoesLive
CHECK_DEADLOCK FALSE

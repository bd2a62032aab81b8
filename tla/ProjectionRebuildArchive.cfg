SPECIFICATION Spec
CONSTANTS
  Rows = {1, 2, 3}
  Documents = {1, 2}
  DocumentOf <- MCDocumentOf
  VersionOf <- MCVersionOf
  Replicas = {r1, r2}
  Serving = {}
  Archivable = {1}
  BatchSize = 2
  MaxRestarts = 1
PROPERTIES
  RebuildOutlivesArchiving
CHECK_DEADLOCK FALSE

\* Two queries, one database code, no stale results and no network
\* errors: the lock-order inversion needs none of them.
CONSTANTS
  N_QUERIES = 2
  DB_SIZE = 1
  Nodes = {0, 1, 2}
  StaleMsgs = {}
  NetworkErrors = FALSE
  MaxDeliveries = 1
  ArgChoices <- RandomArgs
SPECIFICATION Spec
INVARIANT NoLockCycle

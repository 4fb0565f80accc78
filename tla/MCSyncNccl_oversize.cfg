\* A rank whose SyncState does not fit SERIAL_SIZE (three deleted ids):
\* serialize fails on that rank before the all_gather is entered.
CONSTANTS
  Ranks = {0, 1, 2}
  WordSize = 2
  MAX_REQUESTS = 2
  MAX_REQUEST_ID_LEN = 1
  MaxDeleted = 3
  DbLens <- MCDbLens
  RequestIds <- MCRequestIds
SPECIFICATION Spec
PROPERTY EveryRankReturns

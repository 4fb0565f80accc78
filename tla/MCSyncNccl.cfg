\* Three ranks, every SyncState that fits the fixed wire size (including
\* ones that fill it exactly: two ids of MAX_REQUEST_ID_LEN bytes).
CONSTANTS
  Ranks = {0, 1, 2}
  WordSize = 2
  MAX_REQUESTS = 2
  MAX_REQUEST_ID_LEN = 1
  MaxDeleted = 2
  DbLens <- MCDbLens
  RequestIds <- MCRequestIds
SPECIFICATION Spec
INVARIANT TypeOK
PROPERTY RefinesSyncRound
PROPERTY RoundSucceeds
PROPERTY EveryRankReturns

\* One query, no stale results and no network errors: the receiver's
\* N_QUERIES * 3 receive calls are used up before results arrive.
CONSTANTS
  N_QUERIES = 1
  DB_SIZE = 1
  Nodes = {0, 1, 2}
  StaleMsgs = {}
  NetworkErrors = FALSE
  MaxDeliveries = 1
  ArgChoices <- RandomArgs
SPECIFICATION Spec
INVARIANT AllResultsChecked

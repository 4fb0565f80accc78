\* Two queries (enough for option 2 to resend a freshly enrolled code), one
\* database code, three nodes, one stale result from an earlier run, and
\* failing SNS/SQS calls, in random mode and in the three manual modes of
\* AllArgs.  A task parked on a Mutex is a stuttering step,
\* so the lock cycle is reported by the run client_lock_cycle, not here.
CONSTANTS
  N_QUERIES = 2
  DB_SIZE = 1
  Nodes = {0, 1, 2}
  StaleMsgs = {s1}
  NetworkErrors = TRUE
  MaxDeliveries = 2
  ArgChoices <- AllArgs
SPECIFICATION Spec
INVARIANT TypeOK
INVARIANT NoFailedCheck

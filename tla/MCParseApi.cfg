SPECIFICATION FairSpec
CONSTANTS
  None = None
  Documents = {d1}
  Jobs = {j1, j2}
  Requests = {q1, q2}
  Handlers = {h1}
  MaxRecoveries = 1
  MaxRetryCount = 1
INVARIANTS OneActiveJob ActiveJobHasDocument ResultIffSuccess
PROPERTIES Lifecycle TransactionsEnd

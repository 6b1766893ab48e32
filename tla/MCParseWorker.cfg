SPECIFICATION FairSpec
CONSTANTS
  d1 = d1  j1 = j1  j2 = j2  m1 = m1  m2 = m2 
  w1 = w1  w2 = w2  c1 = c1  c2 = c2  r1 = r1
  None = None
  Documents = {d1}
  Jobs = {j1}
  Messages = {m1}
  Workers = {w1}
  Consumers = {c1}
  Reclaimers = {r1}
  WorkerOf <- OneProcess
  MaxRecoveries = 1
  MaxRetries = 1
  MaxFaults = 2
  MaxLate = 1
INVARIANT RecoveryBudget
PROPERTIES Lifecycle RecoverOnlyExpired JobsSettle EntriesSettle

SPECIFICATION Spec
CONSTANTS
  d1 = d1  j1 = j1  j2 = j2  m1 = m1  m2 = m2 
  w1 = w1  w2 = w2  c1 = c1  c2 = c2  r1 = r1
  None = None
  Documents = {d1}
  Jobs = {j1}
  Messages = {m1, m2}
  Workers = {w1, w2}
  Consumers = {c1, c2}
  Reclaimers = {r1}
  WorkerOf <- TwoProcesses
  MaxRecoveries = 1
  MaxRetries = 0
  MaxFaults = 2
  MaxLate = 0
SYMMETRY Symmetry
INVARIANTS TypeOK OneRun RunOwnsJob

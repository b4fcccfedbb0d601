SPECIFICATION Spec
CONSTANTS
  r1 = r1
  c1 = c1
  c2 = c2
  k1 = k1
  k2 = k2
  wid = wid
  rwid = rwid
  Run = {r1}
  Chat = {c1, c2}
  Resume = {k1, k2}
  Worker = {wid, rwid}
  NoWorker = NoWorker
  RunOf <- MCRunOf
  WorkerOf <- MCWorkerOf
  Stalls = TRUE
  MaxFaults = 2
SYMMETRY Symmetry
INVARIANTS
  ModelCalledOnce
  SucceededIsPersisted
  AcknowledgedIsDurable
PROPERTIES
  ConclusionIsFinal
  ImplementsContract

CONSTANTS
  b1 = b1
  Batch <- MCBatch
  Members = {m1, m2}
  MaxWorkers = 1
SPECIFICATION FairSpec
INVARIANTS WorkersBounded ErrGroupOver
PROPERTIES WaitComplete StopReaches SubmitReturns
CHECK_DEADLOCK FALSE

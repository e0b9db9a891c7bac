CONSTANTS
  b1 = b1
  src = src
  h = h
  f1 = f1
  Yielders <- MCYielders
  NoValue = NoValue
  Direct = {d1}
  Batch <- MCBatch
  Source = src
  SourceBuf = 1
  Fetchers = {f1}
  FetchBuf = 1
  Handoff = h
  Closers = {c1, c2}
  MaxTasks = 1
SPECIFICATION FairSpec
INVARIANTS NoSendOnClosed TaskInOnePlace HandoffHasRoom PushAllOrError CloseNilMeansClosed DropIsReported
PROPERTIES CloseReturns
CHECK_DEADLOCK FALSE

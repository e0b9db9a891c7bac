CONSTANTS
  Tasks = {1}
  Priority <- MCPriority
  SeqNo <- MCSeqNo
  Mode = "priority"
  MaxAttempts = 3
  Consumers = {f}
  Feeder = f
  Redrivers = {}
  NoTask = NoTask
  MaxItems = 1
  Yielders = {s}
  Stream = s
  NoValue = 0
  Buffer = 1
SPECIFICATION FairStreamSpec
INVARIANTS ClaimInOnePlace
PROPERTIES StreamStops UndeliveredReaped
CHECK_DEADLOCK FALSE

CONSTANTS
  Tasks = {1}
  Priority <- MCPriority
  SeqNo <- MCSeqNo
  Mode = "priority"
  MaxAttempts = 1
  Consumers = {c1}
  Redrivers = {r1}
  NoTask = NoTask
  MaxItems = 2
SPECIFICATION Spec
INVARIANTS NoTaskLost
CHECK_DEADLOCK FALSE

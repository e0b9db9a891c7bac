CONSTANTS
  Tasks = {1}
  Priority <- MCPriority
  SeqNo <- MCSeqNo
  Mode = "priority"
  MaxAttempts = 2
  Consumers = {c1}
  Redrivers = {r1}
  NoTask = NoTask
  MaxItems = 2
SPECIFICATION FairSpec
INVARIANTS TypeOK ItemInOnePlace BoundedDelivery DeadOnlyExhausted NoSilentLoss
PROPERTIES LeaseEndsOnlyWhenDue ImplementsDelivery EventuallySettled ReaperStops
CHECK_DEADLOCK FALSE

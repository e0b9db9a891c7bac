CONSTANTS
  Jobs = {j1, j2}
  Size = 2
  MinSize = 1
  AutoScale = TRUE
  ScaleUpStep = 1
  IdleHeadroom = 1
  Backlog = 1
  NoJob = NoJob
  MaxJoins = 1
SPECIFICATION FairSpec
PROPERTIES CloseReturns JobsSettle
CHECK_DEADLOCK FALSE

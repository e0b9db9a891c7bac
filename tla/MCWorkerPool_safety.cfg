CONSTANTS
  Jobs = {j1, j2}
  Size = 2
  MinSize = 1
  AutoScale = TRUE
  ScaleUpStep = 1
  IdleHeadroom = 1
  Backlog = 1
  NoJob = NoJob
  MaxJoins = 2
SPECIFICATION Spec
INVARIANTS TypeOK JobInOnePlace MembershipConsistent OneLoopPerWorker GracefulDrains
SYMMETRY JobSymmetry
CHECK_DEADLOCK FALSE

CONSTANTS
  Jobs = {j1, j2}
  Pool = pool
  Never = Never
  MaxTime = 2
SPECIFICATION FairSpec
PROPERTIES ErrExplained FollowsParents SiblingReleased
CHECK_DEADLOCK FALSE

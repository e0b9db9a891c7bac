CONSTANTS
  t1 = t1
  c1 = c1
  Tasks = {t1}
  Ctxs = {c1}
  CtxOf <- MCCtxOf
  Defs <- MCDefs
  Width = 4
  BaseDelay = 3
  MaxDelay = 5
  RetryDelay = 1
  MaxRuns = 3
  MaxMore = 2
SPECIFICATION FairSpec
INVARIANTS ErrAfterAwait RunsDisjoint RetryBudget
PROPERTIES BackoffGrows AwaitReturns RetryReturns
CHECK_DEADLOCK FALSE

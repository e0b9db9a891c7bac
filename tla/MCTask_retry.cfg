CONSTANTS
  t1 = t1
  c1 = c1
  Tasks = {t1}
  Ctxs = {c1}
  CtxOf <- MCCtxOf
  Defs <- MCDefs
  Width = 4
  BaseDelay = 3
  MaxDelay = 5
  RetryDelay = 1
  MaxRuns = 2
  MaxMore = 2
SPECIFICATION Spec
INVARIANTS NilMeansNotFailed
CHECK_DEADLOCK FALSE

------------------------------- MODULE MCTask --------------------------------
(* Model checking Task: one task, with every kind of retry strategy. *)
EXTENDS Task

CONSTANTS t1, c1

MCCtxOf == [t \in {t1} |-> c1]

Options(max, strategy, jitter) ==
  [maxRetries |-> max, strategy |-> strategy, jitter |-> jitter]

MCDefs == {Options(0, "none", FALSE), Options(2, "none", FALSE),
           Options(3, "linear", FALSE), Options(3, "exponential", FALSE),
           Options(1, "exponential", TRUE)}
==============================================================================

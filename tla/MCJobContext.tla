---------------------------- MODULE MCJobContext -----------------------------
(* Model checking JobContext, and Value against what its comment says. *)
EXTENDS JobContext

\* The value of the Submit context shadows that of the pool's.
ASSUME ValueShadows ==
  \A poolVal, submitVal \in 0 .. 2 :
    Value(poolVal, submitVal, 0) = IF submitVal # 0 THEN submitVal ELSE poolVal
==============================================================================

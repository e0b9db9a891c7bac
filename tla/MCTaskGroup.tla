----------------------------- MODULE MCTaskGroup -----------------------------
(* Model checking TaskGroup: a batch and an errgroup share the workers. *)
EXTENDS TaskGroup

CONSTANTS b1

MCBatch == <<b1>>
==============================================================================

---------------------------- MODULE MCWorkerPool ----------------------------
(* Model checking WorkerPool: the jobs are interchangeable. *)
EXTENDS WorkerPool, TLC

JobSymmetry == Permutations(Jobs)
=============================================================================

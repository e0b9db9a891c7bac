---------------------------- MODULE MCTaskQueue ----------------------------
(* Constant values for model checking TaskQueue: a later task is urgent.    *)
EXTENDS QueueRefinement

MCPriority == [t \in Tasks |-> t]
MCSeqNo    == [t \in Tasks |-> t]
============================================================================

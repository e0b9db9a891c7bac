------------------------------ MODULE MCStream -------------------------------
(* Constant values for model checking Stream. *)
EXTENDS Stream

MCPriority == [t \in Tasks |-> t]
MCSeqNo    == [t \in Tasks |-> t]
==============================================================================

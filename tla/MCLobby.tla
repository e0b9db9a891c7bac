------------------------------- MODULE MCLobby -------------------------------
(* Model checking Lobby: the batch given to PushTasks. *)
EXTENDS Lobby

CONSTANTS b1, src, h, f1

MCBatch == <<b1>>
MCYielders == {src, h, f1}
==============================================================================

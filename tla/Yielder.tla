------------------------------- MODULE Yielder -------------------------------
(***************************************************************************)
(* The one-shot generators of pkg/yielder (yielder.go).  A yielder runs a   *)
(* goroutine that puts values on its results channel, from a generator      *)
(* function or from an upstream channel, until it is finished, stopped, or  *)
(* its context is done; the context ends with the hard timeout of New, with *)
(* the parent context, with Stop and StopErr.                               *)
(*                                                                         *)
(* This module has the state and the steps of the yielders; Lobby and       *)
(* Stream extend it and say who creates them and who reads their results.   *)
(***************************************************************************)
EXTENDS Naturals, Sequences

CONSTANTS
  Yielders,   \* the yielders that may be created
  NoValue     \* no value is in hand

VARIABLES
  y,            \* the state of each yielder
  input,        \* the upstream channel of WithInputChannel
  inputClosed,  \* the upstream channel is closed
  dropped       \* history: <<yielder, value>> taken from input and dropped

yielderVars == <<y, input, inputClosed, dropped>>

NotCreated == [pc |-> "none", hand |-> NoValue, todo |-> <<>>, results |-> <<>>,
               room |-> 0, err |-> "none", ctxDone |-> FALSE]

YielderInit ==
  /\ y = [i \in Yielders |-> NotCreated]
  /\ input = <<>>
  /\ inputClosed = FALSE
  /\ dropped = {}

\* New with a live ctx: the buffer defaults to 1, the goroutine starts.  pc is
\* "call" for a generator function, "recv" for an upstream channel.
New(i, pc, buf) ==
  y' = [y EXCEPT ![i] = [NotCreated EXCEPT !.pc = pc,
                                           !.room = IF buf = 0 THEN 1 ELSE buf]]

\* setErr keeps the first error.
FirstErr(i, e) == IF y[i].err = "none" THEN e ELSE y[i].err

\* Yielder i goes from one program counter to another, recording an error.
Step(i, from, to, e) ==
  /\ y[i].pc = from
  /\ y' = [y EXCEPT ![i].pc = to, ![i].err = FirstErr(i, e)]
  /\ UNCHANGED <<input, inputClosed, dropped>>

----------------------------------------------------------------------------
(* A generator function, or a slice. *)

Generate(i, values) ==
  /\ y[i].pc = "call"
  /\ y' = [y EXCEPT ![i].pc = "emit", ![i].todo = values]
  /\ UNCHANGED <<input, inputClosed, dropped>>

\* The function returned an error, or panicked and was recovered.
GenerateFail(i) == Step(i, "call", "closing", "failed")

Emit(i) ==
  /\ y[i].pc = "emit"
  /\ y[i].todo # <<>>
  /\ Len(y[i].results) < y[i].room
  /\ y' = [y EXCEPT ![i].todo = Tail(@),
                    ![i].results = Append(@, Head(y[i].todo))]
  /\ UNCHANGED <<input, inputClosed, dropped>>

EmitStopped(i) ==
  /\ y[i].todo # <<>>
  /\ y[i].ctxDone
  /\ Step(i, "emit", "closing", "stopped")

EmitAll(i) ==
  /\ y[i].todo = <<>>
  /\ Step(i, "emit", "closing", "none")

----------------------------------------------------------------------------
(* WithInputChannel. *)

Receive(i) ==
  /\ y[i].pc = "recv"
  /\ input # <<>>
  /\ y' = [y EXCEPT ![i].pc = "send", ![i].hand = Head(input)]
  /\ input' = Tail(input)
  /\ UNCHANGED <<inputClosed, dropped>>

InputClosed(i) ==
  /\ input = <<>>
  /\ inputClosed
  /\ Step(i, "recv", "closing", "input closed")

ReceiveStopped(i) ==
  /\ y[i].ctxDone
  /\ Step(i, "recv", "closing", "stopped")

Forward(i) ==
  /\ y[i].pc = "send"
  /\ Len(y[i].results) < y[i].room
  /\ y' = [y EXCEPT ![i].pc = "recv", ![i].hand = NoValue,
                    ![i].results = Append(@, y[i].hand)]
  /\ UNCHANGED <<input, inputClosed, dropped>>

\* Mutant: the generator returns without an error.
ForwardStoppedSilently(i) ==
  /\ y[i].pc = "send"
  /\ y[i].ctxDone
  /\ y' = [y EXCEPT ![i].pc = "closing", ![i].hand = NoValue]
  /\ dropped' = dropped \cup {<<i, y[i].hand>>}
  /\ UNCHANGED <<input, inputClosed>>

\* The select may take ctx.Done though there is room: the value is gone.
ForwardStopped(i) ==
  /\ y[i].pc = "send"
  /\ y[i].ctxDone
  /\ y' = [y EXCEPT ![i].pc = "closing", ![i].hand = NoValue,
                    ![i].err = FirstErr(i, "stopped")]
  /\ dropped' = dropped \cup {<<i, y[i].hand>>}
  /\ UNCHANGED <<input, inputClosed>>

----------------------------------------------------------------------------
\* The deferred cancel, close(genChan) and close(doneCh).
Finish(i) ==
  /\ y[i].pc = "closing"
  /\ y' = [y EXCEPT ![i].pc = "done", ![i].ctxDone = TRUE]
  /\ UNCHANGED <<input, inputClosed, dropped>>

\* The goroutine of yielder i; its generator function may return `values`.
YielderStep(i, values) ==
  \/ Generate(i, values) \/ GenerateFail(i)
  \/ Emit(i) \/ EmitStopped(i) \/ EmitAll(i)
  \/ Receive(i) \/ InputClosed(i) \/ ReceiveStopped(i)
  \/ Forward(i) \/ ForwardStopped(i)
  \/ Finish(i)

\* The hard timeout of New, or the parent context.
Timeout(i) ==
  /\ y[i].pc # "none"
  /\ ~y[i].ctxDone
  /\ y' = [y EXCEPT ![i].ctxDone = TRUE]
  /\ UNCHANGED <<input, inputClosed, dropped>>

\* Stop and StopErr, at any time, after the end too.
Stop(i) ==
  /\ y[i].pc # "none"
  /\ y' = [y EXCEPT ![i].err = FirstErr(i, "stopped"), ![i].ctxDone = TRUE]
  /\ UNCHANGED <<input, inputClosed, dropped>>

----------------------------------------------------------------------------
\* A yielder that dropped a value, or left some of its values behind, says so
\* once it is done: Err() is neither nil nor ErrInputClosed, which README.md
\* gives as the error of an upstream channel whose every value was delivered.
DropIsReported ==
  \A i \in Yielders :
    /\ y[i].pc \in {"closing", "done"}
    /\ y[i].err \in {"none", "input closed"}
    => y[i].todo = <<>> /\ \A d \in dropped : d[1] # i
==============================================================================

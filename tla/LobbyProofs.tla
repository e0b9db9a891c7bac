----------------------------- MODULE LobbyProofs -----------------------------
(***************************************************************************)
(* Machine-checked safety of Lobby and of the yielders it is used through, *)
(* for every set of tasks, fetchers and closers, every batch and every     *)
(* buffer size.                                                            *)
(***************************************************************************)
EXTENDS Lobby, ChannelTheorems, FiniteSetTheorems

Pcs  == {"none", "call", "emit", "recv", "send", "closing", "done"}
Errs == {"none", "input closed", "failed", "stopped"}

YielderState == [pc : Pcs, hand : LobbyTasks \cup {NoValue},
                 todo : Seq(LobbyTasks), results : Seq(LobbyTasks), room : Nat,
                 err : Errs, ctxDone : BOOLEAN]

Submits == {"idle", "select", "accepted", "refused"}
Pushers == {"idle", "wait", "push", "failed", "nil"}
Closes  == {"idle", "store", "once", "lock", "build", "nil", "failed",
            "ErrLobbyClosed"}

\* The values the variables take.
LobbyType ==
  /\ y \in [Yielders -> YielderState]
  /\ input \in Seq(LobbyTasks)
  /\ submit \in [LobbyTasks -> Submits]
  /\ pusher \in Pushers
  /\ closer \in [Closers -> Closes]
  /\ once \in {"new", "running", "done"}
  /\ delivered \in [LobbyTasks -> Nat]

----------------------------------------------------------------------------
(* Closing. *)

\* What a closer's place in CloseContext says of the lobby.
CloserOK(c) ==
  /\ closer[c] \in {"once", "lock", "build", "nil", "failed"} => closed
  /\ closer[c] \in {"lock", "build"} => once = "running"
  /\ closer[c] \in {"nil", "failed"} => once = "done"
  /\ closer[c] = "build" => Writable

\* One closer at a time is past onceClose, and while there was none or it is
\* not through the incoming channel is open.
OnceInv ==
  /\ \A c, d \in Closers :
       closer[c] \in {"lock", "build"} /\ closer[d] \in {"lock", "build"} => c = d
  /\ once = "done" => handoff \/ \E c \in Closers : closer[c] = "failed"
  /\ inputClosed <=> once = "done"
  /\ inputClosed => closed /\ Writable

\* The hand-off exists only after the submissions under way were waited for.
HandoffInv ==
  y[Handoff].pc # "none" =>
    inputClosed \/ \E c \in Closers : closer[c] = "build"

CloseInv == (\A c \in Closers : CloserOK(c)) /\ OnceInv /\ HandoffInv

----------------------------------------------------------------------------
(* The yielders. *)

Running == {"none", "call", "emit", "recv", "send"}

\* DropIsReported for one yielder.
Reported(i) ==
  y[i].pc \in {"closing", "done"} /\ y[i].err \in {"none", "input closed"} =>
    y[i].todo = <<>> /\ \A d \in dropped : d[1] # i

\* A yielder holds a value only in its select, has values left to emit only
\* from a function, and has neither dropped one nor seen its input closed
\* before it goes to its end.
YielderOK(i) ==
  /\ Reported(i)
  /\ y[i].pc = "send" <=> y[i].hand # NoValue
  /\ y[i].pc \notin {"emit", "closing", "done"} => y[i].todo = <<>>
  /\ y[i].pc \in Running => /\ y[i].err # "input closed"
                            /\ \A d \in dropped : d[1] # i
  /\ y[i].pc = "none" => y[i].err = "none" /\ y[i].results = <<>>
  /\ i = Source => y[i].pc \notin {"recv", "send"} /\ y[i].hand = NoValue
  /\ i # Source => y[i].pc \notin {"call", "emit"} /\ y[i].todo = <<>>

YielderInv ==
  /\ \A i \in Yielders : YielderOK(i)
  /\ pusher = "idle" => y[Source].pc = "none"

\* The hand-off has room for what it has, holds and may still receive.
RoomInv ==
  /\ y[Handoff].pc # "none" =>
       Len(input) + Len(y[Handoff].results) <= y[Handoff].room
  /\ y[Handoff].pc = "send" =>
       Len(input) + Len(y[Handoff].results) < y[Handoff].room

LInv == LobbyType /\ CloseInv /\ YielderInv /\ RoomInv

----------------------------------------------------------------------------
(* PushTasks. *)

\* Until PushTasks goes on to submit, the values of the batch are with its
\* yielder, which leaves none behind without an error; then the tasks that are
\* not submitted yet are among its results.
PushInv ==
  /\ pusher = "wait" /\ y[Source].pc = "emit" =>
       BatchTasks \subseteq Elems(y[Source].todo) \cup Elems(y[Source].results)
  /\ pusher = "wait" /\ y[Source].pc \in {"closing", "done"}
       /\ y[Source].err = "none" =>
       BatchTasks \subseteq Elems(y[Source].results)
  /\ pusher = "push" =>
       \A t \in BatchTasks : submit[t] = "idle" => t \in Elems(y[Source].results)
  /\ pusher = "nil" => \A t \in BatchTasks : submit[t] = "accepted"

----------------------------------------------------------------------------
(* The place of a task. *)

Kinds == {"input", "delivered", "hand", "results", "dropped"}

\* Task t is in the incoming channel or with a consumer (i is then Source), or
\* it is in the hand or among the results of reader i, or was dropped by it.
At(k, i, t) ==
  \/ k = "input" /\ i = Source /\ t \in Elems(input)
  \/ k = "delivered" /\ i = Source /\ delivered[t] = 1
  \/ k = "hand" /\ i \in Readers /\ y[i].hand = t
  \/ k = "results" /\ i \in Readers /\ t \in Elems(y[i].results)
  \/ k = "dropped" /\ i \in Readers /\ <<i, t>> \in dropped

\* A task is somewhere exactly when it was accepted, in one place only.
OnePlace(t) ==
  /\ submit[t] = "accepted" <=> \E k \in Kinds, i \in Yielders : At(k, i, t)
  /\ \A k, m \in Kinds, i, j \in Yielders :
       At(k, i, t) /\ At(m, j, t) => k = m /\ i = j

\* Nor is it twice in one channel, or received twice.
PlaceInv ==
  /\ \A t \in LobbyTasks : OnePlace(t)
  /\ Injective(input)
  /\ \A i \in Readers : Injective(y[i].results)
  /\ \A t \in LobbyTasks : delivered[t] \in {0, 1}

----------------------------------------------------------------------------
(* Types. *)

\* A new lobby.
LEMMA TypeInit == Init => LobbyType
<1> SUFFICES ASSUME Init PROVE LobbyType
  OBVIOUS
<1>1. NotCreated \in YielderState
  BY EmptyElems DEF NotCreated, YielderState, Pcs, Errs
<1> QED
  BY <1>1, EmptyElems
     DEF Init, YielderInit, LobbyType, Submits, Pushers, Closes

----------------------------------------------------------------------------
(* What each step does to the state of its yielder. *)

\* The step changes no yielder but i.
Only(i) == /\ y' \in [Yielders -> YielderState]
           /\ \A j \in Yielders : j # i => y'[j] = y[j]

\* A yielder gets a new state.
LEMMA YielderSet ==
  ASSUME y \in [Yielders -> YielderState], NEW i \in Yielders,
         NEW s \in YielderState, y' = [y EXCEPT ![i] = s]
  PROVE  Only(i) /\ y'[i] = s
BY DEF Only

\* yielder.New.
LEMMA NewFacts ==
  ASSUME y \in [Yielders -> YielderState], NEW i \in Yielders,
         NEW pc \in Pcs, NEW buf \in Nat, New(i, pc, buf)
  PROVE  /\ Only(i)
         /\ y'[i].pc = pc /\ y'[i].hand = NoValue /\ y'[i].todo = <<>>
         /\ y'[i].results = <<>> /\ y'[i].err = "none"
         /\ y'[i].room = IF buf = 0 THEN 1 ELSE buf
<1> DEFINE s == [NotCreated EXCEPT !.pc = pc,
                                   !.room = IF buf = 0 THEN 1 ELSE buf]
<1>1. s \in YielderState
  BY EmptyElems DEF NotCreated, YielderState, Errs
<1>2. y' = [y EXCEPT ![i] = s]
  BY DEF New
<1> QED
  BY <1>1, <1>2, YielderSet DEF NotCreated

\* A change of the program counter that may record an error: the first stays.
LEMMA StepFacts ==
  ASSUME y \in [Yielders -> YielderState], NEW i \in Yielders,
         NEW from, NEW to \in Pcs, NEW e \in Errs, Step(i, from, to, e)
  PROVE  /\ Only(i) /\ y[i].pc = from
         /\ y'[i].pc = to /\ y'[i].hand = y[i].hand /\ y'[i].todo = y[i].todo
         /\ y'[i].results = y[i].results /\ y'[i].room = y[i].room
         /\ y'[i].err = IF y[i].err = "none" THEN e ELSE y[i].err
         /\ UNCHANGED <<input, inputClosed, dropped>>
<1> DEFINE s == [y[i] EXCEPT !.pc = to, !.err = FirstErr(i, e)]
<1>1. s \in YielderState
  BY DEF YielderState, FirstErr
<1>2. y' = [y EXCEPT ![i] = s]
  BY DEF Step
<1>3. s.pc = to /\ s.hand = y[i].hand /\ s.todo = y[i].todo
     /\ s.results = y[i].results /\ s.room = y[i].room
     /\ s.err = FirstErr(i, e)
  BY DEF YielderState
<1> HIDE DEF s
<1>4. Only(i) /\ y'[i] = s
  BY <1>1, <1>2, YielderSet
<1> QED
  BY <1>3, <1>4 DEF Step, FirstErr

\* The generator function returned its values.
LEMMA GenerateFacts ==
  ASSUME y \in [Yielders -> YielderState], NEW i \in Yielders,
         NEW v \in Seq(LobbyTasks), Generate(i, v)
  PROVE  /\ Only(i) /\ y[i].pc = "call"
         /\ y'[i].pc = "emit" /\ y'[i].hand = y[i].hand /\ y'[i].todo = v
         /\ y'[i].results = y[i].results /\ y'[i].room = y[i].room
         /\ y'[i].err = y[i].err
         /\ UNCHANGED <<input, inputClosed, dropped>>
<1> DEFINE s == [y[i] EXCEPT !.pc = "emit", !.todo = v]
<1>1. s \in YielderState
  BY DEF YielderState, Pcs
<1>2. y' = [y EXCEPT ![i] = s]
  BY DEF Generate
<1>3. s.pc = "emit" /\ s.hand = y[i].hand /\ s.todo = v
     /\ s.results = y[i].results /\ s.room = y[i].room /\ s.err = y[i].err
  BY DEF YielderState
<1> HIDE DEF s
<1>4. Only(i) /\ y'[i] = s
  BY <1>1, <1>2, YielderSet
<1> QED
  BY <1>3, <1>4 DEF Generate

\* One value of a generator function goes to the results.
LEMMA EmitFacts ==
  ASSUME y \in [Yielders -> YielderState], NEW i \in Yielders, Emit(i)
  PROVE  /\ Only(i) /\ y[i].pc = "emit" /\ y[i].todo # <<>>
         /\ y'[i].pc = "emit" /\ y'[i].hand = y[i].hand
         /\ y'[i].todo = Tail(y[i].todo)
         /\ y'[i].results = Append(y[i].results, Head(y[i].todo))
         /\ y'[i].room = y[i].room /\ y'[i].err = y[i].err
         /\ UNCHANGED <<input, inputClosed, dropped>>
<1> DEFINE s == [y[i] EXCEPT !.todo = Tail(@),
                             !.results = Append(@, Head(y[i].todo))]
<1>1. y[i].todo \in Seq(LobbyTasks) /\ y[i].results \in Seq(LobbyTasks)
      /\ y[i].todo # <<>> /\ y[i].pc = "emit"
  BY DEF YielderState, Emit
<1>2. Tail(y[i].todo) \in Seq(LobbyTasks)
      /\ Append(y[i].results, Head(y[i].todo)) \in Seq(LobbyTasks)
  BY <1>1, TailElems, AppendElems
<1>3. s \in YielderState
  BY <1>2 DEF YielderState
<1>4. y' = [y EXCEPT ![i] = s]
  BY DEF Emit
<1>5. s.pc = y[i].pc /\ s.hand = y[i].hand /\ s.todo = Tail(y[i].todo)
     /\ s.results = Append(y[i].results, Head(y[i].todo))
     /\ s.room = y[i].room /\ s.err = y[i].err
  BY DEF YielderState
<1> HIDE DEF s
<1>6. Only(i) /\ y'[i] = s
  BY <1>3, <1>4, YielderSet
<1> QED
  BY <1>1, <1>5, <1>6 DEF Emit

\* A value is taken from the upstream channel ...
LEMMA ReceiveFacts ==
  ASSUME y \in [Yielders -> YielderState], input \in Seq(LobbyTasks),
         NEW i \in Yielders, Receive(i)
  PROVE  /\ Only(i) /\ y[i].pc = "recv" /\ input # <<>>
         /\ input' = Tail(input) /\ input' \in Seq(LobbyTasks)
         /\ y'[i].pc = "send" /\ y'[i].hand = Head(input)
         /\ y'[i].todo = y[i].todo /\ y'[i].results = y[i].results
         /\ y'[i].room = y[i].room /\ y'[i].err = y[i].err
         /\ UNCHANGED <<inputClosed, dropped>>
<1> DEFINE s == [y[i] EXCEPT !.pc = "send", !.hand = Head(input)]
<1>1. input # <<>> /\ Head(input) \in LobbyTasks /\ Tail(input) \in Seq(LobbyTasks)
  BY TailElems DEF Receive
<1>2. s \in YielderState
  BY <1>1 DEF YielderState, Pcs
<1>3. y' = [y EXCEPT ![i] = s]
  BY DEF Receive
<1>4. s.pc = "send" /\ s.hand = Head(input) /\ s.todo = y[i].todo
     /\ s.results = y[i].results /\ s.room = y[i].room /\ s.err = y[i].err
  BY DEF YielderState
<1> HIDE DEF s
<1>5. Only(i) /\ y'[i] = s
  BY <1>2, <1>3, YielderSet
<1> QED
  BY <1>1, <1>4, <1>5 DEF Receive

\* ... and forwarded ...
LEMMA ForwardFacts ==
  ASSUME y \in [Yielders -> YielderState], NEW i \in Yielders, Forward(i),
         y[i].hand \in LobbyTasks
  PROVE  /\ Only(i) /\ y[i].pc = "send"
         /\ y'[i].pc = "recv" /\ y'[i].hand = NoValue
         /\ y'[i].todo = y[i].todo
         /\ y'[i].results = Append(y[i].results, y[i].hand)
         /\ y'[i].room = y[i].room /\ y'[i].err = y[i].err
         /\ UNCHANGED <<input, inputClosed, dropped>>
<1> DEFINE s == [y[i] EXCEPT !.pc = "recv", !.hand = NoValue,
                             !.results = Append(@, y[i].hand)]
<1>1. Append(y[i].results, y[i].hand) \in Seq(LobbyTasks)
  BY AppendElems DEF YielderState
<1>2. s \in YielderState
  BY <1>1 DEF YielderState, Pcs
<1>3. y' = [y EXCEPT ![i] = s]
  BY DEF Forward
<1>4. s.pc = "recv" /\ s.hand = NoValue /\ s.todo = y[i].todo
     /\ s.results = Append(y[i].results, y[i].hand)
     /\ s.room = y[i].room /\ s.err = y[i].err
  BY DEF YielderState
<1> HIDE DEF s
<1>5. Only(i) /\ y'[i] = s
  BY <1>2, <1>3, YielderSet
<1> QED
  BY <1>4, <1>5 DEF Forward

\* ... or dropped, which is an error.
LEMMA ForwardStoppedFacts ==
  ASSUME y \in [Yielders -> YielderState], NEW i \in Yielders, ForwardStopped(i)
  PROVE  /\ Only(i) /\ y[i].pc = "send"
         /\ y'[i].pc = "closing" /\ y'[i].hand = NoValue
         /\ y'[i].todo = y[i].todo /\ y'[i].results = y[i].results
         /\ y'[i].room = y[i].room
         /\ y'[i].err = IF y[i].err = "none" THEN "stopped" ELSE y[i].err
         /\ dropped' = dropped \cup {<<i, y[i].hand>>}
         /\ UNCHANGED <<input, inputClosed>>
<1> DEFINE s == [y[i] EXCEPT !.pc = "closing", !.hand = NoValue,
                             !.err = FirstErr(i, "stopped")]
<1>1. s \in YielderState
  BY DEF YielderState, Pcs, Errs, FirstErr
<1>2. y' = [y EXCEPT ![i] = s]
  BY DEF ForwardStopped
<1>3. s.pc = "closing" /\ s.hand = NoValue /\ s.todo = y[i].todo
     /\ s.results = y[i].results /\ s.room = y[i].room
     /\ s.err = FirstErr(i, "stopped")
  BY DEF YielderState
<1> HIDE DEF s
<1>4. Only(i) /\ y'[i] = s
  BY <1>1, <1>2, YielderSet
<1> QED
  BY <1>3, <1>4 DEF ForwardStopped, FirstErr

\* The end of the goroutine, and the steps of others that concern its context.
LEMMA ContextFacts ==
  ASSUME y \in [Yielders -> YielderState], NEW i \in Yielders,
         Finish(i) \/ Timeout(i) \/ Stop(i)
  PROVE  /\ Only(i) /\ y[i].pc # "none"
         /\ \/ y[i].pc = "closing" /\ y'[i].pc = "done"
            \/ y'[i].pc = y[i].pc
         /\ y'[i].hand = y[i].hand /\ y'[i].todo = y[i].todo
         /\ y'[i].results = y[i].results /\ y'[i].room = y[i].room
         /\ \/ y'[i].err = y[i].err
            \/ y[i].err = "none" /\ y'[i].err = "stopped"
         /\ UNCHANGED <<input, inputClosed, dropped>>
<1>1. CASE Finish(i)
  <2> DEFINE s == [y[i] EXCEPT !.pc = "done", !.ctxDone = TRUE]
  <2>1. s \in YielderState
    BY DEF YielderState, Pcs
  <2>2. y' = [y EXCEPT ![i] = s]
    BY <1>1 DEF Finish
  <2>3. s.pc = "done" /\ s.hand = y[i].hand /\ s.todo = y[i].todo
       /\ s.results = y[i].results /\ s.room = y[i].room /\ s.err = y[i].err
    BY DEF YielderState
  <2> HIDE DEF s
  <2>4. Only(i) /\ y'[i] = s
    BY <2>1, <2>2, YielderSet
  <2> QED
    BY <1>1, <2>3, <2>4 DEF Finish
<1>2. CASE Timeout(i)
  <2> DEFINE s == [y[i] EXCEPT !.ctxDone = TRUE]
  <2>1. s \in YielderState
    BY DEF YielderState
  <2>2. y' = [y EXCEPT ![i] = s]
    BY <1>2 DEF Timeout
  <2>3. s.pc = y[i].pc /\ s.hand = y[i].hand /\ s.todo = y[i].todo
       /\ s.results = y[i].results /\ s.room = y[i].room /\ s.err = y[i].err
    BY DEF YielderState
  <2> HIDE DEF s
  <2>4. Only(i) /\ y'[i] = s
    BY <2>1, <2>2, YielderSet
  <2> QED
    BY <1>2, <2>3, <2>4 DEF Timeout
<1>3. CASE Stop(i)
  <2> DEFINE s == [y[i] EXCEPT !.err = FirstErr(i, "stopped"), !.ctxDone = TRUE]
  <2>1. s \in YielderState
    BY DEF YielderState, Errs, FirstErr
  <2>2. y' = [y EXCEPT ![i] = s]
    BY <1>3 DEF Stop
  <2>3. s.pc = y[i].pc /\ s.hand = y[i].hand /\ s.todo = y[i].todo
       /\ s.results = y[i].results /\ s.room = y[i].room
       /\ s.err = FirstErr(i, "stopped")
    BY DEF YielderState
  <2> HIDE DEF s
  <2>4. Only(i) /\ y'[i] = s
    BY <2>1, <2>2, YielderSet
  <2> QED
    BY <1>3, <2>3, <2>4 DEF Stop, FirstErr
<1> QED
  BY <1>1, <1>2, <1>3

\* A consumer takes the first result of a yielder.
LEMMA TakeFacts ==
  ASSUME y \in [Yielders -> YielderState], NEW i \in Yielders,
         y[i].results # <<>>,
         y' = [y EXCEPT ![i].results = Tail(@)]
  PROVE  /\ Only(i)
         /\ y'[i].pc = y[i].pc /\ y'[i].hand = y[i].hand
         /\ y'[i].todo = y[i].todo /\ y'[i].results = Tail(y[i].results)
         /\ y'[i].room = y[i].room /\ y'[i].err = y[i].err
<1> DEFINE s == [y[i] EXCEPT !.results = Tail(@)]
<1>1. y[i].results \in Seq(LobbyTasks)
  BY DEF YielderState
<1>2. Tail(y[i].results) \in Seq(LobbyTasks)
  BY <1>1, TailElems
<1>3. s \in YielderState
  BY <1>2 DEF YielderState
<1> QED
  BY <1>3, YielderSet DEF YielderState

----------------------------------------------------------------------------
(* Types. *)

\* The parts of LobbyType and of the assumption that every case needs.
LEMMA TypeFacts ==
  ASSUME LobbyType
  PROVE  /\ y \in [Yielders -> YielderState] /\ input \in Seq(LobbyTasks)
         /\ submit \in [LobbyTasks -> Submits] /\ pusher \in Pushers
         /\ closer \in [Closers -> Closes]
         /\ once \in {"new", "running", "done"}
         /\ delivered \in [LobbyTasks -> Nat] /\ Len(input) \in Nat
         /\ \A i \in Yielders :
              /\ y[i].results \in Seq(LobbyTasks) /\ y[i].todo \in Seq(LobbyTasks)
              /\ Len(y[i].results) \in Nat /\ y[i].room \in Nat
              /\ y[i].hand \in LobbyTasks \cup {NoValue}
              /\ y[i].pc \in Pcs /\ y[i].err \in Errs
BY LenProperties DEF LobbyType, YielderState

\* The parameters of the lobby.
LEMMA ConstFacts ==
  /\ Batch \in Seq(LobbyTasks) /\ Elems(Batch) = BatchTasks
  /\ BatchTasks \subseteq LobbyTasks /\ Direct \subseteq LobbyTasks
  /\ Source \in Yielders /\ Handoff \in Yielders /\ Fetchers \subseteq Yielders
  /\ Source \notin Readers /\ Readers = Fetchers \cup {Handoff}
  /\ Source # Handoff /\ NoValue \notin LobbyTasks
  /\ SourceBuf \in Nat /\ FetchBuf \in Nat
<1>1. BatchTasks \subseteq LobbyTasks /\ Batch \in Seq(BatchTasks)
  BY LobbyAssumption DEF LobbyTasks
<1>2. Batch \in Seq(LobbyTasks)
  BY <1>1, SeqMonotonic
<1> QED
  BY <1>1, <1>2, LobbyAssumption DEF Elems, BatchTasks, LobbyTasks, Readers

\* A value in the hand of a yielder is a task.
LEMMA HandFacts ==
  ASSUME LobbyType, YielderInv, NEW i \in Yielders, y[i].pc = "send"
  PROVE  y[i].hand \in LobbyTasks
BY TypeFacts DEF YielderInv, YielderOK

\* A step of a yielder, its timeout and its Stop keep the types.
LEMMA ActionType ==
  ASSUME LobbyType, YielderInv, NEW i \in Yielders,
         YielderStep(i, Batch) \/ Timeout(i) \/ Stop(i)
  PROVE  Only(i) /\ input' \in Seq(LobbyTasks)
<1> USE TypeFacts, ConstFacts
<1>1. CASE Generate(i, Batch)
  BY <1>1, GenerateFacts
<1>2. CASE \/ GenerateFail(i) \/ EmitStopped(i) \/ EmitAll(i)
           \/ InputClosed(i) \/ ReceiveStopped(i)
  <2>1. "closing" \in Pcs /\ Errs = {"none", "input closed", "failed", "stopped"}
    BY DEF Pcs, Errs
  <2> QED
    BY <1>2, <2>1, StepFacts
       DEF GenerateFail, EmitStopped, EmitAll, InputClosed, ReceiveStopped
<1>3. CASE Emit(i)
  BY <1>3, EmitFacts
<1>4. CASE Receive(i)
  BY <1>4, ReceiveFacts
<1>5. CASE Forward(i)
  <2>1. y[i].hand \in LobbyTasks
    BY <1>5, HandFacts DEF Forward
  <2> QED
    BY <1>5, <2>1, ForwardFacts
<1>6. CASE ForwardStopped(i)
  BY <1>6, ForwardStoppedFacts
<1>7. CASE Finish(i) \/ Timeout(i) \/ Stop(i)
  BY <1>7, ContextFacts
<1> QED
  BY <1>1, <1>2, <1>3, <1>4, <1>5, <1>6, <1>7 DEF YielderStep

\* Every step keeps the types.
LEMMA TypeStep == LInv /\ [Next]_vars => LobbyType'
<1> SUFFICES ASSUME LobbyType, YielderInv, [Next]_vars PROVE LobbyType'
  BY DEF LInv
<1>t. /\ {"idle", "select", "accepted", "refused"} \subseteq Submits
      /\ {"wait", "push", "failed", "nil"} \subseteq Pushers
      /\ {"ErrLobbyClosed", "store", "once", "lock", "build", "nil", "failed"}
           \subseteq Closes
      /\ {"call", "recv"} \subseteq Pcs
  BY DEF Submits, Pushers, Closes, Pcs
<1>f. /\ y \in [Yielders -> YielderState] /\ input \in Seq(LobbyTasks)
      /\ Len(input) \in Nat
  BY TypeFacts
<1> USE DEF lobbyVars, closeVars, yielderVars
<1>1. ASSUME NEW t \in LobbyTasks,
             SubmitDirect(t) \/ SubmitClosed(t) \/ SubmitTimeout(t)
      PROVE  LobbyType'
  <2>1. submit' \in [LobbyTasks -> Submits]
    BY <1>t, <1>1
       DEF LobbyType, SubmitDirect, SubmitTask, SubmitClosed, SubmitTimeout
  <2> QED
    BY <1>1, <2>1 DEF LobbyType, SubmitDirect, SubmitClosed, SubmitTimeout
<1>2. ASSUME NEW t \in LobbyTasks, SubmitSend(t) PROVE LobbyType'
  <2>1. submit' \in [LobbyTasks -> Submits]
    BY <1>t, <1>2 DEF LobbyType, SubmitSend
  <2>2. input' \in Seq(LobbyTasks)
    BY <1>f, <1>2, AppendElems DEF SubmitSend
  <2> QED
    BY <1>2, <2>1, <2>2 DEF LobbyType, SubmitSend
<1>3. CASE PushStart
  <2>1. y' \in [Yielders -> YielderState]
    BY <1>t, <1>f, <1>3, ConstFacts, NewFacts DEF PushStart, Only
  <2> QED
    BY <1>t, <1>3, <2>1 DEF LobbyType, PushStart
<1>4. CASE PushCanceled \/ PushDone \/ PushReturn
  BY <1>t, <1>4 DEF LobbyType, PushCanceled, PushDone, PushReturn
<1>5. CASE PushNext
  <2>1. y' \in [Yielders -> YielderState]
    BY <1>f, <1>5, ConstFacts, TakeFacts DEF PushNext, Only
  <2>2. submit' \in [LobbyTasks -> Submits]
    BY <1>t, <1>5 DEF LobbyType, PushNext, SubmitTask
  <2> QED
    BY <1>5, <2>1, <2>2 DEF LobbyType, PushNext
<1>6. CASE RetrieveTask
  <2>1. Head(input) \in LobbyTasks /\ input' \in Seq(LobbyTasks)
    BY <1>f, <1>6, TailElems DEF RetrieveTask
  <2>2. delivered' \in [LobbyTasks -> Nat]
    BY <1>6, <2>1 DEF RetrieveTask, LobbyType
  <2> QED
    BY <1>6, <2>1, <2>2 DEF LobbyType, RetrieveTask
<1>7. ASSUME NEW i \in Yielders, FetchTasks(i) PROVE LobbyType'
  <2>1. y' \in [Yielders -> YielderState]
    BY <1>t, <1>f, <1>7, ConstFacts, NewFacts DEF FetchTasks, Only
  <2> QED
    BY <1>7, <2>1 DEF LobbyType, FetchTasks
<1>8. ASSUME NEW i \in Yielders, ReadResult(i) PROVE LobbyType'
  <2>1. y' \in [Yielders -> YielderState]
    BY <1>f, <1>8, TakeFacts DEF ReadResult, Only
  <2>2. Head(y[i].results) \in LobbyTasks
    BY <1>8, TypeFacts, TailElems DEF ReadResult
  <2>3. delivered' \in [LobbyTasks -> Nat]
    BY <1>8, <2>2 DEF ReadResult, LobbyType
  <2> QED
    BY <1>8, <2>1, <2>3 DEF LobbyType, ReadResult
<1>9. ASSUME NEW i \in Yielders,
             YielderStep(i, Batch) \/ Timeout(i) \/ Stop(i), UNCHANGED lobbyVars
      PROVE  LobbyType'
  <2>1. y' \in [Yielders -> YielderState] /\ input' \in Seq(LobbyTasks)
    BY <1>9, ActionType DEF Only
  <2> QED
    BY <1>9, <2>1 DEF LobbyType
<1>10. ASSUME NEW c \in Closers, CloseCheck(c) \/ CloseContext(c)
       PROVE  LobbyType'
  <2>1. closer' \in [Closers -> Closes] /\ once' \in {"new", "running", "done"}
    BY <1>t, <1>10 DEF LobbyType, CloseCheck, CloseContext, CloseStore,
         OnceFirst, OnceLater, CloseBuild, CloseStored, CloseFail
  <2>2. y' \in [Yielders -> YielderState]
    BY <1>t, <1>f, <1>10, ConstFacts, NewFacts DEF CloseCheck, CloseContext,
         CloseStore, OnceFirst, OnceLater, CloseBuild, CloseStored, CloseFail,
         Only
  <2>3. UNCHANGED <<input, submit, pusher, delivered>>
    BY <1>10 DEF CloseCheck, CloseContext, CloseStore, OnceFirst, OnceLater,
         CloseBuild, CloseStored, CloseFail
  <2> QED
    BY <2>1, <2>2, <2>3 DEF LobbyType
<1>11. CASE UNCHANGED vars
  BY <1>11 DEF vars, LobbyType
<1> QED
  BY <1>1, <1>2, <1>3, <1>4, <1>5, <1>6, <1>7, <1>8, <1>9, <1>10, <1>11
     DEF Next, Submitter, YielderAction

----------------------------------------------------------------------------
(* Closing. *)

\* A step that is none of CloseContext: a submission enters its select only
\* while the lobby is open and no closer holds sendMu.
LEMMA CloseKept ==
  ASSUME CloseInv, UNCHANGED <<closeVars, inputClosed>>,
         \A t \in LobbyTasks : submit'[t] = "select" =>
           submit[t] = "select" \/ (~closed /\ RLockFree),
         y'[Handoff].pc # "none" => y[Handoff].pc # "none"
  PROVE  CloseInv'
<1>1. ASSUME NEW c \in Closers PROVE CloserOK(c)'
  <2>1. closer[c] = "build" => Writable'
    BY DEF CloseInv, CloserOK, Writable, RLockFree
  <2> QED
    BY <2>1 DEF CloseInv, CloserOK, closeVars
<1>2. OnceInv'
  <2>1. inputClosed => Writable'
    BY DEF CloseInv, OnceInv, Writable
  <2> QED
    BY <2>1 DEF CloseInv, OnceInv, closeVars
<1>3. HandoffInv'
  BY DEF CloseInv, HandoffInv, closeVars
<1> QED
  BY <1>1, <1>2, <1>3 DEF CloseInv

\* Each step of CloseContext.
LEMMA CloseStep ==
  ASSUME LobbyType, CloseInv, NEW c \in Closers, CloseCheck(c) \/ CloseContext(c)
  PROVE  CloseInv'
<1>f. /\ closer \in [Closers -> Closes] /\ once \in {"new", "running", "done"}
      /\ y \in [Yielders -> YielderState]
  BY TypeFacts
<1>w. Writable' <=> Writable
  BY DEF CloseCheck, CloseContext, CloseStore, OnceFirst, OnceLater, CloseBuild,
         CloseStored, CloseFail, Writable
<1> USE DEF yielderVars
<1>1. CASE CloseCheck(c) \/ CloseStore(c) \/ OnceLater(c)
  <2>1. /\ \A d \in Closers : d # c => closer'[d] = closer[d]
        /\ closer[c] \in {"idle", "store", "once"}
        /\ closer'[c] \in {"ErrLobbyClosed", "store", "once", "nil"}
        /\ closer'[c] = "nil" => once = "done" /\ closed
        /\ closer'[c] = "once" => closed'
        /\ closed => closed'
        /\ UNCHANGED <<once, handoff, inputClosed, y>>
    BY <1>f, <1>1 DEF CloseCheck, CloseStore, OnceLater, CloseInv, CloserOK
  <2>2. \A d \in Closers : CloserOK(d)'
    BY <1>f, <1>w, <2>1 DEF CloseInv, CloserOK
  <2>3. OnceInv'
    BY <1>f, <1>w, <2>1 DEF CloseInv, OnceInv
  <2>4. HandoffInv'
    BY <1>f, <2>1 DEF CloseInv, HandoffInv
  <2> QED
    BY <2>2, <2>3, <2>4 DEF CloseInv
<1>2. CASE OnceFirst(c)
  <2>1. /\ \A d \in Closers : d # c => closer'[d] = closer[d]
        /\ closer[c] = "once" /\ closer'[c] = "lock"
        /\ once = "new" /\ once' = "running"
        /\ UNCHANGED <<closed, handoff, inputClosed, y>>
    BY <1>f, <1>2 DEF OnceFirst
  <2>2. \A d \in Closers : closer[d] \notin {"lock", "build", "nil", "failed"}
    BY <1>f, <2>1 DEF CloseInv, CloserOK
  <2>3. \A d \in Closers : CloserOK(d)'
    BY <1>f, <1>w, <2>1, <2>2 DEF CloseInv, CloserOK
  <2>4. OnceInv'
    BY <1>f, <1>w, <2>1, <2>2 DEF CloseInv, OnceInv
  <2>5. HandoffInv'
    BY <1>f, <2>1, <2>2 DEF CloseInv, HandoffInv, OnceInv
  <2> QED
    BY <2>3, <2>4, <2>5 DEF CloseInv
<1>3. CASE CloseBuild(c)
  <2>1. /\ \A d \in Closers : d # c => closer'[d] = closer[d]
        /\ closer[c] = "lock" /\ closer'[c] = "build" /\ Writable
        /\ UNCHANGED <<closed, once, handoff, inputClosed>>
    BY <1>f, <1>3 DEF CloseBuild
  <2>2. \A d \in Closers : CloserOK(d)'
    BY <1>f, <1>w, <2>1 DEF CloseInv, CloserOK
  <2>3. OnceInv'
    BY <1>f, <1>w, <2>1 DEF CloseInv, OnceInv
  <2>4. HandoffInv'
    BY <2>1 DEF HandoffInv
  <2> QED
    BY <2>2, <2>3, <2>4 DEF CloseInv
<1>4. CASE CloseStored(c) \/ CloseFail(c)
  <2>1. /\ \A d \in Closers : d # c => closer'[d] = closer[d]
        /\ closer[c] \in {"lock", "build"} /\ Writable
        /\ closer'[c] \in {"nil", "failed"}
        /\ handoff' \/ closer'[c] = "failed"
        /\ once' = "done" /\ inputClosed' = TRUE
        /\ UNCHANGED <<closed, y>>
    BY <1>f, <1>4 DEF CloseStored, CloseFail, CloseInv, CloserOK
  <2>2. \A d \in Closers : d # c => closer[d] \notin {"lock", "build"}
    BY <2>1 DEF CloseInv, OnceInv
  <2>3. \A d \in Closers : CloserOK(d)'
    BY <1>f, <1>w, <2>1, <2>2 DEF CloseInv, CloserOK
  <2>4. OnceInv'
    BY <1>f, <1>w, <2>1, <2>2 DEF CloseInv, OnceInv, CloserOK
  <2>5. HandoffInv'
    BY <2>1 DEF HandoffInv
  <2> QED
    BY <2>3, <2>4, <2>5 DEF CloseInv
<1> QED
  BY <1>1, <1>2, <1>3, <1>4 DEF CloseContext

----------------------------------------------------------------------------
(* The yielders. *)

\* A step of one yielder concerns no other.
LEMMA YielderKept ==
  ASSUME YielderInv, NEW i \in Yielders, Only(i), YielderOK(i)',
         dropped' = dropped \/ \E v : dropped' = dropped \cup {<<i, v>>},
         pusher' = "idle" => pusher = "idle" /\ (i # Source \/ y'[i].pc = "none")
  PROVE  YielderInv'
<1>1. ASSUME NEW j \in Yielders, j # i PROVE YielderOK(j)'
  <2>1. y'[j] = y[j] /\ YielderOK(j)
    BY <1>1 DEF Only, YielderInv
  <2>2. (\A d \in dropped : d[1] # j) => \A d \in dropped' : d[1] # j
    BY <1>1
  <2> QED
    BY <2>1, <2>2 DEF YielderOK, Reported
<1>2. pusher' = "idle" => y'[Source].pc = "none"
  BY ConstFacts DEF Only, YielderInv
<1> QED
  BY <1>1, <1>2 DEF YielderInv

\* The goroutine of a yielder, its timeout and its Stop.
LEMMA ActionYielder ==
  ASSUME LobbyType, YielderInv, NEW i \in Yielders,
         YielderStep(i, Batch) \/ Timeout(i) \/ Stop(i), UNCHANGED lobbyVars
  PROVE  /\ YielderInv'
         /\ y'[Handoff].pc # "none" => y[Handoff].pc # "none"
<1>f. /\ y \in [Yielders -> YielderState] /\ input \in Seq(LobbyTasks)
      /\ y[i].pc \in Pcs /\ y[i].err \in Errs
  BY TypeFacts
<1>o. YielderOK(i) /\ Only(i)
  BY ActionType DEF YielderInv
<1>s. pusher' = pusher /\ (pusher = "idle" => y[Source].pc = "none")
  BY DEF YielderInv, lobbyVars
<1> SUFFICES /\ y[i].pc # "none" /\ YielderOK(i)'
             /\ dropped' = dropped \/ \E v : dropped' = dropped \cup {<<i, v>>}
  BY <1>o, <1>s, YielderKept, ConstFacts DEF Only
<1> USE DEF YielderOK, Reported, Running
<1>1. CASE Generate(i, Batch)
  BY <1>f, <1>o, <1>1, ConstFacts, GenerateFacts
<1>2. CASE GenerateFail(i)
  <2>1. "closing" \in Pcs /\ "failed" \in Errs
    BY DEF Pcs, Errs
  <2>2. /\ y[i].pc = "call" /\ y'[i].pc = "closing" /\ y'[i].hand = y[i].hand
        /\ y'[i].todo = y[i].todo /\ dropped' = dropped
        /\ y'[i].err = IF y[i].err = "none" THEN "failed" ELSE y[i].err
    BY <1>f, <1>2, <2>1, StepFacts DEF GenerateFail
  <2> QED
    BY <1>o, <2>2
<1>3. CASE EmitStopped(i) \/ ReceiveStopped(i)
  <2>1. "closing" \in Pcs /\ "stopped" \in Errs
    BY DEF Pcs, Errs
  <2>2. /\ y[i].pc \in {"emit", "recv"} /\ y'[i].pc = "closing"
        /\ y'[i].hand = y[i].hand /\ y'[i].todo = y[i].todo
        /\ dropped' = dropped
        /\ y'[i].err = IF y[i].err = "none" THEN "stopped" ELSE y[i].err
    BY <1>f, <1>3, <2>1, StepFacts DEF EmitStopped, ReceiveStopped
  <2> QED
    BY <1>o, <2>2
<1>4. CASE EmitAll(i) \/ InputClosed(i)
  <2>1. "closing" \in Pcs /\ "none" \in Errs /\ "input closed" \in Errs
    BY DEF Pcs, Errs
  <2>2. /\ y[i].pc \in {"emit", "recv"} /\ y'[i].pc = "closing"
        /\ y'[i].hand = y[i].hand /\ y'[i].todo = y[i].todo
        /\ y[i].pc = "emit" => y[i].todo = <<>>
        /\ dropped' = dropped
    <3>1. CASE EmitAll(i)
      BY <1>f, <2>1, <3>1, StepFacts DEF EmitAll
    <3>2. CASE InputClosed(i)
      <4>1. Step(i, "recv", "closing", "input closed")
        BY <3>2 DEF InputClosed
      <4>2. /\ y[i].pc = "recv" /\ y'[i].pc = "closing"
            /\ y'[i].hand = y[i].hand /\ y'[i].todo = y[i].todo
            /\ UNCHANGED <<input, inputClosed, dropped>>
        BY <1>f, <2>1, <4>1, StepFacts
      <4> QED
        BY <4>2
    <3> QED
      BY <1>4, <3>1, <3>2
  <2> QED
    BY <1>o, <2>2
<1>5. CASE Emit(i)
  BY <1>f, <1>o, <1>5, EmitFacts
<1>6. CASE Receive(i)
  <2>1. Head(input) \in LobbyTasks
    BY <1>f, <1>6, TailElems DEF Receive
  <2> QED
    BY <1>f, <1>o, <1>6, <2>1, ReceiveFacts, ConstFacts
<1>7. CASE Forward(i)
  <2>1. y[i].hand \in LobbyTasks
    BY <1>7, HandFacts DEF Forward
  <2> QED
    BY <1>f, <1>o, <1>7, <2>1, ForwardFacts
<1>8. CASE ForwardStopped(i)
  <2>1. /\ y[i].pc = "send" /\ y'[i].pc = "closing" /\ y'[i].hand = NoValue
        /\ y'[i].todo = y[i].todo
        /\ y'[i].err = IF y[i].err = "none" THEN "stopped" ELSE y[i].err
        /\ dropped' = dropped \cup {<<i, y[i].hand>>}
    BY <1>f, <1>8, ForwardStoppedFacts
  <2> QED
    BY <1>o, <2>1
<1>9. CASE Finish(i) \/ Timeout(i) \/ Stop(i)
  BY <1>f, <1>o, <1>9, ContextFacts
<1> QED
  BY <1>1, <1>2, <1>3, <1>4, <1>5, <1>6, <1>7, <1>8, <1>9 DEF YielderStep

\* A new yielder starts clean.
LEMMA NewYielder ==
  ASSUME LobbyType, YielderInv, NEW i \in Yielders, y[i].pc = "none",
         NEW pc, pc = IF i = Source THEN "call" ELSE "recv",
         NEW buf \in Nat, New(i, pc, buf), UNCHANGED dropped,
         pusher' = "idle" => pusher = "idle" /\ i # Source
  PROVE  YielderInv'
<1>1. y \in [Yielders -> YielderState] /\ pc \in Pcs
  BY TypeFacts DEF Pcs
<1>2. /\ Only(i)
      /\ y'[i].pc = pc /\ y'[i].hand = NoValue /\ y'[i].todo = <<>>
      /\ y'[i].results = <<>> /\ y'[i].err = "none"
  BY <1>1, NewFacts
<1>3. YielderOK(i)'
  BY <1>2 DEF YielderInv, YielderOK, Reported, Running
<1> QED
  BY <1>2, <1>3, YielderKept

----------------------------------------------------------------------------
(* The room of the hand-off. *)

\* A step that adds nothing to what the hand-off has, holds or may receive.
LEMMA RoomKept ==
  ASSUME LobbyType, LobbyType', RoomInv,
         y'[Handoff].pc # "none" => y[Handoff].pc # "none",
         y'[Handoff].room = y[Handoff].room,
         Len(input') <= Len(input),
         Len(y'[Handoff].results) <= Len(y[Handoff].results),
         y'[Handoff].pc = "send" => y[Handoff].pc = "send"
  PROVE  RoomInv'
<1>1. Len(input) \in Nat /\ Len(y[Handoff].results) \in Nat
      /\ y[Handoff].room \in Nat
  BY TypeFacts, ConstFacts
<1>2. Len(input') \in Nat /\ Len(y'[Handoff].results) \in Nat
  BY LenProperties, ConstFacts DEF LobbyType, YielderState
<1> QED
  BY <1>1, <1>2 DEF RoomInv

\* A yielder that receives or forwards moves a value on its own way; no value
\* enters the incoming channel once the hand-off exists.
LEMMA ActionRoom ==
  ASSUME LobbyType, LobbyType', YielderInv, RoomInv, NEW i \in Yielders,
         YielderStep(i, Batch) \/ Timeout(i) \/ Stop(i)
  PROVE  RoomInv'
<1>f. /\ y \in [Yielders -> YielderState] /\ input \in Seq(LobbyTasks)
      /\ Len(input) \in Nat
      /\ y[i].results \in Seq(LobbyTasks) /\ Len(y[i].results) \in Nat
      /\ y[i].room \in Nat
  BY TypeFacts
<1>h. Handoff \in Yielders /\ Handoff # Source
  BY ConstFacts
<1>o. YielderOK(i)
  BY DEF YielderInv
<1>1. CASE Receive(i)
  <2>1. /\ Only(i) /\ y[i].pc = "recv" /\ y'[i].pc = "send"
        /\ y'[i].results = y[i].results /\ y'[i].room = y[i].room
        /\ Len(input') = Len(input) - 1
    BY <1>f, <1>1, ReceiveFacts, TailElems
  <2>2. CASE i = Handoff
    BY <1>f, <2>1, <2>2 DEF RoomInv
  <2>3. CASE i # Handoff
    BY <1>f, <1>h, <2>1, <2>3, RoomKept, TypeFacts DEF Only
  <2> QED
    BY <2>2, <2>3
<1>2. CASE Forward(i)
  <2>1. y[i].hand \in LobbyTasks
    BY <1>2, HandFacts DEF Forward
  <2>2. /\ Only(i) /\ y[i].pc = "send" /\ y'[i].pc = "recv"
        /\ y'[i].room = y[i].room /\ input' = input
        /\ y'[i].results = Append(y[i].results, y[i].hand)
    BY <1>f, <1>2, <2>1, ForwardFacts
  <2>3. Len(y'[i].results) = Len(y[i].results) + 1
    BY <1>f, <2>1, <2>2, AppendElems
  <2>4. CASE i = Handoff
    BY <1>f, <2>2, <2>3, <2>4 DEF RoomInv
  <2>5. CASE i # Handoff
    BY <1>f, <1>h, <2>2, <2>5, RoomKept, TypeFacts DEF Only
  <2> QED
    BY <2>4, <2>5
<1>3. CASE ~Receive(i) /\ ~Forward(i)
  <2>1. /\ Only(i) /\ y[i].pc # "none" /\ y'[i].room = y[i].room
        /\ input' = input
        /\ i # Source => y'[i].results = y[i].results
        /\ y'[i].pc = "send" => y[i].pc = "send"
    <3>1. CASE Generate(i, Batch) \/ Emit(i)
      BY <1>f, <3>1, ConstFacts, GenerateFacts, EmitFacts, <1>o DEF YielderOK
    <3>2. CASE \/ GenerateFail(i) \/ EmitStopped(i) \/ EmitAll(i)
               \/ InputClosed(i) \/ ReceiveStopped(i)
      <4>1. "closing" \in Pcs
        BY DEF Pcs
      <4>2. PICK from \in Pcs, e \in Errs :
              from # "none" /\ Step(i, from, "closing", e)
        BY <3>2 DEF GenerateFail, EmitStopped, EmitAll, InputClosed,
                    ReceiveStopped, Pcs, Errs
      <4> QED
        BY <1>f, <4>1, <4>2, StepFacts
    <3>3. CASE ForwardStopped(i)
      BY <1>f, <3>3, ForwardStoppedFacts
    <3>4. CASE Finish(i) \/ Timeout(i) \/ Stop(i)
      BY <1>f, <3>4, ContextFacts
    <3> QED
      BY <1>3, <3>1, <3>2, <3>3, <3>4 DEF YielderStep
  <2> QED
    BY <1>f, <1>h, <2>1, RoomKept, TypeFacts DEF Only
<1> QED
  BY <1>1, <1>2, <1>3

----------------------------------------------------------------------------
(* LInv is inductive. *)

\* A new lobby is open and has no yielders.
LEMMA LobbyInit == Init => LInv
<1> SUFFICES ASSUME Init PROVE LInv
  OBVIOUS
<1>1. \A i \in Yielders : y[i] = NotCreated
  BY DEF Init, YielderInit
<1>2. CloseInv
  BY <1>1, ConstFacts DEF Init, YielderInit, CloseInv, CloserOK, OnceInv,
     HandoffInv, NotCreated
<1>3. YielderInv
  BY <1>1, ConstFacts DEF Init, YielderInit, YielderInv, YielderOK, Reported,
     NotCreated
<1>4. RoomInv
  BY <1>1, ConstFacts DEF RoomInv, NotCreated
<1> QED
  BY <1>2, <1>3, <1>4, TypeInit DEF LInv

\* Every step preserves the three parts beside the types.
LEMMA LobbyStep == LInv /\ [Next]_vars => LInv'
<1> SUFFICES ASSUME LInv, [Next]_vars, LobbyType'
             PROVE  CloseInv' /\ YielderInv' /\ RoomInv'
  BY TypeStep DEF LInv
<1>f. /\ LobbyType /\ CloseInv /\ YielderInv /\ RoomInv
      /\ y \in [Yielders -> YielderState] /\ input \in Seq(LobbyTasks)
      /\ Len(input) \in Nat /\ submit \in [LobbyTasks -> Submits]
      /\ closer \in [Closers -> Closes]
  BY TypeFacts DEF LInv
<1>h. /\ Handoff \in Yielders /\ Source \in Yielders /\ Handoff # Source
      /\ Handoff \notin Fetchers /\ Source \notin Fetchers
  BY ConstFacts, LobbyAssumption
<1> USE DEF lobbyVars, closeVars, yielderVars
<1>1. ASSUME UNCHANGED <<y, input, inputClosed, dropped, closeVars>>,
             pusher' = "idle" => pusher = "idle",
             \A t \in LobbyTasks : submit'[t] = "select" =>
               submit[t] = "select" \/ (~closed /\ RLockFree)
      PROVE  CloseInv' /\ YielderInv' /\ RoomInv'
  <2>1. CloseInv'
    BY <1>f, <1>1, CloseKept
  <2>2. YielderInv'
    BY <1>f, <1>1 DEF YielderInv, YielderOK, Reported
  <2>3. RoomInv'
    BY <1>f, <1>1 DEF RoomInv
  <2> QED
    BY <2>1, <2>2, <2>3
<1>2. ASSUME NEW t \in LobbyTasks,
             SubmitDirect(t) \/ SubmitClosed(t) \/ SubmitTimeout(t)
      PROVE  CloseInv' /\ YielderInv' /\ RoomInv'
  BY <1>f, <1>1, <1>2
     DEF SubmitDirect, SubmitTask, SubmitClosed, SubmitTimeout
<1>3. ASSUME NEW t \in LobbyTasks, SubmitSend(t)
      PROVE  CloseInv' /\ YielderInv' /\ RoomInv'
  <2>1. /\ UNCHANGED <<y, inputClosed, dropped, pusher, closeVars>>
        /\ submit[t] = "select" /\ submit' = [submit EXCEPT ![t] = "accepted"]
    BY <1>3 DEF SubmitSend
  <2>2. CloseInv'
    BY <1>f, <2>1, CloseKept
  <2>3. YielderInv'
    BY <1>f, <2>1 DEF YielderInv, YielderOK, Reported
  <2>4. y[Handoff].pc = "none"
    BY <1>f, <2>1 DEF CloseInv, HandoffInv, OnceInv, CloserOK, Writable
  <2>5. RoomInv'
    BY <2>1, <2>4 DEF RoomInv
  <2> QED
    BY <2>2, <2>3, <2>5
<1>4. CASE PushStart
  <2>1. /\ y[Source].pc = "none" /\ New(Source, "call", SourceBuf)
        /\ pusher' = "wait"
        /\ UNCHANGED <<input, inputClosed, dropped, submit, closeVars>>
    BY <1>f, <1>4 DEF PushStart, YielderInv
  <2>2. YielderInv'
    BY <1>f, <1>h, <2>1, NewYielder, ConstFacts
  <2>3. y'[Handoff] = y[Handoff]
    BY <1>h, <2>1 DEF New
  <2>4. CloseInv'
    BY <1>f, <2>1, <2>3, CloseKept
  <2>5. RoomInv'
    BY <1>f, <2>1, <2>3 DEF RoomInv
  <2> QED
    BY <2>2, <2>4, <2>5
<1>5. CASE PushCanceled \/ PushDone \/ PushReturn
  BY <1>f, <1>1, <1>5 DEF PushCanceled, PushDone, PushReturn
<1>6. CASE PushNext
  <2>1. /\ Only(Source)
        /\ y'[Source].pc = y[Source].pc /\ y'[Source].hand = y[Source].hand
        /\ y'[Source].todo = y[Source].todo /\ y'[Source].err = y[Source].err
        /\ y'[Source].results = Tail(y[Source].results)
        /\ y[Source].results # <<>>
    BY <1>f, <1>h, <1>6, TakeFacts DEF PushNext
  <2>2. /\ UNCHANGED <<input, inputClosed, dropped, pusher, closeVars>>
        /\ SubmitTask(Head(y[Source].results))
    BY <1>6 DEF PushNext
  <2>3. y'[Handoff] = y[Handoff]
    BY <1>h, <2>1 DEF Only
  <2>4. YielderOK(Source)'
    BY <1>f, <1>h, <2>1, <2>2 DEF YielderInv, YielderOK, Reported
  <2>5. YielderInv'
    BY <1>f, <1>h, <2>1, <2>2, <2>4, YielderKept DEF YielderInv
  <2>6. CloseInv'
    BY <1>f, <2>2, <2>3, CloseKept DEF SubmitTask
  <2>7. RoomInv'
    BY <1>f, <2>2, <2>3 DEF RoomInv
  <2> QED
    BY <2>5, <2>6, <2>7
<1>7. CASE RetrieveTask
  <2>1. /\ UNCHANGED <<y, inputClosed, dropped, submit, pusher, closeVars>>
        /\ Len(input') = Len(input) - 1
    BY <1>f, <1>7, TailElems DEF RetrieveTask
  <2>2. CloseInv'
    BY <1>f, <2>1, CloseKept
  <2>3. YielderInv'
    BY <1>f, <2>1 DEF YielderInv, YielderOK, Reported
  <2>4. RoomInv'
    BY <1>f, <1>h, <2>1, RoomKept, TypeFacts
  <2> QED
    BY <2>2, <2>3, <2>4
<1>8. ASSUME NEW i \in Yielders, FetchTasks(i)
      PROVE  CloseInv' /\ YielderInv' /\ RoomInv'
  <2>1. /\ i # Source /\ i # Handoff
        /\ y[i].pc = "none" /\ New(i, "recv", FetchBuf)
        /\ UNCHANGED <<input, inputClosed, dropped, submit, pusher, closeVars>>
    BY <1>h, <1>8 DEF FetchTasks
  <2>2. YielderInv'
    BY <1>f, <2>1, NewYielder, ConstFacts
  <2>3. y'[Handoff] = y[Handoff]
    BY <1>f, <1>h, <2>1 DEF New
  <2>4. CloseInv'
    BY <1>f, <2>1, <2>3, CloseKept
  <2>5. RoomInv'
    BY <1>f, <2>1, <2>3 DEF RoomInv
  <2> QED
    BY <2>2, <2>4, <2>5
<1>9. ASSUME NEW i \in Yielders, ReadResult(i)
      PROVE  CloseInv' /\ YielderInv' /\ RoomInv'
  <2>1. /\ Only(i)
        /\ y'[i].pc = y[i].pc /\ y'[i].hand = y[i].hand
        /\ y'[i].todo = y[i].todo /\ y'[i].err = y[i].err
        /\ y'[i].results = Tail(y[i].results)
        /\ y[i].results # <<>> /\ y'[i].room = y[i].room
    BY <1>f, <1>9, TakeFacts DEF ReadResult
  <2>2. UNCHANGED <<input, inputClosed, dropped, submit, pusher, closeVars>>
    BY <1>9 DEF ReadResult
  <2>3. YielderOK(i)'
    BY <1>f, <2>1, <2>2 DEF YielderInv, YielderOK, Reported
  <2>4. YielderInv'
    BY <1>f, <2>1, <2>2, <2>3, YielderKept DEF YielderInv
  <2>5. y'[Handoff].pc = y[Handoff].pc /\ y'[Handoff].room = y[Handoff].room
    BY <1>h, <2>1 DEF Only
  <2>6. CloseInv'
    BY <1>f, <2>2, <2>5, CloseKept
  <2>7. Len(y'[Handoff].results) <= Len(y[Handoff].results)
    <3>1. y[i].results \in Seq(LobbyTasks) /\ Len(y[Handoff].results) \in Nat
      BY <1>f, <1>h, TypeFacts
    <3>2. Len(y[i].results) \in Nat /\ Len(y'[i].results) = Len(y[i].results) - 1
      BY <2>1, <3>1, TailElems
    <3>3. CASE i = Handoff
      BY <3>2, <3>3
    <3>4. CASE i # Handoff
      BY <1>h, <2>1, <3>1, <3>4 DEF Only
    <3> QED
      BY <3>3, <3>4
  <2>8. RoomInv'
    BY <1>f, <2>2, <2>5, <2>7, RoomKept
  <2> QED
    BY <2>4, <2>6, <2>8
<1>10. ASSUME NEW i \in Yielders,
              YielderStep(i, Batch) \/ Timeout(i) \/ Stop(i), UNCHANGED lobbyVars
       PROVE  CloseInv' /\ YielderInv' /\ RoomInv'
  <2>1. /\ YielderInv'
        /\ y'[Handoff].pc # "none" => y[Handoff].pc # "none"
    BY <1>f, <1>10, ActionYielder
  <2>2. inputClosed' = inputClosed
    BY <1>10 DEF YielderStep, Generate, GenerateFail, Emit, EmitStopped, EmitAll,
         Receive, InputClosed, ReceiveStopped, Forward, ForwardStopped, Finish,
         Timeout, Stop, Step
  <2>3. CloseInv'
    BY <1>f, <1>10, <2>1, <2>2, CloseKept
  <2>4. RoomInv'
    BY <1>f, <1>10, ActionRoom
  <2> QED
    BY <2>1, <2>3, <2>4
<1>11. ASSUME NEW c \in Closers, CloseCheck(c) \/ CloseContext(c)
       PROVE  CloseInv' /\ YielderInv' /\ RoomInv'
  <2>1. CloseInv'
    BY <1>f, <1>11, CloseStep
  <2>2. CASE CloseBuild(c)
    <3>1. y[Handoff].pc = "none"
      BY <1>f, <2>2 DEF CloseBuild, CloseInv, HandoffInv, OnceInv, CloserOK
    <3>2. /\ New(Handoff, "recv", Len(input))
          /\ UNCHANGED <<input, dropped, pusher>>
      BY <2>2 DEF CloseBuild
    <3>3. YielderInv'
      BY <1>f, <1>h, <3>1, <3>2, NewYielder DEF YielderInv
    <3>4. "recv" \in Pcs
      BY DEF Pcs
    <3>5. /\ y'[Handoff].pc = "recv" /\ y'[Handoff].results = <<>>
          /\ y'[Handoff].room = IF Len(input) = 0 THEN 1 ELSE Len(input)
      BY <1>f, <1>h, <3>2, <3>4, NewFacts
    <3>6. RoomInv'
      BY <1>f, <3>2, <3>5, EmptyElems DEF RoomInv
    <3> QED
      BY <2>1, <3>3, <3>6
  <2>3. CASE ~CloseBuild(c)
    <3>1. UNCHANGED <<y, input, dropped, pusher>>
      BY <1>11, <2>3 DEF CloseCheck, CloseContext, CloseStore, OnceFirst,
           OnceLater, CloseStored, CloseFail
    <3>2. YielderInv' /\ RoomInv'
      BY <1>f, <3>1 DEF YielderInv, YielderOK, Reported, RoomInv
    <3> QED
      BY <2>1, <3>2
  <2> QED
    BY <2>2, <2>3
<1>12. CASE UNCHANGED vars
  BY <1>f, <1>1, <1>12 DEF vars
<1> QED
  BY <1>2, <1>3, <1>4, <1>5, <1>6, <1>7, <1>8, <1>9, <1>10, <1>11, <1>12
     DEF Next, Submitter, YielderAction

\* LInv holds in every reachable state.
LEMMA LobbyHolds == Spec => []LInv
<1>1. Init => LInv
  BY LobbyInit
<1>2. LInv /\ [Next]_vars => LInv'
  BY LobbyStep
<1> QED
  BY <1>1, <1>2, PTL DEF Spec

----------------------------------------------------------------------------
(* What LInv says of closing, of the hand-off and of the yielders. *)

\* No SubmitTask is in its select once the incoming channel is closed.
THEOREM NoSendOnClosedHolds == Spec => []NoSendOnClosed
<1>1. LInv => NoSendOnClosed
  BY DEF LInv, CloseInv, OnceInv, NoSendOnClosed
<1> QED
  BY <1>1, LobbyHolds, PTL

\* A CloseContext that returns nil leaves the lobby closed and its hand-off to
\* be had, but for a first caller that could not build it.
THEOREM CloseNilMeansClosedHolds == Spec => []CloseNilMeansClosed
<1>1. LInv => CloseNilMeansClosed
  BY DEF LInv, CloseInv, CloserOK, OnceInv, CloseNilMeansClosed
<1> QED
  BY <1>1, LobbyHolds, PTL

\* The hand-off never waits for a reader.
THEOREM HandoffHasRoomHolds == Spec => []HandoffHasRoom
<1>1. LInv => HandoffHasRoom
  <2> SUFFICES ASSUME LInv, y[Handoff].pc = "send"
               PROVE  Len(y[Handoff].results) < y[Handoff].room
    BY DEF HandoffHasRoom
  <2>1. Len(input) \in Nat /\ Len(y[Handoff].results) \in Nat
        /\ y[Handoff].room \in Nat
    BY TypeFacts, ConstFacts DEF LInv
  <2> QED
    BY <2>1 DEF LInv, RoomInv
<1> QED
  BY <1>1, LobbyHolds, PTL

\* A yielder that dropped a value or left some behind has an error that says so.
THEOREM DropIsReportedHolds == Spec => []DropIsReported
<1>1. LInv => DropIsReported
  BY DEF LInv, YielderInv, YielderOK, Reported, DropIsReported
<1> QED
  BY <1>1, LobbyHolds, PTL

----------------------------------------------------------------------------
(* PushTasks. *)

\* A step that leaves PushTasks and its yielder alone.
LEMMA PushKept ==
  ASSUME PushInv, pusher' = pusher, y'[Source] = y[Source],
         \A t \in BatchTasks : /\ submit'[t] = "idle" => submit[t] = "idle"
                               /\ submit[t] = "accepted" => submit'[t] = "accepted"
  PROVE  PushInv'
BY DEF PushInv

\* The yielder of PushTasks at work: what it has to emit becomes its results.
LEMMA ActionPush ==
  ASSUME LInv, PushInv, NEW i \in Yielders,
         YielderStep(i, Batch) \/ Timeout(i) \/ Stop(i), UNCHANGED lobbyVars
  PROVE  PushInv'
<1>f. /\ LobbyType /\ YielderInv
      /\ y \in [Yielders -> YielderState] /\ y[i].pc \in Pcs /\ y[i].err \in Errs
      /\ y[i].todo \in Seq(LobbyTasks) /\ y[i].results \in Seq(LobbyTasks)
      /\ Batch \in Seq(LobbyTasks) /\ Elems(Batch) = BatchTasks
      /\ Source \in Yielders
  BY TypeFacts, ConstFacts DEF LInv
<1>u. UNCHANGED <<pusher, submit>>
  BY DEF lobbyVars
<1>1. CASE i # Source
  <2>1. y'[Source] = y[Source]
    BY <1>f, <1>1, ActionType DEF Only
  <2> QED
    BY <1>u, <2>1, PushKept
<1>2. CASE i = Source
  <2>o. y[i].pc \notin {"recv", "send"}
    BY <1>f, <1>2 DEF YielderInv, YielderOK
  <2> SUFFICES /\ Elems(y[i].results) \subseteq Elems(y'[i].results)
               /\ pusher = "wait" /\ y'[i].pc = "emit" =>
                    BatchTasks \subseteq Elems(y'[i].todo) \cup Elems(y'[i].results)
               /\ pusher = "wait" /\ y'[i].pc \in {"closing", "done"}
                    /\ y'[i].err = "none" =>
                    BatchTasks \subseteq Elems(y'[i].results)
    BY <1>u, <1>2 DEF PushInv
  <2>1. CASE Generate(i, Batch)
    BY <1>f, <2>1, GenerateFacts
  <2>2. CASE Emit(i)
    <3>1. /\ y[i].pc = "emit" /\ y'[i].pc = "emit" /\ y[i].todo # <<>>
          /\ y'[i].todo = Tail(y[i].todo)
          /\ y'[i].results = Append(y[i].results, Head(y[i].todo))
      BY <1>f, <2>2, EmitFacts
    <3>2. /\ Head(y[i].todo) \in LobbyTasks
          /\ Elems(y[i].todo) = {Head(y[i].todo)} \cup Elems(y'[i].todo)
      BY <1>f, <3>1, TailElems
    <3>3. Elems(y'[i].results) = Elems(y[i].results) \cup {Head(y[i].todo)}
      BY <1>f, <3>1, <3>2, AppendElems
    <3> QED
      BY <1>2, <3>1, <3>2, <3>3 DEF PushInv
  <2>3. CASE GenerateFail(i) \/ EmitStopped(i)
    <3>1. PICK from \in Pcs, e \in {"failed", "stopped"} : Step(i, from, "closing", e)
      BY <2>3 DEF GenerateFail, EmitStopped, Pcs
    <3>2. "closing" \in Pcs /\ e \in Errs
      BY DEF Pcs, Errs
    <3>3. /\ y'[i].pc = "closing" /\ y'[i].results = y[i].results
          /\ y'[i].err = IF y[i].err = "none" THEN e ELSE y[i].err
      BY <1>f, <3>1, <3>2, StepFacts
    <3> QED
      BY <3>3
  <2>4. CASE EmitAll(i)
    <3>1. Step(i, "emit", "closing", "none") /\ y[i].todo = <<>>
      BY <2>4 DEF EmitAll
    <3>2. "closing" \in Pcs /\ "none" \in Errs
      BY DEF Pcs, Errs
    <3>3. /\ y[i].pc = "emit" /\ y'[i].pc = "closing"
          /\ y'[i].results = y[i].results
      BY <1>f, <3>1, <3>2, StepFacts
    <3> QED
      BY <1>2, <3>1, <3>3, EmptyElems DEF PushInv
  <2>5. CASE Finish(i) \/ Timeout(i) \/ Stop(i)
    <3>1. /\ \/ y[i].pc = "closing" /\ y'[i].pc = "done"
             \/ y'[i].pc = y[i].pc
          /\ y'[i].todo = y[i].todo /\ y'[i].results = y[i].results
          /\ \/ y'[i].err = y[i].err
             \/ y[i].err = "none" /\ y'[i].err = "stopped"
      BY <1>f, <2>5, ContextFacts
    <3> QED
      BY <1>2, <3>1 DEF PushInv
  <2>6. ~(Receive(i) \/ InputClosed(i) \/ ReceiveStopped(i) \/ Forward(i)
            \/ ForwardStopped(i))
    BY <2>o DEF Receive, InputClosed, ReceiveStopped, Forward, ForwardStopped,
                Step
  <2> QED
    BY <2>1, <2>2, <2>3, <2>4, <2>5, <2>6 DEF YielderStep
<1> QED
  BY <1>1, <1>2

\* Every step preserves PushInv.
LEMMA PushStep == LInv /\ PushInv /\ [Next]_vars => PushInv'
<1> SUFFICES ASSUME LInv, PushInv, [Next]_vars PROVE PushInv'
  OBVIOUS
<1>f. /\ LobbyType /\ YielderInv
      /\ y \in [Yielders -> YielderState] /\ submit \in [LobbyTasks -> Submits]
      /\ Source \in Yielders /\ y[Source].results \in Seq(LobbyTasks)
      /\ BatchTasks \subseteq LobbyTasks /\ Len(input) \in Nat
  BY TypeFacts, ConstFacts DEF LInv
<1>h. Source \notin Fetchers /\ Source # Handoff
  BY LobbyAssumption
<1> USE DEF lobbyVars, closeVars, yielderVars
<1>1. ASSUME NEW t \in LobbyTasks, \/ SubmitDirect(t) \/ Submitter(t)
                                   \/ SubmitTimeout(t)
      PROVE  PushInv'
  <2>1. /\ UNCHANGED <<y, pusher>>
        /\ \A u \in LobbyTasks :
             /\ submit'[u] = "idle" => submit[u] = "idle"
             /\ submit[u] = "accepted" => submit'[u] = "accepted"
    BY <1>f, <1>1 DEF SubmitDirect, SubmitTask, Submitter, SubmitSend,
                      SubmitClosed, SubmitTimeout
  <2> QED
    BY <1>f, <2>1, PushKept
<1>2. CASE PushStart
  <2>1. y'[Source].pc = "call" /\ pusher' = "wait"
    BY <1>f, <1>2 DEF PushStart, New, NotCreated
  <2> QED
    BY <2>1 DEF PushInv
<1>3. CASE PushCanceled \/ PushDone
  BY <1>3 DEF PushCanceled, PushDone, PushInv
<1>4. CASE PushNext
  <2>1. /\ y[Source].results # <<>> /\ pusher = "push" /\ pusher' = "push"
        /\ y'[Source].results = Tail(y[Source].results)
        /\ SubmitTask(Head(y[Source].results))
    BY <1>f, <1>4, TakeFacts DEF PushNext
  <2>2. /\ Head(y[Source].results) \in LobbyTasks
        /\ Elems(y[Source].results)
             = {Head(y[Source].results)} \cup Elems(y'[Source].results)
    BY <1>f, <2>1, TailElems
  <2>3. \A t \in LobbyTasks : submit'[t] = "idle" =>
          submit[t] = "idle" /\ t # Head(y[Source].results)
    BY <1>f, <2>1, <2>2 DEF SubmitTask
  <2> QED
    BY <1>f, <2>1, <2>2, <2>3 DEF PushInv
<1>5. CASE PushReturn
  <2>1. pusher = "push" /\ UNCHANGED <<y, submit>>
        /\ \/ pusher' = "failed"
           \/ /\ \A t \in BatchTasks : submit[t] \in {"idle", "accepted"}
              /\ y[Source].results = <<>> /\ pusher' = "nil"
    BY <1>5 DEF PushReturn
  <2> QED
    BY <2>1, EmptyElems DEF PushInv
<1>6. CASE RetrieveTask
  BY <1>6, PushKept DEF RetrieveTask
<1>7. ASSUME NEW i \in Yielders, FetchTasks(i) \/ ReadResult(i) PROVE PushInv'
  BY <1>f, <1>h, <1>7, PushKept DEF FetchTasks, ReadResult, New
<1>8. ASSUME NEW i \in Yielders,
             YielderStep(i, Batch) \/ Timeout(i) \/ Stop(i), UNCHANGED lobbyVars
      PROVE  PushInv'
  BY <1>8, ActionPush
<1>9. ASSUME NEW c \in Closers, CloseCheck(c) \/ CloseContext(c) PROVE PushInv'
  <2>1. UNCHANGED <<pusher, submit>> /\ y'[Source] = y[Source]
    BY <1>f, <1>h, <1>9 DEF CloseCheck, CloseContext, CloseStore, OnceFirst,
         OnceLater, CloseBuild, CloseStored, CloseFail, New
  <2> QED
    BY <2>1, PushKept
<1>10. CASE UNCHANGED vars
  BY <1>10, PushKept DEF vars
<1> QED
  BY <1>1, <1>2, <1>3, <1>4, <1>5, <1>6, <1>7, <1>8, <1>9, <1>10
     DEF Next, YielderAction

\* PushTasks returns nil only when every task of its yielder was accepted.
THEOREM PushAllOrErrorHolds == Spec => []PushAllOrError
<1>1. Init => PushInv
  BY DEF Init, PushInv
<1>2. LInv /\ PushInv /\ [Next]_vars => PushInv'
  BY PushStep
<1>3. PushInv => PushAllOrError
  BY DEF PushInv, PushAllOrError
<1> QED
  BY <1>1, <1>2, <1>3, LobbyHolds, PTL DEF Spec

----------------------------------------------------------------------------
(* The place of a task. *)

\* A step that moves no task.
LEMMA PlaceKept ==
  ASSUME PlaceInv, UNCHANGED <<input, delivered, dropped>>,
         \A t \in LobbyTasks : submit'[t] = "accepted" <=> submit[t] = "accepted",
         \A i \in Readers : y'[i].hand = y[i].hand /\ y'[i].results = y[i].results
  PROVE  PlaceInv'
<1>1. \A t, k, i : At(k, i, t)' <=> At(k, i, t)
  BY DEF At
<1> QED
  BY <1>1 DEF PlaceInv, OnePlace

\* The step takes task v from one place to another and moves no other task.
Moves(v, k0, i0, k1, i1) ==
  \A t \in LobbyTasks, k \in Kinds, i \in Yielders :
    At(k, i, t)' <=> \/ At(k, i, t) /\ ~(k = k0 /\ i = i0 /\ t = v)
                     \/ k = k1 /\ i = i1 /\ t = v

\* A task that goes from one place to another is in one place again.
LEMMA PlaceMoved ==
  ASSUME PlaceInv, NEW v \in LobbyTasks,
         NEW k0 \in Kinds, NEW i0 \in Yielders, At(k0, i0, v),
         NEW k1 \in Kinds, NEW i1 \in Yielders, Moves(v, k0, i0, k1, i1),
         UNCHANGED submit
  PROVE  \A t \in LobbyTasks : OnePlace(t)'
<1> SUFFICES ASSUME NEW t \in LobbyTasks PROVE OnePlace(t)'
  OBVIOUS
<1>1. OnePlace(t) /\ OnePlace(v)
  BY DEF PlaceInv
<1>2. CASE t = v
  <2>1. \A k \in Kinds, i \in Yielders : At(k, i, t)' <=> k = k1 /\ i = i1
    BY <1>1, <1>2 DEF OnePlace, Moves
  <2> QED
    BY <1>1, <1>2, <2>1 DEF OnePlace
<1>3. CASE t # v
  <2>1. \A k \in Kinds, i \in Yielders : At(k, i, t)' <=> At(k, i, t)
    BY <1>3 DEF Moves
  <2> QED
    BY <1>1, <2>1 DEF OnePlace
<1> QED
  BY <1>2, <1>3

\* SubmitTask puts a task that is nowhere into the incoming channel.
LEMMA SubmitPlace ==
  ASSUME LInv, PlaceInv, NEW v \in LobbyTasks, SubmitSend(v)
  PROVE  PlaceInv'
<1>f. /\ input \in Seq(LobbyTasks) /\ submit \in [LobbyTasks -> Submits]
      /\ Source \in Yielders
  BY TypeFacts, ConstFacts DEF LInv
<1>1. /\ submit[v] = "select" /\ submit' = [submit EXCEPT ![v] = "accepted"]
      /\ input' = Append(input, v) /\ UNCHANGED <<y, dropped, delivered>>
  BY DEF SubmitSend
<1>k. "input" \in Kinds
  BY DEF Kinds
<1>2. \A k \in Kinds, i \in Yielders : ~At(k, i, v)
  BY <1>1 DEF PlaceInv, OnePlace
<1>3. v \notin Elems(input)
  BY <1>f, <1>k, <1>2 DEF At
<1>4. Elems(input') = Elems(input) \cup {v} /\ Injective(input')
  BY <1>f, <1>1, <1>3, AppendElems DEF PlaceInv
<1>5. \A t \in LobbyTasks, k \in Kinds, i \in Yielders :
        At(k, i, t)' <=> At(k, i, t) \/ (k = "input" /\ i = Source /\ t = v)
  BY <1>1, <1>4 DEF At
<1>6. ASSUME NEW t \in LobbyTasks PROVE OnePlace(t)'
  <2>1. CASE t = v
    <3>1. \A k \in Kinds, i \in Yielders :
            At(k, i, t)' <=> k = "input" /\ i = Source
      BY <1>2, <1>5, <2>1
    <3>2. submit'[t] = "accepted"
      BY <1>f, <1>1, <2>1
    <3> QED
      BY <1>f, <1>k, <3>1, <3>2 DEF OnePlace
  <2>2. CASE t # v
    <3>1. \A k \in Kinds, i \in Yielders : At(k, i, t)' <=> At(k, i, t)
      BY <1>5, <2>2
    <3>2. submit'[t] = submit[t] /\ OnePlace(t)
      BY <1>f, <1>1, <2>2 DEF PlaceInv
    <3> QED
      BY <3>1, <3>2 DEF OnePlace
  <2> QED
    BY <2>1, <2>2
<1> QED
  BY <1>1, <1>4, <1>6 DEF PlaceInv

\* The step takes task v from the front of a channel.
Taken(v, k0, i0) ==
  \A t \in LobbyTasks :
    /\ t \in Elems(input') <=> t \in Elems(input) /\ ~(k0 = "input" /\ t = v)
    /\ \A i \in Readers :
         /\ y'[i].hand = y[i].hand
         /\ t \in Elems(y'[i].results) <=>
              t \in Elems(y[i].results) /\ ~(k0 = "results" /\ i = i0 /\ t = v)

\* A consumer receives a task, from the incoming channel or from a yielder.
LEMMA ConsumePlace ==
  ASSUME LInv, PlaceInv, NEW v \in LobbyTasks,
         NEW k0 \in {"input", "results"}, NEW i0 \in Yielders, At(k0, i0, v),
         UNCHANGED <<submit, dropped>>,
         delivered' = [delivered EXCEPT ![v] = @ + 1],
         Injective(input') /\ \A i \in Readers : Injective(y'[i].results),
         Taken(v, k0, i0)
  PROVE  PlaceInv'
<1>f. delivered \in [LobbyTasks -> Nat] /\ Source \in Yielders
      /\ Source \notin Readers
  BY TypeFacts, ConstFacts DEF LInv
<1>k. "delivered" \in Kinds /\ k0 \in Kinds
  BY DEF Kinds
<1>1. ~At("delivered", Source, v)
  BY <1>f, <1>k DEF PlaceInv, OnePlace
<1>2. delivered[v] = 0
  BY <1>1 DEF At, PlaceInv
<1>3. delivered'[v] = 1 /\ \A t \in LobbyTasks : t # v => delivered'[t] = delivered[t]
  BY <1>f, <1>2
<1>4. ASSUME NEW t \in LobbyTasks, NEW k \in Kinds, NEW i \in Yielders
      PROVE  At(k, i, t)' <=> \/ At(k, i, t) /\ ~(k = k0 /\ i = i0 /\ t = v)
                              \/ k = "delivered" /\ i = Source /\ t = v
  <2>1. k0 = "input" => i0 = Source
    BY DEF At
  <2>2. CASE k = "input"
    BY <2>1, <2>2 DEF At, Taken
  <2>3. CASE k = "delivered"
    BY <1>2, <1>3, <2>3 DEF At
  <2>4. CASE k \in {"hand", "results", "dropped"}
    BY <2>4 DEF At, Taken
  <2> QED
    BY <2>2, <2>3, <2>4 DEF Kinds
<1>5. Moves(v, k0, i0, "delivered", Source)
  BY <1>4 DEF Moves
<1>6. \A t \in LobbyTasks : OnePlace(t)'
  BY <1>f, <1>k, <1>5, PlaceMoved
<1> QED
  BY <1>3, <1>6 DEF PlaceInv

\* A yielder takes a task from the incoming channel, forwards it, or drops it.
LEMMA ActionPlace ==
  ASSUME LInv, PlaceInv, NEW i \in Yielders,
         YielderStep(i, Batch) \/ Timeout(i) \/ Stop(i), UNCHANGED lobbyVars
  PROVE  PlaceInv'
<1>f. /\ LobbyType /\ YielderInv /\ YielderOK(i)
      /\ y \in [Yielders -> YielderState] /\ input \in Seq(LobbyTasks)
      /\ y[i].results \in Seq(LobbyTasks) /\ y[i].pc \in Pcs /\ y[i].err \in Errs
      /\ y[i].hand \in LobbyTasks \cup {NoValue}
  BY TypeFacts DEF LInv, YielderInv
<1>c. /\ Source \in Yielders /\ Source \notin Readers /\ Readers \subseteq Yielders
      /\ i # Source => i \in Readers
      /\ NoValue \notin LobbyTasks
      /\ Kinds = {"input", "delivered", "hand", "results", "dropped"}
  BY ConstFacts, LobbyAssumption DEF Kinds
<1>o. Only(i)
  BY <1>f, ActionType
<1>k. /\ Source \in Yielders
      /\ "input" \in Kinds /\ "hand" \in Kinds /\ "results" \in Kinds
      /\ "dropped" \in Kinds
  BY <1>c
<1>u. UNCHANGED <<submit, delivered>>
  BY DEF lobbyVars
<1>1. CASE Receive(i)
  <2>1. PICK v : v = Head(input)
    OBVIOUS
  <2>2. /\ y[i].pc = "recv" /\ input # <<>> /\ input' = Tail(input)
        /\ y'[i].hand = v /\ y'[i].results = y[i].results /\ dropped' = dropped
    BY <1>f, <1>1, <2>1, ReceiveFacts
  <2>3. /\ v \in LobbyTasks /\ Elems(input) = {v} \cup Elems(input')
        /\ v \notin Elems(input') /\ Injective(input')
    BY <1>f, <2>1, <2>2, TailElems DEF PlaceInv
  <2>4. i \in Readers /\ y[i].hand = NoValue
    BY <1>f, <1>c, <2>2 DEF YielderOK
  <2>5. \A j \in Readers : j # i => y'[j] = y[j]
    BY <1>o, <1>c DEF Only
  <2>6. ASSUME NEW t \in LobbyTasks, NEW k \in Kinds, NEW j \in Yielders
        PROVE  At(k, j, t)' <=> \/ At(k, j, t) /\ ~(k = "input" /\ j = Source /\ t = v)
                                \/ k = "hand" /\ j = i /\ t = v
    <3>1. CASE k = "input"
      BY <2>3, <3>1 DEF At
    <3>2. CASE k = "hand"
      BY <1>c, <2>2, <2>4, <2>5, <3>2 DEF At
    <3>3. CASE k \in {"delivered", "results", "dropped"}
      BY <1>u, <2>2, <2>5, <3>3 DEF At
    <3> QED
      BY <3>1, <3>2, <3>3 DEF Kinds
  <2>7. At("input", Source, v)
    BY <2>3 DEF At
  <2>8. Moves(v, "input", Source, "hand", i)
    BY <2>6 DEF Moves
  <2>9. \A t \in LobbyTasks : OnePlace(t)'
    BY <1>k, <1>u, <2>3, <2>7, <2>8, PlaceMoved
  <2> QED
    BY <1>u, <2>2, <2>3, <2>5, <2>9 DEF PlaceInv
<1>2. CASE Forward(i)
  <2>1. PICK v : v = y[i].hand
    OBVIOUS
  <2>2. y[i].pc = "send" /\ v \in LobbyTasks
    BY <1>f, <1>2, <2>1, HandFacts DEF Forward
  <2>3. /\ y'[i].hand = NoValue /\ y'[i].results = Append(y[i].results, v)
        /\ UNCHANGED <<input, dropped>>
    BY <1>f, <1>2, <2>1, <2>2, ForwardFacts
  <2>4. i \in Readers
    BY <1>f, <1>c, <2>2 DEF YielderOK
  <2>5. \A j \in Readers : j # i => y'[j] = y[j]
    BY <1>o, <1>c DEF Only
  <2>6. At("hand", i, v)
    BY <2>1, <2>4 DEF At
  <2>7. v \notin Elems(y[i].results)
    <3>1. ~At("results", i, v)
      BY <1>c, <2>2, <2>6 DEF PlaceInv, OnePlace
    <3> QED
      BY <2>4, <3>1 DEF At
  <2>8. Elems(y'[i].results) = Elems(y[i].results) \cup {v}
        /\ Injective(y'[i].results)
    BY <1>f, <2>2, <2>3, <2>4, <2>7, AppendElems DEF PlaceInv
  <2>9. ASSUME NEW t \in LobbyTasks, NEW k \in Kinds, NEW j \in Yielders
        PROVE  At(k, j, t)' <=> \/ At(k, j, t) /\ ~(k = "hand" /\ j = i /\ t = v)
                                \/ k = "results" /\ j = i /\ t = v
    <3>1. CASE k = "hand"
      BY <1>c, <2>1, <2>3, <2>4, <2>5, <3>1 DEF At
    <3>2. CASE k = "results"
      BY <2>4, <2>5, <2>8, <3>2 DEF At
    <3>3. CASE k \in {"input", "delivered", "dropped"}
      BY <1>u, <2>3, <3>3 DEF At
    <3> QED
      BY <3>1, <3>2, <3>3 DEF Kinds
  <2>10. Moves(v, "hand", i, "results", i)
    BY <2>9 DEF Moves
  <2>11. \A t \in LobbyTasks : OnePlace(t)'
    BY <1>k, <1>u, <2>2, <2>6, <2>10, PlaceMoved
  <2> QED
    BY <1>u, <2>3, <2>5, <2>8, <2>11 DEF PlaceInv
<1>3. CASE ForwardStopped(i)
  <2>1. PICK v : v = y[i].hand
    OBVIOUS
  <2>2. y[i].pc = "send" /\ v \in LobbyTasks
    BY <1>f, <1>3, <2>1, HandFacts DEF ForwardStopped
  <2>3. /\ y'[i].hand = NoValue /\ y'[i].results = y[i].results
        /\ dropped' = dropped \cup {<<i, v>>} /\ input' = input
    BY <1>f, <1>3, <2>1, ForwardStoppedFacts
  <2>4. i \in Readers
    BY <1>f, <1>c, <2>2 DEF YielderOK
  <2>5. \A j \in Readers : j # i => y'[j] = y[j]
    BY <1>o, <1>c DEF Only
  <2>6. At("hand", i, v)
    BY <2>1, <2>4 DEF At
  <2>7. ASSUME NEW t \in LobbyTasks, NEW k \in Kinds, NEW j \in Yielders
        PROVE  At(k, j, t)' <=> \/ At(k, j, t) /\ ~(k = "hand" /\ j = i /\ t = v)
                                \/ k = "dropped" /\ j = i /\ t = v
    <3>1. CASE k = "hand"
      BY <1>c, <2>1, <2>3, <2>4, <2>5, <3>1 DEF At
    <3>2. CASE k = "dropped"
      BY <2>3, <2>4, <3>2 DEF At
    <3>3. CASE k \in {"input", "delivered", "results"}
      BY <1>u, <2>3, <2>5, <3>3 DEF At
    <3> QED
      BY <3>1, <3>2, <3>3 DEF Kinds
  <2>8. Moves(v, "hand", i, "dropped", i)
    BY <2>7 DEF Moves
  <2>9. \A t \in LobbyTasks : OnePlace(t)'
    BY <1>k, <1>u, <2>2, <2>6, <2>8, PlaceMoved
  <2> QED
    BY <1>u, <2>3, <2>5, <2>9 DEF PlaceInv
<1>4. CASE ~(Receive(i) \/ Forward(i) \/ ForwardStopped(i))
  <2>1. /\ UNCHANGED <<input, dropped>>
        /\ i # Source => y'[i].hand = y[i].hand /\ y'[i].results = y[i].results
    <3>1. CASE Generate(i, Batch) \/ Emit(i)
      <4>1. i = Source
        BY <1>f, <3>1 DEF Generate, Emit, YielderOK
      <4> QED
        BY <3>1, <4>1 DEF Generate, Emit
    <3>2. CASE \/ GenerateFail(i) \/ EmitStopped(i) \/ EmitAll(i)
               \/ InputClosed(i) \/ ReceiveStopped(i)
      <4>1. "closing" \in Pcs
        BY DEF Pcs
      <4>2. PICK from \in Pcs, e \in Errs : Step(i, from, "closing", e)
        BY <3>2 DEF GenerateFail, EmitStopped, EmitAll, InputClosed,
                    ReceiveStopped, Pcs, Errs
      <4> QED
        BY <1>f, <4>1, <4>2, StepFacts
    <3>3. CASE Finish(i) \/ Timeout(i) \/ Stop(i)
      BY <1>f, <3>3, ContextFacts
    <3> QED
      BY <1>4, <3>1, <3>2, <3>3 DEF YielderStep
  <2>2. \A j \in Readers : y'[j].hand = y[j].hand /\ y'[j].results = y[j].results
    BY <1>c, <1>o, <2>1 DEF Only
  <2> QED
    BY <1>u, <2>1, <2>2, PlaceKept
<1> QED
  BY <1>1, <1>2, <1>3, <1>4

\* Every step preserves PlaceInv.
LEMMA PlaceStep == LInv /\ PlaceInv /\ [Next]_vars => PlaceInv'
<1> SUFFICES ASSUME LInv, PlaceInv, [Next]_vars PROVE PlaceInv'
  OBVIOUS
<1>f. /\ LobbyType /\ YielderInv /\ CloseInv
      /\ y \in [Yielders -> YielderState] /\ submit \in [LobbyTasks -> Submits]
      /\ input \in Seq(LobbyTasks) /\ Len(input) \in Nat
  BY TypeFacts DEF LInv
<1>c. /\ Source \in Yielders /\ Source \notin Readers /\ Readers \subseteq Yielders
      /\ Handoff \in Readers /\ Fetchers \subseteq Readers
      /\ FetchBuf \in Nat /\ "recv" \in Pcs
  BY ConstFacts DEF Pcs
<1> USE DEF lobbyVars, closeVars, yielderVars
<1>1. ASSUME NEW t \in LobbyTasks,
             SubmitDirect(t) \/ SubmitClosed(t) \/ SubmitTimeout(t)
      PROVE  PlaceInv'
  <2>1. /\ UNCHANGED <<y, input, dropped, delivered>>
        /\ \A u \in LobbyTasks : submit'[u] = "accepted" <=> submit[u] = "accepted"
    BY <1>f, <1>1 DEF SubmitDirect, SubmitTask, SubmitClosed, SubmitTimeout
  <2> QED
    BY <2>1, PlaceKept
<1>2. ASSUME NEW t \in LobbyTasks, SubmitSend(t) PROVE PlaceInv'
  BY <1>2, SubmitPlace
<1>3. CASE PushStart
  <2>1. /\ UNCHANGED <<input, dropped, delivered, submit>>
        /\ \A i \in Readers : y'[i] = y[i]
    BY <1>f, <1>c, <1>3 DEF PushStart, New
  <2> QED
    BY <2>1, PlaceKept
<1>4. CASE PushCanceled \/ PushDone \/ PushReturn
  BY <1>4, PlaceKept DEF PushCanceled, PushDone, PushReturn
<1>5. CASE PushNext
  <2>1. /\ UNCHANGED <<input, dropped, delivered>>
        /\ \A i \in Readers : y'[i] = y[i]
        /\ SubmitTask(Head(y[Source].results))
    BY <1>f, <1>c, <1>5 DEF PushNext
  <2>2. \A u \in LobbyTasks : submit'[u] = "accepted" <=> submit[u] = "accepted"
    BY <1>f, <2>1 DEF SubmitTask
  <2> QED
    BY <2>1, <2>2, PlaceKept
<1>6. CASE RetrieveTask
  <2>1. PICK v : v = Head(input)
    OBVIOUS
  <2>2. /\ input # <<>> /\ input' = Tail(input) /\ UNCHANGED <<y, dropped, submit>>
        /\ delivered' = [delivered EXCEPT ![v] = @ + 1]
    BY <1>6, <2>1 DEF RetrieveTask
  <2>3. /\ v \in LobbyTasks /\ Elems(input) = {v} \cup Elems(input')
        /\ v \notin Elems(input') /\ Injective(input')
    BY <1>f, <2>1, <2>2, TailElems DEF PlaceInv
  <2>4. At("input", Source, v)
    BY <2>3 DEF At
  <2>5. \A i \in Readers : Injective(y'[i].results)
    BY <2>2 DEF PlaceInv
  <2>6. Taken(v, "input", Source)
    BY <2>2, <2>3 DEF Taken
  <2> QED
    BY <1>c, <2>2, <2>3, <2>4, <2>5, <2>6, ConsumePlace
<1>7. ASSUME NEW i \in Yielders, FetchTasks(i) PROVE PlaceInv'
  <2>1. /\ y[i].pc = "none" /\ New(i, "recv", FetchBuf)
        /\ UNCHANGED <<input, dropped, submit, delivered>>
    BY <1>7 DEF FetchTasks
  <2>2. Only(i) /\ y'[i].hand = NoValue /\ y'[i].results = <<>>
    BY <1>f, <1>c, <2>1, NewFacts
  <2>3. y[i].hand = NoValue /\ y[i].results = <<>>
    BY <1>f, <2>1 DEF YielderInv, YielderOK
  <2>4. \A j \in Readers : y'[j].hand = y[j].hand /\ y'[j].results = y[j].results
    BY <1>c, <2>2, <2>3 DEF Only
  <2> QED
    BY <2>1, <2>4, PlaceKept
<1>8. ASSUME NEW i \in Yielders, ReadResult(i) PROVE PlaceInv'
  <2>1. PICK v : v = Head(y[i].results)
    OBVIOUS
  <2>2. /\ i \in Readers /\ y[i].results # <<>>
        /\ UNCHANGED <<input, dropped, submit>>
        /\ delivered' = [delivered EXCEPT ![v] = @ + 1]
        /\ y' = [y EXCEPT ![i].results = Tail(@)]
    BY <1>c, <1>8, <2>1 DEF ReadResult
  <2>3. /\ Only(i) /\ y'[i].hand = y[i].hand
        /\ y'[i].results = Tail(y[i].results)
    BY <1>f, <2>2, TakeFacts
  <2>4. y[i].results \in Seq(LobbyTasks) /\ Injective(y[i].results)
    BY <1>f, <2>2, TypeFacts DEF PlaceInv
  <2>5. /\ v \in LobbyTasks /\ Elems(y[i].results) = {v} \cup Elems(y'[i].results)
        /\ v \notin Elems(y'[i].results) /\ Injective(y'[i].results)
    BY <2>1, <2>2, <2>3, <2>4, TailElems
  <2>6. At("results", i, v)
    BY <2>2, <2>5 DEF At
  <2>7. \A j \in Readers : j # i => y'[j] = y[j]
    BY <1>c, <2>3 DEF Only
  <2>8. \A j \in Readers : Injective(y'[j].results)
    BY <2>5, <2>7 DEF PlaceInv
  <2>9. Injective(input')
    BY <2>2 DEF PlaceInv
  <2>10. Taken(v, "results", i)
    BY <2>2, <2>3, <2>5, <2>7 DEF Taken
  <2> QED
    BY <2>2, <2>5, <2>6, <2>8, <2>9, <2>10, ConsumePlace
<1>9. ASSUME NEW i \in Yielders,
             YielderStep(i, Batch) \/ Timeout(i) \/ Stop(i), UNCHANGED lobbyVars
      PROVE  PlaceInv'
  BY <1>9, ActionPlace
<1>10. ASSUME NEW c \in Closers, CloseBuild(c) PROVE PlaceInv'
  <2>1. /\ y[Handoff].pc = "none" /\ New(Handoff, "recv", Len(input))
        /\ UNCHANGED <<input, dropped, submit, delivered>>
    BY <1>f, <1>10 DEF CloseBuild, CloseInv, HandoffInv, OnceInv, CloserOK
  <2>2. Only(Handoff) /\ y'[Handoff].hand = NoValue /\ y'[Handoff].results = <<>>
    BY <1>f, <1>c, <2>1, NewFacts
  <2>3. y[Handoff].hand = NoValue /\ y[Handoff].results = <<>>
    BY <1>f, <1>c, <2>1 DEF YielderInv, YielderOK
  <2>4. \A j \in Readers : y'[j].hand = y[j].hand /\ y'[j].results = y[j].results
    BY <1>c, <2>2, <2>3 DEF Only
  <2> QED
    BY <2>1, <2>4, PlaceKept
<1>11. ASSUME NEW c \in Closers, CloseCheck(c) \/ CloseContext(c), ~CloseBuild(c)
       PROVE  PlaceInv'
  <2>1. UNCHANGED <<y, input, dropped, submit, delivered>>
    BY <1>11 DEF CloseCheck, CloseContext, CloseStore, OnceFirst, OnceLater,
         CloseStored, CloseFail
  <2> QED
    BY <2>1, PlaceKept
<1>12. CASE UNCHANGED vars
  BY <1>12, PlaceKept DEF vars
<1> QED
  BY <1>1, <1>2, <1>3, <1>4, <1>5, <1>6, <1>7, <1>8, <1>9, <1>10, <1>11, <1>12
     DEF Next, Submitter, YielderAction

\* A new lobby has no task anywhere.
LEMMA PlaceInit == Init => PlaceInv
<1> SUFFICES ASSUME Init PROVE PlaceInv
  OBVIOUS
<1>1. /\ input = <<>> /\ dropped = {} /\ delivered = [t \in LobbyTasks |-> 0]
      /\ \A i \in Readers : y[i].hand = NoValue /\ y[i].results = <<>>
      /\ \A t \in LobbyTasks : submit[t] = "idle"
  BY ConstFacts DEF Init, YielderInit, NotCreated
<1>2. \A t \in LobbyTasks : \A k, i : ~At(k, i, t)
  BY <1>1, EmptyElems, ConstFacts DEF At
<1> QED
  BY <1>1, <1>2, EmptyElems DEF PlaceInv, OnePlace

\* What PlaceInv says in the terms of TaskInOnePlace, which counts positions.
LEMMA PlacesCounted ==
  ASSUME LInv, PlaceInv, NEW t \in LobbyTasks
  PROVE  Cardinality(Places(t)) = IF submit[t] = "accepted" THEN 1 ELSE 0
<1>o. OnePlace(t) /\ delivered[t] \in {0, 1} /\ Injective(input)
      /\ \A i \in Readers : Injective(y[i].results)
  BY DEF PlaceInv
<1>c. /\ Source \in Yielders /\ Readers \subseteq Yielders
      /\ Kinds = {"input", "delivered", "hand", "results", "dropped"}
  BY ConstFacts DEF Kinds
<1>d. 1 .. 0 = {} /\ 1 .. 1 = {1}
  OBVIOUS
<1>1. CASE submit[t] # "accepted"
  <2>1. \A k \in Kinds, i \in Yielders : ~At(k, i, t)
    BY <1>o, <1>1 DEF OnePlace
  <2>2. /\ t \notin Elems(input) /\ delivered[t] = 0
        /\ \A i \in Readers : /\ y[i].hand # t /\ t \notin Elems(y[i].results)
                              /\ <<i, t>> \notin dropped
    BY <1>o, <1>c, <2>1 DEF At
  <2>3. /\ {n \in DOMAIN input : input[n] = t} = {}
        /\ \A i \in Readers :
             {n \in DOMAIN y[i].results : y[i].results[n] = t} = {}
        /\ {r \in Readers : <<r, t>> \in dropped} = {}
        /\ {r \in Readers : y[r].hand = t} = {}
        /\ 1 .. delivered[t] = {}
    BY <1>d, <2>2 DEF Elems
  <2>4. Places(t) = {}
    BY <2>3 DEF Places
  <2> QED
    BY <1>1, <2>4, FS_EmptySet
<1>2. CASE submit[t] = "accepted"
  <2>1. PICK k \in Kinds, i \in Yielders : At(k, i, t)
    BY <1>o, <1>2 DEF OnePlace
  <2>2. \A m \in Kinds, j \in Yielders : At(m, j, t) => m = k /\ j = i
    BY <1>o, <2>1 DEF OnePlace
  <2>3. /\ k # "input" => t \notin Elems(input)
        /\ k # "delivered" => delivered[t] = 0
        /\ \A j \in Readers :
             /\ k # "hand" \/ j # i => y[j].hand # t
             /\ k # "results" \/ j # i => t \notin Elems(y[j].results)
             /\ k # "dropped" \/ j # i => <<j, t>> \notin dropped
    BY <1>o, <1>c, <2>2 DEF At
  <2>4. \E x : Places(t) = {x}
    <3>1. CASE k = "input"
      <4>1. PICK n \in DOMAIN input : input[n] = t
        BY <2>1, <3>1 DEF At, Elems
      <4>2. {m \in DOMAIN input : input[m] = t} = {n}
        BY <1>o, <4>1 DEF Injective
      <4>3. /\ \A j \in Readers :
                 {m \in DOMAIN y[j].results : y[j].results[m] = t} = {}
            /\ {r \in Readers : <<r, t>> \in dropped} = {}
            /\ {r \in Readers : y[r].hand = t} = {}
            /\ 1 .. delivered[t] = {}
        BY <1>d, <2>3, <3>1 DEF Elems
      <4>4. {<<"input", m>> : m \in {q \in DOMAIN input : input[q] = t}}
              = {<<"input", n>>}
        BY <4>2
      <4>5. Places(t) = {<<"input", n>>}
        BY <4>3, <4>4 DEF Places
      <4> QED
        BY <4>5
    <3>2. CASE k = "delivered"
      <4>1. Places(t) = {<<"delivered", 1>>}
        BY <1>d, <2>1, <2>3, <3>2 DEF Places, Elems, At
      <4> QED
        BY <4>1
    <3>3. CASE k = "hand"
      <4>1. Places(t) = {<<"hand", i>>}
        BY <1>d, <2>1, <2>3, <3>3 DEF Places, Elems, At
      <4> QED
        BY <4>1
    <3>4. CASE k = "results"
      <4>1. i \in Readers /\ t \in Elems(y[i].results)
        BY <2>1, <3>4 DEF At
      <4>2. PICK n \in DOMAIN y[i].results : y[i].results[n] = t
        BY <4>1 DEF Elems
      <4>3. {m \in DOMAIN y[i].results : y[i].results[m] = t} = {n}
        BY <1>o, <4>1, <4>2 DEF Injective
      <4>4. /\ {m \in DOMAIN input : input[m] = t} = {}
            /\ \A j \in Readers : j # i =>
                 {m \in DOMAIN y[j].results : y[j].results[m] = t} = {}
            /\ {r \in Readers : <<r, t>> \in dropped} = {}
            /\ {r \in Readers : y[r].hand = t} = {}
            /\ 1 .. delivered[t] = {}
        BY <1>d, <2>3, <3>4 DEF Elems
      <4>5. UNION {{<<j, m>> : m \in {q \in DOMAIN y[j].results :
                                         y[j].results[q] = t}} : j \in Readers}
              = {<<i, n>>}
        <5>1. {<<i, m>> : m \in {q \in DOMAIN y[i].results :
                                    y[i].results[q] = t}} = {<<i, n>>}
          BY <4>3
        <5>2. \A j \in Readers : j # i =>
                {<<j, m>> : m \in {q \in DOMAIN y[j].results :
                                      y[j].results[q] = t}} = {}
          BY <4>4
        <5> QED
          BY <4>1, <5>1, <5>2
      <4>6. Places(t) = {<<i, n>>}
        BY <4>4, <4>5 DEF Places
      <4> QED
        BY <4>6
    <3>5. CASE k = "dropped"
      <4>1. Places(t) = {<<"dropped", i>>}
        BY <1>d, <2>1, <2>3, <3>5 DEF Places, Elems, At
      <4> QED
        BY <4>1
    <3> QED
      BY <1>c, <3>1, <3>2, <3>3, <3>4, <3>5
  <2> QED
    BY <1>2, <2>4, FS_Singleton
<1> QED
  BY <1>1, <1>2

\* However fetching, closing and the hand-off interleave, an accepted task is in
\* exactly one place, and a refused one in none.
THEOREM TaskInOnePlaceHolds == Spec => []TaskInOnePlace
<1>1. Init => PlaceInv
  BY PlaceInit
<1>2. LInv /\ PlaceInv /\ [Next]_vars => PlaceInv'
  BY PlaceStep
<1>3. LInv /\ PlaceInv => TaskInOnePlace
  BY PlacesCounted DEF TaskInOnePlace
<1> QED
  BY <1>1, <1>2, <1>3, LobbyHolds, PTL DEF Spec
==============================================================================

-------------------------------- MODULE Lobby --------------------------------
(***************************************************************************)
(* The bounded staging area of pkg/taskqueue (lobby.go) with the yielders   *)
(* it is used through: FetchTasks and the hand-off of CloseContext read the *)
(* incoming channel, which is `input` of Yielder, and PushTasks drains a    *)
(* yielder into the lobby.                                                  *)
(*                                                                         *)
(* Each task of Direct is submitted by a goroutine of its own, those of     *)
(* Batch by one goroutine that calls PushTasks on the yielder Source.  The  *)
(* readers of sendMu are the tasks whose SubmitTask is in its select.       *)
(***************************************************************************)
EXTENDS Yielder, FiniteSets

CONSTANTS
  Direct,    \* tasks submitted with SubmitTask
  Batch,     \* the tasks of the yielder given to PushTasks, in order
  Source,    \* that yielder
  SourceBuf, \* its buffer
  Fetchers,  \* the yielders FetchTasks may create
  FetchBuf,  \* n of FetchTasks
  Handoff,   \* the yielder CloseContext may create
  Closers,   \* goroutines that call CloseContext
  MaxTasks   \* NewLobby's maxTasks, after defaulting

BatchTasks == {Batch[k] : k \in DOMAIN Batch}
LobbyTasks == Direct \cup BatchTasks

ASSUME LobbyAssumption ==
  /\ Batch \in Seq(BatchTasks)
  /\ \A j, k \in DOMAIN Batch : Batch[j] = Batch[k] => j = k
  /\ Direct \cap BatchTasks = {}
  /\ Yielders = Fetchers \cup {Source, Handoff}
  /\ Source \notin Fetchers /\ Handoff \notin Fetchers /\ Source # Handoff
  /\ NoValue \notin LobbyTasks
  /\ SourceBuf \in Nat /\ FetchBuf \in Nat
  /\ MaxTasks \in Nat \ {0}

VARIABLES
  submit,     \* the SubmitTask of each task
  pusher,     \* the PushTasks goroutine
  closer,     \* the CloseContext of each closer
  closed,     \* Lobby.closed
  closing,    \* the closing channel is closed
  once,       \* onceClose: "new", "running" or "done"
  handoff,    \* Lobby.handoff is set
  delivered   \* history: how often a consumer received each task

closeVars == <<closer, closed, closing, once, handoff>>
lobbyVars == <<submit, pusher, closeVars, delivered>>
vars == <<yielderVars, lobbyVars>>

Init ==
  /\ YielderInit
  /\ submit = [t \in LobbyTasks |-> "idle"]
  /\ pusher = "idle"
  /\ closer = [c \in Closers |-> "idle"]
  /\ closed = FALSE
  /\ closing = FALSE
  /\ once = "new"
  /\ handoff = FALSE
  /\ delivered = [t \in LobbyTasks |-> 0]

----------------------------------------------------------------------------
(* SubmitTask. *)

\* RLock waits for the writer.  One that is still waiting for sendMu has closed
\* the lobby already, so that a reader it holds up is refused either way.
RLockFree == \A c \in Closers : closer[c] # "build"

\* RLock and the closed check.
SubmitTask(t) ==
  /\ submit[t] = "idle"
  /\ RLockFree
  /\ submit' = [submit EXCEPT ![t] = IF closed THEN "refused" ELSE "select"]

SubmitDirect(t) ==
  /\ t \in Direct
  /\ SubmitTask(t)
  /\ UNCHANGED <<yielderVars, pusher, closeVars, delivered>>

\* A send on a closed channel would panic: see NoSendOnClosed.
SubmitSend(t) ==
  /\ submit[t] = "select"
  /\ Len(input) < MaxTasks
  /\ submit' = [submit EXCEPT ![t] = "accepted"]
  /\ input' = Append(input, t)
  /\ UNCHANGED <<y, inputClosed, dropped, pusher, closeVars, delivered>>

\* Mutant: the select does not watch the closing channel.
SubmitClosedIgnored(t) ==
  /\ submit[t] = "select"
  /\ closing
  /\ UNCHANGED vars

SubmitClosed(t) ==
  /\ submit[t] = "select"
  /\ closing
  /\ submit' = [submit EXCEPT ![t] = "refused"]
  /\ UNCHANGED <<yielderVars, pusher, closeVars, delivered>>

\* Mutant: the send is left to a goroutine, which a timeout does not stop.
SubmitTimeoutSent(t) ==
  /\ submit[t] = "select"
  /\ Len(input) < MaxTasks
  /\ submit' = [submit EXCEPT ![t] = "refused"]
  /\ input' = Append(input, t)
  /\ UNCHANGED <<y, inputClosed, dropped, pusher, closeVars, delivered>>

\* ErrLobbyFull, or ctx is done.
SubmitTimeout(t) ==
  /\ submit[t] = "select"
  /\ submit' = [submit EXCEPT ![t] = "refused"]
  /\ UNCHANGED <<yielderVars, pusher, closeVars, delivered>>

----------------------------------------------------------------------------
(* PushTasks on the yielder Source. *)

\* The caller creates the yielder and calls PushTasks.
PushStart ==
  /\ pusher = "idle"
  /\ pusher' = "wait"
  /\ New(Source, "call", SourceBuf)
  /\ UNCHANGED <<input, inputClosed, dropped, submit, closeVars, delivered>>

\* ctx is done.
PushCanceled ==
  /\ pusher = "wait"
  /\ pusher' = "failed"
  /\ UNCHANGED <<yielderVars, submit, closeVars, delivered>>

\* Mutant: does not look at the yielder's error.
PushDoneUnchecked ==
  /\ pusher = "wait"
  /\ y[Source].pc = "done"
  /\ pusher' = "push"
  /\ UNCHANGED <<yielderVars, submit, closeVars, delivered>>

\* The yielder is done: its error ends PushTasks before anything is submitted.
PushDone ==
  /\ pusher = "wait"
  /\ y[Source].pc = "done"
  /\ pusher' = IF y[Source].err = "none" THEN "push" ELSE "failed"
  /\ UNCHANGED <<yielderVars, submit, closeVars, delivered>>

\* Submit the next result once the SubmitTask before it has returned nil.
PushNext ==
  /\ pusher = "push"
  /\ \A t \in BatchTasks : submit[t] \in {"idle", "accepted"}
  /\ y[Source].results # <<>>
  /\ SubmitTask(Head(y[Source].results))
  /\ y' = [y EXCEPT ![Source].results = Tail(@)]
  /\ UNCHANGED <<input, inputClosed, dropped, pusher, closeVars, delivered>>

\* Every result is submitted, or a SubmitTask failed.
PushReturn ==
  /\ pusher = "push"
  /\ \/ /\ \E t \in BatchTasks : submit[t] = "refused"
        /\ pusher' = "failed"
     \/ /\ \A t \in BatchTasks : submit[t] \in {"idle", "accepted"}
        /\ y[Source].results = <<>>
        /\ pusher' = "nil"
  /\ UNCHANGED <<yielderVars, submit, closeVars, delivered>>

----------------------------------------------------------------------------
(* RetrieveTask, FetchTasks and the readers of the yielders. *)

RetrieveTask ==
  /\ input # <<>>
  /\ delivered' = [delivered EXCEPT ![Head(input)] = @ + 1]
  /\ input' = Tail(input)
  /\ UNCHANGED <<y, inputClosed, dropped, submit, pusher, closeVars>>

FetchTasks(f) ==
  /\ f \in Fetchers
  /\ y[f].pc = "none"
  /\ New(f, "recv", FetchBuf)
  /\ UNCHANGED <<input, inputClosed, dropped, lobbyVars>>

\* The hand-off can be read once HandoffTasks returns it.
ReadResult(i) ==
  /\ i \in Fetchers \/ (i = Handoff /\ closed /\ handoff)
  /\ y[i].results # <<>>
  /\ delivered' = [delivered EXCEPT ![Head(y[i].results)] = @ + 1]
  /\ y' = [y EXCEPT ![i].results = Tail(@)]
  /\ UNCHANGED <<input, inputClosed, dropped, submit, pusher, closeVars>>

----------------------------------------------------------------------------
(* CloseContext. *)

CloseCheck(c) ==
  /\ closer[c] = "idle"
  /\ closer' = [closer EXCEPT ![c] = IF closed THEN "ErrLobbyClosed" ELSE "store"]
  /\ UNCHANGED <<yielderVars, submit, pusher, closed, closing, once, handoff,
                 delivered>>

CloseStore(c) ==
  /\ closer[c] = "store"
  /\ closer' = [closer EXCEPT ![c] = "once"]
  /\ closed' = TRUE
  /\ UNCHANGED <<yielderVars, submit, pusher, closing, once, handoff, delivered>>

\* onceClose.Do: the first caller goes on and closes the closing channel.
OnceFirst(c) ==
  /\ closer[c] = "once"
  /\ once = "new"
  /\ once' = "running"
  /\ closing' = TRUE
  /\ closer' = [closer EXCEPT ![c] = "lock"]
  /\ UNCHANGED <<yielderVars, submit, pusher, closed, handoff, delivered>>

\* Mutant: a flag instead of a sync.Once, which does not wait.
OnceLaterEager(c) ==
  /\ closer[c] = "once"
  /\ once # "new"
  /\ closer' = [closer EXCEPT ![c] = "nil"]
  /\ UNCHANGED <<yielderVars, submit, pusher, closed, closing, once, handoff,
                 delivered>>

\* A later caller returns nil when the first is through.
OnceLater(c) ==
  /\ closer[c] = "once"
  /\ once = "done"
  /\ closer' = [closer EXCEPT ![c] = "nil"]
  /\ UNCHANGED <<yielderVars, submit, pusher, closed, closing, once, handoff,
                 delivered>>

Writable == \A t \in LobbyTasks : submit[t] # "select"

\* Mutant: does not wait for the submissions under way.
CloseBuildUnlocked(c) ==
  /\ closer[c] = "lock"
  /\ closer' = [closer EXCEPT ![c] = "build"]
  /\ New(Handoff, "recv", Len(input))
  /\ UNCHANGED <<input, inputClosed, dropped, submit, pusher, closed, closing,
                 once, handoff, delivered>>

\* sendMu is locked and the hand-off built, with room for what is buffered.
CloseBuild(c) ==
  /\ closer[c] = "lock"
  /\ Writable
  /\ closer' = [closer EXCEPT ![c] = "build"]
  /\ New(Handoff, "recv", Len(input))
  /\ UNCHANGED <<input, inputClosed, dropped, submit, pusher, closed, closing,
                 once, handoff, delivered>>

\* The hand-off is stored; the deferred close(incoming) and Unlock.
CloseStored(c) ==
  /\ closer[c] = "build"
  /\ handoff' = TRUE
  /\ inputClosed' = TRUE
  /\ once' = "done"
  /\ closer' = [closer EXCEPT ![c] = "nil"]
  /\ UNCHANGED <<y, input, dropped, submit, pusher, closed, closing, delivered>>

\* ctx is done, so that yielder.New fails: there is no hand-off.
CloseFail(c) ==
  /\ closer[c] = "lock"
  /\ Writable
  /\ inputClosed' = TRUE
  /\ once' = "done"
  /\ closer' = [closer EXCEPT ![c] = "failed"]
  /\ UNCHANGED <<y, input, dropped, submit, pusher, closed, closing, handoff,
                 delivered>>

CloseContext(c) ==
  \/ CloseStore(c) \/ OnceFirst(c) \/ OnceLater(c)
  \/ CloseBuild(c) \/ CloseStored(c) \/ CloseFail(c)

----------------------------------------------------------------------------
Submitter(t) == SubmitSend(t) \/ SubmitClosed(t)

YielderAction(i) == YielderStep(i, Batch) /\ UNCHANGED lobbyVars

Next ==
  \/ \E t \in LobbyTasks : SubmitDirect(t) \/ Submitter(t) \/ SubmitTimeout(t)
  \/ PushStart \/ PushCanceled \/ PushDone \/ PushNext \/ PushReturn
  \/ RetrieveTask
  \/ \E i \in Yielders : FetchTasks(i) \/ ReadResult(i) \/ YielderAction(i)
  \/ \E i \in Yielders : (Timeout(i) \/ Stop(i)) /\ UNCHANGED lobbyVars
  \/ \E c \in Closers : CloseCheck(c) \/ CloseContext(c)

Spec == Init /\ [][Next]_vars

\* Submissions and closers take a ready case.  The timeouts of SubmitTask may be
\* arbitrarily long, no yielder has to run and nobody has to read.
Fairness ==
  /\ \A t \in LobbyTasks : WF_vars(Submitter(t))
  /\ \A c \in Closers : WF_vars(CloseContext(c))

FairSpec == Spec /\ Fairness

----------------------------------------------------------------------------
(* Properties. *)

\* No SubmitTask is in its select, where it may send on the incoming channel,
\* once CloseContext has closed that channel: the send would panic.
NoSendOnClosed == inputClosed => Writable

\* Where an accepted task may be: buffered, with a yielder, or with a consumer.
Readers == Fetchers \cup {Handoff}
Places(t) ==
  {<<"input", k>> : k \in {n \in DOMAIN input : input[n] = t}}
    \cup {<<"delivered", k>> : k \in 1 .. delivered[t]}
    \cup {<<"dropped", i>> : i \in {r \in Readers : <<r, t>> \in dropped}}
    \cup {<<"hand", i>> : i \in {r \in Readers : y[r].hand = t}}
    \cup UNION {{<<i, k>> : k \in {n \in DOMAIN y[i].results : y[i].results[n] = t}}
                : i \in Readers}

\* A task is in exactly one of these places once SubmitTask returned nil, and
\* in none before or when it returned an error, however fetching, closing and
\* the hand-off interleave.
TaskInOnePlace ==
  \A t \in LobbyTasks :
    Cardinality(Places(t)) = IF submit[t] = "accepted" THEN 1 ELSE 0

\* The hand-off never waits for a reader: its buffer has room for every task
\* that was left when the lobby closed, so the drain ends though nobody reads.
HandoffHasRoom ==
  y[Handoff].pc = "send" => Len(y[Handoff].results) < y[Handoff].room

\* PushTasks returns nil only when every task of its yielder was accepted.
PushAllOrError ==
  pusher = "nil" => \A t \in BatchTasks : submit[t] = "accepted"

\* CloseContext returns nil only when the lobby is really closed and its
\* hand-off can be had, for the second of two concurrent callers too; but for
\* the case that the first could not build it.
CloseNilMeansClosed ==
  (\E c \in Closers : closer[c] = "nil") =>
    inputClosed /\ (handoff \/ \E c \in Closers : closer[c] = "failed")

\* CloseContext returns, whatever the timeouts of the blocked submissions.
CloseReturns ==
  \A c \in Closers :
    closer[c] = "store" ~> closer[c] \in {"nil", "failed"}
==============================================================================

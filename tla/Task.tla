-------------------------------- MODULE Task ---------------------------------
(***************************************************************************)
(* The tasks of pkg/task (task.go, state.go).  Go starts a run: a goroutine *)
(* that waits in a select for the end of its context, the timeout of the    *)
(* task, or the result of the task's function, which a delegate goroutine   *)
(* calls.  GoRetry goes on until a run does not fail.                       *)
(*                                                                         *)
(* A task has one caller, which makes its calls of Go and GoRetry one after *)
(* the other; Cancel and Await may be called by anybody.  The runs of a     *)
(* task are kept in the order of their start.                               *)
(***************************************************************************)
EXTENDS Retry, Sequences

CONSTANTS
  Tasks,       \* the tasks
  Ctxs,        \* the contexts given to Go and GoRetry
  CtxOf,       \* the one each task is run with
  Defs,        \* the retry options a Definition may have
  RetryDelay,  \* Definition.RetryDelay
  MaxRuns,     \* bound on the runs of a task
  MaxMore      \* bound on them for a call that is not the first of its task

\* strategy "none" stands for a nil RetryStrategy.
Definitions == [maxRetries : Nat, strategy : {"none", "linear", "exponential"},
                jitter : BOOLEAN]

ASSUME TaskAssumption ==
  /\ CtxOf \in [Tasks -> Ctxs]
  /\ Defs \subseteq Definitions
  /\ RetryDelay \in Durations
  /\ MaxRuns \in Nat
  /\ MaxMore \in 0 .. MaxRuns

VARIABLES
  def,       \* the options of each task
  state,     \* Task.state
  attempts,  \* Task.attempts
  err,       \* Task.err is set
  cancel,    \* the run that Task.cancel cancels, 0 for none
  runs,      \* the runs of each task
  call,      \* the Go or GoRetry of each task's caller
  ctx        \* the contexts: "live", "canceled" or past their "deadline"

vars == <<def, state, attempts, err, cancel, runs, call, ctx>>

\* pc of a call, its GoRetry's runs and last delay, what the last call returned.
NoCall == [pc |-> "idle", retry |-> FALSE, tries |-> 0, delay |-> 0,
           ret |-> "none"]

Init ==
  /\ def \in [Tasks -> Defs]
  /\ state = [t \in Tasks |-> "CREATED"]
  /\ attempts = [t \in Tasks |-> 0]
  /\ err = [t \in Tasks |-> FALSE]
  /\ cancel = [t \in Tasks |-> 0]
  /\ runs = [t \in Tasks |-> <<>>]
  /\ call = [t \in Tasks |-> NoCall]
  /\ ctx = [c \in Ctxs |-> "live"]

----------------------------------------------------------------------------
(* Go. *)

CtxDone(t) == ctx[CtxOf[t]] # "live"

Goto(t, pc) == call' = [call EXCEPT ![t].pc = pc]

Return(t, ret) == call' = [call EXCEPT ![t].pc = "idle", ![t].ret = ret]

SetState(t, s) == state' = [state EXCEPT ![t] = s]

\* Mutant: a started task is not in progress.
IsInProgressPending(t) == state[t] = "PENDING"

IsInProgress(t) == state[t] \in {"STARTED", "PENDING"}

\* The bounds leave room for n more runs of t.
Room(t, n) ==
  Len(runs[t]) + n <= IF runs[t] = <<>> THEN MaxRuns ELSE MaxMore

CallGo(t) ==
  /\ call[t].pc = "idle"
  /\ Room(t, 1)
  /\ call' = [call EXCEPT ![t] = [NoCall EXCEPT !.pc = "go"]]
  /\ UNCHANGED <<def, state, attempts, err, cancel, runs, ctx>>

GoRefused(t) ==
  /\ call[t].pc = "go"
  /\ IsInProgress(t)
  /\ Return(t, "ErrTaskInProgress")
  /\ UNCHANGED <<def, state, attempts, err, cancel, runs, ctx>>

GoPending(t) ==
  /\ call[t].pc = "go"
  /\ ~IsInProgress(t)
  /\ SetState(t, "PENDING")
  /\ Goto(t, "delay")
  /\ UNCHANGED <<def, attempts, err, cancel, runs, ctx>>

GoCanceled(t) ==
  /\ call[t].pc = "delay"
  /\ CtxDone(t)
  /\ SetState(t, "CANCELED")
  /\ Return(t, "ErrCancelledTask")
  /\ UNCHANGED <<def, attempts, err, cancel, runs, ctx>>

\* A run and its delegate; a child of a context that is done is done as well.
NewRun(t) == [pc |-> "select", out |-> "none", ctx |-> ctx[CtxOf[t]],
              fn |-> "spawned", res |-> "none", cancel |-> 0]

\* The delay is over: cancel is set and the goroutines are started.
GoStart(t) ==
  /\ call[t].pc = "delay"
  /\ runs' = [runs EXCEPT ![t] = Append(@, NewRun(t))]
  /\ cancel' = [cancel EXCEPT ![t] = Len(runs[t]) + 1]
  /\ Goto(t, "spawned")
  /\ UNCHANGED <<def, state, attempts, err, ctx>>

\* started() comes after the goroutines: the run may have ended already.
GoStarted(t) ==
  /\ call[t].pc = "spawned"
  /\ SetState(t, "STARTED")
  /\ IF call[t].retry
     THEN call' = [call EXCEPT ![t].pc = "await", ![t].tries = @ + 1]
     ELSE Return(t, "nil")
  /\ UNCHANGED <<def, attempts, err, cancel, runs, ctx>>

----------------------------------------------------------------------------
(* GoRetry. *)

CallGoRetry(t) ==
  /\ call[t].pc = "idle"
  /\ Room(t, def[t].maxRetries - attempts[t])
  /\ IF def[t].maxRetries = 0
     THEN SetState(t, "FAILED") /\ Return(t, "ErrMaxRetriesNotSet")
     ELSE /\ call' = [call EXCEPT ![t] = [NoCall EXCEPT !.pc = "attempt",
                                                        !.retry = TRUE]]
          /\ UNCHANGED state
  /\ UNCHANGED <<def, attempts, err, cancel, runs, ctx>>

\* Mutant: one attempt too many.
RetryAttemptTooMany(t) ==
  /\ call[t].pc = "attempt"
  /\ IF attempts[t] > def[t].maxRetries
     THEN Return(t, "ErrMaxRetriesExceeded")
     ELSE Goto(t, "go")
  /\ UNCHANGED <<def, state, attempts, err, cancel, runs, ctx>>

RetryAttempt(t) ==
  /\ call[t].pc = "attempt"
  /\ IF attempts[t] >= def[t].maxRetries
     THEN Return(t, "ErrMaxRetriesExceeded")
     ELSE Goto(t, "go")
  /\ UNCHANGED <<def, state, attempts, err, cancel, runs, ctx>>

\* Mutant: waits for the function as well.
AwaitedFn(t) == \A k \in DOMAIN runs[t] : runs[t][k].fn = "end"

\* wg.Wait
Awaited(t) == \A k \in DOMAIN runs[t] : runs[t][k].pc = "end"

RetryDelays(t) ==
  IF def[t].strategy = "none" THEN {RetryDelay}
  ELSE Delay(def[t].strategy, def[t].jitter, attempts[t])

RetryFailed(t) ==
  /\ call[t].pc = "await"
  /\ Awaited(t)
  /\ state[t] = "FAILED"
  /\ attempts' = [attempts EXCEPT ![t] = @ + 1]
  /\ \E d \in RetryDelays(t) :
       call' = [call EXCEPT ![t].pc = IF d > 0 THEN "backoff" ELSE "attempt",
                            ![t].delay = d]
  /\ UNCHANGED <<def, state, err, cancel, runs, ctx>>

RetryNil(t) ==
  /\ call[t].pc = "await"
  /\ Awaited(t)
  /\ state[t] # "FAILED"
  /\ Return(t, "nil")
  /\ UNCHANGED <<def, state, attempts, err, cancel, runs, ctx>>

BackoffEnd(t) ==
  /\ call[t].pc = "backoff"
  /\ Goto(t, "attempt")
  /\ UNCHANGED <<def, state, attempts, err, cancel, runs, ctx>>

BackoffCanceled(t) ==
  /\ call[t].pc = "backoff"
  /\ CtxDone(t)
  /\ SetState(t, "CANCELED")
  /\ Return(t, "ErrCancelledTask")
  /\ UNCHANGED <<def, attempts, err, cancel, runs, ctx>>

----------------------------------------------------------------------------
(* A run. *)

Running(t) == {k \in DOMAIN runs[t] : runs[t][k].pc = "select"}

\* The select of run k ends: the state is stored, run returns.
Leave(t, k, s, fn) ==
  /\ k \in Running(t)
  /\ SetState(t, s)
  /\ runs' = [runs EXCEPT ![t][k] = [@ EXCEPT !.pc = "store", !.out = s,
                                              !.fn = fn, !.res = "none"]]
  /\ UNCHANGED <<def, attempts, err, cancel, call, ctx>>

\* The delegate when nobody receives from errCh any more: if it is sending it
\* is left behind for good, whatever it has to send.
Behind(t, k) == IF runs[t][k].fn = "send" THEN "left" ELSE runs[t][k].fn

RunCanceled(t, k) ==
  /\ runs[t][k].ctx # "live"
  /\ Leave(t, k, "CANCELED", Behind(t, k))

\* Mutant: the select has no timeout.
RunTimeoutNever(t, k) ==
  /\ runs[t][k].ctx # "live"
  /\ Leave(t, k, "CANCELED", Behind(t, k))

RunTimeout(t, k) ==
  Leave(t, k, IF runs[t][k].ctx # "live" THEN "CANCELED" ELSE "FAILED",
        Behind(t, k))

\* The delegate sends on errCh while the run is in its select.
RunResult(t, k) ==
  /\ runs[t][k].fn = "send"
  /\ Leave(t, k, CASE runs[t][k].res = "canceled" -> "CANCELED"
                   [] runs[t][k].res = "nil" -> "DONE"
                   [] OTHER -> "FAILED", "end")

\* The goroutine of run k moves on; error says whether it stores one.
Proceed(t, k, from, to, error) ==
  /\ runs[t][k].pc = from
  /\ runs' = [runs EXCEPT ![t][k].pc = to]
  /\ err' = [err EXCEPT ![t] = @ \/ error]
  /\ UNCHANGED <<def, state, attempts, cancel, call, ctx>>

\* Mutant: wg.Done comes before the error is stored.
RunEndSwapped(t, k) ==
  \/ Proceed(t, k, "store", "end", FALSE)
  \/ Proceed(t, k, "end", "end", runs[t][k].out # "DONE")

\* The error of run is stored, then the goroutine returns: wg.Done.
RunEnd(t, k) ==
  \/ Proceed(t, k, "store", "stored", runs[t][k].out # "DONE")
  \/ Proceed(t, k, "stored", "end", FALSE)

----------------------------------------------------------------------------
(* The delegate of a run. *)

SetFn(t, k, from, to, res, c) ==
  /\ runs[t][k].fn = from
  /\ runs' = [runs EXCEPT ![t][k] = [@ EXCEPT !.fn = to, !.res = res,
                                              !.cancel = c]]
  /\ UNCHANGED <<def, state, attempts, err, cancel, call, ctx>>

\* The delegate has res to send; without its run it is left behind.
Send(t, k, from, res) ==
  IF k \in Running(t) THEN SetFn(t, k, from, "send", res, 0)
  ELSE SetFn(t, k, from, "left", "none", 0)

FnSkip(t, k) ==
  /\ runs[t][k].ctx # "live"
  /\ Send(t, k, "spawned",
          IF runs[t][k].ctx = "canceled" THEN "canceled" ELSE "error")

\* Run.Cancel is what Task.cancel is now, maybe that of a later run.
FnCall(t, k) ==
  /\ runs[t][k].ctx = "live"
  /\ SetFn(t, k, "spawned", "running", "none", cancel[t])

\* The function returns, or panics, which is an error; it need not return.
FnReturn(t, k) ==
  \E res \in {"nil", "error", "canceled"} : Send(t, k, "running", res)

CancelRun(t, k) ==
  /\ k # 0
  /\ runs[t][k].ctx = "live"
  /\ runs' = [runs EXCEPT ![t][k].ctx = "canceled"]
  /\ UNCHANGED <<def, state, attempts, err, cancel, call, ctx>>

\* The function calls Run.Cancel.
FnCancel(t, k) ==
  /\ runs[t][k].fn = "running"
  /\ CancelRun(t, runs[t][k].cancel)

----------------------------------------------------------------------------
Cancel(t) == CancelRun(t, cancel[t])

\* A context ends, and with it the contexts of the runs started from it.
CtxEnd(c, how) ==
  /\ ctx[c] = "live"
  /\ ctx' = [ctx EXCEPT ![c] = how]
  /\ runs' = [t \in Tasks |->
                [k \in DOMAIN runs[t] |->
                   IF CtxOf[t] = c /\ runs[t][k].ctx = "live"
                   THEN [runs[t][k] EXCEPT !.ctx = how] ELSE runs[t][k]]]

CtxEnds(c) ==
  /\ \E how \in {"canceled", "deadline"} : CtxEnd(c, how)
  /\ UNCHANGED <<def, state, attempts, err, cancel, call>>

Go(t) ==
  \/ GoRefused(t) \/ GoPending(t) \/ GoCanceled(t) \/ GoStart(t) \/ GoStarted(t)

GoRetry(t) ==
  \/ RetryAttempt(t) \/ RetryFailed(t) \/ RetryNil(t)
  \/ BackoffEnd(t) \/ BackoffCanceled(t)

RunStep(t, k) ==
  RunCanceled(t, k) \/ RunTimeout(t, k) \/ RunResult(t, k) \/ RunEnd(t, k)

Caller(t) == Go(t) \/ GoRetry(t)

FnStep(t, k) == FnSkip(t, k) \/ FnCall(t, k)

Next ==
  \/ \E t \in Tasks : CallGo(t) \/ CallGoRetry(t) \/ Caller(t) \/ Cancel(t)
  \/ \E t \in Tasks : \E k \in DOMAIN runs[t] :
       RunStep(t, k) \/ FnStep(t, k) \/ FnReturn(t, k) \/ FnCancel(t, k)
  \/ \E c \in Ctxs : CtxEnds(c)

Spec == Init /\ [][Next]_vars

\* Goroutines are scheduled and timers fire; the task's function need not
\* return and nobody has to cancel anything.
TaskFairness ==
  \A t \in Tasks :
    /\ WF_vars(Caller(t))
    /\ \A k \in 1 .. MaxRuns :
         WF_vars(k \in DOMAIN runs[t] /\ (RunStep(t, k) \/ FnStep(t, k)))

FairSpec == Spec /\ TaskFairness

----------------------------------------------------------------------------
(* Properties. *)

\* Whoever called Await and finds that a run failed or was canceled also finds
\* an error in Err(), whatever became of the function meanwhile.
ErrAfterAwait ==
  \A t \in Tasks :
    Awaited(t) /\ (\E k \in DOMAIN runs[t] : runs[t][k].out # "DONE") => err[t]

\* No two runs of a task are in their select together, though the late STARTED
\* of Go may hide how a run ended: a later Go is refused or follows it.  Without
\* MaxRetries this fails, since GoRetry then stores FAILED during a run.
RunsDisjoint ==
  \A t \in Tasks :
    def[t].maxRetries > 0 => \A j, k \in Running(t) : j = k

\* GoRetry makes at most maxRetries runs, and ErrMaxRetriesExceeded means that
\* each of its runs failed.
RetryBudget ==
  \A t \in Tasks :
    /\ call[t].tries <= def[t].maxRetries
    /\ call[t].ret = "ErrMaxRetriesExceeded" =>
         \A n \in 0 .. call[t].tries - 1 :
           runs[t][Len(runs[t]) - n].out = "FAILED"

\* The product of Linear fits a time.Duration.
LinearFits(t) == BaseDelay * (attempts[t] + 1) < Half

\* Within a GoRetry with a strategy no delay is longer than MaxDelay, with
\* jitter or past the range of a Duration too, and without jitter the delays do
\* not shrink: those of ExponentialBackoff never, those of Linear while their
\* product fits.
BackoffGrows ==
  [][\A t \in Tasks :
       attempts'[t] # attempts[t] /\ def[t].strategy # "none" =>
         /\ call'[t].delay <= MaxDelay
         /\ \/ call'[t].delay >= call[t].delay
            \/ def[t].jitter
            \/ def[t].strategy = "linear" /\ ~LinearFits(t)]_vars

\* A run ends though its function never returns, so that Await returns.
AwaitReturns ==
  \A t \in Tasks : \A k \in 1 .. MaxRuns :
    (k \in Running(t)) ~> (k \in DOMAIN runs[t] /\ runs[t][k].pc = "end")

\* GoRetry returns, whatever the functions do.
RetryReturns ==
  \A t \in Tasks : (call[t].retry /\ call[t].pc # "idle") ~> call[t].pc = "idle"

\* GoRetry returns nil only when its last run did not fail: task_test.go expects
\* ErrMaxRetriesExceeded of a task whose function always fails.
NilMeansNotFailed ==
  \A t \in Tasks :
    call[t].retry /\ call[t].ret = "nil" => runs[t][Len(runs[t])].out # "FAILED"
==============================================================================

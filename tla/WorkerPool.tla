----------------------------- MODULE WorkerPool -----------------------------
(***************************************************************************)
(* The worker pool of pkg/workerpool: Submit, the dispatcher and the two    *)
(* shutdowns (pool.go), the rendezvous between dispatcher and workers       *)
(* (claims.go), the run loop, join and leave of a worker (worker.go), and   *)
(* the autoscaler (scaler.go).                                              *)
(*                                                                         *)
(* A worker may be joined several times.  Each join gives it a new context, *)
(* input channel and done channel, a generation, and starts one run loop.   *)
(* A loop reads w.ctxFn and w.input afresh on every iteration, so a loop    *)
(* that outlives its leave goes on with the fields of the next generation.  *)
(*                                                                         *)
(* Time is abstract: a timer (submit and leave timeouts, backoff, cooldown, *)
(* idle period) may fire at any moment, and a select takes any ready case.  *)
(***************************************************************************)
EXTENDS Naturals, Sequences, FiniteSetsExt

CONSTANTS
  Jobs,          \* the jobs callers submit
  Size,          \* workers created: ClaimsConfig.Size, MaxSize in auto mode
  MinSize,       \* workers joined by New; equal to Size in fixed mode
  AutoScale,     \* TRUE in ModeAutoScale
  ScaleUpStep,   \* AutoScaleConfig.ScaleUpStep
  IdleHeadroom,  \* AutoScaleConfig.IdleHeadroom
  Backlog,       \* capacity of the backlog channel
  NoJob,         \* no job is held
  MaxJoins       \* bound: joins of one worker

ASSUME PoolAssumption ==
  /\ NoJob \notin Jobs
  /\ Size \in Nat \ {0}
  /\ MinSize \in 1 .. Size
  /\ AutoScale \in BOOLEAN
  /\ ~AutoScale => MinSize = Size
  /\ ScaleUpStep \in Nat \ {0}
  /\ IdleHeadroom \in Nat \ {0}
  /\ Backlog \in Nat \ {0}
  /\ MaxJoins \in Nat \ {0}

VARIABLES
  fresh,          \* jobs not submitted yet
  submitting,     \* jobs whose Submit is past the reject check and the limiter
  refused,        \* history: jobs whose Submit returned an error
  backlog,        \* WorkerPool.backlog
  dispatcher,     \* the dispatcher goroutine: pc, its job, the claim it pulled
  claimsCh,       \* claims.claimsCh
  subscribers,    \* claims.subscribers
  joined,         \* WorkerPool.joinedIDs
  running,        \* worker.running
  gen,            \* the generation of a worker's ctxFn, input and done
  hasCtx,         \* worker.ctxFn is not nil
  canceled,       \* the <<worker, generation>> contexts that leave canceled
  loop,           \* the run loop of each <<worker, generation>>
  scaler,         \* the autoscaler goroutine
  closer,         \* the one call of close that does the work
  shutdown,       \* the shutdown channel is closed and reject is set
  poolDone,       \* the pool's context is done
  runs,           \* history: how often the handler was called with each job
  failed,         \* history: jobs reported through DispatchError
  promised,       \* history: the jobs queued when GracefulShutdown was called;
                  \* none once the pool's context is done
  timedOut        \* history: workers whose leave timed out

submitVars == <<fresh, submitting, refused>>
memberVars == <<subscribers, joined, gen, hasCtx, canceled, timedOut>>
lifeVars   == <<shutdown, poolDone, promised>>
vars == <<fresh, submitting, refused, backlog, dispatcher, claimsCh,
          subscribers, joined, running, gen, hasCtx, canceled, loop, scaler,
          closer, shutdown, poolDone, runs, failed, promised, timedOut>>

Workers == 1 .. Size
Loops   == Workers \X (1 .. MaxJoins)
NoClaim == [worker |-> 0, gen |-> 0]
Claim   == [worker : Workers, gen : 1 .. MaxJoins]

LivePCs == {"loop", "offer", "parked", "received", "running"}

\* The jobs waiting in the backlog.
Queued == {backlog[i] : i \in DOMAIN backlog}

\* The context of generation c of worker w, a child of the pool's.
CtxDone(w, c) == poolDone \/ <<w, c>> \in canceled

\* A run loop at pc that holds no job and has evaluated no select yet.
LoopAt(pc) == [pc |-> pc, ctx |-> 0, input |-> 0, job |-> NoJob]

\* No goroutine has panicked: an unrecovered panic ends the whole process.
Alive == \A l \in Loops : loop[l].pc # "panicked"

----------------------------------------------------------------------------
\* joinInitial joins the first workers, startScaler starts the autoscaler.
InitialJoin == 1 .. MinSize
StartScaler == [pc |-> IF AutoScale THEN "idle" ELSE "done", idle |-> 0,
                todo |-> 0, target |-> 0]

\* New has created the workers, joined the first ones and started its goroutines.
Init ==
  /\ fresh = Jobs
  /\ submitting = {}
  /\ refused = {}
  /\ backlog = <<>>
  /\ dispatcher = [pc |-> "select", job |-> NoJob, claim |-> NoClaim]
  /\ claimsCh = <<>>
  /\ subscribers = InitialJoin
  /\ joined = InitialJoin
  /\ running = [w \in Workers |-> FALSE]
  /\ gen = [w \in Workers |-> IF w \in InitialJoin THEN 1 ELSE 0]
  /\ hasCtx = [w \in Workers |-> w \in InitialJoin]
  /\ canceled = {}
  /\ loop = [l \in Loops |-> IF l[1] \in InitialJoin /\ l[2] = 1
                             THEN LoopAt("loop") ELSE LoopAt("none")]
  /\ scaler = StartScaler
  /\ closer = [pc |-> "open", drain |-> FALSE, todo |-> {}, target |-> 0]
  /\ shutdown = FALSE
  /\ poolDone = FALSE
  /\ runs = [j \in Jobs |-> 0]
  /\ failed = {}
  /\ promised = {}
  /\ timedOut = {}

----------------------------------------------------------------------------
(* Submit. *)

\* Past the reject check and the rate limiter's wait.
SubmitStart(j) ==
  /\ j \in fresh
  /\ Alive
  /\ ~shutdown
  /\ ~poolDone
  /\ fresh' = fresh \ {j}
  /\ submitting' = submitting \cup {j}
  /\ UNCHANGED <<refused, backlog, dispatcher, claimsCh, memberVars, running, loop,
                 scaler, closer, lifeVars, runs, failed>>

\* Mutant: the backlog is not bounded.
SubmitSendUnbounded(j) ==
  /\ j \in submitting
  /\ Alive
  /\ submitting' = submitting \ {j}
  /\ backlog' = Append(backlog, j)
  /\ UNCHANGED <<fresh, refused, dispatcher, claimsCh, memberVars, running,
                 loop, scaler, closer, lifeVars, runs, failed>>

\* The send is ready whenever there is room, after a shutdown too.
SubmitSend(j) ==
  /\ j \in submitting
  /\ Alive
  /\ Len(backlog) < Backlog
  /\ submitting' = submitting \ {j}
  /\ backlog' = Append(backlog, j)
  /\ UNCHANGED <<fresh, refused, dispatcher, claimsCh, memberVars, running,
                 loop, scaler, closer, lifeVars, runs, failed>>

\* ErrPoolShutdown, the pool's ctx error or ErrSubmitTimeout.
SubmitFail(j) ==
  /\ j \in submitting
  /\ Alive
  /\ submitting' = submitting \ {j}
  /\ refused' = refused \cup {j}
  /\ UNCHANGED <<fresh, backlog, dispatcher, claimsCh, memberVars, running,
                 loop, scaler, closer, lifeVars, runs, failed>>

----------------------------------------------------------------------------
(* The dispatcher, with claims.submit inlined. *)

DispatcherTake ==
  /\ dispatcher.pc = "select"
  /\ Alive
  /\ backlog # <<>>
  /\ dispatcher' = [dispatcher EXCEPT !.pc = "await", !.job = Head(backlog)]
  /\ backlog' = Tail(backlog)
  /\ UNCHANGED <<submitVars, claimsCh, memberVars, running, loop, scaler,
                 closer, lifeVars, runs, failed>>

\* Mutant: a shutdown ends the dispatcher whatever the backlog holds.
DispatcherExitEager ==
  /\ dispatcher.pc = "select"
  /\ Alive
  /\ poolDone \/ shutdown
  /\ dispatcher' = [dispatcher EXCEPT !.pc = "exited"]
  /\ UNCHANGED <<submitVars, backlog, claimsCh, memberVars, running, loop,
                 scaler, closer, lifeVars, runs, failed>>

\* On shutdown the dispatcher returns once it sees an empty backlog.
DispatcherExit ==
  /\ dispatcher.pc = "select"
  /\ Alive
  /\ poolDone \/ (shutdown /\ backlog = <<>>)
  /\ dispatcher' = [dispatcher EXCEPT !.pc = "exited"]
  /\ UNCHANGED <<submitVars, backlog, claimsCh, memberVars, running, loop,
                 scaler, closer, lifeVars, runs, failed>>

DispatcherPull ==
  /\ dispatcher.pc = "await"
  /\ Alive
  /\ claimsCh # <<>>
  /\ dispatcher' = [dispatcher EXCEPT !.pc = "check", !.claim = Head(claimsCh)]
  /\ claimsCh' = Tail(claimsCh)
  /\ UNCHANGED <<submitVars, backlog, memberVars, running, loop, scaler,
                 closer, lifeVars, runs, failed>>

DispatcherCheck ==
  /\ dispatcher.pc = "check"
  /\ Alive
  /\ dispatcher' = IF dispatcher.claim.worker \in subscribers
                   THEN [dispatcher EXCEPT !.pc = "send"]
                   ELSE [dispatcher EXCEPT !.pc = "await", !.claim = NoClaim]
  /\ UNCHANGED <<submitVars, backlog, claimsCh, memberVars, running, loop,
                 scaler, closer, lifeVars, runs, failed>>

\* The rendezvous on w.input with a loop parked on the channel of the claim.
DispatcherSend(l) ==
  /\ dispatcher.pc = "send"
  /\ Alive
  /\ l[1] = dispatcher.claim.worker
  /\ loop[l].pc = "parked"
  /\ loop[l].input = dispatcher.claim.gen
  /\ loop' = [loop EXCEPT ![l] = [LoopAt("received") EXCEPT !.job = dispatcher.job]]
  /\ dispatcher' = [pc |-> "select", job |-> NoJob, claim |-> NoClaim]
  /\ UNCHANGED <<submitVars, backlog, claimsCh, memberVars, running, scaler,
                 closer, lifeVars, runs, failed>>

\* Mutant: a send that timed out is reported, and then tried again.
DispatcherSendTimeoutReported ==
  /\ dispatcher.pc = "send"
  /\ Alive
  /\ failed' = failed \cup {dispatcher.job}
  /\ dispatcher' = [dispatcher EXCEPT !.pc = "await", !.claim = NoClaim]
  /\ UNCHANGED <<submitVars, backlog, claimsCh, memberVars, running, loop,
                 scaler, closer, lifeVars, runs>>

\* sendWait ran out, or was not positive to begin with: the claim is dropped.
DispatcherSendTimeout ==
  /\ dispatcher.pc = "send"
  /\ Alive
  /\ dispatcher' = [dispatcher EXCEPT !.pc = "await", !.claim = NoClaim]
  /\ UNCHANGED <<submitVars, backlog, claimsCh, memberVars, running, loop,
                 scaler, closer, lifeVars, runs, failed>>

\* Mutant: submit has no deadline.
DispatcherGiveUpNoDeadline ==
  /\ dispatcher.pc = "await"
  /\ Alive
  /\ poolDone
  /\ failed' = failed \cup {dispatcher.job}
  /\ dispatcher' = [dispatcher EXCEPT !.pc = "select", !.job = NoJob]
  /\ UNCHANGED <<submitVars, backlog, claimsCh, memberVars, running, loop,
                 scaler, closer, lifeVars, runs>>

\* The deadline passed or the job's context is done: DispatchError.
DispatcherGiveUp ==
  /\ dispatcher.pc = "await"
  /\ Alive
  /\ failed' = failed \cup {dispatcher.job}
  /\ dispatcher' = [dispatcher EXCEPT !.pc = "select", !.job = NoJob]
  /\ UNCHANGED <<submitVars, backlog, claimsCh, memberVars, running, loop,
                 scaler, closer, lifeVars, runs>>

----------------------------------------------------------------------------
(* The run loop l = <<w, g>>, started by the g-th join of worker w. *)

\* The generations whose fields loop l may see.  A loop that outlived its leave
\* reads them without w.mu: while a join writes them it may see old and new.
Visible(l) ==
  LET g == gen[l[1]]
  IN  IF scaler.pc = "record" /\ scaler.target = l[1] /\ l[2] < g
      THEN {g - 1, g} ELSE {g}

\* Evaluate w.ctxFn() and w.input on entering a select.  Calling a nil ctxFn
\* is a panic that nothing recovers.
Read(l, pc) ==
  IF hasCtx[l[1]]
  THEN \E c, i \in Visible(l) :
         loop' = [loop EXCEPT ![l].pc = pc, ![l].ctx = c, ![l].input = i]
  ELSE loop' = [loop EXCEPT ![l] = LoopAt("panicked")]

LoopEnter(l) ==
  /\ loop[l].pc = "loop"
  /\ Alive
  /\ Read(l, "offer")
  /\ UNCHANGED <<submitVars, backlog, dispatcher, claimsCh, memberVars, running,
                 scaler, closer, lifeVars, runs, failed>>

LoopIdle(l) ==
  /\ loop[l].pc = "offer"
  /\ Alive
  /\ loop' = [loop EXCEPT ![l] = LoopAt("loop")]
  /\ UNCHANGED <<submitVars, backlog, dispatcher, claimsCh, memberVars, running,
                 scaler, closer, lifeVars, runs, failed>>

\* Advertise the input channel read on entry, then park on the current one.
LoopOffer(l) ==
  /\ loop[l].pc = "offer"
  /\ Alive
  /\ Len(claimsCh) < Size
  /\ claimsCh' = Append(claimsCh, [worker |-> l[1], gen |-> loop[l].input])
  /\ Read(l, "parked")
  /\ UNCHANGED <<submitVars, backlog, dispatcher, memberVars, running, scaler,
                 closer, lifeVars, runs, failed>>

LoopExit(l) ==
  /\ loop[l].pc \in {"offer", "parked"}
  /\ Alive
  /\ CtxDone(l[1], loop[l].ctx)
  /\ loop' = [loop EXCEPT ![l] = LoopAt("exited")]
  /\ running' = [running EXCEPT ![l[1]] = FALSE]
  /\ UNCHANGED <<submitVars, backlog, dispatcher, claimsCh, memberVars, scaler,
                 closer, lifeVars, runs, failed>>

LoopRun(l) ==
  /\ loop[l].pc = "received"
  /\ Alive
  /\ loop' = [loop EXCEPT ![l].pc = "running"]
  /\ running' = [running EXCEPT ![l[1]] = TRUE]
  /\ runs' = [runs EXCEPT ![loop[l].job] = @ + 1]
  /\ UNCHANGED <<submitVars, backlog, dispatcher, claimsCh, memberVars, scaler,
                 closer, lifeVars, failed>>

\* The handler returned or panicked; processJob recovers.
LoopFinish(l) ==
  /\ loop[l].pc = "running"
  /\ Alive
  /\ loop' = [loop EXCEPT ![l] = LoopAt("loop")]
  /\ running' = [running EXCEPT ![l[1]] = FALSE]
  /\ UNCHANGED <<submitVars, backlog, dispatcher, claimsCh, memberVars, scaler,
                 closer, lifeVars, runs, failed>>

----------------------------------------------------------------------------
(* The subscribers of claims. *)

AllSubscribed == Cardinality(subscribers) >= Size

Subscribe(w) == ~AllSubscribed /\ subscribers' = subscribers \cup {w}

Unsubscribe(w) == subscribers' = subscribers \ {w}

----------------------------------------------------------------------------
(* worker.leave, called by the autoscaler and by close. *)

\* Unsubscribe, then cancel the worker's current context.
LeaveStart(w) ==
  /\ Unsubscribe(w)
  /\ canceled' = canceled \cup {<<w, gen[w]>>}

\* Mutant: does not wait for the run loop.
LeaveDoneEager(w) ==
  /\ hasCtx' = [hasCtx EXCEPT ![w] = FALSE]
  /\ UNCHANGED timedOut

\* The loop of the current generation closed done: ctxFn becomes nil.
LeaveDone(w) ==
  /\ loop[<<w, gen[w]>>].pc = "exited"
  /\ hasCtx' = [hasCtx EXCEPT ![w] = FALSE]
  /\ UNCHANGED timedOut

LeaveTimeout(w) ==
  /\ timedOut' = timedOut \cup {w}
  /\ UNCHANGED hasCtx

\* Mutant: waits for the run loop without a timeout.
LeaveEndUnbounded(w) == LeaveDone(w)

LeaveEnd(w) == LeaveDone(w) \/ LeaveTimeout(w)

----------------------------------------------------------------------------
(* The autoscaler. *)

ScalerTick ==
  /\ scaler.pc = "idle"
  /\ Alive
  /\ scaler' = [scaler EXCEPT !.pc = "snap", !.idle = Len(claimsCh)]
  /\ UNCHANGED <<submitVars, backlog, dispatcher, claimsCh, memberVars, running,
                 loop, closer, lifeVars, runs, failed>>

\* A cooldown has not elapsed, no rule applies, or no victim qualifies.
ScalerHold ==
  /\ scaler.pc = "snap"
  /\ Alive
  /\ scaler' = [scaler EXCEPT !.pc = "idle", !.idle = 0]
  /\ UNCHANGED <<submitVars, backlog, dispatcher, claimsCh, memberVars, running,
                 loop, closer, lifeVars, runs, failed>>

ShouldScaleUp ==
  /\ Cardinality(joined) < Size
  /\ backlog # <<>>
  /\ scaler.idle <= IdleHeadroom

ShouldScaleDown ==
  /\ Cardinality(joined) > MinSize
  /\ backlog = <<>>
  /\ scaler.idle > IdleHeadroom

ScalerUp ==
  /\ scaler.pc = "snap"
  /\ Alive
  /\ ShouldScaleUp
  /\ \A w \in Workers \ joined : gen[w] < MaxJoins
  /\ scaler' = [scaler EXCEPT !.pc = "join", !.idle = 0,
                  !.todo = Min({ScaleUpStep, Size - Cardinality(joined)})]
  /\ UNCHANGED <<submitVars, backlog, dispatcher, claimsCh, memberVars, running,
                 loop, closer, lifeVars, runs, failed>>

\* pickVictim: any joined worker that is not running when it is looked at.
ScalerDown(w) ==
  /\ scaler.pc = "snap"
  /\ Alive
  /\ ShouldScaleDown
  /\ w \in joined
  /\ ~running[w]
  /\ scaler' = [scaler EXCEPT !.pc = "leave", !.idle = 0, !.target = w]
  /\ UNCHANGED <<submitVars, backlog, dispatcher, claimsCh, memberVars, running,
                 loop, closer, lifeVars, runs, failed>>

\* joinOneIdle takes the first worker that is not joined.  join refuses a
\* worker that is running; any error ends the batch.
ScalerSubscribe ==
  LET w == Min(Workers \ joined)
  IN  /\ scaler.pc = "join"
      /\ Alive
      /\ IF poolDone \/ running[w] \/ AllSubscribed
         THEN /\ scaler' = [scaler EXCEPT !.pc = "idle", !.todo = 0]
              /\ UNCHANGED subscribers
         ELSE /\ scaler' = [scaler EXCEPT !.pc = "start", !.target = w]
              /\ Subscribe(w)
      /\ UNCHANGED <<submitVars, backlog, dispatcher, claimsCh, joined, gen,
                     hasCtx, canceled, timedOut, running, loop, closer,
                     lifeVars, runs, failed>>

\* The fields of the next generation, and its run loop.
ScalerStart ==
  LET w == scaler.target
  IN  /\ scaler.pc = "start"
      /\ Alive
      /\ scaler' = [scaler EXCEPT !.pc = "record"]
      /\ gen' = [gen EXCEPT ![w] = @ + 1]
      /\ hasCtx' = [hasCtx EXCEPT ![w] = TRUE]
      /\ loop' = [loop EXCEPT ![<<w, gen[w] + 1>>] = LoopAt("loop")]
      /\ UNCHANGED <<submitVars, backlog, dispatcher, claimsCh, subscribers,
                     joined, canceled, timedOut, running, closer, lifeVars,
                     runs, failed>>

ScalerRecord ==
  /\ scaler.pc = "record"
  /\ Alive
  /\ joined' = joined \cup {scaler.target}
  /\ scaler' = [scaler EXCEPT !.pc = IF scaler.todo > 1 THEN "join" ELSE "idle",
                              !.todo = @ - 1, !.target = 0]
  /\ UNCHANGED <<submitVars, backlog, dispatcher, claimsCh, subscribers, gen,
                 hasCtx, canceled, timedOut, running, loop, closer, lifeVars,
                 runs, failed>>

ScalerLeave ==
  /\ scaler.pc = "leave"
  /\ Alive
  /\ LeaveStart(scaler.target)
  /\ scaler' = [scaler EXCEPT !.pc = "left"]
  /\ UNCHANGED <<submitVars, backlog, dispatcher, claimsCh, joined, gen, hasCtx,
                 timedOut, running, loop, closer, lifeVars, runs, failed>>

\* Mutant: a worker whose leave timed out stays in the joined set.
ScalerLeftKept ==
  /\ scaler.pc = "left"
  /\ Alive
  /\ LeaveEnd(scaler.target)
  /\ joined' = IF scaler.target \in timedOut' THEN joined
               ELSE joined \ {scaler.target}
  /\ scaler' = [scaler EXCEPT !.pc = "idle", !.target = 0]
  /\ UNCHANGED <<submitVars, backlog, dispatcher, claimsCh, subscribers, gen,
                 canceled, running, loop, closer, lifeVars, runs, failed>>

\* leaveOne removes the worker from the joined set even after a timeout.
ScalerLeft ==
  /\ scaler.pc = "left"
  /\ Alive
  /\ LeaveEnd(scaler.target)
  /\ joined' = joined \ {scaler.target}
  /\ scaler' = [scaler EXCEPT !.pc = "idle", !.target = 0]
  /\ UNCHANGED <<submitVars, backlog, dispatcher, claimsCh, subscribers, gen,
                 canceled, running, loop, closer, lifeVars, runs, failed>>

ScalerExit ==
  /\ scaler.pc = "idle"
  /\ Alive
  /\ shutdown \/ poolDone
  /\ scaler' = [scaler EXCEPT !.pc = "done"]
  /\ UNCHANGED <<submitVars, backlog, dispatcher, claimsCh, memberVars, running,
                 loop, closer, lifeVars, runs, failed>>

----------------------------------------------------------------------------
(* Shutdown (drain = FALSE) and GracefulShutdown (drain = TRUE). *)

Close(drain) ==
  /\ closer.pc = "open"
  /\ Alive
  /\ closer' = [closer EXCEPT !.pc = "draining", !.drain = drain]
  /\ shutdown' = TRUE
  /\ poolDone' = (poolDone \/ ~drain)
  /\ promised' = IF drain /\ ~poolDone THEN Queued ELSE {}
  /\ UNCHANGED <<submitVars, backlog, dispatcher, claimsCh, memberVars, running,
                 loop, scaler, runs, failed>>

\* The dispatcher and the scaler are gone: take over the joined workers.
CloseCollect ==
  /\ closer.pc = "draining"
  /\ Alive
  /\ dispatcher.pc = "exited"
  /\ scaler.pc = "done"
  /\ closer' = [closer EXCEPT !.pc = "leaving", !.todo = joined]
  /\ joined' = {}
  /\ UNCHANGED <<submitVars, backlog, dispatcher, claimsCh, subscribers, gen,
                 hasCtx, canceled, timedOut, running, loop, scaler, lifeVars,
                 runs, failed>>

CloseLeave ==
  /\ closer.pc = "leaving"
  /\ Alive
  /\ closer.todo # {}
  /\ LeaveStart(Min(closer.todo))
  /\ closer' = [closer EXCEPT !.pc = "left", !.target = Min(closer.todo)]
  /\ UNCHANGED <<submitVars, backlog, dispatcher, claimsCh, joined, gen, hasCtx,
                 timedOut, running, loop, scaler, lifeVars, runs, failed>>

CloseLeft ==
  /\ closer.pc = "left"
  /\ Alive
  /\ LeaveEnd(closer.target)
  /\ closer' = [closer EXCEPT !.pc = "leaving", !.todo = @ \ {closer.target},
                              !.target = 0]
  /\ UNCHANGED <<submitVars, backlog, dispatcher, claimsCh, subscribers, joined,
                 gen, canceled, running, loop, scaler, lifeVars, runs, failed>>

\* The deferred pool.cancel.
CloseReturn ==
  /\ closer.pc = "leaving"
  /\ Alive
  /\ closer.todo = {}
  /\ closer' = [closer EXCEPT !.pc = "returned"]
  /\ poolDone' = TRUE
  /\ promised' = {}
  /\ UNCHANGED <<submitVars, backlog, dispatcher, claimsCh, memberVars, running,
                 loop, scaler, shutdown, runs, failed>>

\* The context given to New is canceled.
CancelParent ==
  /\ ~poolDone
  /\ Alive
  /\ poolDone' = TRUE
  /\ promised' = {}
  /\ UNCHANGED <<submitVars, backlog, dispatcher, claimsCh, memberVars, running,
                 loop, scaler, closer, shutdown, runs, failed>>

----------------------------------------------------------------------------
Submitter == \E j \in Jobs : SubmitStart(j) \/ SubmitSend(j) \/ SubmitFail(j)

Dispatcher ==
  \/ DispatcherTake \/ DispatcherExit \/ DispatcherPull \/ DispatcherCheck
  \/ \E l \in Loops : DispatcherSend(l)
  \/ DispatcherSendTimeout \/ DispatcherGiveUp

\* What a run loop does by itself; only the handler's return is not up to it.
LoopStep(l) ==
  LoopEnter(l) \/ LoopIdle(l) \/ LoopOffer(l) \/ LoopExit(l) \/ LoopRun(l)

Scaler ==
  \/ ScalerTick \/ ScalerHold \/ ScalerUp \/ ScalerSubscribe \/ ScalerStart
  \/ ScalerRecord \/ ScalerLeave \/ ScalerLeft \/ ScalerExit
  \/ \E w \in Workers : ScalerDown(w)

Closer == CloseCollect \/ CloseLeave \/ CloseLeft \/ CloseReturn

Next ==
  \/ Submitter
  \/ Dispatcher
  \/ \E l \in Loops : LoopStep(l) \/ LoopFinish(l)
  \/ Scaler
  \/ \E drain \in BOOLEAN : Close(drain)
  \/ Closer
  \/ CancelParent

Spec == Init /\ [][Next]_vars

\* The goroutines of the pool keep running and timers fire; the scaler's select
\* does not pass over a ready Done for ever.  Nothing is asked of the handlers,
\* and of a run loop only that it calls the handler with the job it received.
Fairness ==
  /\ WF_vars(Dispatcher)
  /\ \A l \in Loops : WF_vars(LoopRun(l))
  /\ WF_vars(Scaler)
  /\ SF_vars(ScalerExit)
  /\ WF_vars(Closer)

FairSpec == Spec /\ Fairness

----------------------------------------------------------------------------
(* Properties. *)

DispatcherState == [pc : {"select", "await", "check", "send", "exited"},
                    job : Jobs \cup {NoJob}, claim : Claim \cup {NoClaim}]
LoopState == [pc : LivePCs \cup {"none", "exited", "panicked"},
              ctx : 0 .. MaxJoins, input : 0 .. MaxJoins, job : Jobs \cup {NoJob}]
ScalerState == [pc : {"idle", "snap", "join", "start", "record", "leave", "left",
                      "done"},
                idle : 0 .. Size, todo : 0 .. Size, target : 0 .. Size]
CloserState == [pc : {"open", "draining", "leaving", "left", "returned"},
                drain : BOOLEAN, todo : SUBSET Workers, target : 0 .. Size]

TypeOK ==
  /\ fresh \subseteq Jobs
  /\ submitting \subseteq Jobs
  /\ refused \subseteq Jobs
  /\ backlog \in Seq(Jobs)
  /\ Len(backlog) <= Backlog
  /\ dispatcher \in DispatcherState
  /\ claimsCh \in Seq(Claim)
  /\ subscribers \subseteq Workers
  /\ joined \subseteq Workers
  /\ running \in [Workers -> BOOLEAN]
  /\ gen \in [Workers -> 0 .. MaxJoins]
  /\ hasCtx \in [Workers -> BOOLEAN]
  /\ canceled \subseteq Loops
  /\ loop \in [Loops -> LoopState]
  /\ scaler \in ScalerState
  /\ closer \in CloserState
  /\ shutdown \in BOOLEAN
  /\ poolDone \in BOOLEAN
  /\ runs \in [Jobs -> Nat]
  /\ failed \subseteq Jobs
  /\ promised \subseteq Jobs
  /\ timedOut \subseteq Workers

\* Where a job is: with its caller, in the backlog, with the dispatcher, with a
\* worker that has received it, handled, or reported failed.
Places(j) ==
  {<<"caller", k>> : k \in {n \in 1 .. 3 : j \in <<fresh, submitting, refused>>[n]}}
    \cup {<<"backlog", i>> : i \in {k \in DOMAIN backlog : backlog[k] = j}}
    \cup (IF dispatcher.job = j THEN {<<"dispatcher", 0>>} ELSE {})
    \cup {<<"received", l>> : l \in {k \in Loops : loop[k].pc = "received"
                                                    /\ loop[k].job = j}}
    \cup (IF runs[j] > 0 THEN {<<"handled", runs[j]>>} ELSE {})
    \cup (IF j \in failed THEN {<<"failed", 0>>} ELSE {})

\* A job is in exactly one place: it is not lost with a dropped claim, not
\* handled twice after a send that timed out, not both handled and reported
\* through DispatchError, and not handled once Submit refused it.
JobInOnePlace == \A j \in Jobs : Cardinality(Places(j)) = 1 /\ runs[j] <= 1

\* Until close collects the workers, the joined set and the dispatcher's
\* subscribers agree but for the worker a join or leave is working on, after a
\* leave that timed out too, and the scaler never goes below MinSize.
MembershipConsistent ==
  closer.pc \in {"open", "draining"} =>
    /\ Cardinality(joined) >= MinSize
    /\ joined \ {scaler.target} \subseteq subscribers
    /\ subscribers \subseteq joined \cup {scaler.target}

\* A worker whose leaves all ended in time never has two live run loops, and
\* its loop never reads a nil ctxFn.
OneLoopPerWorker ==
  \A w \in Workers \ timedOut :
    /\ Cardinality({l \in Loops : l[1] = w /\ loop[l].pc \in LivePCs}) <= 1
    /\ \A l \in Loops : l[1] = w => loop[l].pc # "panicked"

\* GracefulShutdown goes on to stop the workers only after every job queued
\* when it was called was handed to a worker or reported.
GracefulDrains ==
  closer.pc \in {"leaving", "left"} /\ closer.drain /\ ~poolDone
    => \A j \in promised :
         j \in failed \/ runs[j] = 1 \/ \E l \in Loops : loop[l].job = j

\* Shutdown and GracefulShutdown return, even if handlers never do.
CloseReturns == closer.pc = "draining" ~> closer.pc = "returned" \/ ~Alive

\* A job the dispatcher takes is handled or reported: it is never kept waiting
\* by workers that left, timed out or are stuck in a handler.
JobsSettle ==
  \A j \in Jobs : dispatcher.job = j ~> runs[j] = 1 \/ j \in failed \/ ~Alive

\* doc.go: a "pool of worker goroutines ... auto-scaling between MinSize and
\* MaxSize": never more than MaxSize run loops, under contexts that are not
\* done, take jobs at a time.
ServersBounded ==
  Cardinality({l \in Loops : /\ loop[l].pc \in {"offer", "parked"}
                             /\ ~CtxDone(l[1], loop[l].ctx)}) <= Size
=============================================================================

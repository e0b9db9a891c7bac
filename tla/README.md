# Verification of go-asynctasklib

TLA+ models of the concurrent parts of this library, checked with TLC on small
instances, and theorems about them checked with TLAPS for every instance.
`PROJECT.json` lists the components, the runs, the source lines each definition
models, the mutants that show each property can fail, the findings and the
hazards the properties are aimed at.

## Inventory

| component | state | operations | interacts with |
|---|---|---|---|
| `taskqueue.Queue` | `closed`, reaper context | `Enqueue`, `Dequeue`, `Claim.Ack`, `Claim.Nack`, `Redrive`, `Stream`, `Close`; reaper goroutine | Backend and DeadLetter, each behind its own mutex |
| `MemoryBackend` | heap of ready items, lease table | `Enqueue`, `Claim`, `Ack`, `Nack`, `ReapExpired` | called by Queue |
| `MemoryDeadLetter` | dead tasks by task ID | `Add`, `List`, `Remove` | called by Queue |
| `workerpool.WorkerPool` | backlog channel, joined set, `reject`, `shutdown`, pool context | `Submit`, `Shutdown`, `GracefulShutdown`; dispatcher goroutine | claims, workers, autoscaler |
| `claims` | subscribers, channel of advertisements | `Subscribe`, `Unsubscribe`, `submit` | rendezvous of dispatcher and workers |
| `worker` | `running`, `ctxFn`, `input`, `done` per join | `join`, `leave`; run loop goroutine | claims channel, its input channel |
| autoscaler | snapshot of load, cooldowns | tick: `decide`, `joinOneIdle`, `pickVictim`, `leaveOne` | joined set, workers |
| `jobContext` | first cancellation | `Done`, `Err`, `Deadline`, `Value` | pool and submit contexts |
| `Lobby` | bounded channel, `closed`, hand-off | `SubmitTask`, `PushTasks`, `RetrieveTask`, `FetchTasks`, `CloseContext`, `HandoffTasks` | Yielder |
| `Yielder` | generator goroutine, first error | `Results`, `Stop`, `StopErr`, `Done` | used by Lobby and Stream |
| `Task` | state, attempts, error, cancel | `Go`, `GoRetry`, `Cancel`, `Await`; delegate goroutine | retry strategies, hooks |
| `TaskGroup`, `Semaphore` | tasks, `stopped`; token channel | `Submit`, `SubmitBatch`, `Wait`, `Stop`; `Acquire`, `Release` | Task |
| `retry` | none | `Delay` of Linear and ExponentialBackoff | Task |

What is hard in this code:

* **Queue.** A lease may be ended by its claim, by the reaper or by both at
  once; the reaper works on copies; `route` and `Redrive` make several store
  calls, any of which may fail; consumers may vanish. Correct means: an item is
  in one place, deliveries are bounded, only exhausted tasks die, no lease is
  taken early, no task is lost, every task settles in the end, `Close` returns.
* **Pool.** A job passes from caller to backlog, dispatcher, claim and worker
  with a timeout at each hand-over, while two shutdowns and the autoscaler
  remove the workers. Correct means: a job is in one place, a graceful shutdown
  drains, shutdowns return, jobs settle, the sets of workers agree, a worker has
  one run loop.
* **Stream.** A claim passes from the feeder through two channels to the reader,
  any of which may be gone. Correct means: a claim is in one place, cancellation
  ends both goroutines, a claim that does not arrive is reaped.
* **Lobby and Yielder.** Close races submissions on the channel it closes, and
  fetching yielders race the hand-off; a yielder may have a value in hand when
  its context ends. Correct means: no send on a closed channel, an accepted task
  is in one place, the hand-off has room for what is left, drops are reported.
* **Task.** `Go` marks a task started after it has started it; a run ends by its
  context, its timeout or its function, which may never return; `GoRetry` reads
  the state another goroutine wrote. Correct means: errors are kept, runs do not
  overlap, retries stay in their budget, `Await` and `GoRetry` return.
* **TaskGroup.** Slots are taken by `Submit` and given back by another goroutine;
  `Stop` and `Wait` work on copies of the list. Correct means: the limit holds,
  slots come back, `Stop` and `Wait` reach what they saw.
* **JobContext.** Two callbacks, one per parent, may run before, during and after
  the registration of the other. Correct means: one error, explained by a parent
  that ended; the context ends with its parents; no registration is left over.

## Modules

| module | models |
|---|---|
| `TaskQueue` | `pkg/taskqueue`: queue.go, memory_backend.go, deadletter.go |
| `Delivery` | abstract: what the queue promises of each item it accepts |
| `QueueRefinement` | the refinement mapping from `TaskQueue` to `Delivery` |
| `Yielder` | `pkg/yielder`: the state and the steps of yielders |
| `Stream` | `Queue.Stream`: `TaskQueue` and `Yielder` composed |
| `Lobby` | `pkg/taskqueue`: lobby.go, composed with `Yielder` |
| `WorkerPool` | `pkg/workerpool`: pool.go, claims.go, worker.go, scaler.go |
| `JobContext` | `pkg/workerpool`: jobcontext.go |
| `Retry` | `pkg/retry`: the delays, as operators |
| `Task` | `pkg/task`: task.go, with the delays of `Retry` |
| `TaskGroup` | `pkg/taskgroup` and `pkg/semaphore` |
| `TaskQueueProofs`, `StreamProofs`, `LobbyProofs`, `WorkerPoolProofs`, `JobContextProofs`, `TaskProofs`, `TaskGroupProofs` | theorems about the module (`TaskQueueProofs`: about `QueueRefinement` too) |
| `ChannelTheorems` | lemmas about channels as sequences, for the proofs |
| `MC...` | constant values and symmetry for TLC, one per checked module |

Definitions whose comment starts with "Mutant:" are not part of a
specification. Each is a plausible bug in the definition after it, and the
property named for it in `PROJECT.json` fails when it takes that place.

### TaskQueue

A `*queueItem` is a position in `items`, a lease token a position in `issued`,
so that no token is reused. `ready` is the heap (any item with none `Less` may be
popped), `leases` the lease table, `dead` the dead-letter map. The calls under a
mutex are operators (`BackendClaim`, `BackendNack`, ...). A method that makes
several calls is several actions:

* `Enqueue`: `EnqueueStart` (checks), `EnqueuePush` or `EnqueueFail`;
* `Dequeue`: `DequeueStart`, then `DequeueClaim`, `DequeueEmpty`, `DequeuePoll`,
  `DequeueFail`; `closed` is read only at the start;
* `Claim.Ack`: `Ack`; `Claim.Nack`: `NackRequeue`, or `NackDeadLetter` and then
  `NackDrop`; `SettleFail` is a store call that returns an error, after which the
  claim stays settled;
* reaper: `SweepStart` copies the expired leases, `SweepRequeue`,
  `SweepDeadLetter` and `SweepDrop` route them one at a time, `SweepFail` once
  its context is done, `ReaperExit`;
* `Redrive`: `RedriveFind`, `RedriveEnqueue`, `RedriveRemove`, `RedriveFail`;
* `Close` and `CloseCancel`; `CancelParent` is the context given to `New`.

Time is `lapsed`: all leases get the same visibility, so deadlines pass in the
order of the tokens. A task is enqueued once by its producers (IDs are unique).
`acked`, `readded` and `clobbered` are history variables.

### WorkerPool

The g-th join of worker w makes generation g of its `ctxFn`, `input` and `done`
and starts run loop `<<w, g>>`. A loop evaluates `w.ctxFn()` and `w.input` when it
enters a select (`Read`), so a loop that outlived its leave sees the fields of a
later generation; `Visible` gives the values the unsynchronised reads may return
while a join is writing. Calling a nil `ctxFn` is a panic in a goroutine without
a recover: it ends the process (`Alive`).

* `Submit`: `SubmitStart` (reject check and limiter), `SubmitSend`, `SubmitFail`;
* dispatcher with `claims.submit`: `DispatcherTake`, `DispatcherPull`,
  `DispatcherCheck`, `DispatcherSend`, `DispatcherSendTimeout`,
  `DispatcherGiveUp`, `DispatcherExit`;
* run loop: `LoopEnter`, `LoopIdle`, `LoopOffer`, `LoopExit`, `LoopRun`,
  `LoopFinish`;
* `leave`: `LeaveStart`, then `LeaveDone` or `LeaveTimeout`, as steps of the scaler
  (`ScalerLeave`, `ScalerLeft`) or of close (`CloseLeave`, `CloseLeft`);
* autoscaler: `ScalerTick` reads the idle count, then `ScalerUp`, `ScalerDown` or
  `ScalerHold` decides; a join is `ScalerSubscribe`, `ScalerStart`, `ScalerRecord`;
* close: `Close`, `CloseCollect`, the leaves, `CloseReturn`.

Timers may fire at any moment and a select may take any ready case. Cooldowns and
idle periods may or may not have elapsed. Left out: the rate limiter's arithmetic,
the events, `lastActiveAt` (any joined worker that is not running may be the
victim), and the time between a `go` statement and the first step of its loop.
Two steps merge what the code does in a row: `LoopOffer` the send of the claim with
the entry into the inner select, and `ScalerDown` the reads of the backlog, the
running count and the idle times. Both merges lose no outcome: the loop may still
be passed over before its job comes, and the victim may be given a job before it
is left.
`promised` is a history variable: the jobs queued when `GracefulShutdown` was called,
as long as the pool's context is not done.

### Delivery

An item is absent, waiting, leased, acked or dropped. `QueueRefinement` reads its
place off the heap, the lease table and the Acks, and its deliveries off its
attempt count; `ImplementsDelivery` says that every step of the queue is then a
step of `Delivery`, or none: nothing is given back at the ceiling or given up below
it, and nothing comes back from `acked` or `dropped`.

### Yielder, Lobby and Stream

`y[i]` is a yielder: `pc` is where its goroutine is ("call", "emit" for a generator
function, "recv", "send" for an input channel, "closing", "done"), `hand` the value
between its two channels, `room` the capacity of `results`. All yielders of
`WithInputChannel` in a module read the one channel `input`. `Timeout` is the hard
timeout of `New` or the end of the parent context. `dropped` is a history.

`Lobby` has `input` as its incoming channel. `SubmitTask` is the RLock and the
closed check, after which the submission holds the read lock in its select until
`SubmitSend`, `SubmitClosed` or `SubmitTimeout` (which stands for a timeout of zero
and a done ctx as well). `CloseContext` is `CloseCheck`, `CloseStore`, then `OnceFirst`,
`CloseBuild` (the write lock: no submission is in its select), `CloseStored` or
`CloseFail`; a later caller waits in `OnceLater`. `PushTasks` is `PushStart`,
`PushCanceled`, `PushDone`, `PushNext`, `PushReturn`.

`Stream` takes the actions of `TaskQueue` with one consumer, the feeder, and
those of one yielder. `StreamOpen` is the closed check and the start of the feeder,
`StreamNew` the yielder's `New`, which fails when ctx is done by then; the feeder may
have claimed and sent in between. `FeedDequeue`, `FeedClaim` and `FeedFail` are the feeder's
Dequeue; `FeedNack` settles the claim but leaves its lease, because the context it
is given has ended and the backend refuses the call. The feed has a buffer of at
least one.

### Task, Retry and TaskGroup

A task has one caller, which makes its `Go` and `GoRetry` calls in turn; anybody may
cancel. `Go` is `GoPending`, `GoStart` and, after the goroutines exist, `GoStarted`,
so that a run may end in between. A run leaves its select by `RunCanceled`,
`RunTimeout` or `RunResult` and stores its state; `RunEnd` is two steps, the store of its
error and then `wg.Done`. `FnSkip`, `FnCall`, `FnReturn` are the delegate, which may go
on after its run has ended; it is left behind (`fn` is "left") when it has a result
that nobody will receive. `Retry` gives the set of delays `Delay` may return, in
durations of `Width` bits: the product of Linear wraps around, that of
ExponentialBackoff is formed in floating point and does not.

`TaskGroup` has of a task what a group can tell: one run that leaves its select at
some time. The semaphore is the number `slots` of tokens in its channel. `release`
is the goroutine that gives the slot back, `member` the errgroup's, `manager` the
goroutine that calls `Stop` and `Wait`, in any order and again and again.

### JobContext

`callback[j][p]` is the function registered with parent p for job j: registered,
at its `once.Do`, at its stop of the sibling, ended, or stopped. `newJobContext`
holds `stopMu` from `RegisterPool` to `RegisterSubmit`; `CallbackStop` needs it.
`context.WithCancel`, `WithDeadline` and `AfterFunc` are external and modelled from
their use. `MCJobContext` also compares `Value` with its comment on all cases.

## Runs

Bounds are in the `.cfg` files.

| run | bounds | shows |
|---|---|---|
| `queue` | 1 task, 2 attempts, 1 consumer, 1 redriver, 2 items | `TypeOK`, `ItemInOnePlace`, `BoundedDelivery`, `DeadOnlyExhausted`, `NoSilentLoss`, `LeaseEndsOnlyWhenDue`; `ImplementsDelivery`; `EventuallySettled`, `ReaperStops` |
| `stream` | 1 task, 3 attempts, feed and results of 1 | `ClaimInOnePlace`, `StreamStops`, `UndeliveredReaped` |
| `lobby` | room for 1, 1 direct and 1 pushed task, 1 fetching yielder, 2 closers | `NoSendOnClosed`, `TaskInOnePlace`, `HandoffHasRoom`, `PushAllOrError`, `CloseNilMeansClosed`, `DropIsReported`, `CloseReturns` |
| `pool_safety` | 2 jobs, 1 to 2 workers, 2 joins each | `TypeOK`, `JobInOnePlace`, `MembershipConsistent`, `OneLoopPerWorker`, `GracefulDrains` |
| `pool_liveness` | 2 jobs, 1 to 2 workers, 1 join each | `CloseReturns`, `JobsSettle` |
| `jobcontext` | 2 jobs, deadlines 1, 2 or none | `ErrExplained`, `FollowsParents`, `SiblingReleased` |
| `task` | 1 task, 3 runs, 5 retry options, 4-bit delays | `ErrAfterAwait`, `RunsDisjoint`, `RetryBudget`, `BackoffGrows`, `AwaitReturns`, `RetryReturns` |
| `group` | a batch of 1 and an errgroup of 2 on 1 slot | `WorkersBounded`, `ErrGroupOver`, `WaitComplete`, `StopReaches`, `SubmitReturns` |

In `queue` two attempts separate requeue from dead-letter, and the redriven copy
gives one sweep two leases of the same task; the priority order of two tasks
matters to none of the properties, and the safety properties are proved for any
number of tasks. Three attempts in `stream` let one claim be with the reader, one in
the feed and one in the feeder's hand. A lobby with room for one is full at once,
and two closers race its `sync.Once`. Two jobs in the pool let one be running while
another is queued, which scaling up needs, and one be stuck in its handler while the
dispatcher holds the other; two joins give a loop a later generation to run into,
in `pool_safety` alone: with both bounds at two the state space is too large for
liveness. Three runs of the first call of a task let the delays of a base of 3 grow
to 5, the cap, and then overflow four bits (3, 6, 9) for Linear; a later call
has runs up to the second, enough for a second `GoRetry` to find the first one's
attempts, and for one run to be left behind by its function while another goes on.
Three tasks on one slot let a batch and an errgroup wait on each other.
`MaxItems`, `MaxJoins`, `MaxRuns`, `MaxMore` and `MaxTime` only cut behaviours off: they
guard allocation of an item, a scale-up, the runs of a first and of a later call,
and a tick. Deadlock is not checked:
everything here may be closed or finished, and then stops.

The runs that are expected to end in a violation state what a document or a test
says:

| run | what the code does |
|---|---|
| `queue_redrive_loss` | Redrive's Remove deletes a dead letter newer than the one it redrove: the task is lost |
| `pool_servers` | after a leave timeout and a rejoin two loops of one worker serve; once the newer one has left, the older one can call a nil `ctxFn` |
| `task_retry` | `Go`'s late STARTED hides that a run failed, and `GoRetry` returns nil |
| `stream_idle` | the timeout of `Stream` ends it while claims are flowing, and a claim is dropped |

`NoSilentLoss`, `OneLoopPerWorker`, `RunsDisjoint` and `UndeliveredReaped` say how far
the code is right where these runs fail: the only tasks lost are those of such a
Redrive (`clobbered`, which `EventuallySettled` excepts too), only a worker whose
leave timed out can have two loops, the hidden failure does not make runs
overlap, and a dropped claim comes back through the reaper.

Other behaviours of the models contradict a document, or would surprise a caller,
and have no run of their own (see the hazards):

* queue: an Ack that succeeds between the reaper's Add and Nack leaves the task
  acked and dead-lettered; after the yielder's timeout the feeder of a stream
  goes on claiming and blocks on its feed until ctx is done, although the queue is
  closed; when a stream's ctx ends before `yielder.New`, the feeder may have sent a
  claim already, which then waits for the reaper (queue.go:302-303 says that it
  "sends nothing");
* pool: a worker whose claim was pulled and dropped is parked and does not
  advertise again, since the inner select has no idle timeout (worker.go:76-77); a
  `Submit` past its reject check may be accepted after the dispatcher of a graceful
  shutdown has returned (pool.go:441-443); `GracefulShutdown` gives up on a handler
  after `SubmitTimeout` and its context is canceled (pool.go:390-391); the autoscaler
  may leave a worker that has just started a job; a job queued at `Shutdown` may
  still be handled;
* lobby: `FetchTasks` streams without limit, its n is only a buffer size;
  `PushTasks` waits for `Done` before it reads, so a batch longer than the yielder's
  buffer is never pushed, and neither is a yielder of an input channel;
* task: `GoRetry` without `MaxRetries` stores FAILED during a run; `Err` is not
  cleared by a run that succeeds; a `Cancel` during `Go`'s delay is lost; the delegate
  of a run that timed out stays behind on its channel; the timeout does not cancel
  the function; Linear's product may wrap to a negative delay, which the cap lets
  through, and `GoRetry` then does not wait (linear.go:15);
* group: a `Submit` past the stopped check runs its task after `Stop`; functions that
  timed out run beside `MaxWorkers`; the errgroup misses a failure that a late
  STARTED hides;
* job context: a callback stays registered with the pool's context until a parent
  ends, also when the handler has returned.

### Fairness

`TaskQueue`: time passes; the reaper goroutine runs and its ticker fires; `Close`
goes on to its cancel; a consumer keeps calling `Dequeue` and polling, and one of
its calls is not cancelled before it claims (strong fairness of `DequeueClaim`: a
consumer may be moved between polling and waiting, but an item that is there again
and again is claimed). Nobody is assumed to settle a claim or to call `Redrive`.

`WorkerPool`: the dispatcher, the autoscaler and close keep running, and their timers
fire. A run loop that was sent a job calls its handler (`LoopRun`); no other step of
a loop is assumed, since dispatcher and close do not wait for a worker without a
timeout. Strong fairness of `ScalerExit`: its select is entered again and again with
the done channel ready, and Go chooses among ready cases at random. No handler is
assumed to return, and no caller to submit.

`Stream`: the feeder, the yielder and the reaper run, and time passes. `Lobby`:
submissions and closers take a ready case; no yielder has to run, no timeout to
fire, nobody to read. `Task`: the caller's goroutine, the runs and their delegates
run, and timers fire; no function returns and nobody cancels. `TaskGroup`: submissions
and releasers run, and a run ends in the end, which is `AwaitReturns` of `Task`.
`JobContext`: the callbacks run, `newJobContext` returns, and time passes.

## Proofs

Every safety invariant and every action property that the passing runs check is
proved, `BackoffGrows` excepted, and so is the refinement of `Delivery`. The
theorems hold for every value of the constants, from the `ASSUME` of the module
alone, which says what kind of value each constant is (`MaxAttempts` and a
buffer are not zero, the pool has at least one worker, ...). The bounds of the
runs are constants like the others, so the theorems hold for each of them.

In all modules the layout is the same: an inductive invariant, lemmas on what a
call or a step does to the state, a step lemma with one case per action, and the
theorems, which follow from the invariant. Each invariant was checked by TLC as an
invariant of the run's specification before it was proved.

### TaskQueueProofs

* `TypeCorrect`: `TypeOK`, which is inductive.
* `ItemInOnePlaceHolds`, `BoundedDeliveryHolds`, `DeadOnlyExhaustedHolds`: none of
  them is inductive. The invariant `IInv` adds what the actions rely on:
  `AttemptInv` (a ready item has been delivered fewer than `MaxAttempts` times, so
  the next claim stays within the bound), `LeaseInv` (a live lease has its item's
  present attempt count), `SweepInv` (the reaper's copies are of leases that were
  due and carry the attempt number they were issued with, though they may be
  stale), `DropInv` (a `Nack` between its two calls is at the ceiling).
  `BackendInv` and `RouteInv` collect the parts about the stores and about
  routing.
* `LeaseEndsOnlyWhenDueHolds`: the action property, from `IInv` by cases on the
  action that removed the lease.
* `NoSilentLossHolds`: `LossInv` adds `KeptInv` (a task that is neither
  dead-lettered nor clobbered has an item that no route under way is about to
  drop: `Sound`, `Doomed`) and `RedriveInv` (the item a redriver has enqueued and
  not yet removed from the dead-letter store is such an item, unless its task died
  again and the redriver is in `readded`).
* `ImplementsDeliveryHolds`: `TaskQueue` implements `Delivery`. Four lemmas say how
  a step moves an item (`AbstractPush`, `AbstractClaim`, `AbstractRelease`,
  `AbstractNack`), the others leave all items alone (`AbstractSame`). A drop needs
  that the reaper's token is at the ceiling, which `RefineInv` adds to `IInv`: the
  reaper read the attempt count from its copy, not from the lease it drops.

What the backend calls do to the invariant is stated once (`BackendPush`,
`BackendClaimed`, `BackendRelease`, ...) and cited by every action that makes the
call.

### StreamProofs

`StreamInv` has the claims at each of the six stages from the feeder to the reader
as a set: the sets are apart, hold every token handed out but the settled ones
(`StageInv`), and a claim is in a goroutine's hand exactly while it sends it
(`HandInv`). A step moves one claim to the next stage (`ClaimFlow`, `SendFlow`,
`ReceiveFlow`, ...) or none (`FlowKept`).

* `StreamUsesQueue`: a stream is a user of the queue, `StreamSpec => Spec`. It needs
  the invariant, since `FeedNack` and the reader settle claims that must be theirs.
  So the theorems of `TaskQueueProofs` hold while a stream is open.
* `ClaimInOnePlaceHolds`.

### LobbyProofs

* `NoSendOnClosedHolds`, `CloseNilMeansClosedHolds`, `HandoffHasRoomHolds`,
  `DropIsReportedHolds` from `LInv`: `CloseInv` (one closer is past `sync.Once`, and
  from its write lock on no submission is in its select), `YielderInv` (where a
  yielder may have a value, an error, a drop), `RoomInv` (what is in the channel and
  in the hand-off's results fits its buffer, with one place more while it has a value
  in hand: no submission is added after `CloseBuild` and other readers only take).
* `PushAllOrErrorHolds`: `PushInv` follows the batch from the yielder's values to its
  results to the submissions.
* `TaskInOnePlaceHolds`: `PlaceInv`, that an accepted task is at one place and in no
  channel twice, which the count of `Places` then follows from.

### WorkerPoolProofs

* `TypeOKHolds`, `MembershipConsistentHolds`: neither is inductive. `PoolInv` adds what
  the autoscaler knows between its steps (`ScalerInv`: the worker of a join is
  subscribed and not joined, that of a leave is one more than `MinSize`), that close
  collects the workers only once dispatcher and autoscaler are gone (`CloserInv`), and
  what a loop has read and holds (`LoopInv`, `DispatcherInv`).
* `OneLoopPerWorkerHolds`: `SingleInv`, for a worker none of whose leaves timed out: the
  loops of its earlier joins have exited, and the last one before it may be
  joined again, so no loop reads fields of a join that is not its own.
* `JobInOnePlaceHolds`: `PlaceInv`, by the hand-over each action makes.
* `GracefulDrainsHolds`: `DrainInv`: a promised job is past the backlog and the
  dispatcher when the dispatcher has exited with the pool context alive.

### JobContextProofs

* `ErrExplainedHolds`, an action property: `ContextInv` says that a callback runs only
  after its parent ended (`StartedInv`), that the error of a context that is done is
  that of such a parent (`CauseInv`) and that a parent ended by its deadline is past
  it (`DueInv`). `DeadlineFacts` shows that `Deadline()` is then due as well.

### TaskProofs

`TaskInv` speaks of one task at a time; a step concerns one (`OneTask`), but the
end of a context concerns all its runs (`CtxStep`).

* `ErrAfterAwaitHolds`: `RunInv`, an error is stored before `wg.Done`.
* `RunsDisjointHolds`: `SelectInv`, a run in its select shows as PENDING or STARTED,
  and `Go` is between its check and its start only when there is none.
* `RetryBudgetHolds`: `BudgetInv`, at each step of `GoRetry` its runs so far have
  failed and `attempts` counts them; while it awaits a run, the state is STARTED or
  the outcome of that run.

### TaskGroupProofs

* `WorkersBoundedHolds`: `SlotInv`, the semaphore's count is the number of tasks between
  acquire and release, of which a run in its select is one (`PhaseInv`).
* `ErrGroupOverHolds`, and the action properties `WaitCompleteHolds` and
  `StopReachesHolds`: `CallsInv` adds what `Stop` and `Wait` know of the tasks they
  copied, and that a run in its select shows in the state `Stop` reads.

### Only model-checked

* the liveness properties: they need fairness and ENABLED, which these provers
  do not handle;
* `BackoffGrows`: the delays are formed with powers of two, and that a power grows
  is an induction over the exponent. It also is false without a positive base
  delay and a maximum that is not negative, which the options do not enforce; the
  run has both. It excepts a product of Linear that does not fit, which the run
  reaches, from the rule that delays do not shrink;
* the properties of the four runs that end in a violation.

## Not modelled, and the plan

Left out, with the reason:

* events, hooks and the task builder: callbacks and field setters without state
  the rest reads;
* `Acquire`, `TryAcquire` and `TryAcquireWithTimeout` of the semaphore: no caller in
  the repository, and the same send as `AcquireWithContext`;
* two callers of `Go` on one task: `IsInProgress` and the store of PENDING are two
  steps, and both may pass;
* the rounding of `ExponentialBackoff`'s product, the rate limiter's arithmetic,
  cooldowns and idle periods as times (`pickVictim` may choose any joined worker
  that is not running);
* a stream with an unbuffered feed.

Next, in this order:

1. An abstract job hand-over that `WorkerPool` implements, with the proof: `PlaceInv`
   has where a job is, and each action moves one job.
2. `decide` and `pickVictim` with time.
3. The theorems of `Lobby` that follow a yielder's values for any yielder, apart
   from the lobby, to be used by `Stream` as well.

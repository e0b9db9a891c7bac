------------------------------ MODULE TaskGroup ------------------------------
(***************************************************************************)
(* The groups of pkg/taskgroup (taskgroup.go) with the semaphore of         *)
(* pkg/semaphore, of which a group uses AcquireWithContext and Release.     *)
(*                                                                         *)
(* One goroutine submits the tasks of Batch with SubmitBatch (Submit is a   *)
(* batch of one), another those of Members with SubmitWithErrGroup, whose   *)
(* errgroup runs one goroutine per task; one calls Stop and Wait.           *)
(*                                                                         *)
(* Of a task, which module Task models in full, there is what a group can   *)
(* tell: it makes one run, which may leave its select at any time, by its   *)
(* timeout or with any result of its function, and stores the new state     *)
(* then; Go stores STARTED after it has started the run.                    *)
(***************************************************************************)
EXTENDS Naturals, Sequences, FiniteSets

CONSTANTS
  Batch,      \* the tasks of SubmitBatch, in order
  Members,    \* the tasks of SubmitWithErrGroup
  MaxWorkers  \* the limit of the semaphore

BatchTasks == {Batch[n] : n \in DOMAIN Batch}
Tasks == BatchTasks \cup Members

ASSUME GroupAssumption ==
  /\ Batch \in Seq(BatchTasks)
  /\ \A m, n \in DOMAIN Batch : Batch[m] = Batch[n] => m = n
  /\ BatchTasks \cap Members = {}
  /\ MaxWorkers \in Nat \ {0}

VARIABLES
  state,    \* the state of each task
  run,      \* its run: "none", in its "select", or at its "end"
  canceled, \* the tasks in their select whose context is done
  ctxDone,  \* the contexts that are done: of the "batch", of the "errgroup"
  submit,   \* the Submit of each task
  slots,    \* the length of the semaphore's channel
  listed,   \* TaskGroup.tasks
  release,  \* the releaseWg goroutine of each task
  member,   \* what the errgroup goroutine of each member returned
  stopped,  \* TaskGroup.stopped
  manager   \* the calls of Stop and Wait: pc, the tasks copied and, as rest,
            \* those Stop has yet to cancel; for Wait, a history, those whose
            \* Submit had returned

taskVars == <<state, run, canceled>>
stopVars == <<stopped, manager>>
vars == <<taskVars, ctxDone, submit, slots, listed, release, member, stopVars>>

CtxOf(t) == IF t \in Members THEN "errgroup" ELSE "batch"

NoManager == [pc |-> "idle", saw |-> {}, rest |-> {}]

Init ==
  /\ state = [t \in Tasks |-> "CREATED"]
  /\ run = [t \in Tasks |-> "none"]
  /\ canceled = {}
  /\ ctxDone = {}
  /\ submit = [t \in Tasks |-> "idle"]
  /\ slots = 0
  /\ listed = {}
  /\ release = [t \in Tasks |-> "none"]
  /\ member = [t \in Members |-> "none"]
  /\ stopped = FALSE
  /\ manager = NoManager

----------------------------------------------------------------------------
(* Submit. *)

SetSubmit(t, from, to) ==
  /\ submit[t] = from
  /\ submit' = [submit EXCEPT ![t] = to]

\* SubmitBatch submits a task when the one before it was submitted.
Turn(t) ==
  \A n \in DOMAIN Batch :
    n > 1 /\ Batch[n] = t => submit[Batch[n - 1]] = "submitted"

SubmitCheck(t) ==
  /\ Turn(t)
  /\ SetSubmit(t, "idle", IF stopped THEN "refused" ELSE "acquire")
  /\ UNCHANGED <<taskVars, ctxDone, slots, listed, release, member, stopVars>>

\* A slot is free: the task is made and Go called, which stores PENDING.
SubmitAcquire(t) ==
  /\ SetSubmit(t, "acquire", "go")
  /\ slots < MaxWorkers
  /\ slots' = slots + 1
  /\ state' = [state EXCEPT ![t] = "PENDING"]
  /\ UNCHANGED <<run, canceled, ctxDone, listed, release, member, stopVars>>

SubmitCanceled(t) ==
  /\ SetSubmit(t, "acquire", "refused")
  /\ CtxOf(t) \in ctxDone
  /\ UNCHANGED <<taskVars, ctxDone, slots, listed, release, member, stopVars>>

\* Mutant: the slot is kept when Go fails.
SubmitGoFailedKeeping(t) ==
  /\ SetSubmit(t, "go", "refused")
  /\ CtxOf(t) \in ctxDone
  /\ state' = [state EXCEPT ![t] = "CANCELED"]
  /\ UNCHANGED <<run, canceled, ctxDone, slots, listed, release, member,
                 stopVars>>

\* Go finds the context done: the slot is released.
SubmitGoFailed(t) ==
  /\ SetSubmit(t, "go", "refused")
  /\ CtxOf(t) \in ctxDone
  /\ state' = [state EXCEPT ![t] = "CANCELED"]
  /\ slots' = slots - 1
  /\ UNCHANGED <<run, canceled, ctxDone, listed, release, member, stopVars>>

\* Go starts the run, which is canceled at once when the context is done.
SubmitGoStart(t) ==
  /\ SetSubmit(t, "go", "spawned")
  /\ run' = [run EXCEPT ![t] = "select"]
  /\ canceled' = IF CtxOf(t) \in ctxDone THEN canceled \cup {t} ELSE canceled
  /\ UNCHANGED <<state, ctxDone, slots, listed, release, member, stopVars>>

\* Go stores STARTED, over the end of a run that was faster, and returns; the
\* task, which nobody else knows before, is appended to the list.
SubmitAppend(t) ==
  /\ SetSubmit(t, "spawned", "listed")
  /\ state' = [state EXCEPT ![t] = "STARTED"]
  /\ listed' = listed \cup {t}
  /\ UNCHANGED <<run, canceled, ctxDone, slots, release, member, stopVars>>

SubmitReturn(t) ==
  /\ SetSubmit(t, "listed", "submitted")
  /\ release' = [release EXCEPT ![t] = "await"]
  /\ UNCHANGED <<taskVars, ctxDone, slots, listed, member, stopVars>>

\* Mutant: the slot is released before Await.
ReleaseEarly(t) ==
  /\ release[t] = "await"
  /\ release' = [release EXCEPT ![t] = "done"]
  /\ slots' = slots - 1
  /\ UNCHANGED <<taskVars, ctxDone, submit, listed, member, stopVars>>

\* The slot is released when the task has ended.
Release(t) ==
  /\ release[t] = "await"
  /\ run[t] = "end"
  /\ release' = [release EXCEPT ![t] = "done"]
  /\ slots' = slots - 1
  /\ UNCHANGED <<taskVars, ctxDone, submit, listed, member, stopVars>>

Submit(t) ==
  \/ SubmitCheck(t) \/ SubmitAcquire(t) \/ SubmitCanceled(t)
  \/ SubmitGoFailed(t) \/ SubmitGoStart(t) \/ SubmitAppend(t)
  \/ SubmitReturn(t)

\* The run of a task ends, as it may at any time.  DONE stands for CANCELED too:
\* the group treats them alike.
RunEnd(t) ==
  /\ run[t] = "select"
  /\ run' = [run EXCEPT ![t] = "end"]
  /\ \E s \in {"DONE", "FAILED"} : state' = [state EXCEPT ![t] = s]
  /\ canceled' = canceled \ {t}
  /\ UNCHANGED <<ctxDone, submit, slots, listed, release, member, stopVars>>

\* A context ends, and with it the contexts of the runs started from it.
CtxEnd(c) ==
  /\ ctxDone' = ctxDone \cup {c}
  /\ canceled' = canceled \cup {t \in Tasks : CtxOf(t) = c /\ run[t] = "select"}

\* The caller's context is canceled or reaches its deadline.
CallerCtxEnds(c) ==
  /\ c \notin ctxDone
  /\ CtxEnd(c)
  /\ UNCHANGED <<state, run, submit, slots, listed, release, member, stopVars>>

----------------------------------------------------------------------------
(* SubmitWithErrGroup. *)

\* Mutant: the goroutine returns when the task is submitted.
MemberReturnEarly(t) ==
  /\ member[t] = "none"
  /\ submit[t] \in {"submitted", "refused"}
  /\ member' = [member EXCEPT ![t] =
                  IF submit[t] = "refused" THEN "error" ELSE "nil"]
  /\ UNCHANGED <<taskVars, ctxDone, submit, slots, listed, release, stopVars>>

\* The first error cancels the errgroup's context, and so does the return of
\* the last goroutine.
MemberReturn(t) ==
  /\ member[t] = "none"
  /\ \/ submit[t] = "submitted" /\ run[t] = "end"
     \/ submit[t] = "refused"
  /\ member' = [member EXCEPT ![t] =
                  IF submit[t] = "refused" \/ state[t] = "FAILED"
                  THEN "error" ELSE "nil"]
  /\ IF member'[t] = "error" \/ \A m \in Members : member'[m] # "none"
     THEN CtxEnd("errgroup")
     ELSE UNCHANGED <<ctxDone, canceled>>
  /\ UNCHANGED <<state, run, submit, slots, listed, release, stopVars>>

----------------------------------------------------------------------------
(* Stop and Wait. *)

CopyTasks(pc, rest) ==
  /\ manager.pc = "idle"
  /\ manager' = [pc |-> pc, saw |-> listed, rest |-> rest]
  /\ UNCHANGED <<taskVars, ctxDone, submit, slots, listed, release, member,
                 stopped>>

StopCopy == CopyTasks("Stop", listed)

\* Mutant: only a pending task is in progress.
IsInProgressPending(t) == state[t] = "PENDING"

IsInProgress(t) == state[t] \in {"STARTED", "PENDING"}

\* The order of the list does not matter.
StopNext(t) ==
  /\ manager.pc = "Stop"
  /\ t \in manager.rest
  /\ manager' = [manager EXCEPT !.rest = @ \ {t}]
  /\ canceled' = IF IsInProgress(t) /\ run[t] = "select"
                 THEN canceled \cup {t} ELSE canceled
  /\ UNCHANGED <<state, run, ctxDone, submit, slots, listed, release, member,
                 stopped>>

StopReturn ==
  /\ manager.pc = "Stop"
  /\ manager.rest = {}
  /\ manager' = NoManager
  /\ stopped' = TRUE
  /\ UNCHANGED <<taskVars, ctxDone, submit, slots, listed, release, member>>

WaitCopy == CopyTasks("Wait", {t \in Tasks : submit[t] = "submitted"})

\* releaseWg.Wait, which is zero as well when no releaser has started yet.
WaitReleases ==
  /\ manager.pc = "Wait"
  /\ \A t \in Tasks : release[t] # "await"
  /\ manager' = [manager EXCEPT !.pc = "Wait tasks"]
  /\ UNCHANGED <<taskVars, ctxDone, submit, slots, listed, release, member,
                 stopped>>

\* Mutant: relies on releaseWg alone.
WaitTasksSkipped ==
  /\ manager.pc = "Wait tasks"
  /\ manager' = NoManager
  /\ UNCHANGED <<taskVars, ctxDone, submit, slots, listed, release, member,
                 stopped>>

WaitTasks ==
  /\ manager.pc = "Wait tasks"
  /\ \A t \in manager.saw : run[t] = "end"
  /\ manager' = NoManager
  /\ UNCHANGED <<taskVars, ctxDone, submit, slots, listed, release, member,
                 stopped>>

----------------------------------------------------------------------------
Next ==
  \/ \E t \in Tasks : Submit(t) \/ RunEnd(t) \/ Release(t) \/ StopNext(t)
  \/ \E t \in Members : MemberReturn(t)
  \/ \E c \in {"batch", "errgroup"} : CallerCtxEnds(c)
  \/ StopCopy \/ StopReturn \/ WaitCopy \/ WaitReleases \/ WaitTasks

Spec == Init /\ [][Next]_vars

\* Goroutines are scheduled, and runs end, since they have a timeout.  RunEnd
\* and Release of a task are never enabled together.
Fairness ==
  \A t \in Tasks : WF_vars(Submit(t)) /\ WF_vars(RunEnd(t) \/ Release(t))

FairSpec == Spec /\ Fairness

----------------------------------------------------------------------------
(* Properties. *)

\* At most MaxWorkers runs are in their select together.  (The function of a
\* run that timed out may go on beside them.)
WorkersBounded ==
  Cardinality({t \in Tasks : run[t] = "select"}) <= MaxWorkers

\* When Wait returns every task that was listed when it was called has ended,
\* the one included whose releaser had not been started, and has given its slot
\* back if its Submit had returned.
WaitComplete ==
  [][manager.pc = "Wait tasks" /\ manager'.pc = "idle" =>
       /\ \A t \in manager.saw : run[t] = "end"
       /\ \A t \in manager.rest : release[t] = "done"]_vars

\* When Stop returns each task it found listed is canceled or has left its
\* select, whatever Go and the runs stored in its state meanwhile.
StopReaches ==
  [][manager.pc = "Stop" /\ manager'.pc = "idle" =>
       \A t \in manager.saw : run[t] = "select" => t \in canceled]_vars

\* When SubmitWithErrGroup has returned no task of it is running any more.
ErrGroupOver ==
  (\A t \in Members : member[t] # "none") =>
    \A t \in Members : run[t] # "select"

\* Submit returns: a slot comes free, though no function returns, no context
\* ends and others are waiting.
SubmitReturns ==
  \A t \in Tasks :
    submit[t] = "acquire" ~> submit[t] \in {"submitted", "refused"}
==============================================================================

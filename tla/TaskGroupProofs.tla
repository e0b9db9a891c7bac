--------------------------- MODULE TaskGroupProofs ---------------------------
(***************************************************************************)
(* Machine-checked safety of TaskGroup, for every batch, every set of      *)
(* members and every limit of the semaphore.                               *)
(*                                                                         *)
(* The semaphore only counts.  What bounds the runs is that the count is   *)
(* the number of tasks between their acquire and their release, and that a *)
(* task in its select is one of these.                                     *)
(***************************************************************************)
EXTENDS TaskGroup, TLAPS, FiniteSetTheorems

States == {"CREATED", "PENDING", "STARTED", "DONE", "FAILED", "CANCELED"}
Runs == {"none", "select", "end"}
Submits == {"idle", "acquire", "go", "spawned", "listed", "submitted", "refused"}
Releases == {"none", "await", "done"}

\* The values the variables take.
GroupType ==
  /\ state \in [Tasks -> States]
  /\ run \in [Tasks -> Runs]
  /\ submit \in [Tasks -> Submits]
  /\ release \in [Tasks -> Releases]
  /\ member \in [Members -> {"none", "nil", "error"}]
  /\ slots \in Nat
  /\ listed \subseteq Tasks
  /\ manager \in [pc : {"idle", "Stop", "Wait", "Wait tasks"},
                  saw : SUBSET Tasks, rest : SUBSET Tasks]

\* How far the run and the releaser of a task are follows from its Submit.
PhaseOK(t) ==
  /\ submit[t] \in {"idle", "acquire", "refused", "go"} => run[t] = "none"
  /\ submit[t] # "submitted" => release[t] = "none"
  /\ submit[t] \in {"spawned", "listed", "submitted"} => run[t] # "none"
  /\ submit[t] = "submitted" => /\ release[t] # "none"
                                /\ release[t] = "done" => run[t] = "end"
  /\ t \in listed => submit[t] \in {"listed", "submitted"}

PhaseInv == \A t \in Tasks : PhaseOK(t)

\* The task holds a slot of the semaphore.
HoldsSlot(t) ==
  submit[t] \in {"go", "spawned", "listed"} \/ release[t] = "await"

Holders == {t \in Tasks : HoldsSlot(t)}

\* The length of the semaphore's channel counts the holders of its slots.
SlotInv ==
  /\ IsFiniteSet(Holders)
  /\ slots = Cardinality(Holders)
  /\ slots <= MaxWorkers

SlotsInv == GroupType /\ PhaseInv /\ SlotInv

\* A task in its select has not yet stored the state of its end, nor has one
\* whose run was not started.
StateInv ==
  \A t \in Tasks : submit[t] = "go" \/ run[t] = "select" => IsInProgress(t)

\* A goroutine of the errgroup that returned has left no run behind.
MemberInv ==
  \A t \in Members : member[t] # "none" =>
    submit[t] = "refused" \/ (submit[t] = "submitted" /\ run[t] = "end")

\* Stop has dealt with the tasks it copied and does not have left; what Stop
\* and Wait copied stays listed.
StopInv ==
  /\ manager.saw \subseteq listed
  /\ manager.pc = "Stop" =>
       \A t \in manager.saw \ manager.rest : run[t] = "select" => t \in canceled

\* What Wait knows of the tasks whose Submit had returned before it.
WaitInv ==
  /\ manager.pc \in {"Wait", "Wait tasks"} =>
       \A t \in manager.rest : submit[t] = "submitted"
  /\ manager.pc = "Wait tasks" => \A t \in manager.rest : release[t] = "done"

CallsInv == StateInv /\ MemberInv /\ StopInv /\ WaitInv

GInv == SlotsInv /\ CallsInv

----------------------------------------------------------------------------
(* Types, and the phases of a task. *)

\* A new group has no tasks.
LEMMA GroupInit == Init => GInv
<1> SUFFICES ASSUME Init PROVE GInv
  OBVIOUS
<1>1. GroupType
  BY DEF Init, GroupType, NoManager, States, Runs, Submits, Releases
<1>2. PhaseInv
  BY DEF Init, PhaseInv, PhaseOK
<1>3. SlotInv
  <2>1. Holders = {}
    BY DEF Init, Holders, HoldsSlot
  <2> QED
    BY <2>1, FS_EmptySet, GroupAssumption DEF Init, SlotInv
<1>4. CallsInv
  BY DEF Init, CallsInv, StateInv, MemberInv, StopInv, WaitInv, NoManager, Tasks
<1> QED
  BY <1>1, <1>2, <1>3, <1>4 DEF GInv, SlotsInv

\* Every step keeps the types.
LEMMA GroupTypeStep == SlotsInv /\ [Next]_vars => GroupType'
<1> SUFFICES ASSUME SlotsInv, [Next]_vars PROVE GroupType'
  OBVIOUS
<1>m. slots \in Nat
  BY DEF SlotsInv, GroupType
<1>n. slots + 1 \in Nat /\ (slots # 0 => slots - 1 \in Nat)
  BY <1>m
<1> USE DEF SlotsInv, GroupType, taskVars, stopVars
<1>0. /\ {"PENDING", "STARTED", "DONE", "FAILED", "CANCELED"} \subseteq States
      /\ {"select", "end"} \subseteq Runs
      /\ {"await", "done"} \subseteq Releases
      /\ {"acquire", "go", "spawned", "listed", "submitted", "refused"}
           \subseteq Submits
  BY DEF States, Runs, Releases, Submits
<1>1. ASSUME NEW t \in Tasks, Submit(t) PROVE GroupType'
  <2>1. CASE SubmitCheck(t) \/ SubmitCanceled(t)
    BY <1>0, <2>1 DEF SubmitCheck, SubmitCanceled, SetSubmit
  <2>2. CASE SubmitAcquire(t)
    <3>1. slots' \in Nat
      BY <1>n, <2>2 DEF SubmitAcquire
    <3>2. state' \in [Tasks -> States] /\ submit' \in [Tasks -> Submits]
      BY <1>0, <2>2 DEF SubmitAcquire, SetSubmit
    <3> QED
      BY <2>2, <3>1, <3>2 DEF SubmitAcquire
  <2>3. CASE SubmitGoFailed(t)
    <3>1. t \in Holders
      BY <2>3 DEF SubmitGoFailed, SetSubmit, Holders, HoldsSlot
    <3>2. slots # 0
      BY <3>1, FS_EmptySet DEF SlotInv
    <3>3. slots' \in Nat
      BY <1>n, <2>3, <3>2 DEF SubmitGoFailed
    <3>4. state' \in [Tasks -> States] /\ submit' \in [Tasks -> Submits]
      BY <1>0, <2>3 DEF SubmitGoFailed, SetSubmit
    <3> QED
      BY <2>3, <3>3, <3>4 DEF SubmitGoFailed
  <2>4. CASE SubmitGoStart(t)
    BY <1>0, <2>4 DEF SubmitGoStart, SetSubmit
  <2>5. CASE SubmitAppend(t)
    BY <1>0, <2>5 DEF SubmitAppend, SetSubmit
  <2>6. CASE SubmitReturn(t)
    BY <1>0, <2>6 DEF SubmitReturn, SetSubmit
  <2> QED
    BY <1>1, <2>1, <2>2, <2>3, <2>4, <2>5, <2>6 DEF Submit
<1>2. ASSUME NEW t \in Tasks, RunEnd(t) PROVE GroupType'
  BY <1>0, <1>2 DEF RunEnd
<1>3. ASSUME NEW t \in Tasks, Release(t) PROVE GroupType'
  <2>1. t \in Holders
    BY <1>3 DEF Release, Holders, HoldsSlot
  <2>2. slots # 0
    BY <2>1, FS_EmptySet DEF SlotInv
  <2>3. slots' \in Nat
    BY <1>n, <1>3, <2>2 DEF Release
  <2>4. release' \in [Tasks -> Releases]
    BY <1>0, <1>3 DEF Release
  <2> QED
    BY <1>3, <2>3, <2>4 DEF Release
<1>4. ASSUME NEW t \in Tasks, StopNext(t) PROVE GroupType'
  BY <1>0, <1>4 DEF StopNext
<1>5. ASSUME NEW t \in Members, MemberReturn(t) PROVE GroupType'
  BY <1>0, <1>5 DEF MemberReturn, CtxEnd
<1>6. ASSUME NEW c \in {"batch", "errgroup"}, CallerCtxEnds(c) PROVE GroupType'
  BY <1>0, <1>6 DEF CallerCtxEnds, CtxEnd
<1>7. CASE StopCopy \/ StopReturn \/ WaitCopy \/ WaitReleases \/ WaitTasks
  <2>1. CASE StopCopy
    BY <2>1 DEF StopCopy, CopyTasks
  <2>2. CASE WaitCopy
    BY <2>2 DEF WaitCopy, CopyTasks
  <2>3. CASE StopReturn \/ WaitTasks
    <3>1. manager' = NoManager
      BY <2>3 DEF StopReturn, WaitTasks
    <3> QED
      BY <2>3, <3>1 DEF StopReturn, WaitTasks, NoManager
  <2>4. CASE WaitReleases
    BY <2>4 DEF WaitReleases
  <2> QED
    BY <1>7, <2>1, <2>2, <2>3, <2>4
<1>8. CASE UNCHANGED vars
  BY <1>8 DEF vars
<1> QED
  BY <1>1, <1>2, <1>3, <1>4, <1>5, <1>6, <1>7, <1>8 DEF Next

\* The run and the releaser of a task keep step with its Submit.
LEMMA PhaseStep == SlotsInv /\ [Next]_vars => PhaseInv'
<1> SUFFICES ASSUME SlotsInv, [Next]_vars, NEW u \in Tasks PROVE PhaseOK(u)'
  BY DEF PhaseInv
<1> USE DEF SlotsInv, GroupType, PhaseInv, PhaseOK, taskVars, stopVars
<1>1. ASSUME NEW t \in Tasks, Submit(t) PROVE PhaseOK(u)'
  <2>1. CASE SubmitCheck(t) \/ SubmitCanceled(t)
    BY <2>1 DEF SubmitCheck, SubmitCanceled, SetSubmit
  <2>2. CASE SubmitAcquire(t) \/ SubmitGoFailed(t)
    BY <2>2 DEF SubmitAcquire, SubmitGoFailed, SetSubmit
  <2>3. CASE SubmitGoStart(t)
    BY <2>3 DEF SubmitGoStart, SetSubmit
  <2>4. CASE SubmitAppend(t)
    BY <2>4 DEF SubmitAppend, SetSubmit
  <2>5. CASE SubmitReturn(t)
    <3>1. submit[t] = "listed" /\ run' = run
      BY <2>5 DEF SubmitReturn, SetSubmit
    <3>2. run[t] # "none"
      BY <3>1
    <3> QED
      BY <2>5 DEF SubmitReturn, SetSubmit
  <2> QED
    BY <1>1, <2>1, <2>2, <2>3, <2>4, <2>5 DEF Submit
<1>2. ASSUME NEW t \in Tasks, RunEnd(t) PROVE PhaseOK(u)'
  BY <1>2 DEF RunEnd
<1>3. ASSUME NEW t \in Tasks, Release(t) PROVE PhaseOK(u)'
  BY <1>3 DEF Release
<1>4. ASSUME UNCHANGED <<run, submit, release, listed>> PROVE PhaseOK(u)'
  BY <1>4
<1>5. \/ \E t \in Tasks : Submit(t) \/ RunEnd(t) \/ Release(t)
      \/ UNCHANGED <<run, submit, release, listed>>
  BY DEF Next, StopNext, MemberReturn, CallerCtxEnds, StopCopy, StopReturn,
         WaitCopy, CopyTasks, WaitReleases, WaitTasks, vars
<1> QED
  BY <1>1, <1>2, <1>3, <1>4, <1>5

----------------------------------------------------------------------------
(* The semaphore. *)

\* No slot changes hands when no Submit and no releaser moves past one.
LEMMA HoldersSame ==
  ASSUME SlotInv, UNCHANGED slots, \A u \in Tasks : HoldsSlot(u)' <=> HoldsSlot(u)
  PROVE  SlotInv'
<1>1. Holders' = Holders
  BY DEF Holders
<1> QED
  BY <1>1 DEF SlotInv

\* AcquireWithContext: one more holder, one more element in the channel.
LEMMA HoldersAdd ==
  ASSUME SlotInv, NEW t \in Tasks, ~HoldsSlot(t), HoldsSlot(t)',
         slots < MaxWorkers, slots' = slots + 1,
         \A u \in Tasks : u # t => (HoldsSlot(u)' <=> HoldsSlot(u))
  PROVE  SlotInv'
<1>1. Holders' = Holders \cup {t} /\ t \notin Holders
  BY DEF Holders
<1>2. IsFiniteSet(Holders') /\ Cardinality(Holders') = Cardinality(Holders) + 1
  BY <1>1, FS_AddElement DEF SlotInv
<1>3. Cardinality(Holders) \in Nat
  BY FS_CardinalityType DEF SlotInv
<1> QED
  BY <1>2, <1>3, GroupAssumption DEF SlotInv

\* Release: one holder less, one element less in the channel.
LEMMA HoldersRemove ==
  ASSUME SlotInv, NEW t \in Tasks, HoldsSlot(t), ~HoldsSlot(t)',
         slots' = slots - 1,
         \A u \in Tasks : u # t => (HoldsSlot(u)' <=> HoldsSlot(u))
  PROVE  SlotInv'
<1>1. Holders' = Holders \ {t} /\ t \in Holders
  BY DEF Holders
<1>2. IsFiniteSet(Holders') /\ Cardinality(Holders') = Cardinality(Holders) - 1
  BY <1>1, FS_RemoveElement DEF SlotInv
<1>3. Cardinality(Holders) \in Nat
  BY FS_CardinalityType DEF SlotInv
<1> QED
  BY <1>2, <1>3, GroupAssumption DEF SlotInv

\* The count of the semaphore and its holders change together in every step.
LEMMA SlotStep == SlotsInv /\ [Next]_vars => SlotInv'
<1> SUFFICES ASSUME SlotsInv, [Next]_vars PROVE SlotInv'
  OBVIOUS
<1>0. SlotInv /\ submit \in [Tasks -> Submits] /\ release \in [Tasks -> Releases]
  BY DEF SlotsInv, GroupType
<1>p. \A t \in Tasks : submit[t] # "submitted" => release[t] = "none"
  BY DEF SlotsInv, PhaseInv, PhaseOK
<1> USE DEF HoldsSlot
<1>1. ASSUME NEW t \in Tasks, Submit(t) PROVE SlotInv'
  <2>1. CASE SubmitCheck(t) \/ SubmitCanceled(t)
    BY <1>0, <2>1, HoldersSame DEF SubmitCheck, SubmitCanceled, SetSubmit
  <2>2. CASE SubmitAcquire(t)
    <3>1. ~HoldsSlot(t) /\ HoldsSlot(t)'
      BY <1>0, <1>p, <2>2 DEF SubmitAcquire, SetSubmit
    <3>2. \A u \in Tasks : u # t => (HoldsSlot(u)' <=> HoldsSlot(u))
      BY <1>0, <2>2 DEF SubmitAcquire, SetSubmit
    <3>3. slots < MaxWorkers /\ slots' = slots + 1
      BY <2>2 DEF SubmitAcquire
    <3> HIDE DEF HoldsSlot
    <3> QED
      BY <1>0, <3>1, <3>2, <3>3, HoldersAdd
  <2>3. CASE SubmitGoFailed(t)
    <3>1. HoldsSlot(t) /\ ~HoldsSlot(t)'
      BY <1>0, <1>p, <2>3 DEF SubmitGoFailed, SetSubmit
    <3>2. \A u \in Tasks : u # t => (HoldsSlot(u)' <=> HoldsSlot(u))
      BY <1>0, <2>3 DEF SubmitGoFailed, SetSubmit
    <3>3. slots' = slots - 1
      BY <2>3 DEF SubmitGoFailed
    <3> HIDE DEF HoldsSlot
    <3> QED
      BY <1>0, <3>1, <3>2, <3>3, HoldersRemove
  <2>4. CASE SubmitGoStart(t) \/ SubmitAppend(t)
    BY <1>0, <2>4, HoldersSame DEF SubmitGoStart, SubmitAppend, SetSubmit
  <2>5. CASE SubmitReturn(t)
    BY <1>0, <2>5, HoldersSame DEF SubmitReturn, SetSubmit
  <2> QED
    BY <1>1, <2>1, <2>2, <2>3, <2>4, <2>5 DEF Submit
<1>2. ASSUME NEW t \in Tasks, Release(t) PROVE SlotInv'
  <2>1. HoldsSlot(t) /\ ~HoldsSlot(t)'
    <3>1. submit[t] = "submitted"
      BY <1>p, <1>2 DEF Release
    <3> QED
      BY <1>0, <1>2, <3>1 DEF Release
  <2>2. \A u \in Tasks : u # t => (HoldsSlot(u)' <=> HoldsSlot(u))
    BY <1>0, <1>2 DEF Release
  <2>3. slots' = slots - 1
    BY <1>2 DEF Release
  <2> HIDE DEF HoldsSlot
  <2> QED
    BY <1>0, <2>1, <2>2, <2>3, HoldersRemove
<1>3. ASSUME UNCHANGED <<slots, submit, release>> PROVE SlotInv'
  BY <1>0, <1>3, HoldersSame
<1>4. \/ \E t \in Tasks : Submit(t) \/ Release(t)
      \/ UNCHANGED <<slots, submit, release>>
  BY DEF Next, RunEnd, StopNext, MemberReturn, CallerCtxEnds, StopCopy,
         StopReturn, WaitCopy, CopyTasks, WaitReleases, WaitTasks, vars
<1> QED
  BY <1>1, <1>2, <1>3, <1>4

\* The types, the phases and the semaphore's count are inductive together.
LEMMA SlotsHold == Spec => []SlotsInv
<1>1. Init => SlotsInv
  BY GroupInit DEF GInv
<1>2. SlotsInv /\ [Next]_vars => SlotsInv'
  BY GroupTypeStep, PhaseStep, SlotStep DEF SlotsInv
<1> QED
  BY <1>1, <1>2, PTL DEF Spec

\* The semaphore bounds the runs: a task in its select holds a slot, and the
\* slots held are at most MaxWorkers, through every failed Submit, early end of
\* a run and late releaser.
THEOREM WorkersBoundedHolds == Spec => []WorkersBounded
<1>1. SlotsInv => WorkersBounded
  <2> SUFFICES ASSUME SlotsInv PROVE WorkersBounded
    OBVIOUS
  <2> DEFINE R == {t \in Tasks : run[t] = "select"}
  <2>1. R \subseteq Holders
    BY DEF SlotsInv, GroupType, PhaseInv, PhaseOK, Holders, HoldsSlot, Submits,
           Releases
  <2>2. IsFiniteSet(R) /\ Cardinality(R) <= Cardinality(Holders)
    BY <2>1, FS_Subset DEF SlotsInv, SlotInv
  <2>3. Cardinality(R) \in Nat /\ Cardinality(Holders) \in Nat
    BY <2>2, FS_CardinalityType DEF SlotsInv, SlotInv
  <2> QED
    BY <2>2, <2>3, GroupAssumption DEF SlotsInv, SlotInv, WorkersBounded
<1> QED
  BY <1>1, SlotsHold, PTL

----------------------------------------------------------------------------
(* Stop, Wait and the errgroup. *)

\* The types of the variables that CallsInv speaks of.
LEMMA CallsType ==
  ASSUME SlotsInv
  PROVE  /\ state \in [Tasks -> States] /\ run \in [Tasks -> Runs]
         /\ submit \in [Tasks -> Submits] /\ release \in [Tasks -> Releases]
         /\ member \in [Members -> {"none", "nil", "error"}]
         /\ listed \subseteq Tasks
         /\ manager.saw \subseteq Tasks /\ manager.rest \subseteq Tasks
         /\ manager \in [pc : {"idle", "Stop", "Wait", "Wait tasks"},
                         saw : SUBSET Tasks, rest : SUBSET Tasks]
         /\ Members \subseteq Tasks
BY DEF SlotsInv, GroupType, Tasks

\* The state of a task in its select is PENDING or STARTED: the run itself
\* stores its end in the step that leaves the select.
LEMMA StateStep == SlotsInv /\ StateInv /\ [Next]_vars => StateInv'
<1> SUFFICES ASSUME SlotsInv, StateInv, [Next]_vars, NEW u \in Tasks,
                    (submit[u] = "go" \/ run[u] = "select")'
             PROVE  IsInProgress(u)'
  BY DEF StateInv
<1>0. /\ state \in [Tasks -> States] /\ run \in [Tasks -> Runs]
      /\ submit \in [Tasks -> Submits]
  BY CallsType
<1> USE DEF StateInv, IsInProgress, taskVars, stopVars
<1>1. ASSUME NEW t \in Tasks, Submit(t) PROVE IsInProgress(u)'
  <2>1. CASE SubmitCheck(t) \/ SubmitCanceled(t) \/ SubmitReturn(t)
    BY <1>0, <2>1 DEF SubmitCheck, SubmitCanceled, SubmitReturn, SetSubmit
  <2>2. CASE SubmitAcquire(t)
    BY <1>0, <2>2 DEF SubmitAcquire, SetSubmit
  <2>3. CASE SubmitGoFailed(t)
    <3>1. run[t] = "none"
      BY <2>3 DEF SubmitGoFailed, SetSubmit, SlotsInv, PhaseInv, PhaseOK
    <3> QED
      BY <1>0, <2>3, <3>1 DEF SubmitGoFailed, SetSubmit
  <2>4. CASE SubmitGoStart(t)
    BY <1>0, <2>4 DEF SubmitGoStart, SetSubmit
  <2>5. CASE SubmitAppend(t)
    BY <1>0, <2>5 DEF SubmitAppend, SetSubmit
  <2> QED
    BY <1>1, <2>1, <2>2, <2>3, <2>4, <2>5 DEF Submit
<1>2. ASSUME NEW t \in Tasks, RunEnd(t) PROVE IsInProgress(u)'
  <2>1. submit[t] # "go"
    BY <1>2 DEF RunEnd, SlotsInv, PhaseInv, PhaseOK
  <2> QED
    BY <1>0, <1>2, <2>1 DEF RunEnd
<1>3. ASSUME UNCHANGED <<state, run, submit>> PROVE IsInProgress(u)'
  BY <1>3
<1>4. \/ \E t \in Tasks : Submit(t) \/ RunEnd(t)
      \/ UNCHANGED <<state, run, submit>>
  BY DEF Next, Release, StopNext, MemberReturn, CallerCtxEnds, StopCopy,
         StopReturn, WaitCopy, CopyTasks, WaitReleases, WaitTasks, vars
<1> QED
  BY <1>1, <1>2, <1>3, <1>4

\* A member that returned was refused or has ended, and both are final.
LEMMA MemberStep == SlotsInv /\ MemberInv /\ [Next]_vars => MemberInv'
<1> SUFFICES ASSUME SlotsInv, MemberInv, [Next]_vars, NEW u \in Members,
                    member'[u] # "none"
             PROVE  (submit[u] = "refused"
                       \/ (submit[u] = "submitted" /\ run[u] = "end"))'
  BY DEF MemberInv
<1> DEFINE Over == submit[u] = "refused"
                     \/ (submit[u] = "submitted" /\ run[u] = "end")
<1>0. /\ run \in [Tasks -> Runs] /\ submit \in [Tasks -> Submits]
      /\ member \in [Members -> {"none", "nil", "error"}]
      /\ u \in Tasks
  BY CallsType
<1> USE DEF taskVars, stopVars
<1>1. ASSUME Over, ~\E t \in Members : MemberReturn(t) PROVE Over'
  <2>1. ASSUME NEW t \in Tasks, Submit(t) PROVE Over'
    BY <1>0, <1>1, <2>1 DEF Submit, SubmitCheck, SubmitAcquire, SubmitCanceled,
         SubmitGoFailed, SubmitGoStart, SubmitAppend, SubmitReturn, SetSubmit
  <2>2. ASSUME NEW t \in Tasks, RunEnd(t) PROVE Over'
    BY <1>0, <1>1, <2>2 DEF RunEnd
  <2>3. ASSUME UNCHANGED <<run, submit>> PROVE Over'
    BY <1>1, <2>3
  <2>4. \/ \E t \in Tasks : Submit(t) \/ RunEnd(t)
        \/ UNCHANGED <<run, submit>>
    BY DEF Next, Release, StopNext, MemberReturn, CallerCtxEnds, StopCopy,
           StopReturn, WaitCopy, CopyTasks, WaitReleases, WaitTasks, vars
  <2> QED
    BY <2>1, <2>2, <2>3, <2>4
<1>2. CASE \E t \in Members : MemberReturn(t)
  BY <1>0, <1>2 DEF MemberReturn, MemberInv
<1>3. CASE ~\E t \in Members : MemberReturn(t)
  <2>1. member' = member
    BY <1>3 DEF Next, Submit, SubmitCheck, SubmitAcquire, SubmitCanceled,
         SubmitGoFailed, SubmitGoStart, SubmitAppend, SubmitReturn, RunEnd,
         Release, StopNext, CallerCtxEnds, StopCopy, StopReturn, WaitCopy,
         CopyTasks, WaitReleases, WaitTasks, vars
  <2>2. Over
    BY <2>1 DEF MemberInv
  <2> QED
    BY <1>1, <1>3, <2>2
<1> QED
  BY <1>2, <1>3

\* Cancellation of a run is final, and Stop cancels what is in progress.
LEMMA StopStep == SlotsInv /\ StateInv /\ StopInv /\ [Next]_vars => StopInv'
<1> SUFFICES ASSUME SlotsInv, StateInv, StopInv, [Next]_vars PROVE StopInv'
  OBVIOUS
<1>0. /\ run \in [Tasks -> Runs] /\ submit \in [Tasks -> Submits]
      /\ manager.saw \subseteq Tasks /\ manager.rest \subseteq Tasks
      /\ manager \in [pc : {"idle", "Stop", "Wait", "Wait tasks"},
                      saw : SUBSET Tasks, rest : SUBSET Tasks]
  BY CallsType
<1>s. \A t \in manager.saw : submit[t] \in {"listed", "submitted"}
  BY <1>0 DEF StopInv, SlotsInv, PhaseInv, PhaseOK
<1> USE DEF taskVars, stopVars
<1>1. ASSUME manager' = manager, canceled \subseteq canceled',
             listed \subseteq listed',
             \A u \in manager.saw : run'[u] = "select" => run[u] = "select"
      PROVE  StopInv'
  BY <1>1 DEF StopInv
<1>2. ASSUME NEW t \in Tasks, Submit(t) PROVE StopInv'
  <2>1. CASE SubmitGoStart(t)
    <3>1. t \notin manager.saw
      BY <1>s, <2>1 DEF SubmitGoStart, SetSubmit
    <3> QED
      BY <1>0, <1>1, <2>1, <3>1 DEF SubmitGoStart
  <2>2. CASE ~SubmitGoStart(t)
    BY <1>1, <1>2, <2>2 DEF Submit, SubmitCheck, SubmitAcquire, SubmitCanceled,
         SubmitGoFailed, SubmitAppend, SubmitReturn
  <2> QED
    BY <2>1, <2>2
<1>3. ASSUME NEW t \in Tasks, RunEnd(t) PROVE StopInv'
  BY <1>0, <1>3 DEF RunEnd, StopInv
<1>4. ASSUME NEW t \in Tasks, Release(t) PROVE StopInv'
  BY <1>1, <1>4 DEF Release
<1>5. ASSUME NEW t \in Tasks, StopNext(t) PROVE StopInv'
  <2>1. /\ manager'.saw = manager.saw /\ manager'.pc = "Stop"
        /\ manager'.rest = manager.rest \ {t}
        /\ UNCHANGED <<run, listed>>
    BY <1>0, <1>5 DEF StopNext
  <2>2. run[t] = "select" => t \in canceled'
    BY <1>5 DEF StopNext, StateInv
  <2>3. canceled \subseteq canceled'
    BY <1>5 DEF StopNext
  <2> QED
    BY <1>5, <2>1, <2>2, <2>3 DEF StopNext, StopInv
<1>6. ASSUME NEW t \in Members, MemberReturn(t) PROVE StopInv'
  <2>1. canceled \subseteq canceled'
    BY <1>6 DEF MemberReturn, CtxEnd
  <2> QED
    BY <1>1, <1>6, <2>1 DEF MemberReturn
<1>7. ASSUME NEW c \in {"batch", "errgroup"}, CallerCtxEnds(c) PROVE StopInv'
  BY <1>1, <1>7 DEF CallerCtxEnds, CtxEnd
<1>8. CASE StopCopy \/ WaitCopy
  BY <1>8 DEF StopCopy, WaitCopy, CopyTasks, StopInv
<1>9. CASE StopReturn \/ WaitTasks
  <2>1. manager' = NoManager
    BY <1>9 DEF StopReturn, WaitTasks
  <2> QED
    BY <2>1 DEF NoManager, StopInv
<1>10. CASE WaitReleases
  BY <1>0, <1>10 DEF WaitReleases, StopInv
<1>11. CASE UNCHANGED vars
  BY <1>11 DEF vars, StopInv
<1> QED
  BY <1>2, <1>3, <1>4, <1>5, <1>6, <1>7, <1>8, <1>9, <1>10, <1>11 DEF Next

\* A Submit that has returned stays returned, and a slot given back stays so.
LEMMA WaitStep == SlotsInv /\ WaitInv /\ [Next]_vars => WaitInv'
<1> SUFFICES ASSUME SlotsInv, WaitInv, [Next]_vars PROVE WaitInv'
  OBVIOUS
<1>0. /\ submit \in [Tasks -> Submits] /\ release \in [Tasks -> Releases]
      /\ manager.rest \subseteq Tasks
      /\ manager \in [pc : {"idle", "Stop", "Wait", "Wait tasks"},
                      saw : SUBSET Tasks, rest : SUBSET Tasks]
  BY CallsType
<1>p. \A t \in Tasks : submit[t] = "submitted" => release[t] \in {"await", "done"}
  BY CallsType DEF SlotsInv, PhaseInv, PhaseOK, Releases
<1> USE DEF taskVars, stopVars
<1>1. ASSUME manager' = manager,
             \A u \in Tasks : submit[u] = "submitted" =>
               submit'[u] = "submitted" /\ (release[u] = "done" => release'[u] = "done")
      PROVE  WaitInv'
  BY <1>0, <1>1 DEF WaitInv
<1>2. ASSUME NEW t \in Tasks, Submit(t) PROVE WaitInv'
  <2>1. /\ manager' = manager
        /\ submit[t] # "submitted"
        /\ submit' = [submit EXCEPT ![t] = submit'[t]]
        /\ release' = release \/ release' = [release EXCEPT ![t] = "await"]
    BY <1>0, <1>2 DEF Submit, SubmitCheck, SubmitAcquire, SubmitCanceled,
         SubmitGoFailed, SubmitGoStart, SubmitAppend, SubmitReturn, SetSubmit
  <2> QED
    BY <1>0, <1>1, <2>1
<1>3. ASSUME NEW t \in Tasks, RunEnd(t) PROVE WaitInv'
  BY <1>1, <1>3 DEF RunEnd
<1>4. ASSUME NEW t \in Tasks, Release(t) PROVE WaitInv'
  BY <1>0, <1>1, <1>4 DEF Release
<1>5. ASSUME NEW t \in Tasks, StopNext(t) PROVE WaitInv'
  BY <1>0, <1>5 DEF StopNext, WaitInv
<1>6. ASSUME NEW t \in Members, MemberReturn(t) PROVE WaitInv'
  BY <1>1, <1>6 DEF MemberReturn
<1>7. ASSUME NEW c \in {"batch", "errgroup"}, CallerCtxEnds(c) PROVE WaitInv'
  BY <1>1, <1>7 DEF CallerCtxEnds
<1>8. CASE StopCopy
  <2>1. manager'.pc = "Stop"
    BY <1>8 DEF StopCopy, CopyTasks
  <2> QED
    BY <2>1 DEF WaitInv
<1>9. CASE WaitCopy
  <2>1. /\ manager'.pc = "Wait" /\ submit' = submit
        /\ manager'.rest = {t \in Tasks : submit[t] = "submitted"}
    BY <1>9 DEF WaitCopy, CopyTasks
  <2> QED
    BY <2>1 DEF WaitInv
<1>r. CASE StopReturn \/ WaitTasks
  <2>1. manager' = NoManager
    BY <1>r DEF StopReturn, WaitTasks
  <2> QED
    BY <2>1 DEF NoManager, WaitInv
<1>10. CASE WaitReleases
  <2>1. /\ manager'.pc = "Wait tasks" /\ manager'.rest = manager.rest
        /\ UNCHANGED <<submit, release>>
        /\ \A t \in manager.rest : submit[t] = "submitted" /\ release[t] # "await"
    BY <1>0, <1>10 DEF WaitReleases, WaitInv
  <2> QED
    BY <1>0, <1>p, <2>1 DEF WaitInv
<1>11. CASE UNCHANGED vars
  BY <1>11 DEF vars, WaitInv
<1> QED
  BY <1>2, <1>3, <1>4, <1>5, <1>6, <1>7, <1>8, <1>9, <1>r, <1>10, <1>11 DEF Next

\* GInv holds in every reachable state.
LEMMA GroupHolds == Spec => []GInv
<1>1. Init => CallsInv
  BY GroupInit DEF GInv
<1>2. SlotsInv /\ CallsInv /\ [Next]_vars => CallsInv'
  BY StateStep, MemberStep, StopStep, WaitStep DEF CallsInv
<1> QED
  BY <1>1, <1>2, SlotsHold, PTL DEF Spec, GInv

\* When SubmitWithErrGroup has returned none of its tasks is in its select: its
\* goroutines wait for the end of what they submitted, whichever of them failed
\* first and canceled the others.
THEOREM ErrGroupOverHolds == Spec => []ErrGroupOver
<1>1. GInv => ErrGroupOver
  <2> SUFFICES ASSUME GInv, NEW t \in Members, member[t] # "none"
               PROVE  run[t] # "select"
    BY DEF ErrGroupOver
  <2>1. t \in Tasks
    BY DEF Tasks
  <2> QED
    BY <2>1 DEF GInv, CallsInv, MemberInv, SlotsInv, PhaseInv, PhaseOK
<1> QED
  BY <1>1, GroupHolds, PTL

\* When Wait returns the tasks it saw listed have ended and those whose Submit
\* had returned have given their slots back, though releaseWg.Wait may have
\* found no releaser started.
THEOREM WaitCompleteHolds == Spec => WaitComplete
<1>1. GInv /\ [Next]_vars
        => [manager.pc = "Wait tasks" /\ manager'.pc = "idle" =>
              /\ \A t \in manager.saw : run[t] = "end"
              /\ \A t \in manager.rest : release[t] = "done"]_vars
  <2> SUFFICES ASSUME GInv, Next, manager.pc = "Wait tasks",
                      manager'.pc = "idle"
               PROVE  /\ \A t \in manager.saw : run[t] = "end"
                      /\ \A t \in manager.rest : release[t] = "done"
    OBVIOUS
  <2>1. manager' # manager
    OBVIOUS
  <2>2. WaitTasks
    BY <2>1 DEF Next, Submit, SubmitCheck, SubmitAcquire, SubmitCanceled,
         SubmitGoFailed, SubmitGoStart, SubmitAppend, SubmitReturn, RunEnd,
         Release, StopNext, MemberReturn, CallerCtxEnds, StopCopy, StopReturn,
         WaitCopy, CopyTasks, WaitReleases, stopVars
  <2> QED
    BY <2>2 DEF WaitTasks, GInv, CallsInv, WaitInv
<1> QED
  BY <1>1, GroupHolds, PTL DEF Spec, WaitComplete

\* When Stop returns the tasks it copied are canceled or have left their select,
\* however Go's late store of STARTED and the stores of the runs interleave with
\* its check of IsInProgress.
THEOREM StopReachesHolds == Spec => StopReaches
<1>1. GInv /\ [Next]_vars
        => [manager.pc = "Stop" /\ manager'.pc = "idle" =>
              \A t \in manager.saw : run[t] = "select" => t \in canceled]_vars
  <2> SUFFICES ASSUME GInv, Next, manager.pc = "Stop", manager'.pc = "idle"
               PROVE  \A t \in manager.saw : run[t] = "select" => t \in canceled
    OBVIOUS
  <2>1. manager' # manager
    OBVIOUS
  <2>2. manager \in [pc : {"idle", "Stop", "Wait", "Wait tasks"},
                     saw : SUBSET Tasks, rest : SUBSET Tasks]
    BY CallsType DEF GInv
  <2>3. StopReturn
    BY <2>1, <2>2 DEF Next, Submit, SubmitCheck, SubmitAcquire, SubmitCanceled,
         SubmitGoFailed, SubmitGoStart, SubmitAppend, SubmitReturn, RunEnd,
         Release, StopNext, MemberReturn, CallerCtxEnds, StopCopy, WaitCopy,
         CopyTasks, WaitReleases, WaitTasks, stopVars
  <2> QED
    BY <2>3 DEF StopReturn, GInv, CallsInv, StopInv
<1> QED
  BY <1>1, GroupHolds, PTL DEF Spec, StopReaches
==============================================================================

------------------------------ MODULE JobContext -----------------------------
(***************************************************************************)
(* The context a handler of the worker pool gets (jobcontext.go): it is     *)
(* done when the pool's context or that of the job's Submit is.             *)
(* newJobContext registers a callback with each parent by                   *)
(* context.AfterFunc, which runs it in a goroutine of its own once the      *)
(* parent is done; the callback that is first sets the error, and each      *)
(* stops its sibling.                                                       *)
(*                                                                         *)
(* The parents are Pool, which all jobs share, and the Submit context of    *)
(* each job, named as the job.                                              *)
(***************************************************************************)
EXTENDS Naturals

CONSTANTS
  Jobs,    \* the jobs
  Pool,    \* the pool's context
  Never,   \* a parent without a deadline has this one
  MaxTime  \* bound of the clock, after every deadline

ASSUME JobContextAssumption ==
  /\ Pool \notin Jobs
  /\ MaxTime \in Nat
  /\ Never \notin Nat

Parents == Jobs \cup {Pool}

VARIABLES
  now,       \* the clock
  deadline,  \* the deadline of each parent
  ended,     \* Err() of each parent, "nil" while it is not done
  build,     \* newJobContext of each job
  callback,  \* the two callbacks of each job
  done,      \* the jobs whose done channel is closed
  err        \* jobContext.err

vars == <<now, deadline, ended, build, callback, done, err>>

Init ==
  /\ now = 0
  /\ deadline \in [Parents -> (1 .. MaxTime) \cup {Never}]
  /\ ended = [p \in Parents |-> "nil"]
  /\ build = [j \in Jobs |-> "none"]
  /\ callback = [j \in Jobs |-> [p \in {Pool, j} |-> "none"]]
  /\ done = {}
  /\ err = [j \in Jobs |-> "nil"]

----------------------------------------------------------------------------
(* The parents: context.WithCancel, context.WithDeadline and AfterFunc. *)

\* A parent ends: the callbacks registered with it are started.
End(p, how) ==
  /\ ended[p] = "nil"
  /\ ended' = [ended EXCEPT ![p] = how]
  /\ callback' = [j \in Jobs |-> [q \in {Pool, j} |->
                    IF q = p /\ callback[j][q] = "registered"
                    THEN "once" ELSE callback[j][q]]]

CancelParent(p) ==
  /\ End(p, "canceled")
  /\ UNCHANGED <<now, deadline, build, done, err>>

DeadlinePasses(p) ==
  /\ deadline[p] # Never
  /\ now >= deadline[p]
  /\ End(p, "deadline")
  /\ UNCHANGED <<now, deadline, build, done, err>>

Tick ==
  /\ now < MaxTime
  /\ now' = now + 1
  /\ UNCHANGED <<deadline, ended, build, callback, done, err>>

\* AfterFunc starts the callback at once when the parent is done already.
AfterFunc(j, p) ==
  callback' = [callback EXCEPT ![j][p] =
                 IF ended[p] = "nil" THEN "registered" ELSE "once"]

----------------------------------------------------------------------------
(* newJobContext holds stopMu from its first registration to its return. *)

RegisterPool(j) ==
  /\ build[j] = "none"
  /\ build' = [build EXCEPT ![j] = "pool"]
  /\ AfterFunc(j, Pool)
  /\ UNCHANGED <<now, deadline, ended, done, err>>

\* Mutant: only the pool's context is watched.
RegisterSubmitNot(j) ==
  /\ build[j] = "pool"
  /\ build' = [build EXCEPT ![j] = "returned"]
  /\ UNCHANGED <<now, deadline, ended, callback, done, err>>

RegisterSubmit(j) ==
  /\ build[j] = "pool"
  /\ build' = [build EXCEPT ![j] = "returned"]
  /\ AfterFunc(j, j)
  /\ UNCHANGED <<now, deadline, ended, done, err>>

Sibling(j, p) == IF p = Pool THEN j ELSE Pool

\* Mutant: no sync.Once: the later callback sets the error again.
CallbackOnceTwice(j, p) ==
  /\ callback[j][p] = "once"
  /\ callback' = [callback EXCEPT ![j][p] = "stop"]
  /\ err' = [err EXCEPT ![j] = ended[p]]
  /\ done' = done \cup {j}
  /\ UNCHANGED <<now, deadline, ended, build>>

\* once.Do: the first callback sets the error and closes done.
CallbackOnce(j, p) ==
  /\ callback[j][p] = "once"
  /\ callback' = [callback EXCEPT ![j][p] = "stop"]
  /\ IF j \in done
     THEN UNCHANGED <<done, err>>
     ELSE /\ err' = [err EXCEPT ![j] = ended[p]]
          /\ done' = done \cup {j}
  /\ UNCHANGED <<now, deadline, ended, build>>

\* Mutant: stopMu is not held by newJobContext: a stop function that is not
\* there yet is not called.
CallbackStopUnlocked(j, p) ==
  /\ callback[j][p] = "stop"
  /\ callback' = [callback EXCEPT ![j][p] = "end",
                    ![j][Sibling(j, p)] =
                      IF @ = "registered" THEN "stopped" ELSE @]
  /\ UNCHANGED <<now, deadline, ended, build, done, err>>

\* stopMu is free: the sibling is stopped unless it has started.
CallbackStop(j, p) ==
  /\ callback[j][p] = "stop"
  /\ build[j] = "returned"
  /\ callback' = [callback EXCEPT ![j][p] = "end",
                    ![j][Sibling(j, p)] =
                      IF @ = "registered" THEN "stopped" ELSE @]
  /\ UNCHANGED <<now, deadline, ended, build, done, err>>

Callback(j, p) == CallbackOnce(j, p) \/ CallbackStop(j, p)

----------------------------------------------------------------------------
(* The methods of the context. *)

Err(j) == IF j \in done THEN err[j] ELSE "nil"

Deadline(j) ==
  LET ok == {deadline[p] : p \in {Pool, j}} \ {Never}
  IN  IF ok = {} THEN Never ELSE CHOOSE d \in ok : \A e \in ok : d <= e

\* Of a key's values in the two parents, either of which may be nil.
Value(poolVal, submitVal, nil) ==
  CASE poolVal = submitVal -> submitVal
    [] poolVal # submitVal /\ poolVal = nil -> submitVal
    [] poolVal # submitVal /\ submitVal = nil -> poolVal
    [] OTHER -> submitVal

----------------------------------------------------------------------------
Next ==
  \/ Tick
  \/ \E p \in Parents : CancelParent(p) \/ DeadlinePasses(p)
  \/ \E j \in Jobs : RegisterPool(j) \/ RegisterSubmit(j)
  \/ \E j \in Jobs : \E p \in {Pool, j} : Callback(j, p)

Spec == Init /\ [][Next]_vars

\* newJobContext and the goroutines of the callbacks are scheduled, and a
\* context whose deadline has passed ends; nobody has to cancel one.
Fairness ==
  /\ WF_vars(Tick)
  /\ \A p \in Parents : WF_vars(DeadlinePasses(p))
  /\ \A j \in Jobs : WF_vars(RegisterSubmit(j))
  /\ \A j \in Jobs : \A p \in {Pool, j} : WF_vars(Callback(j, p))

FairSpec == Spec /\ Fairness

----------------------------------------------------------------------------
(* Properties. *)

\* Err() of a job's context is that of a parent which is done, never changes
\* once it is set, and is a deadline only when Deadline() promised one by now.
ErrExplained ==
  [][\A j \in Jobs :
       /\ Err(j) # "nil" => Err(j)' = Err(j)
       /\ Err(j)' # "nil" => \E p \in {Pool, j} : Err(j)' = ended'[p]
       /\ Err(j)' = "deadline" => Deadline(j) # Never /\ Deadline(j) <= now]_vars

\* A job's context is done, at the latest, when Deadline() says, and whenever a
\* parent is done, the one that was done before newJobContext included.
FollowsParents ==
  \A j \in Jobs :
    (/\ build[j] = "returned"
     /\ \/ ended[Pool] # "nil" \/ ended[j] # "nil"
        \/ Deadline(j) # Never)
    ~> j \in done

\* Once a parent is done the job's callback with the other, a pool that goes on
\* for long maybe, does not stay registered.
SiblingReleased ==
  \A j \in Jobs :
    j \in done ~>
      \A p \in {Pool, j} : callback[j][p] \notin {"none", "registered"}
==============================================================================

--------------------------- MODULE JobContextProofs --------------------------
(***************************************************************************)
(* The error of a job's context, for any set of jobs, any deadlines and any  *)
(* order of the callbacks.                                                  *)
(***************************************************************************)
EXTENDS JobContext, TLAPS

Errors == {"nil", "canceled", "deadline"}

CallbackState == {"none", "registered", "once", "stop", "end", "stopped"}

ContextType ==
  /\ now \in Nat
  /\ deadline \in [Parents -> Nat \cup {Never}]
  /\ ended \in [Parents -> Errors]
  /\ DOMAIN callback = Jobs
  /\ \A j \in Jobs : callback[j] \in [{Pool, j} -> CallbackState]
  /\ done \subseteq Jobs
  /\ err \in [Jobs -> Errors]

\* A parent that ended by its deadline had one, and it has passed.
DueInv ==
  \A p \in Parents :
    ended[p] = "deadline" => deadline[p] \in Nat /\ deadline[p] <= now

\* A callback that runs was started by the end of its parent.
StartedInv ==
  \A j \in Jobs : \A p \in {Pool, j} :
    callback[j][p] = "once" => ended[p] # "nil"

\* The error of a context that is done is that of a parent that ended.
CauseInv ==
  \A j \in done : \E p \in {Pool, j} : err[j] = ended[p] /\ ended[p] # "nil"

ContextInv == ContextType /\ DueInv /\ StartedInv /\ CauseInv


----------------------------------------------------------------------------
\* Deadline() is the earlier of the deadlines there are.
LEMMA DeadlineFacts ==
  ASSUME ContextType, NEW j \in Jobs, NEW p \in {Pool, j}, deadline[p] \in Nat
  PROVE  Deadline(j) \in Nat /\ Deadline(j) <= deadline[p]
<1>1. PICK ok : ok = {deadline[q] : q \in {Pool, j}} \ {Never}
  OBVIOUS
<1>2. Deadline(j) = IF ok = {} THEN Never
                    ELSE CHOOSE c \in ok : \A e \in ok : c <= e
  BY <1>1 DEF Deadline
<1>3. deadline[Pool] \in Nat \cup {Never} /\ deadline[j] \in Nat \cup {Never}
  BY DEF ContextType, Parents
<1>4. ok \subseteq Nat /\ deadline[p] \in ok
  BY <1>1, <1>3, JobContextAssumption
<1>5. \A e \in ok : e = deadline[Pool] \/ e = deadline[j]
  BY <1>1
<1>6. \E c \in ok : \A e \in ok : c <= e
  <2>1. CASE deadline[Pool] \in ok /\ deadline[j] \in ok
    <3>1. CASE deadline[Pool] <= deadline[j]
      BY <1>4, <1>5, <2>1, <3>1
    <3>2. CASE ~(deadline[Pool] <= deadline[j])
      BY <1>4, <1>5, <2>1, <3>2
    <3>3. QED  BY <3>1, <3>2
  <2>2. CASE ~(deadline[Pool] \in ok /\ deadline[j] \in ok)
    BY <1>4, <1>5, <2>2
  <2>3. QED  BY <2>1, <2>2
<1>7. PICK d : d = CHOOSE c \in ok : \A e \in ok : c <= e
  OBVIOUS
<1>8. d \in ok /\ \A e \in ok : d <= e
  BY <1>6, <1>7
<1>9. Deadline(j) = d
  BY <1>2, <1>4, <1>7
<1>10. QED  BY <1>4, <1>8, <1>9

LEMMA ContextInit == Init => ContextInv
<1>1. SUFFICES ASSUME Init PROVE ContextInv
  OBVIOUS
<1>2. ContextType
  BY <1>1, JobContextAssumption
     DEF Init, ContextType, Errors, CallbackState, Parents
<1>3. DueInv
  BY <1>1 DEF Init, DueInv
<1>4. StartedInv
  BY <1>1 DEF Init, StartedInv
<1>5. CauseInv
  BY <1>1 DEF Init, CauseInv
<1>6. QED  BY <1>2, <1>3, <1>4, <1>5 DEF ContextInv

----------------------------------------------------------------------------
\* The end of a parent: no error is taken back and every callback that is
\* started has its reason.
LEMMA EndStep ==
  ASSUME ContextInv, NEW p \in Parents, NEW how \in {"canceled", "deadline"},
         End(p, how), how = "deadline" => deadline[p] \in Nat /\ deadline[p] <= now,
         UNCHANGED <<now, deadline, build, done, err>>
  PROVE  ContextInv'
<1>1. ended' \in [Parents -> Errors] /\ ended'[p] = how
      /\ \A q \in Parents \ {p} : ended'[q] = ended[q]
  BY DEF End, ContextInv, ContextType, Errors
<1>2. \A q \in Parents : ended[q] # "nil" => ended'[q] = ended[q]
  BY <1>1 DEF End
<1>3. \A j \in Jobs : \A q \in {Pool, j} :
        callback'[j][q] = IF q = p /\ callback[j][q] = "registered"
                          THEN "once" ELSE callback[j][q]
  BY DEF End
<1>4. ContextType'
  <2>1. DOMAIN callback' = Jobs
    BY DEF End
  <2>2. ASSUME NEW j \in Jobs
        PROVE  callback'[j] \in [{Pool, j} -> CallbackState]
    BY DEF End, ContextInv, ContextType, CallbackState
  <2>3. QED  BY <1>1, <2>1, <2>2 DEF ContextInv, ContextType
<1>5. DueInv'
  BY <1>1 DEF ContextInv, DueInv
<1>6. StartedInv'
  <2>1. SUFFICES ASSUME NEW j \in Jobs, NEW q \in {Pool, j},
                        callback'[j][q] = "once"
                 PROVE  ended'[q] # "nil"
    BY DEF StartedInv
  <2>2. q \in Parents
    BY DEF Parents
  <2>3. CASE q = p
    BY <1>1, <2>3
  <2>4. CASE q # p
    BY <1>1, <1>3, <2>1, <2>2, <2>4 DEF ContextInv, StartedInv
  <2>5. QED  BY <2>3, <2>4
<1>7. CauseInv'
  <2>1. SUFFICES ASSUME NEW j \in done
                 PROVE  \E q \in {Pool, j} : err[j] = ended'[q] /\ ended'[q] # "nil"
    BY DEF CauseInv
  <2>2. PICK q \in {Pool, j} : err[j] = ended[q] /\ ended[q] # "nil"
    BY DEF ContextInv, CauseInv
  <2>3. q \in Parents
    BY DEF ContextInv, ContextType, Parents
  <2>4. QED  BY <1>2, <2>2, <2>3
<1>8. QED  BY <1>4, <1>5, <1>6, <1>7 DEF ContextInv

\* AfterFunc: a callback that starts at once has a parent that is done.
LEMMA RegisterStep ==
  ASSUME ContextInv, NEW j \in Jobs, NEW p \in {Pool, j}, AfterFunc(j, p),
         UNCHANGED <<now, deadline, ended, done, err>>
  PROVE  ContextInv'
<1>1. DOMAIN callback' = Jobs
      /\ \A k \in Jobs : callback'[k] \in [{Pool, k} -> CallbackState]
  BY DEF ContextInv, ContextType, AfterFunc, CallbackState
<1>2. ContextType'
  BY <1>1 DEF ContextInv, ContextType
<1>3. DueInv' /\ CauseInv'
  BY DEF ContextInv, DueInv, CauseInv
<1>4. StartedInv'
  <2>1. SUFFICES ASSUME NEW k \in Jobs, NEW q \in {Pool, k},
                        callback'[k][q] = "once"
                 PROVE  ended[q] # "nil"
    BY DEF StartedInv
  <2>2. CASE k = j /\ q = p
    BY <2>1, <2>2 DEF ContextInv, ContextType, AfterFunc
  <2>3. CASE ~(k = j /\ q = p)
    <3>1. callback'[k][q] = callback[k][q]
      BY <2>3 DEF ContextInv, ContextType, AfterFunc
    <3>2. QED  BY <2>1, <3>1 DEF ContextInv, StartedInv
  <2>4. QED  BY <2>2, <2>3
<1>5. QED  BY <1>2, <1>3, <1>4 DEF ContextInv

\* once.Do: the callback that is first takes the error of its parent.
LEMMA OnceStep ==
  ASSUME ContextInv, NEW j \in Jobs, NEW p \in {Pool, j}, CallbackOnce(j, p)
  PROVE  /\ ContextInv'
         /\ \A k \in done : k \in done' /\ err'[k] = err[k]
<1>1. ended[p] # "nil" /\ p \in Parents
  BY DEF ContextInv, StartedInv, CallbackOnce, Parents
<1>2. DOMAIN callback' = Jobs
      /\ \A k \in Jobs : callback'[k] \in [{Pool, k} -> CallbackState]
  BY DEF ContextInv, ContextType, CallbackOnce, CallbackState
<1>3. err' \in [Jobs -> Errors] /\ done' \subseteq Jobs
  BY <1>1 DEF ContextInv, ContextType, CallbackOnce
<1>4. ContextType'
  BY <1>2, <1>3 DEF ContextInv, ContextType, CallbackOnce
<1>5. DueInv'
  BY DEF ContextInv, DueInv, CallbackOnce
<1>6. StartedInv'
  <2>1. SUFFICES ASSUME NEW k \in Jobs, NEW q \in {Pool, k},
                        callback'[k][q] = "once"
                 PROVE  ended[q] # "nil"
    BY DEF StartedInv, CallbackOnce
  <2>2. callback[k][q] = "once"
    BY <2>1 DEF ContextInv, ContextType, CallbackOnce
  <2>3. QED  BY <2>2 DEF ContextInv, StartedInv
<1>7. \A k \in done : k \in done' /\ err'[k] = err[k]
  BY DEF ContextInv, ContextType, CallbackOnce
<1>8. CauseInv'
  <2>1. SUFFICES ASSUME NEW k \in done'
                 PROVE  \E q \in {Pool, k} : err'[k] = ended[q] /\ ended[q] # "nil"
    BY DEF CauseInv, CallbackOnce
  <2>2. CASE k \in done
    BY <1>7, <2>2 DEF ContextInv, CauseInv
  <2>3. CASE k \notin done
    <3>1. k = j /\ err'[k] = ended[p]
      BY <2>1, <2>3 DEF ContextInv, ContextType, CallbackOnce
    <3>2. QED  BY <1>1, <3>1
  <2>4. QED  BY <2>2, <2>3
<1>9. QED  BY <1>4, <1>5, <1>6, <1>7, <1>8 DEF ContextInv

\* The callback stops its sibling, which does not start one.
LEMMA StopStep ==
  ASSUME ContextInv, NEW j \in Jobs, NEW p \in {Pool, j}, CallbackStop(j, p)
  PROVE  ContextInv'
<1>1. Sibling(j, p) \in {Pool, j} /\ Sibling(j, p) # p
  BY JobContextAssumption DEF Sibling
<1>2. PICK s : s = Sibling(j, p)
  OBVIOUS
<1>3. callback' = [callback EXCEPT ![j] =
                     [[callback[j] EXCEPT ![p] = "end"] EXCEPT ![s] =
                        IF callback[j][s] = "registered" THEN "stopped"
                        ELSE callback[j][s]]]
  BY <1>1, <1>2 DEF CallbackStop, ContextInv, ContextType
<1>4. DOMAIN callback' = Jobs
      /\ \A k \in Jobs : callback'[k] \in [{Pool, k} -> CallbackState]
  <2>1. DOMAIN callback' = Jobs
        /\ \A k \in Jobs \ {j} : callback'[k] = callback[k]
    BY <1>3 DEF ContextInv, ContextType
  <2>2. PICK f : f = [callback[j] EXCEPT ![p] = "end"]
    OBVIOUS
  <2>3. f \in [{Pool, j} -> CallbackState]
    BY <2>2 DEF ContextInv, ContextType, CallbackState
  <2>4. PICK v : v = IF callback[j][s] = "registered" THEN "stopped"
                     ELSE callback[j][s]
    OBVIOUS
  <2>5. v \in CallbackState
    BY <1>1, <1>2, <2>4 DEF ContextInv, ContextType, CallbackState
  <2>6. callback'[j] = [f EXCEPT ![s] = v]
    BY <1>3, <2>2, <2>4 DEF ContextInv, ContextType
  <2>7. callback'[j] \in [{Pool, j} -> CallbackState]
    BY <1>1, <1>2, <2>3, <2>5, <2>6
  <2>8. QED  BY <2>1, <2>7 DEF ContextInv, ContextType
<1>5. ContextType' /\ DueInv' /\ CauseInv'
  BY <1>4 DEF ContextInv, ContextType, DueInv, CauseInv, CallbackStop
<1>6. StartedInv'
  <2>1. SUFFICES ASSUME NEW k \in Jobs, NEW q \in {Pool, k},
                        callback'[k][q] = "once"
                 PROVE  ended[q] # "nil"
    BY DEF StartedInv, CallbackStop
  <2>2. callback[k][q] = "once"
    BY <1>1, <1>2, <1>3, <2>1 DEF ContextInv, ContextType
  <2>3. QED  BY <2>2 DEF ContextInv, StartedInv
<1>7. QED  BY <1>5, <1>6 DEF ContextInv

\* Every step keeps the invariant and the error of a context that is done.
LEMMA ContextStep ==
  ContextInv /\ [Next]_vars
    => ContextInv' /\ \A k \in done : k \in done' /\ err'[k] = err[k]
<1>1. SUFFICES ASSUME ContextInv, [Next]_vars
               PROVE  ContextInv' /\ \A k \in done : k \in done' /\ err'[k] = err[k]
  OBVIOUS
<1>2. CASE Tick
  <2>1. now' \in Nat /\ now <= now'
    BY <1>1, <1>2 DEF Tick, ContextInv, ContextType
  <2>2. DueInv'
    BY <1>1, <1>2, <2>1 DEF Tick, ContextInv, ContextType, DueInv
  <2>3. QED
    BY <1>1, <1>2, <2>1, <2>2
       DEF Tick, ContextInv, ContextType, StartedInv, CauseInv
<1>3. ASSUME NEW p \in Parents, CancelParent(p)
      PROVE  ContextInv' /\ done' = done /\ err' = err
  BY <1>1, <1>3, EndStep DEF CancelParent
<1>4. ASSUME NEW p \in Parents, DeadlinePasses(p)
      PROVE  ContextInv' /\ done' = done /\ err' = err
  <2>1. deadline[p] \in Nat /\ now \in Nat
    BY <1>1, <1>4 DEF DeadlinePasses, ContextInv, ContextType
  <2>2. deadline[p] <= now
    BY <1>4, <2>1 DEF DeadlinePasses
  <2>3. QED  BY <1>1, <1>4, <2>1, <2>2, EndStep DEF DeadlinePasses
<1>5. ASSUME NEW j \in Jobs, RegisterPool(j) \/ RegisterSubmit(j)
      PROVE  ContextInv' /\ done' = done /\ err' = err
  BY <1>1, <1>5, RegisterStep DEF RegisterPool, RegisterSubmit
<1>6. ASSUME NEW j \in Jobs, NEW p \in {Pool, j}, CallbackStop(j, p)
      PROVE  ContextInv' /\ done' = done /\ err' = err
  BY <1>1, <1>6, StopStep DEF CallbackStop
<1>7. CASE UNCHANGED vars
  BY <1>1, <1>7 DEF vars, ContextInv, ContextType, DueInv, StartedInv, CauseInv
<1>8. QED
  BY <1>1, <1>2, <1>3, <1>4, <1>5, <1>6, <1>7, OnceStep DEF Next, Callback

----------------------------------------------------------------------------
\* Err() of a job's context, once the callbacks, the deadlines and the cancels
\* of both parents race: it is set once, it is the error of a parent that is
\* done, and a deadline is reported only after the one Deadline() returns.
THEOREM ErrExplainedHolds == Spec => ErrExplained
<1>1. Init => ContextInv
  BY ContextInit
<1>2. ContextInv /\ [Next]_vars => ContextInv'
  BY ContextStep
<1>3. ContextInv /\ ContextInv' /\ [Next]_vars
        => [\A j \in Jobs :
              /\ Err(j) # "nil" => Err(j)' = Err(j)
              /\ Err(j)' # "nil" => \E p \in {Pool, j} : Err(j)' = ended'[p]
              /\ Err(j)' = "deadline" => Deadline(j) # Never /\ Deadline(j) <= now]_vars
  <2>1. SUFFICES ASSUME ContextInv, ContextInv', Next, NEW j \in Jobs
                 PROVE  /\ Err(j) # "nil" => Err(j)' = Err(j)
                        /\ Err(j)' # "nil" => \E p \in {Pool, j} : Err(j)' = ended'[p]
                        /\ Err(j)' = "deadline"
                             => Deadline(j) # Never /\ Deadline(j) <= now
    OBVIOUS
  <2>2. \A k \in done : k \in done' /\ err'[k] = err[k]
    BY <2>1, ContextStep
  <2>3. Err(j) # "nil" => Err(j)' = Err(j)
    BY <2>2 DEF Err
  <2>4. Err(j)' # "nil" => \E p \in {Pool, j} : Err(j)' = ended'[p]
    BY <2>1 DEF Err, ContextInv, CauseInv
  <2>5. ASSUME Err(j)' = "deadline"
        PROVE  \E p \in {Pool, j} : ended[p] = "deadline"
    <3>1. j \in done' /\ err'[j] = "deadline"
      BY <2>5 DEF Err
    <3>2. CASE j \in done
      BY <2>1, <2>2, <3>1, <3>2 DEF ContextInv, CauseInv
    <3>3. CASE j \notin done
      <4>1. PICK p \in {Pool, j} : CallbackOnce(j, p)
        BY <2>1, <3>1, <3>3
           DEF Next, Tick, CancelParent, DeadlinePasses, RegisterPool,
               RegisterSubmit, Callback, CallbackStop, CallbackOnce
      <4>2. err'[j] = ended[p]
        BY <2>1, <3>3, <4>1 DEF CallbackOnce, ContextInv, ContextType
      <4>3. QED  BY <3>1, <4>2
    <3>4. QED  BY <3>2, <3>3
  <2>6. ASSUME Err(j)' = "deadline"
        PROVE  Deadline(j) # Never /\ Deadline(j) <= now
    <3>1. PICK p \in {Pool, j} : ended[p] = "deadline"
      BY <2>5, <2>6
    <3>2. p \in Parents
      BY DEF Parents
    <3>3. deadline[p] \in Nat /\ deadline[p] <= now /\ now \in Nat
      BY <2>1, <3>1, <3>2 DEF ContextInv, ContextType, DueInv
    <3>4. ContextType
      BY <2>1 DEF ContextInv
    <3>5. Deadline(j) \in Nat /\ Deadline(j) <= deadline[p]
      BY <3>3, <3>4, DeadlineFacts
    <3>6. QED  BY <3>3, <3>5, JobContextAssumption
  <2>7. QED  BY <2>3, <2>4, <2>6
<1>4. QED  BY <1>1, <1>2, <1>3, PTL DEF Spec, ErrExplained
==============================================================================

------------------------------ MODULE TaskProofs ------------------------------
(***************************************************************************)
(* Machine-checked safety of Task, for every set of tasks and contexts,     *)
(* every retry option and every number of runs.                             *)
(***************************************************************************)
EXTENDS Task, SequenceTheorems, TLAPS

----------------------------------------------------------------------------
(* Types. *)

States == {"CREATED", "PENDING", "STARTED", "CANCELED", "FAILED", "DONE"}
Outs   == {"CANCELED", "FAILED", "DONE"}
Ends   == {"live", "canceled", "deadline"}

RunState == [pc : {"select", "store", "stored", "end"}, out : Outs \cup {"none"}, ctx : Ends,
             fn : {"spawned", "running", "send", "left", "end"},
             res : {"none", "nil", "error", "canceled"}, cancel : Nat]

\* What GoRetry may wait between two runs.
Delays == {0, RetryDelay} \cup
            UNION {Delay(s, j, a) : s \in {"linear", "exponential"},
                                    j \in BOOLEAN, a \in Nat}

CallState == [pc : {"idle", "go", "delay", "spawned", "attempt", "await", "backoff"},
              retry : BOOLEAN, tries : Nat, delay : Delays,
              ret : {"none", "nil", "ErrTaskInProgress", "ErrCancelledTask",
                     "ErrMaxRetriesNotSet", "ErrMaxRetriesExceeded"}]

TaskType ==
  /\ def \in [Tasks -> Defs]
  /\ state \in [Tasks -> States]
  /\ attempts \in [Tasks -> Nat]
  /\ err \in [Tasks -> BOOLEAN]
  /\ cancel \in [Tasks -> Nat]
  /\ runs \in [Tasks -> Seq(RunState)]
  /\ call \in [Tasks -> CallState]
  /\ ctx \in [Ctxs -> Ends]

----------------------------------------------------------------------------
(* The inductive invariant, one task at a time. *)

\* A run has no outcome while it is in its select, and its error is stored
\* before wg.Done is called.
RunInv(t) ==
  \A k \in DOMAIN runs[t] :
    /\ runs[t][k].pc = "select" <=> runs[t][k].out = "none"
    /\ runs[t][k].pc \in {"stored", "end"} /\ runs[t][k].out # "DONE" => err[t]

\* A run in its select shows in the state s of its task, and Go, whose caller is
\* at pc, starts a run only when there is none.
SelectOK(t, pc, s) ==
  def[t].maxRetries > 0 =>
    /\ \A j, k \in Running(t) : j = k
    /\ Running(t) # {} => s \in {"PENDING", "STARTED"}
    /\ pc \in {"delay", "backoff"} => Running(t) = {}
    /\ pc = "delay" => s = "PENDING"

SelectInv(t) == SelectOK(t, call[t].pc, state[t])

\* The runs of t from the a-th to the b-th last one failed.
Failed(t, a, b) == \A n \in a .. b : runs[t][Len(runs[t]) - n].out = "FAILED"

\* The call c with the state s and a attempts of its task: a GoRetry goes on only
\* below maxRetries and after runs that failed, and while it waits for the last
\* run only that one can store a state.
BudgetOK(t, c, s, a) ==
  LET n == Len(runs[t])
  IN  /\ c.pc \in {"attempt", "backoff", "await"} => c.retry
      /\ c.pc # "idle" => c.ret = "none"
      /\ ~c.retry => c.tries = 0
      /\ c.tries <= def[t].maxRetries /\ c.tries <= n
      /\ c.retry /\ c.pc \in {"attempt", "backoff", "go", "delay", "spawned"} =>
           c.tries <= a
      /\ c.retry /\ c.pc \in {"go", "delay", "spawned", "await"} =>
           a < def[t].maxRetries
      /\ c.retry /\ c.pc \in {"attempt", "backoff", "go", "delay"} =>
           Failed(t, 0, c.tries - 1)
      /\ c.ret = "ErrMaxRetriesExceeded" => Failed(t, 0, c.tries - 1)
      /\ c.retry /\ c.pc = "spawned" =>
           c.tries < n /\ Failed(t, 1, c.tries) /\ Running(t) \subseteq {n}
      /\ c.pc = "await" =>
           /\ c.tries >= 1 /\ c.tries <= a + 1
           /\ Failed(t, 1, c.tries - 1) /\ Running(t) \subseteq {n}
           /\ s = "STARTED" \/ s = runs[t][n].out

BudgetInv(t) == BudgetOK(t, call[t], state[t], attempts[t])

TaskInv == TaskType /\ \A t \in Tasks : RunInv(t) /\ SelectInv(t) /\ BudgetInv(t)

----------------------------------------------------------------------------
(* Steps that leave a task as it is. *)

\* The runs of t are where they were: contexts and functions may have moved.
SameRuns(t) ==
  /\ Len(runs'[t]) = Len(runs[t]) /\ DOMAIN runs'[t] = DOMAIN runs[t]
  /\ \A k \in DOMAIN runs[t] :
       runs'[t][k].pc = runs[t][k].pc /\ runs'[t][k].out = runs[t][k].out

Same(t) ==
  /\ def'[t] = def[t] /\ state'[t] = state[t] /\ attempts'[t] = attempts[t]
  /\ err'[t] = err[t] /\ call'[t] = call[t] /\ SameRuns(t)

\* What the types say of one task.
LEMMA TypeFacts ==
  ASSUME TaskType, NEW t \in Tasks
  PROVE  /\ def[t].maxRetries \in Nat /\ state[t] \in States /\ attempts[t] \in Nat
         /\ err[t] \in BOOLEAN /\ call[t] \in CallState /\ call[t].tries \in Nat
         /\ runs[t] \in Seq(RunState) /\ Len(runs[t]) \in Nat
         /\ DOMAIN runs[t] = 1 .. Len(runs[t])
         /\ \A k \in DOMAIN runs[t] : runs[t][k] \in RunState
<1>1. def[t] \in Definitions
  BY TaskAssumption DEF TaskType
<1>2. runs[t] \in Seq(RunState)
  BY DEF TaskType
<1>3. /\ Len(runs[t]) \in Nat /\ DOMAIN runs[t] = 1 .. Len(runs[t])
      /\ \A k \in DOMAIN runs[t] : runs[t][k] \in RunState
  BY <1>2, LenProperties, ElementOfSeq
<1> QED
  BY <1>1, <1>2, <1>3 DEF TaskType, Definitions, CallState

\* The runs that failed are still there.
LEMMA FailedKept ==
  ASSUME TaskType, NEW t \in Tasks, NEW a \in Nat, NEW b \in Int, b < Len(runs[t]),
         Len(runs'[t]) = Len(runs[t]),
         \A k \in DOMAIN runs[t] : runs[t][k].out = "FAILED" => runs'[t][k].out = "FAILED",
         Failed(t, a, b)
  PROVE  \A n \in a .. b : runs'[t][Len(runs'[t]) - n].out = "FAILED"
<1> SUFFICES ASSUME NEW n \in a .. b
             PROVE  runs'[t][Len(runs[t]) - n].out = "FAILED"
  OBVIOUS
<1>1. Len(runs[t]) \in Nat /\ DOMAIN runs[t] = 1 .. Len(runs[t])
  BY TypeFacts
<1>2. Len(runs[t]) - n \in DOMAIN runs[t]
  BY <1>1
<1> QED
  BY <1>2 DEF Failed

\* A task that a step leaves as it is keeps its invariant.
LEMMA SameKept ==
  ASSUME TaskType, NEW t \in Tasks, RunInv(t), SelectInv(t), BudgetInv(t), Same(t)
  PROVE  RunInv(t)' /\ SelectInv(t)' /\ BudgetInv(t)'
<1>f. /\ call[t].tries \in Nat /\ Len(runs[t]) \in Nat
      /\ DOMAIN runs[t] = 1 .. Len(runs[t])
  BY TypeFacts
<1>1. RunInv(t)'
  BY DEF RunInv, Same, SameRuns
<1>2. Running(t)' = Running(t)
  BY DEF Running, Same, SameRuns
<1>3. SelectInv(t)'
  BY <1>2 DEF SelectInv, SelectOK, Same
<1>4. \A a \in Nat, b \in Int :
        b < Len(runs[t]) /\ Failed(t, a, b) =>
          \A n \in a .. b : runs'[t][Len(runs'[t]) - n].out = "FAILED"
  BY FailedKept DEF Same, SameRuns
<1>5. /\ Failed(t, 0, call[t].tries - 1) /\ call[t].tries <= Len(runs[t]) =>
           Failed(t, 0, call[t].tries - 1)'
      /\ Failed(t, 1, call[t].tries) /\ call[t].tries < Len(runs[t]) =>
           Failed(t, 1, call[t].tries)'
      /\ Failed(t, 1, call[t].tries - 1) /\ call[t].tries <= Len(runs[t]) =>
           Failed(t, 1, call[t].tries - 1)'
  <2>1. /\ call[t].tries \in Int /\ call[t].tries - 1 \in Int
        /\ call'[t].tries = call[t].tries
    BY <1>f DEF Same
  <2>2. call[t].tries <= Len(runs[t]) => call[t].tries - 1 < Len(runs[t])
    BY <1>f
  <2>3. ASSUME Failed(t, 0, call[t].tries - 1), call[t].tries <= Len(runs[t])
        PROVE  Failed(t, 0, call[t].tries - 1)'
    <3>1. \A n \in 0 .. call[t].tries - 1 : runs'[t][Len(runs'[t]) - n].out = "FAILED"
      BY <1>4, <2>1, <2>2, <2>3
    <3> QED
      BY <2>1, <3>1 DEF Failed
  <2>4. ASSUME Failed(t, 1, call[t].tries), call[t].tries < Len(runs[t])
        PROVE  Failed(t, 1, call[t].tries)'
    <3>1. \A n \in 1 .. call[t].tries : runs'[t][Len(runs'[t]) - n].out = "FAILED"
      BY <1>4, <2>1, <2>4
    <3> QED
      BY <2>1, <3>1 DEF Failed
  <2>5. ASSUME Failed(t, 1, call[t].tries - 1), call[t].tries <= Len(runs[t])
        PROVE  Failed(t, 1, call[t].tries - 1)'
    <3>1. \A n \in 1 .. call[t].tries - 1 : runs'[t][Len(runs'[t]) - n].out = "FAILED"
      BY <1>4, <2>1, <2>2, <2>5
    <3> QED
      BY <2>1, <3>1 DEF Failed
  <2> QED
    BY <2>3, <2>4, <2>5
<1>6. call[t].pc = "await" => runs'[t][Len(runs'[t])].out = runs[t][Len(runs[t])].out
  <2> SUFFICES ASSUME call[t].pc = "await"
               PROVE  runs'[t][Len(runs'[t])].out = runs[t][Len(runs[t])].out
    OBVIOUS
  <2>1. Len(runs[t]) \in DOMAIN runs[t]
    BY <1>f DEF BudgetInv, BudgetOK
  <2> QED
    BY <2>1 DEF Same, SameRuns
<1>7. BudgetInv(t)'
  BY <1>2, <1>5, <1>6 DEF BudgetInv, BudgetOK, Same, SameRuns
<1> QED
  BY <1>1, <1>3, <1>7

\* A step of one task.
LEMMA OneTask ==
  ASSUME TaskInv, TaskType', NEW t \in Tasks, \A u \in Tasks : u # t => Same(u),
         RunInv(t)', SelectInv(t)', BudgetInv(t)'
  PROVE  TaskInv'
BY SameKept DEF TaskInv

\* A step that moves no run and no call.
LEMMA AllSame ==
  ASSUME TaskInv, TaskType', \A u \in Tasks : Same(u)
  PROVE  TaskInv'
BY SameKept DEF TaskInv

----------------------------------------------------------------------------
(* The caller of a task. *)

\* The caller of a task that was not run yet.
LEMMA NoCallType ==
  /\ NoCall \in CallState /\ ~NoCall.retry /\ NoCall.tries = 0 /\ NoCall.pc = "idle"
  /\ NoCall.ret = "none"
<1>1. 0 \in Delays
  BY DEF Delays
<1> QED
  BY <1>1 DEF NoCall, CallState

\* A step of the caller that starts no run.
LEMMA CallerMoves ==
  ASSUME TaskInv, NEW t \in Tasks, UNCHANGED <<def, runs, err, cancel, ctx>>,
         NEW s \in States, state' = [state EXCEPT ![t] = s],
         NEW a \in Nat, attempts' = [attempts EXCEPT ![t] = a],
         NEW c \in CallState, call' = [call EXCEPT ![t] = c],
         SelectOK(t, c.pc, s), BudgetOK(t, c, s, a)
  PROVE  TaskInv'
<1>f. TaskType /\ RunInv(t)
  BY DEF TaskInv
<1>1. state' \in [Tasks -> States] /\ state'[t] = s
      /\ \A u \in Tasks : u # t => state'[u] = state[u]
  BY <1>f DEF TaskType
<1>2. attempts' \in [Tasks -> Nat] /\ attempts'[t] = a
      /\ \A u \in Tasks : u # t => attempts'[u] = attempts[u]
  BY <1>f DEF TaskType
<1>3. call' \in [Tasks -> CallState] /\ call'[t] = c
      /\ \A u \in Tasks : u # t => call'[u] = call[u]
  BY <1>f DEF TaskType
<1>4. TaskType'
  BY <1>f, <1>1, <1>2, <1>3 DEF TaskType
<1>5. \A u \in Tasks : u # t => Same(u)
  BY <1>1, <1>2, <1>3 DEF Same, SameRuns
<1>6. RunInv(t)'
  BY <1>f DEF RunInv
<1>7. SelectInv(t)'
  BY <1>1, <1>3 DEF SelectInv, SelectOK, Running
<1>8. BudgetInv(t)'
  BY <1>1, <1>2, <1>3 DEF BudgetInv, BudgetOK, Failed, Running
<1> QED
  BY <1>4, <1>5, <1>6, <1>7, <1>8, OneTask

\* Go, up to the start of the run, and what it returns.
LEMMA GoStep ==
  ASSUME TaskInv, NEW t \in Tasks,
         CallGo(t) \/ GoRefused(t) \/ GoPending(t) \/ GoCanceled(t) \/ GoStarted(t)
  PROVE  TaskInv'
<1>f. /\ TaskType /\ SelectInv(t) /\ BudgetInv(t) /\ call[t] \in CallState
      /\ call[t].retry \in BOOLEAN /\ call[t].tries \in Nat
      /\ state[t] \in States /\ attempts[t] \in Nat
      /\ def[t].maxRetries \in Nat /\ Len(runs[t]) \in Nat
  BY TypeFacts DEF TaskInv, CallState
<1>s. /\ state = [state EXCEPT ![t] = state[t]]
      /\ attempts = [attempts EXCEPT ![t] = attempts[t]]
  BY <1>f DEF TaskType
<1>u. UNCHANGED <<def, runs, err, cancel, ctx, attempts>>
  BY DEF CallGo, GoRefused, GoPending, GoCanceled, GoStarted
<1>1. CASE CallGo(t)
  <2> DEFINE c == [NoCall EXCEPT !.pc = "go"]
  <2>1. call' = [call EXCEPT ![t] = c] /\ state' = state /\ call[t].pc = "idle"
    BY <1>1 DEF CallGo
  <2>2. /\ c \in CallState /\ c.pc = "go" /\ ~c.retry /\ c.tries = 0
        /\ c.ret = "none"
    BY NoCallType DEF CallState
  <2> HIDE DEF c
  <2>3. SelectOK(t, c.pc, state[t])
    BY <1>f, <2>2 DEF SelectInv, SelectOK
  <2>4. BudgetOK(t, c, state[t], attempts[t])
    BY <1>f, <2>2 DEF BudgetOK
  <2> QED
    BY <1>f, <1>s, <1>u, <2>1, <2>2, <2>3, <2>4, CallerMoves
<1>2. CASE GoRefused(t)
  <2> DEFINE c == [call[t] EXCEPT !.pc = "idle", !.ret = "ErrTaskInProgress"]
  <2>1. call' = [call EXCEPT ![t] = c] /\ state' = state /\ call[t].pc = "go"
    BY <1>f, <1>2 DEF GoRefused, Return, TaskType
  <2>2. /\ c \in CallState /\ c.pc = "idle" /\ c.retry = call[t].retry
        /\ c.tries = call[t].tries /\ c.ret = "ErrTaskInProgress"
    BY <1>f DEF CallState
  <2> HIDE DEF c
  <2>3. SelectOK(t, c.pc, state[t])
    BY <1>f, <2>2 DEF SelectInv, SelectOK
  <2>4. BudgetOK(t, c, state[t], attempts[t])
    BY <1>f, <2>2 DEF BudgetInv, BudgetOK
  <2> QED
    BY <1>f, <1>s, <1>u, <2>1, <2>2, <2>3, <2>4, CallerMoves
<1>3. CASE GoPending(t)
  <2> DEFINE c == [call[t] EXCEPT !.pc = "delay"]
  <2>1. /\ call' = [call EXCEPT ![t] = c] /\ state' = [state EXCEPT ![t] = "PENDING"]
        /\ call[t].pc = "go" /\ state[t] \notin {"STARTED", "PENDING"}
    BY <1>f, <1>3 DEF GoPending, Goto, SetState, IsInProgress, TaskType
  <2>2. /\ c \in CallState /\ c.pc = "delay" /\ c.retry = call[t].retry
        /\ c.tries = call[t].tries /\ c.ret = call[t].ret
    BY <1>f DEF CallState
  <2> HIDE DEF c
  <2>3. SelectOK(t, c.pc, "PENDING")
    BY <1>f, <2>1, <2>2 DEF SelectInv, SelectOK
  <2>4. BudgetOK(t, c, "PENDING", attempts[t])
    BY <1>f, <2>1, <2>2 DEF BudgetInv, BudgetOK
  <2>5. "PENDING" \in States
    BY DEF States
  <2> QED
    BY <1>f, <1>s, <1>u, <2>1, <2>2, <2>3, <2>4, <2>5, CallerMoves
<1>4. CASE GoCanceled(t)
  <2> DEFINE c == [call[t] EXCEPT !.pc = "idle", !.ret = "ErrCancelledTask"]
  <2>1. /\ call' = [call EXCEPT ![t] = c] /\ state' = [state EXCEPT ![t] = "CANCELED"]
        /\ call[t].pc = "delay"
    BY <1>f, <1>4 DEF GoCanceled, Return, SetState, TaskType
  <2>2. /\ c \in CallState /\ c.pc = "idle" /\ c.retry = call[t].retry
        /\ c.tries = call[t].tries /\ c.ret = "ErrCancelledTask"
    BY <1>f DEF CallState
  <2> HIDE DEF c
  <2>3. SelectOK(t, c.pc, "CANCELED")
    BY <1>f, <2>1, <2>2 DEF SelectInv, SelectOK
  <2>4. BudgetOK(t, c, "CANCELED", attempts[t])
    BY <1>f, <2>1, <2>2 DEF BudgetInv, BudgetOK
  <2>5. "CANCELED" \in States
    BY DEF States
  <2> QED
    BY <1>f, <1>s, <1>u, <2>1, <2>2, <2>3, <2>4, <2>5, CallerMoves
<1>5. CASE GoStarted(t) /\ call[t].retry
  <2> DEFINE c == [call[t] EXCEPT !.pc = "await", !.tries = call[t].tries + 1]
  <2>1. /\ call' = [call EXCEPT ![t] = c]
        /\ state' = [state EXCEPT ![t] = "STARTED"] /\ call[t].pc = "spawned"
    BY <1>f, <1>5 DEF GoStarted, SetState, TaskType
  <2>4. /\ c \in CallState /\ c.pc = "await" /\ c.retry = call[t].retry
        /\ c.tries = call[t].tries + 1 /\ c.ret = call[t].ret
    <3>1. call[t].tries + 1 \in Nat
      BY <1>f
    <3> QED
      BY <1>f, <3>1 DEF CallState
  <2> HIDE DEF c
  <2>5. SelectOK(t, c.pc, "STARTED")
    BY <1>f, <2>1, <2>4 DEF SelectInv, SelectOK
  <2>6. /\ call[t].tries < Len(runs[t]) /\ call[t].tries <= attempts[t]
        /\ attempts[t] < def[t].maxRetries
        /\ Failed(t, 1, call[t].tries) /\ Running(t) \subseteq {Len(runs[t])}
        /\ call[t].ret = "none"
    BY <1>f, <1>5, <2>1 DEF BudgetInv, BudgetOK
  <2>7. c.tries - 1 = call[t].tries
    BY <1>f, <2>4
  <2>8. /\ c.tries <= Len(runs[t]) /\ c.tries <= attempts[t] + 1
        /\ c.tries <= def[t].maxRetries /\ c.tries >= 1
    BY <1>f, <2>4, <2>6
  <2>9. BudgetOK(t, c, "STARTED", attempts[t])
    BY <1>5, <2>4, <2>6, <2>7, <2>8 DEF BudgetOK
  <2>10. "STARTED" \in States
    BY DEF States
  <2> QED
    BY <1>f, <1>s, <1>u, <2>1, <2>4, <2>5, <2>9, <2>10, CallerMoves
<1>6. CASE GoStarted(t) /\ ~call[t].retry
  <2> DEFINE c == [call[t] EXCEPT !.pc = "idle", !.ret = "nil"]
  <2>1. /\ call' = [call EXCEPT ![t] = c] /\ state' = [state EXCEPT ![t] = "STARTED"]
        /\ call[t].pc = "spawned"
    BY <1>f, <1>6 DEF GoStarted, Return, SetState, TaskType
  <2>2. /\ c \in CallState /\ c.pc = "idle" /\ c.retry = call[t].retry
        /\ c.tries = call[t].tries /\ c.ret = "nil"
    BY <1>f DEF CallState
  <2> HIDE DEF c
  <2>3. SelectOK(t, c.pc, "STARTED")
    BY <1>f, <2>1, <2>2 DEF SelectInv, SelectOK
  <2>4. BudgetOK(t, c, "STARTED", attempts[t])
    BY <1>f, <2>1, <2>2 DEF BudgetInv, BudgetOK
  <2>5. "STARTED" \in States
    BY DEF States
  <2> QED
    BY <1>f, <1>s, <1>u, <2>1, <2>2, <2>3, <2>4, <2>5, CallerMoves
<1> QED
  BY <1>1, <1>2, <1>3, <1>4, <1>5, <1>6

\* GoRetry, but for the runs it starts.
LEMMA RetryStep ==
  ASSUME TaskInv, NEW t \in Tasks, CallGoRetry(t) \/ GoRetry(t)
  PROVE  TaskInv'
<1>f. /\ TaskType /\ SelectInv(t) /\ BudgetInv(t) /\ call[t] \in CallState
      /\ call[t].retry \in BOOLEAN /\ call[t].tries \in Nat
      /\ state[t] \in States /\ attempts[t] \in Nat
      /\ def[t].maxRetries \in Nat /\ Len(runs[t]) \in Nat
      /\ DOMAIN runs[t] = 1 .. Len(runs[t])
  BY TypeFacts DEF TaskInv, CallState
<1>s. /\ state = [state EXCEPT ![t] = state[t]]
      /\ attempts = [attempts EXCEPT ![t] = attempts[t]]
  BY <1>f DEF TaskType
<1>t. "FAILED" \in States /\ "CANCELED" \in States
  BY DEF States
<1>u. UNCHANGED <<def, runs, err, cancel, ctx>>
  BY DEF CallGoRetry, GoRetry, RetryAttempt, RetryFailed, RetryNil, BackoffEnd,
     BackoffCanceled
<1>1. CASE CallGoRetry(t) /\ def[t].maxRetries = 0
  <2> DEFINE c == [call[t] EXCEPT !.pc = "idle", !.ret = "ErrMaxRetriesNotSet"]
  <2>1. /\ call' = [call EXCEPT ![t] = c] /\ state' = [state EXCEPT ![t] = "FAILED"]
        /\ attempts' = attempts
    BY <1>f, <1>1 DEF CallGoRetry, Return, SetState, TaskType
  <2>2. /\ c \in CallState /\ c.pc = "idle" /\ c.retry = call[t].retry
        /\ c.tries = call[t].tries /\ c.ret = "ErrMaxRetriesNotSet"
    BY <1>f DEF CallState
  <2> HIDE DEF c
  <2>3. SelectOK(t, c.pc, "FAILED")
    BY <1>1 DEF SelectOK
  <2>4. BudgetOK(t, c, "FAILED", attempts[t])
    BY <1>f, <2>2 DEF BudgetInv, BudgetOK
  <2> QED
    BY <1>f, <1>s, <1>t, <1>u, <2>1, <2>2, <2>3, <2>4, CallerMoves
<1>2. CASE CallGoRetry(t) /\ def[t].maxRetries # 0
  <2> DEFINE c == [NoCall EXCEPT !.pc = "attempt", !.retry = TRUE]
  <2>1. /\ call' = [call EXCEPT ![t] = c] /\ state' = state
        /\ attempts' = attempts /\ call[t].pc = "idle"
    BY <1>2 DEF CallGoRetry
  <2>2. /\ c \in CallState /\ c.pc = "attempt" /\ c.retry /\ c.tries = 0
        /\ c.ret = "none"
    BY NoCallType DEF CallState
  <2> HIDE DEF c
  <2>3. SelectOK(t, c.pc, state[t])
    BY <1>f, <2>2 DEF SelectInv, SelectOK
  <2>4. Failed(t, 0, c.tries - 1)
    BY <2>2 DEF Failed
  <2>5. BudgetOK(t, c, state[t], attempts[t])
    BY <1>f, <2>2, <2>4 DEF BudgetOK
  <2> QED
    BY <1>f, <1>s, <1>u, <2>1, <2>2, <2>3, <2>5, CallerMoves
<1>3. CASE RetryAttempt(t) /\ attempts[t] >= def[t].maxRetries
  <2> DEFINE c == [call[t] EXCEPT !.pc = "idle", !.ret = "ErrMaxRetriesExceeded"]
  <2>1. /\ call' = [call EXCEPT ![t] = c] /\ state' = state
        /\ attempts' = attempts /\ call[t].pc = "attempt"
    BY <1>f, <1>3 DEF RetryAttempt, Return, TaskType
  <2>2. /\ c \in CallState /\ c.pc = "idle" /\ c.retry = call[t].retry
        /\ c.tries = call[t].tries /\ c.ret = "ErrMaxRetriesExceeded"
    BY <1>f DEF CallState
  <2> HIDE DEF c
  <2>3. SelectOK(t, c.pc, state[t])
    BY <1>f, <2>2 DEF SelectInv, SelectOK
  <2>4. BudgetOK(t, c, state[t], attempts[t])
    BY <1>f, <2>1, <2>2 DEF BudgetInv, BudgetOK
  <2> QED
    BY <1>f, <1>s, <1>u, <2>1, <2>2, <2>3, <2>4, CallerMoves
<1>4. CASE RetryAttempt(t) /\ ~(attempts[t] >= def[t].maxRetries)
  <2> DEFINE c == [call[t] EXCEPT !.pc = "go"]
  <2>1. /\ call' = [call EXCEPT ![t] = c] /\ state' = state
        /\ attempts' = attempts /\ call[t].pc = "attempt"
    BY <1>f, <1>4 DEF RetryAttempt, Goto, TaskType
  <2>2. /\ c \in CallState /\ c.pc = "go" /\ c.retry = call[t].retry
        /\ c.tries = call[t].tries /\ c.ret = call[t].ret
    BY <1>f DEF CallState
  <2> HIDE DEF c
  <2>3. SelectOK(t, c.pc, state[t])
    BY <1>f, <2>2 DEF SelectInv, SelectOK
  <2>4. attempts[t] < def[t].maxRetries
    BY <1>f, <1>4
  <2>5. BudgetOK(t, c, state[t], attempts[t])
    BY <1>f, <2>1, <2>2, <2>4 DEF BudgetInv, BudgetOK
  <2> QED
    BY <1>f, <1>s, <1>u, <2>1, <2>2, <2>3, <2>5, CallerMoves
<1>5. CASE RetryFailed(t)
  <2>1. PICK d \in RetryDelays(t) :
          call' = [call EXCEPT ![t].pc = IF d > 0 THEN "backoff" ELSE "attempt",
                               ![t].delay = d]
    BY <1>5 DEF RetryFailed
  <2>2. PICK pc \in {"backoff", "attempt"} :
          pc = (IF d > 0 THEN "backoff" ELSE "attempt")
    OBVIOUS
  <2> DEFINE c == [call[t] EXCEPT !.pc = pc, !.delay = d]
  <2>3. call' = [call EXCEPT ![t] = c]
    BY <1>f, <2>1, <2>2 DEF TaskType
  <2>4. /\ state' = state /\ attempts' = [attempts EXCEPT ![t] = attempts[t] + 1]
        /\ call[t].pc = "await" /\ Awaited(t) /\ state[t] = "FAILED"
    BY <1>f, <1>5 DEF RetryFailed, TaskType
  <2>5. d \in Delays
    <3>1. def[t].strategy # "none" => def[t].strategy \in {"linear", "exponential"}
      BY <1>f, TaskAssumption DEF TaskType, Definitions
    <3>2. def[t].jitter \in BOOLEAN
      BY <1>f, TaskAssumption DEF TaskType, Definitions
    <3> QED
      BY <1>f, <3>1, <3>2 DEF RetryDelays, Delays
  <2>6. /\ c \in CallState /\ c.pc = pc /\ c.retry = call[t].retry
        /\ c.tries = call[t].tries /\ c.ret = call[t].ret
    BY <1>f, <2>5 DEF CallState
  <2> HIDE DEF c
  <2>7. Running(t) = {}
    BY <2>4 DEF Awaited, Running
  <2>8. /\ call[t].retry /\ call[t].tries >= 1 /\ call[t].tries <= attempts[t] + 1
        /\ call[t].tries <= def[t].maxRetries /\ call[t].tries <= Len(runs[t])
        /\ Failed(t, 1, call[t].tries - 1)
        /\ runs[t][Len(runs[t])].out = "FAILED" /\ call[t].ret = "none"
    BY <1>f, <2>4 DEF BudgetInv, BudgetOK
  <2>9. Failed(t, 0, c.tries - 1)
    <3> SUFFICES ASSUME NEW n \in 0 .. call[t].tries - 1
                 PROVE  runs[t][Len(runs[t]) - n].out = "FAILED"
      BY <2>6 DEF Failed
    <3>1. CASE n = 0
      <4>1. Len(runs[t]) - n = Len(runs[t])
        BY <1>f, <3>1
      <4> QED
        BY <2>8, <4>1
    <3>2. CASE n # 0
      <4>1. n \in 1 .. call[t].tries - 1
        BY <1>f, <3>2
      <4> QED
        BY <2>8, <4>1 DEF Failed
    <3> QED
      BY <3>1, <3>2
  <2>10. SelectOK(t, c.pc, state[t])
    BY <2>6, <2>7 DEF SelectOK
  <2>11. BudgetOK(t, c, state[t], attempts[t] + 1)
    BY <2>6, <2>8, <2>9 DEF BudgetOK
  <2>12. attempts[t] + 1 \in Nat
    BY <1>f
  <2> QED
    BY <1>f, <1>s, <1>u, <2>3, <2>4, <2>6, <2>10, <2>11, <2>12, CallerMoves
<1>6. CASE RetryNil(t)
  <2> DEFINE c == [call[t] EXCEPT !.pc = "idle", !.ret = "nil"]
  <2>1. /\ call' = [call EXCEPT ![t] = c] /\ state' = state
        /\ attempts' = attempts /\ call[t].pc = "await"
    BY <1>f, <1>6 DEF RetryNil, Return, TaskType
  <2>2. /\ c \in CallState /\ c.pc = "idle" /\ c.retry = call[t].retry
        /\ c.tries = call[t].tries /\ c.ret = "nil"
    BY <1>f DEF CallState
  <2> HIDE DEF c
  <2>3. SelectOK(t, c.pc, state[t])
    BY <1>f, <2>2 DEF SelectInv, SelectOK
  <2>4. BudgetOK(t, c, state[t], attempts[t])
    BY <1>f, <2>1, <2>2 DEF BudgetInv, BudgetOK
  <2> QED
    BY <1>f, <1>s, <1>u, <2>1, <2>2, <2>3, <2>4, CallerMoves
<1>7. CASE BackoffEnd(t)
  <2> DEFINE c == [call[t] EXCEPT !.pc = "attempt"]
  <2>1. /\ call' = [call EXCEPT ![t] = c] /\ state' = state
        /\ attempts' = attempts /\ call[t].pc = "backoff"
    BY <1>f, <1>7 DEF BackoffEnd, Goto, TaskType
  <2>2. /\ c \in CallState /\ c.pc = "attempt" /\ c.retry = call[t].retry
        /\ c.tries = call[t].tries /\ c.ret = call[t].ret
    BY <1>f DEF CallState
  <2> HIDE DEF c
  <2>3. SelectOK(t, c.pc, state[t])
    BY <1>f, <2>2 DEF SelectInv, SelectOK
  <2>4. BudgetOK(t, c, state[t], attempts[t])
    BY <1>f, <2>1, <2>2 DEF BudgetInv, BudgetOK
  <2> QED
    BY <1>f, <1>s, <1>u, <2>1, <2>2, <2>3, <2>4, CallerMoves
<1>8. CASE BackoffCanceled(t)
  <2> DEFINE c == [call[t] EXCEPT !.pc = "idle", !.ret = "ErrCancelledTask"]
  <2>1. /\ call' = [call EXCEPT ![t] = c] /\ state' = [state EXCEPT ![t] = "CANCELED"]
        /\ attempts' = attempts /\ call[t].pc = "backoff"
    BY <1>f, <1>8 DEF BackoffCanceled, Return, SetState, TaskType
  <2>2. /\ c \in CallState /\ c.pc = "idle" /\ c.retry = call[t].retry
        /\ c.tries = call[t].tries /\ c.ret = "ErrCancelledTask"
    BY <1>f DEF CallState
  <2> HIDE DEF c
  <2>3. SelectOK(t, c.pc, "CANCELED")
    BY <1>f, <2>1, <2>2 DEF SelectInv, SelectOK
  <2>4. BudgetOK(t, c, "CANCELED", attempts[t])
    BY <1>f, <2>1, <2>2 DEF BudgetInv, BudgetOK
  <2> QED
    BY <1>f, <1>s, <1>t, <1>u, <2>1, <2>2, <2>3, <2>4, CallerMoves
<1> QED
  BY <1>1, <1>2, <1>3, <1>4, <1>5, <1>6, <1>7, <1>8 DEF GoRetry

\* Go starts a run, when there is no other in its select.
LEMMA StartStep ==
  ASSUME TaskInv, NEW t \in Tasks, GoStart(t)
  PROVE  TaskInv'
<1>f. /\ TaskType /\ RunInv(t) /\ SelectInv(t) /\ BudgetInv(t)
      /\ call[t] \in CallState /\ runs \in [Tasks -> Seq(RunState)]
      /\ call \in [Tasks -> CallState] /\ cancel \in [Tasks -> Nat]
      /\ call[t].retry \in BOOLEAN /\ call[t].tries \in Nat
      /\ state[t] \in States /\ attempts[t] \in Nat /\ def[t].maxRetries \in Nat
      /\ Len(runs[t]) \in Nat /\ DOMAIN runs[t] = 1 .. Len(runs[t])
  BY TypeFacts DEF TaskInv, CallState, TaskType
<1> DEFINE c == [call[t] EXCEPT !.pc = "spawned"]
           r == NewRun(t)
           q == Append(runs[t], r)
<1>1. /\ call' = [call EXCEPT ![t] = c] /\ runs' = [runs EXCEPT ![t] = q]
      /\ cancel' = [cancel EXCEPT ![t] = Len(runs[t]) + 1]
      /\ call[t].pc = "delay" /\ UNCHANGED <<def, state, attempts, err, ctx>>
  BY <1>f DEF GoStart, Goto
<1>2. /\ c \in CallState /\ c.pc = "spawned" /\ c.retry = call[t].retry
      /\ c.tries = call[t].tries /\ c.ret = call[t].ret
  BY <1>f DEF CallState
<1>3. r \in RunState /\ r.pc = "select" /\ r.out = "none"
  <2>1. ctx[CtxOf[t]] \in Ends
    BY <1>f, TaskAssumption DEF TaskType
  <2> QED
    BY <2>1 DEF NewRun, RunState
<1>4. /\ q \in Seq(RunState) /\ Len(q) = Len(runs[t]) + 1
      /\ DOMAIN q = 1 .. Len(runs[t]) + 1
      /\ \A k \in 1 .. Len(runs[t]) : q[k] = runs[t][k]
      /\ q[Len(runs[t]) + 1] = r
  BY <1>f, <1>3, AppendProperties, LenProperties
<1> HIDE DEF c, r, q
<1>5. /\ runs' \in [Tasks -> Seq(RunState)] /\ runs'[t] = q
      /\ call' \in [Tasks -> CallState] /\ call'[t] = c
      /\ cancel' \in [Tasks -> Nat]
      /\ \A u \in Tasks : u # t => runs'[u] = runs[u] /\ call'[u] = call[u]
  BY <1>f, <1>1, <1>2, <1>4
<1>6. TaskType'
  BY <1>f, <1>1, <1>5 DEF TaskType
<1>7. \A u \in Tasks : u # t => Same(u)
  BY <1>1, <1>5 DEF Same, SameRuns
<1>8. RunInv(t)'
  <2> SUFFICES ASSUME NEW k \in 1 .. Len(runs[t]) + 1
               PROVE  /\ q[k].pc = "select" <=> q[k].out = "none"
                      /\ q[k].pc \in {"stored", "end"} /\ q[k].out # "DONE" => err[t]
    BY <1>1, <1>4, <1>5 DEF RunInv
  <2>1. CASE k = Len(runs[t]) + 1
    BY <1>3, <1>4, <2>1
  <2>2. CASE k # Len(runs[t]) + 1
    <3>1. k \in DOMAIN runs[t] /\ q[k] = runs[t][k]
      BY <1>f, <1>4, <2>2
    <3> QED
      BY <1>f, <3>1 DEF RunInv
  <2> QED
    BY <2>1, <2>2
<1>9. def[t].maxRetries > 0 => Running(t)' = {Len(runs[t]) + 1}
  <2> SUFFICES ASSUME def[t].maxRetries > 0
               PROVE  {k \in DOMAIN q : q[k].pc = "select"} = {Len(runs[t]) + 1}
    BY <1>5 DEF Running
  <2>1. \A k \in DOMAIN runs[t] : runs[t][k].pc # "select"
    BY <1>f, <1>1 DEF SelectInv, SelectOK, Running
  <2>2. \A k \in DOMAIN q : k = Len(runs[t]) + 1 \/ k \in DOMAIN runs[t]
    BY <1>f, <1>4
  <2>3. Len(runs[t]) + 1 \in DOMAIN q
    BY <1>f, <1>4
  <2> QED
    BY <1>f, <1>3, <1>4, <2>1, <2>2, <2>3
<1>10. SelectInv(t)'
  BY <1>f, <1>1, <1>2, <1>5, <1>9 DEF SelectInv, SelectOK
<1>11. BudgetInv(t)'
  <2>1. /\ call[t].ret = "none" /\ call[t].tries <= def[t].maxRetries
        /\ call[t].tries <= Len(runs[t]) /\ (~call[t].retry => call[t].tries = 0)
        /\ call[t].retry => /\ call[t].tries <= attempts[t]
                            /\ attempts[t] < def[t].maxRetries
                            /\ Failed(t, 0, call[t].tries - 1)
    BY <1>f, <1>1 DEF BudgetInv, BudgetOK
  <2>2. Len(runs'[t]) = Len(runs[t]) + 1
    BY <1>4, <1>5
  <2>3. call[t].tries <= Len(runs'[t]) /\ call[t].tries < Len(runs'[t])
    BY <1>f, <2>1, <2>2
  <2>4. ASSUME call[t].retry
        PROVE  \A n \in 1 .. call[t].tries : runs'[t][Len(runs'[t]) - n].out = "FAILED"
    <3> SUFFICES ASSUME NEW n \in 1 .. call[t].tries
                 PROVE  q[Len(runs[t]) + 1 - n].out = "FAILED"
      BY <1>5, <2>2
    <3>1. /\ n - 1 \in 0 .. call[t].tries - 1
          /\ Len(runs[t]) + 1 - n = Len(runs[t]) - (n - 1)
          /\ Len(runs[t]) - (n - 1) \in 1 .. Len(runs[t])
      BY <1>f, <2>1
    <3>2. runs[t][Len(runs[t]) - (n - 1)].out = "FAILED"
      BY <2>1, <2>4, <3>1 DEF Failed
    <3> QED
      BY <1>4, <3>1, <3>2
  <2>5. call[t].retry => Running(t)' \subseteq {Len(runs'[t])}
    BY <1>f, <1>9, <2>1, <2>2
  <2> QED
    BY <1>1, <1>2, <1>5, <2>1, <2>3, <2>4, <2>5 DEF BudgetInv, BudgetOK, Failed
<1> QED
  BY <1>6, <1>7, <1>8, <1>10, <1>11, OneTask

----------------------------------------------------------------------------
(* The runs of a task. *)

\* One run of t gets a new state.
LEMMA RunSet ==
  ASSUME TaskType, NEW t \in Tasks, NEW k \in DOMAIN runs[t], NEW r \in RunState,
         runs' = [runs EXCEPT ![t] = [runs[t] EXCEPT ![k] = r]]
  PROVE  /\ runs' \in [Tasks -> Seq(RunState)]
         /\ \A u \in Tasks : u # t => runs'[u] = runs[u]
         /\ Len(runs'[t]) = Len(runs[t]) /\ DOMAIN runs'[t] = DOMAIN runs[t]
         /\ runs'[t][k] = r
         /\ \A j \in DOMAIN runs[t] : j # k => runs'[t][j] = runs[t][j]
<1>f. /\ runs \in [Tasks -> Seq(RunState)] /\ runs[t] \in Seq(RunState)
      /\ DOMAIN runs[t] = 1 .. Len(runs[t])
  BY TypeFacts DEF TaskType
<1> DEFINE q == [runs[t] EXCEPT ![k] = r]
<1>1. /\ q \in Seq(RunState) /\ Len(q) = Len(runs[t])
      /\ \A j \in 1 .. Len(runs[t]) : q[j] = IF j = k THEN r ELSE runs[t][j]
  BY <1>f, ExceptSeq
<1>2. runs' = [runs EXCEPT ![t] = q]
  OBVIOUS
<1> HIDE DEF q
<1>3. DOMAIN q = 1 .. Len(q)
  BY <1>1, LenProperties
<1>4. /\ runs' \in [Tasks -> Seq(RunState)] /\ runs'[t] = q
      /\ \A u \in Tasks : u # t => runs'[u] = runs[u]
  BY <1>f, <1>1, <1>2
<1> QED
  BY <1>f, <1>1, <1>3, <1>4

\* A run leaves its select: it stores the state of the task.
LEMMA LeaveStep ==
  ASSUME TaskInv, NEW t \in Tasks, NEW k \in DOMAIN runs[t], NEW s \in Outs,
         NEW fn \in {"spawned", "running", "send", "left", "end"}, Leave(t, k, s, fn)
  PROVE  TaskInv'
<1>f. /\ TaskType /\ RunInv(t) /\ SelectInv(t) /\ BudgetInv(t)
      /\ runs[t][k] \in RunState /\ call[t].tries \in Nat
      /\ Len(runs[t]) \in Nat /\ DOMAIN runs[t] = 1 .. Len(runs[t])
      /\ state \in [Tasks -> States] /\ runs \in [Tasks -> Seq(RunState)]
  BY TypeFacts DEF TaskInv, TaskType
<1> DEFINE r == [runs[t][k] EXCEPT !.pc = "store", !.out = s, !.fn = fn,
                                   !.res = "none"]
<1>1. /\ k \in Running(t) /\ state' = [state EXCEPT ![t] = s]
      /\ runs' = [runs EXCEPT ![t] = [runs[t] EXCEPT ![k] = r]]
      /\ UNCHANGED <<def, attempts, err, cancel, call, ctx>>
  BY <1>f DEF Leave, SetState
<1>2. r \in RunState /\ r.pc = "store" /\ r.out = s
  BY <1>f DEF RunState
<1> HIDE DEF r
<1>3. /\ runs' \in [Tasks -> Seq(RunState)]
      /\ \A u \in Tasks : u # t => runs'[u] = runs[u]
      /\ Len(runs'[t]) = Len(runs[t]) /\ DOMAIN runs'[t] = DOMAIN runs[t]
      /\ runs'[t][k] = r
      /\ \A j \in DOMAIN runs[t] : j # k => runs'[t][j] = runs[t][j]
  BY <1>f, <1>1, <1>2, RunSet
<1>4. /\ state' \in [Tasks -> States] /\ state'[t] = s
      /\ \A u \in Tasks : u # t => state'[u] = state[u]
  BY <1>f, <1>1 DEF States, Outs
<1>5. TaskType'
  BY <1>f, <1>1, <1>3, <1>4 DEF TaskType
<1>6. \A u \in Tasks : u # t => Same(u)
  BY <1>1, <1>3, <1>4 DEF Same, SameRuns
<1>7. RunInv(t)'
  BY <1>f, <1>1, <1>2, <1>3 DEF RunInv, Outs
<1>8. Running(t)' = Running(t) \ {k}
  BY <1>2, <1>3 DEF Running
<1>9. SelectInv(t)'
  BY <1>f, <1>1, <1>8 DEF SelectInv, SelectOK
<1>10. BudgetInv(t)'
  <2>1. runs[t][k].out = "none"
    BY <1>f, <1>1 DEF RunInv, Running
  <2>2. \A j \in DOMAIN runs[t] : runs[t][j].out = "FAILED" => runs'[t][j].out = "FAILED"
    BY <1>3, <2>1
  <2>3. \A a \in Nat, b \in Int :
          b < Len(runs[t]) /\ Failed(t, a, b) =>
            \A n \in a .. b : runs'[t][Len(runs'[t]) - n].out = "FAILED"
    BY <1>f, <1>3, <2>2, FailedKept
  <2>4. /\ call[t].tries \in Int /\ call[t].tries - 1 \in Int /\ call' = call
        /\ call[t].tries <= Len(runs[t]) /\ call[t].tries - 1 < Len(runs[t])
    BY <1>f, <1>1 DEF BudgetInv, BudgetOK
  <2>5. /\ Failed(t, 0, call[t].tries - 1) => Failed(t, 0, call[t].tries - 1)'
        /\ Failed(t, 1, call[t].tries - 1) => Failed(t, 1, call[t].tries - 1)'
        /\ Failed(t, 1, call[t].tries) /\ call[t].tries < Len(runs[t]) =>
             Failed(t, 1, call[t].tries)'
    <3>1. /\ Failed(t, 0, call[t].tries - 1) => \A n \in 0 .. call[t].tries - 1 :
               runs'[t][Len(runs'[t]) - n].out = "FAILED"
          /\ Failed(t, 1, call[t].tries - 1) => \A n \in 1 .. call[t].tries - 1 :
               runs'[t][Len(runs'[t]) - n].out = "FAILED"
          /\ Failed(t, 1, call[t].tries) /\ call[t].tries < Len(runs[t]) =>
               \A n \in 1 .. call[t].tries :
                 runs'[t][Len(runs'[t]) - n].out = "FAILED"
      BY <2>3, <2>4
    <3> QED
      BY <2>4, <3>1 DEF Failed
  <2>6. call[t].pc = "await" => s = runs'[t][Len(runs'[t])].out
    BY <1>f, <1>1, <1>2, <1>3 DEF BudgetInv, BudgetOK
  <2> QED
    BY <1>f, <1>1, <1>3, <1>4, <1>8, <2>4, <2>5, <2>6 DEF BudgetInv, BudgetOK
<1> QED
  BY <1>5, <1>6, <1>7, <1>9, <1>10, OneTask

\* A run stores its error and calls wg.Done.
LEMMA EndStep ==
  ASSUME TaskInv, NEW t \in Tasks, NEW k \in DOMAIN runs[t], RunEnd(t, k)
  PROVE  TaskInv'
<1>f. /\ TaskType /\ RunInv(t) /\ SelectInv(t) /\ BudgetInv(t)
      /\ runs[t][k] \in RunState /\ call[t].tries \in Nat
      /\ Len(runs[t]) \in Nat /\ DOMAIN runs[t] = 1 .. Len(runs[t])
      /\ err \in [Tasks -> BOOLEAN] /\ runs \in [Tasks -> Seq(RunState)]
  BY TypeFacts DEF TaskInv, TaskType
<1>p. PICK to \in {"stored", "end"}, error \in BOOLEAN :
        /\ runs[t][k].pc \in {"store", "stored"}
        /\ Proceed(t, k, runs[t][k].pc, to, error)
        /\ runs[t][k].out # "DONE" => err[t] \/ error
  <2>1. runs[t][k].pc = "stored" /\ runs[t][k].out # "DONE" => err[t]
    BY <1>f DEF RunInv
  <2> QED
    BY <2>1 DEF RunEnd, Proceed
<1> DEFINE r == [runs[t][k] EXCEPT !.pc = to]
<1>1. /\ runs[t][k].pc \in {"store", "stored"}
      /\ runs' = [runs EXCEPT ![t] = [runs[t] EXCEPT ![k] = r]]
      /\ err' = [err EXCEPT ![t] = err[t] \/ error]
      /\ UNCHANGED <<def, state, attempts, cancel, call, ctx>>
  BY <1>f, <1>p DEF Proceed
<1>2. r \in RunState /\ r.pc = to /\ r.out = runs[t][k].out
  BY <1>f DEF RunState
<1> HIDE DEF r
<1>3. /\ runs' \in [Tasks -> Seq(RunState)]
      /\ \A u \in Tasks : u # t => runs'[u] = runs[u]
      /\ Len(runs'[t]) = Len(runs[t]) /\ DOMAIN runs'[t] = DOMAIN runs[t]
      /\ runs'[t][k] = r
      /\ \A j \in DOMAIN runs[t] : j # k => runs'[t][j] = runs[t][j]
  BY <1>f, <1>1, <1>2, RunSet
<1>4. /\ err' \in [Tasks -> BOOLEAN]
      /\ err'[t] <=> err[t] \/ error
      /\ \A u \in Tasks : u # t => err'[u] = err[u]
  BY <1>f, <1>1
<1>5. TaskType'
  BY <1>f, <1>1, <1>3, <1>4 DEF TaskType
<1>6. \A u \in Tasks : u # t => Same(u)
  BY <1>1, <1>3, <1>4 DEF Same, SameRuns
<1>7. RunInv(t)'
  BY <1>f, <1>p, <1>1, <1>2, <1>3, <1>4 DEF RunInv
<1>8. Running(t)' = Running(t)
  BY <1>1, <1>2, <1>3 DEF Running
<1>9. SelectInv(t)'
  BY <1>f, <1>1, <1>8 DEF SelectInv, SelectOK
<1>10. BudgetInv(t)'
  <2>1. \A j \in DOMAIN runs[t] : runs'[t][j].out = runs[t][j].out
    BY <1>2, <1>3
  <2>2. \A n \in 0 .. Len(runs[t]) - 1 : Len(runs[t]) - n \in DOMAIN runs[t]
    BY <1>f
  <2>3. \A n \in 0 .. Len(runs[t]) - 1 :
          runs'[t][Len(runs'[t]) - n].out = runs[t][Len(runs[t]) - n].out
    BY <1>3, <2>1, <2>2
  <2>4. call' = call /\ call[t].tries <= Len(runs[t])
    BY <1>f, <1>1 DEF BudgetInv, BudgetOK
  <2>5. /\ \A n \in 0 .. call[t].tries - 1 : n \in 0 .. Len(runs[t]) - 1
        /\ \A n \in 1 .. call[t].tries - 1 : n \in 0 .. Len(runs[t]) - 1
        /\ call[t].tries < Len(runs[t]) =>
             \A n \in 1 .. call[t].tries : n \in 0 .. Len(runs[t]) - 1
    BY <1>f, <2>4
  <2>6. /\ Failed(t, 0, call[t].tries - 1) => Failed(t, 0, call[t].tries - 1)'
        /\ Failed(t, 1, call[t].tries - 1) => Failed(t, 1, call[t].tries - 1)'
        /\ Failed(t, 1, call[t].tries) /\ call[t].tries < Len(runs[t]) =>
             Failed(t, 1, call[t].tries)'
    BY <2>3, <2>4, <2>5 DEF Failed
  <2>7. call[t].pc = "await" => runs'[t][Len(runs'[t])].out = runs[t][Len(runs[t])].out
    <3>1. call[t].pc = "await" => Len(runs[t]) \in DOMAIN runs[t]
      BY <1>f DEF BudgetInv, BudgetOK
    <3> QED
      BY <1>3, <2>1, <3>1
  <2> QED
    BY <1>f, <1>1, <1>3, <1>8, <2>4, <2>6, <2>7 DEF BudgetInv, BudgetOK
<1> QED
  BY <1>5, <1>6, <1>7, <1>9, <1>10, OneTask

\* A step of the function of a run, or of its context.
LEMMA FnMoves ==
  ASSUME TaskInv, NEW t \in Tasks, NEW k \in DOMAIN runs[t], NEW r \in RunState,
         r.pc = runs[t][k].pc, r.out = runs[t][k].out,
         runs' = [runs EXCEPT ![t] = [runs[t] EXCEPT ![k] = r]],
         UNCHANGED <<def, state, attempts, err, cancel, call, ctx>>
  PROVE  TaskInv'
<1>f. TaskType
  BY DEF TaskInv
<1>1. /\ runs' \in [Tasks -> Seq(RunState)]
      /\ \A u \in Tasks : u # t => runs'[u] = runs[u]
      /\ Len(runs'[t]) = Len(runs[t]) /\ DOMAIN runs'[t] = DOMAIN runs[t]
      /\ runs'[t][k] = r
      /\ \A j \in DOMAIN runs[t] : j # k => runs'[t][j] = runs[t][j]
  BY <1>f, RunSet
<1>2. TaskType'
  BY <1>f, <1>1 DEF TaskType
<1>3. \A u \in Tasks : SameRuns(u)
  BY <1>1 DEF SameRuns
<1>4. \A u \in Tasks : Same(u)
  BY <1>3 DEF Same
<1> QED
  BY <1>2, <1>4, AllSame

\* Cancel, of the task or of a run.
LEMMA CancelStep ==
  ASSUME TaskInv, NEW t \in Tasks, NEW k \in Nat, CancelRun(t, k)
  PROVE  TaskInv'
<1>f. TaskType /\ runs \in [Tasks -> Seq(RunState)] /\ runs[t] \in Seq(RunState)
  BY DEF TaskInv, TaskType
<1>1. CASE k \in DOMAIN runs[t]
  <2> DEFINE r == [runs[t][k] EXCEPT !.ctx = "canceled"]
  <2>1. runs' = [runs EXCEPT ![t] = [runs[t] EXCEPT ![k] = r]]
        /\ UNCHANGED <<def, state, attempts, err, cancel, call, ctx>>
    BY <1>f, <1>1 DEF CancelRun
  <2>2. runs[t][k] \in RunState
    BY <1>f, <1>1, TypeFacts
  <2>3. r \in RunState /\ r.pc = runs[t][k].pc /\ r.out = runs[t][k].out
    BY <2>2 DEF RunState, Ends
  <2> HIDE DEF r
  <2> QED
    BY <1>1, <2>1, <2>3, FnMoves
<1>2. CASE k \notin DOMAIN runs[t]
  <2>1. runs' = [runs EXCEPT ![t] = [runs[t] EXCEPT ![k].ctx = "canceled"]]
        /\ UNCHANGED <<def, state, attempts, err, cancel, call, ctx>>
    BY <1>f DEF CancelRun
  <2>2. [runs[t] EXCEPT ![k].ctx = "canceled"] = runs[t]
    BY <1>f, <1>2
  <2>3. runs' = runs
    BY <1>f, <2>1, <2>2
  <2>4. TaskType' /\ \A u \in Tasks : Same(u)
    BY <1>f, <2>1, <2>3 DEF TaskType, Same, SameRuns
  <2> QED
    BY <2>4, AllSame
<1> QED
  BY <1>1, <1>2

\* The steps of a run and of its function.
LEMMA RunStepKeeps ==
  ASSUME TaskInv, NEW t \in Tasks, NEW k \in DOMAIN runs[t],
         RunStep(t, k) \/ FnStep(t, k) \/ FnReturn(t, k) \/ FnCancel(t, k)
  PROVE  TaskInv'
<1>f. /\ TaskType /\ runs \in [Tasks -> Seq(RunState)] /\ runs[t][k] \in RunState
      /\ runs[t][k].fn \in {"spawned", "running", "send", "left", "end"}
      /\ runs[t][k].cancel \in Nat /\ cancel[t] \in Nat
  BY TypeFacts DEF TaskInv, TaskType, RunState
<1>1. CASE RunCanceled(t, k) \/ RunTimeout(t, k)
  <2>1. PICK s \in Outs : Leave(t, k, s, Behind(t, k))
    BY <1>1 DEF RunCanceled, RunTimeout, Outs
  <2>2. Behind(t, k) \in {"spawned", "running", "send", "left", "end"}
    BY <1>f DEF Behind
  <2> QED
    BY <2>1, <2>2, LeaveStep
<1>2. CASE RunResult(t, k)
  <2>1. PICK s \in Outs : s = (CASE runs[t][k].res = "canceled" -> "CANCELED"
                                 [] runs[t][k].res = "nil" -> "DONE"
                                 [] OTHER -> "FAILED")
    BY DEF Outs
  <2>2. Leave(t, k, s, "end")
    BY <1>2, <2>1 DEF RunResult
  <2> QED
    BY <2>2, LeaveStep
<1>3. CASE RunEnd(t, k)
  BY <1>3, EndStep
<1>4. ASSUME NEW from, NEW to \in {"running", "send", "left"},
             NEW res \in {"none", "nil", "error", "canceled"}, NEW c \in Nat,
             SetFn(t, k, from, to, res, c)
      PROVE  TaskInv'
  <2> DEFINE r == [runs[t][k] EXCEPT !.fn = to, !.res = res, !.cancel = c]
  <2>1. /\ runs' = [runs EXCEPT ![t] = [runs[t] EXCEPT ![k] = r]]
        /\ UNCHANGED <<def, state, attempts, err, cancel, call, ctx>>
    BY <1>f, <1>4 DEF SetFn
  <2>2. r \in RunState /\ r.pc = runs[t][k].pc /\ r.out = runs[t][k].out
    BY <1>f DEF RunState
  <2> HIDE DEF r
  <2> QED
    BY <2>1, <2>2, FnMoves
<1>s. ASSUME NEW from, NEW res \in {"nil", "error", "canceled"}, Send(t, k, from, res)
      PROVE  TaskInv'
  BY <1>4, <1>s DEF Send
<1>5. CASE FnSkip(t, k)
  <2>1. PICK res \in {"canceled", "error"} :
          res = (IF runs[t][k].ctx = "canceled" THEN "canceled" ELSE "error")
    OBVIOUS
  <2>2. Send(t, k, "spawned", res)
    BY <1>5, <2>1 DEF FnSkip
  <2> QED
    BY <1>s, <2>2
<1>6. CASE FnCall(t, k)
  <2>1. SetFn(t, k, "spawned", "running", "none", cancel[t])
    BY <1>6 DEF FnCall
  <2> QED
    BY <1>f, <1>4, <2>1
<1>7. CASE FnReturn(t, k)
  <2>1. PICK res \in {"nil", "error", "canceled"} : Send(t, k, "running", res)
    BY <1>7 DEF FnReturn
  <2> QED
    BY <1>s, <2>1
<1>8. CASE FnCancel(t, k)
  BY <1>f, <1>8, CancelStep DEF FnCancel
<1> QED
  BY <1>1, <1>2, <1>3, <1>5, <1>6, <1>7, <1>8 DEF RunStep, FnStep

\* A context ends.
LEMMA CtxStep ==
  ASSUME TaskInv, NEW c \in Ctxs, CtxEnds(c)
  PROVE  TaskInv'
<1>f. TaskType /\ runs \in [Tasks -> Seq(RunState)] /\ ctx \in [Ctxs -> Ends]
  BY DEF TaskInv, TaskType
<1>1. PICK how \in {"canceled", "deadline"} : CtxEnd(c, how)
  BY DEF CtxEnds
<1>2. UNCHANGED <<def, state, attempts, err, cancel, call>>
  BY DEF CtxEnds
<1>3. ctx' \in [Ctxs -> Ends]
  BY <1>f, <1>1 DEF CtxEnd, Ends
<1>4. ASSUME NEW u \in Tasks
      PROVE  runs'[u] \in Seq(RunState) /\ SameRuns(u)
  <2> DEFINE e(k) == IF CtxOf[u] = c /\ runs[u][k].ctx = "live"
                     THEN [runs[u][k] EXCEPT !.ctx = how] ELSE runs[u][k]
  <2>1. /\ Len(runs[u]) \in Nat /\ DOMAIN runs[u] = 1 .. Len(runs[u])
        /\ \A k \in DOMAIN runs[u] : runs[u][k] \in RunState
    BY <1>f, TypeFacts
  <2>2. runs'[u] = [k \in 1 .. Len(runs[u]) |-> e(k)]
    BY <1>1, <2>1 DEF CtxEnd
  <2>3. ASSUME NEW k \in 1 .. Len(runs[u])
        PROVE  e(k) \in RunState /\ e(k).pc = runs[u][k].pc /\ e(k).out = runs[u][k].out
    <3>1. runs[u][k] \in RunState
      BY <2>1
    <3>2. [runs[u][k] EXCEPT !.ctx = how] \in RunState
          /\ [runs[u][k] EXCEPT !.ctx = how].pc = runs[u][k].pc
          /\ [runs[u][k] EXCEPT !.ctx = how].out = runs[u][k].out
      BY <3>1 DEF RunState, Ends
    <3>3. e(k) = runs[u][k] \/ e(k) = [runs[u][k] EXCEPT !.ctx = how]
      BY Zenon
    <3> HIDE DEF e
    <3> QED
      BY <3>1, <3>2, <3>3
  <2> HIDE DEF e
  <2>4. [k \in 1 .. Len(runs[u]) |-> e(k)] \in [1 .. Len(runs[u]) -> RunState]
    BY <2>3
  <2>5. runs'[u] \in Seq(RunState) /\ DOMAIN runs'[u] = 1 .. Len(runs[u])
    BY <2>1, <2>2, <2>4, SeqDef
  <2>6. Len(runs'[u]) = Len(runs[u])
    BY <2>1, <2>5, LenProperties
  <2>7. \A k \in 1 .. Len(runs[u]) : runs'[u][k] = e(k)
    BY <2>2
  <2>8. SameRuns(u)
    BY <2>1, <2>3, <2>5, <2>6, <2>7 DEF SameRuns
  <2> QED
    BY <2>5, <2>8
<1>5. runs' \in [Tasks -> Seq(RunState)]
  BY <1>1, <1>4 DEF CtxEnd
<1>6. TaskType'
  BY <1>f, <1>2, <1>3, <1>5 DEF TaskType
<1>7. \A u \in Tasks : Same(u)
  BY <1>2, <1>4 DEF Same
<1> QED
  BY <1>6, <1>7, AllSame

----------------------------------------------------------------------------
(* The theorems. *)

\* A task that was never run.
LEMMA TaskInit == Init => TaskInv
<1> SUFFICES ASSUME Init PROVE TaskInv
  OBVIOUS
<1>1. /\ state \in [Tasks -> States] /\ attempts \in [Tasks -> Nat]
      /\ cancel \in [Tasks -> Nat] /\ def \in [Tasks -> Defs]
      /\ ctx \in [Ctxs -> Ends]
  BY DEF Init, States, Ends
<1>2. err \in [Tasks -> BOOLEAN]
  BY DEF Init
<1>3. call \in [Tasks -> CallState] /\ \A t \in Tasks : call[t] = NoCall
  BY NoCallType DEF Init
<1>4. <<>> \in Seq(RunState) /\ Len(<<>>) = 0 /\ DOMAIN <<>> = {}
  OBVIOUS
<1>5. runs \in [Tasks -> Seq(RunState)] /\ \A t \in Tasks : runs[t] = <<>>
  BY <1>4 DEF Init
<1>6. TaskType
  BY <1>1, <1>2, <1>3, <1>5 DEF TaskType
<1>7. ASSUME NEW t \in Tasks PROVE RunInv(t) /\ SelectInv(t) /\ BudgetInv(t)
  <2>1. DOMAIN runs[t] = {} /\ Len(runs[t]) = 0 /\ Running(t) = {}
    BY <1>4, <1>5 DEF Running
  <2>2. /\ ~call[t].retry /\ call[t].tries = 0 /\ call[t].pc = "idle"
        /\ call[t].ret = "none"
    BY <1>3, NoCallType
  <2>3. RunInv(t)
    BY <2>1 DEF RunInv
  <2>4. SelectInv(t)
    BY <2>1, <2>2 DEF SelectInv, SelectOK
  <2>5. def[t].maxRetries \in Nat
    BY <1>6, TypeFacts
  <2>6. BudgetInv(t)
    BY <2>1, <2>2, <2>5 DEF BudgetInv, BudgetOK
  <2> QED
    BY <2>3, <2>4, <2>6
<1> QED
  BY <1>6, <1>7 DEF TaskInv

\* Every step preserves TaskInv.
LEMMA TaskStep == TaskInv /\ [Next]_vars => TaskInv'
<1> SUFFICES ASSUME TaskInv, [Next]_vars PROVE TaskInv'
  OBVIOUS
<1>1. ASSUME NEW t \in Tasks, CallGo(t) \/ CallGoRetry(t) \/ Caller(t) \/ Cancel(t)
      PROVE  TaskInv'
  <2>1. cancel[t] \in Nat
    BY DEF TaskInv, TaskType
  <2>2. CASE Cancel(t)
    BY <2>1, <2>2, CancelStep DEF Cancel
  <2> QED
    BY <1>1, <2>2, GoStep, StartStep, RetryStep DEF Caller, Go
<1>2. ASSUME NEW t \in Tasks, NEW k \in DOMAIN runs[t],
             RunStep(t, k) \/ FnStep(t, k) \/ FnReturn(t, k) \/ FnCancel(t, k)
      PROVE  TaskInv'
  BY <1>2, RunStepKeeps
<1>3. ASSUME NEW c \in Ctxs, CtxEnds(c) PROVE TaskInv'
  BY <1>3, CtxStep
<1>4. CASE UNCHANGED vars
  <2>1. TaskType' /\ \A u \in Tasks : Same(u)
    BY <1>4 DEF vars, TaskInv, TaskType, Same, SameRuns
  <2> QED
    BY <2>1, AllSame
<1> QED
  BY <1>1, <1>2, <1>3, <1>4 DEF Next

\* TaskInv holds in every reachable state.
LEMMA TaskHolds == Spec => []TaskInv
<1>1. Init => TaskInv
  BY TaskInit
<1>2. TaskInv /\ [Next]_vars => TaskInv'
  BY TaskStep
<1> QED
  BY <1>1, <1>2, PTL DEF Spec

\* Once every run has ended, a run that failed or was canceled has left an error
\* for Err(), for any number of runs and whatever their functions do.
THEOREM ErrAfterAwaitHolds == Spec => []ErrAfterAwait
<1>1. TaskInv => ErrAfterAwait
  BY DEF TaskInv, RunInv, ErrAfterAwait, Awaited
<1> QED
  BY <1>1, TaskHolds, PTL

\* A task with retries never has two runs in their select, whatever the late
\* STARTED of Go and a GoRetry's back-off make of its state.
THEOREM RunsDisjointHolds == Spec => []RunsDisjoint
<1>1. TaskInv => RunsDisjoint
  BY DEF TaskInv, SelectInv, SelectOK, RunsDisjoint
<1> QED
  BY <1>1, TaskHolds, PTL

\* GoRetry makes at most maxRetries runs, and ErrMaxRetriesExceeded means that
\* each of its runs failed, for every maxRetries and every back-off.
THEOREM RetryBudgetHolds == Spec => []RetryBudget
<1>1. TaskInv => RetryBudget
  BY DEF TaskInv, BudgetInv, BudgetOK, Failed, RetryBudget
<1> QED
  BY <1>1, TaskHolds, PTL
==============================================================================

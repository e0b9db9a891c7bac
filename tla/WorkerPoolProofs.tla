--------------------------- MODULE WorkerPoolProofs ---------------------------
(***************************************************************************)
(* Machine-checked safety of WorkerPool, for every set of jobs, every pool  *)
(* size and every number of joins.                                          *)
(***************************************************************************)
EXTENDS WorkerPool, ChannelTheorems, FiniteSetTheorems, WellFoundedInduction

----------------------------------------------------------------------------
(* The autoscaler and the members. *)

Joining == {"join", "start", "record"}
Leaving == {"leave", "left"}

\* What the autoscaler knows at each of its steps: the worker a join works on is
\* subscribed and not joined, that of a leave is joined and one too many, and a
\* batch of joins is never longer than the workers that are left.
ScalerInv ==
  /\ scaler.pc \in {"start", "record", "leave", "left"} => scaler.target \in Workers
  /\ scaler.pc \notin {"start", "record", "leave", "left"} => scaler.target = 0
  /\ scaler.pc \in Joining =>
       /\ scaler.todo >= 1 /\ Cardinality(joined) + scaler.todo <= Size
       /\ \A w \in Workers : w \notin joined /\ w # scaler.target => gen[w] < MaxJoins
  /\ scaler.pc = "start" => gen[scaler.target] < MaxJoins
  /\ scaler.pc \in {"start", "record"} =>
       scaler.target \in subscribers /\ scaler.target \notin joined
  /\ scaler.pc = "record" => gen[scaler.target] >= 1
  /\ scaler.pc \in Leaving =>
       scaler.target \in joined /\ Cardinality(joined) > MinSize
  /\ scaler.pc = "left" => scaler.target \notin subscribers

\* close goes on only when the dispatcher and the autoscaler are gone, and every
\* worker that it or the autoscaler may stop was started.
CloserInv ==
  /\ shutdown <=> closer.pc # "open"
  /\ closer.pc \notin {"open", "draining"} =>
       scaler.pc = "done" /\ dispatcher.pc = "exited"
  /\ closer.pc = "left" => closer.target \in Workers
  /\ \A w \in Workers : w \in joined \/ w \in closer.todo => gen[w] >= 1

----------------------------------------------------------------------------
(* The run loops. *)

\* A loop exists for every join so far, has read the fields of some join when it
\* is in a select, and has a job exactly from the receive to the handler's end.
LoopInv ==
  \A l \in Loops :
    /\ loop[l].pc = "none" <=> gen[l[1]] < l[2]
    /\ loop[l].pc \in {"offer", "parked"} => loop[l].ctx >= 1 /\ loop[l].input >= 1
    /\ loop[l].pc \in {"received", "running"} <=> loop[l].job # NoJob

\* The dispatcher has a job while it looks for a worker.
DispatcherInv == dispatcher.pc \in {"select", "exited"} <=> dispatcher.job = NoJob

PoolInv ==
  /\ TypeOK /\ Len(claimsCh) <= Size /\ DispatcherInv
  /\ ScalerInv /\ CloserInv /\ MembershipConsistent /\ LoopInv

\* Worker w may be joined anew: it is neither joined nor in the middle of it.
Idle(w) == /\ scaler.pc # "done" /\ w \notin joined
           /\ ~(scaler.pc = "record" /\ scaler.target = w)

\* A worker whose leaves all ended in time: the loops of its earlier joins have
\* exited, that of the last runs with a ctxFn or has exited, and it has exited
\* before the worker may be joined again.
SingleOK(w) ==
  /\ \A g \in 1 .. MaxJoins : g < gen[w] => loop[<<w, g>>].pc = "exited"
  /\ gen[w] >= 1 => \/ loop[<<w, gen[w]>>].pc = "exited"
                    \/ loop[<<w, gen[w]>>].pc \in LivePCs /\ hasCtx[w]
  /\ Idle(w) /\ gen[w] >= 1 => loop[<<w, gen[w]>>].pc = "exited"

SingleInv == \A w \in Workers : w \notin timedOut => SingleOK(w)

----------------------------------------------------------------------------
(* The place of a job. *)

Kinds == {"fresh", "submitting", "refused", "backlog", "dispatcher", "received",
          "handled", "failed"}

\* Job j is with its caller, in the backlog, with the dispatcher, handled or
\* reported (l is then <<0, 0>>), or run loop l has received it.
NoLoop == <<0, 0>>
At(k, l, j) ==
  \/ /\ l = NoLoop
     /\ \/ k = "fresh" /\ j \in fresh
        \/ k = "submitting" /\ j \in submitting
        \/ k = "refused" /\ j \in refused
        \/ k = "backlog" /\ j \in Elems(backlog)
        \/ k = "dispatcher" /\ dispatcher.job = j
        \/ k = "handled" /\ runs[j] = 1
        \/ k = "failed" /\ j \in failed
  \/ k = "received" /\ l \in Loops /\ loop[l].pc = "received" /\ loop[l].job = j

Spots == Loops \cup {NoLoop}

\* A job is somewhere, and nowhere else.
OnePlace(j) ==
  /\ \E k \in Kinds, l \in Spots : At(k, l, j)
  /\ \A k, m \in Kinds, l, n \in Spots : At(k, l, j) /\ At(m, n, j) => k = m /\ l = n

PlaceInv ==
  /\ \A j \in Jobs : OnePlace(j) /\ runs[j] \in {0, 1}
  /\ Injective(backlog)

\* A job that GracefulShutdown is to drain is past Submit, and past the
\* backlog and the dispatcher when the dispatcher saw an empty backlog.
DrainInv ==
  /\ dispatcher.pc = "exited" => shutdown \/ poolDone
  /\ \A j \in promised :
       /\ j \notin fresh \cup submitting \cup refused
       /\ dispatcher.pc = "exited" /\ ~poolDone =>
            j \notin Elems(backlog) /\ dispatcher.job # j

----------------------------------------------------------------------------
(* Sets of workers. *)

\* A set of naturals that is not empty has a least element, Min.
Less == {p \in Nat \X Nat : p[1] < p[2]}

LEMMA MinIn ==
  ASSUME NEW S, S \subseteq Nat, S # {}
  PROVE  Min(S) \in S
<1>1. IsWellFoundedOn(Less, Nat)
  BY NatLessThanWellFounded, Zenon DEF OpToRel, Less
<1>2. \E x \in S : \A z \in S : <<z, x>> \notin Less
  BY <1>1, WFMin
<1>3. \A x, z \in Nat : <<z, x>> \notin Less => x <= z
  BY DEF Less
<1>4. \E x \in S : \A z \in S : x <= z
  BY <1>2, <1>3
<1> QED
  BY <1>4 DEF Min

\* Sets of workers are finite, and one that is smaller than the pool leaves a
\* worker out.
LEMMA WorkerSets ==
  ASSUME NEW S, S \subseteq Workers
  PROVE  /\ IsFiniteSet(S) /\ Cardinality(S) \in Nat /\ Cardinality(S) <= Size
         /\ Cardinality(S) < Size => Workers \ S # {}
         /\ \A w : w \notin S => Cardinality(S \cup {w}) = Cardinality(S) + 1
         /\ \A w \in S : Cardinality(S \ {w}) = Cardinality(S) - 1
<1>1. Size \in Nat \ {0}
  BY PoolAssumption
<1>2. IsFiniteSet(Workers) /\ Cardinality(Workers) = Size
  BY <1>1, FS_Interval DEF Workers
<1>3. IsFiniteSet(S) /\ Cardinality(S) <= Size
  BY <1>2, FS_Subset
<1>4. Cardinality(S) \in Nat
  BY <1>3, FS_CardinalityType
<1>5. ASSUME Cardinality(S) < Size PROVE Workers \ S # {}
  <2>1. SUFFICES ASSUME Workers \ S = {} PROVE FALSE
    OBVIOUS
  <2>2. S = Workers
    BY <2>1
  <2> QED
    BY <1>1, <1>2, <1>5, <2>2
<1>6. \A w : w \notin S => Cardinality(S \cup {w}) = Cardinality(S) + 1
  BY <1>3, FS_AddElement
<1>7. \A w \in S : Cardinality(S \ {w}) = Cardinality(S) - 1
  BY <1>3, FS_RemoveElement
<1> QED
  BY <1>3, <1>4, <1>5, <1>6, <1>7

----------------------------------------------------------------------------
(* The run loops, one step at a time. *)

\* The step changes no run loop but l.
OnlyLoop(l) == /\ loop' \in [Loops -> LoopState]
               /\ \A k \in Loops : k # l => loop'[k] = loop[k]

\* A run loop gets a new state.
LEMMA LoopSet ==
  ASSUME loop \in [Loops -> LoopState], NEW l \in Loops, NEW s \in LoopState,
         loop' = [loop EXCEPT ![l] = s]
  PROVE  OnlyLoop(l) /\ loop'[l] = s
BY DEF OnlyLoop

\* The parameters of the pool.
LEMMA ConstFacts ==
  /\ Size \in Nat /\ Size >= 1 /\ MaxJoins \in Nat /\ MaxJoins >= 1
  /\ MinSize \in Nat /\ MinSize >= 1 /\ MinSize <= Size
  /\ ScaleUpStep \in Nat /\ ScaleUpStep >= 1 /\ Backlog \in Nat
  /\ NoJob \notin Jobs /\ 0 \notin Workers /\ Workers \subseteq Nat
BY PoolAssumption DEF Workers

\* The state of a loop that starts, goes around, receives or ends.
LEMMA LoopAtFacts ==
  ASSUME NEW pc \in LivePCs \cup {"none", "exited", "panicked"}
  PROVE  /\ LoopAt(pc) \in LoopState
         /\ LoopAt(pc).pc = pc /\ LoopAt(pc).job = NoJob
BY ConstFacts DEF LoopAt, LoopState

\* What each loop is known to have.
LEMMA LoopFields ==
  ASSUME loop \in [Loops -> LoopState], NEW l \in Loops
  PROVE  /\ loop[l] \in LoopState
         /\ loop[l].pc \in LivePCs \cup {"none", "exited", "panicked"}
         /\ loop[l].ctx \in 0 .. MaxJoins /\ loop[l].input \in 0 .. MaxJoins
         /\ loop[l].job \in Jobs \cup {NoJob}
         /\ l[1] \in Workers /\ l[2] \in 1 .. MaxJoins /\ l = <<l[1], l[2]>>
BY DEF LoopState, Loops

\* A loop that enters a select sees the fields of some join, or panics.
LEMMA ReadFacts ==
  ASSUME TypeOK, LoopInv, NEW l \in Loops, loop[l].pc # "none",
         NEW pc \in {"offer", "parked"}, Read(l, pc)
  PROVE  /\ OnlyLoop(l)
         /\ \/ /\ hasCtx[l[1]] /\ loop'[l].pc = pc /\ loop'[l].job = loop[l].job
               /\ loop'[l].ctx >= 1 /\ loop'[l].input >= 1
            \/ ~hasCtx[l[1]] /\ loop'[l].pc = "panicked" /\ loop'[l].job = NoJob
<1>1. loop \in [Loops -> LoopState] /\ gen \in [Workers -> 0 .. MaxJoins]
  BY DEF TypeOK
<1>2. /\ loop[l] \in LoopState /\ l[1] \in Workers /\ l[2] \in 1 .. MaxJoins
  BY <1>1, LoopFields
<1>3. gen[l[1]] \in 0 .. MaxJoins /\ gen[l[1]] >= l[2]
  <2>1. gen[l[1]] \in 0 .. MaxJoins
    BY <1>1, <1>2
  <2>2. ~(gen[l[1]] < l[2])
    BY DEF LoopInv
  <2> QED
    BY <1>2, <2>1, <2>2, ConstFacts
<1>4. Visible(l) \subseteq 1 .. MaxJoins
  BY <1>2, <1>3, ConstFacts DEF Visible
<1>5. CASE hasCtx[l[1]]
  <2>1. PICK c \in 1 .. MaxJoins, i \in 1 .. MaxJoins :
          loop' = [loop EXCEPT ![l].pc = pc, ![l].ctx = c, ![l].input = i]
    BY <1>4, <1>5 DEF Read
  <2> DEFINE s == [loop[l] EXCEPT !.pc = pc, !.ctx = c, !.input = i]
  <2>2. loop' = [loop EXCEPT ![l] = s]
    BY <2>1
  <2>3. pc \in LivePCs /\ c \in 0 .. MaxJoins /\ i \in 0 .. MaxJoins
    BY ConstFacts DEF LivePCs
  <2>4. s \in LoopState
    BY <1>2, <2>3 DEF LoopState
  <2>5. s.pc = pc /\ s.job = loop[l].job /\ s.ctx = c /\ s.input = i
    BY <1>2 DEF LoopState
  <2> HIDE DEF s
  <2>6. OnlyLoop(l) /\ loop'[l] = s
    BY <1>1, <2>2, <2>4, LoopSet
  <2> QED
    BY <1>5, <2>5, <2>6, ConstFacts
<1>6. CASE ~hasCtx[l[1]]
  <2>1. loop' = [loop EXCEPT ![l] = LoopAt("panicked")]
    BY <1>6 DEF Read
  <2> QED
    BY <1>1, <1>6, <2>1, LoopAtFacts, LoopSet
<1> QED
  BY <1>5, <1>6

\* A step of one run loop, and what it needs to keep LoopInv.
LEMMA LoopKept ==
  ASSUME LoopInv, NEW l \in Loops, OnlyLoop(l), UNCHANGED gen,
         loop[l].pc # "none", loop'[l].pc # "none",
         loop'[l].pc \in {"offer", "parked"} =>
           loop'[l].ctx >= 1 /\ loop'[l].input >= 1,
         loop'[l].pc \in {"received", "running"} <=> loop'[l].job # NoJob
  PROVE  LoopInv'
<1> SUFFICES ASSUME NEW k \in Loops
             PROVE  /\ loop'[k].pc = "none" <=> gen[k[1]] < k[2]
                    /\ loop'[k].pc \in {"offer", "parked"} =>
                         loop'[k].ctx >= 1 /\ loop'[k].input >= 1
                    /\ loop'[k].pc \in {"received", "running"}
                         <=> loop'[k].job # NoJob
  BY DEF LoopInv
<1>1. CASE k = l
  BY <1>1 DEF LoopInv
<1>2. CASE k # l
  BY <1>2 DEF LoopInv, OnlyLoop
<1> QED
  BY <1>1, <1>2

\* How the pc of a loop may change, by the loop itself.
LEMMA LoopFacts ==
  ASSUME TypeOK, LoopInv, Len(claimsCh) <= Size,
         NEW l \in Loops, LoopStep(l) \/ LoopFinish(l)
  PROVE  /\ OnlyLoop(l) /\ LoopInv' /\ loop[l].pc \in LivePCs
         /\ \/ loop'[l].pc \in LivePCs
            \/ loop'[l].pc = "exited"
            \/ ~hasCtx[l[1]] /\ loop'[l].pc = "panicked"
         /\ claimsCh' \in Seq(Claim) /\ Len(claimsCh') <= Size
         /\ running' \in [Workers -> BOOLEAN]
<1>t. /\ loop \in [Loops -> LoopState] /\ running \in [Workers -> BOOLEAN]
      /\ claimsCh \in Seq(Claim)
  BY DEF TypeOK
<1>l. /\ loop[l] \in LoopState /\ loop[l].job \in Jobs \cup {NoJob}
      /\ l[1] \in Workers
      /\ loop[l].input \in 0 .. MaxJoins
      /\ loop[l].pc # "none" <=> ~(gen[l[1]] < l[2])
      /\ loop[l].pc \in {"offer", "parked"} => loop[l].input >= 1
      /\ loop[l].pc \in {"received", "running"} <=> loop[l].job # NoJob
  BY <1>t, LoopFields DEF LoopInv
<1>p. LivePCs = {"loop", "offer", "parked", "received", "running"}
  BY DEF LivePCs
<1>1. CASE LoopEnter(l)
  <2>1. /\ loop[l].pc = "loop" /\ Read(l, "offer")
        /\ UNCHANGED <<claimsCh, running, gen>>
    BY <1>1 DEF LoopEnter, memberVars
  <2>2. /\ OnlyLoop(l)
        /\ \/ /\ hasCtx[l[1]] /\ loop'[l].pc = "offer" /\ loop'[l].job = loop[l].job
              /\ loop'[l].ctx >= 1 /\ loop'[l].input >= 1
           \/ ~hasCtx[l[1]] /\ loop'[l].pc = "panicked" /\ loop'[l].job = NoJob
    BY <2>1, ReadFacts
  <2>3. LoopInv'
    BY <1>l, <2>1, <2>2, LoopKept
  <2> QED
    BY <1>t, <1>p, <2>1, <2>2, <2>3
<1>2. CASE LoopOffer(l)
  <2>1. /\ loop[l].pc = "offer" /\ Read(l, "parked") /\ Len(claimsCh) < Size
        /\ claimsCh' = Append(claimsCh, [worker |-> l[1], gen |-> loop[l].input])
        /\ UNCHANGED <<running, gen>>
    BY <1>2 DEF LoopOffer, memberVars
  <2>2. /\ OnlyLoop(l)
        /\ \/ /\ hasCtx[l[1]] /\ loop'[l].pc = "parked" /\ loop'[l].job = loop[l].job
              /\ loop'[l].ctx >= 1 /\ loop'[l].input >= 1
           \/ ~hasCtx[l[1]] /\ loop'[l].pc = "panicked" /\ loop'[l].job = NoJob
    BY <2>1, ReadFacts
  <2>3. LoopInv'
    BY <1>l, <2>1, <2>2, LoopKept
  <2>4. [worker |-> l[1], gen |-> loop[l].input] \in Claim
    BY <1>l, <2>1, ConstFacts DEF Claim
  <2>5. claimsCh' \in Seq(Claim) /\ Len(claimsCh) \in Nat
        /\ Len(claimsCh') = Len(claimsCh) + 1
    BY <1>t, <2>1, <2>4, AppendElems
  <2>6. Len(claimsCh') <= Size
    BY <2>1, <2>5, ConstFacts
  <2> QED
    BY <1>t, <1>p, <2>1, <2>2, <2>3, <2>5, <2>6
<1>3. CASE LoopIdle(l) \/ LoopExit(l) \/ LoopFinish(l)
  <2>1. PICK pc \in {"loop", "exited"} : loop' = [loop EXCEPT ![l] = LoopAt(pc)]
    BY <1>3 DEF LoopIdle, LoopExit, LoopFinish
  <2>2. /\ loop[l].pc \in {"offer", "parked", "running"} /\ UNCHANGED <<claimsCh, gen>>
        /\ running' \in [Workers -> BOOLEAN]
    BY <1>t, <1>3 DEF LoopIdle, LoopExit, LoopFinish, memberVars
  <2>3. pc \in LivePCs \cup {"none", "exited", "panicked"}
    BY <1>p
  <2>4. OnlyLoop(l) /\ loop'[l].pc = pc /\ loop'[l].job = NoJob
    BY <1>t, <2>1, <2>3, LoopAtFacts, LoopSet
  <2>5. LoopInv'
    BY <1>l, <2>2, <2>4, LoopKept
  <2> QED
    BY <1>t, <1>p, <2>2, <2>4, <2>5
<1>4. CASE LoopRun(l)
  <2> DEFINE s == [loop[l] EXCEPT !.pc = "running"]
  <2>1. /\ loop[l].pc = "received" /\ loop' = [loop EXCEPT ![l] = s]
        /\ UNCHANGED <<claimsCh, gen>> /\ running' \in [Workers -> BOOLEAN]
    BY <1>t, <1>4 DEF LoopRun, memberVars
  <2>2. s \in LoopState /\ s.pc = "running" /\ s.job = loop[l].job
    BY <1>l, <1>p DEF LoopState
  <2> HIDE DEF s
  <2>3. OnlyLoop(l) /\ loop'[l].pc = "running" /\ loop'[l].job = loop[l].job
    BY <1>t, <2>1, <2>2, LoopSet
  <2>4. LoopInv'
    BY <1>l, <2>1, <2>3, LoopKept
  <2> QED
    BY <1>t, <1>p, <2>1, <2>3, <2>4
<1> QED
  BY <1>1, <1>2, <1>3, <1>4 DEF LoopStep

----------------------------------------------------------------------------
(* PoolInv is inductive. *)

\* A step of the callers, the dispatcher or a run loop.
LEMMA PoolKept ==
  ASSUME PoolInv, TypeOK', Len(claimsCh') <= Size, DispatcherInv', LoopInv',
         UNCHANGED <<scaler, joined, subscribers, gen, closer, shutdown>>,
         dispatcher.pc = "exited" => dispatcher'.pc = "exited"
  PROVE  PoolInv'
<1>1. ScalerInv'
  BY DEF PoolInv, ScalerInv
<1>2. CloserInv'
  BY DEF PoolInv, CloserInv
<1>3. MembershipConsistent'
  BY DEF PoolInv, MembershipConsistent
<1> QED
  BY <1>1, <1>2, <1>3 DEF PoolInv

\* Submit.
LEMMA SubmitStep ==
  ASSUME PoolInv, Submitter
  PROVE  PoolInv'
<1>f. TypeOK /\ LoopInv /\ DispatcherInv /\ Len(claimsCh) <= Size
      /\ backlog \in Seq(Jobs) /\ Len(backlog) <= Backlog
  BY DEF PoolInv, TypeOK
<1> PICK j \in Jobs : SubmitStart(j) \/ SubmitSend(j) \/ SubmitFail(j)
  BY DEF Submitter
<1>1. /\ fresh' \subseteq Jobs /\ submitting' \subseteq Jobs /\ refused' \subseteq Jobs
      /\ UNCHANGED <<dispatcher, claimsCh, memberVars, running, loop, scaler,
                     closer, lifeVars, runs, failed>>
  BY <1>f DEF SubmitStart, SubmitSend, SubmitFail, TypeOK
<1>2. backlog' \in Seq(Jobs) /\ Len(backlog') <= Backlog
  <2>1. CASE SubmitSend(j)
    <3>1. backlog' = Append(backlog, j) /\ Len(backlog) < Backlog
      BY <2>1 DEF SubmitSend
    <3>2. /\ backlog' \in Seq(Jobs) /\ Len(backlog) \in Nat
          /\ Len(backlog') = Len(backlog) + 1
      BY <1>f, <3>1, AppendElems
    <3> QED
      BY <3>1, <3>2, ConstFacts
  <2>2. CASE SubmitStart(j) \/ SubmitFail(j)
    BY <1>f, <2>2 DEF SubmitStart, SubmitFail
  <2> QED
    BY <2>1, <2>2
<1>3. TypeOK'
  BY <1>f, <1>1, <1>2 DEF TypeOK, memberVars, lifeVars
<1>4. LoopInv' /\ DispatcherInv'
  BY <1>f, <1>1 DEF LoopInv, DispatcherInv, memberVars
<1> QED
  BY <1>f, <1>1, <1>3, <1>4, PoolKept DEF memberVars, lifeVars

\* What each step of the dispatcher does to it.
LEMMA DispatcherFacts ==
  ASSUME TypeOK, DispatcherInv, Dispatcher
  PROVE  /\ dispatcher.pc # "exited" /\ dispatcher' \in DispatcherState
         /\ DispatcherInv'
<1>1. dispatcher \in DispatcherState /\ backlog \in Seq(Jobs)
      /\ claimsCh \in Seq(Claim)
  BY DEF TypeOK
<1>2. CASE DispatcherTake
  <2>1. Head(backlog) \in Jobs
    BY <1>1, <1>2, TailElems DEF DispatcherTake
  <2> QED
    BY <1>1, <1>2, <2>1, ConstFacts DEF DispatcherTake, DispatcherInv, DispatcherState
<1>3. CASE DispatcherExit
  BY <1>1, <1>3 DEF DispatcherExit, DispatcherInv, DispatcherState
<1>4. CASE DispatcherPull
  <2>1. Head(claimsCh) \in Claim
    BY <1>1, <1>4, TailElems DEF DispatcherPull
  <2> QED
    BY <1>1, <1>4, <2>1 DEF DispatcherPull, DispatcherInv, DispatcherState
<1>5. CASE DispatcherCheck
  <2>1. CASE dispatcher.claim.worker \in subscribers
    BY <1>1, <1>5, <2>1 DEF DispatcherCheck, DispatcherInv, DispatcherState
  <2>2. CASE dispatcher.claim.worker \notin subscribers
    BY <1>1, <1>5, <2>2 DEF DispatcherCheck, DispatcherInv, DispatcherState
  <2> QED
    BY <2>1, <2>2
<1>6. ASSUME NEW l \in Loops, DispatcherSend(l)
      PROVE  /\ dispatcher.pc # "exited" /\ dispatcher' \in DispatcherState
             /\ DispatcherInv'
  BY <1>1, <1>6 DEF DispatcherSend, DispatcherInv, DispatcherState
<1>7. CASE DispatcherSendTimeout
  BY <1>1, <1>7 DEF DispatcherSendTimeout, DispatcherInv, DispatcherState
<1>8. CASE DispatcherGiveUp
  BY <1>1, <1>8 DEF DispatcherGiveUp, DispatcherInv, DispatcherState
<1> QED
  BY <1>2, <1>3, <1>4, <1>5, <1>6, <1>7, <1>8 DEF Dispatcher

\* The dispatcher hands its job to a run loop that is parked.
LEMMA SendFacts ==
  ASSUME TypeOK, DispatcherInv, LoopInv, NEW l \in Loops, DispatcherSend(l)
  PROVE  /\ OnlyLoop(l) /\ LoopInv' /\ loop[l].pc = "parked"
         /\ loop'[l].pc = "received" /\ loop'[l].job = dispatcher.job
         /\ dispatcher.job \in Jobs
<1>1. loop \in [Loops -> LoopState] /\ dispatcher \in DispatcherState
  BY DEF TypeOK
<1>2. dispatcher.job \in Jobs
  BY <1>1 DEF DispatcherState, DispatcherInv, DispatcherSend
<1> DEFINE s == [LoopAt("received") EXCEPT !.job = dispatcher.job]
<1>3. /\ loop[l].pc = "parked" /\ loop' = [loop EXCEPT ![l] = s] /\ gen' = gen
  BY DEF DispatcherSend, memberVars
<1>4. s \in LoopState /\ s.pc = "received" /\ s.job = dispatcher.job
  BY <1>2, ConstFacts DEF LoopState, LoopAt, LivePCs
<1> HIDE DEF s
<1>5. OnlyLoop(l) /\ loop'[l] = s
  BY <1>1, <1>3, <1>4, LoopSet
<1>6. LoopInv'
  BY <1>2, <1>3, <1>4, <1>5, LoopKept, ConstFacts
<1> QED
  BY <1>2, <1>3, <1>4, <1>5, <1>6

\* The dispatcher.
LEMMA DispatcherStep ==
  ASSUME PoolInv, Dispatcher
  PROVE  PoolInv'
<1>f. TypeOK /\ LoopInv /\ DispatcherInv /\ Len(claimsCh) <= Size
      /\ backlog \in Seq(Jobs) /\ Len(backlog) <= Backlog
      /\ claimsCh \in Seq(Claim) /\ dispatcher \in DispatcherState
      /\ failed \subseteq Jobs /\ loop \in [Loops -> LoopState]
  BY DEF PoolInv, TypeOK
<1>1. /\ dispatcher.pc # "exited" /\ dispatcher' \in DispatcherState
      /\ DispatcherInv'
  BY <1>f, DispatcherFacts
<1>2. backlog' \in Seq(Jobs) /\ Len(backlog') <= Backlog
  <2>1. CASE DispatcherTake
    <3>1. backlog # <<>> /\ backlog' = Tail(backlog)
      BY <2>1 DEF DispatcherTake
    <3>2. /\ backlog' \in Seq(Jobs) /\ Len(backlog) \in Nat
          /\ Len(backlog') = Len(backlog) - 1
      BY <1>f, <3>1, TailElems
    <3> QED
      BY <1>f, <3>2, ConstFacts
  <2>2. CASE ~DispatcherTake
    BY <1>f, <2>2 DEF Dispatcher, DispatcherExit, DispatcherPull, DispatcherCheck,
         DispatcherSend, DispatcherSendTimeout, DispatcherGiveUp
  <2> QED
    BY <2>1, <2>2
<1>3. claimsCh' \in Seq(Claim) /\ Len(claimsCh') <= Size
  <2>1. CASE DispatcherPull
    <3>1. claimsCh # <<>> /\ claimsCh' = Tail(claimsCh)
      BY <2>1 DEF DispatcherPull
    <3>2. /\ claimsCh' \in Seq(Claim) /\ Len(claimsCh) \in Nat
          /\ Len(claimsCh') = Len(claimsCh) - 1
      BY <1>f, <3>1, TailElems
    <3> QED
      BY <1>f, <3>2, ConstFacts
  <2>2. CASE ~DispatcherPull
    BY <1>f, <2>2 DEF Dispatcher, DispatcherExit, DispatcherTake, DispatcherCheck,
         DispatcherSend, DispatcherSendTimeout, DispatcherGiveUp
  <2> QED
    BY <2>1, <2>2
<1>4. loop' \in [Loops -> LoopState] /\ LoopInv'
  <2>1. ASSUME NEW l \in Loops, DispatcherSend(l)
        PROVE  loop' \in [Loops -> LoopState] /\ LoopInv'
    BY <1>f, <2>1, SendFacts DEF OnlyLoop
  <2>2. CASE ~\E l \in Loops : DispatcherSend(l)
    <3>1. UNCHANGED <<loop, gen>>
      BY <2>2 DEF Dispatcher, DispatcherExit, DispatcherTake, DispatcherPull,
         DispatcherCheck, DispatcherSendTimeout, DispatcherGiveUp, memberVars
    <3> QED
      BY <1>f, <3>1 DEF LoopInv
  <2> QED
    BY <2>1, <2>2
<1>5. failed' \subseteq Jobs
  <2>1. CASE DispatcherGiveUp
    BY <1>f, <2>1 DEF DispatcherGiveUp, DispatcherState, DispatcherInv
  <2>2. CASE ~DispatcherGiveUp
    BY <1>f, <2>2 DEF Dispatcher, DispatcherExit, DispatcherTake, DispatcherPull,
         DispatcherCheck, DispatcherSend, DispatcherSendTimeout
  <2> QED
    BY <2>1, <2>2
<1>6. UNCHANGED <<submitVars, memberVars, running, scaler, closer, lifeVars, runs>>
  BY DEF Dispatcher, DispatcherExit, DispatcherTake, DispatcherPull,
         DispatcherCheck, DispatcherSend, DispatcherSendTimeout, DispatcherGiveUp
<1>7. TypeOK'
  BY <1>f, <1>1, <1>2, <1>3, <1>4, <1>5, <1>6
     DEF TypeOK, submitVars, memberVars, lifeVars
<1> QED
  BY <1>f, <1>1, <1>3, <1>4, <1>6, <1>7, PoolKept DEF memberVars, lifeVars

\* The run loops.
LEMMA LoopsStep ==
  ASSUME PoolInv, NEW l \in Loops, LoopStep(l) \/ LoopFinish(l)
  PROVE  PoolInv'
<1>f. TypeOK /\ LoopInv /\ DispatcherInv /\ Len(claimsCh) <= Size
  BY DEF PoolInv
<1>1. /\ loop' \in [Loops -> LoopState] /\ LoopInv'
      /\ claimsCh' \in Seq(Claim) /\ Len(claimsCh') <= Size
      /\ running' \in [Workers -> BOOLEAN]
  BY <1>f, LoopFacts DEF OnlyLoop
<1>2. UNCHANGED <<submitVars, backlog, dispatcher, memberVars, scaler, closer,
                  lifeVars, failed>>
  BY DEF LoopStep, LoopEnter, LoopIdle, LoopOffer, LoopExit, LoopRun, LoopFinish
<1>3. runs' \in [Jobs -> Nat]
  BY <1>f DEF TypeOK, LoopStep, LoopEnter, LoopIdle, LoopOffer, LoopExit, LoopRun,
     LoopFinish
<1>4. TypeOK'
  BY <1>f, <1>1, <1>2, <1>3 DEF TypeOK, submitVars, memberVars, lifeVars
<1>5. DispatcherInv'
  BY <1>f, <1>2 DEF DispatcherInv
<1> QED
  BY <1>f, <1>1, <1>2, <1>4, <1>5, PoolKept DEF memberVars, lifeVars

\* The fields of the autoscaler.
LEMMA ScalerFields ==
  ASSUME TypeOK
  PROVE  /\ scaler \in ScalerState
         /\ scaler.pc \in {"idle", "snap", "join", "start", "record", "leave",
                           "left", "done"}
         /\ scaler.todo \in Nat /\ scaler.todo <= Size
         /\ joined \subseteq Workers /\ subscribers \subseteq Workers
         /\ Cardinality(joined) \in Nat /\ Cardinality(joined) <= Size
         /\ gen \in [Workers -> 0 .. MaxJoins] /\ \A w \in Workers : gen[w] \in Nat
         /\ canceled \subseteq Loops /\ timedOut \subseteq Workers
         /\ loop \in [Loops -> LoopState] /\ hasCtx \in [Workers -> BOOLEAN]
<1>1. joined \subseteq Workers /\ gen \in [Workers -> 0 .. MaxJoins]
      /\ scaler \in ScalerState
  BY DEF TypeOK
<1>2. Cardinality(joined) \in Nat /\ Cardinality(joined) <= Size
  BY <1>1, WorkerSets
<1>3. \A w \in Workers : gen[w] \in Nat
  BY <1>1, ConstFacts
<1>4. scaler.todo \in Nat /\ scaler.todo <= Size
  BY <1>1, ConstFacts DEF ScalerState
<1> QED
  BY <1>1, <1>2, <1>3, <1>4 DEF TypeOK, ScalerState

\* The autoscaler changes itself and the members only.
LEMMA ScalerType ==
  ASSUME TypeOK, scaler' \in ScalerState,
         subscribers' \subseteq Workers, joined' \subseteq Workers,
         gen' \in [Workers -> 0 .. MaxJoins], hasCtx' \in [Workers -> BOOLEAN],
         canceled' \subseteq Loops, timedOut' \subseteq Workers,
         loop' \in [Loops -> LoopState],
         UNCHANGED <<submitVars, backlog, dispatcher, claimsCh, running, closer,
                     lifeVars, runs, failed>>
  PROVE  TypeOK'
BY DEF TypeOK, submitVars, lifeVars

\* A step of the autoscaler that leaves the members alone.
LEMMA ScalerKept ==
  ASSUME PoolInv, scaler' \in ScalerState, ScalerInv',
         scaler'.target = scaler.target \/ scaler'.target \in joined,
         scaler.target = 0, scaler.pc = "done" => scaler'.pc = "done",
         UNCHANGED <<submitVars, backlog, dispatcher, claimsCh, memberVars,
                     running, loop, closer, lifeVars, runs, failed>>
  PROVE  PoolInv'
<1>1. TypeOK'
  BY ScalerFields, ScalerType DEF PoolInv, memberVars
<1>2. CloserInv'
  BY DEF PoolInv, CloserInv, memberVars, lifeVars
<1>3. MembershipConsistent'
  <2>1. 0 \notin joined /\ 0 \notin subscribers
    BY ScalerFields, ConstFacts DEF PoolInv
  <2> QED
    BY <2>1 DEF PoolInv, MembershipConsistent, memberVars
<1>4. LoopInv' /\ DispatcherInv'
  BY DEF PoolInv, LoopInv, DispatcherInv, memberVars
<1> QED
  BY <1>1, <1>2, <1>3, <1>4 DEF PoolInv

\* The autoscaler looks, decides, ends.
LEMMA ScalerDecides ==
  ASSUME PoolInv,
         \/ ScalerTick \/ ScalerHold \/ ScalerUp \/ ScalerExit
         \/ \E w \in Workers : ScalerDown(w)
  PROVE  PoolInv'
<1>f. /\ TypeOK /\ ScalerInv /\ claimsCh \in Seq(Claim) /\ Len(claimsCh) <= Size
      /\ scaler \in ScalerState /\ joined \subseteq Workers
      /\ Cardinality(joined) \in Nat /\ Cardinality(joined) <= Size
  BY ScalerFields DEF PoolInv, TypeOK
<1>l. Len(claimsCh) \in 0 .. Size
  BY <1>f, LenProperties, ConstFacts
<1>u. UNCHANGED <<submitVars, backlog, dispatcher, claimsCh, memberVars, running,
                  loop, closer, lifeVars, runs, failed>>
  BY DEF ScalerTick, ScalerHold, ScalerUp, ScalerExit, ScalerDown
<1>t. scaler.pc \in {"idle", "snap"} /\ scaler.target = 0
  BY <1>f DEF ScalerTick, ScalerHold, ScalerUp, ScalerExit, ScalerDown, ScalerInv
<1>z. 0 \in 0 .. Size
  BY ConstFacts
<1> SUFFICES /\ scaler' \in ScalerState /\ ScalerInv'
             /\ scaler'.target = scaler.target \/ scaler'.target \in joined
  BY <1>t, <1>u, ScalerKept
<1>1. CASE ScalerTick \/ ScalerHold \/ ScalerExit
  <2>1. PICK pc \in {"idle", "snap", "done"}, i \in 0 .. Size :
          scaler' = [scaler EXCEPT !.pc = pc, !.idle = i]
    <3>1. CASE ScalerTick
      BY <1>l, <3>1 DEF ScalerTick
    <3>2. CASE ScalerHold
      BY <1>z, <3>2 DEF ScalerHold
    <3>3. CASE ScalerExit
      <4>1. scaler' = [scaler EXCEPT !.pc = "done", !.idle = scaler.idle]
            /\ scaler.idle \in 0 .. Size
        BY <1>f, <3>3 DEF ScalerExit, ScalerState
      <4> QED
        BY <4>1
    <3> QED
      BY <1>1, <3>1, <3>2, <3>3
  <2>2. /\ scaler' \in ScalerState /\ scaler'.pc = pc
        /\ scaler'.target = scaler.target
    BY <1>f, <2>1 DEF ScalerState
  <2>3. ScalerInv'
    BY <1>t, <2>2 DEF ScalerInv, Joining, Leaving
  <2> QED
    BY <2>2, <2>3
<1>2. CASE ScalerUp
  <2>1. PICK n : n = Min({ScaleUpStep, Size - Cardinality(joined)})
    OBVIOUS
  <2>2. /\ scaler' = [scaler EXCEPT !.pc = "join", !.idle = 0, !.todo = n]
        /\ Cardinality(joined) < Size
        /\ \A w \in Workers \ joined : gen[w] < MaxJoins
    BY <1>2, <2>1 DEF ScalerUp, ShouldScaleUp
  <2>3. n \in Nat /\ n >= 1 /\ n <= Size - Cardinality(joined)
    <3>1. PICK m \in Nat : m = Size - Cardinality(joined) /\ m >= 1
      BY <1>f, <2>2, ConstFacts
    <3>2. \E x \in {ScaleUpStep, m} : \A z \in {ScaleUpStep, m} : x <= z
      BY ConstFacts
    <3>3. n \in {ScaleUpStep, m} /\ \A z \in {ScaleUpStep, m} : n <= z
      BY <2>1, <3>1, <3>2 DEF Min
    <3> QED
      BY <3>1, <3>3, ConstFacts
  <2>4. n \in 0 .. Size
    BY <1>f, <2>3, ConstFacts
  <2>5. /\ scaler' \in ScalerState /\ scaler'.pc = "join"
        /\ scaler'.target = scaler.target /\ scaler'.todo = n
    BY <1>f, <1>z, <2>2, <2>4 DEF ScalerState
  <2>6. Cardinality(joined) + n <= Size
    BY <1>f, <2>3, ConstFacts
  <2>7. UNCHANGED <<joined, gen, subscribers>>
    BY <1>u DEF memberVars
  <2>8. ScalerInv'
    BY <1>t, <2>2, <2>3, <2>5, <2>6, <2>7 DEF ScalerInv, Joining, Leaving
  <2> QED
    BY <2>5, <2>8
<1>3. ASSUME NEW w \in Workers, ScalerDown(w)
      PROVE  /\ scaler' \in ScalerState /\ ScalerInv'
             /\ scaler'.target = scaler.target \/ scaler'.target \in joined
  <2>1. /\ scaler' = [scaler EXCEPT !.pc = "leave", !.idle = 0, !.target = w]
        /\ w \in joined /\ Cardinality(joined) > MinSize
    BY <1>3 DEF ScalerDown, ShouldScaleDown
  <2>2. w \in 0 .. Size
    BY ConstFacts DEF Workers
  <2>3. scaler' \in ScalerState /\ scaler'.pc = "leave" /\ scaler'.target = w
    BY <1>f, <1>z, <2>1, <2>2 DEF ScalerState
  <2>4. UNCHANGED <<joined, gen, subscribers>>
    BY <1>u DEF memberVars
  <2>5. ScalerInv'
    BY <2>1, <2>3, <2>4 DEF ScalerInv, Joining, Leaving
  <2> QED
    BY <2>1, <2>3, <2>5
<1> QED
  BY <1>1, <1>2, <1>3

\* joinOneIdle picks a worker that is not joined, and subscribes it or gives up.
LEMMA ScalerSubscribes ==
  ASSUME PoolInv, ScalerSubscribe
  PROVE  PoolInv'
<1>f. /\ TypeOK /\ ScalerInv /\ CloserInv /\ MembershipConsistent
      /\ scaler \in ScalerState /\ joined \subseteq Workers
      /\ subscribers \subseteq Workers
      /\ Cardinality(joined) \in Nat /\ scaler.todo \in Nat
      /\ scaler.pc = "join" /\ scaler.target = 0
  BY ScalerFields DEF PoolInv, ScalerSubscribe, ScalerInv
<1>z. 0 \in 0 .. Size
  BY ConstFacts
<1>1. PICK w : w = Min(Workers \ joined)
  OBVIOUS
<1>2. w \in Workers /\ w \notin joined
  <2>1. Cardinality(joined) < Size
    BY <1>f, ConstFacts DEF ScalerInv, Joining
  <2>2. Workers \ joined # {} /\ Workers \ joined \subseteq Nat
    BY <1>f, <2>1, WorkerSets, ConstFacts
  <2> QED
    BY <1>1, <2>2, MinIn
<1>3. CASE poolDone \/ running[w] \/ AllSubscribed
  <2>1. /\ scaler' = [scaler EXCEPT !.pc = "idle", !.todo = 0]
        /\ UNCHANGED <<submitVars, backlog, dispatcher, claimsCh, memberVars,
                       running, loop, closer, lifeVars, runs, failed>>
    BY <1>1, <1>3 DEF ScalerSubscribe, memberVars
  <2>2. scaler' \in ScalerState /\ scaler'.pc = "idle" /\ scaler'.target = 0
    BY <1>f, <1>z, <2>1 DEF ScalerState
  <2>3. ScalerInv'
    BY <2>2 DEF ScalerInv, Joining, Leaving
  <2> QED
    BY <1>f, <2>1, <2>2, <2>3, ScalerKept
<1>4. CASE ~(poolDone \/ running[w] \/ AllSubscribed)
  <2>1. /\ scaler' = [scaler EXCEPT !.pc = "start", !.target = w]
        /\ subscribers' = subscribers \cup {w}
        /\ UNCHANGED <<submitVars, backlog, dispatcher, claimsCh, joined, gen,
                       hasCtx, canceled, timedOut, running, loop, closer,
                       lifeVars, runs, failed>>
    BY <1>1, <1>4 DEF ScalerSubscribe, Subscribe
  <2>2. w \in 0 .. Size
    BY <1>2, ConstFacts DEF Workers
  <2>3. /\ scaler' \in ScalerState /\ scaler'.pc = "start"
        /\ scaler'.target = w /\ scaler'.todo = scaler.todo
    BY <1>f, <2>1, <2>2 DEF ScalerState
  <2>4. TypeOK'
    BY <1>f, <1>2, <2>1, <2>3, ScalerFields, ScalerType
  <2>5. ScalerInv'
    <3>1. w # 0
      BY <1>2, ConstFacts
    <3>2. \A v \in Workers : v \notin joined => gen[v] < MaxJoins
      BY <1>f, ConstFacts DEF ScalerInv, Joining
    <3>3. scaler.todo >= 1 /\ Cardinality(joined) + scaler.todo <= Size
      BY <1>f DEF ScalerInv, Joining
    <3> QED
      BY <1>2, <2>1, <2>3, <3>2, <3>3 DEF ScalerInv, Joining, Leaving
  <2>6. CloserInv'
    BY <1>f, <2>1 DEF CloserInv, lifeVars
  <2>7. MembershipConsistent'
    <3>1. 0 \notin joined /\ 0 \notin subscribers
      BY <1>f, ConstFacts
    <3> QED
      BY <1>f, <2>1, <2>3, <3>1 DEF MembershipConsistent
  <2>8. LoopInv' /\ DispatcherInv'
    BY <2>1 DEF PoolInv, LoopInv, DispatcherInv
  <2> QED
    BY <2>1, <2>4, <2>5, <2>6, <2>7, <2>8 DEF PoolInv
<1> QED
  BY <1>3, <1>4

\* join gives the worker the fields of its next generation and starts its loop.
LEMMA ScalerStarts ==
  ASSUME PoolInv, ScalerStart
  PROVE  /\ PoolInv'
         /\ \E w \in Workers, g \in 1 .. MaxJoins :
              /\ w = scaler.target /\ g = gen[w] + 1
              /\ OnlyLoop(<<w, g>>) /\ loop'[<<w, g>>] = LoopAt("loop")
              /\ gen' = [gen EXCEPT ![w] = g]
              /\ hasCtx' = [hasCtx EXCEPT ![w] = TRUE]
              /\ scaler'.pc = "record" /\ scaler'.target = w
<1>f. /\ TypeOK /\ ScalerInv /\ CloserInv /\ MembershipConsistent /\ LoopInv
      /\ scaler \in ScalerState /\ gen \in [Workers -> 0 .. MaxJoins]
      /\ loop \in [Loops -> LoopState] /\ hasCtx \in [Workers -> BOOLEAN]
      /\ scaler.pc = "start" /\ scaler.todo \in Nat
  BY ScalerFields DEF PoolInv, ScalerStart
<1>1. PICK w \in Workers : w = scaler.target
  BY <1>f DEF ScalerInv
<1>2. PICK g \in 1 .. MaxJoins : g = gen[w] + 1
  <2>1. gen[w] \in Nat /\ gen[w] < MaxJoins
    BY <1>f, <1>1, ConstFacts DEF ScalerInv
  <2> QED
    BY <2>1, ConstFacts
<1>3. /\ scaler' = [scaler EXCEPT !.pc = "record"]
      /\ gen' = [gen EXCEPT ![w] = g]
      /\ hasCtx' = [hasCtx EXCEPT ![w] = TRUE]
      /\ loop' = [loop EXCEPT ![<<w, g>>] = LoopAt("loop")]
      /\ UNCHANGED <<submitVars, backlog, dispatcher, claimsCh, subscribers,
                     joined, canceled, timedOut, running, closer, lifeVars,
                     runs, failed>>
  BY <1>1, <1>2 DEF ScalerStart
<1>4. /\ scaler' \in ScalerState /\ scaler'.pc = "record"
      /\ scaler'.target = w /\ scaler'.todo = scaler.todo
  BY <1>f, <1>1, <1>3 DEF ScalerState
<1>5. /\ OnlyLoop(<<w, g>>) /\ loop'[<<w, g>>] = LoopAt("loop")
      /\ <<w, g>> \in Loops
  <2>1. <<w, g>> \in Loops
    BY DEF Loops
  <2>2. LoopAt("loop") \in LoopState
    BY LoopAtFacts DEF LivePCs
  <2> QED
    BY <1>f, <1>3, <2>1, <2>2, LoopSet
<1>6. /\ gen' \in [Workers -> 0 .. MaxJoins] /\ hasCtx' \in [Workers -> BOOLEAN]
      /\ gen'[w] = g /\ \A v \in Workers : v # w => gen'[v] = gen[v]
  BY <1>f, <1>2, <1>3, ConstFacts
<1>7. TypeOK'
  BY <1>f, <1>3, <1>4, <1>5, <1>6, ScalerFields, ScalerType DEF OnlyLoop
<1>8. ScalerInv'
  <2>1. /\ w \in subscribers /\ w \notin joined
        /\ scaler.todo >= 1 /\ Cardinality(joined) + scaler.todo <= Size
        /\ \A v \in Workers : v \notin joined /\ v # w => gen[v] < MaxJoins
    BY <1>f, <1>1 DEF ScalerInv, Joining
  <2>2. gen'[w] >= 1
    BY <1>6
  <2> QED
    BY <1>3, <1>4, <1>6, <2>1, <2>2 DEF ScalerInv, Joining, Leaving
<1>9. CloserInv'
  <2>1. \A v \in Workers : gen'[v] >= gen[v]
    BY <1>f, <1>2, <1>6
  <2>2. \A v \in Workers : v \in joined \/ v \in closer.todo => gen'[v] >= 1
    <3> SUFFICES ASSUME NEW v \in Workers, v \in joined \/ v \in closer.todo
                 PROVE  gen'[v] >= 1
      OBVIOUS
    <3>1. gen[v] >= 1 /\ gen[v] \in Nat
      BY <1>f, ConstFacts DEF CloserInv
    <3> QED
      BY <1>6, <3>1
  <2>3. closer.pc \in {"open", "draining"}
    BY <1>f DEF CloserInv
  <2> QED
    BY <1>f, <1>3, <2>2, <2>3 DEF CloserInv, lifeVars
<1>10. MembershipConsistent'
  BY <1>f, <1>1, <1>3, <1>4 DEF MembershipConsistent
<1>11. LoopInv'
  <2> SUFFICES ASSUME NEW k \in Loops
               PROVE  /\ loop'[k].pc = "none" <=> gen'[k[1]] < k[2]
                      /\ loop'[k].pc \in {"offer", "parked"} =>
                           loop'[k].ctx >= 1 /\ loop'[k].input >= 1
                      /\ loop'[k].pc \in {"received", "running"}
                           <=> loop'[k].job # NoJob
    BY DEF LoopInv
  <2>k. /\ k[1] \in Workers /\ k[2] \in 1 .. MaxJoins /\ k = <<k[1], k[2]>>
    BY <1>f, LoopFields
  <2>1. CASE k = <<w, g>>
    <3>1. loop'[k].pc = "loop" /\ loop'[k].job = NoJob
      BY <1>5, <2>1, LoopAtFacts DEF LivePCs
    <3>2. gen'[k[1]] = k[2]
      BY <1>6, <2>1
    <3> QED
      BY <2>k, <3>1, <3>2
  <2>2. CASE k # <<w, g>>
    <3>1. loop'[k] = loop[k]
      BY <1>5, <2>2 DEF OnlyLoop
    <3>2. gen'[k[1]] < k[2] <=> gen[k[1]] < k[2]
      <4>1. CASE k[1] = w
        <5>1. k[2] # g
          BY <2>k, <2>2, <4>1
        <5> QED
          BY <1>f, <1>2, <1>6, <2>k, <4>1, <5>1, ConstFacts
      <4>2. CASE k[1] # w
        BY <1>6, <2>k, <4>2
      <4> QED
        BY <4>1, <4>2
    <3> QED
      BY <1>f, <3>1, <3>2 DEF LoopInv
  <2> QED
    BY <2>1, <2>2
<1>12. PoolInv'
  BY <1>3, <1>7, <1>8, <1>9, <1>10, <1>11 DEF PoolInv, DispatcherInv
<1> QED
  BY <1>1, <1>2, <1>3, <1>4, <1>5, <1>12

\* addWorkerHandle and joinedIDs record the worker that was started.
LEMMA ScalerRecords ==
  ASSUME PoolInv, ScalerRecord
  PROVE  PoolInv'
<1>f. /\ TypeOK /\ ScalerInv /\ CloserInv /\ MembershipConsistent
      /\ scaler \in ScalerState /\ joined \subseteq Workers
      /\ Cardinality(joined) \in Nat /\ scaler.todo \in Nat /\ scaler.todo <= Size
      /\ scaler.pc = "record" /\ subscribers \subseteq Workers
  BY ScalerFields DEF PoolInv, ScalerRecord
<1>1. PICK w \in Workers : w = scaler.target
  BY <1>f DEF ScalerInv
<1>2. PICK pc \in {"join", "idle"} :
        pc = (IF scaler.todo > 1 THEN "join" ELSE "idle")
  OBVIOUS
<1>3. /\ joined' = joined \cup {w}
      /\ scaler' = [scaler EXCEPT !.pc = pc, !.todo = @ - 1, !.target = 0]
      /\ UNCHANGED <<submitVars, backlog, dispatcher, claimsCh, subscribers, gen,
                     hasCtx, canceled, timedOut, running, loop, closer, lifeVars,
                     runs, failed>>
  BY <1>1, <1>2 DEF ScalerRecord
<1>4. /\ w \in subscribers /\ w \notin joined /\ gen[w] >= 1
      /\ scaler.todo >= 1 /\ Cardinality(joined) + scaler.todo <= Size
      /\ \A v \in Workers : v \notin joined /\ v # w => gen[v] < MaxJoins
  BY <1>f, <1>1 DEF ScalerInv, Joining
<1>5. scaler.todo - 1 \in 0 .. Size /\ 0 \in 0 .. Size
  BY <1>f, <1>4, ConstFacts
<1>6. /\ scaler' \in ScalerState /\ scaler'.pc = pc
      /\ scaler'.target = 0 /\ scaler'.todo = scaler.todo - 1
  BY <1>f, <1>3, <1>5 DEF ScalerState
<1>7. Cardinality(joined') = Cardinality(joined) + 1
  BY <1>f, <1>3, <1>4, WorkerSets
<1>8. TypeOK'
  BY <1>f, <1>3, <1>6, ScalerFields, ScalerType
<1>9. ScalerInv'
  <2>1. pc = "join" => /\ scaler'.todo >= 1
                       /\ Cardinality(joined') + scaler'.todo <= Size
    BY <1>f, <1>2, <1>4, <1>6, <1>7, ConstFacts
  <2>2. \A v \in Workers : v \notin joined' /\ v # 0 => gen'[v] < MaxJoins
    BY <1>3, <1>4
  <2> QED
    BY <1>6, <2>1, <2>2 DEF ScalerInv, Joining, Leaving
<1>10. CloserInv'
  BY <1>f, <1>3, <1>4 DEF CloserInv, lifeVars
<1>11. MembershipConsistent'
  BY <1>f, <1>1, <1>3, <1>4, <1>6, <1>7, ConstFacts DEF MembershipConsistent
<1>12. LoopInv' /\ DispatcherInv'
  BY <1>3 DEF PoolInv, LoopInv, DispatcherInv
<1> QED
  BY <1>3, <1>8, <1>9, <1>10, <1>11, <1>12 DEF PoolInv

\* The context of a member's current generation is that of a loop.
LEMMA CurrentLoop ==
  ASSUME TypeOK, NEW w \in Workers, gen[w] >= 1
  PROVE  <<w, gen[w]>> \in Loops
<1>1. gen[w] \in 0 .. MaxJoins
  BY DEF TypeOK
<1> QED
  BY <1>1, ConstFacts DEF Loops

\* leave ends, in time or not.
LEMMA LeaveEndType ==
  ASSUME TypeOK, NEW w \in Workers, LeaveEnd(w)
  PROVE  hasCtx' \in [Workers -> BOOLEAN] /\ timedOut' \subseteq Workers
BY DEF TypeOK, LeaveEnd, LeaveDone, LeaveTimeout

\* The autoscaler stops a worker: leave unsubscribes it and cancels its context.
LEMMA ScalerLeaves ==
  ASSUME PoolInv, ScalerLeave
  PROVE  PoolInv'
<1>f. /\ TypeOK /\ ScalerInv /\ CloserInv /\ MembershipConsistent
      /\ scaler \in ScalerState /\ joined \subseteq Workers
      /\ scaler.pc = "leave" /\ subscribers \subseteq Workers
      /\ canceled \subseteq Loops
  BY ScalerFields DEF PoolInv, ScalerLeave
<1>1. PICK w \in Workers : w = scaler.target
  BY <1>f DEF ScalerInv
<1>2. /\ scaler' = [scaler EXCEPT !.pc = "left"]
      /\ subscribers' = subscribers \ {w}
      /\ canceled' = canceled \cup {<<w, gen[w]>>}
      /\ UNCHANGED <<submitVars, backlog, dispatcher, claimsCh, joined, gen,
                     hasCtx, timedOut, running, loop, closer, lifeVars, runs,
                     failed>>
  BY <1>1 DEF ScalerLeave, LeaveStart, Unsubscribe
<1>3. w \in joined /\ Cardinality(joined) > MinSize /\ gen[w] >= 1
  BY <1>f, <1>1 DEF ScalerInv, Leaving, CloserInv
<1>4. scaler' \in ScalerState /\ scaler'.pc = "left" /\ scaler'.target = w
  BY <1>f, <1>1, <1>2 DEF ScalerState
<1>5. canceled' \subseteq Loops
  BY <1>f, <1>2, <1>3, CurrentLoop
<1>6. TypeOK'
  BY <1>f, <1>2, <1>4, <1>5, ScalerFields, ScalerType
<1>7. ScalerInv'
  BY <1>2, <1>3, <1>4 DEF ScalerInv, Joining, Leaving
<1>8. CloserInv'
  BY <1>f, <1>2 DEF CloserInv, lifeVars
<1>9. MembershipConsistent'
  BY <1>f, <1>1, <1>2, <1>4 DEF MembershipConsistent
<1>10. LoopInv' /\ DispatcherInv'
  BY <1>2 DEF PoolInv, LoopInv, DispatcherInv
<1> QED
  BY <1>2, <1>6, <1>7, <1>8, <1>9, <1>10 DEF PoolInv

\* ... and takes it from the joined set, after a timeout too.
LEMMA ScalerLefts ==
  ASSUME PoolInv, ScalerLeft
  PROVE  PoolInv'
<1>f. /\ TypeOK /\ ScalerInv /\ CloserInv /\ MembershipConsistent
      /\ scaler \in ScalerState /\ joined \subseteq Workers
      /\ scaler.pc = "left" /\ Cardinality(joined) \in Nat
  BY ScalerFields DEF PoolInv, ScalerLeft
<1>1. PICK w \in Workers : w = scaler.target
  BY <1>f DEF ScalerInv
<1>2. /\ scaler' = [scaler EXCEPT !.pc = "idle", !.target = 0]
      /\ joined' = joined \ {w} /\ LeaveEnd(w)
      /\ UNCHANGED <<submitVars, backlog, dispatcher, claimsCh, subscribers, gen,
                     canceled, running, loop, closer, lifeVars, runs, failed>>
  BY <1>1 DEF ScalerLeft
<1>3. w \in joined /\ Cardinality(joined) > MinSize /\ w \notin subscribers
  BY <1>f, <1>1 DEF ScalerInv, Leaving
<1>4. 0 \in 0 .. Size
  BY ConstFacts
<1>5. scaler' \in ScalerState /\ scaler'.pc = "idle" /\ scaler'.target = 0
  BY <1>f, <1>2, <1>4 DEF ScalerState
<1>6. Cardinality(joined') = Cardinality(joined) - 1
  BY <1>f, <1>2, <1>3, WorkerSets
<1>7. hasCtx' \in [Workers -> BOOLEAN] /\ timedOut' \subseteq Workers
  BY <1>f, <1>2, LeaveEndType
<1>8. TypeOK'
  BY <1>f, <1>2, <1>5, <1>7, ScalerFields, ScalerType
<1>9. ScalerInv'
  BY <1>5 DEF ScalerInv, Joining, Leaving
<1>10. CloserInv'
  BY <1>f, <1>2 DEF CloserInv, lifeVars
<1>11. MembershipConsistent'
  <2>1. Cardinality(joined') >= MinSize
    BY <1>f, <1>3, <1>6, ConstFacts
  <2> QED
    BY <1>f, <1>1, <1>2, <1>3, <1>5, <2>1 DEF MembershipConsistent
<1>12. LoopInv' /\ DispatcherInv'
  BY <1>2 DEF PoolInv, LoopInv, DispatcherInv
<1> QED
  BY <1>2, <1>8, <1>9, <1>10, <1>11, <1>12 DEF PoolInv

\* close.
LEMMA CloserStep ==
  ASSUME PoolInv, (\E drain \in BOOLEAN : Close(drain)) \/ Closer \/ CancelParent
  PROVE  PoolInv'
<1>f. /\ TypeOK /\ Len(claimsCh) <= Size /\ ScalerInv /\ CloserInv
      /\ MembershipConsistent /\ LoopInv /\ DispatcherInv
      /\ closer \in CloserState /\ joined \subseteq Workers
      /\ subscribers \subseteq Workers /\ canceled \subseteq Loops
      /\ closer.todo \subseteq Workers
  BY DEF PoolInv, TypeOK, CloserState
<1>u. /\ UNCHANGED <<submitVars, backlog, dispatcher, claimsCh, gen, running, loop,
                     scaler, runs, failed>>
      /\ LoopInv' /\ DispatcherInv'
  <2>1. UNCHANGED <<submitVars, backlog, dispatcher, claimsCh, gen, running, loop,
                     scaler, runs, failed>>
    BY DEF Close, Closer, CloseCollect, CloseLeave, CloseLeft, CloseReturn,
           CancelParent, memberVars
  <2> QED
    BY <1>f, <2>1 DEF LoopInv, DispatcherInv
<1>z. 0 \in 0 .. Size
  BY ConstFacts
<1>1. ASSUME NEW drain \in BOOLEAN, Close(drain) PROVE PoolInv'
  <2>1. /\ closer.pc = "open"
        /\ closer' = [closer EXCEPT !.pc = "draining", !.drain = drain]
        /\ shutdown' = TRUE /\ poolDone' \in BOOLEAN /\ promised' \in {Queued, {}}
        /\ UNCHANGED <<subscribers, joined, hasCtx, canceled, timedOut>>
    BY <1>1 DEF Close, memberVars
  <2>2. /\ closer' \in CloserState /\ closer'.pc = "draining"
        /\ closer'.todo = closer.todo
    BY <1>f, <2>1 DEF CloserState
  <2>3. Queued \subseteq Jobs
    <3>1. backlog \in Seq(Jobs)
      BY <1>f DEF TypeOK
    <3> QED
      BY <3>1, ElementOfSeq, LenProperties DEF Queued
  <2>4. TypeOK'
    BY <1>f, <1>u, <2>1, <2>2, <2>3 DEF TypeOK, submitVars
  <2>5. ScalerInv' /\ CloserInv' /\ MembershipConsistent'
    BY <1>f, <1>u, <2>1, <2>2 DEF ScalerInv, CloserInv, MembershipConsistent
  <2> QED
    BY <1>f, <1>u, <2>4, <2>5 DEF PoolInv
<1>2. CASE CloseCollect
  <2>1. /\ closer.pc = "draining" /\ dispatcher.pc = "exited" /\ scaler.pc = "done"
        /\ closer' = [closer EXCEPT !.pc = "leaving", !.todo = joined]
        /\ joined' = {}
        /\ UNCHANGED <<subscribers, hasCtx, canceled, timedOut, lifeVars>>
    BY <1>2 DEF CloseCollect
  <2>2. /\ closer' \in CloserState /\ closer'.pc = "leaving"
        /\ closer'.todo = joined
    BY <1>f, <2>1 DEF CloserState
  <2>3. TypeOK'
    BY <1>f, <1>u, <2>1, <2>2 DEF TypeOK, submitVars, lifeVars
  <2>4. ScalerInv'
    BY <1>f, <1>u, <2>1 DEF ScalerInv, Joining, Leaving
  <2>5. CloserInv'
    BY <1>f, <1>u, <2>1, <2>2 DEF CloserInv, lifeVars
  <2>6. MembershipConsistent'
    BY <2>2 DEF MembershipConsistent
  <2> QED
    BY <1>f, <1>u, <2>3, <2>4, <2>5, <2>6 DEF PoolInv
<1>3. CASE CloseLeave
  <2>1. PICK w : w = Min(closer.todo)
    OBVIOUS
  <2>2. /\ closer.pc = "leaving" /\ closer.todo # {}
        /\ closer' = [closer EXCEPT !.pc = "left", !.target = w]
        /\ subscribers' = subscribers \ {w}
        /\ canceled' = canceled \cup {<<w, gen[w]>>}
        /\ UNCHANGED <<joined, hasCtx, timedOut, lifeVars>>
    BY <1>3, <2>1 DEF CloseLeave, LeaveStart, Unsubscribe
  <2>3. w \in closer.todo /\ w \in Workers
    BY <1>f, <2>1, <2>2, MinIn, ConstFacts
  <2>4. canceled' \subseteq Loops
    BY <1>f, <2>2, <2>3, CurrentLoop DEF CloserInv
  <2>5. w \in 0 .. Size
    BY <2>3, ConstFacts DEF Workers
  <2>6. /\ closer' \in CloserState /\ closer'.pc = "left"
        /\ closer'.todo = closer.todo /\ closer'.target = w
    BY <1>f, <2>2, <2>5 DEF CloserState
  <2>7. TypeOK'
    BY <1>f, <1>u, <2>2, <2>4, <2>6 DEF TypeOK, submitVars, lifeVars
  <2>8. ScalerInv'
    BY <1>f, <1>u, <2>2 DEF ScalerInv, Joining, Leaving, CloserInv
  <2>9. CloserInv'
    BY <1>f, <1>u, <2>2, <2>3, <2>6 DEF CloserInv, lifeVars
  <2>10. MembershipConsistent'
    BY <2>6 DEF MembershipConsistent
  <2> QED
    BY <1>f, <1>u, <2>7, <2>8, <2>9, <2>10 DEF PoolInv
<1>4. CASE CloseLeft
  <2>1. PICK w \in Workers : w = closer.target
    BY <1>f, <1>4 DEF CloseLeft, CloserInv
  <2>2. /\ closer.pc = "left" /\ LeaveEnd(w)
        /\ closer' = [closer EXCEPT !.pc = "leaving", !.todo = @ \ {w}, !.target = 0]
        /\ UNCHANGED <<subscribers, joined, canceled, lifeVars>>
    BY <1>4, <2>1 DEF CloseLeft
  <2>3. /\ closer' \in CloserState /\ closer'.pc = "leaving"
        /\ closer'.todo = closer.todo \ {w}
    BY <1>f, <1>z, <2>2 DEF CloserState
  <2>4. hasCtx' \in [Workers -> BOOLEAN] /\ timedOut' \subseteq Workers
    BY <1>f, <2>2, LeaveEndType
  <2>5. TypeOK'
    BY <1>f, <1>u, <2>2, <2>3, <2>4 DEF TypeOK, submitVars, lifeVars
  <2>6. ScalerInv'
    BY <1>f, <1>u, <2>2 DEF ScalerInv
  <2>7. CloserInv'
    BY <1>f, <1>u, <2>2, <2>3 DEF CloserInv, lifeVars
  <2>8. MembershipConsistent'
    BY <2>3 DEF MembershipConsistent
  <2> QED
    BY <1>f, <1>u, <2>5, <2>6, <2>7, <2>8 DEF PoolInv
<1>5. CASE CloseReturn
  <2>1. /\ closer.pc = "leaving" /\ closer' = [closer EXCEPT !.pc = "returned"]
        /\ poolDone' = TRUE
        /\ promised' = {} /\ UNCHANGED <<memberVars, shutdown>>
    BY <1>5 DEF CloseReturn
  <2>2. /\ closer' \in CloserState /\ closer'.pc = "returned"
        /\ closer'.todo = closer.todo
    BY <1>f, <2>1 DEF CloserState
  <2>3. TypeOK'
    BY <1>f, <1>u, <2>1, <2>2 DEF TypeOK, submitVars, memberVars
  <2>4. ScalerInv'
    BY <1>f, <1>u, <2>1 DEF ScalerInv, memberVars
  <2>5. CloserInv'
    BY <1>f, <1>u, <2>1, <2>2 DEF CloserInv, memberVars
  <2>6. MembershipConsistent'
    BY <2>2 DEF MembershipConsistent
  <2> QED
    BY <1>f, <1>u, <2>3, <2>4, <2>5, <2>6 DEF PoolInv
<1>6. CASE CancelParent
  <2>1. /\ poolDone' = TRUE
        /\ promised' = {} /\ UNCHANGED <<memberVars, closer, shutdown>>
    BY <1>6 DEF CancelParent
  <2>2. TypeOK'
    BY <1>f, <1>u, <2>1 DEF TypeOK, submitVars, memberVars
  <2> QED
    BY <1>f, <1>u, <2>1, <2>2, PoolKept DEF memberVars
<1> QED
  BY <1>1, <1>2, <1>3, <1>4, <1>5, <1>6 DEF Closer

\* A new pool.
LEMMA PoolInit == Init => PoolInv
<1> SUFFICES ASSUME Init PROVE PoolInv
  OBVIOUS
<1>z. 0 \in 0 .. Size /\ 0 \in 0 .. MaxJoins /\ 1 \in 0 .. MaxJoins
  BY ConstFacts
<1>1. InitialJoin \subseteq Workers /\ Cardinality(InitialJoin) = MinSize
  <2>1. Cardinality(InitialJoin) = MinSize
    BY FS_Interval, ConstFacts DEF InitialJoin
  <2> QED
    BY <2>1, ConstFacts DEF InitialJoin, Workers
<1>2. loop \in [Loops -> LoopState]
  <2>1. LoopAt("loop") \in LoopState /\ LoopAt("none") \in LoopState
    BY LoopAtFacts DEF LivePCs
  <2> QED
    BY <2>1 DEF Init
<1>3. /\ scaler \in ScalerState /\ scaler.pc \in {"idle", "done"}
      /\ scaler.target = 0
  BY <1>z DEF Init, StartScaler, ScalerState
<1>4. /\ closer \in CloserState /\ closer.pc = "open" /\ closer.todo = {}
  BY <1>z DEF Init, CloserState
<1>5. dispatcher \in DispatcherState /\ DispatcherInv
  BY DEF Init, DispatcherState, DispatcherInv
<1>6. gen \in [Workers -> 0 .. MaxJoins]
  BY <1>z DEF Init
<1>7. TypeOK
  <2>1. /\ backlog = <<>> /\ claimsCh = <<>> /\ Len(<<>>) = 0
        /\ backlog \in Seq(Jobs) /\ claimsCh \in Seq(Claim)
    BY EmptyElems DEF Init
  <2>2. Len(backlog) <= Backlog
    BY <2>1, ConstFacts
  <2>3. /\ running \in [Workers -> BOOLEAN] /\ hasCtx \in [Workers -> BOOLEAN]
        /\ shutdown \in BOOLEAN /\ poolDone \in BOOLEAN
    <3>1. /\ running = [w \in Workers |-> FALSE]
          /\ hasCtx = [w \in Workers |-> w \in InitialJoin]
          /\ shutdown = FALSE /\ poolDone = FALSE
      BY DEF Init
    <3>2. running \in [Workers -> BOOLEAN]
      BY <3>1
    <3>3. hasCtx \in [Workers -> BOOLEAN]
      <4>1. \A w \in Workers : (w \in InitialJoin) \in BOOLEAN
        OBVIOUS
      <4> QED
        BY <3>1, <4>1, Zenon
    <3> QED
      BY <3>1, <3>2, <3>3
  <2>4. runs \in [Jobs -> Nat]
    BY DEF Init
  <2>5. /\ fresh \subseteq Jobs /\ submitting \subseteq Jobs /\ refused \subseteq Jobs
        /\ canceled \subseteq Loops /\ failed \subseteq Jobs
        /\ promised \subseteq Jobs /\ timedOut \subseteq Workers
        /\ subscribers \subseteq Workers /\ joined \subseteq Workers
    BY <1>1 DEF Init
  <2> QED
    BY <1>2, <1>3, <1>4, <1>5, <1>6, <2>1, <2>2, <2>3, <2>4, <2>5 DEF TypeOK
<1>8. Len(claimsCh) <= Size
  BY EmptyElems, ConstFacts DEF Init
<1>9. ScalerInv
  BY <1>3 DEF ScalerInv, Joining, Leaving
<1>10. CloserInv
  BY <1>1, <1>4 DEF Init, CloserInv
<1>11. MembershipConsistent
  BY <1>1, <1>3, ConstFacts DEF Init, MembershipConsistent
<1>12. LoopInv
  <2> SUFFICES ASSUME NEW l \in Loops
               PROVE  /\ loop[l].pc = "none" <=> gen[l[1]] < l[2]
                      /\ loop[l].pc \in {"none", "loop"} /\ loop[l].job = NoJob
    BY DEF LoopInv
  <2>1. l[1] \in Workers /\ l[2] \in 1 .. MaxJoins
    BY <1>2, LoopFields
  <2>2. CASE l[1] \in InitialJoin /\ l[2] = 1
    <3>1. loop[l] = LoopAt("loop") /\ gen[l[1]] = 1
      BY <2>1, <2>2 DEF Init
    <3> QED
      BY <2>2, <3>1, LoopAtFacts DEF LivePCs
  <2>3. CASE ~(l[1] \in InitialJoin /\ l[2] = 1)
    <3>1. loop[l] = LoopAt("none") /\ gen[l[1]] < l[2]
      BY <2>1, <2>3, ConstFacts DEF Init
    <3> QED
      BY <3>1, LoopAtFacts
  <2> QED
    BY <2>2, <2>3
<1> QED
  BY <1>5, <1>7, <1>8, <1>9, <1>10, <1>11, <1>12 DEF PoolInv

\* Every step preserves PoolInv.
LEMMA PoolStep == PoolInv /\ [Next]_vars => PoolInv'
<1> SUFFICES ASSUME PoolInv, [Next]_vars PROVE PoolInv'
  OBVIOUS
<1>1. CASE Submitter
  BY <1>1, SubmitStep
<1>2. CASE Dispatcher
  BY <1>2, DispatcherStep
<1>3. ASSUME NEW l \in Loops, LoopStep(l) \/ LoopFinish(l) PROVE PoolInv'
  BY <1>3, LoopsStep
<1>4. CASE Scaler
  BY <1>4, ScalerDecides, ScalerSubscribes, ScalerStarts, ScalerRecords,
     ScalerLeaves, ScalerLefts DEF Scaler
<1>5. CASE (\E drain \in BOOLEAN : Close(drain)) \/ Closer \/ CancelParent
  BY <1>5, CloserStep
<1>6. CASE UNCHANGED vars
  BY <1>6 DEF vars, PoolInv, TypeOK, DispatcherInv, ScalerInv, CloserInv,
     MembershipConsistent, LoopInv
<1> QED
  BY <1>1, <1>2, <1>3, <1>4, <1>5, <1>6 DEF Next

\* PoolInv holds in every reachable state.
LEMMA PoolHolds == Spec => []PoolInv
<1>1. Init => PoolInv
  BY PoolInit
<1>2. PoolInv /\ [Next]_vars => PoolInv'
  BY PoolStep
<1> QED
  BY <1>1, <1>2, PTL DEF Spec

\* The type invariant: no claim, generation or count leaves its range, however
\* often workers are joined and leave.
THEOREM TypeOKHolds == Spec => []TypeOK
<1>1. PoolInv => TypeOK
  BY DEF PoolInv
<1> QED
  BY <1>1, PoolHolds, PTL

\* The joined set and the subscribers agree but for the worker that a join or a
\* leave is working on, and the autoscaler never goes below MinSize.
THEOREM MembershipConsistentHolds == Spec => []MembershipConsistent
<1>1. PoolInv => MembershipConsistent
  BY DEF PoolInv
<1> QED
  BY <1>1, PoolHolds, PTL

----------------------------------------------------------------------------
(* SingleInv is inductive, together with PoolInv. *)

\* A step that starts, moves and stops no run loop, and frees no worker but one
\* whose leave timed out.
LEMMA SingleKept ==
  ASSUME SingleInv, UNCHANGED <<loop, gen, hasCtx>>, timedOut \subseteq timedOut',
         \A w \in Workers : Idle(w)' /\ w \notin timedOut' => Idle(w)
  PROVE  SingleInv'
<1> SUFFICES ASSUME NEW w \in Workers, w \notin timedOut' PROVE SingleOK(w)'
  BY DEF SingleInv
<1>1. SingleOK(w)
  BY DEF SingleInv
<1> QED
  BY <1>1 DEF SingleOK

\* A live loop of a worker whose leaves ended in time is that of its last join,
\* and reads a ctxFn that is not nil.
LEMMA LiveIsLast ==
  ASSUME PoolInv, SingleInv, NEW l \in Loops, l[1] \notin timedOut,
         loop[l].pc \in LivePCs
  PROVE  l = <<l[1], gen[l[1]]>> /\ gen[l[1]] >= 1 /\ hasCtx[l[1]] /\ ~Idle(l[1])
<1>1. /\ l[1] \in Workers /\ l[2] \in 1 .. MaxJoins /\ l = <<l[1], l[2]>>
      /\ gen[l[1]] \in 0 .. MaxJoins
  BY LoopFields DEF PoolInv, TypeOK
<1>2. loop[l].pc # "none" /\ loop[l].pc # "exited"
  BY DEF LivePCs
<1>3. ~(gen[l[1]] < l[2])
  BY <1>2 DEF PoolInv, LoopInv
<1>4. SingleOK(l[1])
  BY <1>1 DEF SingleInv
<1>5. ~(l[2] < gen[l[1]])
  BY <1>1, <1>2, <1>4 DEF SingleOK
<1>6. gen[l[1]] = l[2] /\ gen[l[1]] >= 1
  BY <1>1, <1>3, <1>5, ConstFacts
<1> QED
  BY <1>1, <1>2, <1>4, <1>6 DEF SingleOK

\* A step of one live loop.
LEMMA SingleMoves ==
  ASSUME PoolInv, SingleInv, NEW l \in Loops, OnlyLoop(l), loop[l].pc \in LivePCs,
         \/ loop'[l].pc \in LivePCs
         \/ loop'[l].pc = "exited"
         \/ ~hasCtx[l[1]] /\ loop'[l].pc = "panicked",
         UNCHANGED <<gen, hasCtx, timedOut, scaler, joined>>
  PROVE  SingleInv'
<1> SUFFICES ASSUME NEW w \in Workers, w \notin timedOut PROVE SingleOK(w)'
  BY DEF SingleInv
<1>1. SingleOK(w) /\ (Idle(w)' <=> Idle(w)) /\ gen[w] \in 0 .. MaxJoins
  BY DEF SingleInv, Idle, PoolInv, TypeOK
<1>2. \A g \in 1 .. MaxJoins : <<w, g>> \in Loops
  BY DEF Loops
<1>3. gen[w] >= 1 => gen[w] \in 1 .. MaxJoins
  BY <1>1, ConstFacts
<1>4. CASE l[1] # w
  <2>1. \A g \in 1 .. MaxJoins : loop'[<<w, g>>] = loop[<<w, g>>]
    BY <1>2, <1>4 DEF OnlyLoop
  <2> QED
    BY <1>1, <1>3, <2>1 DEF SingleOK
<1>5. CASE l[1] = w
  <2>1. l = <<w, gen[w]>> /\ gen[w] >= 1 /\ hasCtx[w] /\ ~Idle(w)
    BY <1>5, LiveIsLast
  <2>2. \A g \in 1 .. MaxJoins : g < gen[w] => <<w, g>> # l
    BY <1>1, <2>1
  <2>3. \A g \in 1 .. MaxJoins : g < gen[w] => loop'[<<w, g>>].pc = "exited"
    BY <1>1, <1>2, <2>2 DEF SingleOK, OnlyLoop
  <2>4. loop'[l].pc = "exited" \/ (loop'[l].pc \in LivePCs /\ hasCtx[w])
    BY <1>5, <2>1
  <2> QED
    BY <1>1, <2>1, <2>3, <2>4 DEF SingleOK
<1> QED
  BY <1>4, <1>5

\* The end of a leave, in time or not.
LEMMA SingleLeaves ==
  ASSUME PoolInv, SingleInv, NEW w \in Workers, LeaveEnd(w), UNCHANGED <<loop, gen>>,
         \A v \in Workers : v # w /\ Idle(v)' => Idle(v)
  PROVE  SingleInv'
<1> SUFFICES ASSUME NEW v \in Workers, v \notin timedOut' PROVE SingleOK(v)'
  BY DEF SingleInv
<1>1. hasCtx \in [Workers -> BOOLEAN]
  BY DEF PoolInv, TypeOK
<1>2. SingleOK(v)
  BY DEF SingleInv, LeaveEnd, LeaveDone, LeaveTimeout
<1>3. CASE v # w
  <2>1. hasCtx'[v] = hasCtx[v]
    BY <1>1, <1>3 DEF LeaveEnd, LeaveDone, LeaveTimeout
  <2> QED
    BY <1>2, <1>3, <2>1 DEF SingleOK
<1>4. CASE v = w
  <2>1. loop[<<w, gen[w]>>].pc = "exited"
    BY <1>4 DEF LeaveEnd, LeaveDone, LeaveTimeout
  <2> QED
    BY <1>2, <1>4, <2>1 DEF SingleOK
<1> QED
  BY <1>3, <1>4

\* A join starts the loop of the next generation of a worker that has none.
LEMMA SingleStarts ==
  ASSUME PoolInv, SingleInv, ScalerStart
  PROVE  SingleInv'
<1>1. PICK w \in Workers, g \in 1 .. MaxJoins :
        /\ w = scaler.target /\ g = gen[w] + 1
        /\ OnlyLoop(<<w, g>>) /\ loop'[<<w, g>>] = LoopAt("loop")
        /\ gen' = [gen EXCEPT ![w] = g]
        /\ hasCtx' = [hasCtx EXCEPT ![w] = TRUE]
        /\ scaler'.pc = "record" /\ scaler'.target = w
  BY ScalerStarts
<1>2. /\ scaler.pc = "start" /\ w \notin joined /\ UNCHANGED <<joined, timedOut>>
      /\ gen \in [Workers -> 0 .. MaxJoins] /\ hasCtx \in [Workers -> BOOLEAN]
  BY <1>1 DEF ScalerStart, PoolInv, ScalerInv, TypeOK
<1> SUFFICES ASSUME NEW v \in Workers, v \notin timedOut PROVE SingleOK(v)'
  BY <1>2 DEF SingleInv
<1>3. SingleOK(v) /\ gen[v] \in 0 .. MaxJoins
  BY <1>2 DEF SingleInv
<1>4. \A c \in 1 .. MaxJoins : <<v, c>> \in Loops
  BY DEF Loops
<1>5. CASE v # w
  <2>1. /\ gen'[v] = gen[v] /\ hasCtx'[v] = hasCtx[v]
        /\ \A c \in 1 .. MaxJoins : loop'[<<v, c>>] = loop[<<v, c>>]
    BY <1>1, <1>2, <1>4, <1>5 DEF OnlyLoop
  <2>2. Idle(v)' => Idle(v)
    BY <1>2 DEF Idle
  <2>3. gen[v] >= 1 => gen[v] \in 1 .. MaxJoins
    BY <1>3, ConstFacts
  <2> QED
    BY <1>3, <2>1, <2>2, <2>3 DEF SingleOK
<1>6. CASE v = w
  <2>1. gen'[w] = g /\ hasCtx'[w] /\ ~Idle(w)' /\ Idle(w)
    BY <1>1, <1>2 DEF Idle
  <2>2. loop'[<<w, g>>].pc = "loop" /\ "loop" \in LivePCs
    BY <1>1, LoopAtFacts DEF LivePCs
  <2>3. ASSUME NEW c \in 1 .. MaxJoins, c < g PROVE loop'[<<w, c>>].pc = "exited"
    <3>1. loop'[<<w, c>>] = loop[<<w, c>>]
      BY <1>1, <1>4, <1>6, <2>3 DEF OnlyLoop
    <3>2. CASE c = gen[w]
      BY <1>3, <1>6, <2>1, <3>1, <3>2 DEF SingleOK
    <3>3. CASE c # gen[w]
      <4>1. c < gen[w]
        BY <1>1, <1>3, <1>6, <2>3, <3>3, ConstFacts
      <4> QED
        BY <1>3, <1>6, <3>1, <4>1 DEF SingleOK
    <3> QED
      BY <3>2, <3>3
  <2> QED
    BY <1>6, <2>1, <2>2, <2>3 DEF SingleOK
<1> QED
  BY <1>5, <1>6

\* Every step preserves SingleInv.
LEMMA SingleStep == PoolInv /\ SingleInv /\ [Next]_vars => SingleInv'
<1> SUFFICES ASSUME PoolInv, SingleInv, [Next]_vars PROVE SingleInv'
  OBVIOUS
<1>f. TypeOK /\ LoopInv /\ DispatcherInv /\ Len(claimsCh) <= Size
  BY DEF PoolInv
<1>1. CASE Submitter \/ (\E drain \in BOOLEAN : Close(drain)) \/ CancelParent
           \/ UNCHANGED vars
  <2>1. UNCHANGED <<loop, gen, hasCtx, timedOut, scaler, joined>>
    BY <1>1 DEF Submitter, SubmitStart, SubmitSend, SubmitFail, Close, CancelParent,
       vars, memberVars
  <2> QED
    BY <2>1, SingleKept DEF Idle
<1>2. CASE Dispatcher
  <2>1. ASSUME NEW l \in Loops, DispatcherSend(l) PROVE SingleInv'
    <3>1. /\ OnlyLoop(l) /\ loop[l].pc \in LivePCs /\ loop'[l].pc \in LivePCs
      BY <1>f, <2>1, SendFacts DEF LivePCs
    <3>2. UNCHANGED <<gen, hasCtx, timedOut, scaler, joined>>
      BY <2>1 DEF DispatcherSend, memberVars
    <3> QED
      BY <3>1, <3>2, SingleMoves
  <2>2. CASE ~\E l \in Loops : DispatcherSend(l)
    <3>1. UNCHANGED <<loop, gen, hasCtx, timedOut, scaler, joined>>
      BY <1>2, <2>2 DEF Dispatcher, DispatcherExit, DispatcherTake, DispatcherPull,
         DispatcherCheck, DispatcherSendTimeout, DispatcherGiveUp, memberVars
    <3> QED
      BY <3>1, SingleKept DEF Idle
  <2> QED
    BY <2>1, <2>2
<1>3. ASSUME NEW l \in Loops, LoopStep(l) \/ LoopFinish(l) PROVE SingleInv'
  <2>1. UNCHANGED <<gen, hasCtx, timedOut, scaler, joined>>
    BY <1>3 DEF LoopStep, LoopEnter, LoopIdle, LoopOffer, LoopExit, LoopRun,
       LoopFinish, memberVars
  <2>2. /\ OnlyLoop(l) /\ loop[l].pc \in LivePCs
        /\ \/ loop'[l].pc \in LivePCs
           \/ loop'[l].pc = "exited"
           \/ ~hasCtx[l[1]] /\ loop'[l].pc = "panicked"
    BY <1>f, <1>3, LoopFacts
  <2> QED
    BY <2>1, <2>2, SingleMoves
<1>4. CASE Scaler
  <2>1. scaler \in ScalerState
    BY <1>f DEF TypeOK
  <2>2. CASE ScalerTick \/ ScalerHold \/ ScalerUp \/ ScalerExit \/ ScalerLeave
             \/ \E w \in Workers : ScalerDown(w)
    <3>1. UNCHANGED <<loop, gen, hasCtx, timedOut, joined>>
      BY <2>2 DEF ScalerTick, ScalerHold, ScalerUp, ScalerExit, ScalerLeave,
         ScalerDown, memberVars
    <3>2. scaler.pc \notin {"record", "done"}
      BY <2>2 DEF ScalerTick, ScalerHold, ScalerUp, ScalerExit, ScalerLeave, ScalerDown
    <3> QED
      BY <3>1, <3>2, SingleKept DEF Idle
  <2>3. CASE ScalerSubscribe
    <3>1. UNCHANGED <<loop, gen, hasCtx, timedOut, joined>> /\ scaler.pc = "join"
      BY <2>3 DEF ScalerSubscribe
    <3> QED
      BY <3>1, SingleKept DEF Idle
  <2>4. CASE ScalerRecord
    <3>1. /\ UNCHANGED <<loop, gen, hasCtx, timedOut>> /\ scaler.pc = "record"
          /\ joined' = joined \cup {scaler.target}
      BY <2>4 DEF ScalerRecord
    <3> QED
      BY <3>1, SingleKept DEF Idle
  <2>5. CASE ScalerLeft
    <3>1. PICK w \in Workers : w = scaler.target
      BY <2>5 DEF PoolInv, ScalerInv, ScalerLeft
    <3>2. /\ UNCHANGED <<loop, gen>> /\ LeaveEnd(w) /\ joined' = joined \ {w}
          /\ scaler.pc = "left"
      BY <2>5, <3>1 DEF ScalerLeft
    <3>3. \A v \in Workers : v # w /\ Idle(v)' => Idle(v)
      BY <3>2 DEF Idle
    <3> QED
      BY <3>2, <3>3, SingleLeaves
  <2> QED
    BY <1>4, <2>2, <2>3, <2>4, <2>5, SingleStarts DEF Scaler
<1>5. CASE Closer
  <2>1. CASE CloseCollect
    <3>1. UNCHANGED <<loop, gen, hasCtx, timedOut, scaler>> /\ scaler.pc = "done"
      BY <2>1 DEF CloseCollect
    <3> QED
      BY <3>1, SingleKept DEF Idle
  <2>2. CASE CloseLeave \/ CloseReturn
    <3>1. UNCHANGED <<loop, gen, hasCtx, timedOut, scaler, joined>>
      BY <2>2 DEF CloseLeave, CloseReturn, memberVars
    <3> QED
      BY <3>1, SingleKept DEF Idle
  <2>3. CASE CloseLeft
    <3>1. PICK w \in Workers : w = closer.target
      BY <2>3 DEF PoolInv, CloserInv, CloseLeft
    <3>2. UNCHANGED <<loop, gen, scaler, joined>> /\ LeaveEnd(w)
      BY <2>3, <3>1 DEF CloseLeft
    <3>3. \A v \in Workers : v # w /\ Idle(v)' => Idle(v)
      BY <3>2 DEF Idle
    <3> QED
      BY <3>2, <3>3, SingleLeaves
  <2> QED
    BY <1>5, <2>1, <2>2, <2>3 DEF Closer
<1> QED
  BY <1>1, <1>2, <1>3, <1>4, <1>5 DEF Next

\* The workers of a new pool have one loop each, or none.
LEMMA SingleInit == Init => SingleInv
<1> SUFFICES ASSUME Init, NEW w \in Workers PROVE SingleOK(w)
  BY DEF SingleInv
<1>1. /\ gen[w] = (IF w \in InitialJoin THEN 1 ELSE 0) /\ joined = InitialJoin
      /\ hasCtx[w] = (w \in InitialJoin)
  BY DEF Init
<1>2. gen[w] >= 1 => w \in InitialJoin /\ gen[w] = 1
  BY <1>1
<1>3. \A g \in 1 .. MaxJoins : ~(g < gen[w])
  BY <1>1, ConstFacts
<1>4. gen[w] >= 1 => hasCtx[w] /\ ~Idle(w)
  BY <1>1, <1>2 DEF Idle
<1>5. gen[w] >= 1 => loop[<<w, gen[w]>>].pc \in LivePCs
  <2> SUFFICES ASSUME gen[w] >= 1 PROVE loop[<<w, gen[w]>>].pc \in LivePCs
    OBVIOUS
  <2>1. w \in InitialJoin /\ gen[w] = 1 /\ <<w, 1>> \in Loops
    BY <1>2, ConstFacts DEF Loops
  <2>2. loop[<<w, 1>>] = LoopAt("loop")
    BY <2>1 DEF Init
  <2> QED
    BY <2>1, <2>2, LoopAtFacts DEF LivePCs
<1> QED
  BY <1>3, <1>4, <1>5 DEF SingleOK

\* A worker whose leaves all ended in time never has two live run loops, and its
\* loop never reads a nil ctxFn, however often it leaves and is joined again.
THEOREM OneLoopPerWorkerHolds == Spec => []OneLoopPerWorker
<1>1. ASSUME PoolInv, SingleInv PROVE OneLoopPerWorker
  <2> SUFFICES ASSUME NEW w \in Workers \ timedOut
               PROVE  /\ Cardinality({l \in Loops : l[1] = w /\ loop[l].pc \in LivePCs})
                           <= 1
                      /\ \A l \in Loops : l[1] = w => loop[l].pc # "panicked"
    BY DEF OneLoopPerWorker
  <2> DEFINE S == {l \in Loops : l[1] = w /\ loop[l].pc \in LivePCs}
  <2>1. S \subseteq {<<w, gen[w]>>}
    BY <1>1, LiveIsLast
  <2>2. Cardinality(S) <= 1
    <3>1. /\ IsFiniteSet({<<w, gen[w]>>}) /\ Cardinality({<<w, gen[w]>>}) = 1
      BY FS_Singleton
    <3> HIDE DEF S
    <3>2. Cardinality(S) <= Cardinality({<<w, gen[w]>>})
      BY <2>1, <3>1, FS_Subset
    <3> QED
      BY <3>1, <3>2
  <2>3. ASSUME NEW l \in Loops, l[1] = w PROVE loop[l].pc # "panicked"
    <3>1. /\ l[2] \in 1 .. MaxJoins /\ l = <<w, l[2]>> /\ gen[w] \in 0 .. MaxJoins
      BY <1>1, <2>3, LoopFields DEF PoolInv, TypeOK
    <3>2. SingleOK(w)
      BY <1>1 DEF SingleInv
    <3>3. CASE gen[w] < l[2]
      BY <1>1, <2>3, <3>3 DEF PoolInv, LoopInv
    <3>4. CASE l[2] < gen[w]
      BY <3>1, <3>2, <3>4 DEF SingleOK
    <3>5. CASE l[2] = gen[w]
      <4>1. gen[w] >= 1
        BY <3>1, <3>5, ConstFacts
      <4> QED
        BY <3>1, <3>2, <3>5, <4>1 DEF SingleOK, LivePCs
    <3> QED
      BY <3>1, <3>3, <3>4, <3>5, ConstFacts
  <2> QED
    BY <2>2, <2>3
<1>2. Init => SingleInv
  BY SingleInit
<1>3. PoolInv /\ SingleInv /\ [Next]_vars => SingleInv'
  BY SingleStep
<1> QED
  BY <1>1, <1>2, <1>3, PoolHolds, PTL DEF Spec

----------------------------------------------------------------------------
(* PlaceInv is inductive, together with PoolInv. *)

\* A step that moves no job.
LEMMA PlaceKept ==
  ASSUME PlaceInv, UNCHANGED <<submitVars, backlog, runs, failed>>,
         dispatcher'.job = dispatcher.job,
         \A l \in Loops : \/ loop'[l] = loop[l]
                          \/ loop[l].pc # "received" /\ loop'[l].pc # "received"
  PROVE  PlaceInv'
<1>1. \A k, l, j : At(k, l, j)' <=> At(k, l, j)
  BY DEF At, submitVars
<1> QED
  BY <1>1 DEF PlaceInv, OnePlace

\* The step takes job v from one place to another and moves no other job.
Moves(v, k0, l0, k1, l1) ==
  \A j \in Jobs, k \in Kinds, l \in Spots :
    At(k, l, j)' <=> \/ At(k, l, j) /\ ~(k = k0 /\ l = l0 /\ j = v)
                     \/ k = k1 /\ l = l1 /\ j = v

\* A job that goes from one place to another is in one place again.
LEMMA PlaceMoved ==
  ASSUME PlaceInv, NEW v \in Jobs,
         NEW k0 \in Kinds, NEW l0 \in Spots, At(k0, l0, v),
         NEW k1 \in Kinds, NEW l1 \in Spots, Moves(v, k0, l0, k1, l1)
  PROVE  \A j \in Jobs : OnePlace(j)'
<1> SUFFICES ASSUME NEW j \in Jobs PROVE OnePlace(j)'
  OBVIOUS
<1>1. OnePlace(j) /\ OnePlace(v)
  BY DEF PlaceInv
<1>2. CASE j = v
  <2>1. \A k \in Kinds, l \in Spots : At(k, l, j)' <=> k = k1 /\ l = l1
    BY <1>1, <1>2 DEF OnePlace, Moves
  <2> QED
    BY <2>1 DEF OnePlace
<1>3. CASE j # v
  <2>1. \A k \in Kinds, l \in Spots : At(k, l, j)' <=> At(k, l, j)
    BY <1>3 DEF Moves
  <2> QED
    BY <1>1, <2>1 DEF OnePlace
<1> QED
  BY <1>2, <1>3

\* Where a job can be.
LEMMA PlaceFacts ==
  /\ "fresh" \in Kinds /\ "submitting" \in Kinds /\ "refused" \in Kinds
  /\ "backlog" \in Kinds /\ "dispatcher" \in Kinds /\ "received" \in Kinds
  /\ "handled" \in Kinds /\ "failed" \in Kinds
  /\ NoLoop \in Spots /\ NoLoop \notin Loops /\ Loops \subseteq Spots
<1>1. NoLoop \notin Loops
  BY ConstFacts DEF NoLoop, Loops
<1> QED
  BY <1>1 DEF Kinds, Spots

\* Submit: a job goes to the backlog, or its caller gets an error.
LEMMA SubmitPlace ==
  ASSUME PoolInv, PlaceInv, Submitter
  PROVE  PlaceInv'
<1>f. backlog \in Seq(Jobs) /\ Injective(backlog)
  BY DEF PoolInv, TypeOK, PlaceInv
<1> PICK v \in Jobs : SubmitStart(v) \/ SubmitSend(v) \/ SubmitFail(v)
  BY DEF Submitter
<1>u. UNCHANGED <<dispatcher, loop, runs, failed>>
  BY DEF SubmitStart, SubmitSend, SubmitFail
<1>1. CASE SubmitStart(v)
  <2>1. /\ v \in fresh /\ fresh' = fresh \ {v} /\ submitting' = submitting \cup {v}
        /\ UNCHANGED <<refused, backlog>>
    BY <1>1 DEF SubmitStart
  <2>2. At("fresh", NoLoop, v)
    BY <2>1 DEF At
  <2>3. Moves(v, "fresh", NoLoop, "submitting", NoLoop)
    BY <1>u, <2>1, PlaceFacts DEF Moves, At
  <2>4. \A j \in Jobs : OnePlace(j)'
    BY <2>2, <2>3, PlaceFacts, PlaceMoved
  <2> QED
    BY <1>u, <2>1, <2>4 DEF PlaceInv
<1>2. CASE SubmitSend(v)
  <2>1. /\ v \in submitting /\ submitting' = submitting \ {v}
        /\ backlog' = Append(backlog, v) /\ UNCHANGED <<fresh, refused>>
    BY <1>2 DEF SubmitSend
  <2>2. At("submitting", NoLoop, v)
    BY <2>1 DEF At
  <2>3. v \notin Elems(backlog)
    BY <2>2, PlaceFacts DEF PlaceInv, OnePlace, At
  <2>4. Elems(backlog') = Elems(backlog) \cup {v} /\ Injective(backlog')
    BY <1>f, <2>1, <2>3, AppendElems
  <2>5. Moves(v, "submitting", NoLoop, "backlog", NoLoop)
    BY <1>u, <2>1, <2>4, PlaceFacts DEF Moves, At
  <2>6. \A j \in Jobs : OnePlace(j)'
    BY <2>2, <2>5, PlaceFacts, PlaceMoved
  <2> QED
    BY <1>u, <2>4, <2>6 DEF PlaceInv
<1>3. CASE SubmitFail(v)
  <2>1. /\ v \in submitting /\ submitting' = submitting \ {v}
        /\ refused' = refused \cup {v} /\ UNCHANGED <<fresh, backlog>>
    BY <1>3 DEF SubmitFail
  <2>2. At("submitting", NoLoop, v)
    BY <2>1 DEF At
  <2>3. Moves(v, "submitting", NoLoop, "refused", NoLoop)
    BY <1>u, <2>1, PlaceFacts DEF Moves, At
  <2>4. \A j \in Jobs : OnePlace(j)'
    BY <2>2, <2>3, PlaceFacts, PlaceMoved
  <2> QED
    BY <1>u, <2>1, <2>4 DEF PlaceInv
<1> QED
  BY <1>1, <1>2, <1>3

\* The dispatcher takes a job, hands it to a loop, keeps it, or reports it.
LEMMA DispatcherPlace ==
  ASSUME PoolInv, PlaceInv, Dispatcher
  PROVE  PlaceInv'
<1>f. /\ TypeOK /\ DispatcherInv /\ LoopInv
      /\ backlog \in Seq(Jobs) /\ Injective(backlog)
      /\ dispatcher \in DispatcherState
  BY DEF PoolInv, TypeOK, PlaceInv
<1>j. dispatcher.pc \in {"select", "exited"} <=> dispatcher.job \notin Jobs
  BY <1>f, ConstFacts DEF DispatcherInv, DispatcherState
<1>u. UNCHANGED <<submitVars, runs>>
  BY DEF Dispatcher, DispatcherExit, DispatcherTake, DispatcherPull,
         DispatcherCheck, DispatcherSend, DispatcherSendTimeout, DispatcherGiveUp
<1>1. CASE DispatcherTake
  <2>1. PICK v : v = Head(backlog)
    OBVIOUS
  <2>2. /\ dispatcher.pc = "select" /\ backlog # <<>> /\ backlog' = Tail(backlog)
        /\ dispatcher'.job = v /\ UNCHANGED <<loop, failed>>
    BY <1>f, <1>1, <2>1 DEF DispatcherTake, DispatcherState
  <2>3. /\ v \in Jobs /\ Elems(backlog) = {v} \cup Elems(backlog')
        /\ v \notin Elems(backlog') /\ Injective(backlog')
    BY <1>f, <2>1, <2>2, TailElems
  <2>4. At("backlog", NoLoop, v)
    BY <2>3 DEF At
  <2>5. Moves(v, "backlog", NoLoop, "dispatcher", NoLoop)
    BY <1>j, <1>u, <2>2, <2>3, PlaceFacts DEF Moves, At, submitVars
  <2>6. \A j \in Jobs : OnePlace(j)'
    BY <2>3, <2>4, <2>5, PlaceFacts, PlaceMoved
  <2> QED
    BY <1>u, <2>3, <2>6 DEF PlaceInv
<1>2. ASSUME NEW l \in Loops, DispatcherSend(l) PROVE PlaceInv'
  <2>1. PICK v \in Jobs : v = dispatcher.job
    BY <1>f, <1>2, SendFacts
  <2>2. /\ dispatcher'.job = NoJob /\ UNCHANGED <<backlog, failed>>
    BY <1>2 DEF DispatcherSend
  <2>3. /\ loop[l].pc = "parked" /\ loop'[l].pc = "received" /\ loop'[l].job = v
        /\ \A k \in Loops : k # l => loop'[k] = loop[k]
    BY <1>f, <1>2, <2>1, SendFacts DEF OnlyLoop
  <2>4. At("dispatcher", NoLoop, v)
    BY <2>1 DEF At
  <2>5. Moves(v, "dispatcher", NoLoop, "received", l)
    BY <1>u, <2>1, <2>2, <2>3, PlaceFacts, ConstFacts DEF Moves, At, submitVars
  <2>6. \A j \in Jobs : OnePlace(j)'
    BY <2>4, <2>5, PlaceFacts, PlaceMoved
  <2> QED
    BY <1>f, <1>u, <2>2, <2>6 DEF PlaceInv
<1>3. CASE DispatcherGiveUp
  <2>1. /\ dispatcher.pc = "await" /\ failed' = failed \cup {dispatcher.job}
        /\ dispatcher'.job = NoJob /\ UNCHANGED <<backlog, loop>>
    BY <1>f, <1>3 DEF DispatcherGiveUp, DispatcherState
  <2>2. PICK v \in Jobs : v = dispatcher.job
    BY <1>j, <2>1
  <2>3. At("dispatcher", NoLoop, v)
    BY <2>2 DEF At
  <2>4. Moves(v, "dispatcher", NoLoop, "failed", NoLoop)
    BY <1>u, <2>1, <2>2, PlaceFacts, ConstFacts DEF Moves, At, submitVars
  <2>5. \A j \in Jobs : OnePlace(j)'
    BY <2>3, <2>4, PlaceFacts, PlaceMoved
  <2> QED
    BY <1>f, <1>u, <2>1, <2>5 DEF PlaceInv
<1>4. CASE DispatcherExit \/ DispatcherPull \/ DispatcherCheck
           \/ DispatcherSendTimeout
  <2>1. UNCHANGED <<backlog, loop, failed>>
    BY <1>4 DEF DispatcherExit, DispatcherPull, DispatcherCheck, DispatcherSendTimeout
  <2>2. dispatcher'.job = dispatcher.job
    BY <1>f, <1>4 DEF DispatcherExit, DispatcherPull, DispatcherCheck,
       DispatcherSendTimeout, DispatcherState
  <2> QED
    BY <1>u, <2>1, <2>2, PlaceKept
<1> QED
  BY <1>1, <1>2, <1>3, <1>4 DEF Dispatcher

\* A run loop calls the handler with the job that it has received.
LEMMA LoopPlace ==
  ASSUME PoolInv, PlaceInv, NEW l \in Loops, LoopStep(l) \/ LoopFinish(l)
  PROVE  PlaceInv'
<1>f. /\ TypeOK /\ LoopInv /\ Len(claimsCh) <= Size /\ Injective(backlog)
      /\ loop \in [Loops -> LoopState] /\ runs \in [Jobs -> Nat]
  BY DEF PoolInv, TypeOK, PlaceInv
<1>o. \A k \in Loops : k # l => loop'[k] = loop[k]
  BY <1>f, LoopFacts DEF OnlyLoop
<1>u. UNCHANGED <<submitVars, backlog, dispatcher, failed>>
  BY DEF LoopStep, LoopEnter, LoopIdle, LoopOffer, LoopExit, LoopRun, LoopFinish
<1>1. CASE LoopRun(l)
  <2>1. PICK v : v = loop[l].job
    OBVIOUS
  <2>2. v \in Jobs /\ loop[l].pc = "received"
    BY <1>f, <1>1, <2>1, LoopFields DEF LoopRun, LoopInv
  <2>3. /\ loop'[l].pc = "running" /\ runs' = [runs EXCEPT ![v] = @ + 1]
    BY <1>f, <1>1, <2>1 DEF LoopRun, LoopState
  <2>4. At("received", l, v)
    BY <2>1, <2>2 DEF At
  <2>5. runs[v] = 0
    <3>1. ~At("handled", NoLoop, v)
      BY <2>2, <2>4, PlaceFacts DEF PlaceInv, OnePlace
    <3> QED
      BY <2>2, <3>1 DEF At, PlaceInv
  <2>6. runs'[v] = 1 /\ \A j \in Jobs : j # v => runs'[j] = runs[j]
    BY <1>f, <2>2, <2>3, <2>5
  <2>7. Moves(v, "received", l, "handled", NoLoop)
    BY <1>o, <1>u, <2>1, <2>2, <2>3, <2>5, <2>6, PlaceFacts DEF Moves, At, submitVars
  <2>8. \A j \in Jobs : OnePlace(j)'
    BY <2>2, <2>4, <2>7, PlaceFacts, PlaceMoved
  <2> QED
    BY <1>f, <1>u, <2>6, <2>8 DEF PlaceInv
<1>2. CASE ~LoopRun(l)
  <2>1. UNCHANGED runs /\ loop[l].pc # "received"
    BY <1>2 DEF LoopStep, LoopEnter, LoopIdle, LoopOffer, LoopExit, LoopFinish
  <2>2. loop'[l].pc # "received"
    <3>1. CASE LoopEnter(l)
      <4>1. loop[l].pc = "loop" /\ Read(l, "offer")
        BY <3>1 DEF LoopEnter
      <4> QED
        BY <1>f, <4>1, ReadFacts
    <3>2. CASE LoopOffer(l)
      <4>1. loop[l].pc = "offer" /\ Read(l, "parked")
        BY <3>2 DEF LoopOffer
      <4> QED
        BY <1>f, <4>1, ReadFacts
    <3>3. CASE LoopIdle(l) \/ LoopExit(l) \/ LoopFinish(l)
      <4>1. PICK pc \in {"loop", "exited"} : loop' = [loop EXCEPT ![l] = LoopAt(pc)]
        BY <3>3 DEF LoopIdle, LoopExit, LoopFinish
      <4>2. LoopAt(pc).pc = pc
        BY LoopAtFacts DEF LivePCs
      <4> QED
        BY <1>f, <4>1, <4>2
    <3> QED
      BY <1>2, <3>1, <3>2, <3>3 DEF LoopStep
  <2> QED
    BY <1>o, <1>u, <2>1, <2>2, PlaceKept
<1> QED
  BY <1>1, <1>2

\* Every step preserves PlaceInv.
LEMMA PlaceStep == PoolInv /\ PlaceInv /\ [Next]_vars => PlaceInv'
<1> SUFFICES ASSUME PoolInv, PlaceInv, [Next]_vars PROVE PlaceInv'
  OBVIOUS
<1>1. CASE (\E drain \in BOOLEAN : Close(drain)) \/ Closer \/ CancelParent
           \/ UNCHANGED vars
  <2>1. UNCHANGED <<submitVars, backlog, runs, failed, dispatcher, loop>>
    BY <1>1 DEF Close, Closer, CloseCollect, CloseLeave, CloseLeft, CloseReturn,
       CancelParent, vars, submitVars
  <2> QED
    BY <2>1, PlaceKept
<1>2. CASE Scaler
  <2>1. UNCHANGED <<submitVars, backlog, runs, failed, dispatcher>>
    BY <1>2 DEF Scaler, ScalerTick, ScalerHold, ScalerUp, ScalerSubscribe,
       ScalerStart, ScalerRecord, ScalerLeave, ScalerLeft, ScalerExit, ScalerDown
  <2>2. CASE ScalerStart
    <3>1. PICK w \in Workers, g \in 1 .. MaxJoins :
            /\ w = scaler.target /\ g = gen[w] + 1
            /\ OnlyLoop(<<w, g>>) /\ loop'[<<w, g>>] = LoopAt("loop")
      BY <2>2, ScalerStarts
    <3>2. loop'[<<w, g>>].pc = "loop" /\ <<w, g>> \in Loops
      BY <3>1, LoopAtFacts DEF LivePCs, Loops
    <3>3. loop[<<w, g>>].pc = "none"
      <4>1. gen[w] \in 0 .. MaxJoins
        BY DEF PoolInv, TypeOK
      <4>2. gen[w] < g
        BY <3>1, <4>1, ConstFacts
      <4> QED
        BY <3>2, <4>2 DEF PoolInv, LoopInv
    <3>4. \A l \in Loops : l # <<w, g>> => loop'[l] = loop[l]
      BY <3>1 DEF OnlyLoop
    <3> QED
      BY <2>1, <3>2, <3>3, <3>4, PlaceKept
  <2>3. CASE ~ScalerStart
    <3>1. UNCHANGED loop
      BY <1>2, <2>3 DEF Scaler, ScalerTick, ScalerHold, ScalerUp, ScalerSubscribe,
         ScalerRecord, ScalerLeave, ScalerLeft, ScalerExit, ScalerDown
    <3> QED
      BY <2>1, <3>1, PlaceKept
  <2> QED
    BY <2>2, <2>3
<1> QED
  BY <1>1, <1>2, SubmitPlace, DispatcherPlace, LoopPlace DEF Next

\* Before its Submit a job is with its caller.
LEMMA PlaceInit == Init => PlaceInv
<1> SUFFICES ASSUME Init PROVE PlaceInv
  OBVIOUS
<1>1. /\ fresh = Jobs /\ submitting = {} /\ refused = {} /\ failed = {}
      /\ backlog = <<>> /\ dispatcher.job = NoJob
      /\ \A j \in Jobs : runs[j] = 0
  BY DEF Init
<1>2. \A l \in Loops : loop[l].pc # "received"
  BY LoopAtFacts DEF Init, LivePCs
<1>3. \A j \in Jobs, k \in Kinds, l \in Spots :
        At(k, l, j) <=> k = "fresh" /\ l = NoLoop
  BY <1>1, <1>2, EmptyElems, ConstFacts DEF At
<1> QED
  BY <1>1, <1>3, EmptyElems, PlaceFacts DEF PlaceInv, OnePlace

\* PlaceInv holds in every reachable state.
LEMMA PlaceHolds == Spec => []PlaceInv
<1>1. Init => PlaceInv
  BY PlaceInit
<1>2. PoolInv /\ PlaceInv /\ [Next]_vars => PlaceInv'
  BY PlaceStep
<1> QED
  BY <1>1, <1>2, PoolHolds, PTL DEF Spec

\* What PlaceInv says in the terms of JobInOnePlace, which counts positions.
LEMMA PlacesCounted ==
  ASSUME PoolInv, PlaceInv, NEW j \in Jobs
  PROVE  Cardinality(Places(j)) = 1 /\ runs[j] <= 1
<1>o. OnePlace(j) /\ runs[j] \in {0, 1} /\ Injective(backlog)
  BY DEF PlaceInv
<1>1. PICK k \in Kinds, l \in Spots : At(k, l, j)
  BY <1>o DEF OnePlace
<1>2. \A m \in Kinds, n \in Spots : At(m, n, j) => m = k /\ n = l
  BY <1>o, <1>1 DEF OnePlace
<1>3. /\ k # "fresh" => j \notin fresh
      /\ k # "submitting" => j \notin submitting
      /\ k # "refused" => j \notin refused
      /\ k # "backlog" => j \notin Elems(backlog)
      /\ k # "dispatcher" => dispatcher.job # j
      /\ k # "handled" => ~(runs[j] > 0)
      /\ k # "failed" => j \notin failed
      /\ \A n \in Loops : k # "received" \/ n # l =>
           ~(loop[n].pc = "received" /\ loop[n].job = j)
  <2>1. /\ k # "fresh" => ~At("fresh", NoLoop, j)
        /\ k # "submitting" => ~At("submitting", NoLoop, j)
        /\ k # "refused" => ~At("refused", NoLoop, j)
        /\ k # "backlog" => ~At("backlog", NoLoop, j)
        /\ k # "dispatcher" => ~At("dispatcher", NoLoop, j)
        /\ k # "handled" => ~At("handled", NoLoop, j)
        /\ k # "failed" => ~At("failed", NoLoop, j)
        /\ \A n \in Loops : k # "received" \/ n # l => ~At("received", n, j)
    BY <1>2, PlaceFacts
  <2> QED
    BY <1>o, <2>1 DEF At
<1> DEFINE Caller == {n \in 1 .. 3 : j \in <<fresh, submitting, refused>>[n]}
           Pos    == {i \in DOMAIN backlog : backlog[i] = j}
           Recv   == {n \in Loops : loop[n].pc = "received" /\ loop[n].job = j}
           D      == IF dispatcher.job = j THEN {<<"dispatcher", 0>>} ELSE {}
           H      == IF runs[j] > 0 THEN {<<"handled", runs[j]>>} ELSE {}
           F      == IF j \in failed THEN {<<"failed", 0>>} ELSE {}
<1>4. Places(j) = {<<"caller", n>> : n \in Caller} \cup {<<"backlog", i>> : i \in Pos}
                    \cup D \cup {<<"received", n>> : n \in Recv} \cup H \cup F
  BY DEF Places
<1>5. \A n : n \in Caller <=> \/ n = 1 /\ j \in fresh
                              \/ n = 2 /\ j \in submitting
                              \/ n = 3 /\ j \in refused
  OBVIOUS
<1>6. /\ k \notin {"fresh", "submitting", "refused"} => Caller = {}
      /\ k = "fresh" => Caller = {1}
      /\ k = "submitting" => Caller = {2}
      /\ k = "refused" => Caller = {3}
  <2>1. /\ k = "fresh" => j \in fresh
        /\ k = "submitting" => j \in submitting
        /\ k = "refused" => j \in refused
    BY <1>1 DEF At
  <2> HIDE DEF Caller
  <2> QED
    BY <1>3, <1>5, <2>1
<1>7. /\ k # "backlog" => Pos = {}
      /\ k = "backlog" => \E i : Pos = {i}
  <2>1. k # "backlog" => Pos = {}
    BY <1>3 DEF Elems
  <2>2. ASSUME k = "backlog" PROVE \E i : Pos = {i}
    <3>1. PICK i \in DOMAIN backlog : backlog[i] = j
      BY <1>1, <2>2 DEF At, Elems
    <3>2. Pos = {i}
      BY <1>o, <3>1 DEF Injective
    <3> QED
      BY <3>2
  <2> QED
    BY <2>1, <2>2
<1>8. /\ k # "received" => Recv = {}
      /\ k = "received" => Recv = {l}
  BY <1>1, <1>3 DEF At
<1>9. /\ D = IF k = "dispatcher" THEN {<<"dispatcher", 0>>} ELSE {}
      /\ H = IF k = "handled" THEN {<<"handled", runs[j]>>} ELSE {}
      /\ F = IF k = "failed" THEN {<<"failed", 0>>} ELSE {}
  <2>1. /\ k = "dispatcher" => dispatcher.job = j
        /\ k = "handled" => runs[j] > 0
        /\ k = "failed" => j \in failed
    BY <1>1 DEF At
  <2>2. D = IF k = "dispatcher" THEN {<<"dispatcher", 0>>} ELSE {}
    BY <1>3, <2>1
  <2>3. H = IF k = "handled" THEN {<<"handled", runs[j]>>} ELSE {}
    BY <1>3, <2>1
  <2>4. F = IF k = "failed" THEN {<<"failed", 0>>} ELSE {}
    BY <1>3, <2>1
  <2> QED
    BY <2>2, <2>3, <2>4
<1> HIDE DEF Caller, Pos, Recv, D, H, F
<1>10. \E x : Places(j) = {x}
  <2>1. CASE k \in {"fresh", "submitting", "refused"}
    <3>1. PICK n : Caller = {n}
      BY <1>6, <2>1
    <3>2. Places(j) = {<<"caller", n>>}
      BY <1>4, <1>7, <1>8, <1>9, <2>1, <3>1
    <3> QED
      BY <3>2
  <2>2. CASE k = "backlog"
    <3>1. PICK i : Pos = {i}
      BY <1>7, <2>2
    <3>2. Places(j) = {<<"backlog", i>>}
      BY <1>4, <1>6, <1>8, <1>9, <2>2, <3>1
    <3> QED
      BY <3>2
  <2>3. CASE k = "received"
    <3>1. Places(j) = {<<"received", l>>}
      BY <1>4, <1>6, <1>7, <1>8, <1>9, <2>3
    <3> QED
      BY <3>1
  <2>4. CASE k \in {"dispatcher", "handled", "failed"}
    <3>1. Places(j) = D \cup H \cup F
      BY <1>4, <1>6, <1>7, <1>8, <2>4
    <3> QED
      BY <1>9, <2>4, <3>1
  <2> QED
    BY <2>1, <2>2, <2>3, <2>4 DEF Kinds
<1>11. runs[j] <= 1
  BY <1>o
<1> QED
  BY <1>10, <1>11, FS_Singleton

\* A job is in exactly one place and handled at most once, however sends time
\* out, claims are dropped, workers leave and the pool is shut down.
THEOREM JobInOnePlaceHolds == Spec => []JobInOnePlace
<1>1. PoolInv /\ PlaceInv => JobInOnePlace
  BY PlacesCounted DEF JobInOnePlace
<1> QED
  BY <1>1, PoolHolds, PlaceHolds, PTL

----------------------------------------------------------------------------
(* DrainInv is inductive, together with PoolInv and PlaceInv. *)

\* A step that lets no job into Submit or into the backlog, and does not end the
\* dispatcher.
LEMMA DrainKept ==
  ASSUME DrainInv, UNCHANGED <<submitVars, backlog, dispatcher, shutdown>>,
         promised' \subseteq promised, poolDone => poolDone'
  PROVE  DrainInv'
BY DEF DrainInv, submitVars

\* Every step preserves DrainInv.
LEMMA DrainStep == PoolInv /\ PlaceInv /\ DrainInv /\ [Next]_vars => DrainInv'
<1> SUFFICES ASSUME PoolInv, PlaceInv, DrainInv, [Next]_vars PROVE DrainInv'
  OBVIOUS
<1>f. /\ backlog \in Seq(Jobs) /\ promised \subseteq Jobs
      /\ dispatcher \in DispatcherState /\ DispatcherInv /\ TypeOK
  BY DEF PoolInv, TypeOK
<1>1. CASE Submitter
  <2> PICK v \in Jobs : SubmitStart(v) \/ SubmitSend(v) \/ SubmitFail(v)
    BY <1>1 DEF Submitter
  <2>1. UNCHANGED <<dispatcher, shutdown, poolDone, promised>>
    BY DEF SubmitStart, SubmitSend, SubmitFail, lifeVars
  <2>2. fresh' \cup submitting' \cup refused' \subseteq fresh \cup submitting \cup refused
    BY DEF SubmitStart, SubmitSend, SubmitFail
  <2>3. Elems(backlog') \subseteq Elems(backlog) \cup submitting
    <3>1. CASE SubmitSend(v)
      BY <1>f, <3>1, AppendElems DEF SubmitSend
    <3>2. CASE SubmitStart(v) \/ SubmitFail(v)
      BY <3>2 DEF SubmitStart, SubmitFail
    <3> QED
      BY <3>1, <3>2
  <2> QED
    BY <2>1, <2>2, <2>3 DEF DrainInv
<1>2. CASE Dispatcher
  <2>1. UNCHANGED <<submitVars, shutdown, poolDone, promised>>
    BY <1>2 DEF Dispatcher, DispatcherExit, DispatcherTake, DispatcherPull,
       DispatcherCheck, DispatcherSend, DispatcherSendTimeout, DispatcherGiveUp, lifeVars
  <2>2. CASE DispatcherExit
    <3>1. /\ dispatcher.job = NoJob /\ dispatcher'.job = NoJob
          /\ poolDone \/ (shutdown /\ backlog = <<>>)
          /\ UNCHANGED backlog
      BY <1>f, <2>2 DEF DispatcherExit, DispatcherInv, DispatcherState
    <3>2. \A j \in promised : NoJob # j
      BY <1>f, ConstFacts
    <3> QED
      BY <2>1, <3>1, <3>2, EmptyElems DEF DrainInv, submitVars
  <2>3. CASE ~DispatcherExit
    <3>1. dispatcher'.pc # "exited"
      <4>1. CASE DispatcherTake \/ DispatcherPull
        BY <1>f, <4>1 DEF DispatcherTake, DispatcherPull, DispatcherState
      <4>2. CASE DispatcherCheck
        BY <1>f, <4>2 DEF DispatcherCheck, DispatcherState
      <4>3. CASE \E l \in Loops : DispatcherSend(l)
        BY <4>3 DEF DispatcherSend
      <4>4. CASE DispatcherSendTimeout \/ DispatcherGiveUp
        BY <1>f, <4>4 DEF DispatcherSendTimeout, DispatcherGiveUp, DispatcherState
      <4> QED
        BY <1>2, <2>3, <4>1, <4>2, <4>3, <4>4 DEF Dispatcher
    <3> QED
      BY <2>1, <3>1 DEF DrainInv, submitVars
  <2> QED
    BY <2>2, <2>3
<1>3. ASSUME NEW l \in Loops, LoopStep(l) \/ LoopFinish(l) PROVE DrainInv'
  <2>1. UNCHANGED <<submitVars, backlog, dispatcher, lifeVars>>
    BY <1>3 DEF LoopStep, LoopEnter, LoopIdle, LoopOffer, LoopExit, LoopRun, LoopFinish
  <2> QED
    BY <2>1, DrainKept DEF lifeVars
<1>4. CASE Scaler
  <2>1. UNCHANGED <<submitVars, backlog, dispatcher, lifeVars>>
    BY <1>4 DEF Scaler, ScalerTick, ScalerHold, ScalerUp, ScalerSubscribe,
       ScalerStart, ScalerRecord, ScalerLeave, ScalerLeft, ScalerExit, ScalerDown
  <2> QED
    BY <2>1, DrainKept DEF lifeVars
<1>5. ASSUME NEW drain \in BOOLEAN, Close(drain) PROVE DrainInv'
  <2>1. /\ closer.pc = "open" /\ shutdown' /\ (poolDone => poolDone')
        /\ promised' \subseteq Elems(backlog)
        /\ UNCHANGED <<submitVars, backlog, dispatcher>>
    BY <1>5 DEF Close, Queued, Elems
  <2>2. ~shutdown
    BY <2>1 DEF PoolInv, CloserInv
  <2>3. dispatcher.pc = "exited" => poolDone'
    BY <2>1, <2>2 DEF DrainInv
  <2>4. Elems(backlog) \subseteq Jobs
    BY <1>f, ElementOfSeq, LenProperties DEF Elems
  <2>5. \A j \in Elems(backlog) : j \notin fresh \cup submitting \cup refused
    <3> SUFFICES ASSUME NEW j \in Elems(backlog)
                 PROVE  j \notin fresh \cup submitting \cup refused
      OBVIOUS
    <3>1. OnePlace(j) /\ At("backlog", NoLoop, j)
      BY <2>4 DEF PlaceInv, At
    <3>2. /\ ~At("fresh", NoLoop, j) /\ ~At("submitting", NoLoop, j)
          /\ ~At("refused", NoLoop, j)
      BY <3>1, PlaceFacts DEF OnePlace
    <3> QED
      BY <3>2 DEF At
  <2> QED
    BY <2>1, <2>3, <2>5 DEF DrainInv, submitVars
<1>6. CASE Closer \/ CancelParent
  <2>1. /\ UNCHANGED <<submitVars, backlog, dispatcher, shutdown>>
        /\ promised' \subseteq promised
        /\ (poolDone => poolDone')
    BY <1>6 DEF Closer, CloseCollect, CloseLeave, CloseLeft, CloseReturn,
       CancelParent, lifeVars
  <2> QED
    BY <2>1, DrainKept
<1>7. CASE UNCHANGED vars
  BY <1>7, DrainKept DEF vars, submitVars
<1> QED
  BY <1>1, <1>2, <1>3, <1>4, <1>5, <1>6, <1>7 DEF Next

\* GracefulShutdown goes on to stop the workers only after every job that was
\* queued when it was called was handed to a worker or reported.
THEOREM GracefulDrainsHolds == Spec => []GracefulDrains
<1>1. Init => DrainInv
  BY DEF Init, DrainInv
<1>2. PoolInv /\ PlaceInv /\ DrainInv /\ [Next]_vars => DrainInv'
  BY DrainStep
<1>3. ASSUME PoolInv, PlaceInv, DrainInv PROVE GracefulDrains
  <2> SUFFICES ASSUME closer.pc \in {"leaving", "left"}, ~poolDone,
                      NEW j \in promised
               PROVE  j \in failed \/ runs[j] = 1 \/ \E l \in Loops : loop[l].job = j
    BY DEF GracefulDrains
  <2>1. j \in Jobs /\ dispatcher.pc = "exited"
    BY <1>3 DEF PoolInv, TypeOK, CloserInv
  <2>2. /\ j \notin fresh \cup submitting \cup refused
        /\ j \notin Elems(backlog) /\ dispatcher.job # j
    BY <1>3, <2>1 DEF DrainInv
  <2>3. PICK k \in Kinds, l \in Spots : At(k, l, j)
    BY <1>3, <2>1 DEF PlaceInv, OnePlace
  <2> QED
    BY <2>2, <2>3 DEF At
<1> QED
  BY <1>1, <1>2, <1>3, PoolHolds, PlaceHolds, PTL DEF Spec
==============================================================================

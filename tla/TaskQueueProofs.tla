--------------------------- MODULE TaskQueueProofs ---------------------------
(***************************************************************************)
(* Machine-checked safety of TaskQueue, for every set of tasks, consumers  *)
(* and redrivers and every attempt ceiling.                                *)
(*                                                                         *)
(* The inductive invariant IInv ties the three views the code keeps of a   *)
(* delivery to one another: the attempt count of the queueItem, the one    *)
(* frozen in the lease a consumer holds, and the one the reaper copied.    *)
(***************************************************************************)
EXTENDS QueueRefinement, TLAPS, SequenceTheorems

\* An item in the heap has a delivery left, one anywhere has not exceeded it.
AttemptInv ==
  /\ \A i \in Items : items[i].attempt <= MaxAttempts
  /\ \A i \in ready : items[i].attempt < MaxAttempts

\* A live lease is the latest delivery of its item; an old token is not newer.
LeaseInv ==
  /\ \A t \in leases : issued[t].attempt = items[issued[t].item].attempt
  /\ \A t \in Tokens : issued[t].attempt <= items[issued[t].item].attempt
  /\ \A t \in Tokens : issued[t].attempt \in 1 .. MaxAttempts

\* The reaper's copies agree with the leases they were made from, and are due.
SweepInv ==
  \A l \in reaper.todo : /\ l.attempt = issued[l.token].attempt
                         /\ l.token <= lapsed

\* A claim that is being dropped was settled by a Nack at the ceiling.
DropInv ==
  /\ dropping \subseteq settled
  /\ \A t \in dropping : issued[t].attempt = MaxAttempts

\* What the Backend guarantees, and what the users of its leases rely on.
BackendInv == AttemptInv /\ LeaseInv /\ ItemInOnePlace /\ BoundedDelivery

RouteInv == SweepInv /\ DropInv /\ DeadOnlyExhausted

IInv == TypeOK /\ BackendInv /\ RouteInv

\* The lease t is about to be dropped by a route that has dead-lettered it.
Doomed(t) == t \in dropping \/ (reaper.pc = "dropping" /\ reaper.token = t)

\* The item i survives every route and Redrive that is under way.
Sound(i) == i \in ready \cup acked
            \/ \E t \in leases : issued[t].item = i /\ ~Doomed(t)

\* A task that is not dead-lettered has an item that is not about to go.
KeptInv ==
  \A i \in Items : \/ TaskOf(i) \in dead \cup clobbered
                   \/ \E k \in Items : TaskOf(k) = TaskOf(i) /\ Sound(k)

\* The item a Redrive has enqueued outlives the dead letter it will remove,
\* unless the task has died again.
RedriveInv ==
  \A r \in Redrivers, k \in Items :
    redrive[r].pc = "remove" /\ redrive[r].item = k /\ r \notin readded
      => TaskOf(k) = redrive[r].task /\ Sound(k)

LossInv == IInv /\ KeptInv /\ RedriveInv

----------------------------------------------------------------------------
(* The two Backend calls that change the sequences. *)

\* Backend.Enqueue adds one item at the end and changes no other.
LEMMA EnqueueFacts ==
  ASSUME items \in Seq(Item), NEW task \in Tasks, BackendEnqueue(task)
  PROVE  /\ items' \in Seq(Item)
         /\ Len(items) + 1 \notin Items
         /\ Items' = Items \cup {Len(items) + 1}
         /\ \A i \in Items : items'[i] = items[i]
         /\ items'[Len(items) + 1].task = task
         /\ items'[Len(items) + 1].attempt = 0
         /\ ready' = ready \cup {Len(items) + 1}
<1> DEFINE e == [task |-> task, attempt |-> 0]
<1>1. e \in Item
  BY DEF Item
<1>2. items' = Append(items, e) /\ ready' = ready \cup {Len(items) + 1}
  BY DEF BackendEnqueue
<1>3. Len(items) \in Nat /\ Items = 1 .. Len(items)
  BY LenProperties DEF Items
<1> HIDE DEF e
<1>4. /\ items' \in Seq(Item)
      /\ Len(items') = Len(items) + 1
      /\ \A i \in 1 .. Len(items) : items'[i] = items[i]
      /\ items'[Len(items) + 1] = e
  BY <1>1, <1>2, AppendProperties
<1>5. Items' = 1 .. Len(items) + 1
  BY <1>4, LenProperties DEF Items
<1>6. Items' = Items \cup {Len(items) + 1} /\ Len(items) + 1 \notin Items
  BY <1>3, <1>5
<1> QED
  BY <1>2, <1>3, <1>4, <1>6 DEF e

\* Backend.Claim counts one delivery of the item and records it in a new token.
LEMMA ClaimFacts ==
  ASSUME items \in Seq(Item), issued \in Seq(LeaseInfo), ready \subseteq Items,
         NEW i \in ready, BackendClaim(i)
  PROVE  /\ items' \in Seq(Item)
         /\ Items' = Items
         /\ \A j \in Items \ {i} : items'[j] = items[j]
         /\ items'[i].task = items[i].task
         /\ items'[i].attempt = items[i].attempt + 1
         /\ issued' \in Seq(LeaseInfo)
         /\ Len(issued') = Len(issued) + 1
         /\ Len(issued) + 1 \notin Tokens
         /\ Tokens' = Tokens \cup {Len(issued) + 1}
         /\ \A t \in Tokens : issued'[t] = issued[t]
         /\ issued'[Len(issued) + 1].item = i
         /\ issued'[Len(issued) + 1].attempt = items[i].attempt + 1
         /\ ready' = ready \ {i}
         /\ leases' = leases \cup {Len(issued) + 1}
<1> DEFINE e == [item |-> i, attempt |-> items[i].attempt + 1]
           f == [items[i] EXCEPT !.attempt = @ + 1]
<1>1. Len(items) \in Nat /\ Items = 1 .. Len(items) /\ i \in 1 .. Len(items)
  BY LenProperties DEF Items
<1>2. items[i] \in Item
  BY <1>1, ElementOfSeq
<1>3. f \in Item /\ f.task = items[i].task /\ f.attempt = items[i].attempt + 1
  BY <1>2 DEF Item
<1>4. e \in LeaseInfo
  BY <1>1, <1>2 DEF Item, LeaseInfo
<1>5. /\ items' = [items EXCEPT ![i] = f]
      /\ issued' = Append(issued, e)
      /\ ready' = ready \ {i}
      /\ leases' = leases \cup {Len(issued) + 1}
  BY DEF BackendClaim
<1> HIDE DEF e, f
<1>6. /\ items' \in Seq(Item)
      /\ Len(items') = Len(items)
      /\ \A j \in 1 .. Len(items) : items'[j] = IF j = i THEN f ELSE items[j]
  BY <1>1, <1>3, <1>5, ExceptSeq
<1>7. Items' = Items
  BY <1>1, <1>6, LenProperties DEF Items
<1>8. /\ issued' \in Seq(LeaseInfo)
      /\ Len(issued') = Len(issued) + 1
      /\ \A t \in 1 .. Len(issued) : issued'[t] = issued[t]
      /\ issued'[Len(issued) + 1] = e
  BY <1>4, <1>5, AppendProperties
<1>9. Len(issued) \in Nat /\ Tokens = 1 .. Len(issued)
      /\ Tokens' = 1 .. Len(issued')
  BY <1>8, LenProperties DEF Tokens
<1>10. Tokens' = Tokens \cup {Len(issued) + 1} /\ Len(issued) + 1 \notin Tokens
  BY <1>8, <1>9
<1> QED
  BY <1>1, <1>3, <1>5, <1>6, <1>7, <1>8, <1>9, <1>10 DEF e

----------------------------------------------------------------------------
(* Type correctness. *)

\* What TypeOK says of the two sequences, element by element.
LEMMA SeqFacts ==
  ASSUME TypeOK
  PROVE  /\ Len(items) \in Nat
         /\ Items = 1 .. Len(items)
         /\ \A i \in Items : items[i].task \in Tasks /\ items[i].attempt \in Nat
         /\ Len(issued) \in Nat
         /\ Tokens = 1 .. Len(issued)
         /\ \A t \in Tokens : issued[t].item \in Items /\ issued[t].attempt \in Nat
<1>1. /\ items \in Seq(Item)
      /\ issued \in Seq(LeaseInfo)
      /\ \A t \in Tokens : issued[t].item \in Items
  BY DEF TypeOK
<1>2. /\ Len(items) \in Nat
      /\ Items = 1 .. Len(items)
      /\ \A i \in Items : items[i] \in Item
  BY <1>1, LenProperties, ElementOfSeq DEF Items
<1>3. /\ Len(issued) \in Nat
      /\ Tokens = 1 .. Len(issued)
      /\ \A t \in Tokens : issued[t] \in LeaseInfo
  BY <1>1, LenProperties, ElementOfSeq DEF Tokens
<1> QED
  BY <1>1, <1>2, <1>3 DEF Item, LeaseInfo

\* TypeOK holds when New returns.
LEMMA TypeInit == Init => TypeOK
<1> SUFFICES ASSUME Init PROVE TypeOK
  OBVIOUS
<1>1. items \in Seq(Item) /\ issued \in Seq(LeaseInfo)
  BY EmptySeq DEF Init
<1>2. Items = {} /\ Tokens = {} /\ Len(issued) = 0
  BY DEF Init, Items, Tokens
<1>3. redrive \in [Redrivers ->
                    {NotRedriving}
                      \cup [pc : {"enqueue"}, task : Tasks, item : {0}]
                      \cup [pc : {"remove"}, task : Tasks, item : Items]]
  BY DEF Init
<1>4. reaper \in [pc : {"waiting", "routing", "dropping", "done"},
                  todo : SUBSET [token : Tokens, attempt : Nat],
                  token : Tokens \cup {0}]
  BY DEF Init
<1>5. /\ ready = {} /\ leases = {} /\ settled = {} /\ dropping = {}
      /\ acked = {} /\ lapsed \in 0 .. Len(issued)
  BY <1>2 DEF Init
<1>6. /\ dead = {} /\ enqueuing = {} /\ readded = {} /\ clobbered = {}
      /\ closed \in BOOLEAN /\ ctxDone \in BOOLEAN
      /\ consumer \in [Consumers -> {"idle", "claiming", "waiting"}]
  BY DEF Init
<1> QED
  BY <1>1, <1>2, <1>3, <1>4, <1>5, <1>6 DEF TypeOK

\* Every step, by any goroutine, preserves TypeOK.
LEMMA TypeStep == TypeOK /\ [Next]_vars => TypeOK'
<1> SUFFICES ASSUME TypeOK, [Next]_vars PROVE TypeOK'
  OBVIOUS
<1> USE DEF backendVars, claimVars, lifeVars, deadVars
<1>1. ASSUME NEW t \in Tasks, EnqueueStart(t) PROVE TypeOK'
  BY <1>1 DEF EnqueueStart, TypeOK, Items, Tokens
<1>2. ASSUME NEW t \in Tasks, EnqueuePush(t) PROVE TypeOK'
  <2>1. items' \in Seq(Item) /\ Items' = Items \cup {Len(items) + 1}
        /\ ready' = ready \cup {Len(items) + 1}
    BY <1>2, EnqueueFacts DEF EnqueuePush, TypeOK
  <2>2. Tokens' = Tokens
    BY <1>2 DEF EnqueuePush, Tokens
  <2> QED
    BY <1>2, <2>1, <2>2 DEF EnqueuePush, TypeOK
<1>3. ASSUME NEW t \in Tasks, EnqueueFail(t) PROVE TypeOK'
  BY <1>3 DEF EnqueueFail, TypeOK, Items, Tokens
<1>4. ASSUME NEW c \in Consumers, DequeueStart(c) PROVE TypeOK'
  BY <1>4 DEF DequeueStart, ConsumerGoes, TypeOK, Items, Tokens
<1>5. ASSUME NEW c \in Consumers, DequeueClaim(c) PROVE TypeOK'
  <2> PICK i \in ready : BackendClaim(i)
    BY <1>5 DEF DequeueClaim
  <2>1. /\ items' \in Seq(Item)
        /\ Items' = Items
        /\ issued' \in Seq(LeaseInfo)
        /\ Len(issued') = Len(issued) + 1
        /\ Tokens' = Tokens \cup {Len(issued) + 1}
        /\ \A t \in Tokens : issued'[t] = issued[t]
        /\ issued'[Len(issued) + 1].item = i
        /\ ready' = ready \ {i}
        /\ leases' = leases \cup {Len(issued) + 1}
    <3>1. /\ items \in Seq(Item)
          /\ issued \in Seq(LeaseInfo)
          /\ ready \subseteq Items
      BY DEF TypeOK
    <3> QED
      BY <3>1, ClaimFacts
  <2>2. \A t \in Tokens' : issued'[t].item \in Items'
    BY <2>1 DEF TypeOK
  <2>3. lapsed' \in 0 .. Len(issued')
    BY <1>5, <2>1, SeqFacts DEF DequeueClaim, TypeOK
  <2>4. reaper' \in [pc : {"waiting", "routing", "dropping", "done"},
                     todo : SUBSET [token : Tokens', attempt : Nat],
                     token : Tokens' \cup {0}]
    BY <1>5, <2>1 DEF DequeueClaim, TypeOK
  <2>5. redrive' = redrive /\ Items' = Items
    BY <1>5, <2>1 DEF DequeueClaim
  <2> QED
    BY <1>5, <2>1, <2>2, <2>3, <2>4, <2>5
       DEF DequeueClaim, ConsumerGoes, TypeOK
<1>6. ASSUME NEW c \in Consumers, DequeueEmpty(c) PROVE TypeOK'
  BY <1>6 DEF DequeueEmpty, ConsumerGoes, TypeOK, Items, Tokens
<1>7. ASSUME NEW c \in Consumers, DequeuePoll(c) PROVE TypeOK'
  BY <1>7 DEF DequeuePoll, ConsumerGoes, TypeOK, Items, Tokens
<1>8. ASSUME NEW c \in Consumers, DequeueFail(c) PROVE TypeOK'
  BY <1>8 DEF DequeueFail, ConsumerGoes, TypeOK, Items, Tokens
<1>9. ASSUME NEW t \in Tokens, Ack(t) PROVE TypeOK'
  BY <1>9 DEF Ack, Settle, BackendAck, TypeOK, Items, Tokens
<1>10. ASSUME NEW t \in Tokens, NackRequeue(t) PROVE TypeOK'
  BY <1>10 DEF NackRequeue, Settle, BackendNack, TypeOK, Items, Tokens
<1>11. ASSUME NEW t \in Tokens, NackDeadLetter(t) PROVE TypeOK'
  <2>1. LeaseTask(t) \in Tasks
    BY SeqFacts DEF LeaseTask, TaskOf
  <2> QED
    BY <1>11, <2>1 DEF NackDeadLetter, Settle, DeadLetterAdd, TypeOK, Items, Tokens
<1>12. ASSUME NEW t \in Tokens, NackDrop(t) PROVE TypeOK'
  BY <1>12 DEF NackDrop, BackendNack, TypeOK, Items, Tokens
<1>13. ASSUME NEW t \in Tokens, SettleFail(t) PROVE TypeOK'
  BY <1>13 DEF SettleFail, Settle, TypeOK, Items, Tokens
<1>14. CASE SweepStart
  <2>1. ReapExpired \subseteq [token : Tokens, attempt : Nat]
    BY SeqFacts DEF ReapExpired, TypeOK
  <2> QED
    BY <1>14, <2>1 DEF SweepStart, TypeOK, Items, Tokens
<1>15. ASSUME NEW l \in reaper.todo, SweepRequeue(l) PROVE TypeOK'
  <2>1. l.token \in Tokens
    BY DEF TypeOK
  <2>2. reaper' \in [pc : {"waiting", "routing"},
                     todo : SUBSET [token : Tokens, attempt : Nat],
                     token : {0}]
    BY <1>15 DEF SweepRequeue, SweepNext, TypeOK
  <2>3. leases' \subseteq Tokens /\ ready' \subseteq Items
    BY <1>15, <2>1 DEF SweepRequeue, BackendNack, TypeOK
  <2> QED
    BY <1>15, <2>2, <2>3 DEF SweepRequeue, TypeOK, Items, Tokens
<1>16. ASSUME NEW l \in reaper.todo, SweepDeadLetter(l) PROVE TypeOK'
  <2>1. l.token \in Tokens
    BY DEF TypeOK
  <2>2. LeaseTask(l.token) \in Tasks
    BY <2>1, SeqFacts DEF LeaseTask, TaskOf
  <2> QED
    BY <1>16, <2>1, <2>2
       DEF SweepDeadLetter, DeadLetterAdd, TypeOK, Items, Tokens
<1>17. ASSUME NEW l \in reaper.todo, SweepDrop(l) PROVE TypeOK'
  BY <1>17 DEF SweepDrop, SweepNext, BackendNack, TypeOK, Items, Tokens
<1>18. ASSUME NEW l \in reaper.todo, SweepFail(l) PROVE TypeOK'
  BY <1>18 DEF SweepFail, SweepNext, TypeOK, Items, Tokens
<1>19. CASE ReaperExit
  BY <1>19 DEF ReaperExit, TypeOK, Items, Tokens
<1>20. ASSUME NEW r \in Redrivers, NEW t \in Tasks, RedriveFind(r, t) PROVE TypeOK'
  <2>1. redrive' \in [Redrivers ->
                       {NotRedriving}
                         \cup [pc : {"enqueue"}, task : Tasks, item : {0}]
                         \cup [pc : {"remove"}, task : Tasks, item : Items]]
    BY <1>20 DEF RedriveFind, TypeOK
  <2> QED
    BY <1>20, <2>1 DEF RedriveFind, TypeOK, Items, Tokens
<1>21. ASSUME NEW r \in Redrivers, RedriveEnqueue(r) PROVE TypeOK'
  <2>1. redrive[r] \in [pc : {"enqueue"}, task : Tasks, item : {0}]
    BY <1>21 DEF RedriveEnqueue, NotRedriving, TypeOK
  <2>2. items' \in Seq(Item) /\ Items' = Items \cup {Len(items) + 1}
        /\ ready' = ready \cup {Len(items) + 1}
    BY <1>21, <2>1, EnqueueFacts DEF RedriveEnqueue, TypeOK
  <2>3. Tokens' = Tokens
    BY <1>21 DEF RedriveEnqueue, Tokens
  <2>4. redrive' \in [Redrivers ->
                       {NotRedriving}
                         \cup [pc : {"enqueue"}, task : Tasks, item : {0}]
                         \cup [pc : {"remove"}, task : Tasks, item : Items']]
    BY <1>21, <2>1, <2>2 DEF RedriveEnqueue, TypeOK
  <2> QED
    BY <1>21, <2>2, <2>3, <2>4 DEF RedriveEnqueue, TypeOK
<1>22. ASSUME NEW r \in Redrivers, RedriveRemove(r) PROVE TypeOK'
  BY <1>22 DEF RedriveRemove, NotRedriving, TypeOK, Items, Tokens
<1>23. ASSUME NEW r \in Redrivers, RedriveFail(r) PROVE TypeOK'
  BY <1>23 DEF RedriveFail, NotRedriving, TypeOK, Items, Tokens
<1>24. CASE DeadlinePasses
  BY <1>24 DEF DeadlinePasses, TypeOK, Items, Tokens
<1>25. CASE Close
  BY <1>25 DEF Close, TypeOK, Items, Tokens
<1>26. CASE CloseCancel
  BY <1>26 DEF CloseCancel, TypeOK, Items, Tokens
<1>27. CASE CancelParent
  BY <1>27 DEF CancelParent, TypeOK, Items, Tokens
<1>28. CASE UNCHANGED vars
  BY <1>28 DEF vars, TypeOK, Items, Tokens
<1> QED
  BY <1>1, <1>2, <1>3, <1>4, <1>5, <1>6, <1>7, <1>8, <1>9, <1>10, <1>11,
     <1>12, <1>13, <1>14, <1>15, <1>16, <1>17, <1>18, <1>19, <1>20, <1>21,
     <1>22, <1>23, <1>24, <1>25, <1>26, <1>27, <1>28
     DEF Next, Producer, Dequeuer, Settler, Reaper, Redriver

\* Every variable keeps its type in every reachable state.
THEOREM TypeCorrect == Spec => []TypeOK
<1>1. Init => TypeOK
  BY TypeInit
<1>2. TypeOK /\ [Next]_vars => TypeOK'
  BY TypeStep
<1> QED
  BY <1>1, <1>2, PTL DEF Spec

----------------------------------------------------------------------------
(* BackendInv: one lemma per way a step changes the backend. *)

\* A fresh item in the heap has never been delivered.
LEMMA BackendPush ==
  ASSUME TypeOK, BackendInv, NEW task \in Tasks, BackendEnqueue(task),
         UNCHANGED <<issued, leases, acked>>
  PROVE  BackendInv'
<1> DEFINE n == Len(items) + 1
<1>1. /\ n \notin Items
      /\ Items' = Items \cup {n}
      /\ \A i \in Items : items'[i] = items[i]
      /\ items'[n].attempt = 0
      /\ ready' = ready \cup {n}
  BY EnqueueFacts DEF TypeOK
<1>2. Tokens' = Tokens /\ LeasedItems' = LeasedItems /\ LeasedItems \subseteq Items
  BY DEF Tokens, LeasedItems, TypeOK
<1>3. MaxAttempts \in Nat /\ 0 < MaxAttempts
  BY QueueAssumption
<1> HIDE DEF n
<1>4. AttemptInv'
  BY <1>1, <1>3, 0 <= MaxAttempts DEF AttemptInv, BackendInv, TypeOK
<1>5. LeaseInv'
  BY <1>1, <1>2 DEF LeaseInv, BackendInv, TypeOK
<1>6. ItemInOnePlace'
  BY <1>1, <1>2 DEF ItemInOnePlace, BackendInv, TypeOK
<1>7. BoundedDelivery'
  BY <1>2 DEF BoundedDelivery, BackendInv
<1> QED
  BY <1>4, <1>5, <1>6, <1>7 DEF BackendInv

\* A claim moves an item from the heap to a lease with the next attempt number.
LEMMA BackendClaimed ==
  ASSUME TypeOK, BackendInv, NEW i \in ready, BackendClaim(i), UNCHANGED acked
  PROVE  BackendInv'
<1> DEFINE n == Len(issued) + 1
<1>1. items \in Seq(Item) /\ issued \in Seq(LeaseInfo) /\ ready \subseteq Items
  BY DEF TypeOK
<1>2. /\ Items' = Items
      /\ \A j \in Items \ {i} : items'[j] = items[j]
      /\ items'[i].attempt = items[i].attempt + 1
      /\ n \notin Tokens
      /\ Tokens' = Tokens \cup {n}
      /\ \A t \in Tokens : issued'[t] = issued[t]
      /\ issued'[n].item = i
      /\ issued'[n].attempt = items[i].attempt + 1
      /\ ready' = ready \ {i}
      /\ leases' = leases \cup {n}
  BY <1>1, ClaimFacts
<1>3. /\ \A j \in Items : items[j].attempt \in Nat
      /\ \A t \in Tokens : issued[t].item \in Items /\ issued[t].attempt \in Nat
      /\ n \in Nat /\ \A t \in Tokens : t \in Nat /\ t < n
  BY SeqFacts
<1>4. MaxAttempts \in Nat /\ i \in Items /\ items[i].attempt < MaxAttempts
  BY QueueAssumption, <1>1 DEF BackendInv, AttemptInv
<1>5. leases \subseteq Tokens
  BY DEF TypeOK
<1>6. \A t \in leases : issued[t].item # i
  BY DEF BackendInv, ItemInOnePlace, LeasedItems
<1> HIDE DEF n
<1>7. AttemptInv'
  BY <1>2, <1>3, <1>4, <1>1 DEF AttemptInv, BackendInv
<1>8. LeaseInv'
  <2>1. \A t \in leases' : issued'[t].attempt = items'[issued'[t].item].attempt
    BY <1>2, <1>3, <1>5, <1>6 DEF LeaseInv, BackendInv
  <2>2. \A t \in Tokens' : issued'[t].attempt <= items'[issued'[t].item].attempt
    BY <1>2, <1>3, <1>4 DEF LeaseInv, BackendInv
  <2>3. \A t \in Tokens' : issued'[t].attempt \in 1 .. MaxAttempts
    BY <1>2, <1>3, <1>4 DEF LeaseInv, BackendInv
  <2> QED
    BY <2>1, <2>2, <2>3 DEF LeaseInv
<1>9. ItemInOnePlace'
  <2>1. LeasedItems' = LeasedItems \cup {i}
    BY <1>2, <1>5 DEF LeasedItems
  <2>2. i \notin LeasedItems /\ i \notin acked
    BY DEF BackendInv, ItemInOnePlace
  <2>3. \A t, u \in leases' : issued'[t].item = issued'[u].item => t = u
    BY <1>2, <1>5, <1>6 DEF BackendInv, ItemInOnePlace
  <2> QED
    BY <1>2, <2>1, <2>2, <2>3 DEF BackendInv, ItemInOnePlace
<1>10. BoundedDelivery'
  <2>1. \A t \in Tokens :
          issued[t].item = i => issued[t].attempt < items[i].attempt + 1
    BY <1>3, <1>4 DEF BackendInv, LeaseInv
  <2>2. \A t \in Tokens', u \in Tokens' :
          t < u /\ issued'[t].item = issued'[u].item
             => issued'[t].attempt < issued'[u].attempt
    <3> SUFFICES ASSUME NEW t \in Tokens', NEW u \in Tokens',
                        t < u, issued'[t].item = issued'[u].item
                 PROVE  issued'[t].attempt < issued'[u].attempt
      OBVIOUS
    <3>1. t \in Tokens
      BY <1>2, <1>3
    <3>2. CASE u \in Tokens
      BY <1>2, <3>1, <3>2 DEF BackendInv, BoundedDelivery
    <3>3. CASE u = n
      BY <1>2, <2>1, <3>1, <3>3
    <3> QED
      BY <1>2, <3>2, <3>3
  <2> QED
    BY <1>8, <2>2 DEF LeaseInv, BoundedDelivery
<1> QED
  BY <1>7, <1>8, <1>9, <1>10 DEF BackendInv

\* A lease ends: its item is gone, goes back to the heap, or was acked.
LEMMA BackendRelease ==
  ASSUME TypeOK, BackendInv, NEW t \in Tokens,
         UNCHANGED <<items, issued>>,
         leases' = leases \ {t},
         \/ UNCHANGED <<ready, acked>>
         \/ /\ t \in leases
            /\ issued[t].attempt < MaxAttempts
            /\ ready' = ready \cup {issued[t].item}
            /\ acked' = acked
         \/ /\ t \in leases
            /\ ready' = ready
            /\ acked' = acked \cup {issued[t].item}
  PROVE  BackendInv'
<1>1. Items' = Items /\ Tokens' = Tokens
  BY DEF Items, Tokens
<1>2. AttemptInv'
  BY <1>1 DEF AttemptInv, LeaseInv, BackendInv, TypeOK
<1>3. LeaseInv'
  BY <1>1 DEF LeaseInv, BackendInv
<1>4. LeasedItems' \subseteq LeasedItems
  BY DEF LeasedItems
<1>5. t \in leases => issued[t].item \in LeasedItems \ LeasedItems'
  BY DEF LeasedItems, BackendInv, ItemInOnePlace
<1>6. ItemInOnePlace'
  BY <1>4, <1>5 DEF ItemInOnePlace, BackendInv
<1>7. BoundedDelivery'
  BY <1>1 DEF BoundedDelivery, BackendInv
<1> QED
  BY <1>2, <1>3, <1>6, <1>7 DEF BackendInv

\* A step that leaves the backend alone preserves its invariant.
LEMMA BackendSame ==
  ASSUME BackendInv, UNCHANGED <<items, ready, issued, leases, acked>>
  PROVE  BackendInv'
BY DEF BackendInv, AttemptInv, LeaseInv, ItemInOnePlace, BoundedDelivery, Items,
       Tokens, LeasedItems

\* Backend.Nack of a lease that the routing policy requeues or drops.
LEMMA BackendNacked ==
  ASSUME TypeOK, BackendInv, NEW t \in Tokens, NEW requeue \in BOOLEAN,
         BackendNack(t, requeue), UNCHANGED <<items, issued, acked>>,
         requeue => issued[t].attempt < MaxAttempts
  PROVE  BackendInv'
<1>1. leases' = leases \ {t}
  BY DEF BackendNack
<1>2. CASE t \in leases /\ requeue
  <2>1. ready' = ready \cup {issued[t].item}
    BY <1>2 DEF BackendNack
  <2> QED
    BY <1>1, <1>2, <2>1, BackendRelease
<1>3. CASE ~(t \in leases /\ requeue)
  <2>1. ready' = ready
    BY <1>3 DEF BackendNack
  <2> QED
    BY <1>1, <2>1, BackendRelease
<1> QED
  BY <1>2, <1>3

----------------------------------------------------------------------------
(* RouteInv: what the reaper and the claims rely on survives every step. *)

\* Tasks and lease records never change once written.
Stable ==
  /\ \A i \in Items : i \in Items' /\ items'[i].task = items[i].task
  /\ \A t \in Tokens : t \in Tokens' /\ issued'[t] = issued[t]

\* The task a lease was issued for never changes.
LEMMA StableTask ==
  ASSUME TypeOK, Stable, NEW t \in Tokens
  PROVE  LeaseTask(t)' = LeaseTask(t)
BY DEF TypeOK, Stable, LeaseTask, TaskOf

\* A step that adds no item and no lease is stable.
LEMMA StableSame ==
  ASSUME UNCHANGED <<items, issued>>
  PROVE  Stable
BY DEF Stable, Items, Tokens

\* Backend.Enqueue leaves the existing items and leases as they are.
LEMMA StablePush ==
  ASSUME TypeOK, NEW task \in Tasks, BackendEnqueue(task), UNCHANGED issued
  PROVE  Stable
<1>1. \A i \in Items : i \in Items' /\ items'[i].task = items[i].task
  BY EnqueueFacts DEF TypeOK
<1> QED
  BY <1>1 DEF Stable, Tokens

\* Backend.Claim changes no task and no earlier lease.
LEMMA StableClaim ==
  ASSUME TypeOK, NEW i \in ready, BackendClaim(i)
  PROVE  Stable
<1>1. items \in Seq(Item) /\ issued \in Seq(LeaseInfo) /\ ready \subseteq Items
  BY DEF TypeOK
<1>2. /\ Items' = Items
      /\ \A j \in Items \ {i} : items'[j] = items[j]
      /\ items'[i].task = items[i].task
      /\ Tokens' = Tokens \cup {Len(issued) + 1}
      /\ \A t \in Tokens : issued'[t] = issued[t]
  BY <1>1, ClaimFacts
<1> QED
  BY <1>2 DEF Stable

\* A step that adds no copy, no dropping claim and no dead letter.
LEMMA RouteKept ==
  ASSUME TypeOK, RouteInv, Stable, lapsed' \in Nat, lapsed <= lapsed',
         dead' \subseteq dead, dropping' \subseteq dropping,
         settled \subseteq settled', reaper'.todo \subseteq reaper.todo
  PROVE  RouteInv'
<1>1. \A l \in reaper.todo : l.token \in Tokens
  BY DEF TypeOK
<1>2. \A t \in Tokens : t \in Nat /\ t \in Tokens' /\ issued'[t] = issued[t]
  BY SeqFacts DEF Stable
<1>3. SweepInv'
  BY <1>1, <1>2 DEF SweepInv, RouteInv, TypeOK
<1>4. DropInv'
  BY <1>2 DEF DropInv, RouteInv, TypeOK
<1>5. DeadOnlyExhausted'
  <2> SUFFICES ASSUME NEW t \in dead'
               PROVE  \E u \in Tokens' : /\ LeaseTask(u)' = t
                                         /\ issued'[u].attempt = MaxAttempts
    BY DEF DeadOnlyExhausted
  <2>1. PICK u \in Tokens : LeaseTask(u) = t /\ issued[u].attempt = MaxAttempts
    BY DEF RouteInv, DeadOnlyExhausted
  <2>2. LeaseTask(u)' = t
    BY <2>1, StableTask
  <2> QED
    BY <1>2, <2>1, <2>2
<1> QED
  BY <1>3, <1>4, <1>5 DEF RouteInv

\* Only a lease at the ceiling is dead-lettered.
LEMMA DeadLettered ==
  ASSUME TypeOK, LeaseInv, DeadOnlyExhausted, UNCHANGED <<items, issued>>,
         NEW t \in Tokens, issued[t].attempt >= MaxAttempts,
         dead' = dead \cup {LeaseTask(t)}
  PROVE  issued[t].attempt = MaxAttempts /\ DeadOnlyExhausted'
<1>1. issued[t].attempt = MaxAttempts
  BY QueueAssumption DEF LeaseInv
<1>2. Tokens' = Tokens /\ \A u \in Tokens : LeaseTask(u)' = LeaseTask(u)
  BY DEF Tokens, LeaseTask, TaskOf
<1> QED
  BY <1>1, <1>2 DEF DeadOnlyExhausted

----------------------------------------------------------------------------
(* IInv is inductive. *)

\* A step that leaves the backend and the clock alone and starts no route.
LEMMA Quiet ==
  ASSUME IInv, lapsed \in Nat,
         UNCHANGED <<items, ready, issued, leases, lapsed, acked>>,
         dead' \subseteq dead, dropping' \subseteq dropping,
         settled \subseteq settled', reaper'.todo \subseteq reaper.todo
  PROVE  BackendInv' /\ RouteInv'
<1>1. Stable
  BY StableSame
<1> QED
  BY <1>1, BackendSame, RouteKept DEF IInv

\* A new queue is empty.
LEMMA InvInit == Init => IInv
<1> SUFFICES ASSUME Init PROVE IInv
  OBVIOUS
<1>1. Items = {} /\ Tokens = {} /\ LeasedItems = {}
  BY DEF Init, Items, Tokens, LeasedItems
<1>2. /\ ready = {} /\ leases = {} /\ dead = {} /\ dropping = {} /\ settled = {}
      /\ acked = {} /\ reaper.todo = {}
  BY DEF Init
<1>3. BackendInv
  BY <1>1, <1>2
     DEF BackendInv, AttemptInv, LeaseInv, ItemInOnePlace, BoundedDelivery
<1>4. RouteInv
  BY <1>1, <1>2 DEF RouteInv, SweepInv, DropInv, DeadOnlyExhausted
<1> QED
  BY <1>3, <1>4, TypeInit DEF IInv

\* IInv is inductive: one step per action, the two halves of IInv for each.
LEMMA InvStep == IInv /\ [Next]_vars => IInv'
<1> SUFFICES ASSUME IInv, [Next]_vars PROVE BackendInv' /\ RouteInv'
  BY TypeStep DEF IInv
<1> USE DEF IInv, backendVars, claimVars, lifeVars, deadVars
<1>a. lapsed \in Nat /\ Len(issued) \in Nat
  BY SeqFacts DEF TypeOK
<1>1. ASSUME NEW t \in Tasks,
             EnqueueStart(t) \/ EnqueueFail(t)
      PROVE  BackendInv' /\ RouteInv'
  <2>1. /\ UNCHANGED <<items, ready, issued, leases, lapsed, acked>>
        /\ dead' \subseteq dead /\ dropping' \subseteq dropping
        /\ settled \subseteq settled' /\ reaper'.todo \subseteq reaper.todo
    BY <1>1 DEF EnqueueStart, EnqueueFail
  <2> QED
    BY <1>a, <2>1, Quiet
<1>2. ASSUME NEW t \in Tasks, EnqueuePush(t)
      PROVE  BackendInv' /\ RouteInv'
  <2>1. /\ BackendEnqueue(t)
        /\ UNCHANGED <<issued, leases, lapsed, dead, settled, dropping, reaper,
                        acked>>
    BY <1>2 DEF EnqueuePush
  <2>2. Stable
    BY <2>1, StablePush
  <2> QED
    BY <1>a, <2>1, <2>2, BackendPush, RouteKept
<1>3. ASSUME NEW c \in Consumers,
             \/ DequeueStart(c) \/ DequeueEmpty(c)
             \/ DequeuePoll(c) \/ DequeueFail(c)
      PROVE  BackendInv' /\ RouteInv'
  <2>1. /\ UNCHANGED <<items, ready, issued, leases, lapsed, acked>>
        /\ dead' \subseteq dead /\ dropping' \subseteq dropping
        /\ settled \subseteq settled' /\ reaper'.todo \subseteq reaper.todo
    BY <1>3 DEF DequeueStart, DequeueEmpty, DequeuePoll, DequeueFail
  <2> QED
    BY <1>a, <2>1, Quiet
<1>4. ASSUME NEW c \in Consumers, DequeueClaim(c)
      PROVE  BackendInv' /\ RouteInv'
  <2>1. UNCHANGED <<lapsed, dead, settled, dropping, reaper, acked>>
    BY <1>4 DEF DequeueClaim
  <2>2. PICK i \in ready : BackendClaim(i)
    BY <1>4 DEF DequeueClaim
  <2>3. Stable
    BY <2>2, StableClaim
  <2> QED
    BY <1>a, <2>1, <2>2, <2>3, BackendClaimed, RouteKept
<1>5. ASSUME NEW t \in Tokens, Ack(t)
      PROVE  BackendInv' /\ RouteInv'
  <2>1. /\ settled \subseteq settled'
        /\ leases' = leases \ {t}
        /\ UNCHANGED <<items, ready, issued, lapsed, dead, dropping, reaper>>
    BY <1>5 DEF Ack, Settle, BackendAck
  <2>2. \/ acked' = acked
        \/ t \in leases /\ acked' = acked \cup {issued[t].item}
    BY <1>5 DEF Ack, BackendAck
  <2>3. BackendInv'
    BY <2>1, <2>2, BackendRelease
  <2>4. Stable
    BY <2>1, StableSame
  <2> QED
    BY <1>a, <2>1, <2>3, <2>4, RouteKept
<1>6. ASSUME NEW t \in Tokens, NackRequeue(t)
      PROVE  BackendInv' /\ RouteInv'
  <2>1. /\ BackendNack(t, TRUE)
        /\ settled \subseteq settled' /\ dropping' \subseteq dropping
        /\ reaper'.todo \subseteq reaper.todo
        /\ UNCHANGED <<items, issued, lapsed, dead, acked>>
    BY <1>6 DEF NackRequeue, Settle, TypeOK
  <2>2. issued[t].attempt < MaxAttempts
    BY <1>6 DEF NackRequeue
  <2>4. BackendInv'
    BY <2>1, <2>2, BackendNacked
  <2>5. Stable
    BY <2>1, StableSame
  <2> QED
    BY <1>a, <2>1, <2>4, <2>5, RouteKept
<1>7. ASSUME NEW t \in Tokens, NackDeadLetter(t)
      PROVE  BackendInv' /\ RouteInv'
  <2>1. /\ UNCHANGED <<items, ready, issued, leases, lapsed, reaper, acked>>
        /\ issued[t].attempt >= MaxAttempts
        /\ settled' = settled \cup {t}
        /\ dropping' = dropping \cup {t}
        /\ dead' = dead \cup {LeaseTask(t)}
    BY <1>7 DEF NackDeadLetter, Settle, DeadLetterAdd
  <2>2. issued[t].attempt = MaxAttempts /\ DeadOnlyExhausted'
    BY <2>1, DeadLettered DEF BackendInv, RouteInv
  <2>3. SweepInv' /\ DropInv'
    BY <2>1, <2>2 DEF RouteInv, SweepInv, DropInv
  <2> QED
    BY <2>1, <2>2, <2>3, BackendSame DEF RouteInv
<1>8. ASSUME NEW t \in Tokens, NackDrop(t)
      PROVE  BackendInv' /\ RouteInv'
  <2>1. /\ BackendNack(t, FALSE)
        /\ settled \subseteq settled' /\ dropping' \subseteq dropping
        /\ reaper'.todo \subseteq reaper.todo
        /\ UNCHANGED <<items, issued, lapsed, dead, acked>>
    BY <1>8 DEF NackDrop, TypeOK
  <2>4. BackendInv'
    BY <2>1, BackendNacked
  <2>5. Stable
    BY <2>1, StableSame
  <2> QED
    BY <1>a, <2>1, <2>4, <2>5, RouteKept
<1>9. ASSUME NEW t \in Tokens, SettleFail(t)
      PROVE  BackendInv' /\ RouteInv'
  <2>1. /\ UNCHANGED <<items, ready, issued, leases, lapsed, acked>>
        /\ dead' \subseteq dead /\ dropping' \subseteq dropping
        /\ settled \subseteq settled' /\ reaper'.todo \subseteq reaper.todo
    BY <1>9 DEF SettleFail, Settle
  <2> QED
    BY <1>a, <2>1, Quiet
<1>10. CASE SweepStart
  <2>1. /\ UNCHANGED <<items, ready, issued, leases, lapsed, dead, settled,
                        dropping, acked>>
        /\ reaper'.todo = ReapExpired
    BY <1>10 DEF SweepStart, TypeOK
  <2>2. \A x \in ReapExpired : /\ x.attempt = issued[x.token].attempt
                               /\ x.token <= lapsed
    BY DEF ReapExpired, BackendInv, LeaseInv
  <2>3. SweepInv'
    BY <2>1, <2>2 DEF SweepInv
  <2>4. DropInv'
    BY <2>1 DEF RouteInv, DropInv
  <2>5. DeadOnlyExhausted'
    BY <2>1 DEF RouteInv, DeadOnlyExhausted, Tokens, LeaseTask, TaskOf
  <2> QED
    BY <2>1, <2>3, <2>4, <2>5, BackendSame DEF RouteInv
<1>11. ASSUME NEW l \in reaper.todo, SweepRequeue(l)
      PROVE  BackendInv' /\ RouteInv'
  <2>1. /\ BackendNack(l.token, TRUE)
        /\ settled \subseteq settled' /\ dropping' \subseteq dropping
        /\ reaper'.todo \subseteq reaper.todo
        /\ UNCHANGED <<items, issued, lapsed, dead, acked>>
    BY <1>11 DEF SweepRequeue, SweepNext, TypeOK
  <2>2. l.token \in Tokens
    BY DEF TypeOK
  <2>3. issued[l.token].attempt < MaxAttempts
    BY <1>11 DEF SweepRequeue, RouteInv, SweepInv
  <2>4. BackendInv'
    BY <2>1, <2>2, <2>3, BackendNacked
  <2>5. Stable
    BY <2>1, StableSame
  <2> QED
    BY <1>a, <2>1, <2>4, <2>5, RouteKept
<1>12. ASSUME NEW l \in reaper.todo, SweepDeadLetter(l)
      PROVE  BackendInv' /\ RouteInv'
  <2>1. /\ UNCHANGED <<items, ready, issued, leases, lapsed, settled, dropping,
                        acked>>
        /\ l.attempt >= MaxAttempts
        /\ dead' = dead \cup {LeaseTask(l.token)}
        /\ reaper'.todo = reaper.todo
    BY <1>12 DEF SweepDeadLetter, DeadLetterAdd, TypeOK
  <2>2. l.token \in Tokens /\ issued[l.token].attempt >= MaxAttempts
    BY <2>1 DEF TypeOK, RouteInv, SweepInv
  <2>3. DeadOnlyExhausted'
    BY <2>1, <2>2, DeadLettered DEF BackendInv, RouteInv
  <2>4. SweepInv' /\ DropInv'
    BY <2>1 DEF RouteInv, SweepInv, DropInv
  <2> QED
    BY <2>1, <2>3, <2>4, BackendSame DEF RouteInv
<1>13. ASSUME NEW l \in reaper.todo, SweepDrop(l)
      PROVE  BackendInv' /\ RouteInv'
  <2>1. /\ BackendNack(l.token, FALSE)
        /\ settled \subseteq settled' /\ dropping' \subseteq dropping
        /\ reaper'.todo \subseteq reaper.todo
        /\ UNCHANGED <<items, issued, lapsed, dead, acked>>
    BY <1>13 DEF SweepDrop, SweepNext, TypeOK
  <2>2. l.token \in Tokens
    BY DEF TypeOK
  <2>4. BackendInv'
    BY <2>1, <2>2, BackendNacked
  <2>5. Stable
    BY <2>1, StableSame
  <2> QED
    BY <1>a, <2>1, <2>4, <2>5, RouteKept
<1>14. ASSUME NEW l \in reaper.todo, SweepFail(l)
      PROVE  BackendInv' /\ RouteInv'
  <2>1. /\ UNCHANGED <<items, ready, issued, leases, lapsed, acked>>
        /\ dead' \subseteq dead /\ dropping' \subseteq dropping
        /\ settled \subseteq settled' /\ reaper'.todo \subseteq reaper.todo
    BY <1>14 DEF SweepFail, SweepNext, TypeOK
  <2> QED
    BY <1>a, <2>1, Quiet
<1>15. CASE ReaperExit
  <2>1. /\ UNCHANGED <<items, ready, issued, leases, lapsed, acked>>
        /\ dead' \subseteq dead /\ dropping' \subseteq dropping
        /\ settled \subseteq settled' /\ reaper'.todo \subseteq reaper.todo
    BY <1>15 DEF ReaperExit, TypeOK
  <2> QED
    BY <1>a, <2>1, Quiet
<1>16. ASSUME NEW r \in Redrivers, NEW t \in Tasks, RedriveFind(r, t)
      PROVE  BackendInv' /\ RouteInv'
  <2>1. /\ UNCHANGED <<items, ready, issued, leases, lapsed, acked>>
        /\ dead' \subseteq dead /\ dropping' \subseteq dropping
        /\ settled \subseteq settled' /\ reaper'.todo \subseteq reaper.todo
    BY <1>16 DEF RedriveFind
  <2> QED
    BY <1>a, <2>1, Quiet
<1>17. ASSUME NEW r \in Redrivers, RedriveEnqueue(r)
      PROVE  BackendInv' /\ RouteInv'
  <2>1. /\ BackendEnqueue(redrive[r].task)
        /\ UNCHANGED <<issued, leases, lapsed, dead, settled, dropping, reaper,
                        acked>>
    BY <1>17 DEF RedriveEnqueue
  <2>2. redrive[r].task \in Tasks
    BY <1>17 DEF RedriveEnqueue, NotRedriving, TypeOK
  <2>3. Stable
    BY <2>1, <2>2, StablePush
  <2> QED
    BY <1>a, <2>1, <2>2, <2>3, BackendPush, RouteKept
<1>18. ASSUME NEW r \in Redrivers, RedriveRemove(r)
      PROVE  BackendInv' /\ RouteInv'
  <2>1. /\ UNCHANGED <<items, ready, issued, leases, lapsed, acked>>
        /\ dead' \subseteq dead /\ dropping' \subseteq dropping
        /\ settled \subseteq settled' /\ reaper'.todo \subseteq reaper.todo
    BY <1>18 DEF RedriveRemove
  <2> QED
    BY <1>a, <2>1, Quiet
<1>19. ASSUME NEW r \in Redrivers, RedriveFail(r)
      PROVE  BackendInv' /\ RouteInv'
  <2>1. /\ UNCHANGED <<items, ready, issued, leases, lapsed, acked>>
        /\ dead' \subseteq dead /\ dropping' \subseteq dropping
        /\ settled \subseteq settled' /\ reaper'.todo \subseteq reaper.todo
    BY <1>19 DEF RedriveFail
  <2> QED
    BY <1>a, <2>1, Quiet
<1>20. CASE DeadlinePasses
  <2>1. /\ UNCHANGED <<items, ready, issued, leases, dead, settled, dropping,
                        reaper, acked>>
        /\ lapsed' = lapsed + 1
    BY <1>20 DEF DeadlinePasses
  <2>2. Stable
    BY <2>1, StableSame
  <2>3. lapsed' \in Nat /\ lapsed <= lapsed'
    BY <1>a, <2>1
  <2> QED
    BY <2>1, <2>2, <2>3, BackendSame, RouteKept
<1>21. CASE \/ Close \/ CloseCancel \/ CancelParent \/ UNCHANGED vars
  <2>1. /\ UNCHANGED <<items, ready, issued, leases, lapsed, acked>>
        /\ dead' \subseteq dead /\ dropping' \subseteq dropping
        /\ settled \subseteq settled' /\ reaper'.todo \subseteq reaper.todo
    BY <1>21 DEF Close, CloseCancel, CancelParent, vars
  <2> QED
    BY <1>a, <2>1, Quiet
<1> QED
  BY <1>1, <1>2, <1>3, <1>4, <1>5, <1>6, <1>7, <1>8, <1>9, <1>10, <1>11,
     <1>12, <1>13, <1>14, <1>15, <1>16, <1>17, <1>18, <1>19, <1>20, <1>21
     DEF Next, Producer, Dequeuer, Settler, Reaper, Redriver

\* IInv holds in every reachable state.
LEMMA InvHolds == Spec => []IInv
<1>1. Init => IInv
  BY InvInit
<1>2. IInv /\ [Next]_vars => IInv'
  BY InvStep
<1> QED
  BY <1>1, <1>2, PTL DEF Spec

\* An item is in the heap, under one lease, or acked, and never in two of
\* these: no interleaving of Ack, Nack and the reaper duplicates a delivery.
THEOREM ItemInOnePlaceHolds == Spec => []ItemInOnePlace
<1>1. IInv => ItemInOnePlace
  BY DEF IInv, BackendInv
<1> QED
  BY <1>1, InvHolds, PTL

\* No item is delivered more than WithMaxAttempts times.
THEOREM BoundedDeliveryHolds == Spec => []BoundedDelivery
<1>1. IInv => BoundedDelivery
  BY DEF IInv, BackendInv
<1> QED
  BY <1>1, InvHolds, PTL

\* A dead-lettered task used up its deliveries.
THEOREM DeadOnlyExhaustedHolds == Spec => []DeadOnlyExhausted
<1>1. IInv => DeadOnlyExhausted
  BY DEF IInv, RouteInv
<1> QED
  BY <1>1, InvHolds, PTL

----------------------------------------------------------------------------
(* A lease ends by its own Claim or after its deadline. *)

\* What every step does to the leases that end in it.
LEMMA DueStep ==
  ASSUME IInv, [Next]_vars
  PROVE  \A t \in leases \ leases' : t \in settled' \/ t <= lapsed
<1> USE DEF IInv, backendVars, claimVars, lifeVars, deadVars
<1> SUFFICES ASSUME NEW x \in leases \ leases'
             PROVE  x \in settled' \/ x <= lapsed
  OBVIOUS
<1>1. CASE Producer
  BY <1>1 DEF Producer, EnqueueStart, EnqueuePush, EnqueueFail
<1>2. CASE Dequeuer
  BY <1>2 DEF Dequeuer, DequeueStart, DequeueClaim, DequeueEmpty, DequeuePoll,
              DequeueFail, BackendClaim
<1>3. CASE Settler
  <2>1. PICK t \in Tokens : \/ Ack(t) \/ NackRequeue(t) \/ NackDeadLetter(t)
                            \/ NackDrop(t) \/ SettleFail(t)
    BY <1>3 DEF Settler
  <2>2. CASE Ack(t) \/ NackRequeue(t)
    BY <2>2 DEF Ack, NackRequeue, Settle, BackendAck, BackendNack
  <2>3. CASE NackDrop(t)
    BY <2>3 DEF NackDrop, BackendNack, RouteInv, DropInv
  <2>4. CASE NackDeadLetter(t) \/ SettleFail(t)
    BY <2>4 DEF NackDeadLetter, SettleFail
  <2> QED
    BY <2>1, <2>2, <2>3, <2>4
<1>4. CASE Reaper
  <2>1. CASE SweepStart \/ ReaperExit
    BY <2>1 DEF SweepStart, ReaperExit
  <2>2. ASSUME NEW l \in reaper.todo,
               \/ SweepRequeue(l) \/ SweepDeadLetter(l)
               \/ SweepDrop(l) \/ SweepFail(l)
        PROVE  x <= lapsed
    <3>1. l.token <= lapsed
      BY DEF RouteInv, SweepInv
    <3>2. x = l.token
      BY <2>2 DEF SweepRequeue, SweepDeadLetter, SweepDrop, SweepFail, BackendNack
    <3> QED
      BY <3>1, <3>2
  <2> QED
    BY <1>4, <2>1, <2>2 DEF Reaper
<1>5. CASE Redriver
  BY <1>5 DEF Redriver, RedriveFind, RedriveEnqueue, RedriveRemove, RedriveFail
<1>6. CASE DeadlinePasses \/ Close \/ CloseCancel \/ CancelParent \/ UNCHANGED vars
  BY <1>6 DEF DeadlinePasses, Close, CloseCancel, CancelParent, vars
<1> QED
  BY <1>1, <1>2, <1>3, <1>4, <1>5, <1>6 DEF Next

\* The reaper, working on stale copies, and a late Nack or Ack never end a
\* lease that is neither theirs nor due.
THEOREM LeaseEndsOnlyWhenDueHolds == Spec => LeaseEndsOnlyWhenDue
<1>1. IInv /\ [Next]_vars
        => [\A t \in leases \ leases' : t \in settled' \/ t <= lapsed]_vars
  BY DueStep
<1> QED
  BY <1>1, InvHolds, PTL DEF Spec, LeaseEndsOnlyWhenDue

----------------------------------------------------------------------------
(* No accepted task is lost: KeptInv and RedriveInv on top of IInv. *)

\* A step that makes no item unsound and removes no dead letter.
LEMMA LossKept ==
  ASSUME TypeOK, Stable, KeptInv, RedriveInv,
         \A k \in Items : Sound(k) => Sound(k)',
         \A k \in Items' : k \in Items \/ Sound(k)',
         dead \subseteq dead', clobbered \subseteq clobbered',
         \A r \in Redrivers :
           redrive'[r].pc = "remove" /\ r \notin readded'
             => redrive'[r] = redrive[r] /\ r \notin readded
  PROVE  KeptInv' /\ RedriveInv'
<1>1. \A k \in Items : k \in Items' /\ TaskOf(k)' = TaskOf(k)
  BY DEF Stable, TaskOf
<1>2. KeptInv'
  <2> SUFFICES ASSUME NEW i \in Items'
               PROVE  \/ TaskOf(i)' \in dead' \cup clobbered'
                      \/ \E k \in Items' : TaskOf(k)' = TaskOf(i)' /\ Sound(k)'
    BY DEF KeptInv
  <2>1. CASE i \in Items
    BY <1>1, <2>1 DEF KeptInv
  <2>2. CASE i \notin Items
    BY <2>2
  <2> QED
    BY <2>1, <2>2
<1>3. RedriveInv'
  <2> SUFFICES ASSUME NEW r \in Redrivers, NEW k \in Items',
                      redrive'[r].pc = "remove", redrive'[r].item = k,
                      r \notin readded'
               PROVE  TaskOf(k)' = redrive'[r].task /\ Sound(k)'
    BY DEF RedriveInv
  <2>1. redrive'[r] = redrive[r] /\ r \notin readded
    OBVIOUS
  <2>2. k \in Items
    BY <2>1 DEF TypeOK, NotRedriving
  <2> QED
    BY <1>1, <2>1, <2>2 DEF RedriveInv
<1> QED
  BY <1>2, <1>3

\* A step that leaves the stores alone and dooms no lease.
LEMMA LossQuiet ==
  ASSUME TypeOK, KeptInv, RedriveInv,
         UNCHANGED <<items, ready, issued, leases, acked, dead, clobbered>>,
         \A u : Doomed(u)' => Doomed(u),
         \A r \in Redrivers :
           redrive'[r].pc = "remove" /\ r \notin readded'
             => redrive'[r] = redrive[r] /\ r \notin readded
  PROVE  KeptInv' /\ RedriveInv'
<1>1. Items' = Items /\ \A k \in Items : Sound(k) => Sound(k)'
  BY DEF Items, Sound
<1>2. Stable
  BY StableSame
<1> QED
  BY <1>1, <1>2, LossKept

\* A route that dead-letters the lease t dooms at most the item of t.
LEMMA LossDead ==
  ASSUME TypeOK, KeptInv, RedriveInv, NEW t \in Tokens,
         DeadLetterAdd(LeaseTask(t)),
         UNCHANGED <<items, ready, issued, leases, redrive, acked>>,
         \A u \in leases : u # t /\ ~Doomed(u) => ~Doomed(u)'
  PROVE  KeptInv' /\ RedriveInv'
<1> DEFINE x == LeaseTask(t)
<1>1. /\ Items' = Items
      /\ \A k \in Items : TaskOf(k)' = TaskOf(k)
  BY DEF Items, TaskOf
<1>2. /\ dead' = dead \cup {x}
      /\ clobbered' = clobbered
      /\ readded' = readded \cup
           {r \in Redrivers : redrive[r].pc = "remove" /\ redrive[r].task = x}
  BY DEF DeadLetterAdd
<1>3. \A k \in Items : Sound(k) /\ TaskOf(k) # x => Sound(k)'
  BY DEF Sound, LeaseTask
<1> HIDE DEF x
<1>4. KeptInv'
  <2> SUFFICES ASSUME NEW i \in Items
               PROVE  \/ TaskOf(i) \in dead' \cup clobbered'
                      \/ \E k \in Items : TaskOf(k) = TaskOf(i) /\ Sound(k)'
    BY <1>1 DEF KeptInv
  <2>1. CASE TaskOf(i) = x
    BY <1>2, <2>1
  <2>2. CASE TaskOf(i) # x
    BY <1>2, <1>3, <2>2 DEF KeptInv
  <2> QED
    BY <2>1, <2>2
<1>5. RedriveInv'
  <2> SUFFICES ASSUME NEW r \in Redrivers, NEW k \in Items,
                      redrive[r].pc = "remove", redrive[r].item = k,
                      r \notin readded'
               PROVE  TaskOf(k) = redrive[r].task /\ Sound(k)'
    BY <1>1 DEF RedriveInv
  <2>1. r \notin readded /\ redrive[r].task # x
    BY <1>2
  <2> QED
    BY <1>3, <2>1 DEF RedriveInv
<1> QED
  BY <1>4, <1>5

\* A new queue holds no task.
LEMMA LossInit == Init => LossInv
<1> SUFFICES ASSUME Init PROVE LossInv
  OBVIOUS
<1>1. Items = {}
  BY DEF Init, Items
<1>2. \A r \in Redrivers : redrive[r].pc = "idle"
  BY DEF Init, NotRedriving
<1> QED
  BY <1>1, <1>2, InvInit DEF LossInv, KeptInv, RedriveInv

\* LossInv is inductive.
LEMMA LossStep == LossInv /\ [Next]_vars => LossInv'
<1> SUFFICES ASSUME LossInv, [Next]_vars PROVE KeptInv' /\ RedriveInv'
  BY InvStep DEF LossInv
<1> USE DEF LossInv, IInv, backendVars, claimVars, lifeVars, deadVars
<1>a. TypeOK
  OBVIOUS
<1>1. ASSUME NEW t \in Tasks,
             EnqueueStart(t) \/ EnqueueFail(t)
      PROVE  KeptInv' /\ RedriveInv'
  <2>1. /\ UNCHANGED <<items, ready, issued, leases, acked, dead, clobbered,
                        redrive, readded>>
        /\ \A u : Doomed(u)' => Doomed(u)
    BY <1>1 DEF EnqueueStart, EnqueueFail, Doomed
  <2> QED
    BY <2>1, LossQuiet
<1>2. ASSUME NEW t \in Tasks, EnqueuePush(t)
      PROVE  KeptInv' /\ RedriveInv'
  <2>1. /\ BackendEnqueue(t)
        /\ UNCHANGED <<issued, leases, dead, clobbered, dropping, reaper, redrive,
                        readded, acked>>
    BY <1>2 DEF EnqueuePush
  <2>2. Stable
    BY <2>1, StablePush
  <2>3. /\ Items' = Items \cup {Len(items) + 1}
        /\ ready' = ready \cup {Len(items) + 1}
    BY <2>1, EnqueueFacts DEF TypeOK
  <2>4. /\ \A k \in Items : Sound(k) => Sound(k)'
        /\ \A k \in Items' : k \in Items \/ Sound(k)'
    BY <2>1, <2>3 DEF Sound, Doomed
  <2> QED
    BY <2>1, <2>2, <2>4, LossKept
<1>3. ASSUME NEW c \in Consumers,
             \/ DequeueStart(c) \/ DequeueEmpty(c)
             \/ DequeuePoll(c) \/ DequeueFail(c)
      PROVE  KeptInv' /\ RedriveInv'
  <2>1. /\ UNCHANGED <<items, ready, issued, leases, acked, dead, clobbered,
                        redrive, readded>>
        /\ \A u : Doomed(u)' => Doomed(u)
    BY <1>3 DEF DequeueStart, DequeueEmpty, DequeuePoll, DequeueFail, Doomed
  <2> QED
    BY <2>1, LossQuiet
<1>4. ASSUME NEW c \in Consumers, DequeueClaim(c)
      PROVE  KeptInv' /\ RedriveInv'
  <2> PICK n : n = Len(issued) + 1
    OBVIOUS
  <2>1. UNCHANGED <<dead, clobbered, dropping, reaper, redrive, readded, acked>>
    BY <1>4 DEF DequeueClaim
  <2>2. PICK i \in ready : BackendClaim(i)
    BY <1>4 DEF DequeueClaim
  <2>3. Stable
    BY <2>2, StableClaim
  <2>4. items \in Seq(Item) /\ issued \in Seq(LeaseInfo) /\ ready \subseteq Items
    BY DEF TypeOK
  <2>5. /\ Items' = Items
        /\ n \notin Tokens
        /\ issued'[n].item = i
        /\ ready' = ready \ {i}
        /\ leases' = leases \cup {n}
    BY <2>2, <2>4, ClaimFacts
  <2>6. ~Doomed(n)'
    BY <2>1, <2>5, SeqFacts DEF Doomed, TypeOK
  <2>7. \A k \in Items : Sound(k) => Sound(k)'
    BY <2>1, <2>3, <2>5, <2>6 DEF Sound, Doomed, Stable, TypeOK
  <2> QED
    BY <2>1, <2>3, <2>5, <2>7, LossKept
<1>5. ASSUME NEW t \in Tokens, Ack(t)
      PROVE  KeptInv' /\ RedriveInv'
  <2>1. /\ leases' = leases \ {t}
        /\ t \in leases => acked' = acked \cup {issued[t].item}
        /\ t \notin leases => acked' = acked
        /\ UNCHANGED <<items, ready, issued, dead, clobbered, dropping, reaper,
                        redrive, readded>>
    BY <1>5 DEF Ack, BackendAck
  <2>2. Items' = Items /\ \A k \in Items : Sound(k) => Sound(k)'
    BY <2>1 DEF Items, Sound, Doomed
  <2>3. Stable
    BY <2>1, StableSame
  <2> QED
    BY <2>1, <2>2, <2>3, LossKept
<1>6. ASSUME NEW t \in Tokens, NackRequeue(t)
      PROVE  KeptInv' /\ RedriveInv'
  <2>1. /\ leases' = leases \ {t}
        /\ t \in leases => ready' = ready \cup {issued[t].item}
        /\ t \notin leases => ready' = ready
        /\ UNCHANGED <<items, issued, dead, clobbered, dropping, redrive,
                        readded, acked>>
        /\ \A u : Doomed(u)' => Doomed(u)
    BY <1>6 DEF NackRequeue, BackendNack, Doomed, TypeOK
  <2>2. Items' = Items /\ \A k \in Items : Sound(k) => Sound(k)'
    BY <2>1 DEF Items, Sound
  <2>3. Stable
    BY <2>1, StableSame
  <2> QED
    BY <2>1, <2>2, <2>3, LossKept
<1>7. ASSUME NEW t \in Tokens, NackDeadLetter(t)
      PROVE  KeptInv' /\ RedriveInv'
  <2>1. /\ DeadLetterAdd(LeaseTask(t))
        /\ UNCHANGED <<items, ready, issued, leases, redrive, acked>>
        /\ \A u \in leases : u # t /\ ~Doomed(u) => ~Doomed(u)'
    BY <1>7 DEF NackDeadLetter, Doomed
  <2> QED
    BY <2>1, LossDead
<1>8. ASSUME NEW t \in Tokens, NackDrop(t)
      PROVE  KeptInv' /\ RedriveInv'
  <2>1. /\ leases' = leases \ {t}
        /\ Doomed(t)
        /\ UNCHANGED <<items, ready, issued, dead, clobbered, redrive, readded,
                        acked>>
        /\ \A u : Doomed(u)' => Doomed(u)
    BY <1>8 DEF NackDrop, BackendNack, Doomed, TypeOK
  <2>2. Items' = Items /\ \A k \in Items : Sound(k) => Sound(k)'
    BY <2>1 DEF Items, Sound
  <2>3. Stable
    BY <2>1, StableSame
  <2> QED
    BY <2>1, <2>2, <2>3, LossKept
<1>9. ASSUME NEW t \in Tokens, SettleFail(t)
      PROVE  KeptInv' /\ RedriveInv'
  <2>1. /\ UNCHANGED <<items, ready, issued, leases, acked, dead, clobbered,
                        redrive, readded>>
        /\ \A u : Doomed(u)' => Doomed(u)
    BY <1>9 DEF SettleFail, Settle, Doomed
  <2> QED
    BY <2>1, LossQuiet
<1>10. CASE SweepStart
  <2>1. /\ UNCHANGED <<items, ready, issued, leases, acked, dead, clobbered,
                        redrive, readded>>
        /\ \A u : Doomed(u)' => Doomed(u)
    BY <1>10 DEF SweepStart, TypeOK, Doomed
  <2> QED
    BY <2>1, LossQuiet
<1>11. ASSUME NEW l \in reaper.todo, SweepRequeue(l)
      PROVE  KeptInv' /\ RedriveInv'
  <2>1. /\ leases' = leases \ {l.token}
        /\ l.token \in leases => ready' = ready \cup {issued[l.token].item}
        /\ l.token \notin leases => ready' = ready
        /\ UNCHANGED <<items, issued, dead, clobbered, dropping, redrive,
                        readded, acked>>
        /\ \A u : Doomed(u)' => Doomed(u)
    BY <1>11 DEF SweepRequeue, SweepNext, BackendNack, Doomed, TypeOK
  <2>2. Items' = Items /\ \A k \in Items : Sound(k) => Sound(k)'
    BY <2>1 DEF Items, Sound
  <2>3. Stable
    BY <2>1, StableSame
  <2> QED
    BY <2>1, <2>2, <2>3, LossKept
<1>12. ASSUME NEW l \in reaper.todo, SweepDeadLetter(l)
      PROVE  KeptInv' /\ RedriveInv'
  <2>1. /\ DeadLetterAdd(LeaseTask(l.token))
        /\ UNCHANGED <<items, ready, issued, leases, redrive, acked>>
        /\ \A u \in leases : u # l.token /\ ~Doomed(u) => ~Doomed(u)'
    BY <1>12 DEF SweepDeadLetter, Doomed, TypeOK
  <2>2. l.token \in Tokens
    BY DEF TypeOK
  <2> QED
    BY <2>1, <2>2, LossDead
<1>13. ASSUME NEW l \in reaper.todo, SweepDrop(l)
      PROVE  KeptInv' /\ RedriveInv'
  <2>1. /\ leases' = leases \ {l.token}
        /\ Doomed(l.token)
        /\ UNCHANGED <<items, ready, issued, dead, clobbered, redrive, readded,
                        acked>>
        /\ \A u : Doomed(u)' => Doomed(u)
    BY <1>13 DEF SweepDrop, SweepNext, BackendNack, Doomed, TypeOK
  <2>2. Items' = Items /\ \A k \in Items : Sound(k) => Sound(k)'
    BY <2>1 DEF Items, Sound
  <2>3. Stable
    BY <2>1, StableSame
  <2> QED
    BY <2>1, <2>2, <2>3, LossKept
<1>14. ASSUME NEW l \in reaper.todo, SweepFail(l)
      PROVE  KeptInv' /\ RedriveInv'
  <2>1. /\ UNCHANGED <<items, ready, issued, leases, acked, dead, clobbered,
                        redrive, readded>>
        /\ \A u : Doomed(u)' => Doomed(u)
    BY <1>14 DEF SweepFail, SweepNext, TypeOK, Doomed
  <2> QED
    BY <2>1, LossQuiet
<1>15. CASE ReaperExit
  <2>1. /\ UNCHANGED <<items, ready, issued, leases, acked, dead, clobbered,
                        redrive, readded>>
        /\ \A u : Doomed(u)' => Doomed(u)
    BY <1>15 DEF ReaperExit, TypeOK, Doomed
  <2> QED
    BY <2>1, LossQuiet
<1>16. ASSUME NEW r \in Redrivers, NEW t \in Tasks, RedriveFind(r, t)
      PROVE  KeptInv' /\ RedriveInv'
  <2>1. /\ UNCHANGED <<items, ready, issued, leases, acked, dead, clobbered>>
        /\ \A u : Doomed(u)' => Doomed(u)
    BY <1>16 DEF RedriveFind, Doomed
  <2>2. \A q \in Redrivers : redrive'[q].pc = "remove" /\ q \notin readded'
                             => redrive'[q] = redrive[q] /\ q \notin readded
    BY <1>16 DEF RedriveFind, TypeOK
  <2> QED
    BY <2>1, <2>2, LossQuiet
<1>17. ASSUME NEW r \in Redrivers, RedriveEnqueue(r)
      PROVE  KeptInv' /\ RedriveInv'
  <2> PICK n : n = Len(items) + 1
    OBVIOUS
  <2>1. /\ BackendEnqueue(redrive[r].task)
        /\ UNCHANGED <<issued, leases, dead, clobbered, dropping, reaper, acked>>
    BY <1>17 DEF RedriveEnqueue
  <2>2. redrive[r].task \in Tasks
    BY <1>17 DEF RedriveEnqueue, NotRedriving, TypeOK
  <2>3. Stable
    BY <2>1, <2>2, StablePush
  <2>4. /\ Items' = Items \cup {n}
        /\ ready' = ready \cup {n}
        /\ items'[n].task = redrive[r].task
    BY <2>1, <2>2, EnqueueFacts DEF TypeOK
  <2>5. \A k \in Items : /\ k \in Items'
                         /\ TaskOf(k)' = TaskOf(k)
                         /\ Sound(k) => Sound(k)'
    BY <2>1, <2>3, <2>4 DEF Stable, TaskOf, Sound, Doomed
  <2>6. Sound(n)'
    BY <2>4 DEF Sound
  <2>7. KeptInv'
    BY <2>1, <2>4, <2>5, <2>6 DEF KeptInv
  <2>8. RedriveInv'
    <3> SUFFICES ASSUME NEW q \in Redrivers, NEW k \in Items',
                        redrive'[q].pc = "remove", redrive'[q].item = k,
                        q \notin readded'
                 PROVE  TaskOf(k)' = redrive'[q].task /\ Sound(k)'
      BY DEF RedriveInv
    <3>1. CASE q = r
      <4>1. k = n /\ redrive'[r].task = redrive[r].task
        BY <1>17, <3>1 DEF RedriveEnqueue, TypeOK
      <4> QED
        BY <2>4, <2>6, <3>1, <4>1 DEF TaskOf
    <3>2. CASE q # r
      <4>1. redrive'[q] = redrive[q] /\ q \notin readded
        BY <1>17, <3>2 DEF RedriveEnqueue, TypeOK
      <4>2. k \in Items
        BY <4>1 DEF TypeOK, NotRedriving
      <4> QED
        BY <2>5, <4>1, <4>2 DEF RedriveInv
    <3> QED
      BY <3>1, <3>2
  <2> QED
    BY <2>7, <2>8
<1>18. ASSUME NEW r \in Redrivers, RedriveRemove(r)
      PROVE  KeptInv' /\ RedriveInv'
  <2> DEFINE x == redrive[r].task
  <2>1. /\ UNCHANGED <<items, ready, issued, leases, dropping, reaper, acked>>
        /\ redrive[r].pc = "remove"
        /\ dead' = dead \ {x}
        /\ clobbered \subseteq clobbered'
        /\ r \in readded /\ x \in dead => x \in clobbered'
    BY <1>18 DEF RedriveRemove
  <2>2. /\ Items' = Items
        /\ \A k \in Items : TaskOf(k)' = TaskOf(k) /\ (Sound(k) => Sound(k)')
    BY <2>1 DEF Items, TaskOf, Sound, Doomed
  <2>3. \A q \in Redrivers : redrive'[q].pc = "remove" /\ q \notin readded'
                             => redrive'[q] = redrive[q] /\ q \notin readded
    BY <1>18 DEF RedriveRemove, NotRedriving, TypeOK
  <2>4. RedriveInv'
    <3> SUFFICES ASSUME NEW q \in Redrivers, NEW k \in Items',
                        redrive'[q].pc = "remove", redrive'[q].item = k,
                        q \notin readded'
                 PROVE  TaskOf(k)' = redrive'[q].task /\ Sound(k)'
      BY DEF RedriveInv
    <3> QED
      BY <2>2, <2>3 DEF RedriveInv
  <2>5. \/ x \notin dead \/ x \in clobbered'
        \/ \E k \in Items : TaskOf(k) = x /\ Sound(k)
    <3>1. redrive[r].item \in Items
      BY <2>1 DEF TypeOK, NotRedriving
    <3> QED
      BY <2>1, <3>1 DEF RedriveInv
  <2>6. KeptInv'
    <3> HIDE DEF x
    <3> SUFFICES ASSUME NEW i \in Items
                 PROVE  \/ TaskOf(i) \in dead' \cup clobbered'
                        \/ \E k \in Items : TaskOf(k) = TaskOf(i) /\ Sound(k)'
      BY <2>2 DEF KeptInv
    <3>1. CASE TaskOf(i) = x
      BY <2>1, <2>2, <2>5, <3>1 DEF KeptInv
    <3>2. CASE TaskOf(i) # x
      BY <2>1, <2>2, <3>2 DEF KeptInv
    <3> QED
      BY <3>1, <3>2
  <2> QED
    BY <2>4, <2>6
<1>19. ASSUME NEW r \in Redrivers, RedriveFail(r)
      PROVE  KeptInv' /\ RedriveInv'
  <2>1. /\ UNCHANGED <<items, ready, issued, leases, acked, dead, clobbered>>
        /\ \A u : Doomed(u)' => Doomed(u)
    BY <1>19 DEF RedriveFail, Doomed
  <2>2. \A q \in Redrivers : redrive'[q].pc = "remove" /\ q \notin readded'
                             => redrive'[q] = redrive[q] /\ q \notin readded
    BY <1>19 DEF RedriveFail, NotRedriving, TypeOK
  <2> QED
    BY <2>1, <2>2, LossQuiet
<1>20. CASE DeadlinePasses
  <2>1. /\ UNCHANGED <<items, ready, issued, leases, acked, dead, clobbered,
                        redrive, readded>>
        /\ \A u : Doomed(u)' => Doomed(u)
    BY <1>20 DEF DeadlinePasses, Doomed
  <2> QED
    BY <2>1, LossQuiet
<1>21. CASE \/ Close \/ CloseCancel \/ CancelParent \/ UNCHANGED vars
  <2>1. /\ UNCHANGED <<items, ready, issued, leases, acked, dead, clobbered,
                        redrive, readded>>
        /\ \A u : Doomed(u)' => Doomed(u)
    BY <1>21 DEF Close, CloseCancel, CancelParent, vars, Doomed
  <2> QED
    BY <2>1, LossQuiet
<1> QED
  BY <1>1, <1>2, <1>3, <1>4, <1>5, <1>6, <1>7, <1>8, <1>9, <1>10, <1>11,
     <1>12, <1>13, <1>14, <1>15, <1>16, <1>17, <1>18, <1>19, <1>20, <1>21
     DEF Next, Producer, Dequeuer, Settler, Reaper, Redriver

\* No accepted task disappears, whatever fails in the middle of route or
\* Redrive, except through a Redrive that removes a newer dead letter.
THEOREM NoSilentLossHolds == Spec => []NoSilentLoss
<1>1. Init => LossInv
  BY LossInit
<1>2. LossInv /\ [Next]_vars => LossInv'
  BY LossStep
<1>3. LossInv => NoSilentLoss
  <2> SUFFICES ASSUME LossInv, NEW i \in Items
               PROVE  Held(TaskOf(i)) \/ TaskOf(i) \in dead \cup clobbered
    BY DEF NoSilentLoss, Accepted
  <2>1. \A k \in Items : Sound(k) => k \in ready \cup LeasedItems \cup acked
    BY DEF Sound, LeasedItems
  <2> QED
    BY <2>1 DEF LossInv, KeptInv, Held
<1> QED
  BY <1>1, <1>2, <1>3, PTL DEF Spec

----------------------------------------------------------------------------
(* The refinement of Delivery.  The steps of the queue move an item in four  *)
(* ways only, one lemma each: Backend.Enqueue accepts it, Backend.Claim      *)
(* delivers it, the end of its lease gives it back, acknowledges it or gives *)
(* it up, and every other step leaves all items where they are.              *)

\* The allocated items are within the bound; and the lease that the reaper is
\* about to drop has used up its deliveries.
RefineInv ==
  /\ Len(items) <= MaxItems
  /\ reaper.pc = "dropping" => /\ reaper.token \in Tokens
                               /\ issued[reaper.token].attempt >= MaxAttempts

----------------------------------------------------------------------------
(* Where an item is. *)

\* The place of an item follows from which of the four sets it is in.
LEMMA PlaceSame ==
  ASSUME NEW i,
         i \in Items' <=> i \in Items, i \in ready' <=> i \in ready,
         i \in LeasedItems' <=> i \in LeasedItems, i \in acked' <=> i \in acked
  PROVE  ItemPlace(i)' = ItemPlace(i)
BY DEF ItemPlace

\* The steps of Delivery in terms of the place of each item ...
LEMMA MoveFacts ==
  ASSUME NEW i \in 1 .. MaxItems, NEW from, NEW to,
         ItemPlace(i) = from, ItemPlace(i)' = to,
         \A j \in 1 .. MaxItems : j # i => ItemPlace(j)' = ItemPlace(j)
  PROVE  Abstract!Move(i, from, to)
BY DEF Abstract!Move

\* ... and of its attempt count.
LEMMA CountSame ==
  ASSUME \A j \in 1 .. MaxItems :
           (IF j \in Items THEN items[j].attempt ELSE 0)'
             = (IF j \in Items THEN items[j].attempt ELSE 0)
  PROVE  UNCHANGED [i \in 1 .. MaxItems |->
                      IF i \in Items THEN items[i].attempt ELSE 0]
OBVIOUS

\* A step that leaves the backend alone is no step of Delivery.
LEMMA AbstractSame ==
  ASSUME UNCHANGED <<items, ready, issued, leases, acked>>
  PROVE  UNCHANGED Abstract!vars
BY DEF Abstract!vars, ItemPlace, Items, LeasedItems

\* Backend.Enqueue, of a producer or of Redrive, accepts one item.
LEMMA AbstractPush ==
  ASSUME TypeOK, ItemInOnePlace, RefineInv, NEW task \in Tasks,
         BackendEnqueue(task), UNCHANGED <<issued, leases, acked>>
  PROVE  Abstract!Next
<1>1. PICK n \in 1 .. MaxItems : n = Len(items) + 1
  BY SeqFacts, QueueAssumption DEF BackendEnqueue
<1>2. /\ n \notin Items
      /\ Items' = Items \cup {n}
      /\ \A i \in Items : items'[i] = items[i]
      /\ items'[n].attempt = 0
      /\ ready' = ready \cup {n}
  BY <1>1, EnqueueFacts DEF TypeOK
<1>3. LeasedItems' = LeasedItems /\ LeasedItems \subseteq Items
      /\ ready \subseteq Items /\ acked \subseteq Items
  BY DEF LeasedItems, TypeOK
<1>4. ItemPlace(n) = "absent" /\ ItemPlace(n)' = "waiting"
  BY <1>2, <1>3 DEF ItemPlace
<1>5. \A i \in 1 .. MaxItems : i # n => ItemPlace(i)' = ItemPlace(i)
  BY <1>2, <1>3, PlaceSame
<1>6. \A i \in 1 .. MaxItems : (IF i \in Items THEN items[i].attempt ELSE 0)'
                               = (IF i \in Items THEN items[i].attempt ELSE 0)
  BY <1>2
<1>7. Abstract!Accept(n)
  BY <1>4, <1>5, <1>6, MoveFacts, CountSame DEF Abstract!Accept
<1> QED
  BY <1>7 DEF Abstract!Next

\* Backend.Claim delivers one item, which had a delivery left.
LEMMA AbstractClaim ==
  ASSUME IInv, RefineInv, NEW i \in ready, BackendClaim(i), UNCHANGED acked
  PROVE  Abstract!Next
<1> USE DEF IInv, BackendInv
<1>1. items \in Seq(Item) /\ issued \in Seq(LeaseInfo) /\ ready \subseteq Items
  BY DEF TypeOK
<1>2. /\ Items' = Items
      /\ \A j \in Items \ {i} : items'[j] = items[j]
      /\ items'[i].attempt = items[i].attempt + 1
      /\ Len(issued) + 1 \notin Tokens
      /\ \A t \in Tokens : issued'[t] = issued[t]
      /\ issued'[Len(issued) + 1].item = i
      /\ ready' = ready \ {i}
      /\ leases' = leases \cup {Len(issued) + 1}
  BY <1>1, ClaimFacts
<1>3. LeasedItems' = LeasedItems \cup {i}
  <2>1. leases \subseteq Tokens
    BY DEF TypeOK
  <2> QED
    BY <1>2, <2>1 DEF LeasedItems
<1>4. i \in 1 .. MaxItems /\ i \in Items
  BY <1>1, SeqFacts, QueueAssumption DEF RefineInv
<1>5. ItemPlace(i) = "waiting" /\ ItemPlace(i)' = "leased"
  <2>1. i \notin LeasedItems /\ i \notin acked
    BY DEF ItemInOnePlace
  <2> QED
    BY <1>2, <1>3, <1>4, <2>1 DEF ItemPlace
<1>6. \A j \in 1 .. MaxItems : j # i => ItemPlace(j)' = ItemPlace(j)
  BY <1>2, <1>3, PlaceSame
<1>7. items[i].attempt < MaxAttempts
  BY DEF AttemptInv
<1>8. \A j \in 1 .. MaxItems : j # i =>
        (IF j \in Items THEN items[j].attempt ELSE 0)'
        = (IF j \in Items THEN items[j].attempt ELSE 0)
  BY <1>2
<1>9. Abstract!Move(i, "waiting", "leased")
  BY <1>4, <1>5, <1>6, MoveFacts
<1>10. Abstract!Deliver(i)
  BY <1>2, <1>4, <1>7, <1>8, <1>9 DEF Abstract!Deliver
<1> QED
  BY <1>4, <1>10 DEF Abstract!Next

\* The end of a lease: its item waits again below the ceiling, is acknowledged,
\* or is given up at the ceiling; nothing happens to the item of a lease that
\* had ended before.
LEMMA AbstractRelease ==
  ASSUME IInv, RefineInv, NEW t \in Tokens,
         UNCHANGED <<items, issued>>,
         leases' = leases \ {t},
         \/ /\ UNCHANGED <<ready, acked>>
            /\ t \in leases => issued[t].attempt = MaxAttempts
         \/ /\ t \in leases
            /\ issued[t].attempt < MaxAttempts
            /\ ready' = ready \cup {issued[t].item}
            /\ acked' = acked
         \/ /\ t \in leases
            /\ ready' = ready
            /\ acked' = acked \cup {issued[t].item}
  PROVE  [Abstract!Next]_Abstract!vars
<1> USE DEF IInv, BackendInv
<1>1. CASE t \notin leases
  BY <1>1, AbstractSame
<1>2. CASE t \in leases
  <2>1. PICK i \in 1 .. MaxItems : i = issued[t].item /\ i \in Items
    BY SeqFacts, QueueAssumption DEF RefineInv
  <2>2. Items' = Items
    BY DEF Items
  <2>3. i \in LeasedItems /\ LeasedItems' = LeasedItems \ {i}
    BY <1>2, <2>1 DEF LeasedItems, ItemInOnePlace
  <2>4. i \notin ready /\ i \notin acked
    BY <2>3 DEF ItemInOnePlace
  <2>5. issued[t].attempt = items[i].attempt
    BY <1>2, <2>1 DEF LeaseInv
  <2>6. ItemPlace(i) = "leased"
    BY <2>1, <2>3, <2>4 DEF ItemPlace
  <2>7. \A j \in 1 .. MaxItems : (IF j \in Items THEN items[j].attempt ELSE 0)'
                                 = (IF j \in Items THEN items[j].attempt ELSE 0)
    BY <2>2
  <2>8. CASE UNCHANGED <<ready, acked>> /\ issued[t].attempt = MaxAttempts
    <3>1. ItemPlace(i)' = "dropped"
      BY <2>1, <2>2, <2>3, <2>4, <2>8 DEF ItemPlace
    <3>2. \A j \in 1 .. MaxItems : j # i => ItemPlace(j)' = ItemPlace(j)
      BY <2>2, <2>3, <2>8, PlaceSame
    <3>3. Abstract!GiveUp(i)
      BY <2>1, <2>5, <2>6, <2>7, <2>8, <3>1, <3>2,
         MoveFacts, CountSame DEF Abstract!GiveUp
    <3> QED
      BY <2>1, <3>3 DEF Abstract!Next
  <2>9. CASE /\ issued[t].attempt < MaxAttempts
             /\ ready' = ready \cup {i}
             /\ acked' = acked
    <3>1. ItemPlace(i)' = "waiting"
      BY <2>1, <2>2, <2>3, <2>4, <2>9 DEF ItemPlace
    <3>2. \A j \in 1 .. MaxItems : j # i => ItemPlace(j)' = ItemPlace(j)
      BY <2>2, <2>3, <2>9, PlaceSame
    <3>3. Abstract!GiveBack(i)
      BY <2>1, <2>5, <2>6, <2>7, <2>9, <3>1, <3>2,
         MoveFacts, CountSame DEF Abstract!GiveBack
    <3> QED
      BY <2>1, <3>3 DEF Abstract!Next
  <2>10. CASE ready' = ready /\ acked' = acked \cup {i}
    <3>1. ItemPlace(i)' = "acked"
      BY <2>1, <2>2, <2>3, <2>4, <2>10 DEF ItemPlace
    <3>2. \A j \in 1 .. MaxItems : j # i => ItemPlace(j)' = ItemPlace(j)
      BY <2>2, <2>3, <2>10, PlaceSame
    <3>3. Abstract!Acknowledge(i)
      BY <2>1, <2>6, <2>7, <3>1, <3>2, MoveFacts, CountSame
         DEF Abstract!Acknowledge
    <3> QED
      BY <2>1, <3>3 DEF Abstract!Next
  <2> QED
    BY <1>2, <2>1, <2>8, <2>9, <2>10
<1> QED
  BY <1>1, <1>2

\* Backend.Nack gives an item back below the ceiling or gives it up at it.
LEMMA AbstractNack ==
  ASSUME IInv, RefineInv, NEW t \in Tokens, NEW requeue \in BOOLEAN,
         BackendNack(t, requeue), UNCHANGED <<items, issued, acked>>,
         requeue => issued[t].attempt < MaxAttempts,
         ~requeue => issued[t].attempt = MaxAttempts
  PROVE  [Abstract!Next]_Abstract!vars
<1>1. leases' = leases \ {t}
  BY DEF BackendNack
<1>2. CASE t \in leases /\ requeue
  <2>1. ready' = ready \cup {issued[t].item}
    BY <1>2 DEF BackendNack
  <2> QED
    BY <1>1, <1>2, <2>1, AbstractRelease
<1>3. CASE ~(t \in leases /\ requeue)
  <2>1. ready' = ready
    BY <1>3 DEF BackendNack
  <2> QED
    BY <1>1, <1>3, <2>1, AbstractRelease
<1> QED
  BY <1>2, <1>3

----------------------------------------------------------------------------
(* The invariant the mapping needs beyond IInv. *)

\* Only Backend.Enqueue adds an item, below the bound, and only a lease at the
\* ceiling, whose record never changes, brings the reaper to its drop.
LEMMA RefineStep == IInv /\ RefineInv /\ [Next]_vars => RefineInv'
<1> SUFFICES ASSUME IInv, RefineInv, [Next]_vars PROVE RefineInv'
  OBVIOUS
<1> USE DEF IInv, backendVars, claimVars, lifeVars, deadVars
<1>1. CASE Producer
  <2>1. PICK t \in Tasks : EnqueueStart(t) \/ EnqueuePush(t) \/ EnqueueFail(t)
    BY <1>1 DEF Producer
  <2>2. UNCHANGED <<issued, reaper>>
    BY <2>1 DEF EnqueueStart, EnqueuePush, EnqueueFail
  <2>3. Len(items') <= MaxItems
    BY <2>1, SeqFacts, AppendProperties, QueueAssumption
       DEF EnqueueStart, EnqueuePush, EnqueueFail, BackendEnqueue, RefineInv
  <2> QED
    BY <2>2, <2>3 DEF RefineInv, Tokens
<1>2. CASE Dequeuer
  <2>1. PICK c \in Consumers : \/ DequeueStart(c) \/ DequeueClaim(c)
                               \/ DequeueEmpty(c) \/ DequeuePoll(c)
                               \/ DequeueFail(c)
    BY <1>2 DEF Dequeuer
  <2>2. CASE DequeueClaim(c)
    <3>1. PICK i \in ready : BackendClaim(i)
      BY <2>2 DEF DequeueClaim
    <3>2. Stable /\ reaper' = reaper
      BY <2>2, <3>1, StableClaim DEF DequeueClaim
    <3>3. items \in Seq(Item) /\ issued \in Seq(LeaseInfo) /\ ready \subseteq Items
      BY DEF TypeOK
    <3>4. items' \in Seq(Item) /\ Items' = Items
      BY <3>1, <3>3, ClaimFacts
    <3>5. Len(items') = Len(items)
      BY <3>3, <3>4, LenProperties DEF Items
    <3> QED
      BY <3>2, <3>5 DEF RefineInv, Stable
  <2>3. CASE ~DequeueClaim(c)
    BY <2>1, <2>3 DEF DequeueStart, DequeueEmpty, DequeuePoll, DequeueFail,
                      RefineInv, Tokens
  <2> QED
    BY <2>2, <2>3
<1>3. CASE Settler
  BY <1>3 DEF Settler, Ack, NackRequeue, NackDeadLetter, NackDrop, SettleFail,
              RefineInv, Tokens
<1>4. CASE Reaper
  <2>1. UNCHANGED <<items, issued>>
    BY <1>4 DEF Reaper, SweepStart, SweepRequeue, SweepDeadLetter, SweepDrop,
                SweepFail, ReaperExit
  <2>2. CASE SweepStart \/ ReaperExit
    BY <2>1, <2>2 DEF SweepStart, ReaperExit, RefineInv, Tokens, TypeOK
  <2>3. ASSUME NEW l \in reaper.todo,
               SweepRequeue(l) \/ SweepDrop(l) \/ SweepFail(l)
        PROVE  RefineInv'
    BY <2>1, <2>3 DEF SweepRequeue, SweepDrop, SweepFail, SweepNext, RefineInv,
                      TypeOK
  <2>4. ASSUME NEW l \in reaper.todo, SweepDeadLetter(l)
        PROVE  RefineInv'
    <3>1. l.token \in Tokens /\ issued[l.token].attempt >= MaxAttempts
      BY <2>4 DEF SweepDeadLetter, RouteInv, SweepInv, TypeOK
    <3>2. reaper'.token = l.token
      BY <2>4 DEF SweepDeadLetter, TypeOK
    <3> QED
      BY <2>1, <3>1, <3>2 DEF RefineInv, Tokens
  <2> QED
    BY <1>4, <2>2, <2>3, <2>4 DEF Reaper
<1>5. CASE Redriver
  <2>1. PICK r \in Redrivers : \/ \E t \in Tasks : RedriveFind(r, t)
                               \/ RedriveEnqueue(r) \/ RedriveRemove(r)
                               \/ RedriveFail(r)
    BY <1>5 DEF Redriver
  <2>2. UNCHANGED <<issued, reaper>>
    BY <2>1 DEF RedriveFind, RedriveEnqueue, RedriveRemove, RedriveFail
  <2>3. Len(items') <= MaxItems
    BY <2>1, SeqFacts, AppendProperties, QueueAssumption
       DEF RedriveFind, RedriveEnqueue, RedriveRemove, RedriveFail,
           BackendEnqueue, RefineInv
  <2> QED
    BY <2>2, <2>3 DEF RefineInv, Tokens
<1>6. CASE DeadlinePasses \/ Close \/ CloseCancel \/ CancelParent \/ UNCHANGED vars
  BY <1>6 DEF DeadlinePasses, Close, CloseCancel, CancelParent, vars, RefineInv,
              Tokens
<1> QED
  BY <1>1, <1>2, <1>3, <1>4, <1>5, <1>6 DEF Next

----------------------------------------------------------------------------
(* The refinement. *)

\* A new queue has accepted nothing.
LEMMA AbstractInit == Init => Abstract!Init /\ RefineInv
<1> SUFFICES ASSUME Init PROVE Abstract!Init /\ RefineInv
  OBVIOUS
<1>1. Items = {} /\ Len(items) = 0 /\ reaper.pc = "waiting"
  BY DEF Init, Items
<1>2. RefineInv
  BY <1>1, QueueAssumption DEF RefineInv
<1>3. ready = {} /\ LeasedItems = {} /\ acked = {}
  BY DEF Init, LeasedItems
<1>4. \A i \in 1 .. MaxItems : ItemPlace(i) = "absent"
  BY <1>1, <1>3 DEF ItemPlace
<1> QED
  BY <1>1, <1>2, <1>4 DEF Abstract!Init

\* Every step of the queue is one step of one item of Delivery, or none.
LEMMA AbstractStep ==
  IInv /\ RefineInv /\ [Next]_vars => [Abstract!Next]_Abstract!vars
<1> SUFFICES ASSUME IInv, RefineInv, [Next]_vars
             PROVE  [Abstract!Next]_Abstract!vars
  OBVIOUS
<1> USE DEF IInv, BackendInv, RouteInv, backendVars, claimVars, lifeVars,
            deadVars
<1>1. CASE Producer
  <2>1. PICK t \in Tasks : EnqueueStart(t) \/ EnqueuePush(t) \/ EnqueueFail(t)
    BY <1>1 DEF Producer
  <2>2. CASE EnqueuePush(t)
    BY <2>2, AbstractPush DEF EnqueuePush
  <2>3. CASE EnqueueStart(t) \/ EnqueueFail(t)
    BY <2>3, AbstractSame DEF EnqueueStart, EnqueueFail
  <2> QED
    BY <2>1, <2>2, <2>3
<1>2. CASE Dequeuer
  <2>1. PICK c \in Consumers : \/ DequeueStart(c) \/ DequeueClaim(c)
                               \/ DequeueEmpty(c) \/ DequeuePoll(c)
                               \/ DequeueFail(c)
    BY <1>2 DEF Dequeuer
  <2>2. CASE DequeueClaim(c)
    BY <2>2, AbstractClaim DEF DequeueClaim
  <2>3. CASE DequeueStart(c) \/ DequeueEmpty(c) \/ DequeuePoll(c) \/ DequeueFail(c)
    BY <2>3, AbstractSame DEF DequeueStart, DequeueEmpty, DequeuePoll, DequeueFail
  <2> QED
    BY <2>1, <2>2, <2>3
<1>3. CASE Settler
  <2>1. PICK t \in Tokens : \/ Ack(t) \/ NackRequeue(t) \/ NackDeadLetter(t)
                            \/ NackDrop(t) \/ SettleFail(t)
    BY <1>3 DEF Settler
  <2>2. CASE Ack(t)
    <3>1. leases' = leases \ {t} /\ UNCHANGED <<items, ready, issued>>
      BY <2>2 DEF Ack, BackendAck
    <3>2. CASE t \in leases
      <4>1. acked' = acked \cup {issued[t].item}
        BY <2>2, <3>2 DEF Ack, BackendAck
      <4> QED
        BY <3>1, <3>2, <4>1, AbstractRelease
    <3>3. CASE t \notin leases
      <4>1. acked' = acked
        BY <2>2, <3>3 DEF Ack, BackendAck
      <4> QED
        BY <3>1, <3>3, <4>1, AbstractRelease
    <3> QED
      BY <3>2, <3>3
  <2>3. CASE NackRequeue(t)
    BY <2>3, AbstractNack DEF NackRequeue
  <2>4. CASE NackDrop(t)
    BY <2>4, AbstractNack DEF NackDrop, DropInv
  <2>5. CASE NackDeadLetter(t) \/ SettleFail(t)
    BY <2>5, AbstractSame DEF NackDeadLetter, SettleFail
  <2> QED
    BY <2>1, <2>2, <2>3, <2>4, <2>5
<1>4. CASE Reaper
  <2>1. CASE SweepStart \/ ReaperExit
    BY <2>1, AbstractSame DEF SweepStart, ReaperExit
  <2>2. ASSUME NEW l \in reaper.todo, SweepRequeue(l)
        PROVE  [Abstract!Next]_Abstract!vars
    <3>1. l.token \in Tokens /\ issued[l.token].attempt < MaxAttempts
      BY <2>2 DEF SweepRequeue, SweepInv, TypeOK
    <3> QED
      BY <2>2, <3>1, AbstractNack DEF SweepRequeue
  <2>3. ASSUME NEW l \in reaper.todo, SweepDrop(l)
        PROVE  [Abstract!Next]_Abstract!vars
    <3>1. l.token \in Tokens /\ issued[l.token].attempt >= MaxAttempts
      BY <2>3 DEF SweepDrop, RefineInv, TypeOK
    <3>2. issued[l.token].attempt = MaxAttempts
      BY <3>1, QueueAssumption DEF LeaseInv
    <3> QED
      BY <2>3, <3>1, <3>2, AbstractNack DEF SweepDrop
  <2>4. ASSUME NEW l \in reaper.todo, SweepDeadLetter(l) \/ SweepFail(l)
        PROVE  [Abstract!Next]_Abstract!vars
    BY <2>4, AbstractSame DEF SweepDeadLetter, SweepFail
  <2> QED
    BY <1>4, <2>1, <2>2, <2>3, <2>4 DEF Reaper
<1>5. CASE Redriver
  <2>1. PICK r \in Redrivers : \/ \E t \in Tasks : RedriveFind(r, t)
                               \/ RedriveEnqueue(r) \/ RedriveRemove(r)
                               \/ RedriveFail(r)
    BY <1>5 DEF Redriver
  <2>2. CASE RedriveEnqueue(r)
    <3>1. redrive[r].task \in Tasks
      BY <2>2 DEF RedriveEnqueue, NotRedriving, TypeOK
    <3> QED
      BY <2>2, <3>1, AbstractPush DEF RedriveEnqueue
  <2>3. CASE (\E t \in Tasks : RedriveFind(r, t)) \/ RedriveRemove(r)
             \/ RedriveFail(r)
    BY <2>3, AbstractSame DEF RedriveFind, RedriveRemove, RedriveFail
  <2> QED
    BY <2>1, <2>2, <2>3
<1>6. CASE DeadlinePasses \/ Close \/ CloseCancel \/ CancelParent \/ UNCHANGED vars
  BY <1>6, AbstractSame DEF DeadlinePasses, Close, CloseCancel, CancelParent, vars
<1> QED
  BY <1>1, <1>2, <1>3, <1>4, <1>5, <1>6 DEF Next

\* The queue keeps the promise of Delivery: however consumers, the reaper and
\* Redrive interleave, and whatever fails, an item is accepted once, delivered
\* at most WithMaxAttempts times and settled for good at most once.
THEOREM ImplementsDeliveryHolds == Spec => ImplementsDelivery
<1>1. Init => Abstract!Init /\ RefineInv
  BY AbstractInit
<1>2. IInv /\ RefineInv /\ [Next]_vars => RefineInv'
  BY RefineStep
<1>3. IInv /\ RefineInv /\ [Next]_vars => [Abstract!Next]_Abstract!vars
  BY AbstractStep
<1> QED
  BY <1>1, <1>2, <1>3, InvHolds, PTL DEF Spec, ImplementsDelivery, Abstract!Spec
==============================================================================

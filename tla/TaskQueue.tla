------------------------------ MODULE TaskQueue ------------------------------
(***************************************************************************)
(* The lease-based queue of pkg/taskqueue: Queue (queue.go) over the       *)
(* in-memory Backend (memory_backend.go) and DeadLetter (deadletter.go).   *)
(*                                                                         *)
(* Producers enqueue tasks; consumers Dequeue them under a lease and settle*)
(* the Claim with Ack or Nack; a reaper goroutine sweeps the leases whose  *)
(* visibility deadline has passed; Redrive moves a task from the           *)
(* dead-letter store back to the queue.                                    *)
(*                                                                         *)
(* Each Backend and DeadLetter call runs under that store's mutex, so it is*)
(* one atomic step.  A Queue method that makes several such calls (route,  *)
(* Redrive, Enqueue and Dequeue behind their closed check) is several      *)
(* steps, and every other goroutine may run between them.                  *)
(*                                                                         *)
(* A call whose ctx is done, or whose store reports an error, stops where  *)
(* it is: those are the *Fail actions.                                     *)
(***************************************************************************)
EXTENDS Naturals, Sequences

CONSTANTS
  Tasks,        \* the tasks of the producers; a task is its unique ID()
  Priority,     \* Priority[t]: Task.Priority()
  SeqNo,        \* SeqNo[t]: Task.Seq()
  Mode,         \* "priority" (ModePriority) or "fifo" (ModeFIFO)
  MaxAttempts,  \* WithMaxAttempts, after New's defaulting
  Consumers,    \* goroutines that call Dequeue
  Redrivers,    \* goroutines that call Redrive
  NoTask,       \* the target of a redriver that is not redriving
  MaxItems      \* bound: queueItems ever allocated (redriving is unbounded)

ASSUME QueueAssumption ==
  /\ NoTask \notin Tasks
  /\ Priority \in [Tasks -> Nat]
  /\ SeqNo \in [Tasks -> Nat]
  /\ Mode \in {"priority", "fifo"}
  /\ MaxAttempts \in Nat \ {0}
  /\ MaxItems \in Nat

VARIABLES
  items,      \* every queueItem allocated; a position is a *queueItem
  ready,      \* MemoryBackend.ready: the items in the heap
  issued,     \* every lease handed out; a position is a lease token
  leases,     \* MemoryBackend.leases: the tokens in the lease table
  lapsed,     \* the deadlines of the first `lapsed` leases have passed
  dead,       \* MemoryDeadLetter.tasks
  settled,    \* tokens whose Claim.settled is true
  dropping,   \* tokens whose Nack has added to dead and not yet dropped
  closed,     \* Queue.closed
  ctxDone,    \* the reaper's context is canceled
  reaper,     \* the reaper goroutine: its pc, the leases left in the sweep
  enqueuing,  \* tasks whose Enqueue is past its closed check
  consumer,   \* the pc of each consumer's Dequeue
  redrive,    \* each redriver's pc, its target and the item it enqueued
  acked,      \* history: items removed by a successful Backend.Ack
  readded,    \* history: redrivers whose target died again since they enqueued it
  clobbered   \* history: tasks whose newer dead letter a Redrive removed

backendVars == <<items, ready, issued, leases>>
claimVars   == <<settled, dropping>>
lifeVars    == <<closed, ctxDone>>
deadVars    == <<dead, readded, clobbered>>
vars == <<items, ready, issued, leases, lapsed, dead, settled, dropping, closed,
          ctxDone, reaper, enqueuing, consumer, redrive, acked, readded,
          clobbered>>

Items  == DOMAIN items
Tokens == DOMAIN issued

Item      == [task : Tasks, attempt : Nat]
LeaseInfo == [item : Nat \ {0}, attempt : Nat]

NotRedriving == [pc |-> "idle", task |-> NoTask, item |-> 0]

TaskOf(i)    == items[i].task
LeaseTask(t) == TaskOf(issued[t].item)

\* The tasks the queue has taken over: some Backend.Enqueue of them succeeded.
Accepted == {TaskOf(i) : i \in Items}

LeasedItems == {issued[t].item : t \in leases}

----------------------------------------------------------------------------
(* MemoryBackend and MemoryDeadLetter: one operator per method. *)

\* taskHeap.Less on two items of the heap.
Less(i, j) ==
  LET a == TaskOf(i)
      b == TaskOf(j)
  IN  IF Mode = "priority" /\ Priority[a] # Priority[b]
      THEN Priority[a] > Priority[b]
      ELSE SeqNo[a] < SeqNo[b]

\* heap.Push of a fresh queueItem, its attempt count zero.
BackendEnqueue(task) ==
  /\ Len(items) < MaxItems
  /\ items' = Append(items, [task |-> task, attempt |-> 0])
  /\ ready' = ready \cup {Len(items) + 1}

\* The item heap.Pop may return: none in the heap is Less; ties are open.
IsFirst(i) == i \in ready /\ \A j \in ready : ~Less(j, i)

\* Mutant: the lease table is keyed by the token after the one issued.
BackendClaimOffByOne(i) ==
  /\ IsFirst(i)
  /\ ready' = ready \ {i}
  /\ items' = [items EXCEPT ![i].attempt = @ + 1]
  /\ issued' = Append(issued, [item |-> i, attempt |-> items[i].attempt + 1])
  /\ leases' = leases \cup {Len(issued) + 2}

\* Pop the item, count the delivery, and lease it under a fresh token.
BackendClaim(i) ==
  /\ IsFirst(i)
  /\ ready' = ready \ {i}
  /\ items' = [items EXCEPT ![i].attempt = @ + 1]
  /\ issued' = Append(issued, [item |-> i, attempt |-> items[i].attempt + 1])
  /\ leases' = leases \cup {Len(issued) + 1}

\* An unknown token is ErrLeaseNotFound and changes nothing.
BackendAck(t) ==
  /\ leases' = leases \ {t}
  /\ acked' = IF t \in leases THEN acked \cup {issued[t].item} ELSE acked

\* Mutant: requeues without looking the token up.
BackendNackUnchecked(t, requeue) ==
  /\ leases' = leases \ {t}
  /\ ready' = IF requeue THEN ready \cup {issued[t].item} ELSE ready

BackendNack(t, requeue) ==
  /\ leases' = leases \ {t}
  /\ ready' = IF t \in leases /\ requeue
              THEN ready \cup {issued[t].item} ELSE ready

\* Mutant: takes leases that are not due yet.
ReapExpiredEarly ==
  {[token |-> t, attempt |-> items[issued[t].item].attempt] : t \in leases}

\* The leases at or past their deadline.  ReapExpired copies them and leaves
\* the table alone; the copy takes the attempt count from the item.
ReapExpired ==
  {[token |-> t, attempt |-> items[issued[t].item].attempt] :
     t \in {u \in leases : u <= lapsed}}

\* The store is keyed by task ID: adding twice overwrites.
DeadLetterAdd(task) ==
  /\ dead' = dead \cup {task}
  /\ readded' = readded \cup
       {r \in Redrivers : redrive[r].pc = "remove" /\ redrive[r].task = task}
  /\ UNCHANGED clobbered

----------------------------------------------------------------------------
Init ==
  /\ items = <<>>
  /\ ready = {}
  /\ issued = <<>>
  /\ leases = {}
  /\ lapsed = 0
  /\ dead = {}
  /\ settled = {}
  /\ dropping = {}
  /\ closed = FALSE
  /\ ctxDone = FALSE
  /\ reaper = [pc |-> "waiting", todo |-> {}, token |-> 0]
  /\ enqueuing = {}
  /\ consumer = [c \in Consumers |-> "idle"]
  /\ redrive = [r \in Redrivers |-> NotRedriving]
  /\ acked = {}
  /\ readded = {}
  /\ clobbered = {}

----------------------------------------------------------------------------
(* Producers: Queue.Enqueue. *)

\* Past the ctx and closed checks.  IDs are unique: a task is enqueued once.
EnqueueStart(t) ==
  /\ ~closed
  /\ t \notin enqueuing \cup Accepted
  /\ enqueuing' = enqueuing \cup {t}
  /\ UNCHANGED <<backendVars, lapsed, deadVars, claimVars, lifeVars, reaper,
                 consumer, redrive, acked>>

EnqueuePush(t) ==
  /\ t \in enqueuing
  /\ enqueuing' = enqueuing \ {t}
  /\ BackendEnqueue(t)
  /\ UNCHANGED <<issued, leases, lapsed, deadVars, claimVars, lifeVars, reaper,
                 consumer, redrive, acked>>

EnqueueFail(t) ==
  /\ t \in enqueuing
  /\ enqueuing' = enqueuing \ {t}
  /\ UNCHANGED <<backendVars, lapsed, deadVars, claimVars, lifeVars, reaper,
                 consumer, redrive, acked>>

----------------------------------------------------------------------------
(* Consumers: Queue.Dequeue polls the backend; closed is read only once. *)

ConsumerGoes(c, from, to) ==
  /\ consumer[c] = from
  /\ consumer' = [consumer EXCEPT ![c] = to]

DequeueStart(c) ==
  /\ ~closed
  /\ ConsumerGoes(c, "idle", "claiming")
  /\ UNCHANGED <<backendVars, lapsed, deadVars, claimVars, lifeVars, reaper,
                 enqueuing, redrive, acked>>

\* The Claim is handed to the caller, who may settle it or never come back.
DequeueClaim(c) ==
  /\ ConsumerGoes(c, "claiming", "idle")
  /\ \E i \in ready : BackendClaim(i)
  /\ UNCHANGED <<lapsed, deadVars, claimVars, lifeVars, reaper, enqueuing,
                 redrive, acked>>

DequeueEmpty(c) ==
  /\ ready = {}
  /\ ConsumerGoes(c, "claiming", "waiting")
  /\ UNCHANGED <<backendVars, lapsed, deadVars, claimVars, lifeVars, reaper,
                 enqueuing, redrive, acked>>

DequeuePoll(c) ==
  /\ ConsumerGoes(c, "waiting", "claiming")
  /\ UNCHANGED <<backendVars, lapsed, deadVars, claimVars, lifeVars, reaper,
                 enqueuing, redrive, acked>>

\* The timeout elapsed since the last empty poll, or ctx is done.
DequeueFail(c) ==
  /\ \/ ConsumerGoes(c, "waiting", "idle")
     \/ ConsumerGoes(c, "claiming", "idle")
  /\ UNCHANGED <<backendVars, lapsed, deadVars, claimVars, lifeVars, reaper,
                 enqueuing, redrive, acked>>

----------------------------------------------------------------------------
(* Claims: Claim.Ack and Claim.Nack, entered once per token (settled).     *)

Settle(t) ==
  /\ t \notin settled
  /\ settled' = settled \cup {t}

Ack(t) ==
  /\ Settle(t)
  /\ BackendAck(t)
  /\ UNCHANGED <<items, ready, issued, lapsed, deadVars, dropping, lifeVars,
                 reaper, enqueuing, consumer, redrive>>

\* Mutant: off by one at the ceiling.
NackRequeueAtCeiling(t) ==
  /\ Settle(t)
  /\ issued[t].attempt <= MaxAttempts
  /\ BackendNack(t, TRUE)
  /\ UNCHANGED <<items, issued, lapsed, deadVars, dropping, lifeVars, reaper,
                 enqueuing, consumer, redrive, acked>>

\* Nack below the attempt ceiling: route requeues.
NackRequeue(t) ==
  /\ Settle(t)
  /\ issued[t].attempt < MaxAttempts
  /\ BackendNack(t, TRUE)
  /\ UNCHANGED <<items, issued, lapsed, deadVars, dropping, lifeVars, reaper,
                 enqueuing, consumer, redrive, acked>>

\* Mutant: dead-letters one delivery too soon.
NackDeadLetterEarly(t) ==
  /\ Settle(t)
  /\ issued[t].attempt >= MaxAttempts - 1
  /\ DeadLetterAdd(LeaseTask(t))
  /\ dropping' = dropping \cup {t}
  /\ UNCHANGED <<backendVars, lapsed, lifeVars, reaper, enqueuing, consumer,
                 redrive, acked>>

\* Nack at the ceiling: route adds the task to the dead-letter store ...
NackDeadLetter(t) ==
  /\ Settle(t)
  /\ issued[t].attempt >= MaxAttempts
  /\ DeadLetterAdd(LeaseTask(t))
  /\ dropping' = dropping \cup {t}
  /\ UNCHANGED <<backendVars, lapsed, lifeVars, reaper, enqueuing, consumer,
                 redrive, acked>>

\* ... and then drops the lease.
NackDrop(t) ==
  /\ t \in dropping
  /\ dropping' = dropping \ {t}
  /\ BackendNack(t, FALSE)
  /\ UNCHANGED <<items, issued, lapsed, deadVars, settled, lifeVars, reaper,
                 enqueuing, consumer, redrive, acked>>

\* The ctx of the Ack or Nack is done: the claim stays settled, the lease stays.
SettleFail(t) ==
  /\ \/ Settle(t) /\ UNCHANGED dropping
     \/ t \in dropping /\ dropping' = dropping \ {t} /\ UNCHANGED settled
  /\ UNCHANGED <<backendVars, lapsed, deadVars, lifeVars, reaper, enqueuing,
                 consumer, redrive, acked>>

----------------------------------------------------------------------------
(* The reaper: one sweep is ReapExpired and then route for every copy.     *)

\* The clock: every lease gets the same visibility, so deadlines pass in the
\* order of the tokens.
DeadlinePasses ==
  /\ lapsed < Len(issued)
  /\ lapsed' = lapsed + 1
  /\ UNCHANGED <<backendVars, deadVars, claimVars, lifeVars, reaper, enqueuing,
                 consumer, redrive, acked>>

SweepStart ==
  /\ reaper.pc = "waiting"
  /\ ~ctxDone
  /\ ReapExpired # {}
  /\ reaper' = [reaper EXCEPT !.pc = "routing", !.todo = ReapExpired]
  /\ UNCHANGED <<backendVars, lapsed, deadVars, claimVars, lifeVars, enqueuing,
                 consumer, redrive, acked>>

\* Mutant: a timer in place of the ticker, so that there is only one sweep.
SweepNextOnce(l) ==
  reaper' = [reaper EXCEPT !.pc = IF reaper.todo \ {l} = {} THEN "done"
                                  ELSE "routing",
                           !.todo = @ \ {l}, !.token = 0]

\* What the reaper does next once the lease copied in l needs no more work.
SweepNext(l) ==
  reaper' = [reaper EXCEPT !.pc = IF reaper.todo \ {l} = {} THEN "waiting"
                                  ELSE "routing",
                           !.todo = @ \ {l},
                           !.token = 0]

SweepRequeue(l) ==
  /\ reaper.pc = "routing"
  /\ ~ctxDone
  /\ l.attempt < MaxAttempts
  /\ BackendNack(l.token, TRUE)
  /\ SweepNext(l)
  /\ UNCHANGED <<items, issued, lapsed, deadVars, claimVars, lifeVars,
                 enqueuing, consumer, redrive, acked>>

SweepDeadLetter(l) ==
  /\ reaper.pc = "routing"
  /\ ~ctxDone
  /\ l.attempt >= MaxAttempts
  /\ DeadLetterAdd(LeaseTask(l.token))
  /\ reaper' = [reaper EXCEPT !.pc = "dropping", !.token = l.token]
  /\ UNCHANGED <<backendVars, lapsed, claimVars, lifeVars, enqueuing, consumer,
                 redrive, acked>>

SweepDrop(l) ==
  /\ reaper.pc = "dropping"
  /\ reaper.token = l.token
  /\ ~ctxDone
  /\ BackendNack(l.token, FALSE)
  /\ SweepNext(l)
  /\ UNCHANGED <<items, issued, lapsed, deadVars, claimVars, lifeVars,
                 enqueuing, consumer, redrive, acked>>

\* Mutant: a failed route is retried instead of skipped.
SweepFailRetried(l) ==
  /\ reaper.pc \in {"routing", "dropping"}
  /\ ctxDone
  /\ UNCHANGED vars

\* The reaper's own context is done: the store call fails, the sweep goes on.
SweepFail(l) ==
  /\ \/ reaper.pc = "routing"
     \/ reaper.pc = "dropping" /\ reaper.token = l.token
  /\ ctxDone
  /\ SweepNext(l)
  /\ UNCHANGED <<backendVars, lapsed, deadVars, claimVars, lifeVars, enqueuing,
                 consumer, redrive, acked>>

ReaperExit ==
  /\ reaper.pc = "waiting"
  /\ ctxDone
  /\ reaper' = [reaper EXCEPT !.pc = "done"]
  /\ UNCHANGED <<backendVars, lapsed, deadVars, claimVars, lifeVars, enqueuing,
                 consumer, redrive, acked>>

----------------------------------------------------------------------------
(* Redrive: List, then Backend.Enqueue, then Remove. *)

\* Mutant: Remove comes before Enqueue.
RedriveFindRemoving(r, t) ==
  /\ redrive[r].pc = "idle"
  /\ ~closed
  /\ t \in dead
  /\ dead' = dead \ {t}
  /\ redrive' = [redrive EXCEPT ![r] = [pc |-> "enqueue", task |-> t,
                                        item |-> 0]]
  /\ UNCHANGED <<backendVars, lapsed, readded, clobbered, claimVars, lifeVars,
                 reaper, enqueuing, consumer, acked>>

RedriveFind(r, t) ==
  /\ redrive[r].pc = "idle"
  /\ ~closed
  /\ t \in dead
  /\ redrive' = [redrive EXCEPT ![r] = [pc |-> "enqueue", task |-> t,
                                        item |-> 0]]
  /\ UNCHANGED <<backendVars, lapsed, deadVars, claimVars, lifeVars, reaper,
                 enqueuing, consumer, acked>>

RedriveEnqueue(r) ==
  /\ redrive[r].pc = "enqueue"
  /\ BackendEnqueue(redrive[r].task)
  /\ redrive' = [redrive EXCEPT ![r] = [pc |-> "remove", task |-> @.task,
                                        item |-> Len(items) + 1]]
  /\ readded' = readded \ {r}
  /\ UNCHANGED <<issued, leases, lapsed, dead, clobbered, claimVars, lifeVars,
                 reaper, enqueuing, consumer, acked>>

RedriveRemove(r) ==
  /\ redrive[r].pc = "remove"
  /\ dead' = dead \ {redrive[r].task}
  /\ clobbered' = IF r \in readded /\ redrive[r].task \in dead
                  THEN clobbered \cup {redrive[r].task} ELSE clobbered
  /\ redrive' = [redrive EXCEPT ![r] = NotRedriving]
  /\ readded' = readded \ {r}
  /\ UNCHANGED <<backendVars, lapsed, claimVars, lifeVars, reaper,
                 enqueuing, consumer, acked>>

RedriveFail(r) ==
  /\ redrive[r].pc # "idle"
  /\ redrive' = [redrive EXCEPT ![r] = NotRedriving]
  /\ readded' = readded \ {r}
  /\ UNCHANGED <<backendVars, lapsed, dead, clobbered, claimVars, lifeVars, reaper,
                 enqueuing, consumer, acked>>

----------------------------------------------------------------------------
(* Lifecycle: Close, and cancellation of the context given to New. *)

\* Close, behind its closeOnce: refuse new calls ...
Close ==
  /\ ~closed
  /\ closed' = TRUE
  /\ UNCHANGED <<backendVars, lapsed, deadVars, claimVars, ctxDone, reaper,
                 enqueuing, consumer, redrive, acked>>

\* ... and then cancel the reaper, whose exit Close waits for.
CloseCancel ==
  /\ closed
  /\ ~ctxDone
  /\ ctxDone' = TRUE
  /\ UNCHANGED <<backendVars, lapsed, deadVars, claimVars, closed, reaper,
                 enqueuing, consumer, redrive, acked>>

CancelParent ==
  /\ ~ctxDone
  /\ ctxDone' = TRUE
  /\ UNCHANGED <<backendVars, lapsed, deadVars, claimVars, closed, reaper,
                 enqueuing, consumer, redrive, acked>>

----------------------------------------------------------------------------
Producer == \E t \in Tasks : EnqueueStart(t) \/ EnqueuePush(t) \/ EnqueueFail(t)

Dequeuer ==
  \E c \in Consumers : \/ DequeueStart(c) \/ DequeueClaim(c) \/ DequeueEmpty(c)
                       \/ DequeuePoll(c) \/ DequeueFail(c)

Settler ==
  \E t \in Tokens : \/ Ack(t) \/ NackRequeue(t) \/ NackDeadLetter(t)
                    \/ NackDrop(t) \/ SettleFail(t)

Reaper ==
  \/ SweepStart
  \/ \E l \in reaper.todo : \/ SweepRequeue(l) \/ SweepDeadLetter(l)
                            \/ SweepDrop(l) \/ SweepFail(l)
  \/ ReaperExit

Redriver ==
  \E r \in Redrivers : \/ \E t \in Tasks : RedriveFind(r, t)
                       \/ RedriveEnqueue(r) \/ RedriveRemove(r) \/ RedriveFail(r)

Next == \/ Producer \/ Dequeuer \/ Settler \/ Reaper \/ Redriver
        \/ DeadlinePasses \/ Close \/ CloseCancel \/ CancelParent

Spec == Init /\ [][Next]_vars

\* Time passes, the reaper goroutine runs and a Close goes on to its cancel.
\* Some consumer keeps calling Dequeue and not every call of it is canceled.
\* Nobody has to settle.
Fairness ==
  /\ WF_vars(DeadlinePasses)
  /\ WF_vars(CloseCancel)
  /\ WF_vars(Reaper)
  /\ \A c \in Consumers : /\ WF_vars(DequeueStart(c))
                          /\ WF_vars(DequeuePoll(c))
                          /\ SF_vars(DequeueClaim(c))

FairSpec == Spec /\ Fairness

----------------------------------------------------------------------------
(* Properties. *)

TypeOK ==
  /\ items \in Seq(Item)
  /\ ready \subseteq Items
  /\ issued \in Seq(LeaseInfo)
  /\ \A t \in Tokens : issued[t].item \in Items
  /\ leases \subseteq Tokens
  /\ lapsed \in 0 .. Len(issued)
  /\ dead \subseteq Tasks
  /\ settled \subseteq Tokens
  /\ dropping \subseteq Tokens
  /\ closed \in BOOLEAN
  /\ ctxDone \in BOOLEAN
  /\ reaper \in [pc : {"waiting", "routing", "dropping", "done"},
                 todo : SUBSET [token : Tokens, attempt : Nat],
                 token : Tokens \cup {0}]
  /\ enqueuing \subseteq Tasks
  /\ consumer \in [Consumers -> {"idle", "claiming", "waiting"}]
  /\ redrive \in [Redrivers ->
                     {NotRedriving}
                       \cup [pc : {"enqueue"}, task : Tasks, item : {0}]
                       \cup [pc : {"remove"}, task : Tasks, item : Items]]
  /\ acked \subseteq Items
  /\ readded \subseteq Redrivers
  /\ clobbered \subseteq Tasks

\* An item is never in two places: the heap, one lease, or gone after an Ack.
\* So a Claim's Nack and the reaper's route, racing on one lease, requeue it
\* once, and a task whose Ack succeeded is not delivered again.
ItemInOnePlace ==
  /\ ready \cap LeasedItems = {}
  /\ acked \cap (ready \cup LeasedItems) = {}
  /\ \A t, u \in leases : issued[t].item = issued[u].item => t = u

\* Every delivery of an item carries a larger attempt number than the one
\* before, and none exceeds WithMaxAttempts, however Nack, expiry and the
\* reaper interleave: an item is delivered at most MaxAttempts times.
BoundedDelivery ==
  \A t \in Tokens :
    /\ issued[t].attempt \in 1 .. MaxAttempts
    /\ \A u \in Tokens : t < u /\ issued[t].item = issued[u].item
                          => issued[t].attempt < issued[u].attempt

\* The queue still answers for a task: it waits, it is leased, or it was acked.
Held(t) == \E i \in Items : /\ TaskOf(i) = t
                            /\ i \in ready \cup LeasedItems \cup acked

\* No accepted task disappears: it is held or dead-lettered, whatever fails in
\* the middle of route or Redrive.  The one exception is a Redrive that
\* removes a dead letter newer than the one it redrove.
NoSilentLoss == \A t \in Accepted : Held(t) \/ t \in dead \cup clobbered

\* Only a task that used up its deliveries is ever dead-lettered.
DeadOnlyExhausted ==
  \A t \in dead : \E u \in Tokens : /\ LeaseTask(u) = t
                                    /\ issued[u].attempt = MaxAttempts

\* A lease ends only by the settling of its own Claim or after its deadline:
\* a sweep that works on stale copies never takes a lease that is not due.
LeaseEndsOnlyWhenDue ==
  [][\A t \in leases \ leases' : t \in settled' \/ t <= lapsed]_vars

\* While the reaper lives, an accepted task is acked or dead-lettered in the
\* end, even when no consumer ever settles a claim; but for one whose newer
\* dead letter a Redrive removed.
EventuallySettled ==
  \A t \in Tasks :
    t \in Accepted ~> \/ \E i \in acked : TaskOf(i) = t
                      \/ t \in dead \cup clobbered
                      \/ closed \/ ctxDone

\* Close returns: after Close or a cancellation the reaper exits, in the middle
\* of a sweep too.
ReaperStops == closed \/ ctxDone ~> reaper.pc = "done"

\* doc.go: the queue "delivers it with at-least-once semantics"; queue.go:
\* "Redrive moves a dead-lettered task back onto the queue".
NoTaskLost == \A t \in Accepted : Held(t) \/ t \in dead
==============================================================================

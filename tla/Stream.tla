------------------------------- MODULE Stream --------------------------------
(***************************************************************************)
(* Queue.Stream (queue.go): the queue of TaskQueue composed with a yielder. *)
(* A feeder goroutine, which is the consumer Feeder of the queue, dequeues  *)
(* claims into the feed channel, which is `input` of the yielder; a reader  *)
(* takes the claims from the yielder and settles them.  A claim is named by *)
(* its lease token.                                                         *)
(***************************************************************************)
EXTENDS TaskQueue, Yielder

CONSTANTS
  Feeder,  \* the consumer that feeds the stream
  Stream,  \* the yielder
  Buffer   \* the buffer of Stream

ASSUME StreamAssumption ==
  /\ Consumers = {Feeder}
  /\ Yielders = {Stream}
  /\ Buffer \in Nat \ {0}
  /\ NoValue = 0

VARIABLES
  feeder,      \* the feeder goroutine: "none", "loop", "send" or "end"
  held,        \* the claim it is sending
  opened,      \* the call of Stream is past its yielder.New
  callerDone,  \* the ctx given to Stream is done
  received     \* the claims the reader received

feedVars == <<feeder, held, opened, callerDone, received>>
streamVars == <<vars, yielderVars, feedVars>>

StreamInit ==
  /\ Init
  /\ YielderInit
  /\ feeder = "none"
  /\ held = NoValue
  /\ opened = FALSE
  /\ callerDone = FALSE
  /\ received = {}

----------------------------------------------------------------------------
\* Stream starts the feeder ...
StreamOpen ==
  /\ feeder = "none"
  /\ ~closed
  /\ feeder' = "loop"
  /\ UNCHANGED <<vars, yielderVars, held, opened, callerDone, received>>

\* ... and then makes the yielder, which fails if ctx is done.  The feeder may
\* have claimed and sent already: nobody will receive it.
StreamNew ==
  /\ feeder # "none"
  /\ ~opened
  /\ opened' = TRUE
  /\ IF callerDone THEN UNCHANGED y ELSE New(Stream, "recv", Buffer)
  /\ UNCHANGED <<vars, input, inputClosed, dropped, feeder, held, callerDone,
                 received>>

\* One step of the feeder's Dequeue, which does not return with it.  A Claim
\* with a ctx that is done fails.
FeedDequeue ==
  /\ feeder = "loop"
  /\ \/ ~callerDone /\ (DequeueStart(Feeder) \/ DequeueEmpty(Feeder))
     \/ DequeuePoll(Feeder)
  /\ UNCHANGED <<yielderVars, feedVars>>

FeedClaim ==
  /\ feeder = "loop"
  /\ ~callerDone
  /\ DequeueClaim(Feeder)
  /\ feeder' = "send"
  /\ held' = Len(issued')
  /\ UNCHANGED <<yielderVars, opened, callerDone, received>>

\* The feeder returns and its deferred close(feed) runs.
FeederEnds ==
  /\ feeder' = "end"
  /\ held' = NoValue
  /\ inputClosed' = TRUE
  /\ UNCHANGED <<y, input, dropped, opened, callerDone, received>>

\* Dequeue fails: the queue is closed, ctx is done, or nothing came in time.
FeedFail ==
  /\ feeder = "loop"
  /\ \/ consumer[Feeder] = "idle" /\ (closed \/ callerDone) /\ UNCHANGED vars
     \/ DequeueFail(Feeder) /\ (consumer[Feeder] = "waiting" \/ callerDone)
  /\ FeederEnds

\* Mutant: the claim goes to the feed twice, as on a retried send.
FeedSendAgain ==
  /\ feeder = "send"
  /\ Len(input) < Buffer
  /\ input' = Append(input, held)
  /\ UNCHANGED <<vars, y, inputClosed, dropped, feedVars>>

FeedSend ==
  /\ feeder = "send"
  /\ Len(input) < Buffer
  /\ input' = Append(input, held)
  /\ feeder' = "loop"
  /\ held' = NoValue
  /\ UNCHANGED <<vars, y, inputClosed, dropped, opened, callerDone, received>>

\* Mutant: the send does not watch ctx.
FeedNackNever ==
  /\ feeder = "send"
  /\ callerDone
  /\ UNCHANGED streamVars

\* Nack is given the ctx that is done, so it settles the claim and fails: the
\* lease is left to the reaper.
FeedNack ==
  /\ feeder = "send"
  /\ callerDone
  /\ Settle(held)
  /\ FeederEnds
  /\ UNCHANGED <<backendVars, lapsed, deadVars, dropping, lifeVars, reaper,
                 enqueuing, consumer, redrive, acked>>

FeederStep == FeedDequeue \/ FeedClaim \/ FeedFail \/ FeedSend \/ FeedNack

----------------------------------------------------------------------------
\* The ctx given to Stream ends, and with it the yielder's.
CallerCancels ==
  /\ ~callerDone
  /\ callerDone' = TRUE
  /\ y' = IF y[Stream].pc = "none" THEN y ELSE [y EXCEPT ![Stream].ctxDone = TRUE]
  /\ UNCHANGED <<vars, input, inputClosed, dropped, feeder, held, opened, received>>

ReadClaim ==
  /\ y[Stream].results # <<>>
  /\ received' = received \cup {Head(y[Stream].results)}
  /\ y' = [y EXCEPT ![Stream].results = Tail(@)]
  /\ UNCHANGED <<vars, input, inputClosed, dropped, feeder, held, opened,
                 callerDone>>

ReaderSettles ==
  \E t \in received : \/ Ack(t) \/ NackRequeue(t) \/ NackDeadLetter(t)
                      \/ NackDrop(t) \/ SettleFail(t)

\* The goroutine of the yielder.
YielderGoes ==
  /\ \/ Receive(Stream) \/ InputClosed(Stream) \/ ReceiveStopped(Stream)
     \/ Forward(Stream) \/ ForwardStopped(Stream) \/ Finish(Stream)
  /\ UNCHANGED <<vars, feedVars>>

\* Its hard timeout, from New on, which is the timeout of Stream.
YielderTimeout == Timeout(Stream) /\ UNCHANGED <<vars, feedVars>>

QueueStep ==
  /\ \/ Producer \/ ReaderSettles \/ Reaper \/ DeadlinePasses
     \/ Close \/ CloseCancel \/ CancelParent
  /\ UNCHANGED <<yielderVars, feedVars>>

StreamNext ==
  \/ StreamOpen \/ StreamNew \/ FeederStep \/ CallerCancels \/ ReadClaim
  \/ YielderGoes \/ YielderTimeout \/ QueueStep

StreamSpec == StreamInit /\ [][StreamNext]_streamVars

\* The goroutines run, time passes; nobody has to cancel, to read or to settle.
StreamFairness ==
  /\ WF_streamVars(FeederStep)
  /\ WF_streamVars(YielderGoes)
  /\ WF_streamVars(Reaper /\ UNCHANGED <<yielderVars, feedVars>>)
  /\ WF_streamVars(DeadlinePasses /\ UNCHANGED <<yielderVars, feedVars>>)

FairStreamSpec == StreamSpec /\ StreamFairness

----------------------------------------------------------------------------
(* Properties. *)

\* Where a claim may be on its way to the reader.
ClaimPlaces(t) ==
  {<<"feed", k>> : k \in {n \in DOMAIN input : input[n] = t}}
    \cup {<<"results", k>> : k \in {n \in DOMAIN y[Stream].results :
                                      y[Stream].results[n] = t}}
    \cup {p \in {<<"feeder", 1>>} : held = t}
    \cup {p \in {<<"hand", 1>>} : y[Stream].hand = t}
    \cup {p \in {<<"dropped", 1>>} : <<Stream, t>> \in dropped}
    \cup {p \in {<<"received", 1>>} : t \in received}

\* A claim goes to the reader at most once, and is in one place on its way or
\* was nacked by the feeder: nothing in between forgets or doubles one.
ClaimInOnePlace ==
  \A t \in Tokens :
    IF ClaimPlaces(t) = {} THEN t \in settled
    ELSE \A p, q \in ClaimPlaces(t) : p = q

\* Canceling ctx ends the stream: the feeder returns and the yielder is done or
\* was never made, though the reader is gone and the feed full.
StreamStops ==
  callerDone /\ feeder # "none"
    ~> feeder = "end" /\ y[Stream].pc \in {"none", "done"}

\* A claim the stream does not bring to the reader is not lost: as long as the
\* reaper lives its lease ends, though the feeder's Nack fails.
UndeliveredReaped ==
  \A t \in 1 .. MaxItems * MaxAttempts :
    (t \in leases /\ t \notin received)
      ~> (t \notin leases \/ t \in received \/ closed \/ ctxDone)

\* queue.go: the stream goes on "until ctx is canceled, the queue closes, or
\* timeout elapses with no work".  A claim that the yielder took and could not
\* pass on is work, so it is given up only when ctx is canceled or the queue is
\* closed.
EndsAsDocumented == dropped # {} => callerDone \/ closed
==============================================================================

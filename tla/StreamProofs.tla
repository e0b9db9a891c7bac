----------------------------- MODULE StreamProofs ----------------------------
(***************************************************************************)
(* Queue.Stream uses the queue as any caller may, so what TaskQueueProofs    *)
(* shows of the queue holds under it; and on its way from the lease table   *)
(* to the reader a claim is in one place, for every buffer size and any     *)
(* number of tasks and attempts.                                            *)
(***************************************************************************)
EXTENDS Stream, TaskQueueProofs, ChannelTheorems

StreamYielder ==
  [pc : {"none", "recv", "send", "closing", "done"}, hand : Nat,
   todo : Seq(Nat), results : Seq(Nat), room : Nat,
   err : {"none", "input closed", "stopped"}, ctxDone : BOOLEAN]

StreamType ==
  /\ y \in [Yielders -> StreamYielder]
  /\ input \in Seq(Nat)
  /\ feeder \in {"none", "loop", "send", "end"}
  /\ opened \in BOOLEAN
  /\ held \in Nat

\* The claims at each stage: with the feeder, in the feed, in the hand of the
\* yielder, in its results, dropped by it.
WithFeeder == {held} \ {NoValue}
InHand     == {y[Stream].hand} \ {NoValue}
InResults  == Elems(y[Stream].results)
Dropped    == {t \in Nat : <<Stream, t>> \in dropped}

\* No two of six sets of claims meet.
Apart(F, C, H, R, D, G) ==
  /\ F \cap (C \cup H \cup R \cup D \cup G) = {}
  /\ C \cap (H \cup R \cup D \cup G) = {}
  /\ H \cap (R \cup D \cup G) = {}
  /\ R \cap (D \cup G) = {}
  /\ D \cap G = {}

\* They hold every claim handed out but those the feeder nacked, which are
\* settled, and nothing else.
Complete(F, C, H, R, D, G, all, given) ==
  /\ F \cup C \cup H \cup R \cup D \cup G \subseteq all
  /\ all \subseteq F \cup C \cup H \cup R \cup D \cup G \cup given

StageInv ==
  /\ Apart(WithFeeder, Elems(input), InHand, InResults, Dropped, received)
  /\ Complete(WithFeeder, Elems(input), InHand, InResults, Dropped, received,
              Tokens, settled)

\* No channel has a claim twice, and a claim is in a goroutine's hand exactly
\* while it sends it.
HandInv ==
  /\ Injective(input)
  /\ Injective(y[Stream].results)
  /\ feeder = "send" <=> held # NoValue
  /\ y[Stream].pc = "send" <=> y[Stream].hand # NoValue
  /\ ~opened => y[Stream].pc = "none" /\ y[Stream].results = <<>>

FlowInv == StreamType /\ StageInv /\ HandInv

StreamInv == TypeOK /\ FlowInv

----------------------------------------------------------------------------
(* The stream as a user of the queue. *)

LEMMA TokenFacts ==
  ASSUME TypeOK
  PROVE  /\ Len(issued) \in Nat /\ Tokens = 1 .. Len(issued)
         /\ Tokens \subseteq Nat \ {NoValue}
<1>1. Len(issued) \in Nat /\ Tokens = 1 .. Len(issued)
  BY LenProperties DEF TypeOK, Tokens
<1>2. QED  BY <1>1, StreamAssumption

\* Every step of the stream is a step of the queue or none: the feeder is one
\* of its consumers and settles only claims it was given.
LEMMA StreamStep == StreamInv /\ [StreamNext]_streamVars => [Next]_vars
<1>1. SUFFICES ASSUME StreamInv, [StreamNext]_streamVars PROVE [Next]_vars
  OBVIOUS
<1>2. Feeder \in Consumers
  BY StreamAssumption
<1>3. received \subseteq Tokens /\ WithFeeder \subseteq Tokens
  BY <1>1 DEF StreamInv, FlowInv, StageInv, Complete
<1>4. CASE StreamOpen \/ StreamNew \/ CallerCancels \/ ReadClaim \/ YielderGoes
             \/ YielderTimeout \/ FeedSend
  BY <1>4 DEF StreamOpen, StreamNew, CallerCancels, ReadClaim, YielderGoes,
              YielderTimeout, FeedSend
<1>5. CASE FeedDequeue \/ FeedClaim
  BY <1>2, <1>5 DEF FeedDequeue, FeedClaim, Next, Dequeuer
<1>6. CASE FeedFail
  BY <1>2, <1>6 DEF FeedFail, Next, Dequeuer
<1>7. CASE FeedNack
  <2>1. held \in Tokens
    BY <1>1, <1>3, <1>7 DEF FeedNack, StreamInv, FlowInv, HandInv, WithFeeder
  <2>2. SettleFail(held)
    BY <1>7 DEF FeedNack, SettleFail
  <2>3. QED  BY <2>1, <2>2 DEF Next, Settler
<1>8. CASE QueueStep
  <2>1. ReaderSettles => Settler
    BY <1>3 DEF ReaderSettles, Settler
  <2>2. QED  BY <1>8, <2>1 DEF QueueStep, Next
<1>9. CASE UNCHANGED streamVars
  BY <1>9 DEF streamVars
<1>10. QED
  BY <1>1, <1>4, <1>5, <1>6, <1>7, <1>8, <1>9 DEF StreamNext, FeederStep

\* The steps of the queue but for the feeder's claim hand out no claim.
LEMMA QueueKeeps ==
  ASSUME QueueStep
  PROVE  UNCHANGED <<issued, yielderVars, feedVars>> /\ settled \subseteq settled'
<1>1. CASE Producer
  BY <1>1 DEF QueueStep, Producer, EnqueueStart, EnqueuePush, EnqueueFail,
              backendVars, claimVars
<1>2. CASE ReaderSettles
  <2>1. PICK t \in received : \/ Ack(t) \/ NackRequeue(t) \/ NackDeadLetter(t)
                              \/ NackDrop(t) \/ SettleFail(t)
    BY <1>2 DEF ReaderSettles
  <2>2. QED
    BY <2>1 DEF QueueStep, Ack, NackRequeue, NackDeadLetter, NackDrop,
                SettleFail, Settle, backendVars
<1>3. CASE Reaper
  BY <1>3 DEF QueueStep, Reaper, SweepStart, SweepRequeue, SweepDeadLetter,
              SweepDrop, SweepFail, ReaperExit, backendVars, claimVars
<1>4. CASE DeadlinePasses \/ Close \/ CloseCancel \/ CancelParent
  BY <1>4 DEF QueueStep, DeadlinePasses, Close, CloseCancel, CancelParent,
              backendVars, claimVars
<1>5. QED  BY <1>1, <1>2, <1>3, <1>4 DEF QueueStep

----------------------------------------------------------------------------
(* The yielder: what each of its steps does to the claims it has. *)

LEMMA YielderSet ==
  ASSUME StreamType, NEW s \in StreamYielder, y' = [y EXCEPT ![Stream] = s]
  PROVE  y' \in [Yielders -> StreamYielder] /\ y'[Stream] = s
BY StreamAssumption DEF StreamType

\* The yielder neither gets nor loses a claim.
YielderQuiet ==
  /\ y' \in [Yielders -> StreamYielder]
  /\ y'[Stream].hand = y[Stream].hand
  /\ y'[Stream].results = y[Stream].results

LEMMA OpenFacts ==
  ASSUME StreamType, New(Stream, "recv", Buffer)
  PROVE  /\ y' \in [Yielders -> StreamYielder]
         /\ y'[Stream].pc = "recv" /\ y'[Stream].hand = NoValue
         /\ y'[Stream].results = <<>>
<1> DEFINE s == [NotCreated EXCEPT !.pc = "recv",
                                   !.room = IF Buffer = 0 THEN 1 ELSE Buffer]
<1>1. s \in StreamYielder
  BY EmptyElems, StreamAssumption DEF NotCreated, StreamYielder
<1>2. y' = [y EXCEPT ![Stream] = s]
  BY DEF New
<1>3. s.pc = "recv" /\ s.hand = NoValue /\ s.results = <<>>
  BY DEF NotCreated
<1> HIDE DEF s
<1>4. QED  BY <1>1, <1>2, <1>3, YielderSet

LEMMA StepFacts ==
  ASSUME StreamType, NEW from, NEW to \in {"recv", "closing"},
         NEW e \in {"none", "input closed", "stopped"}, Step(Stream, from, to, e)
  PROVE  YielderQuiet /\ y'[Stream].pc = to
<1> DEFINE s == [y[Stream] EXCEPT !.pc = to, !.err = FirstErr(Stream, e)]
<1>1. y[Stream] \in StreamYielder
  BY StreamAssumption DEF StreamType
<1>2. s \in StreamYielder
  BY <1>1 DEF StreamYielder, FirstErr
<1>3. y' = [y EXCEPT ![Stream] = s]
  BY DEF Step
<1>4. s.pc = to /\ s.hand = y[Stream].hand /\ s.results = y[Stream].results
  BY <1>1 DEF StreamYielder
<1> HIDE DEF s
<1>5. QED  BY <1>2, <1>3, <1>4, YielderSet DEF YielderQuiet

LEMMA ContextFacts ==
  ASSUME StreamType, y' = [y EXCEPT ![Stream].ctxDone = TRUE]
  PROVE  YielderQuiet /\ y'[Stream].pc = y[Stream].pc
<1> DEFINE s == [y[Stream] EXCEPT !.ctxDone = TRUE]
<1>1. y[Stream] \in StreamYielder
  BY StreamAssumption DEF StreamType
<1>2. s \in StreamYielder
  BY <1>1 DEF StreamYielder
<1>3. y' = [y EXCEPT ![Stream] = s]
  OBVIOUS
<1>4. s.pc = y[Stream].pc /\ s.hand = y[Stream].hand
      /\ s.results = y[Stream].results
  BY <1>1 DEF StreamYielder
<1> HIDE DEF s
<1>5. QED  BY <1>2, <1>3, <1>4, YielderSet DEF YielderQuiet

LEMMA FinishFacts ==
  ASSUME StreamType, Finish(Stream)
  PROVE  YielderQuiet /\ y'[Stream].pc = "done"
<1> DEFINE s == [y[Stream] EXCEPT !.pc = "done", !.ctxDone = TRUE]
<1>1. y[Stream] \in StreamYielder
  BY StreamAssumption DEF StreamType
<1>2. s \in StreamYielder
  BY <1>1 DEF StreamYielder
<1>3. y' = [y EXCEPT ![Stream] = s]
  BY DEF Finish
<1>4. s.pc = "done" /\ s.hand = y[Stream].hand /\ s.results = y[Stream].results
  BY <1>1 DEF StreamYielder
<1> HIDE DEF s
<1>5. QED  BY <1>2, <1>3, <1>4, YielderSet DEF YielderQuiet

LEMMA ReceiveFacts ==
  ASSUME StreamType, Receive(Stream)
  PROVE  /\ y' \in [Yielders -> StreamYielder]
         /\ y'[Stream].pc = "send" /\ y'[Stream].hand = Head(input)
         /\ y'[Stream].results = y[Stream].results
<1> DEFINE s == [y[Stream] EXCEPT !.pc = "send", !.hand = Head(input)]
<1>1. y[Stream] \in StreamYielder /\ Head(input) \in Nat
  BY StreamAssumption, TailElems DEF StreamType, Receive
<1>2. s \in StreamYielder
  BY <1>1 DEF StreamYielder
<1>3. y' = [y EXCEPT ![Stream] = s]
  BY DEF Receive
<1>4. s.pc = "send" /\ s.hand = Head(input) /\ s.results = y[Stream].results
  BY <1>1 DEF StreamYielder
<1> HIDE DEF s
<1>5. QED  BY <1>2, <1>3, <1>4, YielderSet

LEMMA ForwardFacts ==
  ASSUME StreamType, Forward(Stream)
  PROVE  /\ y' \in [Yielders -> StreamYielder]
         /\ y'[Stream].pc = "recv" /\ y'[Stream].hand = NoValue
         /\ y'[Stream].results = Append(y[Stream].results, y[Stream].hand)
<1> DEFINE s == [y[Stream] EXCEPT !.pc = "recv", !.hand = NoValue,
                                  !.results = Append(@, y[Stream].hand)]
<1>1. y[Stream] \in StreamYielder
  BY StreamAssumption DEF StreamType
<1>2. Append(y[Stream].results, y[Stream].hand) \in Seq(Nat)
  BY <1>1, AppendElems DEF StreamYielder
<1>3. s \in StreamYielder
  BY <1>1, <1>2, StreamAssumption DEF StreamYielder
<1>4. y' = [y EXCEPT ![Stream] = s]
  BY DEF Forward
<1>5. s.pc = "recv" /\ s.hand = NoValue
      /\ s.results = Append(y[Stream].results, y[Stream].hand)
  BY <1>1 DEF StreamYielder
<1> HIDE DEF s
<1>6. QED  BY <1>3, <1>4, <1>5, YielderSet

LEMMA ForwardStoppedFacts ==
  ASSUME StreamType, ForwardStopped(Stream)
  PROVE  /\ y' \in [Yielders -> StreamYielder]
         /\ y'[Stream].pc = "closing" /\ y'[Stream].hand = NoValue
         /\ y'[Stream].results = y[Stream].results
<1> DEFINE s == [y[Stream] EXCEPT !.pc = "closing", !.hand = NoValue,
                                  !.err = FirstErr(Stream, "stopped")]
<1>1. y[Stream] \in StreamYielder
  BY StreamAssumption DEF StreamType
<1>2. s \in StreamYielder
  BY <1>1, StreamAssumption DEF StreamYielder, FirstErr
<1>3. y' = [y EXCEPT ![Stream] = s]
  BY DEF ForwardStopped
<1>4. s.pc = "closing" /\ s.hand = NoValue /\ s.results = y[Stream].results
  BY <1>1 DEF StreamYielder
<1> HIDE DEF s
<1>5. QED  BY <1>2, <1>3, <1>4, YielderSet

\* The reader takes the first of the results.
LEMMA ReadFacts ==
  ASSUME StreamType, ReadClaim
  PROVE  /\ y' \in [Yielders -> StreamYielder]
         /\ y'[Stream].pc = y[Stream].pc /\ y'[Stream].hand = y[Stream].hand
         /\ y'[Stream].results = Tail(y[Stream].results)
<1> DEFINE s == [y[Stream] EXCEPT !.results = Tail(@)]
<1>1. y[Stream] \in StreamYielder
  BY StreamAssumption DEF StreamType
<1>2. Tail(y[Stream].results) \in Seq(Nat)
  BY <1>1, TailElems DEF StreamYielder, ReadClaim
<1>3. s \in StreamYielder
  BY <1>1, <1>2 DEF StreamYielder
<1>4. y' = [y EXCEPT ![Stream] = s]
  BY DEF ReadClaim
<1>5. s.pc = y[Stream].pc /\ s.hand = y[Stream].hand
      /\ s.results = Tail(y[Stream].results)
  BY <1>1 DEF StreamYielder
<1> HIDE DEF s
<1>6. QED  BY <1>3, <1>4, <1>5, YielderSet

----------------------------------------------------------------------------
(* The steps of the stream move one claim from a stage to the next. *)

\* No claim moves, and none is handed out.
LEMMA FlowKept ==
  ASSUME FlowInv, YielderQuiet, y'[Stream].pc = "send" <=> y[Stream].pc = "send",
         opened' \in BOOLEAN, ~opened' => y'[Stream].pc = "none" /\ ~opened,
         feeder' \in {"none", "loop", "send", "end"},
         feeder' = "send" <=> feeder = "send",
         UNCHANGED <<held, input, dropped, received, issued>>,
         settled \subseteq settled'
  PROVE  FlowInv'
<1>1. StreamType'
  BY DEF FlowInv, StreamType, YielderQuiet
<1>2. WithFeeder' = WithFeeder /\ InHand' = InHand /\ InResults' = InResults
      /\ Dropped' = Dropped /\ Elems(input)' = Elems(input) /\ Tokens' = Tokens
  BY DEF WithFeeder, InHand, InResults, Dropped, YielderQuiet, Tokens
<1>3. StageInv'
  BY <1>2 DEF FlowInv, StageInv, Apart, Complete
<1>4. HandInv'
  BY DEF FlowInv, HandInv, YielderQuiet
<1>5. QED  BY <1>1, <1>3, <1>4 DEF FlowInv

\* Dequeue hands the feeder a claim under a fresh token.
LEMMA ClaimFlow ==
  ASSUME TypeOK, FlowInv, FeedClaim
  PROVE  FlowInv'
<1>1. PICK i \in ready : issued' = Append(issued, [item |-> i,
                                            attempt |-> items[i].attempt + 1])
  BY DEF FeedClaim, DequeueClaim, BackendClaim
<1>2. PICK l : l = [item |-> i, attempt |-> items[i].attempt + 1]
  OBVIOUS
<1>3. l \in LeaseInfo
  <2>1. i \in Nat \ {0}
    BY LenProperties DEF TypeOK, Items
  <2>2. items[i] \in Item
    BY ElementOfSeq, LenProperties DEF TypeOK, Items
  <2>3. items[i].attempt + 1 \in Nat
    BY <2>2 DEF Item
  <2>4. QED  BY <1>2, <2>1, <2>3 DEF LeaseInfo
<1>4. Len(issued) \in Nat /\ Tokens = 1 .. Len(issued)
      /\ Tokens \subseteq Nat \ {NoValue}
  BY TokenFacts
<1>5. PICK n : n = Len(issued) + 1
  OBVIOUS
<1>6. issued' \in Seq(LeaseInfo) /\ Len(issued') = n
  BY <1>1, <1>2, <1>3, <1>5, AppendProperties DEF TypeOK
<1>7. Tokens' = 1 .. n
  BY <1>6, LenProperties DEF Tokens
<1>8. n \in Nat \ {NoValue} /\ n \notin Tokens /\ Tokens' = Tokens \cup {n}
  BY <1>4, <1>5, <1>7, StreamAssumption
<1>9. held' = n /\ held = NoValue
  BY <1>6 DEF FeedClaim, FlowInv, HandInv
<1>10. UNCHANGED <<yielderVars, received, settled>>
  BY DEF FeedClaim, DequeueClaim, claimVars
<1>11. StreamType'
  BY <1>8, <1>9, <1>10 DEF FlowInv, StreamType, FeedClaim, yielderVars
<1>12. WithFeeder' = {n} /\ WithFeeder = {}
  BY <1>8, <1>9 DEF WithFeeder
<1>13. InHand' = InHand /\ InResults' = InResults /\ Dropped' = Dropped
       /\ Elems(input)' = Elems(input)
  BY <1>10 DEF InHand, InResults, Dropped, yielderVars
<1>14. StageInv'
  BY <1>8, <1>10, <1>12, <1>13 DEF FlowInv, StageInv, Apart, Complete
<1>15. HandInv'
  BY <1>8, <1>9, <1>10 DEF FlowInv, HandInv, FeedClaim, yielderVars
<1>16. QED  BY <1>11, <1>14, <1>15 DEF FlowInv

\* The feeder sends the claim to the feed ...
LEMMA SendFlow ==
  ASSUME TypeOK, FlowInv, FeedSend
  PROVE  FlowInv'
<1>1. held \in Nat /\ held # NoValue
  BY DEF FlowInv, StreamType, HandInv, FeedSend
<1>2. held' = NoValue /\ WithFeeder = {held} /\ WithFeeder' = {}
  BY <1>1 DEF FeedSend, WithFeeder
<1>3. held \notin Elems(input)
  BY <1>2 DEF FlowInv, StageInv, Apart
<1>4. input' = Append(input, held) /\ input' \in Seq(Nat)
      /\ Elems(input') = Elems(input) \cup {held} /\ Injective(input')
  BY <1>1, <1>3, AppendElems DEF FlowInv, StreamType, HandInv, FeedSend
<1>5. UNCHANGED <<y, dropped, received, issued, settled>>
  BY DEF FeedSend, vars
<1>6. StreamType'
  BY <1>2, <1>4, <1>5, StreamAssumption DEF FlowInv, StreamType, FeedSend
<1>7. InHand' = InHand /\ InResults' = InResults /\ Dropped' = Dropped
      /\ Tokens' = Tokens
  BY <1>5 DEF InHand, InResults, Dropped, Tokens
<1>8. StageInv'
  BY <1>2, <1>4, <1>5, <1>7 DEF FlowInv, StageInv, Apart, Complete
<1>9. HandInv'
  BY <1>2, <1>4, <1>5 DEF FlowInv, HandInv, FeedSend
<1>10. QED  BY <1>6, <1>8, <1>9 DEF FlowInv

\* ... or gives it back, which settles it.
LEMMA NackFlow ==
  ASSUME TypeOK, FlowInv, FeedNack
  PROVE  FlowInv'
<1>1. held \in Nat /\ held # NoValue
  BY DEF FlowInv, StreamType, HandInv, FeedNack
<1>2. held' = NoValue /\ WithFeeder = {held} /\ WithFeeder' = {}
  BY <1>1 DEF FeedNack, FeederEnds, WithFeeder
<1>3. UNCHANGED <<y, input, dropped, received, issued>>
      /\ settled' = settled \cup {held}
  BY DEF FeedNack, FeederEnds, Settle, backendVars
<1>4. StreamType'
  BY <1>2, <1>3, StreamAssumption DEF FlowInv, StreamType, FeedNack, FeederEnds
<1>5. InHand' = InHand /\ InResults' = InResults /\ Dropped' = Dropped
      /\ Tokens' = Tokens /\ Elems(input)' = Elems(input)
  BY <1>3 DEF InHand, InResults, Dropped, Tokens
<1>6. StageInv'
  BY <1>2, <1>3, <1>5 DEF FlowInv, StageInv, Apart, Complete
<1>7. HandInv'
  BY <1>2, <1>3 DEF FlowInv, HandInv, FeedNack, FeederEnds
<1>8. QED  BY <1>4, <1>6, <1>7 DEF FlowInv

\* The yielder takes a claim from the feed ...
LEMMA ReceiveFlow ==
  ASSUME TypeOK, FlowInv, Receive(Stream), UNCHANGED <<vars, feedVars>>
  PROVE  FlowInv'
<1>1. PICK h : h = Head(input)
  OBVIOUS
<1>2. h \in Nat /\ input' \in Seq(Nat) /\ Elems(input) = {h} \cup Elems(input')
      /\ Injective(input') /\ h \notin Elems(input')
  BY <1>1, TailElems DEF FlowInv, StreamType, HandInv, Receive
<1>3. h # NoValue
  BY <1>2, TokenFacts DEF FlowInv, StageInv, Complete
<1>4. y' \in [Yielders -> StreamYielder] /\ y'[Stream].pc = "send"
      /\ y'[Stream].hand = h /\ y'[Stream].results = y[Stream].results
  BY <1>1, ReceiveFacts DEF FlowInv
<1>5. y[Stream].hand = NoValue
  BY DEF FlowInv, HandInv, Receive
<1>6. UNCHANGED <<dropped, received, issued, settled, held, feeder, opened>>
  BY DEF Receive, vars, feedVars
<1>7. StreamType'
  BY <1>2, <1>4, <1>6 DEF FlowInv, StreamType
<1>8. InHand' = {h} /\ InHand = {} /\ InResults' = InResults
      /\ Dropped' = Dropped /\ Tokens' = Tokens /\ WithFeeder' = WithFeeder
  BY <1>3, <1>4, <1>5, <1>6 DEF InHand, InResults, Dropped, Tokens, WithFeeder
<1>9. StageInv'
  BY <1>2, <1>6, <1>8 DEF FlowInv, StageInv, Apart, Complete
<1>10. opened
  BY DEF FlowInv, StreamType, HandInv, Receive
<1>11. HandInv'
  BY <1>2, <1>3, <1>4, <1>6, <1>10 DEF FlowInv, HandInv
<1>12. QED  BY <1>7, <1>9, <1>11 DEF FlowInv

\* ... and puts it into its results, or drops it.
LEMMA ForwardFlow ==
  ASSUME TypeOK, FlowInv, Forward(Stream), UNCHANGED <<vars, feedVars>>
  PROVE  FlowInv'
<1>1. PICK h : h = y[Stream].hand
  OBVIOUS
<1>2. y[Stream] \in StreamYielder
  BY StreamAssumption DEF FlowInv, StreamType
<1>3. h \in Nat /\ h # NoValue /\ y[Stream].results \in Seq(Nat)
  BY <1>1, <1>2 DEF FlowInv, HandInv, Forward, StreamYielder
<1>4. InHand = {h} /\ h \notin InResults
  BY <1>1, <1>3 DEF FlowInv, StageInv, Apart, InHand
<1>5. y' \in [Yielders -> StreamYielder] /\ y'[Stream].pc = "recv"
      /\ y'[Stream].hand = NoValue
      /\ y'[Stream].results = Append(y[Stream].results, h)
  BY <1>1, ForwardFacts DEF FlowInv
<1>6. Elems(y'[Stream].results) = InResults \cup {h} /\ Injective(y'[Stream].results)
  BY <1>3, <1>4, <1>5, AppendElems DEF FlowInv, HandInv, InResults
<1>7. UNCHANGED <<input, dropped, received, issued, settled, held, feeder,
                 opened>>
  BY DEF Forward, vars, feedVars
<1>8. StreamType'
  BY <1>5, <1>7 DEF FlowInv, StreamType
<1>9. InHand' = {} /\ InResults' = InResults \cup {h}
      /\ Dropped' = Dropped /\ Tokens' = Tokens /\ WithFeeder' = WithFeeder
      /\ Elems(input)' = Elems(input)
  BY <1>5, <1>6, <1>7 DEF InHand, InResults, Dropped, Tokens, WithFeeder
<1>10. StageInv'
  BY <1>4, <1>7, <1>9 DEF FlowInv, StageInv, Apart, Complete
<1>11. opened
  BY DEF FlowInv, StreamType, HandInv, Forward
<1>12. HandInv'
  BY <1>5, <1>6, <1>7, <1>11 DEF FlowInv, HandInv
<1>13. QED  BY <1>8, <1>10, <1>12 DEF FlowInv

LEMMA DropFlow ==
  ASSUME TypeOK, FlowInv, ForwardStopped(Stream), UNCHANGED <<vars, feedVars>>
  PROVE  FlowInv'
<1>1. PICK h : h = y[Stream].hand
  OBVIOUS
<1>2. y[Stream] \in StreamYielder
  BY StreamAssumption DEF FlowInv, StreamType
<1>3. h \in Nat /\ h # NoValue
  BY <1>1, <1>2 DEF FlowInv, HandInv, ForwardStopped, StreamYielder
<1>4. y' \in [Yielders -> StreamYielder] /\ y'[Stream].pc = "closing"
      /\ y'[Stream].hand = NoValue /\ y'[Stream].results = y[Stream].results
  BY ForwardStoppedFacts DEF FlowInv
<1>5. UNCHANGED <<input, received, issued, settled, held, feeder, opened>>
      /\ dropped' = dropped \cup {<<Stream, h>>}
  BY <1>1 DEF ForwardStopped, vars, feedVars
<1>6. StreamType'
  BY <1>4, <1>5 DEF FlowInv, StreamType
<1>7. Dropped' = Dropped \cup {h}
  BY <1>3, <1>5 DEF Dropped
<1>8. InHand = {h} /\ InHand' = {} /\ InResults' = InResults
      /\ Tokens' = Tokens /\ WithFeeder' = WithFeeder
      /\ Elems(input)' = Elems(input)
  BY <1>1, <1>3, <1>4, <1>5 DEF InHand, InResults, Tokens, WithFeeder
<1>9. StageInv'
  BY <1>5, <1>7, <1>8 DEF FlowInv, StageInv, Apart, Complete
<1>10. opened
  BY DEF FlowInv, StreamType, HandInv, ForwardStopped
<1>11. HandInv'
  BY <1>4, <1>5, <1>10 DEF FlowInv, HandInv
<1>12. QED  BY <1>6, <1>9, <1>11 DEF FlowInv

\* The reader takes a claim.
LEMMA ReadFlow ==
  ASSUME TypeOK, FlowInv, ReadClaim
  PROVE  FlowInv'
<1>1. PICK h : h = Head(y[Stream].results)
  OBVIOUS
<1>2. y[Stream] \in StreamYielder
  BY StreamAssumption DEF FlowInv, StreamType
<1>3. y[Stream].results \in Seq(Nat)
  BY <1>2 DEF StreamYielder
<1>4. y' \in [Yielders -> StreamYielder] /\ y'[Stream].pc = y[Stream].pc
      /\ y'[Stream].hand = y[Stream].hand
      /\ y'[Stream].results = Tail(y[Stream].results)
  BY ReadFacts DEF FlowInv
<1>5. InResults = {h} \cup Elems(y'[Stream].results)
      /\ Injective(y'[Stream].results) /\ h \notin Elems(y'[Stream].results)
  BY <1>1, <1>3, <1>4, TailElems DEF FlowInv, HandInv, InResults, ReadClaim
<1>6. UNCHANGED <<input, dropped, issued, settled, held, feeder, opened>>
      /\ received' = received \cup {h}
  BY <1>1 DEF ReadClaim, vars
<1>7. StreamType'
  BY <1>4, <1>6 DEF FlowInv, StreamType
<1>8. InResults' = Elems(y'[Stream].results) /\ InHand' = InHand
      /\ Dropped' = Dropped /\ Tokens' = Tokens /\ WithFeeder' = WithFeeder
      /\ Elems(input)' = Elems(input)
  BY <1>4, <1>6 DEF InHand, InResults, Dropped, Tokens, WithFeeder
<1>9. StageInv'
  BY <1>5, <1>6, <1>8 DEF FlowInv, StageInv, Apart, Complete
<1>10. opened
  BY DEF FlowInv, StreamType, HandInv, ReadClaim
<1>11. HandInv'
  BY <1>4, <1>5, <1>6, <1>10 DEF FlowInv, HandInv
<1>12. QED  BY <1>7, <1>9, <1>11 DEF FlowInv

LEMMA FlowStep ==
  StreamInv /\ [StreamNext]_streamVars => FlowInv'
<1>1. SUFFICES ASSUME TypeOK, FlowInv, [StreamNext]_streamVars PROVE FlowInv'
  BY DEF StreamInv
<1>2. StreamType /\ HandInv /\ y \in [Yielders -> StreamYielder]
      /\ feeder \in {"none", "loop", "send", "end"}
  BY <1>1 DEF FlowInv, StreamType
<1>o. CASE StreamOpen
  <2>1. YielderQuiet /\ y' = y
    BY <1>2, <1>o DEF StreamOpen, YielderQuiet, yielderVars
  <2>2. opened' \in BOOLEAN /\ (~opened' => y'[Stream].pc = "none" /\ ~opened)
    BY <1>2, <1>o, <2>1 DEF StreamOpen, StreamType, HandInv
  <2>3. QED
    BY <1>1, <1>o, <2>1, <2>2, FlowKept DEF StreamOpen, vars, yielderVars
<1>3. CASE StreamNew
  <2>1. y[Stream].hand = NoValue /\ y[Stream].results = <<>>
        /\ y[Stream].pc = "none"
    BY <1>2, <1>3 DEF StreamNew, HandInv
  <2>2. YielderQuiet /\ y'[Stream].pc # "send" /\ opened'
    BY <1>2, <1>3, <2>1, OpenFacts DEF StreamNew, YielderQuiet
  <2>3. QED  BY <1>1, <1>2, <1>3, <2>1, <2>2, FlowKept DEF StreamNew, vars
<1>4. CASE FeedDequeue
  <2>1. UNCHANGED <<issued, settled, yielderVars, feedVars>>
    BY <1>4 DEF FeedDequeue, DequeueStart, DequeueEmpty, DequeuePoll,
                backendVars, claimVars
  <2>2. YielderQuiet /\ y' = y /\ feeder' = "loop" /\ feeder = "loop"
    BY <1>2, <1>4, <2>1 DEF FeedDequeue, YielderQuiet, yielderVars, feedVars
  <2>3. opened' \in BOOLEAN /\ (~opened' => y'[Stream].pc = "none" /\ ~opened)
    BY <1>2, <2>1, <2>2 DEF StreamType, HandInv, feedVars
  <2>4. QED  BY <1>1, <2>1, <2>2, <2>3, FlowKept DEF yielderVars, feedVars
<1>5. CASE FeedFail
  <2>1. UNCHANGED <<issued, settled, y, input, dropped, opened, received>>
    BY <1>5 DEF FeedFail, FeederEnds, DequeueFail, vars, backendVars, claimVars
  <2>2. held = NoValue /\ held' = NoValue /\ feeder' = "end" /\ feeder = "loop"
    BY <1>2, <1>5 DEF FeedFail, FeederEnds, HandInv
  <2>3. YielderQuiet
    BY <1>2, <2>1 DEF YielderQuiet
  <2>4. opened' \in BOOLEAN /\ (~opened' => y'[Stream].pc = "none" /\ ~opened)
    BY <1>2, <2>1 DEF StreamType, HandInv
  <2>5. QED  BY <1>1, <2>1, <2>2, <2>3, <2>4, FlowKept
<1>6. CASE CallerCancels
  <2>1. YielderQuiet /\ y'[Stream].pc = y[Stream].pc
    BY <1>2, <1>6, ContextFacts DEF CallerCancels, YielderQuiet
  <2>2. UNCHANGED <<issued, settled, input, dropped, feeder, held, opened, received>>
    BY <1>6 DEF CallerCancels, vars
  <2>3. opened' \in BOOLEAN /\ (~opened' => y'[Stream].pc = "none" /\ ~opened)
    BY <1>2, <2>1, <2>2 DEF StreamType, HandInv
  <2>4. QED  BY <1>1, <1>2, <2>1, <2>2, <2>3, FlowKept
<1>7. CASE YielderTimeout \/ (YielderGoes /\ (InputClosed(Stream)
             \/ ReceiveStopped(Stream) \/ Finish(Stream)))
  <2>1. YielderQuiet /\ y[Stream].pc # "none" /\ UNCHANGED <<input, dropped>>
        /\ (y'[Stream].pc = "send" <=> y[Stream].pc = "send")
    <3>1. CASE InputClosed(Stream) \/ ReceiveStopped(Stream)
      <4>1. PICK e \in {"input closed", "stopped"} :
              Step(Stream, "recv", "closing", e)
        BY <3>1 DEF InputClosed, ReceiveStopped
      <4>2. YielderQuiet /\ y'[Stream].pc = "closing"
        BY <1>2, <4>1, StepFacts
      <4>3. QED  BY <4>1, <4>2 DEF Step
    <3>2. CASE Finish(Stream)
      BY <1>2, <3>2, FinishFacts DEF Finish
    <3>3. CASE Timeout(Stream)
      BY <1>2, <3>3, ContextFacts DEF Timeout
    <3>4. QED  BY <1>7, <3>1, <3>2, <3>3 DEF YielderTimeout
  <2>2. UNCHANGED <<issued, settled, feeder, held, received>>
    BY <1>7 DEF YielderTimeout, YielderGoes, vars, feedVars
  <2>3. opened /\ opened' = opened
    BY <1>2, <1>7, <2>1 DEF StreamType, HandInv, YielderTimeout, YielderGoes, feedVars
  <2>4. QED  BY <1>1, <1>2, <2>1, <2>2, <2>3, FlowKept
<1>8. CASE YielderGoes /\ (Receive(Stream) \/ Forward(Stream)
                             \/ ForwardStopped(Stream))
  BY <1>1, <1>8, ReceiveFlow, ForwardFlow, DropFlow DEF YielderGoes
<1>9. CASE QueueStep \/ UNCHANGED streamVars
  <2>1. UNCHANGED <<issued, yielderVars, feedVars>> /\ settled \subseteq settled'
    BY <1>9, QueueKeeps DEF streamVars, vars
  <2>2. YielderQuiet /\ y' = y /\ feeder' = feeder
        /\ opened' = opened
    BY <1>2, <2>1 DEF YielderQuiet, yielderVars, feedVars
  <2>3. opened' \in BOOLEAN /\ (~opened' => y'[Stream].pc = "none" /\ ~opened)
    BY <1>2, <2>2 DEF StreamType, HandInv
  <2>4. QED  BY <1>1, <1>2, <2>1, <2>2, <2>3, FlowKept DEF yielderVars, feedVars
<1>10. QED
  BY <1>1, <1>o, <1>3, <1>4, <1>5, <1>6, <1>7, <1>8, <1>9, ClaimFlow, SendFlow,
     NackFlow, ReadFlow
     DEF StreamNext, FeederStep, YielderGoes

LEMMA StreamInvInit == StreamInit => StreamInv
<1>1. SUFFICES ASSUME StreamInit PROVE StreamInv
  OBVIOUS
<1>2. TypeOK
  BY <1>1, TypeInit DEF StreamInit
<1>3. y[Stream] = NotCreated /\ y \in [Yielders -> StreamYielder]
  <2>1. NotCreated \in StreamYielder
    BY EmptyElems, StreamAssumption DEF NotCreated, StreamYielder
  <2>2. QED  BY <1>1, <2>1, StreamAssumption DEF StreamInit, YielderInit
<1>b. opened \in BOOLEAN
  BY <1>1 DEF StreamInit
<1>4. StreamType
  BY <1>1, <1>b, <1>3, StreamAssumption DEF StreamInit, YielderInit, StreamType
<1>5. InHand = {} /\ InResults = {} /\ WithFeeder = {} /\ Elems(input) = {}
      /\ Dropped = {} /\ received = {}
  <2>1. y[Stream].hand = NoValue /\ y[Stream].results = <<>>
    BY <1>3 DEF NotCreated
  <2>2. held = NoValue /\ input = <<>> /\ dropped = {} /\ received = {}
    BY <1>1 DEF StreamInit, YielderInit
  <2>3. Dropped = {}
    BY <2>2 DEF Dropped
  <2>4. InHand = {} /\ WithFeeder = {}
    BY <2>1, <2>2 DEF InHand, WithFeeder
  <2>5. InResults = {} /\ Elems(input) = {}
    BY <2>1, <2>2, EmptyElems DEF InResults
  <2>6. QED  BY <2>2, <2>3, <2>4, <2>5
<1>6. Tokens = {}
  BY <1>1 DEF StreamInit, Init, Tokens
<1>7. StageInv
  BY <1>5, <1>6 DEF StageInv, Apart, Complete
<1>8. HandInv
  BY <1>1, <1>3, EmptyElems DEF StreamInit, YielderInit, NotCreated, HandInv
<1>9. QED  BY <1>2, <1>4, <1>7, <1>8 DEF StreamInv, FlowInv

LEMMA StreamInvHolds == StreamSpec => []StreamInv
<1>1. StreamInv /\ [StreamNext]_streamVars => StreamInv'
  BY StreamStep, FlowStep, TypeStep DEF StreamInv
<1>2. QED  BY <1>1, StreamInvInit, PTL DEF StreamSpec

----------------------------------------------------------------------------
\* Queue.Stream is one more user of the queue: each step of the feeder, the
\* yielder and the reader is a step the queue allows, or none.  All that is
\* proved of Spec holds while a stream is open.
THEOREM StreamUsesQueue == StreamSpec => Spec
<1>1. StreamInit => Init
  BY DEF StreamInit
<1>2. QED
  BY <1>1, StreamStep, StreamInvHolds, PTL DEF StreamSpec, Spec

\* The places of a claim, one kind for each stage.
LEMMA PlacesOfClaim ==
  ASSUME StreamInv, NEW t \in Tokens
  PROVE  IF ClaimPlaces(t) = {} THEN t \in settled
         ELSE \A p, q \in ClaimPlaces(t) : p = q
<1> USE DEF StreamInv, FlowInv
<1>1. t \in Nat /\ t # NoValue
  BY TokenFacts
<1>2. PICK F : F = {<<"feed", k>> : k \in {n \in DOMAIN input : input[n] = t}}
  OBVIOUS
<1>3. PICK R : R = {<<"results", k>> : k \in {n \in DOMAIN y[Stream].results :
                                                y[Stream].results[n] = t}}
  OBVIOUS
<1>4. PICK W : W = {p \in {<<"feeder", 1>>} : held = t}
  OBVIOUS
<1>5. PICK H : H = {p \in {<<"hand", 1>>} : y[Stream].hand = t}
  OBVIOUS
<1>6. PICK D : D = {p \in {<<"dropped", 1>>} : <<Stream, t>> \in dropped}
  OBVIOUS
<1>7. PICK G : G = {p \in {<<"received", 1>>} : t \in received}
  OBVIOUS
<1>8. ClaimPlaces(t) = F \cup R \cup W \cup H \cup D \cup G
  BY <1>2, <1>3, <1>4, <1>5, <1>6, <1>7 DEF ClaimPlaces
<1>9. (F # {} <=> t \in Elems(input)) /\ \A p, q \in F : p = q
  <2>1. \A k, n \in DOMAIN input : input[k] = t /\ input[n] = t => k = n
    BY DEF HandInv, Injective
  <2>2. QED  BY <1>2, <2>1 DEF Elems
<1>10. (R # {} <=> t \in InResults) /\ \A p, q \in R : p = q
  <2>1. \A k, n \in DOMAIN y[Stream].results :
          y[Stream].results[k] = t /\ y[Stream].results[n] = t => k = n
    BY DEF HandInv, Injective
  <2>2. QED  BY <1>3, <2>1 DEF Elems, InResults
<1>11. (W # {} <=> t \in WithFeeder) /\ \A p, q \in W : p = q
  BY <1>1, <1>4 DEF WithFeeder
<1>12. (H # {} <=> t \in InHand) /\ \A p, q \in H : p = q
  BY <1>1, <1>5 DEF InHand
<1>13. (D # {} <=> t \in Dropped) /\ \A p, q \in D : p = q
  BY <1>1, <1>6 DEF Dropped
<1>14. (G # {} <=> t \in received) /\ \A p, q \in G : p = q
  BY <1>7
<1>15. CASE ClaimPlaces(t) = {}
  <2>1. t \notin WithFeeder \cup Elems(input) \cup InHand \cup InResults
                   \cup Dropped \cup received
    BY <1>8, <1>9, <1>10, <1>11, <1>12, <1>13, <1>14, <1>15
  <2>2. QED  BY <1>15, <2>1 DEF StageInv, Complete
<1>16. CASE ClaimPlaces(t) # {}
  <2>1. \/ ClaimPlaces(t) = F \/ ClaimPlaces(t) = R \/ ClaimPlaces(t) = W
        \/ ClaimPlaces(t) = H \/ ClaimPlaces(t) = D \/ ClaimPlaces(t) = G
    BY <1>8, <1>9, <1>10, <1>11, <1>12, <1>13, <1>14, <1>16
       DEF StageInv, Apart
  <2>2. QED
    BY <1>9, <1>10, <1>11, <1>12, <1>13, <1>14, <1>16, <2>1
<1>17. QED  BY <1>15, <1>16

\* A claim that Dequeue gave to the feeder is on its way in one place, reaches
\* the reader at most once, or was nacked by the feeder: the hand-overs of the
\* feeder, the feed, the yielder and its results, in any interleaving with the
\* end of ctx, the timeout and the reaper, neither forget nor double one.
THEOREM ClaimInOnePlaceHolds == StreamSpec => []ClaimInOnePlace
<1>1. StreamInv => ClaimInOnePlace
  BY PlacesOfClaim DEF ClaimInOnePlace
<1>2. QED  BY <1>1, StreamInvHolds, PTL
==============================================================================

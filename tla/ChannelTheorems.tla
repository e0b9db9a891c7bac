--------------------------- MODULE ChannelTheorems ---------------------------
(***************************************************************************)
(* Buffered channels, modelled as sequences: what a send and a receive do   *)
(* to the set of values a channel holds, and that no value gets into it     *)
(* twice.                                                                   *)
(***************************************************************************)
EXTENDS Integers, Sequences, SequenceTheorems, TLAPS

\* The values in a channel.
Elems(s) == {s[k] : k \in DOMAIN s}

\* No value is in it twice.
Injective(s) == \A j, k \in DOMAIN s : s[j] = s[k] => j = k

\* A send adds one element at the end of a channel.
LEMMA AppendElems ==
  ASSUME NEW S, NEW s \in Seq(S), NEW e \in S
  PROVE  /\ Append(s, e) \in Seq(S)
         /\ Len(s) \in Nat /\ Len(Append(s, e)) = Len(s) + 1
         /\ Elems(Append(s, e)) = Elems(s) \cup {e}
         /\ Injective(s) /\ e \notin Elems(s) => Injective(Append(s, e))
<1>1. Len(s) \in Nat /\ DOMAIN s = 1 .. Len(s)
  BY LenProperties
<1>2. /\ Append(s, e) \in Seq(S)
      /\ Len(Append(s, e)) = Len(s) + 1
      /\ \A k \in 1 .. Len(s) : Append(s, e)[k] = s[k]
      /\ Append(s, e)[Len(s) + 1] = e
  BY AppendProperties
<1>3. DOMAIN Append(s, e) = 1 .. Len(s) + 1
  BY <1>2, LenProperties
<1>4. Elems(Append(s, e)) = Elems(s) \cup {e}
  BY <1>1, <1>2, <1>3 DEF Elems
<1>5. Injective(s) /\ e \notin Elems(s) => Injective(Append(s, e))
  BY <1>1, <1>2, <1>3 DEF Elems, Injective
<1> QED
  BY <1>1, <1>2, <1>4, <1>5

\* A receive takes the first element and leaves the others.
LEMMA TailElems ==
  ASSUME NEW S, NEW s \in Seq(S), s # <<>>
  PROVE  /\ Head(s) \in S
         /\ Tail(s) \in Seq(S)
         /\ Len(s) \in Nat /\ Len(Tail(s)) = Len(s) - 1 /\ Len(s) >= 1
         /\ Elems(s) = {Head(s)} \cup Elems(Tail(s))
         /\ Injective(s) => Injective(Tail(s)) /\ Head(s) \notin Elems(Tail(s))
<1>1. Len(s) \in Nat /\ DOMAIN s = 1 .. Len(s) /\ Len(s) >= 1
  BY LenProperties, EmptySeq
<1>2. /\ Head(s) \in S /\ Head(s) = s[1]
      /\ Tail(s) \in Seq(S)
      /\ Len(Tail(s)) = Len(s) - 1
      /\ \A k \in 1 .. Len(s) - 1 : Tail(s)[k] = s[k + 1]
  BY <1>1, HeadTailProperties
<1>3. DOMAIN Tail(s) = 1 .. Len(s) - 1
  BY <1>2, LenProperties
<1>4. Elems(s) = {Head(s)} \cup Elems(Tail(s))
  <2>1. \A k \in DOMAIN s : k = 1 \/ k - 1 \in DOMAIN Tail(s)
    BY <1>1, <1>3
  <2>2. Elems(s) \subseteq {Head(s)} \cup Elems(Tail(s))
    BY <1>1, <1>2, <1>3, <2>1 DEF Elems
  <2>3. {Head(s)} \cup Elems(Tail(s)) \subseteq Elems(s)
    BY <1>1, <1>2, <1>3 DEF Elems
  <2> QED
    BY <2>2, <2>3
<1>5. Injective(s) => Injective(Tail(s)) /\ Head(s) \notin Elems(Tail(s))
  BY <1>1, <1>2, <1>3 DEF Elems, Injective
<1> QED
  BY <1>1, <1>2, <1>4, <1>5

\* An empty channel.
LEMMA EmptyElems ==
  /\ \A S : <<>> \in Seq(S)
  /\ Len(<<>>) = 0
  /\ Elems(<<>>) = {}
  /\ Injective(<<>>)
BY DEF Elems, Injective
==============================================================================

----------------------------- MODULE RingProofs -----------------------------
(***************************************************************************)
(* The ring buffer is a bounded queue, for every capacity.                 *)
(***************************************************************************)
EXTENDS Ring, SequenceTheorems, TLAPS

\* Going one slot on wraps round at the end of the array.
LEMMA SuccessorIs ==
  ASSUME NEW i \in Indices
  PROVE  /\ Successor(i) = IF i + 1 = Capacity THEN 0 ELSE i + 1
         /\ Successor(i) \in Indices
  BY RingAssumption DEF Successor, Indices

\* A step of the read index is a step along the slots behind it.
LEMMA BehindSuccessor ==
  ASSUME NEW i \in Indices, NEW n \in 0..(Capacity - 1)
  PROVE  /\ Behind(Successor(i), n) = Behind(i, n + 1)
         /\ Behind(i, n) \in Indices
         /\ Behind(i, 0) = i
  BY SuccessorIs, RingAssumption DEF Behind, Indices

\* Different distances lead to different slots.
LEMMA BehindInjective ==
  ASSUME NEW i \in Indices, NEW m \in Indices, NEW n \in Indices,
         Behind(i, m) = Behind(i, n)
  PROVE  m = n
  BY RingAssumption DEF Behind, Indices

RingInv == RingTypeOK /\ RingAgreement

\* An empty ring is in order.
LEMMA InitInv == RingInit => RingInv
  BY RingAssumption DEF RingInit, RingInv, RingTypeOK, RingAgreement, Behind,
                        Indices

\* The write index reaches exactly the slot behind the last item.
LEMMA PushInv ==
  ASSUME RingInv, NEW item \in Item, Push(item)
  PROVE  RingInv'
<1> USE RingAssumption
<1>1. count \in 0..(Capacity - 1)
  BY DEF RingInv, RingTypeOK, Push, Full
<1>2. writeIndex \in Indices /\ readIndex \in Indices
      /\ writeIndex = Behind(readIndex, count)
  BY DEF RingInv, RingTypeOK, RingAgreement
<1>3. RingTypeOK'
  BY <1>1, <1>2, SuccessorIs DEF RingInv, RingTypeOK, Push
<1>4. writeIndex' = Behind(readIndex', count')
  BY <1>1, <1>2, SuccessorIs DEF Push, Behind, Indices
<1>5. ASSUME NEW i \in Indices
      PROVE  slots'[Behind(readIndex', i)] \in Item <=> i < count'
  <2>1. Behind(readIndex, i) \in Indices
    BY <1>2, BehindSuccessor DEF Indices
  <2>2. CASE i = count
    BY <2>1, <2>2, <1>1, <1>2 DEF Push, RingInv, RingTypeOK
  <2>3. CASE i # count
    <3>1. Behind(readIndex, i) # writeIndex
      BY <2>3, <1>1, <1>2, BehindInjective DEF Indices
    <3>2. slots'[Behind(readIndex, i)] = slots[Behind(readIndex, i)]
      BY <3>1, <2>1 DEF Push, RingInv, RingTypeOK
    <3> QED
      BY <3>2, <2>3, <1>1 DEF Push, RingInv, RingAgreement, Indices
  <2> QED
    BY <2>2, <2>3
<1> QED
  BY <1>3, <1>4, <1>5 DEF RingInv, RingAgreement, Indices

\* Taking the front item moves every other one a place forward.
LEMMA PopInv ==
  ASSUME RingInv, Pop
  PROVE  RingInv'
<1> USE RingAssumption
<1>1. count \in 1..Capacity /\ count' = count - 1
  BY DEF RingInv, RingTypeOK, Pop
<1>2. readIndex \in Indices /\ readIndex' = Successor(readIndex)
      /\ readIndex' \in Indices
  BY SuccessorIs DEF RingInv, RingTypeOK, Pop
<1>3. RingTypeOK'
  BY <1>1, <1>2 DEF RingInv, RingTypeOK, Pop
<1>4. writeIndex' = Behind(readIndex', count')
  <2>1. writeIndex' = Behind(readIndex, count)
    BY DEF Pop, RingInv, RingAgreement
  <2> QED
    BY <2>1, <1>1, <1>2, BehindSuccessor
<1>5. ASSUME NEW i \in Indices
      PROVE  slots'[Behind(readIndex', i)] \in Item <=> i < count'
  <2>1. Behind(readIndex', i) = Behind(readIndex, i + 1)
    BY <1>2, BehindSuccessor DEF Indices
  <2>2. CASE i + 1 = Capacity
    <3>1. Behind(readIndex', i) = readIndex
      BY <2>1, <2>2, <1>2 DEF Behind, Indices
    <3>2. slots'[readIndex] = NoItem
      BY <1>2 DEF Pop, RingInv, RingTypeOK
    <3> QED
      BY <3>1, <3>2, <2>2, <1>1 DEF Indices
  <2>3. CASE i + 1 # Capacity
    <3>1. i + 1 \in Indices
      BY <2>3 DEF Indices
    <3>2. Behind(readIndex, i + 1) # readIndex
      BY <3>1, <1>2 DEF Behind, Indices
    <3>3. Behind(readIndex, i + 1) \in Indices
      BY <1>2, <3>1, BehindSuccessor DEF Indices
    <3>4. slots'[Behind(readIndex', i)] = slots[Behind(readIndex, i + 1)]
      BY <2>1, <3>2, <3>3 DEF Pop, RingInv, RingTypeOK
    <3>5. slots[Behind(readIndex, i + 1)] \in Item <=> i + 1 < count
      BY <3>1 DEF RingInv, RingAgreement
    <3> QED
      BY <3>4, <3>5, <1>1 DEF Indices
  <2> QED
    BY <2>2, <2>3
<1> QED
  BY <1>3, <1>4, <1>5 DEF RingInv, RingAgreement, Indices

\* A flush leaves the ring as it was at the start.
LEMMA FlushInv == Flush => RingInv'
  BY RingAssumption DEF Flush, RingInv, RingTypeOK, RingAgreement, Behind,
                        Indices

\* The ring never loses track of its items: the slots from the read index up to
\* the write index hold one each, and the others none.
THEOREM RingInvariance == RingSpec => []RingInv
<1>1. RingInv /\ [RingNext]_ring => RingInv'
  <2> SUFFICES ASSUME RingInv, [RingNext]_ring PROVE RingInv'
    OBVIOUS
  <2>1. CASE UNCHANGED ring
    BY <2>1 DEF ring, RingInv, RingTypeOK, RingAgreement
  <2>2. CASE RingNext
    BY <2>2, PushInv, PopInv, FlushInv DEF RingNext
  <2> QED
    BY <2>1, <2>2
<1> QED
  BY <1>1, InitInv, PTL DEF RingSpec

\* The contents are a sequence of items, as long as the count says.
LEMMA ContentsIs ==
  ASSUME RingInv
  PROVE  /\ Contents \in Seq(Item)
         /\ Len(Contents) = count
         /\ count \in Nat
<1>1. count \in 0..Capacity
  BY DEF RingInv, RingTypeOK
<1>2. ASSUME NEW i \in 1..count
      PROVE  slots[Behind(readIndex, i - 1)] \in Item
  BY <1>1, <1>2, RingAssumption DEF RingInv, RingAgreement, Indices
<1>3. Contents \in [1..count -> Item]
  BY <1>2 DEF Contents
<1> QED
  BY <1>1, <1>3, RingAssumption

\* The same after a step.
LEMMA ContentsIsNext ==
  ASSUME RingInv'
  PROVE  /\ Contents' \in Seq(Item)
         /\ Len(Contents') = count'
         /\ count' \in Nat
<1>1. count' \in 0..Capacity
  BY DEF RingInv, RingTypeOK
<1>2. ASSUME NEW i \in 1..count'
      PROVE  slots'[Behind(readIndex', i - 1)] \in Item
  BY <1>1, <1>2, RingAssumption DEF RingInv, RingAgreement, Indices
<1>3. Contents' \in [1..count' -> Item]
  BY <1>2 DEF Contents
<1> QED
  BY <1>1, <1>3, RingAssumption

\* A push appends.
LEMMA PushAppends ==
  ASSUME RingInv, NEW item \in Item, Push(item)
  PROVE  Len(Contents) < Capacity /\ Contents' = Append(Contents, item)
<1> USE RingAssumption
<1>1. count \in 0..(Capacity - 1) /\ count' = count + 1
  BY DEF RingInv, RingTypeOK, Push, Full
<1>2. RingInv'
  BY PushInv
<1>3. Contents \in Seq(Item) /\ Len(Contents) = count
  BY ContentsIs
<1>4. readIndex \in Indices /\ readIndex' = readIndex
  BY DEF RingInv, RingTypeOK, Push
<1>5. ASSUME NEW i \in 1..count'
      PROVE  slots'[Behind(readIndex', i - 1)] = Append(Contents, item)[i]
  <2>1. i - 1 \in Indices /\ Behind(readIndex, i - 1) \in Indices
    BY <1>1, <1>4, BehindSuccessor DEF Indices
  <2>2. writeIndex = Behind(readIndex, count) /\ writeIndex \in Indices
    BY DEF RingInv, RingTypeOK, RingAgreement
  <2>3. CASE i = count + 1
    <3>1. slots'[Behind(readIndex', i - 1)] = item
      BY <2>3, <2>2, <1>1, <1>4 DEF Push, RingInv, RingTypeOK
    <3> QED
      BY <3>1, <2>3, <1>3, <1>1
  <2>4. CASE i # count + 1
    <3>1. i \in 1..count /\ count \in Indices
      BY <2>4, <1>1 DEF Indices
    <3>2. Behind(readIndex, i - 1) # writeIndex
      BY <3>1, <2>1, <2>2, <1>4, <1>1, BehindInjective
    <3>3. slots'[Behind(readIndex', i - 1)] = slots[Behind(readIndex, i - 1)]
      BY <3>2, <2>1, <1>4 DEF Push, RingInv, RingTypeOK
    <3>4. Contents[i] = slots[Behind(readIndex, i - 1)]
      BY <3>1 DEF Contents
    <3> QED
      BY <3>1, <3>3, <3>4, <1>3, <1>1
  <2> QED
    BY <2>3, <2>4
<1>6. Contents' \in Seq(Item) /\ Len(Contents') = count'
      /\ \A i \in 1..count' : Contents'[i] = slots'[Behind(readIndex', i - 1)]
  BY <1>2, ContentsIsNext DEF Contents
<1>7. Append(Contents, item) \in Seq(Item)
      /\ Len(Append(Contents, item)) = count'
  BY <1>1, <1>3, AppendProperties
<1>8. Contents' = Append(Contents, item)
  BY <1>5, <1>6, <1>7, SeqEqual
<1> QED
  BY <1>1, <1>3, <1>8

\* A pop takes the first.
LEMMA PopTakes ==
  ASSUME RingInv, Pop
  PROVE  Contents # <<>> /\ Contents' = Tail(Contents)
<1> USE RingAssumption
<1>1. count \in 1..Capacity /\ count' = count - 1
  BY DEF RingInv, RingTypeOK, Pop
<1>2. Contents \in Seq(Item) /\ Len(Contents) = count
  BY ContentsIs
<1>3. readIndex \in Indices /\ readIndex' = Successor(readIndex)
  BY DEF RingInv, RingTypeOK, Pop
<1>4. ASSUME NEW i \in 1..count'
      PROVE  slots'[Behind(readIndex', i - 1)] = Contents[i + 1]
  <2>1. i \in Indices /\ i - 1 \in Indices /\ i \in 1..(Capacity - 1)
    BY <1>1 DEF Indices
  <2>2. Behind(readIndex', i - 1) = Behind(readIndex, i)
    BY <2>1, <1>3, BehindSuccessor DEF Indices
  <2>3. Behind(readIndex, i) # readIndex /\ Behind(readIndex, i) \in Indices
    BY <2>1, <1>3 DEF Behind, Indices
  <2>4. slots'[Behind(readIndex', i - 1)] = slots[Behind(readIndex, i)]
    BY <2>2, <2>3 DEF Pop, RingInv, RingTypeOK
  <2>5. i + 1 \in 1..count /\ (i + 1) - 1 = i
    BY <1>1
  <2> QED
    BY <2>4, <2>5 DEF Contents
<1>5. Contents' \in Seq(Item) /\ Len(Contents') = count'
      /\ \A i \in 1..count' : Contents'[i] = slots'[Behind(readIndex', i - 1)]
  BY PopInv, ContentsIsNext DEF Contents
<1>6. Contents # <<>>
  BY <1>1, <1>2
<1>7. Tail(Contents) \in Seq(Item) /\ Len(Tail(Contents)) = count'
      /\ \A i \in 1..count' : Tail(Contents)[i] = Contents[i + 1]
  BY <1>1, <1>2, <1>6, HeadTailProperties
<1>8. Contents' = Tail(Contents)
  BY <1>4, <1>5, <1>7, SeqEqual
<1> QED
  BY <1>6, <1>8

\* A flush empties.
LEMMA FlushClears == Flush => Contents' = <<>>
  BY DEF Flush, Contents

\* The ring implements the bounded queue for every capacity: no schedule of
\* callback, loop and flush reorders, repeats or invents an item.
THEOREM RingIsFifo == RingSpec => PendingIsFifo
<1>1. RingInit => Fifo!Init
  BY DEF RingInit, Fifo!Init, Contents
<1>2. RingInv /\ [RingNext]_ring => [Fifo!Next]_Contents
  <2> SUFFICES ASSUME RingInv, [RingNext]_ring PROVE [Fifo!Next]_Contents
    OBVIOUS
  <2>1. CASE UNCHANGED ring
    BY <2>1 DEF ring, Contents
  <2>2. ASSUME NEW item \in Item, Push(item) PROVE Fifo!Put
    BY <2>2, PushAppends DEF Fifo!Put
  <2>3. CASE Pop
    BY <2>3, PopTakes DEF Fifo!Next, Fifo!Take
  <2>4. CASE Flush
    BY <2>4, FlushClears DEF Fifo!Next, Fifo!Clear
  <2> QED
    BY <2>1, <2>2, <2>3, <2>4 DEF RingNext, Fifo!Next
<1> QED
  BY <1>1, <1>2, RingInvariance, PTL DEF RingSpec, PendingIsFifo, Fifo!Spec
=============================================================================

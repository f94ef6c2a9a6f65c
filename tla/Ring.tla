-------------------------------- MODULE Ring --------------------------------
(***************************************************************************)
(* The ring buffer behind both queues of BootNormal: a fixed array, the    *)
(* place to read, the place to write and a count, each operation inside    *)
(* one AsyncStateCriticalGuard.  The loop takes items, the MQTT callbacks  *)
(* put them, a disconnection flushes them.                                 *)
(*                                                                         *)
(* A slot that was taken or flushed is empty: the buffers of a message are *)
(* moved out of it; an old packet id left in the array is never read.      *)
(***************************************************************************)
EXTENDS Integers, Sequences

CONSTANTS
  Capacity,  \* PENDING_MQTT_MESSAGE_QUEUE_SIZE, PENDING_MQTT_ACK_QUEUE_SIZE
  Item,      \* what a slot can hold
  NoItem     \* a moved-from slot

\* The static_asserts on the queue sizes.
ASSUME RingAssumption ==
  /\ Capacity \in 1..255
  /\ NoItem \notin Item

VARIABLES slots, readIndex, writeIndex, count

ring == <<slots, readIndex, writeIndex, count>>

Indices == 0..(Capacity - 1)

Successor(index) == (index + 1) % Capacity

RingInit ==
  /\ slots = [i \in Indices |-> NoItem]
  /\ readIndex = 0 /\ writeIndex = 0 /\ count = 0

FullMutant == count > Capacity
Full == count >= Capacity

Push(item) ==
  /\ ~Full
  /\ slots' = [slots EXCEPT ![writeIndex] = item]
  /\ writeIndex' = Successor(writeIndex)
  /\ count' = count + 1
  /\ UNCHANGED readIndex

Oldest == slots[readIndex]

Pop ==
  /\ count > 0
  /\ slots' = [slots EXCEPT ![readIndex] = NoItem]
  /\ readIndex' = Successor(readIndex)
  /\ count' = count - 1
  /\ UNCHANGED writeIndex

FlushMutant ==
  /\ slots' = [i \in Indices |-> NoItem]
  /\ readIndex' = 0 /\ count' = 0
  /\ UNCHANGED writeIndex
Flush ==
  /\ slots' = [i \in Indices |-> NoItem]
  /\ readIndex' = 0 /\ writeIndex' = 0 /\ count' = 0

RingNext == (\E item \in Item : Push(item)) \/ Pop \/ Flush

RingSpec == RingInit /\ [][RingNext]_ring

-----------------------------------------------------------------------------
\* The i-th slot behind an index, going round.
Behind(index, i) ==
  IF index + i < Capacity THEN index + i ELSE index + i - Capacity

\* The items in the order in which they will be taken.
Contents == [i \in 1..count |-> slots[Behind(readIndex, i - 1)]]

Fifo == INSTANCE BoundedQueue WITH queue <- Contents

\* A ring of slots and three counters, written by two tasks and flushed in
\* between, is a bounded first-in first-out queue: nothing is overtaken, handed
\* out twice, or handed out after its slot was emptied.
PendingIsFifo == Fifo!Spec

\* Type invariant: the indices point into the array and the count fits it.
RingTypeOK ==
  /\ slots \in [Indices -> Item \cup {NoItem}]
  /\ readIndex \in Indices /\ writeIndex \in Indices
  /\ count \in 0..Capacity

\* The write index is where the read index will be after `count` items, and the
\* slots between them, and no others, hold an item.
RingAgreement ==
  /\ writeIndex = Behind(readIndex, count)
  /\ \A i \in Indices :
       slots[Behind(readIndex, i)] \in Item <=> i < count
=============================================================================

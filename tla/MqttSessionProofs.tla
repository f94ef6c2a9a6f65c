------------------------- MODULE MqttSessionProofs -------------------------
(***************************************************************************)
(* Theorems about MqttSession, for any firmware, any messages, rings of    *)
(* any size and any number of sessions.                                    *)
(***************************************************************************)
EXTENDS MqttSession, DeviceNodesProofs, RingProofs, FiniteSetTheorems

\* The types in parts: the values an action may have to reason about, the
\* flags, and what TypeOK leaves open.
Chunks == 0..MaxMessages[convention]

LoopOK ==
  /\ pc \in {"event", "acks", "drift", "connect", "take", "handle", "check",
             "session", "publishing"}
  /\ budget \in 0..255
  /\ hand \in Item \cup {NoHand} /\ (pc = "handle" <=> hand # NoHand)
  /\ pc \in {"handle", "check"} => budget > 0

NetOK ==
  /\ client \in {"down", "connecting", "up", "closing"}
  /\ connection \in Nat
  /\ restarting \subseteq {"reset", "reboot"}
  /\ pendingAcks \in 0..AckCapacity

FarewellsOK ==
  /\ offlineAck \in [id : 0..MaxFarewells,
                     state : {"none", "tracked", "acknowledged", "consumed"}]
  /\ farewells \in 0..MaxFarewells
  /\ inFlight \subseteq 1..farewells /\ acked \subseteq 1..farewells

FlagsOK ==
  /\ preallocated \in BOOLEAN /\ mqttEventPending \in BOOLEAN
  /\ mqttDisconnectNotified \in BOOLEAN /\ mqttConnectInProgress \in BOOLEAN
  /\ mqttReconnectTimer \in BOOLEAN /\ mqttConnectNotified \in BOOLEAN
  /\ flaggedForSleep \in BOOLEAN /\ disable \in BOOLEAN

ReceiverOK ==
  /\ convention \in Conventions
  /\ topicValid \in BOOLEAN
  /\ buffer \in Seq(Chunks) /\ Len(buffer) <= MaxPayload
  /\ sent \in Seq([command : DOMAIN Message, connection : Nat])
  /\ Len(sent) <= MaxMessages[convention]
  /\ arriving \in [id : 0..Len(sent), next : Nat]
  /\ drops \in Nat /\ late \in Nat
  /\ dispatched \subseteq DOMAIN sent

Typed == RingInv /\ LoopOK /\ NetOK /\ FarewellsOK /\ FlagsOK /\ ReceiverOK

\* The legs of the session: which flags go with which states of the client, and
\* what a session the loop has not handled yet may have said and received.
LegAgreement ==
  /\ mqttReconnectTimer \/ mqttConnectInProgress => mqttDisconnectNotified
  /\ flaggedForSleep \/ client = "closing" => disable
  /\ client \in {"down", "connecting"} => arriving = NoArrival
  /\ client = "connecting" =>
       /\ mqttDisconnectNotified /\ progress = Start
       /\ pc \in {"event", "acks", "drift", "connect"}
  /\ client = "up" /\ mqttDisconnectNotified =>
       /\ mqttEventPending /\ arriving = NoArrival
       /\ announced = {} \/ (pc = "event" /\ announced = {Device(Init_)})
  /\ mqttDisconnectNotified =>
       /\ progress = Start \/ (pc = "event" /\ mqttEventPending)
       /\ count = 0 \/ (disable /\ client \in {"closing", "down"})

\* A message that is whole, its own, and of the open session.
Genuine(message) ==
  /\ message.id \in DOMAIN sent
  /\ sent[message.id].connection = connection
  /\ Len(message.parts) = MessageOf(message.id).total
  /\ \A k \in 1..MessageOf(message.id).total : message.parts[k] = message.id

\* Nothing that was queued or dispatched is as late as this message.
Latest(id) ==
  /\ \A i \in DOMAIN Contents : Contents[i].id < id
  /\ \A other \in dispatched : other < id

QueueAgreement ==
  /\ \A i \in DOMAIN Contents :
       /\ Genuine(Contents[i])
       /\ \A j \in 1..(i - 1) : Contents[j].id < Contents[i].id
       /\ \A other \in dispatched : other < Contents[i].id
  /\ pc = "handle" =>
       /\ Genuine(hand)
       /\ \A i \in DOMAIN Contents : hand.id < Contents[i].id
       /\ \A other \in dispatched : other < hand.id

\* The message that arrives is the last that was sent, and the buffer, if it is
\* large enough, holds the chunks there have been.
ArrivalAgreement ==
  arriving # NoArrival =>
    /\ arriving.id = Len(sent) /\ sent[arriving.id].connection = connection
    /\ arriving.next \in 2..MessageOf(arriving.id).total
    /\ Latest(arriving.id) /\ hand.id < arriving.id
    /\ topicValid /\ MessageOf(arriving.id).total <= Len(buffer) =>
         \A k \in 1..(arriving.next - 1) : buffer[k] = arriving.id

LateAgreement ==
  /\ late <= 1
  /\ client = "up" \/ pc \in {"take", "handle"} => late = 0

AckAgreement ==
  /\ offlineAck.id = 0 <=> offlineAck.state = "none"
  /\ SleepAckIsExact
  /\ pc = "publishing" => farewells > 0 /\ farewells \notin acked

DropAgreement ==
  /\ \A id \in DOMAIN sent : sent[id].connection <= connection
  /\ DropsAreCounted

AnnouncementAgreement ==
  /\ Reachable(progress)
  /\ announced = Said(progress) \/ (progress = Start /\ client # "up")
  /\ AnnouncedInFull

\* The inductive invariant.
IInv ==
  /\ Typed /\ LegAgreement /\ QueueAgreement /\ ArrivalAgreement
  /\ LateAgreement /\ AckAgreement /\ DropAgreement /\ AnnouncementAgreement

-----------------------------------------------------------------------------
\* The parts say no less than the type invariant.
LEMMA TypedImplies == Typed => TypeOK
  BY DEF Typed, RingInv, TypeOK, LoopOK, NetOK, FarewellsOK, FlagsOK,
     ReceiverOK, Chunks

\* What can be put into the ring: the message and the chunks it is made of.
LEMMA ItemIs ==
  ASSUME NEW c \in Conventions, NEW id \in 1..MaxMessages[c],
         NEW n \in 1..MaxPayload, NEW parts \in [1..n -> 0..MaxMessages[c]]
  PROVE  [id |-> id, parts |-> parts] \in Item
  BY SessionAssumption

\* What is in the ring.
LEMMA ItemHas ==
  ASSUME NEW item \in Item
  PROVE  item.id \in Nat \ {0} /\ item # NoHand
  BY SessionAssumption DEF NoHand

\* The chunks [1..n -> Chunks] that SubSeq takes from the buffer.
LEMMA TakenFrom ==
  ASSUME NEW S, NEW s \in Seq(S), NEW n \in Nat, n <= Len(s)
  PROVE  /\ SubSeq(s, 1, n) \in [1..n -> S]
         /\ Len(SubSeq(s, 1, n)) = n
         /\ \A j \in 1..n : SubSeq(s, 1, n)[j] = s[j]
<1>1. n \in Int /\ 1 \in Int /\ \A i \in 1..n : s[i] \in S
  OBVIOUS
<1>2. /\ SubSeq(s, 1, n) \in Seq(S)
      /\ Len(SubSeq(s, 1, n)) = n
      /\ \A j \in 1..n : SubSeq(s, 1, n)[j] = s[j]
  BY <1>1, SubSeqProperties
<1> QED
  BY <1>2, LenProperties

\* What a chunk leaves in the buffer: itself in its place, if the buffer is large
\* enough, and every earlier chunk where it was.
LEMMA FillEffect ==
  ASSUME Typed, NEW id \in 1..MaxMessages[convention],
         NEW n \in 1..MaxPayload, NEW k \in 1..n, Fill(id, k, n)
  PROVE  /\ buffer' \in Seq(Chunks) /\ Len(buffer') <= MaxPayload
         /\ k > 1 => /\ Len(buffer') = Len(buffer)
                     /\ \A j \in 1..Len(buffer) : j # k => buffer'[j] = buffer[j]
         /\ n <= Len(buffer') => buffer'[k] = id
         /\ \/ Drop
            \/ k < n /\ UNCHANGED <<ring, drops>>
            \/ /\ k = n /\ n <= Len(buffer')
               /\ Enqueue(id, SubSeq(buffer', 1, n))
<1> USE SessionAssumption
<1>1. buffer \in Seq(Chunks) /\ Len(buffer) <= MaxPayload /\ Len(buffer) \in Nat
      /\ id \in Chunks /\ 0 \in Chunks /\ MaxPayload \in Nat
  <2>1. MaxMessages[convention] \in Nat
    BY DEF Typed, ReceiverOK
  <2> QED
    BY <2>1 DEF Typed, ReceiverOK, Chunks
<1>2. PICK room \in Rooms(k, n) :
        IF Len(room) < n THEN buffer' = room /\ Drop
        ELSE /\ buffer' = [room EXCEPT ![k] = id]
             /\ IF k < n THEN UNCHANGED <<ring, drops>>
                         ELSE Enqueue(id, SubSeq(buffer', 1, n))
  BY DEF Fill
<1>3. room \in Seq(Chunks) /\ Len(room) <= MaxPayload /\ Len(room) \in Nat
  <2>1. [i \in 1..n |-> 0] \in Seq(Chunks) /\ Len([i \in 1..n |-> 0]) = n
    BY <1>1
  <2>2. <<>> \in Seq(Chunks) /\ Len(<<>>) = 0
    OBVIOUS
  <2>3. room = [i \in 1..n |-> 0] \/ room = <<>> \/ room = buffer
    BY DEF Rooms
  <2>4. n \in Nat /\ n <= MaxPayload /\ 0 <= MaxPayload
    BY <1>1
  <2>5. CASE room = [i \in 1..n |-> 0]
    BY <2>1, <2>4, <2>5
  <2>6. CASE room = <<>>
    BY <2>2, <2>4, <2>6
  <2>7. CASE room = buffer
    BY <2>7, <1>1
  <2> QED
    BY <2>3, <2>5, <2>6, <2>7
<1>4. k > 1 => room = buffer
  BY DEF Rooms
<1>5. CASE Len(room) < n
  BY <1>2, <1>3, <1>4, <1>5, <1>1
<1>6. CASE ~(Len(room) < n)
  <2>1. buffer' = [room EXCEPT ![k] = id] /\ k \in 1..Len(room)
    BY <1>2, <1>3, <1>6
  <2>2. buffer' \in Seq(Chunks) /\ Len(buffer') = Len(room)
        /\ buffer'[k] = id /\ \A j \in 1..Len(room) : j # k => buffer'[j] = room[j]
    BY <2>1, <1>1, <1>3, ExceptSeq
  <2> QED
    BY <2>1, <2>2, <1>1, <1>2, <1>3, <1>4, <1>6
<1> QED
  BY <1>5, <1>6

\* A message that is put together: its chunks are all of it.
Whole(id, n) ==
  \E item \in Item :
    /\ Push(item)
    /\ item.id = id /\ Len(item.parts) = n
    /\ \A j \in 1..n : item.parts[j] = buffer'[j]

\* What the callback makes of chunk k of a message: the topic and the buffer it
\* leaves, and that a message which does not get into the ring is counted.
MessageHandled(total, id, k) ==
  /\ topicValid' \in BOOLEAN
  /\ buffer' \in Seq(Chunks) /\ Len(buffer') <= MaxPayload
  /\ k > 1 => /\ topicValid' = topicValid
              /\ Len(buffer') = Len(buffer)
              /\ \A j \in 1..Len(buffer) : j # k => buffer'[j] = buffer[j]
  /\ topicValid' /\ k <= total /\ total <= Len(buffer') => buffer'[k] = id
  /\ \/ Drop
     \/ (total = 0 \/ k < total) /\ UNCHANGED <<ring, drops>>
     \/ /\ k = total /\ topicValid' /\ total <= Len(buffer')
        /\ Whole(id, total) /\ UNCHANGED drops

\* It drops the message, waits for the next chunk or puts it into the ring.
LEMMA MessageEffect ==
  ASSUME Typed, NEW command, command.total \in Nat,
         NEW id \in 1..MaxMessages[convention],
         NEW k \in Nat \ {0}, k <= command.total \/ k = 1,
         OnMqttMessage(command, id, k)
  PROVE  MessageHandled(command.total, id, k)
<1> DEFINE n == command.total
<1>1. topicValid \in BOOLEAN /\ buffer \in Seq(Chunks) /\ Len(buffer) <= MaxPayload
      /\ Len(buffer) \in Nat /\ convention \in Conventions
  BY DEF Typed, ReceiverOK
<1>2. MaxPayload \in Nat
  BY SessionAssumption
<1>3. CASE n = 0
  BY <1>1, <1>3 DEF OnMqttMessage, MessageHandled
<1>4. ASSUME n # 0 PROVE /\ topicValid' \in BOOLEAN
                         /\ k > 1 => topicValid' = topicValid
  <2>1. topicValid' \in TopicOutcomes(command, k)
    BY <1>4 DEF OnMqttMessage
  <2>2. CASE k > 1
    BY <2>1, <2>2, <1>1 DEF TopicOutcomes
  <2>3. CASE ~(k > 1)
    <3>1. (~command.longTopic) \in BOOLEAN
      OBVIOUS
    <3> QED
      BY <2>1, <2>3, <3>1 DEF TopicOutcomes
  <2> QED
    BY <2>2, <2>3
<1>5. CASE n # 0 /\ ~(topicValid' /\ n <= MaxPayload)
  <2>1. Drop /\ buffer' = buffer
    BY <1>5 DEF OnMqttMessage
  <2>2. ~(topicValid' /\ n <= Len(buffer'))
    BY <2>1, <1>1, <1>2, <1>5
  <2> QED
    BY <2>1, <2>2, <1>1, <1>4, <1>5 DEF MessageHandled
<1>6. CASE n # 0 /\ topicValid' /\ n <= MaxPayload
  <2>1. n \in 1..MaxPayload /\ k \in 1..n /\ Fill(id, k, n)
    BY <1>2, <1>6 DEF OnMqttMessage
  <2>2. /\ buffer' \in Seq(Chunks) /\ Len(buffer') <= MaxPayload
        /\ k > 1 => /\ Len(buffer') = Len(buffer)
                    /\ \A j \in 1..Len(buffer) : j # k => buffer'[j] = buffer[j]
        /\ n <= Len(buffer') => buffer'[k] = id
        /\ \/ Drop
           \/ k < n /\ UNCHANGED <<ring, drops>>
           \/ /\ k = n /\ n <= Len(buffer')
              /\ Enqueue(id, SubSeq(buffer', 1, n))
    BY <2>1, FillEffect
  <2>3. ASSUME n <= Len(buffer'), Enqueue(id, SubSeq(buffer', 1, n))
        PROVE  Drop \/ (Whole(id, n) /\ UNCHANGED drops)
    <3> DEFINE parts == SubSeq(buffer', 1, n)
    <3>1. /\ parts \in [1..n -> Chunks] /\ Len(parts) = n
          /\ \A j \in 1..n : parts[j] = buffer'[j]
      BY <2>2, <2>3, <2>1, TakenFrom
    <3>2. [id |-> id, parts |-> parts] \in Item
      BY <3>1, <2>1, <1>1, ItemIs DEF Chunks
    <3>3. CASE Push([id |-> id, parts |-> parts]) /\ UNCHANGED drops
      BY <3>1, <3>2, <3>3 DEF Whole
    <3> QED
      BY <2>3, <3>3 DEF Enqueue
  <2> QED
    BY <2>1, <2>2, <2>3, <1>4, <1>6 DEF MessageHandled
<1> QED
  BY <1>3, <1>5, <1>6

\* The first chunk of a message, ...
LEMMA FirstChunkEffect ==
  ASSUME Typed, NEW c \in DOMAIN Message, FirstChunk(c)
  PROVE  /\ Message[c].total \in Nat
         /\ Len(sent) + 1 \in 1..MaxMessages[convention]
         /\ MessageHandled(Message[c].total, Len(sent) + 1, 1)
<1>1. Message[c].total \in Nat /\ MaxMessages[convention] \in Nat
  BY SessionAssumption DEF Typed, ReceiverOK
<1>2. Len(sent) + 1 \in 1..MaxMessages[convention]
  BY <1>1 DEF Typed, ReceiverOK, FirstChunk
<1>3. OnMqttMessage(Message[c], Len(sent) + 1, 1)
  BY DEF FirstChunk
<1> QED
  BY <1>1, <1>2, <1>3, MessageEffect

\* ... and each of the others.
LEMMA NextChunkEffect ==
  ASSUME Typed, ArrivalAgreement, NextChunk
  PROVE  /\ MessageOf(arriving.id).total \in Nat
         /\ arriving.id = Len(sent) /\ arriving.id \in 1..MaxMessages[convention]
         /\ arriving.next \in 2..MessageOf(arriving.id).total
         /\ MessageHandled(MessageOf(arriving.id).total, arriving.id, arriving.next)
<1>1. /\ arriving.id = Len(sent) /\ hand.id < arriving.id
      /\ arriving.next \in 2..MessageOf(arriving.id).total
      /\ OnMqttMessage(MessageOf(arriving.id), arriving.id, arriving.next)
  BY DEF NextChunk, ArrivalAgreement
<1>2. hand.id \in Nat
  BY ItemHas DEF Typed, LoopOK, NoHand
<1>3. /\ MaxMessages[convention] \in Nat /\ Len(sent) <= MaxMessages[convention]
      /\ sent \in Seq([command : DOMAIN Message, connection : Nat])
  BY SessionAssumption DEF Typed, ReceiverOK
<1>4. arriving.id \in 1..MaxMessages[convention] /\ arriving.id \in 1..Len(sent)
  BY <1>1, <1>2, <1>3
<1>5. MessageOf(arriving.id).total \in Nat
  <2>1. sent[arriving.id] \in [command : DOMAIN Message, connection : Nat]
    BY <1>3, <1>4, ElementOfSeq
  <2> QED
    BY <2>1, SessionAssumption DEF MessageOf
<1> QED
  BY <1>1, <1>4, <1>5, MessageEffect

\* Every step of the session leaves the ring alone or is one of its own.
LEMMA RingStep ==
  ASSUME Typed, ArrivalAgreement, [Next]_vars
  PROVE  [RingNext]_ring
<1>1. CASE UNCHANGED vars
  BY <1>1 DEF vars
<1>2. CASE LoopStep
  <2>1. CASE Restart \/ CheckSession
    BY <2>1 DEF Restart, CheckSession, RingNext
  <2>2. CASE MqttEvent \/ Drift
    BY <2>2 DEF MqttEvent, Drift, HandleMqttConnected, HandleMqttDisconnected,
        SessionOver, RingNext
  <2>3. CASE Connect
    BY <2>3 DEF Connect, HandleMqttConnected
  <2>4. CASE Take
    BY <2>4 DEF Take, RingNext
  <2>5. CASE TakeAck \/ FinishNotifications \/ Online \/ Handle \/ HandleFails
             \/ Advertise \/ AnnounceReady \/ PublishSleeping \/ Track
             \/ NothingToSay \/ PrepareToSleep
    BY <2>5 DEF TakeAck, FinishNotifications, Online, Handle, HandleFails,
        Advertise, AnnounceReady, PublishSleeping, Track, NothingToSay,
        PrepareToSleep
  <2> QED
    BY <1>2, <2>1, <2>2, <2>3, <2>4, <2>5 DEF LoopStep
<1>3. CASE ClientStep
  <2>1. CASE ClientUp \/ ClientDown \/ OnOtherPublish
             \/ \E id \in inFlight : OnMqttPublish(id)
    BY <2>1 DEF ClientUp, ClientDown, OnOtherPublish, OnMqttPublish
  <2>2. ASSUME NEW c \in DOMAIN Message, FirstChunk(c) PROVE [RingNext]_ring
    BY <2>2, FirstChunkEffect DEF MessageHandled, Whole, Drop, RingNext
  <2>3. CASE NextChunk
    BY <2>3, NextChunkEffect DEF MessageHandled, Whole, Drop, RingNext
  <2> QED
    BY <1>3, <2>1, <2>2, <2>3 DEF ClientStep
<1> QED
  BY <1>1, <1>2, <1>3 DEF Next

\* ... hence the ring stays in order.
LEMMA RingInvStep ==
  ASSUME Typed, ArrivalAgreement, [Next]_vars
  PROVE  RingInv'
<1>1. RingInv /\ [RingNext]_ring
  BY RingStep DEF Typed
<1>2. CASE UNCHANGED ring
  BY <1>1, <1>2 DEF ring, RingInv, RingTypeOK, RingAgreement
<1>3. CASE RingNext
  BY <1>1, <1>3, PushInv, PopInv, FlushInv DEF RingNext
<1> QED
  BY <1>1, <1>2, <1>3

\* The types are kept, part by part.
LEMMA FlagsStep ==
  ASSUME FlagsOK, [Next]_vars
  PROVE  FlagsOK'
<1> USE DEF FlagsOK
<1>1. CASE UNCHANGED vars
  BY <1>1 DEF vars, build, leg, control
<1>2. CASE LoopStep
  <2>1. CASE Restart
    BY <2>1 DEF Restart, build
  <2>2. CASE MqttEvent
    BY <2>2 DEF MqttEvent, HandleMqttConnected, HandleMqttDisconnected, build,
        leg, control
  <2>3. CASE Drift
    BY <2>3 DEF Drift, HandleMqttConnected, HandleMqttDisconnected, build, leg,
        control
  <2>4. CASE Connect
    BY <2>4 DEF Connect, HandleMqttConnected, build, leg, control
  <2>5. CASE TakeAck \/ Online \/ Take \/ HandleFails \/ CheckSession \/ Advertise
             \/ PublishSleeping \/ NothingToSay
    BY <2>5 DEF TakeAck, Online, Take, HandleFails, CheckSession, Advertise,
        PublishSleeping, NothingToSay, build, leg, control
  <2>6. CASE FinishNotifications \/ AnnounceReady \/ Track
    BY <2>6 DEF FinishNotifications, AnnounceReady, Track, build, control
  <2>7. CASE Handle
    BY <2>7 DEF Handle, Obey, build, leg
  <2>8. CASE PrepareToSleep
    BY <2>8 DEF PrepareToSleep, build, leg
  <2> QED
    BY <1>2, <2>1, <2>2, <2>3, <2>4, <2>5, <2>6, <2>7, <2>8 DEF LoopStep
<1>3. CASE ClientStep
  <2>1. CASE ClientUp \/ ClientDown \/ OnOtherPublish
    BY <2>1 DEF ClientUp, ClientDown, OnOtherPublish, loopState, build, leg,
        control
  <2>2. ASSUME NEW id \in inFlight, OnMqttPublish(id) PROVE FlagsOK'
    BY <2>2 DEF OnMqttPublish, build, control
  <2>3. ASSUME NEW c \in DOMAIN Message, FirstChunk(c) PROVE FlagsOK'
    BY <2>3 DEF FirstChunk, receiver, loopState, build, leg, control
  <2>4. CASE NextChunk
    BY <2>4 DEF NextChunk, receiver, loopState, build, leg, control
  <2> QED
    BY <1>3, <2>1, <2>2, <2>3, <2>4 DEF ClientStep
<1> QED
  BY <1>1, <1>2, <1>3 DEF Next

\* What the loop takes is in the ring.
LEMMA TakenIsItem ==
  ASSUME RingInv, count > 0
  PROVE  Oldest \in Item /\ Oldest = Contents[1] /\ 1 \in DOMAIN Contents
<1>1. /\ count \in 1..Capacity /\ 0 \in Indices /\ Behind(readIndex, 0) = readIndex
  BY RingAssumption, BehindSuccessor DEF RingInv, RingTypeOK, Indices
<1>2. slots[readIndex] \in Item
  BY <1>1 DEF RingInv, RingAgreement
<1> QED
  BY <1>1, <1>2 DEF Oldest, Contents

\* The place of the loop and what it holds, ...
LEMMA LoopValuesStep ==
  ASSUME RingInv, LoopOK, [Next]_vars
  PROVE  LoopOK'
<1> USE DEF LoopOK
<1>0. AcksPerLoop \in 0..255 /\ MessagesPerLoop \in 0..255
  BY SessionAssumption
<1>1. CASE UNCHANGED vars
  BY <1>1 DEF vars
<1>2. CASE LoopStep
  <2>1. CASE Restart
    BY <2>1 DEF Restart
  <2>2. CASE MqttEvent
    BY <1>0, <2>2 DEF MqttEvent
  <2>3. CASE Drift
    BY <2>3 DEF Drift
  <2>4. CASE Connect
    BY <2>4 DEF Connect
  <2>5. CASE Online
    BY <1>0, <2>5 DEF Online
  <2>6. CASE Take
    <3>1. count > 0 => Oldest \in Item /\ Oldest # NoHand
      BY TakenIsItem, ItemHas
    <3>2. CASE budget > 0 /\ count > 0
      BY <2>6, <3>1, <3>2 DEF Take
    <3>3. CASE ~(budget > 0 /\ count > 0)
      BY <2>6, <3>3 DEF Take
    <3> QED
      BY <3>2, <3>3
  <2>7. CASE TakeAck
    BY <2>7 DEF TakeAck
  <2>8. CASE FinishNotifications
    BY <2>8 DEF FinishNotifications
  <2>9. CASE Handle \/ HandleFails
    BY <2>9 DEF Handle, HandleFails
  <2>10. CASE CheckSession
    <3>1. CASE Connected
      BY <2>10, <3>1 DEF CheckSession
    <3>2. CASE ~Connected
      BY <2>10, <3>2 DEF CheckSession
    <3> QED
      BY <3>1, <3>2
  <2>11. CASE Advertise \/ AnnounceReady \/ NothingToSay \/ PrepareToSleep
    BY <2>11 DEF Advertise, AnnounceReady, NothingToSay, PrepareToSleep
  <2>12. CASE PublishSleeping \/ Track
    BY <2>12 DEF PublishSleeping, Track
  <2> QED
    BY <1>2, <2>1, <2>2, <2>3, <2>4, <2>5, <2>6, <2>7, <2>8, <2>9, <2>10,
       <2>11, <2>12 DEF LoopStep
<1>3. CASE ClientStep
  <2>1. ASSUME UNCHANGED <<pc, budget, hand>> PROVE LoopOK'
    BY <2>1
  <2> QED
    BY <1>3, <2>1 DEF ClientStep, ClientUp, ClientDown, OnOtherPublish,
        OnMqttPublish, FirstChunk, NextChunk, receiver, loopState
<1> QED
  BY <1>1, <1>2, <1>3 DEF Next

\* ... the state of the client, ...
LEMMA NetStep ==
  ASSUME NetOK, [Next]_vars
  PROVE  NetOK'
<1> USE DEF NetOK
<1>0. AckCapacity \in Nat
  BY SessionAssumption
<1>1. CASE UNCHANGED vars
  BY <1>1 DEF vars, net, control
<1>2. CASE LoopStep
  <2>1. CASE Restart
    BY <1>0, <2>1 DEF Restart
  <2>2. CASE Connect
    BY <2>2 DEF Connect, control
  <2>3. CASE TakeAck
    BY <1>0, <2>3 DEF TakeAck, net, control
  <2>4. CASE FinishNotifications
    BY <2>4 DEF FinishNotifications, AfterDisconnect, control
  <2>5. CASE Handle
    <3>1. restarting' \subseteq {"reset", "reboot"}
      BY <2>5 DEF Handle, Obey
    <3> QED
      BY <2>5, <3>1 DEF Handle, net
  <2>6. ASSUME UNCHANGED <<net, restarting, pendingAcks>> PROVE NetOK'
    BY <2>6 DEF net
  <2> QED
    BY <1>2, <2>1, <2>2, <2>3, <2>4, <2>5, <2>6 DEF LoopStep, MqttEvent, Drift,
        Online, Take, HandleFails, CheckSession, Advertise, AnnounceReady,
        PublishSleeping, Track, NothingToSay, PrepareToSleep, control
<1>3. CASE ClientStep
  <2>1. CASE ClientUp \/ ClientDown
    <3>1. client' \in {"up", "down"} /\ connection' \in {connection, connection + 1}
      BY <2>1 DEF ClientUp, ClientDown
    <3>2. UNCHANGED <<restarting, pendingAcks>>
      BY <2>1 DEF ClientUp, ClientDown, loopState, control
    <3> QED
      BY <3>1, <3>2
  <2>2. CASE OnOtherPublish
    BY <1>0, <2>2 DEF OnOtherPublish, EnqueueAck, loopState, net, control
  <2>3. ASSUME NEW id \in inFlight, OnMqttPublish(id) PROVE NetOK'
    BY <1>0, <2>3 DEF OnMqttPublish, EnqueueAck, net, control
  <2>4. ASSUME UNCHANGED <<net, restarting, pendingAcks>> PROVE NetOK'
    BY <2>4 DEF net
  <2> QED
    BY <1>3, <2>1, <2>2, <2>3, <2>4 DEF ClientStep, FirstChunk, NextChunk,
        receiver, loopState, control
<1> QED
  BY <1>1, <1>2, <1>3 DEF Next

\* ... the farewells and their acknowledgement, ...
LEMMA FarewellsStep ==
  ASSUME FarewellsOK, [Next]_vars
  PROVE  FarewellsOK'
<1> USE DEF FarewellsOK
<1>0. MaxFarewells \in Nat
  BY SessionAssumption
<1>1. CASE UNCHANGED vars
  BY <1>1 DEF vars, leg, farewell
<1>2. CASE LoopStep
  <2>1. CASE Restart
    BY <1>0, <2>1 DEF Restart, NotTracked
  <2>2. CASE MqttEvent
    <3>1. UNCHANGED farewell /\ offlineAck' \in {offlineAck, NotTracked}
      BY <2>2 DEF MqttEvent, HandleMqttConnected, HandleMqttDisconnected, leg
    <3> QED
      BY <1>0, <3>1 DEF farewell, NotTracked
  <2>7. CASE Drift
    <3>1. UNCHANGED farewell /\ offlineAck' \in {offlineAck, NotTracked}
      BY <2>7 DEF Drift, HandleMqttConnected, HandleMqttDisconnected, leg
    <3> QED
      BY <1>0, <3>1 DEF farewell, NotTracked
  <2>3. CASE Connect
    BY <2>3 DEF Connect, HandleMqttConnected, leg, farewell
  <2>4. CASE FinishNotifications \/ Track
    BY <1>0, <2>4 DEF FinishNotifications, Track, farewell
  <2>5. CASE PublishSleeping
    <3>1. CASE Connected
      <4>1. /\ farewells < MaxFarewells /\ farewells' = farewells + 1
            /\ inFlight' = inFlight \cup {farewells'}
            /\ acked' = acked /\ offlineAck' = offlineAck
        BY <2>5, <3>1 DEF PublishSleeping, leg
      <4> QED
        BY <1>0, <4>1
    <3>2. CASE ~Connected
      BY <2>5, <3>2 DEF PublishSleeping, leg
    <3> QED
      BY <3>1, <3>2
  <2>6. CASE TakeAck \/ Online \/ Take \/ Handle \/ HandleFails \/ CheckSession
             \/ Advertise \/ AnnounceReady \/ NothingToSay \/ PrepareToSleep
    BY <2>6 DEF TakeAck, Online, Take, Handle, HandleFails, CheckSession,
        Advertise, AnnounceReady, NothingToSay, PrepareToSleep, leg, farewell
  <2> QED
    BY <1>2, <2>1, <2>2, <2>3, <2>4, <2>5, <2>6, <2>7 DEF LoopStep
<1>3. CASE ClientStep
  <2>1. CASE ClientUp \/ ClientDown \/ OnOtherPublish
    BY <2>1 DEF ClientUp, ClientDown, OnOtherPublish, loopState, leg, farewell
  <2>2. ASSUME NEW id \in inFlight, OnMqttPublish(id) PROVE FarewellsOK'
    BY <2>2 DEF OnMqttPublish, Acknowledged
  <2>3. ASSUME NEW c \in DOMAIN Message, FirstChunk(c) PROVE FarewellsOK'
    BY <2>3 DEF FirstChunk, receiver, loopState, leg, farewell
  <2>4. CASE NextChunk
    BY <2>4 DEF NextChunk, receiver, loopState, leg, farewell
  <2> QED
    BY <1>3, <2>1, <2>2, <2>3, <2>4 DEF ClientStep
<1> QED
  BY <1>1, <1>2, <1>3 DEF Next

\* What the receiver and the tally of what became of the messages are made of.
receiverState == <<build, topicValid, buffer, arriving, sent, drops, dispatched,
                   late>>

\* ... and what the callbacks write.
LEMMA ReceiverStep ==
  ASSUME Typed, ArrivalAgreement, QueueAgreement, [Next]_vars
  PROVE  ReceiverOK'
<1>0. ReceiverOK /\ NoArrival \in [id : 0..Len(sent), next : Nat]
  BY DEF Typed, NoArrival, ReceiverOK
<1>1. ASSUME UNCHANGED receiverState PROVE ReceiverOK'
  BY <1>0, <1>1 DEF receiverState, build, ReceiverOK, Chunks
<1>2. CASE UNCHANGED vars
  BY <1>1, <1>2 DEF vars, inbound, told, receiverState
<1>3. CASE LoopStep
  <2>1. CASE Restart
    <3>1. /\ topicValid' = FALSE /\ buffer' = EmptyBuffer
          /\ arriving' = NoArrival
          /\ UNCHANGED <<build, sent, drops, dispatched, late>>
      BY <2>1 DEF Restart, told
    <3>2. EmptyBuffer' = EmptyBuffer
      BY <3>1 DEF EmptyBuffer, build
    <3>3. EmptyBuffer \in Seq(Chunks) /\ Len(EmptyBuffer) <= MaxPayload
      <4>1. MaxPayload \in Nat /\ 0 \in Chunks
        BY SessionAssumption DEF Typed, ReceiverOK, Chunks
      <4>2. CASE preallocated
        BY <4>1, <4>2 DEF EmptyBuffer
      <4>3. CASE ~preallocated
        BY <4>1, <4>3 DEF EmptyBuffer
      <4> QED
        BY <4>2, <4>3
    <3> QED
      BY <3>1, <3>3, <1>0 DEF ReceiverOK, build, Chunks
  <2>2. CASE Handle
    <3>1. hand.id \in DOMAIN sent
      BY <2>2 DEF Handle, QueueAgreement, Genuine
    <3>2. /\ dispatched' = dispatched \cup {hand.id} /\ late' \in {late, late + 1}
          /\ UNCHANGED <<build, topicValid, buffer, arriving, sent, drops>>
      BY <2>2 DEF Handle, inbound
    <3> QED
      BY <3>1, <3>2, <1>0 DEF ReceiverOK, build, Chunks
  <2>3. CASE HandleFails
    BY <2>3, <1>0 DEF HandleFails, inbound, told, ReceiverOK, build, Chunks
  <2> QED
    BY <1>1, <1>3, <2>1, <2>2, <2>3 DEF LoopStep, MqttEvent, TakeAck,
       FinishNotifications, Drift, Connect, Online, Take, CheckSession, Advertise,
       AnnounceReady, PublishSleeping, Track, NothingToSay, PrepareToSleep,
       inbound, told, receiverState
<1>4. CASE ClientStep
  <2>1. CASE ClientUp
    BY <2>1, <1>0 DEF ClientUp, loopState, inbound, ReceiverOK, build, Chunks
  <2>2. CASE ClientDown
    BY <2>2, <1>0 DEF ClientDown, loopState, told, ReceiverOK, build, Chunks
  <2>3. ASSUME NEW c \in DOMAIN Message, FirstChunk(c) PROVE ReceiverOK'
    <3>1. MessageHandled(Message[c].total, Len(sent) + 1, 1)
          /\ Len(sent) + 1 \in 1..MaxMessages[convention]
      BY <2>3, FirstChunkEffect
    <3>2. /\ sent' = Append(sent, [command |-> c, connection |-> connection])
          /\ arriving' = IF Message[c].total > 1
                           THEN [id |-> Len(sent) + 1, next |-> 2] ELSE NoArrival
          /\ UNCHANGED <<build, dispatched, late>>
      BY <2>3 DEF FirstChunk, receiver, loopState, told
    <3>3. /\ topicValid' \in BOOLEAN /\ buffer' \in Seq(Chunks)
          /\ Len(buffer') <= MaxPayload /\ drops' \in {drops, drops + 1}
      BY <3>1 DEF MessageHandled, Drop
    <3>4. [command |-> c, connection |-> connection]
            \in [command : DOMAIN Message, connection : Nat]
      BY DEF Typed, NetOK
    <3>5. /\ sent' \in Seq([command : DOMAIN Message, connection : Nat])
          /\ Len(sent') = Len(sent) + 1 /\ Len(sent) \in Nat
          /\ DOMAIN sent = 1..Len(sent) /\ DOMAIN sent' = 1..Len(sent')
      BY <3>2, <3>4, <1>0, AppendProperties DEF ReceiverOK
    <3>6. arriving' \in [id : 0..Len(sent'), next : Nat]
      BY <3>2, <3>5 DEF NoArrival
    <3> QED
      BY <3>1, <3>2, <3>3, <3>5, <3>6, <1>0 DEF ReceiverOK, build, Chunks
  <2>4. CASE NextChunk
    <3>1. MessageHandled(MessageOf(arriving.id).total, arriving.id, arriving.next)
      BY <2>4, NextChunkEffect
    <3>2. /\ arriving' \in {[arriving EXCEPT !.next = @ + 1], NoArrival}
          /\ UNCHANGED <<build, sent, dispatched, late>>
      BY <2>4 DEF NextChunk, receiver, loopState, told
    <3>3. /\ topicValid' \in BOOLEAN /\ buffer' \in Seq(Chunks)
          /\ Len(buffer') <= MaxPayload /\ drops' \in {drops, drops + 1}
      BY <3>1 DEF MessageHandled, Drop
    <3>4. arriving' \in [id : 0..Len(sent), next : Nat]
      BY <3>2, <1>0 DEF ReceiverOK, NoArrival
    <3> QED
      BY <3>2, <3>3, <3>4, <1>0 DEF ReceiverOK, build, Chunks
  <2> QED
    BY <1>1, <1>4, <2>1, <2>2, <2>3, <2>4 DEF ClientStep, OnOtherPublish,
       OnMqttPublish, loopState, inbound, told, receiverState
<1> QED
  BY <1>2, <1>3, <1>4 DEF Next

\* Before the loop has handled a session it makes at most the first call.
LEMMA EarlyCall ==
  ASSUME convention \in Conventions, progress = Start,
         NEW connected \in BOOLEAN, AdvertiseCall(connected)
  PROVE  \/ UNCHANGED advertisement
         \/ connected /\ announced' = announced \cup {Device(Init_)}
  BY StartSaysInit DEF AdvertiseCall

\* The flags go with the state of the client whatever two steps do in turn.
LEMMA LegStep ==
  ASSUME Typed, LegAgreement, [Next]_vars
  PROVE  LegAgreement'
<1> USE DEF LegAgreement
<1>0. FlagsOK /\ convention \in Conventions
      /\ client \in {"down", "connecting", "up", "closing"}
  BY DEF Typed, NetOK, ReceiverOK
<1>1. CASE UNCHANGED vars
  BY <1>1 DEF vars, ring, advertisement, net, leg, control, inbound
<1>2. CASE LoopStep
  <2>1. CASE Restart
    BY <2>1 DEF Restart, Flush
  <2>2. CASE MqttEvent
    <3>1. CASE ~mqttEventPending
      BY <1>0, <2>2, <3>1 DEF MqttEvent, FlagsOK, ring, advertisement, net, leg,
         control, inbound
    <3>2. CASE mqttEventPending /\ Connected
      BY <1>0, <2>2, <3>2 DEF MqttEvent, HandleMqttConnected, FlagsOK, ring,
         advertisement, net, leg, control, inbound, Connected
    <3>3. CASE mqttEventPending /\ ~Connected
      BY <1>0, <2>2, <3>3 DEF MqttEvent, HandleMqttDisconnected, SessionOver,
         Flush, FlagsOK, net, control, inbound, Connected
    <3> QED
      BY <1>0, <3>1, <3>2, <3>3 DEF FlagsOK
  <2>3. CASE Drift
    <3>1. CASE Connected /\ (mqttDisconnectNotified \/ mqttConnectInProgress)
      BY <1>0, <2>3, <3>1 DEF Drift, HandleMqttConnected, FlagsOK, ring,
         advertisement, net, leg, control, inbound, Connected
    <3>2. CASE ~Connected /\ ~mqttDisconnectNotified
      BY <1>0, <2>3, <3>2 DEF Drift, HandleMqttDisconnected, SessionOver,
         Flush, FlagsOK, net, control, inbound, Connected
    <3>3. CASE ~(Connected /\ (mqttDisconnectNotified \/ mqttConnectInProgress))
               /\ ~(~Connected /\ ~mqttDisconnectNotified)
      BY <1>0, <2>3, <3>3 DEF Drift, FlagsOK, ring, advertisement, net, leg,
         control, inbound, Connected
    <3> QED
      BY <3>1, <3>2, <3>3
  <2>4. CASE Connect
    <3>1. CASE disable
      BY <1>0, <2>4, <3>1 DEF Connect, FlagsOK, ring, advertisement, net, leg,
         control, inbound
    <3>2. CASE ~disable /\ Connected
      BY <1>0, <2>4, <3>2 DEF Connect, HandleMqttConnected, FlagsOK, ring,
         advertisement, net, leg, control, inbound, Connected
    <3>3. CASE ~disable /\ ~Connected
      BY <1>0, <2>4, <3>3 DEF Connect, FlagsOK, ring, advertisement, net, leg,
         control, inbound, Connected
    <3> QED
      BY <1>0, <3>1, <3>2, <3>3 DEF FlagsOK
  <2>5. CASE Take
    BY <1>0, <2>5 DEF Take, Pop, FlagsOK, ring, advertisement, net, leg, control,
       inbound
  <2>6. CASE CheckSession
    BY <1>0, <2>6 DEF CheckSession, Flush, FlagsOK, ring, advertisement, net, leg,
       control, inbound, Connected
  <2>7. CASE FinishNotifications
    BY <1>0, <2>7 DEF FinishNotifications, AfterDisconnect, FlagsOK, ring,
       advertisement, net, control, inbound
  <2>8. CASE Advertise
    <3>1. CASE mqttDisconnectNotified
      <4>1. progress = Start /\ pc = "session" /\ (Connected) \in BOOLEAN
        BY <2>8, <3>1 DEF Advertise, Connected
      <4>2. \/ UNCHANGED advertisement
            \/ Connected /\ announced' = announced \cup {Device(Init_)}
        BY <1>0, <2>8, <4>1, EarlyCall DEF Advertise
      <4> QED
        BY <1>0, <2>8, <3>1, <4>1, <4>2 DEF Advertise, FlagsOK, ring,
           advertisement, net, leg, control, inbound, Connected
    <3>2. CASE ~mqttDisconnectNotified
      BY <1>0, <2>8, <3>2 DEF Advertise, FlagsOK, ring, net, leg, control, inbound
    <3> QED
      BY <3>1, <3>2
  <2>9. CASE Handle
    BY <1>0, <2>9 DEF Handle, Obey, FlagsOK, ring, advertisement, net, leg, inbound
  <2>10. CASE PrepareToSleep
    BY <1>0, <2>10 DEF PrepareToSleep, FlagsOK, ring, advertisement, net, leg, inbound
  <2>11. CASE TakeAck \/ Online \/ HandleFails \/ PublishSleeping \/ NothingToSay
    BY <1>0, <2>11 DEF TakeAck, Online, HandleFails, PublishSleeping, NothingToSay,
       FlagsOK, ring, advertisement, net, leg, control, inbound, Connected
  <2>12. CASE AnnounceReady \/ Track
    BY <1>0, <2>12 DEF AnnounceReady, Track, FlagsOK, ring, advertisement, net,
       control, inbound
  <2> QED
    BY <1>2, <2>1, <2>2, <2>3, <2>4, <2>5, <2>6, <2>7, <2>8, <2>9, <2>10,
       <2>11, <2>12 DEF LoopStep
<1>3. CASE ClientStep
  <2>1. CASE ClientUp
    BY <1>0, <2>1 DEF ClientUp, FlagsOK, ring, loopState, leg, control, inbound
  <2>2. CASE ClientDown
    BY <1>0, <2>2 DEF ClientDown, FlagsOK, ring, loopState, advertisement, leg,
       control
  <2>3. CASE OnOtherPublish
    BY <1>0, <2>3 DEF OnOtherPublish, FlagsOK, ring, loopState, advertisement,
       net, leg, control, inbound
  <2>4. ASSUME NEW id \in inFlight, OnMqttPublish(id) PROVE LegAgreement'
    BY <1>0, <2>4 DEF OnMqttPublish, FlagsOK, ring, advertisement, net, control,
       inbound
  <2>5. ASSUME NEW c \in DOMAIN Message, FirstChunk(c) PROVE LegAgreement'
    <3>1. /\ client \in {"up", "closing"}
          /\ ~(client = "up" /\ mqttDisconnectNotified)
          /\ UNCHANGED <<advertisement, net, leg, control, mqttEventPending, pc>>
      <4>1. Message[c].kind \in {"reset", "config", "set", "broadcast"}
        BY <2>5, SessionAssumption
      <4>2. FilterOf(Message[c]) # Init_
        BY <4>1 DEF FilterOf, Init_
      <4>3. Device(FilterOf(Message[c])) # Device(Init_)
        BY <4>2 DEF Device
      <4> QED
        BY <2>5, <4>3 DEF FirstChunk, Subscribed, receiver, loopState
    <3> QED
      BY <1>0, <3>1 DEF FlagsOK, advertisement, net, leg, control
  <2>6. CASE NextChunk
    <3>1. /\ client \in {"up", "closing"}
          /\ ~(client = "up" /\ mqttDisconnectNotified)
          /\ UNCHANGED <<advertisement, net, leg, control, mqttEventPending, pc>>
      BY <2>6 DEF NextChunk, receiver, loopState
    <3> QED
      BY <1>0, <3>1 DEF FlagsOK, advertisement, net, leg, control
  <2> QED
    BY <1>3, <2>1, <2>2, <2>3, <2>4, <2>5, <2>6 DEF ClientStep
<1> QED
  BY <1>1, <1>2, <1>3 DEF Next

\* The contents before and after, and the message in the loop's hands.
LEMMA QueueIs ==
  ASSUME Typed
  PROVE  /\ Contents \in Seq(Item) /\ Len(Contents) = count /\ count \in Nat
         /\ DOMAIN Contents = 1..count
         /\ \A i \in 1..count : Contents[i] \in Item /\ Contents[i].id \in Nat \ {0}
         /\ hand.id \in Nat
<1>1. /\ Contents \in Seq(Item) /\ Len(Contents) = count /\ count \in Nat
      /\ DOMAIN Contents = 1..count
      /\ \A i \in 1..count : Contents[i] \in Item
  BY ContentsIs DEF Typed
<1>2. hand.id \in Nat
  BY ItemHas DEF Typed, LoopOK, NoHand
<1> QED
  BY <1>1, <1>2, ItemHas

\* What a step does to the queue, as seen by the message it is about.
queueState == <<ring, hand, dispatched, sent, connection>>

\* A step that leaves the queue and the message in hand alone.
LEMMA QueueFrame ==
  ASSUME QueueAgreement, UNCHANGED queueState, pc' = "handle" => pc = "handle"
  PROVE  QueueAgreement'
<1>1. UNCHANGED Contents
  BY DEF queueState, ring, Contents
<1> QED
  BY <1>1 DEF queueState, QueueAgreement, Genuine, MessageOf

\* An empty queue.
LEMMA QueueFlushed ==
  ASSUME Flush, pc' # "handle"
  PROVE  QueueAgreement'
<1>1. DOMAIN Contents' = {}
  BY DEF Flush, Contents
<1> QED
  BY <1>1 DEF QueueAgreement

\* The loop takes the oldest message.
LEMMA QueueTaken ==
  ASSUME Typed, QueueAgreement, Take
  PROVE  QueueAgreement'
<1>1. CASE budget > 0 /\ count > 0
  <2>1. /\ Pop /\ hand' = Oldest /\ Oldest = Contents[1]
        /\ UNCHANGED <<sent, connection, dispatched>>
    BY <1>1, TakenIsItem DEF Take, Typed, net, inbound, told
  <2>2. Contents # <<>> /\ Contents' = Tail(Contents)
    BY <2>1, PopTakes DEF Typed
  <2>3. /\ DOMAIN Contents' = 1..(count - 1)
        /\ \A i \in 1..(count - 1) : Contents'[i] = Contents[i + 1]
        /\ DOMAIN Contents = 1..count /\ count \in Nat
    BY <2>2, QueueIs, HeadTailProperties
  <2>4. ASSUME NEW i \in DOMAIN Contents'
        PROVE  /\ Genuine(Contents[i])'
               /\ \A j \in 1..(i - 1) : Contents'[j].id < Contents'[i].id
               /\ \A other \in dispatched : other < Contents'[i].id
               /\ hand'.id < Contents'[i].id
    <3>1. i + 1 \in DOMAIN Contents /\ Contents'[i] = Contents[i + 1]
          /\ 1 \in 1..((i + 1) - 1)
      BY <2>3, <2>4
    <3>2. /\ Genuine(Contents[i + 1])
          /\ \A j \in 1..((i + 1) - 1) : Contents[j].id < Contents[i + 1].id
          /\ \A other \in dispatched : other < Contents[i + 1].id
      BY <3>1 DEF QueueAgreement
    <3>3. Genuine(Contents[i])'
      BY <2>1, <3>1, <3>2 DEF Genuine, MessageOf
    <3>4. ASSUME NEW j \in 1..(i - 1) PROVE Contents'[j].id < Contents'[i].id
      <4>1. j + 1 \in 1..((i + 1) - 1) /\ Contents'[j] = Contents[j + 1]
        BY <2>3, <2>4, <3>4
      <4> QED
        BY <3>1, <3>2, <4>1
    <3> QED
      BY <2>1, <3>1, <3>2, <3>3, <3>4
  <2>5. /\ Genuine(hand)'
        /\ \A other \in dispatched : other < hand'.id
    BY <1>1, <2>1, <2>3 DEF QueueAgreement, Genuine, MessageOf
  <2> QED
    BY <2>1, <2>4, <2>5 DEF QueueAgreement
<1>2. CASE ~(budget > 0 /\ count > 0)
  BY <1>2, QueueFrame DEF Take, queueState, net, inbound, told
<1> QED
  BY <1>1, <1>2

\* A callback adds the latest.
LEMMA QueuePushed ==
  ASSUME Typed, QueueAgreement, NEW message \in Item, Push(message),
         Genuine(message)', Latest(message.id), hand.id < message.id,
         UNCHANGED <<pc, hand, dispatched, connection>>,
         \A id \in DOMAIN sent : id \in DOMAIN sent' /\ sent'[id] = sent[id]
  PROVE  QueueAgreement'
<1>1. Contents' = Append(Contents, message)
  BY PushAppends DEF Typed
<1>2. /\ DOMAIN Contents' = 1..(count + 1) /\ Contents'[count + 1] = message
      /\ \A i \in 1..count : Contents'[i] = Contents[i]
      /\ DOMAIN Contents = 1..count /\ count \in Nat
  BY <1>1, QueueIs, AppendProperties
<1>3. ASSUME NEW i \in DOMAIN Contents'
      PROVE  /\ Genuine(Contents[i])'
             /\ \A j \in 1..(i - 1) : Contents'[j].id < Contents'[i].id
             /\ \A other \in dispatched : other < Contents'[i].id
             /\ pc = "handle" => hand.id < Contents'[i].id
  <2>1. CASE i = count + 1
    BY <1>2, <2>1 DEF Latest
  <2>2. CASE i # count + 1
    <3>1. i \in DOMAIN Contents /\ Contents'[i] = Contents[i]
      BY <1>2, <1>3, <2>2
    <3>2. Genuine(Contents[i])'
      BY <3>1 DEF QueueAgreement, Genuine, MessageOf
    <3>3. \A j \in 1..(i - 1) : Contents'[j] = Contents[j]
      BY <1>2, <3>1
    <3> QED
      BY <3>1, <3>2, <3>3 DEF QueueAgreement
  <2> QED
    BY <2>1, <2>2
<1>4. pc = "handle" => /\ Genuine(hand)'
                       /\ \A other \in dispatched : other < hand.id
  BY DEF QueueAgreement, Genuine, MessageOf
<1> QED
  BY <1>3, <1>4 DEF QueueAgreement

\* A message that was just begun follows all others.
LEMMA BegunIsLatest ==
  ASSUME Typed, QueueAgreement
  PROVE  Latest(Len(sent) + 1) /\ hand.id < Len(sent) + 1
<1>1. /\ DOMAIN sent = 1..Len(sent) /\ Len(sent) \in Nat
      /\ dispatched \subseteq DOMAIN sent
  BY DEF Typed, ReceiverOK
<1>2. pc # "handle" => hand.id = 0
  BY DEF Typed, LoopOK, NoHand
<1>3. hand.id < Len(sent) + 1
  BY <1>1, <1>2 DEF QueueAgreement, Genuine
<1> QED
  BY <1>1, <1>3 DEF QueueAgreement, Genuine, Latest

\* A message that begins is added to those that were sent.
LEMMA SentGrows ==
  ASSUME Typed, NEW c \in DOMAIN Message, FirstChunk(c)
  PROVE  /\ \A id \in DOMAIN sent : id \in DOMAIN sent' /\ sent'[id] = sent[id]
         /\ DOMAIN sent' = 1..(Len(sent) + 1) /\ Len(sent') = Len(sent) + 1
         /\ DOMAIN sent = 1..Len(sent) /\ Len(sent) \in Nat
         /\ sent'[Len(sent) + 1] = [command |-> c, connection |-> connection]
  BY AppendProperties DEF FirstChunk, Typed, ReceiverOK

\* The message that arrives whole: with its last chunk for the first or a later
\* one.
LEMMA FirstIsGenuine ==
  ASSUME Typed, NEW c \in DOMAIN Message, FirstChunk(c), NEW message \in Item,
         message.id = Len(sent) + 1, Len(message.parts) = Message[c].total,
         Message[c].total = 1, message.parts[1] = buffer'[1],
         topicValid', Message[c].total <= Len(buffer')
  PROVE  Genuine(message)'
<1>1. /\ message.id \in DOMAIN sent' /\ sent'[message.id].command = c
      /\ sent'[message.id].connection = connection /\ connection' = connection
  BY SentGrows DEF FirstChunk, receiver, net
<1>2. buffer'[1] = message.id
  BY FirstChunkEffect DEF MessageHandled
<1> QED
  BY <1>1, <1>2 DEF Genuine, MessageOf

\* The last chunk of several completes it.
LEMMA NextIsGenuine ==
  ASSUME Typed, ArrivalAgreement, NextChunk, NEW message \in Item,
         message.id = arriving.id,
         Len(message.parts) = MessageOf(arriving.id).total,
         arriving.next = MessageOf(arriving.id).total,
         \A j \in 1..MessageOf(arriving.id).total : message.parts[j] = buffer'[j],
         topicValid', MessageOf(arriving.id).total <= Len(buffer')
  PROVE  Genuine(message)'
<1> DEFINE n == MessageOf(arriving.id).total
<1>1. /\ n \in Nat /\ arriving.id = Len(sent)
      /\ arriving.next \in 2..n
      /\ MessageHandled(n, arriving.id, arriving.next)
  BY NextChunkEffect
<1>2. /\ sent' = sent /\ connection' = connection
  BY DEF NextChunk, receiver, net
<1>3. arriving.id \in DOMAIN sent /\ sent[arriving.id].connection = connection
  <2>1. arriving.id \in 1..MaxMessages[convention] /\ arriving.id = Len(sent)
        /\ DOMAIN sent = 1..Len(sent)
    BY NextChunkEffect DEF Typed, ReceiverOK
  <2> QED
    BY <2>1 DEF ArrivalAgreement, NextChunk
<1>4. /\ topicValid' = topicValid /\ Len(buffer') = Len(buffer)
      /\ \A j \in 1..Len(buffer) : j # n => buffer'[j] = buffer[j]
      /\ buffer'[n] = arriving.id
  <2>1. n > 1 /\ n <= n /\ MessageHandled(n, arriving.id, n)
    BY <1>1
  <2> QED
    BY <2>1 DEF MessageHandled
<1>5. \A j \in 1..(arriving.next - 1) : buffer[j] = arriving.id
  BY <1>4 DEF ArrivalAgreement, NextChunk
<1>6. ASSUME NEW j \in 1..n PROVE message.parts[j] = arriving.id
  <2>1. Len(buffer) \in Nat /\ j \in 1..Len(buffer)
    BY <1>1, <1>4, <1>6 DEF Typed, ReceiverOK
  <2>2. CASE j = n
    BY <1>4, <1>6, <2>2
  <2>3. CASE j # n
    BY <1>1, <1>4, <1>5, <2>1, <2>3
  <2> QED
    BY <2>2, <2>3
<1> QED
  BY <1>2, <1>3, <1>6 DEF Genuine, MessageOf

\* What waits is complete, of this session and in order; so is what is in hand.
LEMMA QueueStep ==
  ASSUME Typed, LegAgreement, QueueAgreement, ArrivalAgreement, [Next]_vars
  PROVE  QueueAgreement'
<1>1. CASE UNCHANGED vars
  BY <1>1, QueueFrame DEF vars, queueState, net, inbound, told
<1>2. CASE LoopStep
  <2>1. CASE Restart
    BY <2>1, QueueFlushed DEF Restart
  <2>2. CASE MqttEvent \/ Drift
    <3>1. Flush \/ UNCHANGED ring
      BY <2>2 DEF MqttEvent, Drift, HandleMqttConnected, HandleMqttDisconnected,
         SessionOver
    <3>2. UNCHANGED <<hand, net, inbound, told>> /\ pc' # "handle"
      BY <2>2 DEF MqttEvent, Drift
    <3> QED
      BY <3>1, <3>2, QueueFlushed, QueueFrame DEF queueState, net, inbound, told
  <2>3. CASE Connect
    BY <2>3, QueueFrame DEF Connect, HandleMqttConnected, queueState, inbound, told
  <2>4. CASE Take
    BY <2>4, QueueTaken
  <2>5. CASE CheckSession
    <3>1. Flush \/ UNCHANGED ring
      BY <2>5 DEF CheckSession
    <3>2. UNCHANGED <<hand, net, inbound, told>> /\ pc' # "handle"
      BY <2>5 DEF CheckSession
    <3> QED
      BY <3>1, <3>2, QueueFlushed, QueueFrame DEF queueState, net, inbound, told
  <2>6. CASE Handle
    <3>1. /\ UNCHANGED <<ring, sent, connection>> /\ pc = "handle" /\ pc' = "check"
          /\ dispatched' = dispatched \cup {hand.id}
      BY <2>6 DEF Handle, net, inbound
    <3>2. UNCHANGED Contents
      BY <3>1 DEF ring, Contents
    <3> QED
      BY <3>1, <3>2 DEF QueueAgreement, Genuine, MessageOf
  <2>7. CASE HandleFails
    <3>1. UNCHANGED <<ring, sent, connection, dispatched>> /\ pc' = "check"
      BY <2>7 DEF HandleFails, net, inbound, told
    <3>2. UNCHANGED Contents
      BY <3>1 DEF ring, Contents
    <3> QED
      BY <3>1, <3>2 DEF QueueAgreement, Genuine, MessageOf
  <2>8. ASSUME UNCHANGED queueState, pc' # "handle" \/ pc' = pc PROVE QueueAgreement'
    BY <2>8, QueueFrame
  <2> QED
    BY <1>2, <2>1, <2>2, <2>3, <2>4, <2>5, <2>6, <2>7, <2>8 DEF LoopStep, TakeAck,
       FinishNotifications, Online, Advertise, AnnounceReady, PublishSleeping,
       Track, NothingToSay, PrepareToSleep, queueState, net, inbound, told
<1>3. CASE ClientStep
  <2>1. CASE ClientUp
    <3>1. client = "connecting" /\ UNCHANGED ring /\ pc' = pc
      BY <2>1 DEF ClientUp, loopState
    <3>2. count = 0 /\ pc # "handle"
      BY <3>1 DEF LegAgreement
    <3>3. DOMAIN Contents' = {}
      BY <3>1, <3>2 DEF Contents, ring
    <3> QED
      BY <3>1, <3>2, <3>3 DEF QueueAgreement
  <2>2. CASE ClientDown \/ OnOtherPublish
    BY <2>2, QueueFrame DEF ClientDown, OnOtherPublish, loopState, queueState,
       net, inbound, told
  <2>3. ASSUME NEW id \in inFlight, OnMqttPublish(id) PROVE QueueAgreement'
    BY <2>3, QueueFrame DEF OnMqttPublish, queueState, net, inbound, told
  <2>4. ASSUME NEW c \in DOMAIN Message, FirstChunk(c) PROVE QueueAgreement'
    <3> DEFINE n == Message[c].total
    <3>1. n \in Nat /\ MessageHandled(n, Len(sent) + 1, 1)
      BY <2>4, FirstChunkEffect
    <3>2. UNCHANGED <<pc, hand, dispatched, connection>>
      BY <2>4 DEF FirstChunk, receiver, loopState, net, told
    <3>3. \A id \in DOMAIN sent : id \in DOMAIN sent' /\ sent'[id] = sent[id]
      BY <2>4, SentGrows
    <3>4. CASE UNCHANGED ring
      <4>1. UNCHANGED Contents
        BY <3>4 DEF ring, Contents
      <4> QED
        BY <3>2, <3>3, <4>1 DEF QueueAgreement, Genuine, MessageOf
    <3>5. CASE Whole(Len(sent) + 1, n) /\ 1 = n /\ topicValid' /\ n <= Len(buffer')
      <4>1. PICK message \in Item :
              /\ Push(message)
              /\ message.id = Len(sent) + 1 /\ Len(message.parts) = n
              /\ \A j \in 1..n : message.parts[j] = buffer'[j]
        BY <3>5 DEF Whole
      <4>2. Genuine(message)'
        BY <2>4, <3>5, <4>1, FirstIsGenuine
      <4> QED
        BY <3>2, <3>3, <4>1, <4>2, BegunIsLatest, QueuePushed
    <3> QED
      BY <3>1, <3>4, <3>5 DEF MessageHandled, Drop
  <2>5. CASE NextChunk
    <3> DEFINE n == MessageOf(arriving.id).total
    <3>1. n \in Nat /\ MessageHandled(n, arriving.id, arriving.next)
          /\ arriving.next \in 2..n
      BY <2>5, NextChunkEffect
    <3>2. UNCHANGED <<pc, hand, dispatched, connection, sent>>
      BY <2>5 DEF NextChunk, receiver, loopState, net, told
    <3>4. CASE UNCHANGED ring
      BY <3>2, <3>4, QueueFrame DEF queueState
    <3>5. CASE Whole(arriving.id, n) /\ arriving.next = n /\ topicValid'
               /\ n <= Len(buffer')
      <4>1. PICK message \in Item :
              /\ Push(message)
              /\ message.id = arriving.id /\ Len(message.parts) = n
              /\ \A j \in 1..n : message.parts[j] = buffer'[j]
        BY <3>5 DEF Whole
      <4>2. Genuine(message)'
        BY <2>5, <3>5, <4>1, NextIsGenuine
      <4>3. Latest(arriving.id) /\ hand.id < arriving.id
        BY <2>5 DEF NextChunk, ArrivalAgreement
      <4> QED
        BY <3>2, <4>1, <4>2, <4>3, QueuePushed
    <3> QED
      BY <3>1, <3>4, <3>5 DEF MessageHandled, Drop
  <2> QED
    BY <1>3, <2>1, <2>2, <2>3, <2>4, <2>5 DEF ClientStep
<1> QED
  BY <1>1, <1>2, <1>3 DEF Next

arrivalState == <<ring, hand, dispatched, sent, connection, arriving, topicValid,
                  buffer>>

\* A step that has no part in the message that arrives.
LEMMA ArrivalFrame ==
  ASSUME ArrivalAgreement, UNCHANGED arrivalState
  PROVE  ArrivalAgreement'
<1>1. UNCHANGED Contents
  BY DEF arrivalState, ring, Contents
<1> QED
  BY <1>1 DEF arrivalState, ArrivalAgreement, Latest, MessageOf

\* The loop takes messages from the queue and hands them out.
LEMMA ArrivalKept ==
  ASSUME Typed, QueueAgreement, ArrivalAgreement,
         UNCHANGED <<sent, connection, arriving, topicValid, buffer>>,
         \A i \in DOMAIN Contents' :
           \E j \in DOMAIN Contents : Contents'[i] = Contents[j],
         dispatched' \subseteq dispatched \cup {hand.id},
         hand' \in {hand, NoHand} \cup {Contents[i] : i \in DOMAIN Contents}
  PROVE  ArrivalAgreement'
<1> SUFFICES ASSUME arriving # NoArrival PROVE ArrivalAgreement'
  BY DEF ArrivalAgreement
<1>1. Latest(arriving.id) /\ hand.id < arriving.id
  BY DEF ArrivalAgreement
<1>2. hand.id \in Nat /\ arriving.id \in Nat
  BY QueueIs DEF Typed, ReceiverOK
<1>3. hand'.id < arriving.id
  BY <1>1, <1>2 DEF NoHand, Latest
<1>4. Latest(arriving.id)'
  BY <1>1 DEF Latest
<1> QED
  BY <1>3, <1>4 DEF ArrivalAgreement, MessageOf

\* The buffer holds what has come of it, unless it is too small.
LEMMA ArrivalStep ==
  ASSUME Typed, LegAgreement, QueueAgreement, ArrivalAgreement, [Next]_vars
  PROVE  ArrivalAgreement'
<1>1. CASE UNCHANGED vars
  BY <1>1, ArrivalFrame DEF vars, arrivalState, net, inbound, told
<1>2. CASE LoopStep
  <2>1. CASE Restart
    BY <2>1 DEF Restart, ArrivalAgreement, NoArrival
  <2>2. CASE MqttEvent \/ Drift \/ CheckSession
    <3>1. Flush \/ UNCHANGED ring
      BY <2>2 DEF MqttEvent, Drift, CheckSession, HandleMqttConnected,
         HandleMqttDisconnected, SessionOver
    <3>2. UNCHANGED <<hand, net, inbound, told>>
      BY <2>2 DEF MqttEvent, Drift, CheckSession
    <3>3. CASE Flush
      <4>1. DOMAIN Contents' = {}
        BY <3>3 DEF Flush, Contents
      <4> QED
        BY <3>2, <4>1, ArrivalKept DEF net, inbound, told
    <3>4. CASE UNCHANGED ring
      BY <3>2, <3>4, ArrivalFrame DEF arrivalState, net, inbound, told
    <3> QED
      BY <3>1, <3>3, <3>4
  <2>3. CASE Connect
    BY <2>3, ArrivalFrame DEF Connect, HandleMqttConnected, arrivalState,
       inbound, told
  <2>4. CASE Take
    <3>1. CASE budget > 0 /\ count > 0
      <4>1. /\ Pop /\ hand' = Contents[1] /\ 1 \in DOMAIN Contents
            /\ UNCHANGED <<net, inbound, told>>
        BY <2>4, <3>1, TakenIsItem DEF Take, Typed
      <4>2. Contents # <<>> /\ Contents' = Tail(Contents)
        BY <4>1, PopTakes DEF Typed
      <4>3. ASSUME NEW i \in DOMAIN Contents'
            PROVE  i + 1 \in DOMAIN Contents /\ Contents'[i] = Contents[i + 1]
        BY <4>2, <4>3, QueueIs, HeadTailProperties
      <4> QED
        BY <4>1, <4>3, ArrivalKept DEF net, inbound, told
    <3>2. CASE ~(budget > 0 /\ count > 0)
      BY <2>4, <3>2, ArrivalFrame DEF Take, arrivalState, net, inbound, told
    <3> QED
      BY <3>1, <3>2
  <2>5. CASE Handle \/ HandleFails
    <3>1. /\ UNCHANGED <<ring, net, inbound>> /\ hand' = NoHand
          /\ dispatched' \subseteq dispatched \cup {hand.id}
      BY <2>5 DEF Handle, HandleFails, told
    <3>2. UNCHANGED Contents
      BY <3>1 DEF ring, Contents
    <3> QED
      BY <3>1, <3>2, ArrivalKept DEF net, inbound
  <2>6. ASSUME UNCHANGED arrivalState PROVE ArrivalAgreement'
    BY <2>6, ArrivalFrame
  <2> QED
    BY <1>2, <2>1, <2>2, <2>3, <2>4, <2>5, <2>6 DEF LoopStep, TakeAck,
       FinishNotifications, Online, Advertise, AnnounceReady, PublishSleeping,
       Track, NothingToSay, PrepareToSleep, arrivalState, net, inbound, told
<1>3. CASE ClientStep
  <2>1. CASE ClientUp
    BY <2>1 DEF ClientUp, inbound, LegAgreement, ArrivalAgreement
  <2>2. CASE ClientDown
    BY <2>2 DEF ClientDown, ArrivalAgreement
  <2>3. CASE OnOtherPublish
    BY <2>3, ArrivalFrame DEF OnOtherPublish, loopState, arrivalState, net,
       inbound, told
  <2>4. ASSUME NEW id \in inFlight, OnMqttPublish(id) PROVE ArrivalAgreement'
    BY <2>4, ArrivalFrame DEF OnMqttPublish, arrivalState, net, inbound, told
  <2>5. ASSUME NEW c \in DOMAIN Message, FirstChunk(c) PROVE ArrivalAgreement'
    <3> DEFINE n == Message[c].total
    <3> SUFFICES ASSUME arriving' # NoArrival PROVE ArrivalAgreement'
      BY DEF ArrivalAgreement, NoArrival
    <3>1. n \in Nat /\ MessageHandled(n, Len(sent) + 1, 1)
      BY <2>5, FirstChunkEffect
    <3>2. /\ n > 1 /\ arriving' = [id |-> Len(sent) + 1, next |-> 2]
          /\ UNCHANGED <<hand, dispatched, connection>>
      BY <2>5 DEF FirstChunk, receiver, loopState, net, told, NoArrival
    <3>3. UNCHANGED ring
      BY <3>1, <3>2 DEF MessageHandled, Drop
    <3>4. UNCHANGED Contents
      BY <3>3 DEF ring, Contents
    <3>5. /\ Len(sent') = Len(sent) + 1 /\ Len(sent) \in Nat
          /\ sent'[Len(sent) + 1] = [command |-> c, connection |-> connection]
      BY <2>5, SentGrows
    <3>6. (Latest(Len(sent) + 1) /\ hand.id < Len(sent) + 1)
      BY BegunIsLatest
    <3>7. Latest(arriving.id)' /\ hand'.id < arriving'.id
      BY <3>2, <3>4, <3>6 DEF Latest
    <3>8. topicValid' /\ n <= Len(buffer') => buffer'[1] = arriving'.id
      BY <3>1, <3>2 DEF MessageHandled
    <3>9. MessageOf(arriving.id)'.total = n /\ arriving'.next = 2
      BY <3>2, <3>5 DEF MessageOf
    <3> QED
      BY <3>1, <3>2, <3>5, <3>7, <3>8, <3>9 DEF ArrivalAgreement
  <2>6. CASE NextChunk
    <3> DEFINE n == MessageOf(arriving.id).total
    <3> SUFFICES ASSUME arriving' # NoArrival PROVE ArrivalAgreement'
      BY DEF ArrivalAgreement, NoArrival
    <3>1. n \in Nat /\ MessageHandled(n, arriving.id, arriving.next)
          /\ arriving.next \in 2..n
      BY <2>6, NextChunkEffect
    <3>2. /\ arriving.next < n
          /\ arriving' = [arriving EXCEPT !.next = @ + 1]
          /\ UNCHANGED <<hand, dispatched, connection, sent>>
      BY <2>6 DEF NextChunk, receiver, loopState, net, told, NoArrival
    <3>3. UNCHANGED ring
      BY <3>1, <3>2 DEF MessageHandled, Drop
    <3>4. UNCHANGED Contents
      BY <3>3 DEF ring, Contents
    <3>5. arriving'.id = arriving.id /\ arriving'.next = arriving.next + 1
      BY <3>2 DEF Typed, ReceiverOK
    <3>6. /\ arriving.id = Len(sent) /\ sent[arriving.id].connection = connection
          /\ Latest(arriving.id) /\ hand.id < arriving.id
          /\ topicValid /\ n <= Len(buffer) =>
               \A k \in 1..(arriving.next - 1) : buffer[k] = arriving.id
      BY <2>6 DEF NextChunk, ArrivalAgreement
    <3>7. Latest(arriving.id)' /\ hand'.id < arriving'.id
      BY <3>2, <3>4, <3>5, <3>6 DEF Latest
    <3>8. ASSUME topicValid', n <= Len(buffer'), NEW k \in 1..arriving.next
          PROVE  buffer'[k] = arriving.id
      <4>1. /\ topicValid' = topicValid /\ Len(buffer') = Len(buffer)
            /\ buffer'[arriving.next] = arriving.id
            /\ \A j \in 1..Len(buffer) : j # arriving.next => buffer'[j] = buffer[j]
        <5>1. arriving.next > 1 /\ arriving.next <= n
          BY <3>1
        <5> QED
          BY <3>1, <3>8, <5>1 DEF MessageHandled
      <4>2. Len(buffer) \in Nat /\ k \in 1..Len(buffer)
        BY <3>1, <3>8, <4>1 DEF Typed, ReceiverOK
      <4> QED
        BY <3>1, <3>6, <3>8, <4>1, <4>2
    <3>9. MessageOf(arriving.id)'.total = n /\ (arriving.next + 1) - 1 = arriving.next
      BY <3>1, <3>2, <3>5 DEF MessageOf
    <3> QED
      BY <3>1, <3>2, <3>5, <3>6, <3>7, <3>8, <3>9 DEF ArrivalAgreement
  <2> QED
    BY <1>3, <2>1, <2>2, <2>3, <2>4, <2>5, <2>6 DEF ClientStep
<1> QED
  BY <1>1, <1>2, <1>3 DEF Next

\* Once a session is over the loop hands out no more than what it holds.
LEMMA LateStep ==
  ASSUME Typed, LateAgreement, [Next]_vars
  PROVE  LateAgreement'
<1> USE DEF LateAgreement
<1>0. /\ late \in Nat /\ client \in {"down", "connecting", "up", "closing"}
      /\ (Connected) \in BOOLEAN
  BY DEF Typed, NetOK, ReceiverOK, Connected
<1>1. CASE UNCHANGED vars
  BY <1>1 DEF vars, net, told
<1>2. CASE LoopStep
  <2>1. CASE Restart
    BY <2>1 DEF Restart, told
  <2>2. CASE MqttEvent \/ Drift
    BY <2>2 DEF MqttEvent, Drift, net, told
  <2>3. CASE Connect
    BY <2>3, <1>0 DEF Connect, told, Connected
  <2>4. CASE FinishNotifications
    BY <2>4 DEF FinishNotifications, AfterDisconnect, told
  <2>5. CASE Handle
    BY <2>5, <1>0 DEF Handle, net, Connected
  <2>6. CASE Online \/ Take \/ CheckSession
    BY <2>6 DEF Online, Take, CheckSession, net, told, Connected
  <2>7. CASE TakeAck \/ HandleFails \/ Advertise \/ AnnounceReady
             \/ PublishSleeping \/ Track \/ NothingToSay \/ PrepareToSleep
    BY <2>7 DEF TakeAck, HandleFails, Advertise, AnnounceReady, PublishSleeping,
       Track, NothingToSay, PrepareToSleep, net, told
  <2> QED
    BY <1>2, <2>1, <2>2, <2>3, <2>4, <2>5, <2>6, <2>7 DEF LoopStep
<1>3. CASE ClientStep
  <2>1. CASE ClientUp
    BY <2>1 DEF ClientUp
  <2>2. CASE ClientDown
    BY <2>2 DEF ClientDown, loopState, told
  <2> QED
    BY <1>3, <2>1, <2>2 DEF ClientStep, OnOtherPublish, OnMqttPublish, FirstChunk,
       NextChunk, receiver, loopState, net, told
<1> QED
  BY <1>1, <1>2, <1>3 DEF Next

\* The acknowledgement, the publication it is of and what the broker said agree.
LEMMA AckStep ==
  ASSUME Typed, AckAgreement, [Next]_vars
  PROVE  AckAgreement'
<1> USE DEF AckAgreement, SleepAckIsExact
<1>0. /\ offlineAck \in [id : 0..MaxFarewells,
                         state : {"none", "tracked", "acknowledged", "consumed"}]
      /\ farewells \in Nat /\ inFlight \subseteq 1..farewells
      /\ acked \subseteq 1..farewells
  BY DEF Typed, FarewellsOK
<1>1. ASSUME UNCHANGED <<offlineAck, farewells, acked>>,
             pc' = "publishing" => pc = "publishing"
      PROVE  AckAgreement'
  BY <1>1
<1>2. ASSUME offlineAck' = NotTracked, pc' # "publishing" PROVE AckAgreement'
  BY <1>2 DEF NotTracked
<1>3. CASE UNCHANGED vars
  BY <1>1, <1>3 DEF vars, leg, farewell
<1>4. CASE LoopStep
  <2>1. CASE Restart
    BY <2>1, <1>2 DEF Restart
  <2>2. CASE MqttEvent
    <3>1. offlineAck' \in {offlineAck, NotTracked} /\ UNCHANGED farewell
          /\ pc' = "acks"
      BY <2>2 DEF MqttEvent, HandleMqttConnected, HandleMqttDisconnected, leg
    <3> QED
      BY <3>1, <1>1, <1>2 DEF farewell
  <2>3. CASE Drift
    <3>1. offlineAck' \in {offlineAck, NotTracked} /\ UNCHANGED farewell
          /\ pc' = "connect"
      BY <2>3 DEF Drift, HandleMqttConnected, HandleMqttDisconnected, leg
    <3> QED
      BY <3>1, <1>1, <1>2 DEF farewell
  <2>4. CASE Connect
    BY <2>4, <1>1 DEF Connect, HandleMqttConnected, leg, farewell
  <2>5. CASE FinishNotifications
    <3>1. CASE flaggedForSleep /\ offlineAck.state = "acknowledged"
      <4>1. /\ offlineAck' = [offlineAck EXCEPT !.state = "consumed"]
            /\ pc' = "drift" /\ UNCHANGED acked
        BY <2>5, <3>1 DEF FinishNotifications, farewell
      <4> QED
        BY <3>1, <4>1, <1>0
    <3>2. CASE ~(flaggedForSleep /\ offlineAck.state = "acknowledged")
      BY <2>5, <3>2, <1>1 DEF FinishNotifications, farewell
    <3> QED
      BY <3>1, <3>2
  <2>6. CASE PublishSleeping
    <3>1. CASE Connected
      <4>1. farewells' = farewells + 1 /\ UNCHANGED <<offlineAck, acked>>
        BY <2>6, <3>1 DEF PublishSleeping, leg
      <4> QED
        BY <1>0, <4>1
    <3>2. CASE ~Connected
      BY <2>6, <3>2, <1>1 DEF PublishSleeping, leg
    <3> QED
      BY <3>1, <3>2
  <2>7. CASE Track
    <3>1. /\ pc = "publishing" /\ pc' = "event" /\ UNCHANGED acked
          /\ offlineAck' = [id |-> farewells, state |-> "tracked"]
      BY <2>7 DEF Track, farewell
    <3> QED
      BY <3>1, <1>0
  <2> QED
    BY <1>1, <1>4, <2>1, <2>2, <2>3, <2>4, <2>5, <2>6, <2>7 DEF LoopStep, TakeAck,
       Online, Take, Handle, HandleFails, CheckSession, Advertise, AnnounceReady,
       NothingToSay, PrepareToSleep, leg, farewell
<1>5. CASE ClientStep
  <2>1. ASSUME NEW id \in inFlight, OnMqttPublish(id) PROVE AckAgreement'
    <3>1. /\ pc # "publishing" /\ pc' = pc
          /\ acked' = acked \cup {id} /\ offlineAck' = Acknowledged(id)
      BY <2>1 DEF OnMqttPublish, CallbackMayRun
    <3>2. id # 0
      BY <1>0, <2>1
    <3>3. CASE offlineAck = [id |-> id, state |-> "tracked"]
      <4>1. offlineAck' = [offlineAck EXCEPT !.state = "acknowledged"]
            /\ offlineAck.id = id
        BY <3>1, <3>3 DEF Acknowledged
      <4> QED
        BY <1>0, <3>1, <3>2, <4>1
    <3>4. CASE offlineAck # [id |-> id, state |-> "tracked"]
      <4>1. offlineAck' = offlineAck
        BY <3>1, <3>4 DEF Acknowledged
      <4>2. ~(offlineAck.id = id /\ offlineAck.state = "tracked")
        BY <1>0, <3>4
      <4> QED
        BY <1>0, <3>1, <3>2, <4>1, <4>2
    <3> QED
      BY <3>3, <3>4
  <2> QED
    BY <1>1, <1>5, <2>1 DEF ClientStep, ClientUp, ClientDown, OnOtherPublish,
       FirstChunk, NextChunk, receiver, loopState, leg, farewell
<1> QED
  BY <1>3, <1>4, <1>5 DEF Next

\* A step that loses one message and counts one keeps the tally.
LEMMA MissingIsFinite ==
  ASSUME Typed
  PROVE  IsFiniteSet(Missing)
<1>1. Missing \subseteq 1..Len(sent) /\ Len(sent) \in Nat
  BY DEF Typed, ReceiverOK, Missing
<1>2. IsFiniteSet(1..Len(sent))
  BY <1>1, FS_Interval
<1> QED
  BY <1>1, <1>2, FS_Subset

\* No more commands go missing in a step than are counted in it.
LEMMA Counted ==
  ASSUME Typed, DropsAreCounted, Connected' => Connected, NEW lost,
         \/ Missing' \subseteq Missing /\ drops' \in {drops, drops + 1}
         \/ Missing' \subseteq Missing \cup {lost} /\ drops' = drops + 1
  PROVE  DropsAreCounted'
<1> SUFFICES ASSUME Connected' PROVE Cardinality(Missing') <= drops'
  BY DEF DropsAreCounted
<1>1. /\ IsFiniteSet(Missing) /\ Cardinality(Missing) \in Nat
      /\ Cardinality(Missing) <= drops /\ drops \in Nat
  BY MissingIsFinite, FS_CardinalityType DEF DropsAreCounted, Typed, ReceiverOK
<1>2. CASE Missing' \subseteq Missing /\ drops' \in {drops, drops + 1}
  <2>1. IsFiniteSet(Missing') /\ Cardinality(Missing') <= Cardinality(Missing)
    BY <1>1, <1>2, FS_Subset
  <2> QED
    BY <1>1, <1>2, <2>1, FS_CardinalityType
<1>3. CASE Missing' \subseteq Missing \cup {lost} /\ drops' = drops + 1
  <2>1. /\ IsFiniteSet(Missing \cup {lost})
        /\ Cardinality(Missing \cup {lost}) <= Cardinality(Missing) + 1
    BY <1>1, FS_AddElement
  <2>2. /\ IsFiniteSet(Missing')
        /\ Cardinality(Missing') <= Cardinality(Missing \cup {lost})
    BY <1>3, <2>1, FS_Subset
  <2> QED
    BY <1>1, <1>3, <2>1, <2>2, FS_CardinalityType
<1> QED
  BY <1>2, <1>3

\* No step but a failure takes a message from where it waits unless to dispatch it.
LEMMA MissingKept ==
  ASSUME Typed, UNCHANGED <<sent, connection>>, NEW lost,
         dispatched \subseteq dispatched',
         Waiting \subseteq Waiting' \cup dispatched' \cup {0} \cup lost
  PROVE  Missing' \subseteq Missing \cup lost
<1>1. 0 \notin DOMAIN sent
  BY DEF Typed, ReceiverOK
<1> QED
  BY <1>1 DEF Missing, MessageOf

\* A step that moves no command.
LEMMA DropFrame ==
  ASSUME Typed, DropAgreement, Connected' => Connected,
         UNCHANGED <<ring, hand, arriving, sent, connection, dispatched, drops>>
  PROVE  DropAgreement'
<1>1. UNCHANGED Contents
  BY DEF ring, Contents
<1>2. UNCHANGED Missing
  BY <1>1 DEF Missing, Waiting, MessageOf
<1> QED
  BY <1>2 DEF DropAgreement, DropsAreCounted

\* Whatever happens to a command, what is missing has been counted.
LEMMA DropStep ==
  ASSUME Typed, LegAgreement, QueueAgreement, ArrivalAgreement, DropAgreement,
         [Next]_vars
  PROVE  DropAgreement'
<1>0. /\ DropsAreCounted /\ drops \in Nat /\ connection \in Nat
      /\ \A id \in DOMAIN sent : sent[id].connection <= connection
  BY DEF DropAgreement, Typed, NetOK, ReceiverOK
<1>1. CASE UNCHANGED vars
  BY <1>1, DropFrame DEF vars, net, inbound, told, Connected
<1>2. CASE LoopStep
  <2>1. CASE Restart
    <3>1. client' = "down" /\ UNCHANGED <<sent, connection>>
      BY <2>1 DEF Restart
    <3> QED
      BY <3>1, <1>0 DEF DropAgreement, DropsAreCounted, Connected
  <2>2. CASE MqttEvent \/ Drift \/ CheckSession
    <3>1. UNCHANGED <<hand, net, inbound, drops, told>>
      BY <2>2 DEF MqttEvent, Drift, CheckSession
    <3>2. CASE Connected
      <4>1. UNCHANGED ring
        BY <2>2, <3>2 DEF MqttEvent, Drift, CheckSession, HandleMqttConnected
      <4> QED
        BY <3>1, <4>1, DropFrame DEF net, inbound, told, Connected
    <3>3. CASE ~Connected
      BY <3>1, <3>3, <1>0 DEF DropAgreement, DropsAreCounted, net, inbound, Connected
    <3> QED
      BY <3>2, <3>3
  <2>3. CASE Connect
    BY <2>3, DropFrame DEF Connect, HandleMqttConnected, inbound, told, Connected
  <2>4. CASE FinishNotifications
    BY <2>4, DropFrame DEF FinishNotifications, AfterDisconnect, inbound, told,
       Connected
  <2>5. CASE Take
    <3>1. UNCHANGED <<net, inbound, drops, told>>
      BY <2>5 DEF Take
    <3>2. CASE budget > 0 /\ count > 0
      <4>1. /\ Pop /\ hand' = Contents[1] /\ 1 \in DOMAIN Contents /\ hand = NoHand
        BY <2>5, <3>2, TakenIsItem DEF Take, Typed, LoopOK
      <4>2. Contents # <<>> /\ Contents' = Tail(Contents)
        BY <4>1, PopTakes DEF Typed
      <4>3. ASSUME NEW i \in DOMAIN Contents, i # 1
            PROVE  i - 1 \in DOMAIN Contents' /\ Contents'[i - 1] = Contents[i]
        BY <4>2, <4>3, QueueIs, HeadTailProperties
      <4>4. Waiting \subseteq Waiting' \cup {0}
        BY <3>1, <4>1, <4>3 DEF Waiting, NoHand, inbound
      <4>5. Missing' \subseteq Missing
        BY <3>1, <4>4, MissingKept DEF net, inbound, told
      <4>6. DropsAreCounted'
        BY <1>0, <3>1, <4>5, Counted DEF net, Connected
      <4> QED
        BY <1>0, <3>1, <4>6 DEF DropAgreement, net, inbound
    <3>3. CASE ~(budget > 0 /\ count > 0)
      BY <2>5, <3>3, DropFrame DEF Take, net, inbound, told, Connected
    <3> QED
      BY <3>2, <3>3
  <2>6. CASE Handle \/ HandleFails
    <3>1. /\ UNCHANGED <<ring, net, inbound>> /\ hand' = NoHand
          /\ \/ dispatched' = dispatched \cup {hand.id} /\ drops' = drops
             \/ dispatched' = dispatched /\ drops' = drops + 1
      BY <2>6 DEF Handle, HandleFails, told
    <3>2. UNCHANGED Contents
      BY <3>1 DEF ring, Contents
    <3>3. Waiting \subseteq Waiting' \cup {hand.id}
      BY <3>1, <3>2 DEF Waiting, inbound
    <3>4. CASE dispatched' = dispatched \cup {hand.id} /\ drops' = drops
      <4>1. Missing' \subseteq Missing
        BY <3>1, <3>3, <3>4, MissingKept DEF net, inbound
      <4> QED
        BY <1>0, <3>1, <3>4, <4>1, Counted DEF DropAgreement, net, inbound, Connected
    <3>5. CASE dispatched' = dispatched /\ drops' = drops + 1
      <4>1. Missing' \subseteq Missing \cup {hand.id}
        BY <3>1, <3>3, <3>5, MissingKept DEF net, inbound
      <4> QED
        BY <1>0, <3>1, <3>5, <4>1, Counted DEF DropAgreement, net, inbound, Connected
    <3> QED
      BY <3>1, <3>4, <3>5
  <2> QED
    BY <1>2, <2>1, <2>2, <2>3, <2>4, <2>5, <2>6, DropFrame DEF LoopStep, TakeAck,
       Online, Advertise, AnnounceReady, PublishSleeping, Track, NothingToSay,
       PrepareToSleep, net, inbound, told, Connected
<1>3. CASE ClientStep
  <2>1. CASE ClientUp
    <3>1. /\ connection' = connection + 1 /\ drops' = 0
          /\ UNCHANGED <<sent, dispatched>>
      BY <2>1 DEF ClientUp, inbound
    <3>2. Missing' = {}
      BY <1>0, <3>1 DEF Missing
    <3> QED
      <4>1. ASSUME NEW id \in DOMAIN sent
            PROVE  sent[id].connection <= connection + 1
        <5>1. sent[id] \in [command : DOMAIN Message, connection : Nat]
          <6>1. /\ sent \in Seq([command : DOMAIN Message, connection : Nat])
                /\ id \in 1..Len(sent)
            BY <4>1 DEF Typed, ReceiverOK
          <6> QED
            BY <6>1, ElementOfSeq
        <5> QED
          BY <1>0, <4>1, <5>1
      <4>2. Cardinality(Missing') <= drops'
        BY <3>1, <3>2, FS_EmptySet
      <4> QED
        BY <3>1, <4>1, <4>2 DEF DropAgreement, DropsAreCounted
  <2>2. CASE ClientDown
    BY <2>2, <1>0 DEF ClientDown, DropAgreement, DropsAreCounted, Connected
  <2>3. CASE OnOtherPublish
    BY <2>3, DropFrame DEF OnOtherPublish, loopState, net, inbound, told, Connected
  <2>4. ASSUME NEW id \in inFlight, OnMqttPublish(id) PROVE DropAgreement'
    BY <2>4, DropFrame DEF OnMqttPublish, net, inbound, told, Connected
  <2>5. ASSUME NEW c \in DOMAIN Message, FirstChunk(c) PROVE DropAgreement'
    <3> DEFINE n == Message[c].total
               new == Len(sent) + 1
    <3>1. n \in Nat /\ MessageHandled(n, new, 1)
      BY <2>5, FirstChunkEffect
    <3>2. /\ UNCHANGED <<hand, net, told>> /\ arriving = NoArrival
          /\ n > 1 => arriving' = [id |-> new, next |-> 2]
      BY <2>5 DEF FirstChunk, receiver, loopState
    <3>3. /\ \A id \in DOMAIN sent : id \in DOMAIN sent' /\ sent'[id] = sent[id]
          /\ DOMAIN sent' = DOMAIN sent \cup {new} /\ 0 \notin DOMAIN sent
          /\ sent'[new] = [command |-> c, connection |-> connection]
      <4>1. /\ DOMAIN sent' = 1..(Len(sent) + 1) /\ DOMAIN sent = 1..Len(sent)
            /\ Len(sent) \in Nat
        BY <2>5, SentGrows
      <4> QED
        BY <2>5, <4>1, SentGrows
    <3>4. \A id \in DOMAIN sent' : sent'[id].connection <= connection'
      BY <1>0, <3>2, <3>3 DEF net
    <3>5. ASSUME \A i \in DOMAIN Contents :
                   \E j \in DOMAIN Contents' : Contents'[j] = Contents[i]
          PROVE  Missing' \subseteq Missing \cup {new}
      <4>1. Waiting \subseteq Waiting' \cup {0}
        BY <3>2, <3>5 DEF Waiting, NoArrival
      <4> QED
        BY <3>2, <3>3, <4>1 DEF Missing, MessageOf, net, told
    <3>6. CASE Drop
      <4>1. drops' = drops + 1 /\ UNCHANGED Contents
        BY <3>6 DEF Drop, ring, Contents
      <4>2. Missing' \subseteq Missing \cup {new}
        BY <3>5, <4>1
      <4> QED
        BY <1>0, <3>2, <3>4, <4>1, <4>2, Counted DEF DropAgreement, net, Connected
    <3>7. CASE (n = 0 \/ 1 < n) /\ UNCHANGED <<ring, drops>>
      <4>1. UNCHANGED <<Contents, drops>>
        BY <3>7 DEF ring, Contents
      <4>2. Missing' \subseteq Missing \cup {new}
        BY <3>5, <4>1
      <4>3. new \notin Missing'
        <5>1. CASE n = 0
          BY <3>3, <5>1 DEF Missing, MessageOf
        <5>2. CASE 1 < n
          BY <3>2, <5>2 DEF Missing, Waiting
        <5> QED
          BY <3>7, <5>1, <5>2
      <4> QED
        BY <1>0, <3>2, <3>4, <4>1, <4>2, <4>3, Counted DEF DropAgreement, net,
           Connected
    <3>8. CASE Whole(new, n) /\ UNCHANGED drops
      <4>1. PICK message \in Item : Push(message) /\ message.id = new
        BY <3>8 DEF Whole
      <4>2. Contents' = Append(Contents, message)
        BY <4>1, PushAppends DEF Typed
      <4>3. /\ \A i \in DOMAIN Contents :
                 i \in DOMAIN Contents' /\ Contents'[i] = Contents[i]
            /\ \E i \in DOMAIN Contents' : Contents'[i] = message
        BY <4>2, QueueIs, AppendProperties
      <4>4. Missing' \subseteq Missing \cup {new}
        BY <3>5, <4>3
      <4>5. new \notin Missing'
        BY <4>1, <4>3 DEF Missing, Waiting
      <4> QED
        BY <1>0, <3>2, <3>4, <3>8, <4>4, <4>5, Counted DEF DropAgreement, net,
           Connected
    <3> QED
      BY <3>1, <3>6, <3>7, <3>8 DEF MessageHandled
  <2>6. CASE NextChunk
    <3> DEFINE n == MessageOf(arriving.id).total
    <3>1. n \in Nat /\ MessageHandled(n, arriving.id, arriving.next)
          /\ arriving.next \in 2..n
      BY <2>6, NextChunkEffect
    <3>2. /\ UNCHANGED <<hand, net, told, sent>>
          /\ arriving.next < n => arriving' = [arriving EXCEPT !.next = @ + 1]
      BY <2>6 DEF NextChunk, receiver, loopState
    <3>3. \A id \in DOMAIN sent' : sent'[id].connection <= connection'
      BY <1>0, <3>2 DEF net
    <3>4. ASSUME \A i \in DOMAIN Contents :
                   \E j \in DOMAIN Contents' : Contents'[j] = Contents[i]
          PROVE  Waiting \subseteq Waiting' \cup {arriving.id}
      BY <3>2, <3>4 DEF Waiting
    <3>5. CASE Drop
      <4>1. drops' = drops + 1 /\ UNCHANGED Contents
        BY <3>5 DEF Drop, ring, Contents
      <4>2. Missing' \subseteq Missing \cup {arriving.id}
        BY <3>2, <3>4, <4>1, MissingKept DEF net, told
      <4> QED
        BY <1>0, <3>2, <3>3, <4>1, <4>2, Counted DEF DropAgreement, net, Connected
    <3>6. CASE arriving.next < n /\ UNCHANGED <<ring, drops>>
      <4>1. UNCHANGED <<Contents, drops>>
        BY <3>6 DEF ring, Contents
      <4>2. arriving'.id = arriving.id
        BY <3>2, <3>6 DEF Typed, ReceiverOK
      <4>3. Waiting \subseteq Waiting'
        BY <3>2, <4>1, <4>2 DEF Waiting
      <4>4. Missing' \subseteq Missing
        BY <3>2, <4>3, MissingKept DEF net, told
      <4> QED
        BY <1>0, <3>2, <3>3, <4>1, <4>4, Counted DEF DropAgreement, net, Connected
    <3>7. CASE Whole(arriving.id, n) /\ UNCHANGED drops
      <4>1. PICK message \in Item : Push(message) /\ message.id = arriving.id
        BY <3>7 DEF Whole
      <4>2. Contents' = Append(Contents, message)
        BY <4>1, PushAppends DEF Typed
      <4>3. /\ \A i \in DOMAIN Contents :
                 i \in DOMAIN Contents' /\ Contents'[i] = Contents[i]
            /\ \E i \in DOMAIN Contents' : Contents'[i] = message
        BY <4>2, QueueIs, AppendProperties
      <4>4. Waiting \subseteq Waiting'
        BY <3>4, <4>1, <4>3 DEF Waiting
      <4>5. Missing' \subseteq Missing
        BY <3>2, <4>4, MissingKept DEF net, told
      <4> QED
        BY <1>0, <3>2, <3>3, <3>7, <4>5, Counted DEF DropAgreement, net, Connected
    <3> QED
      BY <3>1, <3>5, <3>6, <3>7 DEF MessageHandled
  <2> QED
    BY <1>3, <2>1, <2>2, <2>3, <2>4, <2>5, <2>6 DEF ClientStep
<1> QED
  BY <1>1, <1>2, <1>3 DEF Next

-----------------------------------------------------------------------------
(* The announcement.                                                       *)

\* AnnouncedInFull follows wherever the announcement is what was said on the way.
LEMMA SaidIsEnough ==
  ASSUME convention \in Conventions, UNCHANGED convention,
         Reachable(progress'), announced' = Said(progress')
  PROVE  AnnouncementAgreement'
<1>1. /\ announced' # {} => Device(Init_) \in announced'
      /\ Device(Ready_) \in announced' => announced' = Announcement
      /\ progress'.done => Device(Ready_) \in announced'
  BY SaidInFull
<1> QED
  BY <1>1, SaidAfter DEF AnnouncementAgreement, AnnouncedInFull

\* A step that leaves it alone, or the client falls back.
LEMMA AnnouncementFrame ==
  ASSUME AnnouncementAgreement, UNCHANGED <<convention, advertisement>>,
         client' = "up" => client = "up"
  PROVE  AnnouncementAgreement'
  BY SaidAfter DEF AnnouncementAgreement, AnnouncedInFull, advertisement

\* A session that is over starts anew.
LEMMA AnnouncementOver ==
  ASSUME convention \in Conventions, AnnouncementAgreement,
         UNCHANGED <<convention, announced>>, progress' = Start, client' # "up"
  PROVE  AnnouncementAgreement'
<1>1. ~Start.done
  BY DEF Start
<1> QED
  BY <1>1, StartIsReachable, SaidAfter DEF AnnouncementAgreement, AnnouncedInFull

\* One call of _advertise().
LEMMA AnnouncementCall ==
  ASSUME convention \in Conventions, AnnouncementAgreement,
         UNCHANGED <<convention, client>>, AdvertiseCall(Connected)
  PROVE  AnnouncementAgreement'
<1>1. CASE UNCHANGED advertisement
  BY <1>1, AnnouncementFrame
<1>2. CASE /\ Connected \/ Attempt(progress) = {}
           /\ announced' = announced \cup Attempt(progress)
           /\ progress' = Advance(progress)
  <2>1. announced = Said(progress)
    BY <1>2, StartSaysInit DEF AnnouncementAgreement, Connected
  <2>2. Reachable(progress)
    BY DEF AnnouncementAgreement
  <2>3. Reachable(progress') /\ announced' = Said(progress')
    BY <1>2, <2>1, <2>2, AdvanceIsReachable, AdvanceSays
  <2> QED
    BY <2>3, SaidIsEnough
<1> QED
  BY <1>1, <1>2 DEF AdvertiseCall

\* The announcement is what was said on the way to where the device is.
LEMMA AnnouncementStep ==
  ASSUME Typed, LegAgreement, AnnouncementAgreement, [Next]_vars
  PROVE  AnnouncementAgreement'
<1>0. convention \in Conventions
  BY DEF Typed, ReceiverOK
<1>1. CASE UNCHANGED vars
  BY <1>1, AnnouncementFrame DEF vars, build, net
<1>2. CASE LoopStep
  <2>1. CASE Restart
    <3>1. /\ UNCHANGED convention
          /\ progress' = Start /\ announced' = {}
      BY <2>1 DEF Restart, build
    <3> QED
      BY <1>0, <3>1, StartIsReachable, StartSaysNothing, SaidIsEnough
  <2>2. CASE MqttEvent \/ Drift
    <3>1. UNCHANGED <<convention, client>>
      BY <2>2 DEF MqttEvent, Drift, build, net
    <3>2. \/ UNCHANGED advertisement
          \/ AdvertiseCall(Connected)
          \/ ~Connected /\ progress' = Start /\ UNCHANGED announced
      BY <2>2 DEF MqttEvent, Drift, HandleMqttConnected, HandleMqttDisconnected,
         SessionOver
    <3> QED
      BY <1>0, <3>1, <3>2, AnnouncementFrame, AnnouncementCall, AnnouncementOver
         DEF Connected
  <2>3. CASE Connect
    <3>1. UNCHANGED convention /\ (client' = "up" => client = "up")
      BY <2>3 DEF Connect, build
    <3>2. \/ UNCHANGED advertisement
          \/ AdvertiseCall(Connected) /\ UNCHANGED client
      BY <2>3 DEF Connect, HandleMqttConnected
    <3> QED
      BY <1>0, <3>1, <3>2, AnnouncementFrame, AnnouncementCall
  <2>4. CASE Advertise
    BY <1>0, <2>4, AnnouncementCall DEF Advertise, build, net
  <2>5. CASE FinishNotifications
    BY <2>5, AnnouncementFrame DEF FinishNotifications, AfterDisconnect, build
  <2>6. CASE Take \/ TakeAck \/ Online \/ CheckSession
    BY <2>6, AnnouncementFrame DEF Take, TakeAck, Online, CheckSession, build, net
  <2>7. CASE \/ Handle \/ HandleFails \/ AnnounceReady \/ PublishSleeping \/ Track
             \/ NothingToSay \/ PrepareToSleep
    BY <2>7, AnnouncementFrame DEF Handle, HandleFails, AnnounceReady,
       PublishSleeping, Track, NothingToSay, PrepareToSleep, build, net
  <2> QED
    BY <1>2, <2>1, <2>2, <2>3, <2>4, <2>5, <2>6, <2>7 DEF LoopStep
<1>3. CASE ClientStep
  <2>1. CASE ClientUp
    <3>1. /\ UNCHANGED convention /\ progress' = Start /\ announced' = {}
      BY <2>1 DEF ClientUp, LegAgreement, loopState, build
    <3> QED
      BY <1>0, <3>1, StartIsReachable, StartSaysNothing, SaidIsEnough
  <2>2. CASE ClientDown
    BY <2>2, AnnouncementFrame DEF ClientDown, loopState, build
  <2> QED
    BY <1>3, <2>1, <2>2, AnnouncementFrame DEF ClientStep, OnOtherPublish,
       OnMqttPublish, FirstChunk, NextChunk, receiver, loopState, build, net
<1> QED
  BY <1>1, <1>2, <1>3 DEF Next

-----------------------------------------------------------------------------
(* The invariant is inductive, and what follows from it.                   *)

\* A device that has just started.
LEMMA Initially == Init => IInv
<1> SUFFICES ASSUME Init PROVE IInv
  OBVIOUS
<1> USE DEF Init
<1>1. convention \in Conventions /\ preallocated \in BOOLEAN
  BY SessionAssumption
<1>2. RingInv /\ Contents = <<>> /\ count = 0
  BY InitInv DEF RingInit, Contents
<1>3. buffer \in Seq(Chunks) /\ Len(buffer) <= MaxPayload
  <2>1. MaxPayload \in Nat /\ MaxMessages[convention] \in Nat
    BY <1>1, SessionAssumption
  <2>2. <<>> \in Seq(Chunks) /\ Len(<<>>) = 0 /\ 0 <= MaxPayload
    BY <2>1
  <2>3. LET zeros == [i \in 1..MaxPayload |-> 0] IN
          zeros \in Seq(Chunks) /\ Len(zeros) = MaxPayload
    BY <2>1 DEF Chunks
  <2>4. buffer = <<>> \/ buffer = [i \in 1..MaxPayload |-> 0]
    BY DEF EmptyBuffer
  <2>5. CASE buffer = <<>>
    BY <2>2, <2>5
  <2>6. CASE buffer = [i \in 1..MaxPayload |-> 0]
    BY <2>1, <2>3, <2>6
  <2> QED
    BY <2>4, <2>5, <2>6
<1>4. LoopOK /\ FlagsOK
  <2>1. LoopOK
    BY DEF LoopOK
  <2>2. FlagsOK
    BY <1>1, Zenon DEF FlagsOK
  <2> QED
    BY <2>1, <2>2
<1>5. NetOK /\ FarewellsOK
  <2>1. AckCapacity \in Nat /\ MaxFarewells \in Nat
    BY SessionAssumption
  <2> QED
    BY <2>1 DEF NetOK, FarewellsOK, NotTracked
<1>10. ReceiverOK
  <2>1. MaxMessages[convention] \in Nat
    BY <1>1, SessionAssumption
  <2>2. sent = <<>> /\ Len(sent) = 0
    OBVIOUS
  <2>3. arriving \in [id : 0..Len(sent), next : Nat]
    BY <2>2 DEF NoArrival
  <2>4. /\ sent \in Seq([command : DOMAIN Message, connection : Nat])
        /\ Len(sent) <= MaxMessages[convention]
    BY <2>1, <2>2
  <2>5. /\ drops \in Nat /\ late \in Nat /\ topicValid \in BOOLEAN
        /\ dispatched \subseteq DOMAIN sent
    OBVIOUS
  <2> QED
    BY <1>1, <1>3, <2>3, <2>4, <2>5, Zenon DEF ReceiverOK
<1>6. LegAgreement
  BY <1>2 DEF LegAgreement
<1>7. QueueAgreement /\ ArrivalAgreement /\ LateAgreement
  BY <1>2 DEF QueueAgreement, ArrivalAgreement, LateAgreement
<1>8. AckAgreement /\ DropAgreement
  BY DEF AckAgreement, SleepAckIsExact, DropAgreement, DropsAreCounted, Connected,
     NotTracked
<1>9. AnnouncementAgreement
  <2>1. Reachable(progress) /\ announced = Said(progress)
    BY <1>1, StartIsReachable, StartSaysNothing
  <2>2. AnnouncedInFull
    BY <1>1, <2>1, SaidInFull DEF AnnouncedInFull
  <2> QED
    BY <2>1, <2>2 DEF AnnouncementAgreement
<1> QED
  BY <1>2, <1>4, <1>5, <1>6, <1>7, <1>8, <1>9, <1>10 DEF IInv, Typed

\* Every step of the loop and of the client keeps it.
LEMMA Inductive == IInv /\ [Next]_vars => IInv'
<1> SUFFICES ASSUME IInv, [Next]_vars PROVE IInv'
  OBVIOUS
<1> USE DEF IInv
<1>1. Typed'
  <2>1. RingInv'
    BY RingInvStep
  <2>2. LoopOK' /\ NetOK'
    BY LoopValuesStep, NetStep DEF Typed
  <2>3. FarewellsOK' /\ FlagsOK'
    BY FarewellsStep, FlagsStep DEF Typed
  <2>4. ReceiverOK'
    BY ReceiverStep
  <2> QED
    BY <2>1, <2>2, <2>3, <2>4 DEF Typed
<1>2. LegAgreement' /\ LateAgreement' /\ AckAgreement'
  BY LegStep, LateStep, AckStep
<1>3. QueueAgreement' /\ ArrivalAgreement'
  BY QueueStep, ArrivalStep
<1>4. DropAgreement'
  BY DropStep
<1>5. AnnouncementAgreement'
  BY AnnouncementStep
<1> QED
  BY <1>1, <1>2, <1>3, <1>4, <1>5

\* The invariant of a session: the types, and how the parts of the state that the
\* two tasks share agree with each other between any two of their steps.
THEOREM Invariance == Spec => []IInv
  BY Initially, Inductive, PTL DEF Spec

\* The type invariant.
THEOREM TypeCorrect == Spec => []TypeOK
<1>1. IInv => TypeOK
  BY TypedImplies DEF IInv
<1> QED
  BY <1>1, Invariance, PTL

\* What BootNormal and the client's callbacks do to the queue of pending messages
\* is what the ring's operations do, ...
THEOREM SessionUsesRing == Spec => RingSpec
<1>1. Init => RingInit
  BY DEF Init
<1>2. IInv /\ [Next]_vars => [RingNext]_ring
  BY RingStep DEF IInv
<1> QED
  BY <1>1, <1>2, Invariance, PTL DEF Spec, RingSpec

\* ... hence the queue is a bounded first-in first-out queue, whatever the loop,
\* a disconnection and the callbacks do to it in between.
THEOREM SessionQueueIsFifo == Spec => PendingIsFifo
  BY SessionUsesRing, RingIsFifo, PTL

\* The farewell counts as delivered exactly when the broker acknowledged it.
THEOREM SleepAckExact == Spec => []SleepAckIsExact
<1>1. IInv => SleepAckIsExact
  BY DEF IInv, AckAgreement
<1> QED
  BY <1>1, Invariance, PTL

\* While a session lasts every command that is lost is counted.
THEOREM DropsCounted == Spec => []DropsAreCounted
<1>1. IInv => DropsAreCounted
  BY DEF IInv, DropAgreement
<1> QED
  BY <1>1, Invariance, PTL

\* A device that says it is ready has said all there is to say, for any nodes
\* under any convention.
THEOREM AnnouncementIsFull == Spec => []AnnouncedInFull
<1>1. IInv => AnnouncedInFull
  BY DEF IInv, AnnouncementAgreement
<1> QED
  BY <1>1, Invariance, PTL

\* The sketch is given complete commands of the open session, or one of the session
\* that has just ended, each once and in the order in which they came.
THEOREM CommandsAreOfOpenSession == Spec => CommandOfOpenSession
<1> DEFINE given == LET id == hand.id IN
             /\ sent[id].connection = connection
             /\ late' <= 1
             /\ \A k \in 1..MessageOf(id).total : hand.parts[k] = id
             /\ Len(hand.parts) = MessageOf(id).total
             /\ \A other \in dispatched : other < id
<1>1. IInv /\ [Next]_vars => [dispatched' # dispatched => given]_vars
  <2> SUFFICES ASSUME IInv, [Next]_vars, dispatched' # dispatched PROVE given
    OBVIOUS
  <2>1. CASE Handle
    <3>1. pc = "handle" /\ late' = (IF Connected THEN late ELSE late + 1)
      BY <2>1 DEF Handle
    <3>2. Genuine(hand) /\ \A other \in dispatched : other < hand.id
      BY <3>1 DEF IInv, QueueAgreement
    <3>3. late' <= 1
      BY <3>1 DEF IInv, LateAgreement
    <3> QED
      BY <3>2, <3>3 DEF Genuine
  <2>2. CASE ~Handle
    BY <2>2 DEF Next, LoopStep, ClientStep, vars, told, receiver, loopState,
       MqttEvent, TakeAck, FinishNotifications, Restart, Drift, Connect, Online,
       Take, HandleFails, CheckSession, Advertise, AnnounceReady, PublishSleeping,
       Track, NothingToSay, PrepareToSleep, ClientUp, ClientDown, OnMqttPublish,
       OnOtherPublish, FirstChunk, NextChunk
  <2> QED
    BY <2>1, <2>2
<1> QED
  BY <1>1, Invariance, PTL DEF Spec, CommandOfOpenSession

\* Set commands reach the property they are addressed to, for every firmware whose
\* names are unambiguous.
THEOREM CommandsReachTheirProperty == Spec => []CommandReachesItsProperty
<1>1. TypeOK => CommandReachesItsProperty
  BY CommandsReach DEF TypeOK, CommandReachesItsProperty
<1> QED
  BY <1>1, TypeCorrect, PTL
=============================================================================

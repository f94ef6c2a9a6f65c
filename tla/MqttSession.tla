---------------------------- MODULE MqttSession ----------------------------
(***************************************************************************)
(* One MQTT session after another: the device announces itself, subscribes,*)
(* receives commands on the client's task, queues them and dispatches them *)
(* from the loop, and says good-bye before it sleeps.                      *)
(*                                                                         *)
(* Two tasks share the ring, the flags and the acknowledgement of the last *)
(* publication.  `pc` is where BootNormal::loop() stands; the client's     *)
(* callbacks run between any two of its steps, except while the loop holds *)
(* the client's mutex (pc = "publishing").  Wi-Fi, stalled attempts and    *)
(* missed callbacks are in Connectivity, the fragments of a firmware in    *)
(* OtaUpdate, what a patch does to the file in ConfigStore.                *)
(***************************************************************************)
EXTENDS Ring, Advertisement, SetCommand, FiniteSets

CONSTANTS
  Builds,           \* [convention, preallocated] of the firmware
  Message,          \* the commands others may send, by name
  MaxPayload,       \* PENDING_MQTT_MESSAGE_MAX_PAYLOAD_LENGTH, in chunks
  MessagesPerLoop,  \* PENDING_MQTT_MESSAGES_PER_LOOP_LIMIT
  AcksPerLoop,      \* PENDING_MQTT_ACKS_PER_LOOP_LIMIT
  AckCapacity,      \* PENDING_MQTT_ACK_QUEUE_SIZE
  MaxMessages,      \* bound of the model, by convention
  MaxConnections, MaxFarewells   \* bounds of the model

\* A chunk of the payload buffer is told by the message that wrote it, 0 before.
ASSUME SessionAssumption ==
  /\ MaxPayload \in Nat \ {0} /\ MessagesPerLoop \in 1..255
  /\ AcksPerLoop \in 1..255 /\ AckCapacity \in 1..255
  /\ MaxMessages \in [Conventions -> Nat]
  /\ MaxConnections \in Nat /\ MaxFarewells \in Nat
  /\ Builds \subseteq [convention : Conventions, preallocated : BOOLEAN]
  /\ \A c \in DOMAIN Message :
       /\ Message[c].total \in Nat
       /\ Message[c].kind \in {"reset", "config", "set", "broadcast"}
  /\ Item = UNION {[id : 1..MaxMessages[c],
                    parts : UNION {[1..n -> 0..MaxMessages[c]] :
                                   n \in 1..MaxPayload}] : c \in Conventions}

VARIABLES
  preallocated,          \* HOMIE_PENDING_MQTT_MESSAGE_PREALLOCATED
  pc, budget, hand,      \* the loop: where, how many more, the message it took
  client, connection,    \* the client: its state, how many sessions it had
  mqttEventPending, mqttDisconnectNotified, mqttConnectInProgress,
  mqttReconnectTimer, mqttConnectNotified,
  flaggedForSleep, disable, restarting,
  offlineAck,            \* MqttPublishAck
  farewells, inFlight, acked,  \* the "sleeping" publications: made, sent, acknowledged
  pendingAcks,           \* how many acknowledgements wait in their ring
  topicValid, buffer,    \* the message the callback puts together
  arriving,              \* ... and what of it the broker has yet to send
  sent,                  \* the messages, in the order of their first chunk
  drops,                 \* what the drop counter grew by in this session
  dispatched, late       \* messages handed to the sketch; since the session ended

build   == <<convention, preallocated>>
leg     == <<mqttDisconnectNotified, mqttConnectInProgress, mqttReconnectTimer,
             mqttConnectNotified, offlineAck>>
control == <<flaggedForSleep, disable, restarting>>
farewell == <<farewells, inFlight, acked>>
inbound == <<topicValid, buffer, arriving, sent>>
net     == <<client, connection>>
told    == <<dispatched, late>>

vars == <<ring, build, advertisement, pc, budget, hand, net, mqttEventPending,
          leg, control, farewell, pendingAcks, inbound, drops, told>>

NoHand     == [id |-> 0, parts |-> <<>>]
NoArrival  == [id |-> 0, next |-> 0]
NotTracked == [id |-> 0, state |-> "none"]

Connected == client = "up"

MessageOf(id) == Message[sent[id].command]

-----------------------------------------------------------------------------
EmptyBuffer == IF preallocated THEN [i \in 1..MaxPayload |-> 0] ELSE <<>>

Init ==
  /\ \E b \in Builds : convention = b.convention /\ preallocated = b.preallocated
  /\ RingInit
  /\ progress = Start /\ announced = {}
  /\ pc = "event" /\ budget = 0 /\ hand = NoHand
  /\ client = "down" /\ connection = 0
  /\ mqttEventPending = FALSE
  /\ mqttDisconnectNotified = TRUE /\ mqttConnectInProgress = FALSE
  /\ mqttReconnectTimer = TRUE /\ mqttConnectNotified = FALSE
  /\ flaggedForSleep = FALSE /\ disable = FALSE /\ restarting = {}
  /\ offlineAck = NotTracked
  /\ farewells = 0 /\ inFlight = {} /\ acked = {} /\ pendingAcks = 0
  /\ topicValid = FALSE /\ buffer = EmptyBuffer
  /\ arriving = NoArrival /\ sent = <<>>
  /\ drops = 0 /\ dispatched = {} /\ late = 0

\* A pending restart happens at this place of the loop, unless an erase or an
\* OTA status keeps it waiting: RAM is gone, the broker forgets the session.
Restart ==
  /\ pc = "drift" /\ restarting # {}
  /\ Flush
  /\ progress' = Start /\ announced' = {}
  /\ pc' = "event" /\ budget' = 0 /\ hand' = NoHand
  /\ client' = "down"
  /\ mqttEventPending' = FALSE
  /\ mqttDisconnectNotified' = TRUE /\ mqttConnectInProgress' = FALSE
  /\ mqttReconnectTimer' = TRUE /\ mqttConnectNotified' = FALSE
  /\ flaggedForSleep' = FALSE /\ disable' = FALSE /\ restarting' = {}
  /\ offlineAck' = NotTracked
  /\ inFlight' = {} /\ pendingAcks' = 0
  /\ topicValid' = FALSE /\ buffer' = EmptyBuffer
  /\ arriving' = NoArrival
  /\ UNCHANGED <<build, connection, farewells, acked, sent, drops, told>>

-----------------------------------------------------------------------------
(* The session as the loop sees it.                                        *)

HandleMqttConnected ==
  IF ~mqttDisconnectNotified /\ ~mqttConnectInProgress
    THEN UNCHANGED <<ring, advertisement, leg>>
    ELSE /\ mqttConnectInProgress' = FALSE
         /\ mqttDisconnectNotified' = FALSE
         /\ mqttReconnectTimer' = FALSE
         /\ AdvertiseCall(Connected)
         /\ UNCHANGED <<ring, mqttConnectNotified, offlineAck>>

\* Where a session that is over leaves the queue and the announcement.
SessionOverMutant == progress' = Start /\ UNCHANGED ring
SessionOver       == progress' = Start /\ Flush

\* A device that is to sleep does not try again.
HandleMqttDisconnected ==
  /\ offlineAck' = NotTracked
  /\ mqttConnectNotified' = FALSE
  /\ mqttConnectInProgress' = FALSE
  /\ SessionOver
  /\ mqttDisconnectNotified' = TRUE
  /\ mqttReconnectTimer' =
       IF ~mqttDisconnectNotified /\ flaggedForSleep
         THEN mqttReconnectTimer ELSE TRUE
  /\ UNCHANGED announced

MqttEvent ==
  /\ pc = "event"
  /\ pc' = "acks" /\ budget' = AcksPerLoop
  /\ mqttEventPending' = FALSE
  /\ IF ~mqttEventPending THEN UNCHANGED <<ring, advertisement, leg>>
     ELSE IF Connected    THEN HandleMqttConnected
     ELSE HandleMqttDisconnected
  /\ UNCHANGED <<build, hand, net, control, farewell, pendingAcks, inbound,
                 drops, told>>

TakeAck ==
  /\ pc = "acks" /\ budget > 0 /\ pendingAcks > 0
  /\ budget' = budget - 1
  /\ pendingAcks' = pendingAcks - 1
  /\ UNCHANGED <<ring, build, advertisement, pc, hand, net, mqttEventPending,
                 leg, control, farewell, inbound, drops, told>>

AfterDisconnect == IF client = "up" THEN "closing" ELSE client

\* The end of _processPendingEventNotifications: takeAcknowledged() looks at the
\* word of its own, whatever became of the event in the ring.
FinishNotifications ==
  /\ pc = "acks" /\ (budget = 0 \/ pendingAcks = 0)
  /\ pc' = "drift" /\ budget' = 0
  /\ IF flaggedForSleep /\ offlineAck.state = "acknowledged"
       THEN /\ offlineAck' = [offlineAck EXCEPT !.state = "consumed"]
            /\ client' = AfterDisconnect
       ELSE UNCHANGED <<client, offlineAck>>
  /\ UNCHANGED <<ring, build, advertisement, hand, connection,
                 mqttEventPending, mqttDisconnectNotified,
                 mqttConnectInProgress, mqttReconnectTimer,
                 mqttConnectNotified, control, farewell, pendingAcks, inbound,
                 drops, told>>

\* _recoverIfNetworkStateDrifted, its MQTT half.
Drift ==
  /\ pc = "drift"
  /\ pc' = "connect"
  /\ IF Connected /\ (mqttDisconnectNotified \/ mqttConnectInProgress)
       THEN HandleMqttConnected
     ELSE IF ~Connected /\ ~mqttDisconnectNotified
       THEN HandleMqttDisconnected
     ELSE UNCHANGED <<ring, advertisement, leg>>
  /\ UNCHANGED <<build, budget, hand, net, mqttEventPending, control, farewell,
                 pendingAcks, inbound, drops, told>>

\* The reconnect timer elapses: _mqttConnect, and the loop returns.
Connect ==
  /\ pc = "connect"
  /\ ~mqttConnectInProgress /\ mqttReconnectTimer
  /\ connection < MaxConnections
  /\ pc' = "event"
  /\ IF disable THEN UNCHANGED <<ring, advertisement, leg, client>>
     ELSE IF Connected THEN HandleMqttConnected /\ UNCHANGED client
     ELSE /\ mqttConnectInProgress' = TRUE
          /\ mqttConnectNotified' = FALSE
          /\ client' = IF client = "down" THEN "connecting" ELSE client
          /\ UNCHANGED <<ring, advertisement, mqttDisconnectNotified,
                         mqttReconnectTimer, offlineAck>>
  /\ UNCHANGED <<build, budget, hand, connection, mqttEventPending, control,
                 farewell, pendingAcks, inbound, drops, told>>

\* No attempt is due; the rest of the loop is for a device that is connected.
Online ==
  /\ pc = "connect"
  /\ IF Connected THEN pc' = "take" /\ budget' = MessagesPerLoop
                  ELSE pc' = "event" /\ UNCHANGED budget
  /\ UNCHANGED <<ring, build, advertisement, hand, net, mqttEventPending, leg,
                 control, farewell, pendingAcks, inbound, drops, told>>

-----------------------------------------------------------------------------
(* _processPendingMqttMessages.                                            *)

Take ==
  /\ pc = "take"
  /\ IF budget > 0 /\ count > 0
       THEN pc' = "handle" /\ hand' = Oldest /\ Pop /\ UNCHANGED budget
       ELSE pc' = "session" /\ budget' = 0 /\ UNCHANGED <<ring, hand>>
  /\ UNCHANGED <<build, advertisement, net, mqttEventPending, leg,
                 control, farewell, pendingAcks, inbound, drops, told>>

\* __handleResets publishes and stops the device; __handleConfig may fail.
Obey(command) ==
  CASE command.kind = "reset" /\ command.value = "true" ->
         disable' = TRUE /\ restarting' = restarting \cup {"reset"}
    [] command.kind = "config" ->
         /\ restarting' \in {restarting, restarting \cup {"reboot"}}
         /\ UNCHANGED disable
    [] OTHER -> UNCHANGED <<disable, restarting>>

\* _handleQueuedMqttMessage
Handle ==
  /\ pc = "handle"
  /\ pc' = "check"
  /\ hand' = NoHand
  /\ Obey(MessageOf(hand.id))
  /\ dispatched' = dispatched \cup {hand.id}
  /\ late' = IF Connected THEN late ELSE late + 1
  /\ UNCHANGED <<ring, build, advertisement, budget, net, mqttEventPending,
                 leg, flaggedForSleep, farewell, pendingAcks, inbound, drops>>

\* The topic cannot be split for want of memory.
HandleFails ==
  /\ pc = "handle"
  /\ pc' = "check"
  /\ hand' = NoHand
  /\ drops' = drops + 1
  /\ UNCHANGED <<ring, build, advertisement, budget, net, mqttEventPending,
                 leg, control, farewell, pendingAcks, inbound, told>>

CheckSession ==
  /\ pc = "check"
  /\ IF Connected THEN pc' = "take" /\ budget' = budget - 1 /\ UNCHANGED ring
                  ELSE pc' = "session" /\ budget' = 0 /\ Flush
  /\ UNCHANGED <<build, advertisement, hand, net, mqttEventPending, leg,
                 control, farewell, pendingAcks, inbound, drops, told>>

-----------------------------------------------------------------------------
(* The rest of the loop.                                                   *)

Advertise ==
  /\ pc = "session" /\ ~progress.done
  /\ pc' = "event"
  /\ AdvertiseCall(Connected)
  /\ UNCHANGED <<ring, build, budget, hand, net, mqttEventPending, leg,
                 control, farewell, pendingAcks, inbound, drops, told>>

AnnounceReady ==
  /\ pc = "session" /\ progress.done /\ ~mqttConnectNotified
  /\ pc' = "event"
  /\ mqttConnectNotified' = TRUE
  /\ UNCHANGED <<ring, build, advertisement, budget, hand, net,
                 mqttEventPending, mqttDisconnectNotified,
                 mqttConnectInProgress, mqttReconnectTimer, offlineAck,
                 control, farewell, pendingAcks, inbound, drops, told>>

SleepDue == /\ progress.done /\ mqttConnectNotified
            /\ offlineAck.id = 0 /\ flaggedForSleep

\* publishTracked, with the client's mutex held: the publication first, ...
PublishSleeping ==
  /\ pc = "session" /\ SleepDue
  /\ farewells < MaxFarewells
  /\ IF Connected THEN /\ pc' = "publishing"
                       /\ farewells' = farewells + 1
                       /\ inFlight' = inFlight \cup {farewells'}
                  ELSE pc' = "event" /\ UNCHANGED <<farewells, inFlight>>
  /\ UNCHANGED <<ring, build, advertisement, budget, hand, net,
                 mqttEventPending, leg, control, acked, pendingAcks, inbound,
                 drops, told>>

\* ... then the packet id it was given.
Track ==
  /\ pc = "publishing"
  /\ pc' = "event"
  /\ offlineAck' = [id |-> farewells, state |-> "tracked"]
  /\ UNCHANGED <<ring, build, advertisement, budget, hand, net,
                 mqttEventPending, mqttDisconnectNotified,
                 mqttConnectInProgress, mqttReconnectTimer,
                 mqttConnectNotified, control, farewell, pendingAcks, inbound,
                 drops, told>>

NothingToSay ==
  /\ pc = "session" /\ progress.done /\ mqttConnectNotified
  /\ ~SleepDue \/ farewells = MaxFarewells
  /\ pc' = "event"
  /\ UNCHANGED <<ring, build, advertisement, budget, hand, net,
                 mqttEventPending, leg, control, farewell, pendingAcks,
                 inbound, drops, told>>

\* Homie.prepareToSleep(), from a node's loop(); a device that is not ready
\* (mqttConnectNotified) may sleep at once.
PrepareToSleep ==
  /\ pc = "drift"
  /\ disable' = TRUE
  /\ flaggedForSleep' = (flaggedForSleep \/ mqttConnectNotified)
  /\ UNCHANGED <<ring, build, advertisement, pc, budget, hand, net,
                 mqttEventPending, leg, restarting, farewell, pendingAcks,
                 inbound, drops, told>>

LoopStep ==
  \/ MqttEvent \/ TakeAck \/ FinishNotifications \/ Restart \/ Drift
  \/ Connect \/ Online \/ Take \/ Handle \/ HandleFails \/ CheckSession
  \/ Advertise \/ AnnounceReady \/ PublishSleeping \/ Track \/ NothingToSay
  \/ PrepareToSleep

-----------------------------------------------------------------------------
(* The client's task.  HomieMqttClient::_dispatch holds the mutex.         *)

CallbackMayRunMutant == TRUE
CallbackMayRun       == pc # "publishing"

loopState == <<build, pc, budget, hand, leg, control>>

ClientUp ==
  /\ CallbackMayRun /\ client = "connecting"
  /\ client' = "up" /\ connection' = connection + 1
  /\ mqttEventPending' = TRUE
  /\ announced' = {} /\ late' = 0 /\ drops' = 0
  /\ UNCHANGED <<ring, progress, loopState, farewell, pendingAcks, inbound,
                 dispatched>>

ClientDown ==
  /\ CallbackMayRun /\ client # "down"
  /\ client' = "down" /\ arriving' = NoArrival
  /\ mqttEventPending' = TRUE
  /\ UNCHANGED <<ring, advertisement, loopState, connection, farewell,
                 pendingAcks, topicValid, buffer, sent, drops, told>>

EnqueueAck ==
  pendingAcks' = IF pendingAcks < AckCapacity THEN pendingAcks + 1 ELSE pendingAcks

\* MqttPublishAck::acknowledge
Acknowledged(id) ==
  IF offlineAck = [id |-> id, state |-> "tracked"]
    THEN [offlineAck EXCEPT !.state = "acknowledged"] ELSE offlineAck

OnMqttPublish(id) ==
  /\ CallbackMayRun /\ Connected /\ id \in inFlight
  /\ inFlight' = inFlight \ {id}
  /\ acked' = acked \cup {id}
  /\ offlineAck' = Acknowledged(id)
  /\ EnqueueAck
  /\ UNCHANGED <<ring, build, advertisement, pc, budget, hand, net,
                 mqttEventPending, mqttDisconnectNotified,
                 mqttConnectInProgress, mqttReconnectTimer,
                 mqttConnectNotified, control, farewells, inbound, drops, told>>

\* Any other publication with QoS 1 is acknowledged; those of the announcement
\* are left out.
OnOtherPublish ==
  /\ CallbackMayRun /\ Connected /\ progress.done
  /\ EnqueueAck
  /\ UNCHANGED <<ring, advertisement, loopState, net, mqttEventPending,
                 farewell, inbound, drops, told>>

-----------------------------------------------------------------------------
(* _onMqttMessage: chunk k of the n of message id.                         *)

DropMutant == UNCHANGED <<ring, drops>>
Drop == drops' = drops + 1 /\ UNCHANGED ring

\* Memory for the copies is taken before the ring is, unless it is preallocated.
Enqueue(id, parts) ==
  \/ Push([id |-> id, parts |-> parts]) /\ UNCHANGED drops
  \/ (Full \/ ~preallocated) /\ Drop

\* The payload buffer as the first chunk finds it, or makes it.
Rooms(k, n) ==
  IF k = 1 /\ Len(buffer) < n THEN {[i \in 1..n |-> 0], <<>>} ELSE {buffer}

\* __fillPayloadBuffer, __fillPreallocatedPayloadBuffer
Fill(id, k, n) ==
  \E room \in Rooms(k, n) :
    IF Len(room) < n THEN buffer' = room /\ Drop
    ELSE /\ buffer' = [room EXCEPT ![k] = id]
         /\ IF k < n THEN UNCHANGED <<ring, drops>>
                     ELSE Enqueue(id, SubSeq(buffer', 1, n))

\* The first chunk brings the topic; the others rely on what it left.
TopicOutcomes(command, k) ==
  IF k > 1 THEN {topicValid}
  ELSE IF preallocated THEN {~command.longTopic} ELSE BOOLEAN

OnMqttMessage(command, id, k) ==
  IF command.total = 0 THEN UNCHANGED <<ring, drops, topicValid, buffer>>
  ELSE /\ topicValid' \in TopicOutcomes(command, k)
       /\ IF topicValid' /\ command.total <= MaxPayload
            THEN Fill(id, k, command.total)
            ELSE Drop /\ UNCHANGED buffer

FilterOf(command) ==
  CASE command.kind = "reset"     -> "reset"
    [] command.kind = "config"    -> "config/set"
    [] command.kind = "set"       -> "+/+/set"
    [] command.kind = "broadcast" -> "$broadcast"

receiver == <<advertisement, loopState, net, mqttEventPending, farewell,
              pendingAcks, told>>

FirstChunk(c) ==
  /\ CallbackMayRun /\ client \in {"up", "closing"}
  /\ arriving = NoArrival
  /\ Len(sent) < MaxMessages[convention]
  /\ Subscribed(FilterOf(Message[c]))
  /\ sent' = Append(sent, [command |-> c, connection |-> connection])
  /\ arriving' = IF Message[c].total > 1
                   THEN [id |-> Len(sent) + 1, next |-> 2] ELSE NoArrival
  /\ OnMqttMessage(Message[c], Len(sent) + 1, 1)
  /\ UNCHANGED receiver

NextChunk ==
  /\ CallbackMayRun /\ client \in {"up", "closing"}
  /\ arriving # NoArrival
  /\ LET command == MessageOf(arriving.id) IN
       /\ arriving' = IF arriving.next < command.total
                        THEN [arriving EXCEPT !.next = @ + 1] ELSE NoArrival
       /\ OnMqttMessage(command, arriving.id, arriving.next)
  /\ UNCHANGED <<receiver, sent>>

ClientStep ==
  \/ ClientUp \/ ClientDown
  \/ \E id \in inFlight : OnMqttPublish(id)
  \/ OnOtherPublish
  \/ \E c \in DOMAIN Message : FirstChunk(c)
  \/ NextChunk

Next == LoopStep \/ ClientStep

Spec == Init /\ [][Next]_vars

-----------------------------------------------------------------------------
\* Type invariant.
TypeOK ==
  /\ RingTypeOK
  /\ convention \in Conventions /\ preallocated \in BOOLEAN
  /\ pc \in {"event", "acks", "drift", "connect", "take", "handle", "check",
             "session", "publishing"}
  /\ budget \in 0..255
  /\ hand \in Item \cup {NoHand} /\ (pc = "handle" <=> hand # NoHand)
  /\ client \in {"down", "connecting", "up", "closing"}
  /\ connection \in Nat
  /\ \A flag \in {mqttEventPending, mqttDisconnectNotified,
                  mqttConnectInProgress, mqttReconnectTimer,
                  mqttConnectNotified, flaggedForSleep, disable, topicValid} :
       flag \in BOOLEAN
  /\ restarting \subseteq {"reset", "reboot"}
  /\ offlineAck \in [id : 0..MaxFarewells,
                     state : {"none", "tracked", "acknowledged", "consumed"}]
  /\ farewells \in 0..MaxFarewells
  /\ inFlight \subseteq 1..farewells /\ acked \subseteq 1..farewells
  /\ pendingAcks \in 0..AckCapacity
  /\ buffer \in Seq(0..MaxMessages[convention])
  /\ sent \in Seq([command : DOMAIN Message, connection : Nat])
  /\ Len(sent) <= MaxMessages[convention]
  /\ arriving.id \in 0..Len(sent) /\ arriving.next \in Nat
  /\ drops \in Nat /\ late \in Nat
  /\ dispatched \subseteq DOMAIN sent

\* A command the sketch is given belongs to the session that is open, or to the
\* one that ended while it was in the loop's hands, which is then the last; it
\* is complete, made of no other message's chunks; and none is given twice or
\* after a later one.
CommandOfOpenSession ==
  [][dispatched' # dispatched =>
       LET id == hand.id IN
         /\ sent[id].connection = connection
         /\ late' <= 1
         /\ \A k \in 1..MessageOf(id).total : hand.parts[k] = id
         /\ Len(hand.parts) = MessageOf(id).total
         /\ \A other \in dispatched : other < id]_vars

Waiting == {Contents[i].id : i \in DOMAIN Contents} \cup {hand.id, arriving.id}

Missing == {id \in DOMAIN sent :
              /\ sent[id].connection = connection /\ MessageOf(id).total > 0
              /\ id \notin dispatched \cup Waiting}

\* While a session lasts no command disappears unnoticed: what was neither
\* dispatched nor is on its way was counted, at least once, as dropped.
DropsAreCounted == Connected => Cardinality(Missing) <= drops

\* The device takes its farewell for delivered exactly when the broker has
\* acknowledged that very publication: not one of an earlier session, however
\* early the acknowledgement comes and however full the event ring is.
SleepAckIsExact ==
  offlineAck.id # 0 =>
    (offlineAck.state \in {"acknowledged", "consumed"} <=> offlineAck.id \in acked)

\* Set commands reach the property they are addressed to, in this firmware's
\* convention (SetCommand, ReachesItsProperty).
CommandReachesItsProperty == ReachesItsProperty[convention]
=============================================================================

---------------------------- MODULE Connectivity ----------------------------
(***************************************************************************)
(* The connectivity state machine of BootNormal: Homie.loop() on the main  *)
(* task, the Wi-Fi and MQTT callbacks that only raise flags, and the two   *)
(* radios they talk about.  One iteration of BootNormal::loop() is a walk  *)
(* of `pc` through the points at which the code reads state another task   *)
(* may have changed; a handler that runs between two such points is one    *)
(* action.                                                                 *)
(*                                                                         *)
(* Time is abstracted: a back-off interval, a 30 s attempt timeout, the    *)
(* 15 min watchdog, the OTA inactivity timeout and "the device is idle"    *)
(* may each be found elapsed, or not, whenever the loop looks.             *)
(***************************************************************************)
EXTENDS Naturals

CONSTANTS
  AdvertSteps,   \* steps of _advertise() before `done` (PUB_INIT .. PUB_READY)
  MissedEvents,  \* may a Wi-Fi or MQTT callback fail to be delivered?
  Requests       \* what happens besides the network: see RequestKinds

\* prepareToSleep(); a reset, by call, button or broadcast; an OTA transfer; a
\* configuration received over MQTT.
RequestKinds == {"sleep", "reset", "ota", "config"}

\* The shortest advertisement, a v5 device without nodes, has five steps; the
\* proofs need three (see AdvertBehind).
ASSUME ConnectivityAssumption ==
  /\ AdvertSteps \in Nat /\ AdvertSteps >= 3
  /\ MissedEvents \in BOOLEAN
  /\ Requests \subseteq RequestKinds

VARIABLES
  pc,
  \* the Wi-Fi leg
  wifiGotIp, wifiConnectInProgress, wifiReconnectTimer,
  \* the MQTT leg; a timer is TRUE while it is active
  mqttDisconnectNotified, mqttConnectInProgress, mqttReconnectTimer,
  mqttConnectNotified, advert, ready, offlineAck,
  \* raised by callbacks, consumed by the loop
  wifiEventPending, mqttEventPending, otaOngoing, otaDisconnected,
  \* what the loop has decided about the device as a whole
  recoveryInProgress, disable, flaggedForSleep, flaggedForReboot, resetFlag,
  \* outside: the station, the MQTT client, and callbacks not yet run
  wifi, wifiCallback, client, mqttCallback, stable,
  \* what the sketch has been told
  lastMqttEvent, readyToSleep

wifiLeg    == <<wifiGotIp, wifiConnectInProgress, wifiReconnectTimer>>
mqttLeg    == <<mqttDisconnectNotified, mqttConnectInProgress,
                mqttReconnectTimer, mqttConnectNotified, advert, ready,
                offlineAck>>
ota        == <<otaOngoing, otaDisconnected>>
pending    == <<wifiEventPending, mqttEventPending>>
control    == <<disable, flaggedForSleep, flaggedForReboot, resetFlag>>
callbacks  == <<wifiCallback, mqttCallback>>
told       == <<lastMqttEvent, readyToSleep>>
vars       == <<pc, wifiLeg, mqttLeg, ota, pending, recoveryInProgress, control,
                wifi, client, callbacks, stable, told>>

\* What the connectivity handlers may write, beyond the Wi-Fi leg.
session == <<mqttLeg, otaDisconnected, recoveryInProgress, client, told>>

LoopPoints == {"wifiEvent", "mqttEvent", "service", "reboot", "driftWifi",
               "driftMqtt", "stallWifi", "stallMqtt", "watchdog", "wifiTimer",
               "mqttTimer", "online", "session"}

AdvertDone == advert = AdvertSteps

-----------------------------------------------------------------------------
\* Power-on state: the constructor of BootNormal and a quiet radio.
PowerOn ==
  /\ pc = "boot"
  /\ wifiGotIp = FALSE /\ wifiConnectInProgress = FALSE
  /\ wifiReconnectTimer = FALSE
  /\ mqttDisconnectNotified = TRUE /\ mqttConnectInProgress = FALSE
  /\ mqttReconnectTimer = FALSE /\ mqttConnectNotified = FALSE
  /\ advert = 0 /\ ready = FALSE /\ offlineAck = "none"
  /\ wifiEventPending = FALSE /\ mqttEventPending = FALSE
  /\ otaOngoing = FALSE /\ otaDisconnected = FALSE
  /\ recoveryInProgress = FALSE
  /\ disable = FALSE /\ flaggedForSleep = FALSE
  /\ flaggedForReboot = FALSE /\ resetFlag = FALSE
  /\ wifi = "down" /\ wifiCallback = FALSE
  /\ client = "disconnected" /\ mqttCallback = "none"
  /\ lastMqttEvent = "none" /\ readyToSleep = FALSE

Init == PowerOn /\ stable = FALSE

\* ESP.restart(): RAM is gone, the network keeps its character.
Restart ==
  /\ pc' = "boot"
  /\ wifiGotIp' = FALSE /\ wifiConnectInProgress' = FALSE
  /\ wifiReconnectTimer' = FALSE
  /\ mqttDisconnectNotified' = TRUE /\ mqttConnectInProgress' = FALSE
  /\ mqttReconnectTimer' = FALSE /\ mqttConnectNotified' = FALSE
  /\ advert' = 0 /\ ready' = FALSE /\ offlineAck' = "none"
  /\ wifiEventPending' = FALSE /\ mqttEventPending' = FALSE
  /\ otaOngoing' = FALSE /\ otaDisconnected' = FALSE
  /\ recoveryInProgress' = FALSE
  /\ disable' = FALSE /\ flaggedForSleep' = FALSE
  /\ flaggedForReboot' = FALSE /\ resetFlag' = FALSE
  /\ wifi' = "down" /\ wifiCallback' = FALSE
  /\ client' = "disconnected" /\ mqttCallback' = "none"
  /\ lastMqttEvent' = "none" /\ readyToSleep' = FALSE
  /\ UNCHANGED stable

\* BootNormal::setup()
Setup ==
  /\ pc = "boot"
  /\ pc' = "wifiEvent"
  /\ recoveryInProgress' = TRUE
  /\ wifiReconnectTimer' = TRUE
  /\ UNCHANGED <<wifiGotIp, wifiConnectInProgress, mqttLeg, ota, pending,
                 control, wifi, client, callbacks, stable, told>>

-----------------------------------------------------------------------------
\* The MQTT client as the code uses it: disconnect(force) and connect().
AfterDisconnect(force) ==
  IF client = "connected" \/ (force /\ client = "connecting")
    THEN "closing" ELSE client

AfterConnect == IF client = "disconnected" THEN "connecting" ELSE client

-----------------------------------------------------------------------------
\* _handleMqttDisconnected: READY_TO_SLEEP is the last thing it does.
SleepReturnMutant ==
  ~mqttDisconnectNotified /\ flaggedForSleep /\ offlineAck = "consumed"
SleepReturn == ~mqttDisconnectNotified /\ flaggedForSleep

RecoveryAfterDisconnectMutant == recoveryInProgress
RecoveryAfterDisconnect == SleepReturn => recoveryInProgress

MqttTimerAfterDisconnectMutant(gotIp) == FALSE
MqttTimerAfterDisconnect(gotIp) ==
  IF SleepReturn THEN mqttReconnectTimer ELSE gotIp

AdvertAfterDisconnectMutant == advert
AdvertAfterDisconnect == 0

ReadyAfterDisconnectMutant == ready
ReadyAfterDisconnect == FALSE

\* The state every call of _handleMqttDisconnected leaves behind, apart from
\* the recovery clock and the reconnect timer, which its callers go on to set.
MqttSessionDown ==
  /\ otaDisconnected' = TRUE
  /\ offlineAck' = "none"
  /\ ready' = ReadyAfterDisconnect
  /\ mqttConnectNotified' = FALSE
  /\ mqttConnectInProgress' = FALSE
  /\ advert' = AdvertAfterDisconnect
  /\ mqttDisconnectNotified' = TRUE
  /\ lastMqttEvent' = IF mqttDisconnectNotified
                        THEN lastMqttEvent ELSE "MQTT_DISCONNECTED"
  /\ readyToSleep' = (readyToSleep \/ SleepReturn)

HandleMqttDisconnected ==
  /\ MqttSessionDown
  /\ recoveryInProgress' = RecoveryAfterDisconnect
  /\ mqttReconnectTimer' = MqttTimerAfterDisconnect(wifiGotIp)
  /\ UNCHANGED <<wifiLeg, client>>

\* One call of _advertise(): the step moves on only with a packet id, and the
\* last one repeats.
NextAdvertMutant == IF AdvertDone THEN advert ELSE advert + 2
NextAdvert == IF AdvertDone THEN advert ELSE advert + 1

AdvertiseStep == advert' \in {advert, NextAdvert}

HandleMqttConnected ==
  IF ~mqttDisconnectNotified /\ ~mqttConnectInProgress
    THEN UNCHANGED <<wifiLeg, session>>
    ELSE /\ mqttConnectInProgress' = FALSE
         /\ mqttDisconnectNotified' = FALSE
         /\ mqttReconnectTimer' = FALSE
         /\ AdvertiseStep
         /\ UNCHANGED <<wifiLeg, mqttConnectNotified, ready, offlineAck,
                        otaDisconnected, recoveryInProgress, client, told>>

WifiAlreadyHandledMutant == FALSE
WifiAlreadyHandled == wifiGotIp /\ ~wifiReconnectTimer

HandleWifiConnected ==
  IF WifiAlreadyHandled
    THEN UNCHANGED <<wifiLeg, session>>
    ELSE /\ wifiGotIp' = TRUE
         /\ wifiConnectInProgress' = FALSE
         /\ wifiReconnectTimer' = FALSE
         /\ client' = AfterDisconnect(FALSE)
         /\ MqttSessionDown
         /\ recoveryInProgress' = TRUE
         /\ mqttReconnectTimer' = TRUE

HandleWifiDisconnected ==
  IF ~wifiGotIp /\ ~wifiConnectInProgress /\ wifiReconnectTimer
    THEN UNCHANGED <<wifiLeg, session>>
    ELSE /\ wifiGotIp' = FALSE
         /\ wifiConnectInProgress' = FALSE
         /\ client' = AfterDisconnect(TRUE)
         /\ MqttSessionDown
         /\ recoveryInProgress' = TRUE
         /\ mqttReconnectTimer' = FALSE
         /\ wifiReconnectTimer' = TRUE

-----------------------------------------------------------------------------
\* _processPendingAsyncEvents: a flag says that something happened, the live
\* status says what.
WifiEvent ==
  /\ pc = "wifiEvent"
  /\ pc' = "mqttEvent"
  /\ wifiEventPending' = FALSE
  /\ IF ~wifiEventPending THEN UNCHANGED <<wifiLeg, session>>
     ELSE IF wifi = "up"  THEN HandleWifiConnected
     ELSE HandleWifiDisconnected
  /\ UNCHANGED <<otaOngoing, mqttEventPending, control, wifi, callbacks, stable>>

MqttEventMeansUpMutant == FALSE
MqttEventMeansUp == client = "connected"

MqttEvent ==
  /\ pc = "mqttEvent"
  /\ pc' = "service"
  /\ mqttEventPending' = FALSE
  /\ IF ~mqttEventPending    THEN UNCHANGED <<wifiLeg, session>>
     ELSE IF MqttEventMeansUp THEN HandleMqttConnected
     ELSE HandleMqttDisconnected
  /\ UNCHANGED <<otaOngoing, wifiEventPending, control, wifi, callbacks, stable>>

\* takeAcknowledged() at the end of _processPendingEventNotifications.
TakeAcknowledgedMutant == flaggedForSleep /\ offlineAck = "acknowledged" /\ ~disable
TakeAcknowledged == flaggedForSleep /\ offlineAck = "acknowledged"

\* _serviceOta, then _processPendingEventNotifications.
Service ==
  /\ pc = "service"
  /\ pc' = "reboot"
  /\ \/ otaOngoing' = (otaOngoing /\ ~otaDisconnected)
     \/ otaOngoing /\ otaOngoing' = FALSE      \* the inactivity timeout
  /\ otaDisconnected' = (otaDisconnected /\ ~otaOngoing)
  /\ IF TakeAcknowledged
       THEN offlineAck' = "consumed" /\ client' = AfterDisconnect(FALSE)
       ELSE UNCHANGED <<offlineAck, client>>
  /\ UNCHANGED <<wifiLeg, mqttDisconnectNotified, mqttConnectInProgress,
                 mqttReconnectTimer, mqttConnectNotified, advert, ready,
                 pending, recoveryInProgress, control, wifi, callbacks, stable,
                 told>>

\* A scheduled reboot happens once the sketch is idle and the last OTA status
\* has had its grace period.
Reboot == pc = "reboot" /\ flaggedForReboot /\ Restart

KeepRunning ==
  /\ pc = "reboot"
  /\ pc' = "driftWifi"
  /\ UNCHANGED <<wifiLeg, session, otaOngoing, pending, control, wifi,
                 callbacks, stable>>

\* _recoverIfNetworkStateDrifted
DriftWifi ==
  /\ pc = "driftWifi"
  /\ pc' = "driftMqtt"
  /\ IF wifi = "up" /\ ~wifiGotIp      THEN HandleWifiConnected
     ELSE IF wifi # "up" /\ wifiGotIp THEN HandleWifiDisconnected
     ELSE UNCHANGED <<wifiLeg, session>>
  /\ UNCHANGED <<otaOngoing, pending, control, wifi, callbacks, stable>>

DriftedUp ==
  client = "connected" /\ (mqttDisconnectNotified \/ mqttConnectInProgress)

DriftedDownMutant == FALSE
DriftedDown == client # "connected" /\ ~mqttDisconnectNotified /\ wifiGotIp

DriftMqtt ==
  /\ pc = "driftMqtt"
  /\ pc' = "stallWifi"
  /\ IF DriftedUp        THEN HandleMqttConnected
     ELSE IF DriftedDown THEN HandleMqttDisconnected
     ELSE UNCHANGED <<wifiLeg, session>>
  /\ UNCHANGED <<otaOngoing, pending, control, wifi, callbacks, stable>>

\* _recoverIfConnectAttemptStalled: nothing stalled, or not for 30 s yet.  A
\* stable network answers an attempt that really runs within the 30 s.
NotStalled ==
  /\ \/ pc = "stallWifi" /\ pc' = "stallMqtt"
     \/ pc = "stallMqtt" /\ pc' = "watchdog"
  /\ UNCHANGED <<wifiLeg, session, otaOngoing, pending, control, wifi,
                 callbacks, stable>>

WifiStalled ==
  /\ pc = "stallWifi"
  /\ wifiConnectInProgress /\ wifi # "up" /\ ~(stable /\ wifi = "joining")
  /\ pc' = "stallMqtt"
  /\ wifiConnectInProgress' = FALSE
  /\ wifiReconnectTimer' = TRUE
  /\ wifi' = "down"
  /\ wifiCallback' = (wifiCallback \/ wifi = "joining")
  /\ UNCHANGED <<wifiGotIp, session, otaOngoing, pending, control,
                 mqttCallback, stable>>

MqttStalled ==
  /\ pc = "stallMqtt"
  /\ mqttConnectInProgress /\ client # "connected"
  /\ ~(stable /\ wifi = "up" /\ client = "connecting")
  /\ pc' = "watchdog"
  /\ client' = AfterDisconnect(TRUE)
  /\ MqttSessionDown
  /\ recoveryInProgress' = RecoveryAfterDisconnect
  /\ mqttReconnectTimer' = (wifiGotIp \/ MqttTimerAfterDisconnect(wifiGotIp))
  /\ UNCHANGED <<wifiLeg, otaOngoing, pending, control, wifi, callbacks, stable>>

-----------------------------------------------------------------------------
\* The recovery watchdog and _scheduleRecoveryReboot.
WatchdogMayFireMutant ==
  /\ recoveryInProgress /\ ~wifiGotIp
  /\ ~disable /\ ~flaggedForSleep /\ ~otaOngoing /\ ~flaggedForReboot
WatchdogMayFire ==
  /\ recoveryInProgress
  /\ ~disable /\ ~flaggedForSleep /\ ~otaOngoing /\ ~flaggedForReboot

WatchdogFires ==
  /\ pc = "watchdog"
  /\ WatchdogMayFire
  /\ pc' = "wifiTimer"
  /\ disable' = TRUE
  /\ flaggedForReboot' = TRUE
  /\ UNCHANGED <<wifiLeg, session, otaOngoing, pending, flaggedForSleep,
                 resetFlag, wifi, callbacks, stable>>

\* The watchdog has not run out, or a back-off interval has not.
NotDue ==
  /\ \/ pc = "watchdog"  /\ pc' = "wifiTimer"
     \/ pc = "wifiTimer" /\ pc' = "mqttTimer"
     \/ pc = "mqttTimer" /\ pc' = "online"
  /\ UNCHANGED <<wifiLeg, session, otaOngoing, pending, control, wifi,
                 callbacks, stable>>

WifiConnect ==
  IF disable \/ wifiGotIp \/ wifiConnectInProgress
    THEN UNCHANGED <<wifiLeg, session, wifi>>
    ELSE IF wifi = "up" THEN HandleWifiConnected /\ UNCHANGED wifi
    ELSE /\ recoveryInProgress' = TRUE
         /\ wifiConnectInProgress' = TRUE
         /\ wifi' = "joining"
         /\ UNCHANGED <<wifiGotIp, wifiReconnectTimer, mqttLeg,
                        otaDisconnected, client, told>>

WifiTimerDue ==
  /\ pc = "wifiTimer"
  /\ ~wifiConnectInProgress /\ wifiReconnectTimer
  /\ pc' = "mqttTimer"
  /\ WifiConnect
  /\ UNCHANGED <<otaOngoing, pending, control, callbacks, stable>>

MqttConnectBlocked == ~wifiGotIp \/ disable \/ mqttConnectInProgress

MqttConnect ==
  IF MqttConnectBlocked
    THEN UNCHANGED <<wifiLeg, session>>
    ELSE IF client = "connected" THEN HandleMqttConnected
    ELSE /\ recoveryInProgress' = TRUE
         /\ mqttConnectInProgress' = TRUE
         /\ mqttConnectNotified' = FALSE
         /\ client' = AfterConnect
         /\ UNCHANGED <<wifiLeg, mqttDisconnectNotified, mqttReconnectTimer,
                        advert, ready, offlineAck, otaDisconnected, told>>

\* connect() takes the client mutex, so a callback that is running ends first.
MqttTimerDue ==
  /\ pc = "mqttTimer"
  /\ ~mqttConnectInProgress /\ mqttReconnectTimer
  /\ mqttCallback = "none"
  /\ pc' = "wifiEvent"
  /\ MqttConnect
  /\ UNCHANGED <<otaOngoing, pending, control, wifi, callbacks, stable>>

-----------------------------------------------------------------------------
\* loop() past the reconnect timers: only a connected client goes on.  A
\* message handled here may store a configuration (reboot) or ask for a reset.
Online ==
  /\ pc = "online"
  /\ \/ /\ client # "connected" /\ pc' = "wifiEvent"
        /\ UNCHANGED control
     \/ /\ client = "connected" /\ pc' = "session"
        /\ \/ UNCHANGED control
           \/ /\ "config" \in Requests
              /\ flaggedForReboot' = TRUE
              /\ UNCHANGED <<disable, flaggedForSleep, resetFlag>>
           \/ /\ "reset" \in Requests
              /\ disable' = TRUE /\ resetFlag' = TRUE
              /\ UNCHANGED <<flaggedForSleep, flaggedForReboot>>
  /\ UNCHANGED <<wifiLeg, session, otaOngoing, pending, wifi, callbacks, stable>>

Advertise ==
  /\ pc = "session"
  /\ ~AdvertDone
  /\ pc' = "wifiEvent"
  /\ AdvertiseStep
  /\ UNCHANGED <<wifiLeg, mqttDisconnectNotified, mqttConnectInProgress,
                 mqttReconnectTimer, mqttConnectNotified, ready, offlineAck,
                 ota, pending, recoveryInProgress, control, wifi, client,
                 callbacks, stable, told>>

HoldForOta ==
  /\ pc = "session"
  /\ AdvertDone /\ otaOngoing
  /\ pc' = "wifiEvent"
  /\ UNCHANGED <<wifiLeg, session, otaOngoing, pending, control, wifi,
                 callbacks, stable>>

\* The announcement: ready, the MQTT_READY event, the setup function.
AnnounceReady ==
  /\ pc = "session"
  /\ AdvertDone /\ ~otaOngoing /\ ~mqttConnectNotified
  /\ pc' = "wifiEvent"
  /\ recoveryInProgress' = FALSE
  /\ ready' = TRUE
  /\ lastMqttEvent' = "MQTT_READY"
  /\ mqttConnectNotified' = TRUE
  /\ UNCHANGED <<wifiLeg, mqttDisconnectNotified, mqttConnectInProgress,
                 mqttReconnectTimer, advert, offlineAck, ota, pending, control,
                 wifi, client, callbacks, stable, readyToSleep>>

\* The steady state: "sleeping" is published once, then the sketch runs.
RunSketch ==
  /\ pc = "session"
  /\ AdvertDone /\ ~otaOngoing /\ mqttConnectNotified
  /\ pc' = "wifiEvent"
  /\ \/ UNCHANGED offlineAck
     \/ offlineAck = "none" /\ flaggedForSleep /\ offlineAck' = "tracked"
  /\ UNCHANGED <<wifiLeg, mqttDisconnectNotified, mqttConnectInProgress,
                 mqttReconnectTimer, mqttConnectNotified, advert, ready, ota,
                 pending, recoveryInProgress, control, wifi, client, callbacks,
                 stable, told>>

-----------------------------------------------------------------------------
\* Calls from the sketch, between two iterations of Homie.loop().
PrepareToSleep ==
  /\ pc = "wifiEvent" /\ "sleep" \in Requests
  /\ disable' = TRUE
  /\ flaggedForSleep' = (flaggedForSleep \/ ready)
  /\ readyToSleep' = (readyToSleep \/ ~ready)
  /\ UNCHANGED <<pc, wifiLeg, mqttLeg, ota, pending, recoveryInProgress,
                 flaggedForReboot, resetFlag, wifi, client, callbacks, stable,
                 lastMqttEvent>>

\* Homie.reset(), Homie.reboot() and the reset button.
RequestReset ==
  /\ pc = "wifiEvent" /\ "reset" \in Requests
  /\ disable' = TRUE
  /\ resetFlag' = TRUE
  /\ UNCHANGED <<pc, wifiLeg, session, otaOngoing, pending, flaggedForSleep,
                 flaggedForReboot, wifi, callbacks, stable>>

\* ResetHandler::Loop() after the boot's loop(): prepared, or cancelled.
ResetPrepared == pc = "wifiEvent" /\ resetFlag /\ Restart

ResetCancelled ==
  /\ pc = "wifiEvent" /\ resetFlag
  /\ resetFlag' = FALSE
  /\ disable' = FALSE
  /\ UNCHANGED <<pc, wifiLeg, session, otaOngoing, pending, flaggedForSleep,
                 flaggedForReboot, wifi, callbacks, stable>>

-----------------------------------------------------------------------------
\* The Wi-Fi station.  Automatic reconnection is switched off, so it joins only
\* on WiFi.begin().
StationChange(from, to) ==
  /\ pc # "boot"
  /\ wifi = from
  /\ wifi' = to
  /\ wifiCallback' = TRUE
  /\ UNCHANGED <<pc, wifiLeg, session, otaOngoing, pending, control,
                 mqttCallback, stable>>

WifiJoined   == StationChange("joining", "up")
WifiTrouble  == /\ ~stable
                /\ \/ StationChange("joining", "down")
                   \/ StationChange("up", "down")
                   \/ StationChange("up", "up")        \* a DHCP renewal

\* _onWifiGotIp, _onWifiDisconnected
OnWifiCallback ==
  /\ wifiCallback
  /\ wifiCallback' = FALSE
  /\ \/ wifiEventPending' = TRUE
     \/ MissedEvents /\ UNCHANGED wifiEventPending
  /\ UNCHANGED <<pc, wifiLeg, session, otaOngoing, mqttEventPending, control,
                 wifi, mqttCallback, stable>>

\* The MQTT client's own task changes its state, then runs the callback.
ClientChange(from, to, callback) ==
  /\ pc # "boot"
  /\ client \in from /\ mqttCallback = "none"
  /\ client' = to
  /\ mqttCallback' = callback
  /\ UNCHANGED <<pc, wifiLeg, mqttLeg, ota, pending, recoveryInProgress,
                 control, wifi, wifiCallback, stable, told>>

ClientConnected == wifi = "up" /\ ClientChange({"connecting"}, "connected", "connect")
ClientClosed    == ClientChange({"closing"}, "disconnected", "disconnect")
ClientTrouble   == /\ ~stable \/ wifi # "up"
                   /\ ClientChange({"connecting", "connected"}, "disconnected",
                                   "disconnect")

\* _onMqttConnected, _onMqttDisconnected
OnMqttCallback ==
  /\ mqttCallback # "none"
  /\ mqttCallback' = "none"
  /\ \/ /\ mqttEventPending' = TRUE
        /\ otaDisconnected' = (otaDisconnected \/ mqttCallback = "disconnect")
     \/ MissedEvents /\ UNCHANGED <<mqttEventPending, otaDisconnected>>
  /\ UNCHANGED <<pc, wifiLeg, mqttLeg, otaOngoing, wifiEventPending,
                 recoveryInProgress, control, wifi, client, wifiCallback,
                 stable, told>>

\* _onMqttPublish for the tracked "sleeping" message.
OnPuback ==
  /\ client = "connected" /\ offlineAck = "tracked"
  /\ offlineAck' = "acknowledged"
  /\ UNCHANGED <<pc, wifiLeg, mqttDisconnectNotified, mqttConnectInProgress,
                 mqttReconnectTimer, mqttConnectNotified, advert, ready, ota,
                 pending, recoveryInProgress, control, wifi, client, callbacks,
                 stable, told>>

\* __handleOTAUpdates, reduced to where it touches connectivity: a transfer
\* begins (discarding a stale disconnect flag), fails, or succeeds.
OnFirmware ==
  /\ "ota" \in Requests
  /\ client = "connected" /\ ~flaggedForReboot /\ ~stable
  /\ otaOngoing' = ~otaOngoing
  /\ otaDisconnected' = FALSE
  /\ \/ UNCHANGED flaggedForReboot
     \/ otaOngoing /\ ~otaDisconnected /\ flaggedForReboot' = TRUE
  /\ UNCHANGED <<pc, wifiLeg, mqttLeg, pending, recoveryInProgress, disable,
                 flaggedForSleep, resetFlag, wifi, client, callbacks, stable,
                 told>>

\* From some point on the network may behave.
Stabilise ==
  /\ ~stable
  /\ stable' = TRUE
  /\ UNCHANGED <<pc, wifiLeg, session, otaOngoing, pending, control, wifi,
                 callbacks>>

-----------------------------------------------------------------------------
Loop ==
  \/ Setup \/ WifiEvent \/ MqttEvent \/ Service \/ Reboot \/ KeepRunning
  \/ DriftWifi \/ DriftMqtt \/ NotStalled \/ WifiStalled \/ MqttStalled
  \/ WatchdogFires \/ NotDue \/ WifiTimerDue \/ MqttTimerDue
  \/ Online \/ Advertise \/ HoldForOta \/ AnnounceReady \/ RunSketch

Sketch == PrepareToSleep \/ RequestReset \/ ResetPrepared \/ ResetCancelled

Outside ==
  \/ WifiJoined \/ WifiTrouble \/ OnWifiCallback
  \/ ClientConnected \/ ClientClosed \/ ClientTrouble \/ OnMqttCallback
  \/ OnPuback \/ OnFirmware \/ Stabilise

Next == Loop \/ Sketch \/ Outside

Spec == Init /\ [][Next]_vars

(***************************************************************************)
(* Waits that run out sooner or later: back-off intervals, attempt         *)
(* time-outs, a publish retried for ever, the OTA inactivity limit, the    *)
(* idleness a reset or a reboot waits for.  Strong, because the loop looks *)
(* at each of them once per iteration.                                     *)
(***************************************************************************)
WaitEnds ==
  \/ WifiTimerDue \/ MqttTimerDue \/ WifiStalled \/ MqttStalled
  \/ (Advertise /\ advert' # advert) \/ (RunSketch /\ offlineAck' # offlineAck)
  \/ (Service /\ otaOngoing /\ ~otaOngoing')

\* The main task keeps calling Homie.loop(); the station and the client have
\* tasks of their own.
Fairness ==
  /\ WF_vars(Loop)
  /\ SF_vars(WaitEnds)
  /\ SF_vars(Reboot \/ ResetPrepared \/ ResetCancelled)
  /\ WF_vars(WifiJoined \/ OnWifiCallback)
  /\ WF_vars(ClientConnected \/ ClientClosed \/ OnMqttCallback \/ OnPuback)

FairSpec == Spec /\ Fairness

-----------------------------------------------------------------------------
\* Type invariant: every flag is a flag, the advertisement stays within its
\* steps, and the loop is at one of its points.
TypeOK ==
  /\ pc \in LoopPoints \cup {"boot"}
  /\ advert \in 0..AdvertSteps
  /\ offlineAck \in {"none", "tracked", "acknowledged", "consumed"}
  /\ wifi \in {"down", "joining", "up"}
  /\ client \in {"disconnected", "connecting", "connected", "closing"}
  /\ mqttCallback \in {"none", "connect", "disconnect"}
  /\ lastMqttEvent \in {"none", "MQTT_READY", "MQTT_DISCONNECTED"}
  /\ wifiGotIp \in BOOLEAN /\ wifiConnectInProgress \in BOOLEAN
  /\ wifiReconnectTimer \in BOOLEAN /\ mqttDisconnectNotified \in BOOLEAN
  /\ mqttConnectInProgress \in BOOLEAN /\ mqttReconnectTimer \in BOOLEAN
  /\ mqttConnectNotified \in BOOLEAN /\ ready \in BOOLEAN
  /\ wifiEventPending \in BOOLEAN /\ mqttEventPending \in BOOLEAN
  /\ otaOngoing \in BOOLEAN /\ otaDisconnected \in BOOLEAN
  /\ recoveryInProgress \in BOOLEAN /\ disable \in BOOLEAN
  /\ flaggedForSleep \in BOOLEAN /\ flaggedForReboot \in BOOLEAN
  /\ resetFlag \in BOOLEAN /\ wifiCallback \in BOOLEAN
  /\ stable \in BOOLEAN /\ readyToSleep \in BOOLEAN

\* No leg is ever left without anything that would bring it back: a Wi-Fi leg
\* that is down has an attempt running or a timer armed, and so does an MQTT leg
\* that is down under a working Wi-Fi, whatever order events, drift checks,
\* stalled attempts and time-outs came in (unless the device goes to sleep).
NoStrandedLeg ==
  pc # "boot" =>
    /\ wifiGotIp \/ wifiConnectInProgress \/ wifiReconnectTimer
    /\ wifiGotIp /\ mqttDisconnectNotified /\ ~flaggedForSleep
         => mqttConnectInProgress \/ mqttReconnectTimer

\* The recovery watchdog is running whenever the device is not announced: no
\* path through the handlers stops the clock before MQTT_READY, or loses the
\* session without starting it.
WatchdogArmed ==
  pc # "boot" /\ ~mqttConnectNotified /\ ~flaggedForSleep => recoveryInProgress

\* What the sketch believes (isConnected(), the last MQTT event) is what the
\* session is: announced, fully advertised, over a Wi-Fi that has its address,
\* with no reconnection armed behind it.
SketchView ==
  /\ ready <=> mqttConnectNotified
  /\ ready <=> lastMqttEvent = "MQTT_READY"
  /\ ready => /\ wifiGotIp /\ ~mqttDisconnectNotified
              /\ AdvertDone /\ ~mqttReconnectTimer /\ ~recoveryInProgress

\* A connection inherits nothing of the session before it: readiness and the
\* offline acknowledgement are withdrawn, the disconnection has been told.  One
\* advertisement step may survive: when the client connects between the drift
\* check and the online check, loses the connection again and reconnects before
\* its event is processed, _resetAdvertisementProgress() is not called.
ConnectionStartsAfresh ==
  [][ client # "connected" /\ client' = "connected" =>
        /\ ~ready /\ ~mqttConnectNotified /\ offlineAck = "none"
        /\ mqttDisconnectNotified /\ advert <= 1 ]_vars

\* Readiness is withdrawn for a cause: the connection or the Wi-Fi is really
\* gone, or the device restarts.  A stale or duplicate flag never does it.
ReadinessWithdrawnForCause ==
  [][ ready /\ ~ready' =>
        client # "connected" \/ wifi # "up" \/ pc' = "boot" ]_vars

\* The loop closes a ready, connected session only when Wi-Fi is down or the
\* "sleeping" message of prepareToSleep() has been acknowledged.
SessionClosedForCause ==
  [][ ready /\ client = "connected" /\ client' = "closing" =>
        wifi # "up" \/ (flaggedForSleep /\ offlineAck = "acknowledged") ]_vars

\* The sleep handshake is never forgotten: while READY_TO_SLEEP is owed, the
\* announced session whose end will tell it is still there, whichever handler or
\* drift check ended a session and whether "sleeping" was acknowledged or not.
\* (NoStrandedLeg and WatchdogArmed except a device that is to sleep: without the
\* event it would neither sleep nor be brought back.)
SleepNotForgotten == flaggedForSleep => ready \/ readyToSleep

-----------------------------------------------------------------------------
\* An advertisement step published on a connection the loop has not handled:
\* the drift check still lies ahead, or that connection is gone.
StepUnseen ==
  /\ pc # "session" /\ client # "connecting"
  /\ client = "connected" => pc \in {"wifiEvent", "mqttEvent", "service",
                                    "reboot", "driftWifi", "driftMqtt"}

\* The flags of the two legs agree with each other and with the client: MQTT is
\* only attempted over a Wi-Fi that has its address, a handled session has no
\* attempt or timer behind it, and of a session the loop never handled at most
\* two advertisement steps are out, the second only while an attempt is booked.
Bookkeeping ==
  /\ pc = "boot" => ~wifiGotIp
  /\ pc = "session" => client # "connecting"
  /\ wifiGotIp => ~wifiConnectInProgress /\ ~wifiReconnectTimer
  /\ ~wifiGotIp => /\ mqttDisconnectNotified
                   /\ ~mqttConnectInProgress /\ ~mqttReconnectTimer
                   /\ client \in {"disconnected", "closing"}
  /\ ~mqttDisconnectNotified =>
       ~mqttConnectInProgress /\ ~mqttReconnectTimer /\ client # "connecting"
  /\ mqttDisconnectNotified =>
       /\ offlineAck = "none"
       /\ \/ advert = 0
          \/ advert = 1 /\ (mqttConnectInProgress \/ StepUnseen)
          \/ advert = 2 /\ mqttConnectInProgress /\ StepUnseen

\* The inductive invariant behind the theorems of ConnectivityProofs.
IInv == TypeOK /\ NoStrandedLeg /\ WatchdogArmed /\ SketchView /\ Bookkeeping

-----------------------------------------------------------------------------
\* A recovery that lasts reaches the watchdog's 15 minutes.
WatchdogRunsOut == <>[]WatchdogMayFire => []<>flaggedForReboot

\* No outage is silent for ever: the device gets back to ready, restarts, or is
\* held by firmware transfers that keep coming or by what the sketch asked for.
OutageEnds ==
  WatchdogRunsOut =>
    []<>(\/ ready \/ pc = "boot" \/ otaOngoing \/ flaggedForSleep
         \/ disable /\ ~flaggedForReboot)

\* On a network that behaves from some point on, the device becomes ready and
\* stays ready without the watchdog, whatever state the trouble left it in and
\* whichever callbacks were lost: _recoverIfNetworkStateDrifted() finds out.
StableRecovery ==
  <>[](stable /\ ~disable /\ ~flaggedForSleep /\ ~flaggedForReboot)
    => <>[](ready /\ client = "connected" /\ wifi = "up")

\* prepareToSleep() on a ready device ends in READY_TO_SLEEP (or a restart), unless
\* firmware transfers keep coming, which hold it off.
SleepCompletes ==
  <>[]~otaOngoing => (flaggedForSleep ~> (readyToSleep \/ pc = "boot"))
=============================================================================

------------------------- MODULE ConnectivityProofs -------------------------
(***************************************************************************)
(* The invariants and action properties of Connectivity, for every length  *)
(* of the advertisement, whether callbacks may be missed or not, and       *)
(* whatever is requested of the device.  IInv is inductive: TypeOK splits  *)
(* into flags (a step sets a flag to a Boolean or leaves it) and ranges;   *)
(* the rest is one case per action.                                        *)
(***************************************************************************)
EXTENDS Connectivity, TLAPS

USE DEF vars, wifiLeg, mqttLeg, ota, pending, control, callbacks, told, session

Flags ==
  /\ wifiGotIp \in BOOLEAN /\ wifiConnectInProgress \in BOOLEAN
  /\ wifiReconnectTimer \in BOOLEAN /\ mqttDisconnectNotified \in BOOLEAN
  /\ mqttConnectInProgress \in BOOLEAN /\ mqttReconnectTimer \in BOOLEAN
  /\ mqttConnectNotified \in BOOLEAN /\ ready \in BOOLEAN
  /\ wifiEventPending \in BOOLEAN /\ mqttEventPending \in BOOLEAN
  /\ otaOngoing \in BOOLEAN /\ otaDisconnected \in BOOLEAN
  /\ recoveryInProgress \in BOOLEAN /\ disable \in BOOLEAN
  /\ flaggedForSleep \in BOOLEAN /\ flaggedForReboot \in BOOLEAN
  /\ resetFlag \in BOOLEAN /\ wifiCallback \in BOOLEAN
  /\ stable \in BOOLEAN /\ readyToSleep \in BOOLEAN

Ranges ==
  /\ pc \in LoopPoints \cup {"boot"}
  /\ advert \in 0..AdvertSteps
  /\ offlineAck \in {"none", "tracked", "acknowledged", "consumed"}
  /\ wifi \in {"down", "joining", "up"}
  /\ client \in {"disconnected", "connecting", "connected", "closing"}
  /\ mqttCallback \in {"none", "connect", "disconnect"}
  /\ lastMqttEvent \in {"none", "MQTT_READY", "MQTT_DISCONNECTED"}

\* The type invariant, split into the flags and the rest.
LEMMA TypeParts == TypeOK <=> Flags /\ Ranges
BY Zenon DEF TypeOK, Flags, Ranges

\* What a step does to the flags.
Settled(old, new) == new = old \/ new \in BOOLEAN

FlagSteps ==
  /\ Settled(wifiGotIp, wifiGotIp')
  /\ Settled(wifiConnectInProgress, wifiConnectInProgress')
  /\ Settled(wifiReconnectTimer, wifiReconnectTimer')
  /\ Settled(mqttDisconnectNotified, mqttDisconnectNotified')
  /\ Settled(mqttConnectInProgress, mqttConnectInProgress')
  /\ Settled(mqttReconnectTimer, mqttReconnectTimer')
  /\ Settled(mqttConnectNotified, mqttConnectNotified')
  /\ Settled(ready, ready')
  /\ Settled(wifiEventPending, wifiEventPending')
  /\ Settled(mqttEventPending, mqttEventPending')
  /\ Settled(otaOngoing, otaOngoing')
  /\ Settled(otaDisconnected, otaDisconnected')
  /\ Settled(recoveryInProgress, recoveryInProgress')
  /\ Settled(disable, disable')
  /\ Settled(flaggedForSleep, flaggedForSleep')
  /\ Settled(flaggedForReboot, flaggedForReboot')
  /\ Settled(resetFlag, resetFlag')
  /\ Settled(wifiCallback, wifiCallback')
  /\ Settled(stable, stable')
  /\ Settled(readyToSleep, readyToSleep')

\* A variable that is kept or assigned a flag stays a flag.
LEMMA SettledFlag ==
  ASSUME NEW old \in BOOLEAN, NEW new, Settled(old, new) PROVE new \in BOOLEAN
BY Zenon DEF Settled

\* Steps that settle every flag keep every flag Boolean.
LEMMA FlagsKept == ASSUME Flags, FlagSteps PROVE Flags'
BY SettledFlag, Zenon DEF Flags, FlagSteps

\* Every step settles every flag.
LEMMA NextFlags == ASSUME wifiGotIp \in BOOLEAN, Next PROVE FlagSteps
<1> USE DEF FlagSteps, Settled
<1>1. CASE Setup
  BY <1>1, Zenon DEF Setup
<1>2. CASE WifiEvent
  BY <1>2, Zenon DEF WifiEvent, HandleWifiConnected, WifiAlreadyHandled,
      AfterDisconnect, MqttSessionDown, SleepReturn, ReadyAfterDisconnect,
      AdvertAfterDisconnect, HandleWifiDisconnected
<1>3. CASE MqttEvent
  <2>1. CASE UNCHANGED <<wifiLeg, session>>
    BY ONLY <1>3, <2>1, Zenon DEF MqttEvent
  <2>2. CASE HandleMqttConnected
    BY <1>3, <2>2, Zenon DEF MqttEvent, HandleMqttConnected
  <2>3. CASE HandleMqttDisconnected
    BY <1>3, <2>3, Zenon DEF MqttEvent, HandleMqttDisconnected, MqttSessionDown,
       RecoveryAfterDisconnect, MqttTimerAfterDisconnect, ReadyAfterDisconnect
  <2> QED BY <1>3, <2>1, <2>2, <2>3 DEF MqttEvent
<1>4. CASE Service
  BY <1>4, Zenon DEF Service, TakeAcknowledged, AfterDisconnect
<1>5. CASE Reboot
  BY <1>5, Zenon DEF Reboot, Restart
<1>6. CASE KeepRunning
  BY <1>6, Zenon DEF KeepRunning
<1>7. CASE DriftWifi
  BY <1>7, Zenon DEF DriftWifi, HandleWifiConnected, WifiAlreadyHandled,
      AfterDisconnect, MqttSessionDown, SleepReturn, ReadyAfterDisconnect,
      AdvertAfterDisconnect, HandleWifiDisconnected
<1>8. CASE DriftMqtt
  <2>1. CASE UNCHANGED <<wifiLeg, session>>
    BY ONLY <1>8, <2>1, Zenon DEF DriftMqtt
  <2>2. CASE HandleMqttConnected
    BY <1>8, <2>2, Zenon DEF DriftMqtt, HandleMqttConnected
  <2>3. CASE HandleMqttDisconnected
    BY <1>8, <2>3, Zenon DEF DriftMqtt, HandleMqttDisconnected, MqttSessionDown,
       RecoveryAfterDisconnect, MqttTimerAfterDisconnect, ReadyAfterDisconnect
  <2> QED BY <1>8, <2>1, <2>2, <2>3 DEF DriftMqtt
<1>9. CASE NotStalled
  BY <1>9, Zenon DEF NotStalled
<1>10. CASE WifiStalled
  BY <1>10, Zenon DEF WifiStalled
<1>11. CASE MqttStalled
  BY <1>11, Zenon DEF MqttStalled, AfterDisconnect, RecoveryAfterDisconnect,
      MqttTimerAfterDisconnect, MqttSessionDown, SleepReturn,
      ReadyAfterDisconnect, AdvertAfterDisconnect
<1>12. CASE WatchdogFires
  BY <1>12, Zenon DEF WatchdogFires
<1>13. CASE NotDue
  BY <1>13, Zenon DEF NotDue
<1>14. CASE WifiTimerDue
  BY <1>14, Zenon DEF WifiTimerDue, WifiConnect, HandleWifiConnected,
      WifiAlreadyHandled, AfterDisconnect, MqttSessionDown, SleepReturn,
      ReadyAfterDisconnect, AdvertAfterDisconnect
<1>15. CASE MqttTimerDue
  BY <1>15, Zenon DEF MqttTimerDue, MqttConnect, MqttConnectBlocked,
      AfterConnect, HandleMqttConnected, AdvertiseStep, NextAdvert
<1>16. CASE Online
  BY <1>16, Zenon DEF Online
<1>17. CASE Advertise
  BY <1>17, Zenon DEF Advertise, AdvertiseStep, NextAdvert
<1>18. CASE HoldForOta
  BY <1>18, Zenon DEF HoldForOta
<1>19. CASE AnnounceReady
  BY <1>19, Zenon DEF AnnounceReady
<1>20. CASE RunSketch
  BY <1>20, Zenon DEF RunSketch
<1>21. CASE PrepareToSleep
  BY <1>21, Zenon DEF PrepareToSleep
<1>22. CASE RequestReset
  BY <1>22, Zenon DEF RequestReset
<1>23. CASE ResetPrepared
  BY <1>23, Zenon DEF ResetPrepared, Restart
<1>24. CASE ResetCancelled
  BY <1>24, Zenon DEF ResetCancelled
<1>25. CASE WifiJoined
  BY <1>25, Zenon DEF WifiJoined, StationChange
<1>26. CASE WifiTrouble
  BY <1>26, Zenon DEF WifiTrouble, StationChange
<1>27. CASE OnWifiCallback
  BY <1>27, Zenon DEF OnWifiCallback
<1>28. CASE ClientConnected
  BY <1>28, Zenon DEF ClientConnected, ClientChange
<1>29. CASE ClientClosed
  BY <1>29, Zenon DEF ClientClosed, ClientChange
<1>30. CASE ClientTrouble
  BY <1>30, Zenon DEF ClientTrouble, ClientChange
<1>31. CASE OnMqttCallback
  BY <1>31, Zenon DEF OnMqttCallback
<1>32. CASE OnPuback
  BY <1>32, Zenon DEF OnPuback
<1>33. CASE OnFirmware
  BY <1>33, Zenon DEF OnFirmware
<1>34. CASE Stabilise
  BY <1>34, Zenon DEF Stabilise
<1> QED
  BY <1>1, <1>2, <1>3, <1>4, <1>5, <1>6, <1>7, <1>8, <1>9, <1>10, <1>11,
      <1>12, <1>13, <1>14, <1>15, <1>16, <1>17, <1>18, <1>19, <1>20, <1>21,
      <1>22, <1>23, <1>24, <1>25, <1>26, <1>27, <1>28, <1>29, <1>30, <1>31,
      <1>32, <1>33, <1>34
     DEF Next, Loop, Sketch, Outside

\* Every step keeps the loop point, the counters and the network in range.
LEMMA NextRanges == ASSUME TypeOK, Next PROVE Ranges'
<1> USE ConnectivityAssumption DEF TypeOK, Ranges, LoopPoints, AdvertDone
<1>1. CASE Setup
  BY <1>1 DEF Setup
<1>2. CASE WifiEvent
  BY <1>2 DEF WifiEvent, HandleWifiConnected, WifiAlreadyHandled,
      AfterDisconnect, MqttSessionDown, SleepReturn, ReadyAfterDisconnect,
      AdvertAfterDisconnect, HandleWifiDisconnected
<1>3. CASE MqttEvent
  BY <1>3 DEF MqttEvent, MqttEventMeansUp, HandleMqttConnected, AdvertiseStep,
      NextAdvert, HandleMqttDisconnected, RecoveryAfterDisconnect,
      MqttTimerAfterDisconnect, MqttSessionDown, SleepReturn,
      ReadyAfterDisconnect, AdvertAfterDisconnect
<1>4. CASE Service
  BY <1>4 DEF Service, TakeAcknowledged, AfterDisconnect
<1>5. CASE Reboot
  BY <1>5 DEF Reboot, Restart
<1>6. CASE KeepRunning
  BY <1>6 DEF KeepRunning
<1>7. CASE DriftWifi
  BY <1>7 DEF DriftWifi, HandleWifiConnected, WifiAlreadyHandled,
      AfterDisconnect, MqttSessionDown, SleepReturn, ReadyAfterDisconnect,
      AdvertAfterDisconnect, HandleWifiDisconnected
<1>8. CASE DriftMqtt
  BY <1>8 DEF DriftMqtt, DriftedUp, DriftedDown, HandleMqttConnected,
      AdvertiseStep, NextAdvert, HandleMqttDisconnected,
      RecoveryAfterDisconnect, MqttTimerAfterDisconnect, MqttSessionDown,
      SleepReturn, ReadyAfterDisconnect, AdvertAfterDisconnect
<1>9. CASE NotStalled
  BY <1>9 DEF NotStalled
<1>10. CASE WifiStalled
  BY <1>10 DEF WifiStalled
<1>11. CASE MqttStalled
  BY <1>11 DEF MqttStalled, AfterDisconnect, RecoveryAfterDisconnect,
      MqttTimerAfterDisconnect, MqttSessionDown, SleepReturn,
      ReadyAfterDisconnect, AdvertAfterDisconnect
<1>12. CASE WatchdogFires
  BY <1>12 DEF WatchdogFires
<1>13. CASE NotDue
  BY <1>13 DEF NotDue
<1>14. CASE WifiTimerDue
  <2>1. advert' = advert \/ advert' = 0
    BY <1>14, Zenon DEF WifiTimerDue, WifiConnect, HandleWifiConnected, MqttSessionDown,
       AdvertAfterDisconnect
  <2>2. advert' \in 0..AdvertSteps
    BY <2>1 DEF NextAdvert
  <2> QED
    BY <1>14, <2>2 DEF WifiTimerDue, WifiConnect, HandleWifiConnected,
        WifiAlreadyHandled, AfterDisconnect, MqttSessionDown, SleepReturn,
        ReadyAfterDisconnect, AdvertAfterDisconnect
<1>15. CASE MqttTimerDue
  <2>1. advert' = advert \/ advert' = NextAdvert
    BY <1>15, Zenon DEF MqttTimerDue, MqttConnect, HandleMqttConnected, AdvertiseStep
  <2>2. advert' \in 0..AdvertSteps
    BY <2>1 DEF NextAdvert
  <2> QED
    BY <1>15, <2>2 DEF MqttTimerDue, MqttConnect, MqttConnectBlocked,
        AfterConnect, HandleMqttConnected, AdvertiseStep
<1>16. CASE Online
  BY <1>16 DEF Online
<1>17. CASE Advertise
  BY <1>17 DEF Advertise, AdvertiseStep, NextAdvert
<1>18. CASE HoldForOta
  BY <1>18 DEF HoldForOta
<1>19. CASE AnnounceReady
  BY <1>19 DEF AnnounceReady
<1>20. CASE RunSketch
  BY <1>20 DEF RunSketch
<1>21. CASE PrepareToSleep
  BY <1>21 DEF PrepareToSleep
<1>22. CASE RequestReset
  BY <1>22 DEF RequestReset
<1>23. CASE ResetPrepared
  BY <1>23 DEF ResetPrepared, Restart
<1>24. CASE ResetCancelled
  BY <1>24 DEF ResetCancelled
<1>25. CASE WifiJoined
  BY <1>25 DEF WifiJoined, StationChange
<1>26. CASE WifiTrouble
  BY <1>26 DEF WifiTrouble, StationChange
<1>27. CASE OnWifiCallback
  BY <1>27 DEF OnWifiCallback
<1>28. CASE ClientConnected
  BY <1>28 DEF ClientConnected, ClientChange
<1>29. CASE ClientClosed
  BY <1>29 DEF ClientClosed, ClientChange
<1>30. CASE ClientTrouble
  BY <1>30 DEF ClientTrouble, ClientChange
<1>31. CASE OnMqttCallback
  BY <1>31 DEF OnMqttCallback
<1>32. CASE OnPuback
  BY <1>32 DEF OnPuback
<1>33. CASE OnFirmware
  BY <1>33 DEF OnFirmware
<1>34. CASE Stabilise
  BY <1>34 DEF Stabilise
<1> QED
  BY <1>1, <1>2, <1>3, <1>4, <1>5, <1>6, <1>7, <1>8, <1>9, <1>10, <1>11,
      <1>12, <1>13, <1>14, <1>15, <1>16, <1>17, <1>18, <1>19, <1>20, <1>21,
      <1>22, <1>23, <1>24, <1>25, <1>26, <1>27, <1>28, <1>29, <1>30, <1>31,
      <1>32, <1>33, <1>34
     DEF Next, Loop, Sketch, Outside

\* The type invariant is inductive.
LEMMA TypeStep == ASSUME TypeOK, [Next]_vars PROVE TypeOK'
<1>1. CASE Next
  <2>1. Flags'  BY <1>1, NextFlags, FlagsKept, TypeParts DEF TypeOK
  <2>2. Ranges' BY <1>1, NextRanges
  <2> QED BY <2>1, <2>2, Zenon DEF TypeOK, Flags, Ranges
<1>2. CASE UNCHANGED vars
  BY <1>2 DEF TypeOK, LoopPoints
<1> QED BY <1>1, <1>2

-----------------------------------------------------------------------------
\* The invariant is inductive: no action leaves the legs, the client, the
\* advertisement and the sketch's view disagreeing.
LEMMA InvStep ==
  ASSUME IInv, Next
  PROVE  (NoStrandedLeg /\ WatchdogArmed /\ SketchView /\ Bookkeeping)'
<1> USE ConnectivityAssumption DEF IInv, TypeOK, NoStrandedLeg, WatchdogArmed,
        SketchView, Bookkeeping, StepUnseen, AdvertDone, LoopPoints
<1>1. CASE Setup
  BY <1>1 DEF Setup
<1>2. CASE WifiEvent
  BY <1>2 DEF WifiEvent, HandleWifiConnected, WifiAlreadyHandled,
      AfterDisconnect, MqttSessionDown, SleepReturn, ReadyAfterDisconnect,
      AdvertAfterDisconnect, HandleWifiDisconnected
<1>3. CASE MqttEvent
  BY <1>3 DEF MqttEvent, MqttEventMeansUp, HandleMqttConnected, AdvertiseStep,
      NextAdvert, HandleMqttDisconnected, RecoveryAfterDisconnect,
      MqttTimerAfterDisconnect, MqttSessionDown, SleepReturn,
      ReadyAfterDisconnect, AdvertAfterDisconnect
<1>4. CASE Service
  BY <1>4 DEF Service, TakeAcknowledged, AfterDisconnect
<1>5. CASE Reboot
  BY <1>5 DEF Reboot, Restart
<1>6. CASE KeepRunning
  BY <1>6 DEF KeepRunning
<1>7. CASE DriftWifi
  BY <1>7 DEF DriftWifi, HandleWifiConnected, WifiAlreadyHandled,
      AfterDisconnect, MqttSessionDown, SleepReturn, ReadyAfterDisconnect,
      AdvertAfterDisconnect, HandleWifiDisconnected
<1>8. CASE DriftMqtt
  BY <1>8 DEF DriftMqtt, DriftedUp, DriftedDown, HandleMqttConnected,
      AdvertiseStep, NextAdvert, HandleMqttDisconnected,
      RecoveryAfterDisconnect, MqttTimerAfterDisconnect, MqttSessionDown,
      SleepReturn, ReadyAfterDisconnect, AdvertAfterDisconnect
<1>9. CASE NotStalled
  BY <1>9 DEF NotStalled
<1>10. CASE WifiStalled
  BY <1>10 DEF WifiStalled
<1>11. CASE MqttStalled
  BY <1>11 DEF MqttStalled, AfterDisconnect, RecoveryAfterDisconnect,
      MqttTimerAfterDisconnect, MqttSessionDown, SleepReturn,
      ReadyAfterDisconnect, AdvertAfterDisconnect
<1>12. CASE WatchdogFires
  BY <1>12 DEF WatchdogFires
<1>13. CASE NotDue
  BY <1>13 DEF NotDue
<1>14. CASE WifiTimerDue
  BY <1>14 DEF WifiTimerDue, WifiConnect, HandleWifiConnected,
      WifiAlreadyHandled, AfterDisconnect, MqttSessionDown, SleepReturn,
      ReadyAfterDisconnect, AdvertAfterDisconnect
<1>15. CASE MqttTimerDue
  BY <1>15 DEF MqttTimerDue, MqttConnect, MqttConnectBlocked, AfterConnect,
      HandleMqttConnected, AdvertiseStep, NextAdvert
<1>16. CASE Online
  BY <1>16 DEF Online
<1>17. CASE Advertise
  BY <1>17 DEF Advertise, AdvertiseStep, NextAdvert
<1>18. CASE HoldForOta
  BY <1>18 DEF HoldForOta
<1>19. CASE AnnounceReady
  BY <1>19 DEF AnnounceReady
<1>20. CASE RunSketch
  BY <1>20 DEF RunSketch
<1>21. CASE PrepareToSleep
  BY <1>21 DEF PrepareToSleep
<1>22. CASE RequestReset
  BY <1>22 DEF RequestReset
<1>23. CASE ResetPrepared
  BY <1>23 DEF ResetPrepared, Restart
<1>24. CASE ResetCancelled
  BY <1>24 DEF ResetCancelled
<1>25. CASE WifiJoined
  BY <1>25 DEF WifiJoined, StationChange
<1>26. CASE WifiTrouble
  BY <1>26 DEF WifiTrouble, StationChange
<1>27. CASE OnWifiCallback
  BY <1>27 DEF OnWifiCallback
<1>28. CASE ClientConnected
  BY <1>28 DEF ClientConnected, ClientChange
<1>29. CASE ClientClosed
  BY <1>29 DEF ClientClosed, ClientChange
<1>30. CASE ClientTrouble
  BY <1>30 DEF ClientTrouble, ClientChange
<1>31. CASE OnMqttCallback
  BY <1>31 DEF OnMqttCallback
<1>32. CASE OnPuback
  BY <1>32 DEF OnPuback
<1>33. CASE OnFirmware
  BY <1>33 DEF OnFirmware
<1>34. CASE Stabilise
  BY <1>34 DEF Stabilise
<1> QED
  BY <1>1, <1>2, <1>3, <1>4, <1>5, <1>6, <1>7, <1>8, <1>9, <1>10, <1>11,
      <1>12, <1>13, <1>14, <1>15, <1>16, <1>17, <1>18, <1>19, <1>20, <1>21,
      <1>22, <1>23, <1>24, <1>25, <1>26, <1>27, <1>28, <1>29, <1>30, <1>31,
      <1>32, <1>33, <1>34
     DEF Next, Loop, Sketch, Outside

\* Power-on satisfies the invariant.
LEMMA InvInit == Init => IInv
<1> SUFFICES ASSUME Init PROVE IInv
  OBVIOUS
<1>1. Flags
  BY Zenon DEF Init, PowerOn, Flags
<1>2. Ranges
  BY ConnectivityAssumption DEF Init, PowerOn, Ranges, LoopPoints
<1>3. NoStrandedLeg /\ WatchdogArmed /\ SketchView /\ Bookkeeping
  BY ConnectivityAssumption DEF Init, PowerOn, NoStrandedLeg, WatchdogArmed,
     SketchView, Bookkeeping
<1> QED BY <1>1, <1>2, <1>3, TypeParts DEF IInv

\* The inductive invariant holds in every reachable state.
THEOREM Invariance == Spec => []IInv
<1>1. Init => IInv
  BY InvInit
<1>2. IInv /\ [Next]_vars => IInv'
  <2> SUFFICES ASSUME IInv, [Next]_vars PROVE IInv'
    OBVIOUS
  <2>1. TypeOK'
    BY TypeStep DEF IInv
  <2>2. CASE Next
    BY <2>1, <2>2, InvStep DEF IInv
  <2>3. CASE UNCHANGED vars
    BY <2>3 DEF IInv, TypeOK, NoStrandedLeg, WatchdogArmed, SketchView,
       Bookkeeping, StepUnseen, AdvertDone, LoopPoints
  <2> QED BY <2>2, <2>3
<1> QED BY <1>1, <1>2, PTL DEF Spec

\* The type invariant, for every length of the advertisement.
THEOREM TypeCorrect == Spec => []TypeOK
<1>1. IInv => TypeOK
  BY DEF IInv
<1> QED BY <1>1, Invariance, PTL

\* No leg is ever stranded: what is down has an attempt or a timer behind it.
THEOREM NoLegIsStranded == Spec => []NoStrandedLeg
<1>1. IInv => NoStrandedLeg
  BY DEF IInv
<1> QED BY <1>1, Invariance, PTL

\* The recovery watchdog runs whenever the device is not announced.
THEOREM WatchdogIsArmed == Spec => []WatchdogArmed
<1>1. IInv => WatchdogArmed
  BY DEF IInv
<1> QED BY <1>1, Invariance, PTL

\* What the sketch is told is what the session is.
THEOREM SketchIsToldTheTruth == Spec => []SketchView
<1>1. IInv => SketchView
  BY DEF IInv
<1> QED BY <1>1, Invariance, PTL

\* While a handshake is owed, the session it belongs to is announced: only the end
\* of a session the loop has handled takes `ready' away, and it tells READY_TO_SLEEP.
LEMMA SleepStep ==
  ASSUME IInv, SleepNotForgotten, Next
  PROVE  SleepNotForgotten'
<1> USE DEF IInv, TypeOK, SketchView, SleepNotForgotten
<1>1. CASE Loop
  BY <1>1 DEF Setup, WifiEvent, MqttEvent, Service, Reboot, KeepRunning,
      DriftWifi, DriftMqtt, NotStalled, WifiStalled, MqttStalled,
      WatchdogFires, NotDue, WifiTimerDue, MqttTimerDue, Online, Advertise,
      HoldForOta, AnnounceReady, RunSketch, Loop, Restart,
      HandleMqttConnected, HandleMqttDisconnected, MqttSessionDown,
      SleepReturn, ReadyAfterDisconnect, HandleWifiConnected,
      HandleWifiDisconnected, WifiConnect, MqttConnect
<1>2. CASE Sketch
  BY <1>2 DEF PrepareToSleep, RequestReset, ResetPrepared, ResetCancelled,
      Sketch, Restart
<1>3. CASE Outside
  BY <1>3 DEF WifiJoined, WifiTrouble, OnWifiCallback, ClientConnected,
      ClientClosed, ClientTrouble, OnMqttCallback, OnPuback, OnFirmware,
      Stabilise, Outside, StationChange, ClientChange
<1> QED BY <1>1, <1>2, <1>3 DEF Next

\* A device that is to sleep has been told so, or has the session that will.
THEOREM SleepIsNotForgotten == Spec => []SleepNotForgotten
<1>1. Init => SleepNotForgotten
  BY DEF Init, PowerOn, SleepNotForgotten
<1>2. IInv /\ SleepNotForgotten /\ [Next]_vars => SleepNotForgotten'
  <2>1. ASSUME UNCHANGED vars, SleepNotForgotten PROVE SleepNotForgotten'
    BY <2>1 DEF SleepNotForgotten
  <2> QED BY <2>1, SleepStep
<1> QED BY <1>1, <1>2, Invariance, PTL DEF Spec

-----------------------------------------------------------------------------
\* A connection starts without readiness or acknowledgement of the last one,
\* and with at most one of its advertisement steps.
THEOREM NewConnectionIsFresh == Spec => ConnectionStartsAfresh
<1> DEFINE Fresh == client # "connected" /\ client' = "connected" =>
                      /\ ~ready /\ ~mqttConnectNotified /\ offlineAck = "none"
                      /\ mqttDisconnectNotified /\ advert <= 1
<1>1. ASSUME IInv, Next PROVE Fresh
  <2> SUFFICES ASSUME client # "connected", client' = "connected"
               PROVE  Fresh
    OBVIOUS
  <2>1. client = "connecting"
    <3>1. CASE Loop
      BY <1>1, <3>1 DEF IInv, TypeOK, Setup, WifiEvent, MqttEvent, Service,
          Reboot, KeepRunning, DriftWifi, DriftMqtt, NotStalled, WifiStalled,
          MqttStalled, WatchdogFires, NotDue, WifiTimerDue, MqttTimerDue,
          Online, Advertise, HoldForOta, AnnounceReady, RunSketch, Loop,
          Restart, HandleMqttConnected, AdvertiseStep, NextAdvert,
          HandleMqttDisconnected, RecoveryAfterDisconnect,
          MqttTimerAfterDisconnect, MqttSessionDown, SleepReturn,
          ReadyAfterDisconnect, AdvertAfterDisconnect, HandleWifiConnected,
          WifiAlreadyHandled, AfterDisconnect, HandleWifiDisconnected,
          AfterConnect, WifiConnect, MqttConnect, MqttConnectBlocked,
          DriftedUp, DriftedDown, MqttEventMeansUp, TakeAcknowledged
    <3>2. CASE Sketch
      BY <1>1, <3>2 DEF IInv, TypeOK, PrepareToSleep, RequestReset,
          ResetPrepared, ResetCancelled, Sketch, Restart
    <3>3. CASE Outside
      BY <1>1, <3>3 DEF IInv, TypeOK, WifiJoined, WifiTrouble, OnWifiCallback,
          ClientConnected, ClientClosed, ClientTrouble, OnMqttCallback,
          OnPuback, OnFirmware, Stabilise, Outside, StationChange,
          ClientChange
    <3> QED BY <1>1, <3>1, <3>2, <3>3 DEF Next
  <2> QED BY <1>1, <2>1 DEF IInv, TypeOK, Bookkeeping, SketchView, StepUnseen
<1>2. IInv /\ [Next]_vars => [Fresh]_vars
  BY <1>1
<1>3. [][Fresh]_vars => ConnectionStartsAfresh
  BY PTL DEF ConnectionStartsAfresh
<1> QED BY <1>2, <1>3, Invariance, PTL DEF Spec

\* Readiness is only withdrawn when the connection or the Wi-Fi is really gone.
THEOREM ReadinessIsKept == Spec => ReadinessWithdrawnForCause
<1> DEFINE Cause == ready /\ ~ready' =>
                      client # "connected" \/ wifi # "up" \/ pc' = "boot"
<1>1. ASSUME IInv, Next PROVE Cause
  <2> SUFFICES ASSUME ready, ~ready', client = "connected", wifi = "up"
               PROVE  pc' = "boot"
    BY DEF IInv, TypeOK
  <2> USE <1>1 DEF IInv, TypeOK, SketchView, Bookkeeping
  <2>1. CASE Loop
    BY <2>1 DEF Setup, WifiEvent, MqttEvent, Service, Reboot, KeepRunning,
        DriftWifi, DriftMqtt, NotStalled, WifiStalled, MqttStalled,
        WatchdogFires, NotDue, WifiTimerDue, MqttTimerDue, Online, Advertise,
        HoldForOta, AnnounceReady, RunSketch, Loop, Restart,
        HandleMqttConnected, AdvertiseStep, NextAdvert,
        HandleMqttDisconnected, RecoveryAfterDisconnect,
        MqttTimerAfterDisconnect, MqttSessionDown, SleepReturn,
        ReadyAfterDisconnect, AdvertAfterDisconnect, HandleWifiConnected,
        WifiAlreadyHandled, AfterDisconnect, HandleWifiDisconnected,
        AfterConnect, WifiConnect, MqttConnect, MqttConnectBlocked, DriftedUp,
        DriftedDown, MqttEventMeansUp, TakeAcknowledged
  <2>2. CASE Sketch
    BY <2>2 DEF PrepareToSleep, RequestReset, ResetPrepared, ResetCancelled,
        Sketch, Restart
  <2>3. CASE Outside
    BY <2>3 DEF WifiJoined, WifiTrouble, OnWifiCallback, ClientConnected,
        ClientClosed, ClientTrouble, OnMqttCallback, OnPuback, OnFirmware,
        Stabilise, Outside, StationChange, ClientChange
  <2> QED BY <1>1, <2>1, <2>2, <2>3 DEF Next
<1>2. IInv /\ [Next]_vars => [Cause]_vars
  BY <1>1
<1>3. [][Cause]_vars => ReadinessWithdrawnForCause
  BY PTL DEF ReadinessWithdrawnForCause
<1> QED BY <1>2, <1>3, Invariance, PTL DEF Spec

\* The loop closes a ready session only for lost Wi-Fi or an acknowledged sleep.
THEOREM SessionIsKept == Spec => SessionClosedForCause
<1> DEFINE Cause == ready /\ client = "connected" /\ client' = "closing" =>
                      \/ wifi # "up"
                      \/ flaggedForSleep /\ offlineAck = "acknowledged"
<1>1. ASSUME IInv, Next PROVE Cause
  <2> SUFFICES ASSUME ready, client = "connected", client' = "closing", wifi = "up"
               PROVE  flaggedForSleep /\ offlineAck = "acknowledged"
    BY DEF IInv, TypeOK
  <2> USE <1>1 DEF IInv, TypeOK, SketchView, Bookkeeping
  <2>1. CASE Loop
    BY <2>1 DEF Setup, WifiEvent, MqttEvent, Service, Reboot, KeepRunning,
        DriftWifi, DriftMqtt, NotStalled, WifiStalled, MqttStalled,
        WatchdogFires, NotDue, WifiTimerDue, MqttTimerDue, Online, Advertise,
        HoldForOta, AnnounceReady, RunSketch, Loop, Restart,
        HandleMqttConnected, AdvertiseStep, NextAdvert,
        HandleMqttDisconnected, RecoveryAfterDisconnect,
        MqttTimerAfterDisconnect, MqttSessionDown, SleepReturn,
        ReadyAfterDisconnect, AdvertAfterDisconnect, HandleWifiConnected,
        WifiAlreadyHandled, AfterDisconnect, HandleWifiDisconnected,
        AfterConnect, WifiConnect, MqttConnect, MqttConnectBlocked, DriftedUp,
        DriftedDown, MqttEventMeansUp, TakeAcknowledged
  <2>2. CASE Sketch
    BY <2>2 DEF PrepareToSleep, RequestReset, ResetPrepared, ResetCancelled,
        Sketch, Restart
  <2>3. CASE Outside
    BY <2>3 DEF WifiJoined, WifiTrouble, OnWifiCallback, ClientConnected,
        ClientClosed, ClientTrouble, OnMqttCallback, OnPuback, OnFirmware,
        Stabilise, Outside, StationChange, ClientChange
  <2> QED BY <1>1, <2>1, <2>2, <2>3 DEF Next
<1>2. IInv /\ [Next]_vars => [Cause]_vars
  BY <1>1
<1>3. [][Cause]_vars => SessionClosedForCause
  BY PTL DEF SessionClosedForCause
<1> QED BY <1>2, <1>3, Invariance, PTL DEF Spec
=============================================================================

------------------------- MODULE ConfigPortalProofs -------------------------
(***************************************************************************)
(* The safety properties of ConfigPortal, for every set of networks and    *)
(* brokers, every deadline and any number of tests.  IInv is inductive:    *)
(* one lemma per action, and in each one step per part of the invariant.   *)
(***************************************************************************)
EXTENDS ConfigPortal, TLAPS

USE DEF vars, net, task, flags

\* The Boolean part of the type invariant.
Flags ==
  /\ portal \in BOOLEAN /\ flaggedForReboot \in BOOLEAN
  /\ testMqttConnected \in BOOLEAN /\ meddled \in BOOLEAN

\* The variables that range over phases, steps, configurations and counts.
Ranges ==
  /\ stored \in Config /\ phase \in Phases /\ seen \in Phases
  /\ testConfig \in Config
  /\ pc \in {"load", "pump", "test", "rest"}
  /\ http \in [at : {"none", "claim", "parse"}, op : {"none", "save", "test"},
               changes : Changes, was : {"IDLE", "READY", "FAILED"}]
  /\ client \in {"down", "connecting", "up", "closing"}
  /\ server \in Mqtt \union {None}
  /\ callback \in [task : {"none", "async", "loop"},
                   kind : {"none", "accepted", "credentials", "lost"}]
  /\ testMqttError \in {"none", "credentials", "lost"}
  /\ testFailure \in 0..3 /\ elapsed \in Nat
  /\ test \in 0..MaxTests /\ session \in 0..MaxTests /\ refused \in 0..MaxTests
  /\ proof \in [test : 0..MaxTests, wifi : Wifi \union {None},
                mqtt : Mqtt \union {None}]

\* The station's record, which the connection attempts update by field.
TypeStation == station \in [up : BOOLEAN, wifi : Wifi \union {None}]

\* The type invariant is its flags, the station and the ranges of the rest.
LEMMA TypeParts == TypeOK <=> Flags /\ Ranges /\ TypeStation
BY Zenon DEF TypeOK, Flags, Ranges, TypeStation

\* A request to save finds no test in progress and claims nothing yet.
LEMMA ConfigRequestKeeps ==
  ASSUME PortalAssumption, IInv,
         NEW changes \in Changes, ConfigRequest(changes)
  PROVE  IInv'
<1>1. Flags /\ Ranges /\ TypeStation
  BY TypeParts DEF IInv
<1>2. Flags'
  BY <1>1 DEF Flags, ConfigRequest
<1>3. Ranges'
  BY <1>1 DEF IInv, Ranges, ConfigRequest
<1>4. TypeStation'
  BY <1>1 DEF TypeStation, ConfigRequest
<1>5. TypeOK'
  BY <1>2, <1>3, <1>4 DEF TypeOK, Flags, Ranges, TypeStation
<1>6. ClaimsHold'
  BY DEF IInv, ClaimsHold, TestHolds, ConfigRequest, HandlerMayStart
<1>7. CallbacksHold'
  BY DEF IInv, CallbacksHold, TestHolds, ConfigRequest
<1>8. TestHolds'
  BY DEF IInv, ClaimsHold, TestHolds, Standing, Tested, ConfigRequest
<1> QED BY <1>5, <1>6, <1>7, <1>8 DEF IInv

\* A request to test finds the client disconnected.
LEMMA ConfigTestRequestKeeps ==
  ASSUME PortalAssumption, IInv,
         NEW changes \in Changes, ConfigTestRequest(changes)
  PROVE  IInv'
<1>1. Flags /\ Ranges /\ TypeStation
  BY TypeParts DEF IInv
<1>2. Flags'
  BY <1>1 DEF Flags, ConfigTestRequest
<1>3. Ranges'
  BY <1>1 DEF IInv, Ranges, ConfigTestRequest
<1>4. TypeStation'
  BY <1>1 DEF TypeStation, ConfigTestRequest
<1>5. TypeOK'
  BY <1>2, <1>3, <1>4 DEF TypeOK, Flags, Ranges, TypeStation
<1>6. ClaimsHold'
  BY DEF IInv, ClaimsHold, TestHolds, ConfigTestRequest, HandlerMayStart
<1>7. CallbacksHold'
  BY DEF IInv, CallbacksHold, TestHolds, ConfigTestRequest
<1>8. TestHolds'
  BY DEF IInv, ClaimsHold, TestHolds, Standing, Tested, Explained,
      ConfigTestRequest
<1> QED BY <1>5, <1>6, <1>7, <1>8 DEF IInv

\* Moving the station is recorded.
LEMMA WifiConnectRequestKeeps ==
  ASSUME PortalAssumption, IInv,
         NEW wifi \in Wifi, WifiConnectRequest(wifi)
  PROVE  IInv'
<1>1. Flags /\ Ranges /\ TypeStation
  BY TypeParts DEF IInv
<1>2. Flags'
  BY <1>1 DEF Flags, WifiConnectRequest
<1>3. Ranges'
  BY <1>1 DEF IInv, Ranges, WifiConnectRequest
<1>4. TypeStation'
  BY <1>1 DEF TypeStation, WifiConnectRequest
<1>5. TypeOK'
  BY <1>2, <1>3, <1>4 DEF TypeOK, Flags, Ranges, TypeStation
<1>6. ClaimsHold'
  BY DEF IInv, ClaimsHold, TestHolds, WifiConnectRequest
<1>7. CallbacksHold'
  BY DEF IInv, CallbacksHold, TestHolds, WifiConnectRequest
<1>8. TestHolds'
  BY DEF IInv, TestHolds, Standing, Tested, Explained, WifiConnectRequest
<1> QED BY <1>5, <1>6, <1>7, <1>8 DEF IInv

\* Nothing the loop does can come between the request and its claim.
LEMMA ClaimConfigRequestKeeps ==
  ASSUME PortalAssumption, IInv,
         ClaimConfigRequest
  PROVE  IInv'
<1>1. Flags /\ Ranges /\ TypeStation
  BY TypeParts DEF IInv
<1>2. Flags'
  BY <1>1 DEF Flags, ClaimConfigRequest
<1>3. Ranges'
  BY <1>1 DEF IInv, Ranges, Blank, Phases, NoRequest, ClaimConfigRequest,
      Changes
<1>4. TypeStation'
  BY <1>1 DEF TypeStation, ClaimConfigRequest
<1>5. TypeOK'
  BY <1>2, <1>3, <1>4 DEF TypeOK, Flags, Ranges, TypeStation
<1>6. ClaimsHold'
  BY DEF IInv, TypeOK, ClaimsHold, TestHolds, Active, ClaimConfigRequest
<1>7. CallbacksHold'
  BY DEF IInv, CallbacksHold, TestHolds, ClaimConfigRequest
<1>8. TestHolds'
  BY DEF IInv, TypeOK, TestHolds, Standing, Tested, Explained, NoRequest,
      ClaimConfigRequest
<1> QED BY <1>5, <1>6, <1>7, <1>8 DEF IInv

\* A refused request leaves the phase it found, and what that phase means.
LEMMA RefuseRequestKeeps ==
  ASSUME PortalAssumption, IInv,
         RefuseRequest
  PROVE  IInv'
<1>1. Flags /\ Ranges /\ TypeStation
  BY TypeParts DEF IInv
<1>2. Flags'
  BY <1>1 DEF Flags, RefuseRequest
<1>3. Ranges'
  BY <1>1 DEF IInv, Ranges, Blank, Phases, NoRequest, RefuseRequest, Changes
<1>4. TypeStation'
  BY <1>1 DEF TypeStation, RefuseRequest
<1>5. TypeOK'
  BY <1>2, <1>3, <1>4 DEF TypeOK, Flags, Ranges, TypeStation
<1>6. ClaimsHold'
  BY DEF IInv, TypeOK, ClaimsHold, TestHolds, Active, NoRequest, RefuseRequest
<1>7. CallbacksHold'
  BY DEF IInv, CallbacksHold, TestHolds, RefuseRequest
<1>8. TestHolds'
  BY DEF IInv, TypeOK, TestHolds, Standing, Tested, Explained, NoRequest,
      RefuseRequest
<1> QED BY <1>5, <1>6, <1>7, <1>8 DEF IInv

\* A save ends in a phase nothing but a restart leaves.
LEMMA SaveConfigKeeps ==
  ASSUME PortalAssumption, IInv,
         SaveConfig
  PROVE  IInv'
<1>1. Flags /\ Ranges /\ TypeStation
  BY TypeParts DEF IInv
<1>2. Flags'
  BY <1>1 DEF Flags, SaveConfig
<1>3. Ranges'
  BY <1>1 DEF IInv, Ranges, Config, Blank, Phases, NoRequest, SaveConfig,
      Parsed, Merge, Changes
<1>4. TypeStation'
  BY <1>1 DEF TypeStation, SaveConfig
<1>5. TypeOK'
  BY <1>2, <1>3, <1>4 DEF TypeOK, Flags, Ranges, TypeStation
<1>6. ClaimsHold'
  BY DEF IInv, ClaimsHold, TestHolds, Active, NoRequest, SaveConfig
<1>7. CallbacksHold'
  BY DEF IInv, CallbacksHold, TestHolds, SaveConfig
<1>8. TestHolds'
  BY DEF IInv, TestHolds, Standing, NoRequest, SaveConfig
<1> QED BY <1>5, <1>6, <1>7, <1>8 DEF IInv

\* A new test has no session yet and the client is disconnected.
LEMMA QueueTestKeeps ==
  ASSUME PortalAssumption, IInv,
         QueueTest
  PROVE  IInv'
<1>1. Flags /\ Ranges /\ TypeStation
  BY TypeParts DEF IInv
<1>2. Flags'
  BY <1>1 DEF Flags, QueueTest
<1>3. Ranges'
  BY <1>1 DEF IInv, ClaimsHold, Ranges, Config, Blank, Phases, NoRequest,
      QueueTest, Parsed, Merge, Changes
<1>4. TypeStation'
  BY <1>1 DEF TypeStation, QueueTest
<1>5. TypeOK'
  BY <1>2, <1>3, <1>4 DEF TypeOK, Flags, Ranges, TypeStation
<1>6. ClaimsHold'
  BY DEF IInv, ClaimsHold, TestHolds, Active, NoRequest, QueueTest
<1>7. CallbacksHold'
  BY DEF IInv, CallbacksHold, TestHolds, QueueTest
<1>8. TestHolds'
  BY DEF IInv, TypeOK, ClaimsHold, TestHolds, Standing, NoRequest, QueueTest
<1> QED BY <1>5, <1>6, <1>7, <1>8 DEF IInv

\* What the client finds out on its own task is about the last session.
LEMMA ClientEventKeeps ==
  ASSUME PortalAssumption, IInv,
         ClientEvent
  PROVE  IInv'
<1>1. Flags /\ Ranges /\ TypeStation
  BY TypeParts DEF IInv
<1>2. Flags'
  BY <1>1 DEF Flags, ClientEvent, ClientSettles
<1>3. Ranges'
  BY <1>1 DEF IInv, Ranges, TypeStation, ClientEvent, ClientSettles
<1>4. TypeStation'
  BY <1>1 DEF TypeStation, ClientEvent
<1>5. TypeOK'
  BY <1>2, <1>3, <1>4 DEF TypeOK, Flags, Ranges, TypeStation
<1>6. ClaimsHold'
  BY DEF IInv, ClaimsHold, TestHolds, NoRequest, ClientEvent
<1>7. CallbacksHold'
  BY DEF IInv, CallbacksHold, TestHolds, ClientEvent, ClientSettles
<1>8. TestHolds'
  BY DEF IInv, TestHolds, Standing, Tested, Explained, ClientEvent,
      ClientSettles
<1> QED BY <1>5, <1>6, <1>7, <1>8 DEF IInv

\* A callback on the task of AsyncTCP tells of the last session.
LEMMA ClientCallbackKeeps ==
  ASSUME PortalAssumption, IInv,
         ClientCallback
  PROVE  IInv'
<1>1. Flags /\ Ranges /\ TypeStation
  BY TypeParts DEF IInv
<1>2. Flags'
  BY <1>1 DEF Flags, ClientCallback, CallBack
<1>3. Ranges'
  BY <1>1 DEF IInv, Ranges, NoCallback, ClientCallback, CallBack
<1>4. TypeStation'
  BY <1>1 DEF TypeStation, ClientCallback
<1>5. TypeOK'
  BY <1>2, <1>3, <1>4 DEF TypeOK, Flags, Ranges, TypeStation
<1>6. ClaimsHold'
  BY DEF IInv, ClaimsHold, TestHolds, ClientCallback, CallBack
<1>7. CallbacksHold'
  BY DEF IInv, CallbacksHold, TestHolds, NoCallback, ClientCallback, CallBack
<1>8. TestHolds'
  BY DEF IInv, CallbacksHold, TestHolds, Standing, Tested, Explained,
      NoCallback, ClientCallback, CallBack
<1> QED BY <1>5, <1>6, <1>7, <1>8 DEF IInv

\* An active phase the loop has loaded stays.
LEMMA LoadPhaseKeeps ==
  ASSUME PortalAssumption, IInv,
         LoadPhase
  PROVE  IInv'
<1>1. Flags /\ Ranges /\ TypeStation
  BY TypeParts DEF IInv
<1>2. Flags'
  BY <1>1 DEF Flags, LoadPhase
<1>3. Ranges'
  BY <1>1 DEF IInv, Ranges, LoadPhase
<1>4. TypeStation'
  BY <1>1 DEF TypeStation, LoadPhase
<1>5. TypeOK'
  BY <1>2, <1>3, <1>4 DEF TypeOK, Flags, Ranges, TypeStation
<1>6. ClaimsHold'
  BY DEF IInv, ClaimsHold, TestHolds, LoadPhase
<1>7. CallbacksHold'
  BY DEF IInv, CallbacksHold, TestHolds, LoadPhase
<1>8. TestHolds'
  BY DEF IInv, TestHolds, Standing, Tested, Explained, LoadPhase
<1> QED BY <1>5, <1>6, <1>7, <1>8 DEF IInv

\* What the client finds out in its loop() is about the last session.
LEMMA PumpKeeps ==
  ASSUME PortalAssumption, IInv,
         Pump
  PROVE  IInv'
<1>1. Flags /\ Ranges /\ TypeStation
  BY TypeParts DEF IInv
<1>2. Flags'
  BY <1>1 DEF Flags, Pump, ClientSettles
<1>3. Ranges'
  BY <1>1 DEF IInv, Ranges, TypeStation, Pump, Loop, ClientSettles
<1>4. TypeStation'
  BY <1>1 DEF TypeStation, Pump
<1>5. TypeOK'
  BY <1>2, <1>3, <1>4 DEF TypeOK, Flags, Ranges, TypeStation
<1>6. ClaimsHold'
  BY DEF IInv, ClaimsHold, TestHolds, Pump, Loop, ClientSettles
<1>7. CallbacksHold'
  BY DEF IInv, ClaimsHold, CallbacksHold, TestHolds, Active, Pump, Loop,
      ClientSettles
<1>8. TestHolds'
  BY DEF IInv, TestHolds, Standing, Tested, Explained, Pump, ClientSettles
<1> QED BY <1>5, <1>6, <1>7, <1>8 DEF IInv

\* A callback from the client's loop() tells of the last session.
LEMMA PumpCallbackKeeps ==
  ASSUME PortalAssumption, IInv,
         PumpCallback
  PROVE  IInv'
<1>1. Flags /\ Ranges /\ TypeStation
  BY TypeParts DEF IInv
<1>2. Flags'
  BY <1>1 DEF Flags, PumpCallback, CallBack
<1>3. Ranges'
  BY <1>1 DEF IInv, Ranges, NoCallback, PumpCallback, CallBack
<1>4. TypeStation'
  BY <1>1 DEF TypeStation, PumpCallback
<1>5. TypeOK'
  BY <1>2, <1>3, <1>4 DEF TypeOK, Flags, Ranges, TypeStation
<1>6. ClaimsHold'
  BY DEF IInv, ClaimsHold, TestHolds, NoCallback, PumpCallback, CallBack
<1>7. CallbacksHold'
  BY DEF IInv, CallbacksHold, TestHolds, NoCallback, PumpCallback, CallBack
<1>8. TestHolds'
  BY DEF IInv, CallbacksHold, TestHolds, Standing, Tested, Explained,
      NoCallback, PumpCallback, CallBack
<1> QED BY <1>5, <1>6, <1>7, <1>8 DEF IInv

\* A test begins with the verdicts of the tests before forgotten.
LEMMA LoopQueuedKeeps ==
  ASSUME PortalAssumption, IInv,
         LoopQueued
  PROVE  IInv'
<1>1. Flags /\ Ranges /\ TypeStation
  BY TypeParts DEF IInv
<1>2. Flags'
  BY <1>1 DEF Flags, LoopQueued, LoopTest, ForgetVerdict
<1>3. Ranges'
  BY <1>1 DEF IInv, Ranges, Phases, LoopQueued, LoopTest, Loop, ForgetVerdict,
      Fail
<1>4. TypeStation'
  <2>1. testConfig.wifi \in Wifi \union {None}
    BY <1>1 DEF Ranges, Config
  <2>2. station' \in {station, NoStation,
                      [up |-> FALSE, wifi |-> testConfig.wifi]}
    BY DEF LoopQueued
  <2>3. \A w \in Wifi \union {None} :
          [up |-> FALSE, wifi |-> w] \in [up : BOOLEAN, wifi : Wifi \union {None}]
    OBVIOUS
  <2>4. NoStation \in [up : BOOLEAN, wifi : Wifi \union {None}]
    BY <2>3 DEF NoStation
  <2> QED BY Zenon, <1>1, <2>1, <2>2, <2>3, <2>4 DEF TypeStation
<1>5. TypeOK'
  BY <1>2, <1>3, <1>4 DEF TypeOK, Flags, Ranges, TypeStation
<1>6. ClaimsHold'
  BY DEF IInv, TypeOK, ClaimsHold, TestHolds, Active, LoopQueued, LoopTest,
      Loop, Fail
<1>7. CallbacksHold'
  BY DEF IInv, CallbacksHold, TestHolds, LoopQueued, LoopTest
<1>8. TestHolds'
  BY DEF IInv, TypeOK, ClaimsHold, TestHolds, Active, Standing, Explained,
      LoopQueued, LoopTest, Loop, ForgetVerdict, Fail
<1> QED BY <1>5, <1>6, <1>7, <1>8 DEF IInv

\* The session of a test is opened for its candidate, or the network was
\* missed.
LEMMA LoopWifiKeeps ==
  ASSUME PortalAssumption, IInv,
         LoopWifi
  PROVE  IInv'
<1>1. Flags /\ Ranges /\ TypeStation
  BY TypeParts DEF IInv
<1>2. Flags'
  BY <1>1 DEF Flags, LoopWifi, LoopTest
<1>3. Ranges'
  BY <1>1 DEF IInv, Ranges, Config, Phases, LoopWifi, LoopTest, Loop, Fail
<1>4. TypeStation'
  BY <1>1 DEF TypeStation, LoopWifi
<1>5. TypeOK'
  BY <1>2, <1>3, <1>4 DEF TypeOK, Flags, Ranges, TypeStation
<1>6. ClaimsHold'
  BY DEF IInv, TypeOK, ClaimsHold, TestHolds, Active, LoopWifi, LoopTest,
      Loop, Fail
<1>7. CallbacksHold'
  BY DEF IInv, ClaimsHold, CallbacksHold, TestHolds, Active, LoopWifi,
      LoopTest, Loop
<1>8. TestHolds'
  BY DEF IInv, TypeOK, ClaimsHold, CallbacksHold, TestHolds, Active, Standing,
      Explained, LoopWifi, LoopTest, Loop, Fail
<1> QED BY <1>5, <1>6, <1>7, <1>8 DEF IInv

\* The verdict of the session becomes the verdict of the test.
LEMMA LoopMqttKeeps ==
  ASSUME PortalAssumption, IInv,
         LoopMqtt
  PROVE  IInv'
<1>1. Flags /\ Ranges /\ TypeStation
  BY TypeParts DEF IInv
<1>2. Flags'
  BY <1>1 DEF Flags, LoopMqtt, LoopTest
<1>3. Ranges'
  BY <1>1 DEF IInv, Ranges, Phases, LoopMqtt, LoopTest, Loop, Disconnect, Fail
<1>4. TypeStation'
  BY <1>1 DEF TypeStation, LoopMqtt
<1>5. TypeOK'
  BY <1>2, <1>3, <1>4 DEF TypeOK, Flags, Ranges, TypeStation
<1>6. ClaimsHold'
  BY DEF IInv, TypeOK, ClaimsHold, TestHolds, Active, LoopMqtt, LoopTest,
      Loop, Fail
<1>7. CallbacksHold'
  BY DEF IInv, CallbacksHold, TestHolds, LoopMqtt, LoopTest
<1>8. TestHolds'
  BY DEF IInv, ClaimsHold, TestHolds, Active, Standing, Tested, Explained,
      LoopMqtt, LoopTest, Loop, Accepted, Disconnect, Fail
<1> QED BY <1>5, <1>6, <1>7, <1>8 DEF IInv

\* A test is only done when the client is disconnected.
LEMMA LoopClosingKeeps ==
  ASSUME PortalAssumption, IInv,
         LoopClosing
  PROVE  IInv'
<1>1. Flags /\ Ranges /\ TypeStation
  BY TypeParts DEF IInv
<1>2. Flags'
  BY <1>1 DEF Flags, LoopClosing, LoopTest
<1>3. Ranges'
  BY <1>1 DEF IInv, Ranges, Phases, LoopClosing, LoopTest, Loop, Fail
<1>4. TypeStation'
  BY <1>1 DEF TypeStation, LoopClosing
<1>5. TypeOK'
  BY <1>2, <1>3, <1>4 DEF TypeOK, Flags, Ranges, TypeStation
<1>6. ClaimsHold'
  BY DEF IInv, TypeOK, ClaimsHold, TestHolds, Active, LoopClosing, LoopTest,
      Loop, Fail
<1>7. CallbacksHold'
  BY DEF IInv, CallbacksHold, TestHolds, LoopClosing, LoopTest
<1>8. TestHolds'
  BY DEF IInv, ClaimsHold, TestHolds, Active, Standing, Tested, Explained,
      LoopClosing, LoopTest, Loop, Fail
<1> QED BY <1>5, <1>6, <1>7, <1>8 DEF IInv

\* In the other phases the loop changes nothing.
LEMMA LoopOtherKeeps ==
  ASSUME PortalAssumption, IInv,
         LoopOther
  PROVE  IInv'
<1>1. Flags /\ Ranges /\ TypeStation
  BY TypeParts DEF IInv
<1>2. Flags'
  BY <1>1 DEF Flags, LoopOther, LoopTest
<1>3. Ranges'
  BY <1>1 DEF IInv, Ranges, LoopOther, LoopTest, Loop
<1>4. TypeStation'
  BY <1>1 DEF TypeStation, LoopOther
<1>5. TypeOK'
  BY <1>2, <1>3, <1>4 DEF TypeOK, Flags, Ranges, TypeStation
<1>6. ClaimsHold'
  BY DEF IInv, ClaimsHold, TestHolds, LoopOther, LoopTest, Loop
<1>7. CallbacksHold'
  BY DEF IInv, CallbacksHold, TestHolds, LoopOther, LoopTest
<1>8. TestHolds'
  BY DEF IInv, TestHolds, Standing, Tested, Explained, LoopOther, LoopTest
<1> QED BY <1>5, <1>6, <1>7, <1>8 DEF IInv

\* The rest of the loop changes nothing.
LEMMA LoopRestKeeps ==
  ASSUME PortalAssumption, IInv,
         LoopRest
  PROVE  IInv'
<1>1. Flags /\ Ranges /\ TypeStation
  BY TypeParts DEF IInv
<1>2. Flags'
  BY <1>1 DEF Flags, LoopRest
<1>3. Ranges'
  BY <1>1 DEF IInv, Ranges, LoopRest, Loop
<1>4. TypeStation'
  BY <1>1 DEF TypeStation, LoopRest
<1>5. TypeOK'
  BY <1>2, <1>3, <1>4 DEF TypeOK, Flags, Ranges, TypeStation
<1>6. ClaimsHold'
  BY DEF IInv, ClaimsHold, TestHolds, LoopRest, Loop
<1>7. CallbacksHold'
  BY DEF IInv, CallbacksHold, TestHolds, LoopRest, Loop
<1>8. TestHolds'
  BY DEF IInv, TestHolds, Standing, Tested, Explained, LoopRest
<1> QED BY <1>5, <1>6, <1>7, <1>8 DEF IInv

\* A restart forgets everything but the configuration.
LEMMA RebootKeeps ==
  ASSUME PortalAssumption, IInv,
         Reboot
  PROVE  IInv'
<1>1. Flags /\ Ranges /\ TypeStation
  BY TypeParts DEF IInv
<1>2. Flags'
  BY <1>1 DEF Flags, Reboot, Reset
<1>3. Ranges'
  BY <1>1 DEF IInv, Ranges, Config, Blank, Phases, NoRequest, NoCallback,
      NoProof, Reboot, Reset, Changes
<1>4. TypeStation'
  BY <1>1 DEF TypeStation, NoStation, Reboot, Reset
<1>5. TypeOK'
  BY <1>2, <1>3, <1>4 DEF TypeOK, Flags, Ranges, TypeStation
<1>6. ClaimsHold'
  BY DEF IInv, ClaimsHold, TestHolds, NoRequest, Reboot, Reset
<1>7. CallbacksHold'
  BY DEF IInv, CallbacksHold, TestHolds, NoCallback, Reboot, Reset
<1>8. TestHolds'
  BY DEF IInv, TestHolds, Standing, NoRequest, Reboot, Reset
<1> QED BY <1>5, <1>6, <1>7, <1>8 DEF IInv

\* Nothing depends on how much time has passed.
LEMMA TickKeeps ==
  ASSUME PortalAssumption, IInv,
         Tick
  PROVE  IInv'
<1>1. Flags /\ Ranges /\ TypeStation
  BY TypeParts DEF IInv
<1>2. Flags'
  BY <1>1 DEF Flags, Tick
<1>3. Ranges'
  BY <1>1 DEF IInv, Ranges, Tick
<1>4. TypeStation'
  BY <1>1 DEF TypeStation, Tick
<1>5. TypeOK'
  BY <1>2, <1>3, <1>4 DEF TypeOK, Flags, Ranges, TypeStation
<1>6. ClaimsHold'
  BY DEF IInv, ClaimsHold, TestHolds, Tick
<1>7. CallbacksHold'
  BY DEF IInv, CallbacksHold, TestHolds, Tick
<1>8. TestHolds'
  BY DEF IInv, TestHolds, Standing, Tested, Explained, Tick
<1> QED BY <1>5, <1>6, <1>7, <1>8 DEF IInv

\* The station keeps the section it was begun with.
LEMMA StationEventKeeps ==
  ASSUME PortalAssumption, IInv,
         StationEvent
  PROVE  IInv'
<1>1. Flags /\ Ranges /\ TypeStation
  BY TypeParts DEF IInv
<1>2. Flags'
  BY <1>1 DEF Flags, StationEvent
<1>3. Ranges'
  BY <1>1 DEF IInv, Ranges, StationEvent
<1>4. TypeStation'
  BY <1>1 DEF TypeStation, StationEvent
<1>5. TypeOK'
  BY <1>2, <1>3, <1>4 DEF TypeOK, Flags, Ranges, TypeStation
<1>6. ClaimsHold'
  BY DEF IInv, ClaimsHold, TestHolds, StationEvent
<1>7. CallbacksHold'
  BY DEF IInv, CallbacksHold, TestHolds, StationEvent
<1>8. TestHolds'
  BY DEF IInv, TestHolds, Standing, Tested, Explained, StationEvent
<1> QED BY <1>5, <1>6, <1>7, <1>8 DEF IInv

\* A boot starts with nothing but the configuration.
LEMMA BootKeeps ==
  ASSUME PortalAssumption, IInv,
         Boot
  PROVE  IInv'
<1>1. Flags /\ Ranges /\ TypeStation
  BY TypeParts DEF IInv
<1>2. Flags'
  BY <1>1 DEF Flags, Boot, Reset
<1>3. Ranges'
  BY <1>1 DEF IInv, Ranges, Config, Blank, Phases, NoRequest, NoCallback,
      NoProof, Boot, Reset, Changes
<1>4. TypeStation'
  BY <1>1 DEF TypeStation, NoStation, Boot, Reset
<1>5. TypeOK'
  BY <1>2, <1>3, <1>4 DEF TypeOK, Flags, Ranges, TypeStation
<1>6. ClaimsHold'
  BY DEF IInv, ClaimsHold, TestHolds, NoRequest, Boot, Reset
<1>7. CallbacksHold'
  BY DEF IInv, CallbacksHold, TestHolds, NoCallback, Boot, Reset
<1>8. TestHolds'
  BY DEF IInv, TestHolds, Standing, NoRequest, Boot, Reset
<1> QED BY <1>5, <1>6, <1>7, <1>8 DEF IInv

-----------------------------------------------------------------------------
\* The boot into the portal satisfies the invariant.
LEMMA InitHolds == ASSUME PortalAssumption, Init PROVE IInv
<1>1. Flags /\ TypeStation
  BY DEF Init, Flags, TypeStation, NoStation
<1>2. Ranges
  BY DEF Init, Ranges, PortalAssumption, Config, Blank, Phases, NoRequest,
      NoCallback, NoProof, Changes
<1>3. TypeOK
  BY <1>1, <1>2, TypeParts
<1>4. ClaimsHold /\ CallbacksHold /\ TestHolds
  BY DEF Init, ClaimsHold, CallbacksHold, TestHolds, Standing, NoRequest,
      NoCallback
<1> QED BY <1>3, <1>4 DEF IInv

\* Every step of the loop, of a handler, of the client and of the world keeps the
\* invariant.
LEMMA InvStep == ASSUME PortalAssumption, IInv, [Next]_vars PROVE IInv'
<1>1. CASE Http
  BY <1>1, ConfigRequestKeeps, ConfigTestRequestKeeps, WifiConnectRequestKeeps
      DEF Http
<1>2. CASE Handler
  BY <1>2, ClaimConfigRequestKeeps, RefuseRequestKeeps, SaveConfigKeeps,
      QueueTestKeeps DEF Handler
<1>3. CASE ClientEvent \/ ClientCallback
  BY <1>3, ClientEventKeeps, ClientCallbackKeeps
<1>4. CASE LoopStep
  BY <1>4, LoadPhaseKeeps, PumpKeeps, PumpCallbackKeeps, LoopQueuedKeeps,
      LoopWifiKeeps, LoopMqttKeeps, LoopClosingKeeps, LoopOtherKeeps,
      LoopRestKeeps, RebootKeeps DEF LoopStep
<1>5. CASE Tick \/ StationEvent \/ Boot
  BY <1>5, TickKeeps, StationEventKeeps, BootKeeps
<1>6. CASE UNCHANGED vars
  BY <1>6 DEF IInv, TypeOK, ClaimsHold, CallbacksHold, TestHolds, Standing,
      Tested, Explained
<1> QED BY <1>1, <1>2, <1>3, <1>4, <1>5, <1>6 DEF Next

\* The inductive invariant: a claim, the phase the loop loaded, a callback under
\* way and the verdict of the test agree in every reachable state.
THEOREM Invariance == ASSUME PortalAssumption PROVE Spec => []IInv
<1>1. Init => IInv BY InitHolds
<1>2. IInv /\ [Next]_vars => IInv' BY InvStep
<1> QED BY <1>1, <1>2, PTL DEF Spec

\* Every variable of the portal keeps its type.
THEOREM TypeCorrect == ASSUME PortalAssumption PROVE Spec => []TypeOK
<1>1. IInv => TypeOK BY DEF IInv
<1> QED BY <1>1, Invariance, PTL

\* The reason GET /config/status gives for a failed test is the reason of that
\* test, whatever callbacks of earlier sessions were still under way.
THEOREM FailuresAreExplained ==
  ASSUME PortalAssumption PROVE Spec => []FailureIsExplained
<1>1. IInv => FailureIsExplained
  BY DEF IInv, ClaimsHold, TestHolds, Standing, FailureIsExplained
<1> QED BY <1>1, Invariance, PTL

\* After a test, a save writes the tested candidate, whatever requests came
\* between the test and the save.
THEOREM SaveIsOfTheTested ==
  ASSUME PortalAssumption PROVE Spec => SavedWasTested
<1> DEFINE Saves == phase # "SAVED" /\ phase' = "SAVED" /\ test > 0
<1>1. ASSUME IInv, Next, Saves PROVE SaveConfig
  <2>1. ~Http /\ ~ClientEvent /\ ~ClientCallback /\ ~Tick /\ ~StationEvent
    BY <1>1 DEF Http, ConfigRequest, ConfigTestRequest, WifiConnectRequest,
        ClientEvent, ClientCallback, Tick, StationEvent
  <2>2. ~LoopStep /\ ~Boot
    BY <1>1 DEF LoopStep, LoadPhase, Pump, PumpCallback, LoopQueued, LoopWifi,
        LoopMqtt, LoopClosing, LoopOther, LoopRest, Reboot, Boot, Reset, Fail
  <2>3. ~ClaimConfigRequest /\ ~QueueTest
    BY <1>1 DEF ClaimConfigRequest, QueueTest
  <2>4. ~RefuseRequest
    BY <1>1 DEF RefuseRequest, IInv, TypeOK
  <2> QED BY <1>1, <2>1, <2>2, <2>3, <2>4 DEF Next, Handler
<1>2. ASSUME IInv, SaveConfig, Saves
      PROVE  /\ stored' = testConfig
             /\ proof.test = test /\ proof.mqtt = stored'.mqtt
             /\ ~meddled => proof.wifi = stored'.wifi
  <2>1. http.was = "READY"
    BY <1>2 DEF SaveConfig, IInv, TypeOK, ClaimsHold, TestHolds, Standing
  <2>2. stored' = testConfig
    BY <1>2, <2>1 DEF SaveConfig, MayBeSaved
  <2>3. Tested
    BY <1>2, <2>1 DEF SaveConfig, IInv, TestHolds, Standing
  <2> QED BY <2>2, <2>3 DEF Tested
<1>3. IInv /\ [Next]_vars =>
        [Saves => /\ stored' = testConfig
                  /\ proof.test = test /\ proof.mqtt = stored'.mqtt
                  /\ ~meddled => proof.wifi = stored'.wifi]_vars
  BY <1>1, <1>2
<1> QED BY <1>3, Invariance, PTL DEF Spec, SavedWasTested
=============================================================================

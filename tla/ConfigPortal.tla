---------------------------- MODULE ConfigPortal ----------------------------
(***************************************************************************)
(* The configuration portal: a browser proposes a configuration, has it    *)
(* tested against the network and the broker, and saves it.                *)
(*                                                                         *)
(* Two tasks share _configTestPhase, the MQTT client and its flags.  The   *)
(* task of AsyncTCP runs the HTTP handlers and most of the client's        *)
(* callbacks, one after the other; the loop (`pc`) runs the test, and the  *)
(* callbacks that its own call of the client's loop() brings about.  What  *)
(* a write does to the files is in ConfigStore.                            *)
(***************************************************************************)
EXTENDS Integers

CONSTANTS
  Wifi,            \* the "wifi" sections of a configuration, [ssid, key]
  Mqtt,            \* its "mqtt" sections
  Keep, None,      \* a section the request leaves out; one that is not there
  WifiDeadline, MqttDeadline, CloseDeadline,  \* 30, 15 and 20 s, in ticks
  MaxTests         \* bound of the model: tests of one boot

ASSUME PortalAssumption ==
  /\ WifiDeadline \in Nat /\ MqttDeadline \in Nat /\ CloseDeadline \in Nat
  /\ MqttDeadline <= CloseDeadline
  /\ MaxTests \in Nat
  /\ None \notin Wifi \union Mqtt

VARIABLES
  stored,       \* the configuration in flash
  portal,       \* did the device boot into the portal?
  phase,        \* _configTestPhase
  testConfig,   \* *_testConfig
  flaggedForReboot,
  pc, seen,     \* the loop: where it is, the phase it loaded
  http,         \* the handler that runs: where it is, its request, the phase it found
  client, server, \* the MQTT client, and the section it was set up with
  callback,     \* the callback it is about to make, and on which task
  testMqttConnected, testMqttError, testFailure,
  elapsed,      \* ticks since _testStartedAt
  station,      \* Wi-Fi: joined?, and with which section it was begun
  test,         \* how many tests began since the boot
  session,      \* the test the client's session was opened for
  proof,        \* the last session a broker accepted: test, network, section
  refused,      \* the last test a broker refused the credentials of
  meddled       \* did PUT /wifi/connect move the station since the test began?

flags == <<testMqttConnected, testMqttError>>
net   == <<client, server, callback, flags, session, proof, refused>>
task  == <<pc, seen>>
vars  == <<stored, portal, phase, testConfig, flaggedForReboot, task, http, net,
           testFailure, elapsed, station, test, meddled>>

Phases == {"IDLE", "PREPARING", "QUEUED", "WIFI", "MQTT", "CLOSING", "READY",
           "FAILED", "SAVED"}

Config == [wifi : Wifi \union {None}, mqtt : Mqtt \union {None}]
Blank  == [wifi |-> None, mqtt |-> None]

\* Validation::validateConfig, as far as the portal tells configurations apart.
Valid(c) == c.wifi # None /\ c.mqtt # None

\* The JSON of a request: a section may be given, left out, or null.
Changes == [wifi : Wifi \union {Keep, None}, mqtt : Mqtt \union {Keep, None}]

\* Config::prepare: the stored configuration, changed.
Merge(old, changes) ==
  [wifi |-> IF changes.wifi = Keep THEN old.wifi ELSE changes.wifi,
   mqtt |-> IF changes.mqtt = Keep THEN old.mqtt ELSE changes.mqtt]

\* The candidates _parseConfig() may make of a request; it may always refuse one
\* for want of memory, of a body, or of a storage that is ready.
Parsed(changes) == {c \in {Merge(stored, changes)} : Valid(c)}

NoRequest  == [at |-> "none", op |-> "none", changes |-> Blank, was |-> "IDLE"]
NoCallback == [task |-> "none", kind |-> "none"]
NoProof    == [test |-> 0, wifi |-> None, mqtt |-> None]
NoStation  == [up |-> FALSE, wifi |-> None]

\* What a boot leaves of the RAM.
Reset ==
  /\ phase' = "IDLE" /\ testConfig' = Blank /\ flaggedForReboot' = FALSE
  /\ pc' = "load" /\ seen' = "IDLE" /\ http' = NoRequest
  /\ client' = "down" /\ server' = None /\ callback' = NoCallback
  /\ testMqttConnected' = FALSE /\ testMqttError' = "none" /\ testFailure' = 0
  /\ elapsed' = 0 /\ station' = NoStation
  /\ test' = 0 /\ session' = 0 /\ proof' = NoProof /\ refused' = 0
  /\ meddled' = FALSE

Init ==
  /\ stored \in {c \in Config : c = Blank \/ Valid(c)}
  /\ portal = TRUE
  /\ phase = "IDLE" /\ testConfig = Blank /\ flaggedForReboot = FALSE
  /\ pc = "load" /\ seen = "IDLE" /\ http = NoRequest
  /\ client = "down" /\ server = None /\ callback = NoCallback
  /\ testMqttConnected = FALSE /\ testMqttError = "none" /\ testFailure = 0
  /\ elapsed = 0 /\ station = NoStation
  /\ test = 0 /\ session = 0 /\ proof = NoProof /\ refused = 0
  /\ meddled = FALSE

-----------------------------------------------------------------------------
(* The HTTP handlers.  AsyncTCP has one task: no handler runs while it is  *)
(* inside a callback of the MQTT client.                                   *)

HandlerMayStart == portal /\ http = NoRequest /\ callback.task # "async"

\* Both handlers load the phase and refuse at once unless it allows them.
ConfigRequest(changes) ==
  /\ HandlerMayStart
  /\ ~flaggedForReboot
  /\ phase \in {"IDLE", "READY"}
  /\ http' = [at |-> "claim", op |-> "save", changes |-> changes, was |-> phase]
  /\ UNCHANGED <<stored, portal, phase, testConfig, flaggedForReboot, task, net,
                 testFailure, elapsed, station, test, meddled>>

ConfigTestRequest(changes) ==
  /\ HandlerMayStart
  /\ ~flaggedForReboot
  /\ client = "down"
  /\ phase \in {"IDLE", "READY", "FAILED"}
  /\ test < MaxTests
  /\ http' = [at |-> "claim", op |-> "test", changes |-> changes, was |-> phase]
  /\ UNCHANGED <<stored, portal, phase, testConfig, flaggedForReboot, task, net,
                 testFailure, elapsed, station, test, meddled>>

\* The compare-and-swap; a request that comes too late is refused.
ClaimConfigRequest ==
  /\ http.at = "claim"
  /\ IF phase = http.was
       THEN phase' = "PREPARING" /\ http' = [http EXCEPT !.at = "parse"]
       ELSE http' = NoRequest /\ UNCHANGED phase
  /\ UNCHANGED <<stored, portal, testConfig, flaggedForReboot, task, net,
                 testFailure, elapsed, station, test, meddled>>

\* No memory, a body that is no valid configuration, a write that fails.
RefuseRequest ==
  /\ http.at = "parse"
  /\ phase' = http.was
  /\ http' = NoRequest
  /\ UNCHANGED <<stored, portal, testConfig, flaggedForReboot, task, net,
                 testFailure, elapsed, station, test, meddled>>

\* After a test, only what was tested.
MayBeSavedMutant(c) == TRUE
MayBeSaved(c)       == http.was = "READY" => c = testConfig

SaveConfig ==
  /\ http.at = "parse" /\ http.op = "save"
  /\ \E c \in Parsed(http.changes) : MayBeSaved(c) /\ stored' = c
  /\ phase' = "SAVED"
  /\ flaggedForReboot' = TRUE
  /\ http' = NoRequest
  /\ UNCHANGED <<portal, testConfig, task, net, testFailure, elapsed, station,
                 test, meddled>>

QueueTest ==
  /\ http.at = "parse" /\ http.op = "test"
  /\ \E c \in Parsed(http.changes) : testConfig' = c
  /\ phase' = "QUEUED"
  /\ http' = NoRequest
  /\ test' = test + 1 /\ meddled' = FALSE
  /\ UNCHANGED <<stored, portal, flaggedForReboot, task, net, testFailure,
                 elapsed, station>>

\* PUT /wifi/connect moves the station whatever the portal is doing.
WifiConnectRequest(wifi) ==
  /\ HandlerMayStart
  /\ station' = [up |-> FALSE, wifi |-> wifi]
  /\ meddled' = TRUE
  /\ UNCHANGED <<stored, portal, phase, testConfig, flaggedForReboot, task, http,
                 net, testFailure, elapsed, test>>

Http ==
  \/ \E changes \in Changes : ConfigRequest(changes) \/ ConfigTestRequest(changes)
  \/ \E wifi \in Wifi : WifiConnectRequest(wifi)

Handler == ClaimConfigRequest \/ RefuseRequest \/ SaveConfig \/ QueueTest

-----------------------------------------------------------------------------
(* The MQTT client changes its state first and calls back afterwards.      *)

ClientSettles(t) ==
  /\ callback = NoCallback
  /\ \/ /\ client = "connecting" /\ station.up
        /\ client' = "up" /\ callback' = [task |-> t, kind |-> "accepted"]
        /\ proof' = [test |-> session, wifi |-> station.wifi, mqtt |-> server]
        /\ UNCHANGED refused
     \/ /\ client = "connecting" /\ station.up
        /\ client' = "down" /\ callback' = [task |-> t, kind |-> "credentials"]
        /\ refused' = session /\ UNCHANGED proof
     \/ /\ client # "down"
        /\ client' = "down" /\ callback' = [task |-> t, kind |-> "lost"]
        /\ UNCHANGED <<proof, refused>>
  /\ UNCHANGED <<server, flags, session>>

\* onConnect and onDisconnect, as setup() registers them.
CallBack(t) ==
  /\ callback.task = t
  /\ IF callback.kind = "accepted"
       THEN testMqttConnected' = TRUE /\ UNCHANGED testMqttError
       ELSE testMqttError' = callback.kind /\ UNCHANGED testMqttConnected
  /\ callback' = NoCallback
  /\ UNCHANGED <<client, server, session, proof, refused>>

\* On the task of AsyncTCP, between two handlers.
ClientEvent ==
  /\ http = NoRequest
  /\ ClientSettles("async")
  /\ UNCHANGED <<stored, portal, phase, testConfig, flaggedForReboot, task, http,
                 testFailure, elapsed, station, test, meddled>>

ClientCallback ==
  /\ CallBack("async")
  /\ UNCHANGED <<stored, portal, phase, testConfig, flaggedForReboot, task, http,
                 testFailure, elapsed, station, test, meddled>>

-----------------------------------------------------------------------------
(* The loop.                                                               *)

Loop(from, to) == portal /\ pc = from /\ pc' = to

LoadPhase ==
  /\ portal /\ pc = "load"
  /\ seen' = phase
  /\ pc' = IF phase \in {"IDLE", "PREPARING"} THEN "rest" ELSE "pump"
  /\ UNCHANGED <<stored, portal, phase, testConfig, flaggedForReboot, http, net,
                 testFailure, elapsed, station, test, meddled>>

\* mqtt.loop(), which skips its turn while a callback holds the mutex.
Pump ==
  /\ Loop("pump", "test")
  /\ ClientSettles("loop") \/ UNCHANGED net
  /\ UNCHANGED <<stored, portal, phase, testConfig, flaggedForReboot, seen, http,
                 testFailure, elapsed, station, test, meddled>>

PumpCallback ==
  /\ pc = "test"
  /\ CallBack("loop")
  /\ UNCHANGED <<stored, portal, phase, testConfig, flaggedForReboot, task, http,
                 testFailure, elapsed, station, test, meddled>>

LoopTest(loaded) ==
  /\ Loop("test", "rest")
  /\ seen = loaded /\ callback.task # "loop"
  /\ UNCHANGED <<stored, portal, testConfig, flaggedForReboot, seen, http, test,
                 meddled>>

Fail(why) == phase' = "FAILED" /\ testFailure' = why

Disconnect == client' = IF client \in {"connecting", "up"} THEN "closing" ELSE client

\* What the tests before have left behind.
ForgetVerdictMutant == testMqttConnected' = FALSE /\ UNCHANGED testMqttError
ForgetVerdict       == testMqttConnected' = FALSE /\ testMqttError' = "none"

LoopQueued ==
  /\ LoopTest("QUEUED")
  /\ IF client # "down"
       THEN UNCHANGED <<phase, flags, testFailure, elapsed, station>>
       ELSE /\ ForgetVerdict
            /\ \/ /\ station' = NoStation
                  /\ Fail(1) /\ UNCHANGED elapsed
               \/ /\ station' = [up |-> FALSE, wifi |-> testConfig.wifi]
                  /\ elapsed' = 0
                  /\ phase' = "WIFI" /\ testFailure' = 0
  /\ UNCHANGED <<client, server, callback, session, proof, refused>>

\* The station has joined the network the candidate names.
Joined == station.up /\ station.wifi.ssid = testConfig.wifi.ssid

LoopWifi ==
  /\ LoopTest("WIFI")
  /\ \/ /\ Joined
        /\ server' = testConfig.mqtt
        /\ elapsed' = 0
        /\ phase' = "MQTT"
        /\ IF client = "down"
             THEN client' = "connecting" /\ session' = test /\ UNCHANGED testMqttError
             ELSE testMqttError' = "lost" /\ UNCHANGED <<client, session>>
        /\ UNCHANGED testFailure
     \/ /\ ~Joined /\ elapsed >= WifiDeadline
        /\ Fail(1)
        /\ UNCHANGED <<client, server, session, testMqttError, elapsed>>
     \/ /\ ~Joined /\ elapsed < WifiDeadline
        /\ UNCHANGED <<phase, client, server, session, testMqttError, testFailure,
                       elapsed>>
  /\ UNCHANGED <<callback, testMqttConnected, proof, refused, station>>

Accepted == testMqttConnected /\ client = "up" /\ station.up

LoopMqtt ==
  /\ LoopTest("MQTT")
  /\ \/ /\ Accepted
        /\ Disconnect
        /\ phase' = "CLOSING" /\ UNCHANGED testFailure
     \/ /\ ~Accepted
        /\ testMqttError # "none" \/ elapsed >= MqttDeadline \/ ~station.up
        /\ Disconnect
        /\ Fail(IF testMqttError = "credentials" THEN 2 ELSE 3)
     \/ /\ ~Accepted
        /\ testMqttError = "none" /\ elapsed < MqttDeadline /\ station.up
        /\ UNCHANGED <<client, phase, testFailure>>
  /\ UNCHANGED <<server, callback, flags, session, proof, refused, elapsed, station>>

CloseOverdueMutant == FALSE
CloseOverdue       == elapsed >= CloseDeadline

LoopClosing ==
  /\ LoopTest("CLOSING")
  /\ CASE client = "down" -> phase' = "READY" /\ UNCHANGED testFailure
       [] client # "down" /\ CloseOverdue -> Fail(3)
       [] OTHER -> UNCHANGED <<phase, testFailure>>
  /\ UNCHANGED <<net, elapsed, station>>

LoopOther ==
  /\ \E loaded \in {"READY", "FAILED", "SAVED"} : LoopTest(loaded)
  /\ UNCHANGED <<phase, net, testFailure, elapsed, station>>

\* The rest of loop(): the scan, and the restart three seconds after a save.
LoopRest ==
  /\ Loop("rest", "load")
  /\ UNCHANGED <<stored, portal, phase, testConfig, flaggedForReboot, seen, http,
                 net, testFailure, elapsed, station, test, meddled>>

Reboot ==
  /\ portal /\ pc = "rest" /\ flaggedForReboot
  /\ portal' = FALSE
  /\ Reset
  /\ UNCHANGED stored

LoopStep ==
  LoadPhase \/ Pump \/ PumpCallback \/ LoopQueued \/ LoopWifi \/ LoopMqtt
  \/ LoopClosing \/ LoopOther \/ LoopRest \/ Reboot

-----------------------------------------------------------------------------
(* Time, the network, and the power.                                       *)

Tick ==
  /\ phase \in {"WIFI", "MQTT", "CLOSING"}
  /\ elapsed < WifiDeadline \/ elapsed < CloseDeadline
  /\ elapsed' = elapsed + 1
  /\ UNCHANGED <<stored, portal, phase, testConfig, flaggedForReboot, task, http,
                 net, testFailure, station, test, meddled>>

StationEvent ==
  /\ station.wifi # None
  /\ station' = [station EXCEPT !.up = ~station.up]
  /\ UNCHANGED <<stored, portal, phase, testConfig, flaggedForReboot, task, http,
                 net, testFailure, elapsed, test, meddled>>

\* The portal is left for good, or opened again with or without a configuration.
Boot ==
  /\ portal' \in BOOLEAN
  /\ stored' \in {stored, Blank}
  /\ portal' \/ Valid(stored')
  /\ Reset

Next ==
  \/ Http \/ Handler
  \/ ClientEvent \/ ClientCallback
  \/ LoopStep
  \/ Tick \/ StationEvent \/ Boot

Spec == Init /\ [][Next]_vars

\* Both tasks are scheduled and time passes; nothing is asked of the network.
FairSpec ==
  /\ Spec
  /\ WF_vars(LoopStep) /\ WF_vars(Handler) /\ WF_vars(ClientCallback)
  /\ WF_vars(Tick)

-----------------------------------------------------------------------------
(* Properties                                                              *)

\* Every variable keeps its type.
TypeOK ==
  /\ stored \in Config /\ portal \in BOOLEAN
  /\ phase \in Phases /\ seen \in Phases
  /\ testConfig \in Config /\ flaggedForReboot \in BOOLEAN
  /\ pc \in {"load", "pump", "test", "rest"}
  /\ http \in [at : {"none", "claim", "parse"}, op : {"none", "save", "test"},
               changes : Changes, was : {"IDLE", "READY", "FAILED"}]
  /\ client \in {"down", "connecting", "up", "closing"}
  /\ server \in Mqtt \union {None}
  /\ callback \in [task : {"none", "async", "loop"},
                   kind : {"none", "accepted", "credentials", "lost"}]
  /\ testMqttConnected \in BOOLEAN
  /\ testMqttError \in {"none", "credentials", "lost"}
  /\ testFailure \in 0..3 /\ elapsed \in Nat
  /\ station \in [up : BOOLEAN, wifi : Wifi \union {None}]
  /\ test \in 0..MaxTests /\ session \in 0..MaxTests /\ refused \in 0..MaxTests
  /\ proof \in [test : 0..MaxTests, wifi : Wifi \union {None},
                mqtt : Mqtt \union {None}]
  /\ meddled \in BOOLEAN

Explained ==
  CASE testFailure = 1 -> session # test
    [] testFailure = 2 -> session = test /\ refused = test
    [] testFailure = 3 -> session = test
    [] OTHER -> FALSE

\* What GET /config/status says of a failed test is about this test: the network
\* was never joined, its broker refused the credentials, or its broker was tried
\* and did not answer.  No callback of an earlier test's session decides it.
FailureIsExplained == phase = "FAILED" => Explained

\* Once a test has begun, what a save writes is the candidate of the last test,
\* and a broker accepted that section over that network during that test, unless
\* somebody moved the station meanwhile.
SavedWasTested ==
  [][phase # "SAVED" /\ phase' = "SAVED" /\ test > 0 =>
       /\ stored' = testConfig
       /\ proof.test = test /\ proof.mqtt = stored'.mqtt
       /\ ~meddled => proof.wifi = stored'.wifi]_vars

\* A test that was accepted ends, whatever the network and the broker do.
TestEnds ==
  phase \in {"QUEUED", "WIFI", "MQTT", "CLOSING"}
    ~> phase \in {"READY", "FAILED", "IDLE"}

-----------------------------------------------------------------------------
(* The inductive invariant behind the theorems of ConfigPortalProofs.      *)

Active == {"QUEUED", "WIFI", "MQTT", "CLOSING"}

\* The phase a request found, while it holds its claim.
Standing == IF http.at = "parse" THEN http.was ELSE phase

\* The broker of the candidate accepted it, over its network.
Tested ==
  /\ proof.test = test /\ proof.mqtt = testConfig.mqtt
  /\ ~meddled => proof.wifi = testConfig.wifi

\* A claim and what the loop has loaded hold; only active phases are the loop's.
ClaimsHold ==
  /\ phase = "PREPARING" <=> http.at = "parse"
  /\ http.at = "none" => http = NoRequest
  /\ http.at = "claim" => phase = http.was
  /\ http.at # "none" => callback.task # "async"
  /\ http.at # "none" /\ http.op # "save" =>
       client = "down" /\ test < MaxTests
  /\ http.at # "none" /\ http.op = "save" => http.was # "FAILED"
  /\ pc \in {"pump", "test"} /\ seen \in Active => phase = seen

\* A callback that is under way is about the last session.
CallbacksHold ==
  /\ callback.task = "none" <=> callback.kind = "none"
  /\ callback.task = "loop" => pc = "test" /\ seen \notin {"QUEUED", "WIFI"}
  /\ callback.kind = "credentials" => refused = session

\* What each phase knows about its test.
TestHolds ==
  /\ session <= test
  /\ Standing = "IDLE" => test = 0
  /\ phase \in {"QUEUED", "WIFI"} =>
       client = "down" /\ session < test /\ callback.task # "async"
  /\ phase = "WIFI" =>
       callback.task = "none" /\ testMqttError = "none" /\ ~testMqttConnected
  /\ phase \in {"WIFI", "MQTT"} /\ ~meddled => station.wifi = testConfig.wifi
  /\ phase = "MQTT" =>
       /\ session = test /\ server = testConfig.mqtt
       /\ testMqttError = "credentials" => refused = test
       /\ testMqttConnected \/ callback.kind = "accepted" => Tested
  /\ phase = "CLOSING" => session = test /\ client # "connecting"
  /\ Standing = "READY" => client = "down"
  /\ phase = "CLOSING" \/ Standing = "READY" => Tested
  /\ Standing = "FAILED" => Explained

IInv == TypeOK /\ ClaimsHold /\ CallbacksHold /\ TestHolds
=============================================================================

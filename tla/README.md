# A TLA+ model of homie-esp8266

This directory holds a formal model of the firmware library in `src/`: TLA+
modules translated from its C++ source, TLC configurations that check them on
small instances, and theorems about them that TLAPS proves for every value of
their constants. `PROJECT.json` maps each definition to the lines it models.

    tlc -workers 2 -config MCConnectivity.cfg MCConnectivity
    tlapm ConnectivityProofs.tla

## 1. The system

The library connects an ESP8266 or ESP32 to an MQTT broker under the Homie
convention. The sketch calls `Homie.setup()` once and `Homie.loop()` for ever.
Setup reads the boot mode and the stored configuration and picks a *boot*:
normal (Wi-Fi, MQTT, advertisement, messages, OTA), configuration (an access
point with a web portal) or standalone (nothing).

| Component | State | Operations | Talks to |
| --- | --- | --- | --- |
| `BootNormal` loop | flags of the Wi-Fi leg (`_wifiGotIp`, `_wifiConnectInProgress`, reconnect timer), of the MQTT leg (`_mqttDisconnectNotified`, `_mqttConnectInProgress`, timer, `_mqttConnectNotified`), `ready`, recovery clock, `_flaggedForReboot` | `loop()`: pending events, OTA service, notifications, reboot, drift and stall recovery, watchdog, reconnect timers, messages, advertisement, announcement, sleep | callbacks through flags under a critical section; Wi-Fi and MQTT client by direct calls; sketch by events |
| Callbacks | pending flags and rings | `_onWifiGotIp`, `_onWifiDisconnected`, `_onMqttConnected`, `_onMqttDisconnected`, `_onMqttMessage`, `_onMqttPublish` | run on the Wi-Fi and AsyncTCP tasks (ESP32), or between loop iterations (ESP8266) |
| Stored configuration (`Config`, `ConfigFile`) | four files: primary, temporary, backup, NEXTMODE; `_configStruct`, `_valid`, `_recovered`, `_recoveryFailed` | `load`, `write`, `patch`, `prepare`, `erase`, `setHomieBootModeOnNextBoot` | portal, MQTT config handler, reset handler, setup |
| Boot mode selection | none beyond one call | `HomieClass::setup` | NEXTMODE, `load()` |
| Reset handler | press time, `resetFlag`, `configurationOnly`, `disable` | `_tick`, `_handleReset` | button, broadcast and `$implementation/reset`, files, `disable` of the loop |
| OTA receiver | transfer counters, `_otaOngoing`, `_otaDisconnected`, guard, pending notifications | chunk handler, `_serviceOta`, `_endOtaUpdate`, status queue | MQTT message callback, main loop, flash driver |
| Inbound and ack queues | two rings with drop counters | enqueue in callbacks, drain in the loop, flush on disconnect | callbacks and loop |
| Sleep handshake | `MqttPublishAck` word, client mutex | `publishTracked`, `acknowledge`, `takeAcknowledged` | loop and AsyncTCP task |
| Configuration portal | test phase, candidate, `_flaggedForReboot` | save, test, status, scan requests; `_loopConfigTest` | web server task and main loop; files |
| Advertisement | three nested step counters | `_advertise` | MQTT publish, which may be refused |
| Timers | `millis()` arithmetic, retry count | `ExponentialBackoffTimer`, `Timer`, `Uptime` | the loop |
| Nodes, settings, validation | registration lists, datatypes and formats | `send`, `__handleNodeProperty`, `payloadMatches` | sketch, broker |
| LED, logger | none that matters | output | sketch |
| Host tools | files | `ota_updater.py`, build scripts | broker |

What is hard here, and what would make each part correct:

* **Callbacks that say only "something changed".** The loop learns the direction
  of a change by asking the live Wi-Fi or client, some time later. A callback may
  be early, late, merged with its opposite, or lost. Correct means: no leg that
  is down is left without an attempt or a timer; what the sketch has been told is
  what the session is; a new connection inherits nothing from the old one; a
  healthy session is not torn down by a stale flag; on a network that settles
  the device comes back by itself; and if it does not, the watchdog restarts it.
* **Two tasks, two locks.** On ESP32 the callbacks run on another core's task.
* **Power and flash.** Every filesystem call can be refused and the power can
  fail between any two of them; the configuration (Wi-Fi credentials and the
  device's identity) must survive all of it, and must be gone after a factory reset.
* **Requests that overlap.** A reset being prepared, a sleep, an OTA transfer, a
  new configuration and the watchdog all write `disable` and the reboot flags.
* **Protocols in small steps.** Sleep (publish, PUBACK, disconnect, event), OTA
  (chunks, disconnect, timeout, retry, reboot), the portal (test, then save).

The full list, each at its line, is `hazards` in `PROJECT.json`.

## 2. Modules

| Module | Models | Code |
| --- | --- | --- |
| `Connectivity` | `BootNormal` loop, its callbacks, the drivers it calls, restart requests | `BootNormal.cpp`, `ResetHandler.ipp`, `Homie.cpp` |
| `ConnectivityProofs` | theorems about `Connectivity` |  |
| `ConfigStore` | the configuration files and everything that writes them, boot selection | `ConfigFile.hpp`, `Config.cpp`, `ConfigFilesystem.ipp`, `ConfigJson.ipp`, `ResetHandler.ipp`, `Homie.cpp` |
| `AtomicConfig` | the abstract specification `ConfigStore` implements: one stored value |  |
| `ConfigStoreProofs` | theorems about `ConfigStore`, among them the refinement |  |
| `OtaUpdate` | the fragment handler of a firmware transfer, its cleanup, the status mailbox, the restart, and `Update` | `BootNormalOta.ipp`, `BootNormal.cpp` |
| `OtaUpdateProofs` | theorems about `OtaUpdate` |  |
| `Ring` | a ring between two tasks, and that it implements a bounded FIFO | `BootNormal.cpp`, `BootNormal.hpp` |
| `BoundedQueue` | the abstract specification of a ring: a queue with a limit |  |
| `RingProofs` | theorems about `Ring` |  |
| `DeviceNodes` | the nodes and properties of a firmware | `HomieNode.hpp` |
| `Advertisement` | the three nested steps of the announcement, and what a broker has heard | `BootNormal.cpp`, `BootNormal.hpp` |
| `MqttSession` | sessions: announcement, inbound messages, dispatch, acknowledgements, sleep; extends `Ring`, `Advertisement` and `SetCommand` | `BootNormal.cpp`, `BootNormalMqtt.ipp`, `MqttPublishAck.hpp`, `HomieMqttClient.hpp` |
| `MqttSessionProofs` | theorems about `MqttSession` |  |
| `SetCommand` | which handler a set command reaches | `BootNormal.cpp`, `RangeIndex.hpp`, `HomieNode.hpp` |
| `DeviceNodesProofs` | theorems about the operators of `Advertisement` and `SetCommand`: what has been said when `_advertise()` gets somewhere, whom a set command reaches |  |
| `ConfigPortal` | the claims, the connection test and the save of the portal | `BootConfigTest.ipp`, `BootConfig.cpp`, `BootConfigBody.ipp`, `ConfigJson.ipp` |
| `ConfigPortalProofs` | theorems about `ConfigPortal` |  |
| `PropertyPayload` | datatypes, formats and payloads as a strict build checks them | `ConventionValidation.hpp` |
| `PropertyContract` | what a sketch may publish and be sent, against a reference reading of the attributes | `SendingPromise.cpp`, `HomieNodeMetadata.ipp`, `BootNormal.cpp` |
| `PropertyContractProofs` | theorems about `PropertyContract` and `PropertyPayload` |  |
| `MCConnectivity, MCConfigStore, MCOtaUpdate, MCMqttSession, MCConfigPortal, MCPropertyContract` | values of the constants for TLC |  |

### Connectivity

One walk of `pc` through `LoopPoints` is one iteration of `BootNormal::loop()`
and of `ResetHandler::Loop()` after it. A point is where the code reads something
another task may have changed; everything between two points is one action, with
the whole handler in it. The variables have the source's names without the
underscore; a reconnect timer is TRUE while it is active; `advert` counts the
steps of `_advertise()`. Three groups of variables are not code: `wifi`,
`client` and the undelivered callbacks are the two radios' own state as the code
uses them; `stable` says that the network has settled; `lastMqttEvent` and
`readyToSleep` record what the sketch was told.

*Time* is abstracted: a back-off interval, the 30 s attempt time-outs, the 15 min
watchdog, the OTA inactivity limit and the idleness a restart waits for may be
found elapsed or not at every look. So every property holds whatever the intervals
are, and only liveness needs them to end (see Fairness).

Things the model makes visible that are easy to miss in the code:
* One advertisement step can outlive its session: the client connects after the
  drift check, a step is published, the connection is lost and made again before
  its event is read, and `_handleMqttConnected` goes on from there. It is at most
  one step at the moment of the new connection, and the device cannot be announced
  by it (`ConnectionStartsAfresh`).
* `_wifiGotIp` implies that the Wi-Fi timer is inactive, which is why a DHCP
  renewal is ignored (`SessionClosedForCause`).
* A reset that is cancelled clears `disable` even when sleep had set it: a device that
  was told READY_TO_SLEEP may then connect again (`ResetCancelled`). The sleep handshake
  itself survives it (`SleepNotForgotten`). The recovery run leaves resets out to stay
  small; the safety run has them.
* The loop returns early while a transfer goes on, and the sleep handshake waits with it:
  `SleepCompletes` supposes that transfers do not keep coming, as `OutageEnds` does.

### ConfigStore and AtomicConfig

`ConfigStore` gives each call that changes the filesystem an action of its own,
with the reads and decisions that follow it: `writer` and `resetter` are program
counters of `ConfigFile::write` and of `_handleReset`, `phase` is the boot in
progress. A call may be done or refused; a file being written is `Invalid` until
it is complete; `PowerFails` may come between any two. `flaky` lets the read of
an intact file fail. `Init` admits damaged files, so boots from every mixture of
missing, valid and unreadable files are explored.

`AtomicConfig` is the promise: one stored value, replaced by a save in one step
or not at all, removed by an erase. Its weaknesses are explicit actions of their
own, and each is what the code does: `LoseDamaged` (a save over a damaged primary
can fall back on nothing), `EraseTakesEffect` (an erase that is refused later may
already have removed the only valid copy, an unpromoted backup), `Revert` (while
reads are flaky, `load()` can take a good primary for an invalid one, remove it
and promote the older backup). The refinement mapping is `Effective` (what a boot
that can read would load), `RequestInProgress` and `Damaged`.

`TwoTasks` chooses the platform. In normal mode saves and resets both run on the
main loop. In the portal a save runs on the web server's task on ESP32: then it
overlaps the reset handler, and the atomicity results are for `~TwoTasks`. `erase()`
checks each `remove()` with an `exists()`; the two are one step, so a file that the
web server's task creates just between them, for which the code would cancel the reset,
is found by no check here. A factory reset is about the configuration's four files; the
UI bundle is on the same filesystem and stays.

### OtaUpdate

The fragments of a firmware message are handled in the MQTT callback, not by the
loop. `receiver` is where `__handleOTAUpdates` stands, with a step wherever the
code looks at something another task may change: the guard and the flag of a
disconnection (`Receive`), the pending restart (`CheckReboot`), the decision about
the fragment (one action per way out), each slice written, the end of the
fragment, the commit, the announcement. `pc` walks the loop past
`_processPendingAsyncEvents`, `_serviceOta`, `_processPendingOtaStatus`, the two
reads of the restart and the rest. `Update` is a record (owner, expected digest,
size, units written) with the behaviour of the platform's driver, the ESP8266
one without `abort()` included; `OtherUpdate` is a sketch that uses it too.

The two platforms differ in what may interleave. On ESP32 (`platform`) the handler
is on a task of its own and a mutex makes the loop's cleanup wait for it;
everything else goes on beside it. On ESP8266 the loop stands still while the
handler runs (`LoopMayRun`), but after each slice the handler yields: then a
disconnection, or another fragment (`ReceiveNested`, answered BUSY), may come in.

Data is reduced to what the properties tell apart. An image is a sequence of
units, a unit is a slice of flash, and an MD5 is the name of the image that has
it (or "not an MD5"). `Messages` are the publications a sender may make; a
fragment is any interval of one, in any order. A Base64 payload is one unit longer
than its image, so the fragment with only the padding exists. The status slot is
`status` (`None` when nothing is pending) by class of code; `current` stands for
the unchanged sequence number, whose 16-bit wrap within one publication is
ignored. `recent` and `quiet` are the two intervals, elapsed or not.

Things the model makes visible:
* While a restart is pending, the answer to a retry is derived from the MD5 of the
  last request alone (`SuccessIsTrue`, section 5).
* On ESP32 a transfer may succeed between the loop's look at the grace period and
  its look at the restart; the 200 is then never published. The documents promise
  the restart, not the order, so nothing is stated about it.
* Every retry answered while a restart is pending renews the grace period, so a
  sender that never pauses puts the restart off. After `stable`, the sender waits.

### MqttSession, with Ring, Advertisement, DeviceNodes and SetCommand

`MqttSession` composes the two parts of a session that live in modules of their
own. `Ring` has the indices and slots of the rings between the client's task and
the loop, each operation as the code does it, and the refinement to `BoundedQueue`
(`PendingIsFifo`). `Advertisement` has `_advertise()`: one call is one step of the
global, node or property machine, moves on with a packet id and stays without
one; `announced` is what the broker has heard in this session.

`pc` walks the part of `BootNormal::loop()` that reads what callbacks write: the
event flag, the acknowledgements, drift, connecting, the messages (at most
`MessagesPerLoop`), the announcement, the sleep. The client's callbacks run between
any two of these steps, except while the loop publishes its good-bye under the
client's mutex (`CallbackMayRun`). `offlineAck` is the packed word of
`MqttPublishAck`; packet ids come round again. A message arrives in chunks:
`buffer` keeps, for each chunk, which message wrote it, so that a mixture of two
would be seen; the preallocated build keeps what earlier messages left in it.
`drops` is what the counter grew by, compared with what the broker sent
(`DropsAreCounted`): once per message, however many reasons there were, except that
a message longer than the buffer is counted for each of its chunks, as the code
does.

`SetCommand` is a function of the topic: `Resolve` is `__handleNodeProperty` up to
the handler, and `ReachesItsProperty` compares it with what the address says. It is
checked over the nodes of the session's firmware and proved for any.
`NamesAssumption` has what the result rests on: the names of the device are
unambiguous, as the convention demands and the code does not check, and `Suffix`
is what the code finds behind an id. Not asserted: under Homie 3 and
4 a suffix after a node that is no range, and under Homie 5 the bare id of a
range, call the handler with an index all the same (0 where none is given). That a
range node `a` before a node `a-b` takes the commands of `a-b` under Homie 5 is
excluded by `NamesAssumption` and listed as a hazard.

Left out here: the chain global, node and property handler; the text of attributes;
acknowledgements of the announcement's own publications; a `config/set` whose
retained copy is cleared just before a restart and is then lost (the patch is
already stored, only the answer is not given).

### ConfigPortal

HTTP handlers and most callbacks of the client share the AsyncTCP task: they
exclude one another, not the loop. `http` is a handler between its look at the
phase, its claim (`ClaimConfigRequest`, the compare-and-swap) and its end; `pc` is the
loop before and after `mqtt.loop()`, and `seen` the phase it loaded before it. The
client changes its state first and calls back later, on either task
(`callback`). `proof`, `refused`, `session`, `test` and `meddled` are not code: they
record which test a session was opened for, what a broker said of it, and whether
`PUT /wifi/connect` moved the station meanwhile.

A request may be refused for want of memory, a body or a valid configuration
(`RefuseRequest`, one nondeterministic refusal). JSON is reduced to its two
sections, each given, left out or null. What the model makes visible:
* The station is only asked for its SSID before the broker is tried. With
  `PUT /wifi/connect` during a test, the test can pass over another password than
  the candidate's; `SavedWasTested` leaves that case out (`meddled`).
* A connection that does not close in time is reported as "cannot connect to MQTT".
* After a failed test a save is refused until another test succeeds or a restart.
* A new test is refused while the client of a failed one still closes, without
  a deadline.

### PropertyPayload and PropertyContract

`PropertyPayload` translates the predicates of `ConventionValidation.hpp` for strict
builds: a text is a sequence of characters, an integer is what it denotes and how
it is written, formats are split at their separators. `PropertyContract` puts a
property between a sketch and a controller that knows only `$datatype` and `$format`:
`Advertise` is the two publications of the announcement, `Send` is
`SendingPromise::send` with its encoding, `Command` the validation of a set command.
The reference it is compared with (`Conforms`) is written from the convention and
independently of the code: an enumeration by the positions of separating commas
instead of a scan, steps by multiplication instead of a remainder, durations by the
places where hours, minutes and seconds end. The loops over characters are recursive
functions (`Scanned`, `DurationScanned`), so that they can be proved about. `docs/advanced-usage/compiler-flags.md:138-141` claims the agreement.

How a number is written is its `kind`, because the code has three readers of numbers:
`isIntegerLiteral` wants digits and perhaps a minus; `parseIntegerValue` is `strtoll()` on
a C string of at most twenty characters, so it takes a plus or a blank in front, and stops
at a NUL with what stands before it (`cut`, or nothing, which reads as 0: `hollow`);
`parseFloatValue`, for the colours of Homie 5, takes any number of digits and no NUL.

`AdvertisedIsEnforced` has these exceptions, each of which the code needs:
* accepted though it does not conform (`Tolerated`): a component of a Homie 3 or 4 colour
  with a plus or a blank before it, or with a NUL and anything behind it, where the handler
  is given what is before the NUL; a component of a Homie 5 colour in more than twenty
  characters. In a format, a step `+2` and a colour format that ends in a comma are
  taken as well, and advertised;
* refused though it conforms (`Strict`): a number of more than twenty characters, that is,
  with leading zeros;
* an empty command (`Arrives`): `_onMqttMessage` drops it before any validation, so no
  command sets a string of Homie 3 or 4 to the empty one (Homie 5 has a NUL for it);
* a value of the sketch with a NUL, under Homie 3 and 4: `publish()` takes a C string, so
  the broker gets what is before the NUL.

A byte order mark is refused under Homie 5, by the code and by the reference.

Outside the property (`Countable`): `value - base` beyond a `long long`, undefined
behaviour listed as a hazard, and more than 255 components of a colour, which the code
counts in eight bits (section 5).



## 3. Runs

* **connectivity_safety** (`MCConnectivity.cfg`, 1,691,490 distinct states) checks `TypeOK`, `NoStrandedLeg`, `WatchdogArmed`, `SketchView`, `SleepNotForgotten`, `ConnectionStartsAfresh`, `ReadinessWithdrawnForCause`, `SessionClosedForCause`. Every interleaving of the loop, the Wi-Fi and MQTT callbacks, lost callbacks, sleep, reset, OTA and a new configuration: no leg is stranded, the watchdog is armed, the sketch is told the truth, a new connection inherits nothing, a good session is never torn down and a sleep handshake is never forgotten.
* **connectivity_recovery** (`MCConnectivityRecovery.cfg`, 583,402 distinct states) checks `StableRecovery`, `OutageEnds`, `SleepCompletes`. Under fair scheduling a device on a network that settles becomes ready and stays ready whichever callbacks were lost, and an outage ends in readiness or in the watchdog's restart; prepareToSleep() at any moment ends in READY_TO_SLEEP.
* **store_atomic** (`MCConfigStore.cfg`, 28,389 distinct states) checks `TypeOK`, `RunningIsStored`, `FactoryResetLeavesNothing`, `StorageIsAtomic`, `FailedRecoveryFreezesFiles`, `CancellableEraseKeepsConfig`, `ConfigOnlyResetOpensPortal`. With any filesystem call refused, any write torn and power failing between any two calls, the configuration files implement one value that saves replace atomically and a factory reset removes; the boot that follows selects the right mode.
* **store_race** (`MCConfigStoreRace.cfg`) finds a violation of `FactoryResetForgets`. On a platform whose web server has a task of its own, a save from the portal overlaps a factory reset prepared by the main loop, and the reset is acknowledged while a boot would still find the configuration.
* **store_review** (`MCConfigStoreReview.cfg`) finds a violation of `RecoveredIsReviewed`. A power failure just after load() has promoted the backup: the next boot finds a valid primary and goes to normal mode, without the review a recovery promises.
* **ota_safety** (`MCOtaUpdate.cfg`, 1,939,440 distinct states) checks `TypeOK`, `WrittenInOrder`, `UpdaterReleased`, `StagedIsAnnounced`, `StagedIsLeftAlone`, `LastStatusIsTold`, `ForeignUntouched`, `NeverResumed`. Arbitrary fragments of binary, Base64, corrupted, retained, unnamed and other images, in any order and repeated, with disconnections, flash failures, time-outs, other users of Update and restarts at every step, on ESP32 (a task beside the loop) and ESP8266 (callbacks nested in a yield): only the announced image is staged and nothing opens Update over it, Update is always given back, and no status is lost.
* **ota_progress** (`MCOtaUpdateProgress.cfg`, 225,242 distinct states) checks `TransferEnds`, `RetrySucceeds`. Under fair scheduling no transfer stays open, and once trouble ends a sender that simply retries gets its firmware running, whatever state the trouble left behind.
* **ota_status** (`MCOtaUpdateStatus.cfg`) finds a violation of `SuccessIsTrue`. A restart asked for by a new configuration while a transfer is going on: the retry of the firmware is answered with success although nothing was flashed.
* **session** (`MCMqttSession.cfg`, 1,985,246 distinct states) checks `TypeOK`, `DropsAreCounted`, `SleepAckIsExact`, `AnnouncedInFull`, `CommandReachesItsProperty`, `PendingIsFifo`, `CommandOfOpenSession`. One session after another under the three conventions, with preallocated and allocated buffers: publications refused at every step of the announcement, fragments, overlong and oversize messages, a full ring, allocation failures, resets, new configurations, sleep and early or late acknowledgements, with the client's task between any two steps of the loop.
* **portal** (`MCConfigPortal.cfg`, 1,594,344 distinct states) checks `FailureIsExplained`, `SavedWasTested`, `TestEnds`. Two tests of one boot, of candidates that differ in the password or in the broker, with a save, another test or PUT /wifi/connect between any two steps of the loop, late callbacks of the client on either task, and a network and a broker that answer as they like: what is saved was tested, a verdict is about its own test, and every test ends.
* **contract** (`MCPropertyContract.cfg`, 1,244,748 distinct states) checks `AdvertisedIsEnforced`, `MeaningSurvives`. Every declaration of a property up to small formats, well and ill formed, against every payload at the limits of its type, published by the sketch or sent as a command, under the three conventions with strict validation: what is enforced is what the attributes that were advertised say, compared with a reference reading of the convention. Numbers come with signs and blanks, too long, or cut by a NUL; payloads come empty or with a byte order mark.
* **contract_color** (`MCPropertyContractColor.cfg`) finds a violation of `InvalidCommandsAreIgnored`. Set commands with two to four components of a colour, and with 256 more: the code counts them in eight bits and hands 259 components to the sketch as a colour of three.

**Bounds.** `AdvertSteps = 3` is the least the results need: properties speak of
zero, one, two and all steps; the proofs cover every number from three up (the
shortest real advertisement has five). `Requests` switches parts of the
environment on; the safety run has them all at once. `Configs` has three members
because a stored value, a backup and a candidate can all differ; the proofs cover
any set. In the OTA runs
images of one and two units are enough for fragments that begin, continue, end,
repeat and overlap a transfer, and with Base64 for the one that is only padding;
the proofs cover any images. The progress run has a good and a corrupted message
under one MD5, so that `stable` may begin with anything in the flash, and
`ota.enabled` set throughout. In the session
run three messages against a ring of two fill it under Homie 5, one message is
enough for the dispatch under the others; two connections make one session follow
another; nodes are a range, a plain node and one without properties. Commands are
addressed to every name at an edge of a range. The portal has two passwords of one
network and two brokers, so that candidates differ in one section at a time, and two
tests, so that one can follow another; deadlines of one and two ticks keep their
order; the proofs cover any number of tests and any deadlines. The contract has
integers of ten bits (`MaxInt`) with limits, formats and payloads at both ends and
around zero, enumerations of up to five characters over two letters and the comma,
colours at the limits of their components and durations of up to six characters; a
counterexample to a scan or a bound needs no more.
The colour run has lists at both sides of 256 components; the proofs cover texts,
lists and integers of any length and width. No run uses a state constraint.

**Fairness** (`FairSpec` of `Connectivity`). `WF(Loop)`: the sketch keeps calling
`Homie.loop()`. `SF(WaitEnds)`: an interval, a time-out or a publish retried for
ever ends if the loop keeps looking at it; strong, because the loop looks once
per iteration and is elsewhere in between. `SF(Reboot or reset)`: idleness comes
if it is waited for again and again. `WF` on the station and on the client:
drivers have tasks of their own and finish what they began; only joining,
connecting and closing are fair, never trouble. That the network settles is not
assumed by fairness but by the premise of `StableRecovery`.

`FairSpec` of `OtaUpdate`: `WF(HandlerStep)`, the callback runs to its end;
`SF(LoopStep)`, the sketch keeps calling `Homie.loop()`, strong because on ESP8266
it stands still during a callback; `SF(ServiceFails)`, a mutex that is free again
and again is got; `SF(Restart)`, the sketch is idle again and again; `WF` on the
two intervals, on the reconnection (the subject of `Connectivity`) and on the end
of a foreign `Update` session; `SF(stable /\ Receive)`, the sender's retries
arrive. `RetrySucceeds` has `stable` as its premise, not as an assumption.

`FairSpec` of `ConfigPortal`: `WF(LoopStep)`, the sketch keeps calling `Homie.loop()`;
`WF(Handler)` and `WF(ClientCallback)`, AsyncTCP's task finishes what it began; `WF(Tick)`,
time passes while a test waits for it. Nothing is asked of the network, of the broker
or of the browser: `TestEnds` rests on the deadlines alone.

## 4. Proofs

| Theorem | Module | Property | What it establishes |
| --- | --- | --- | --- |
| `Invariance` | `ConnectivityProofs` |  | The inductive invariant: the two legs, the client, the advertisement and what the sketch was told agree in every reachable state, for every number of advertisement steps and every set of requests. |
| `TypeCorrect` | `ConnectivityProofs` | `TypeOK` | Every variable keeps its type. |
| `NoLegIsStranded` | `ConnectivityProofs` | `NoStrandedLeg` | A leg that is down always has an attempt running or a reconnection armed, unless the device is going to sleep. |
| `WatchdogIsArmed` | `ConnectivityProofs` | `WatchdogArmed` | The recovery watchdog is running in every state in which the device is not announced. |
| `SketchIsToldTheTruth` | `ConnectivityProofs` | `SketchView` | isConnected() and the last MQTT event agree with the session the loop keeps. |
| `NewConnectionIsFresh` | `ConnectivityProofs` | `ConnectionStartsAfresh` | A connection starts with nothing of the session before it, except for at most one advertisement step. |
| `ReadinessIsKept` | `ConnectivityProofs` | `ReadinessWithdrawnForCause` | Readiness is only withdrawn when the connection or the Wi-Fi is gone or the device restarts. |
| `SessionIsKept` | `ConnectivityProofs` | `SessionClosedForCause` | The loop closes a ready session only for a lost Wi-Fi or an acknowledged sleep. |
| `SleepIsNotForgotten` | `ConnectivityProofs` | `SleepNotForgotten` | While READY_TO_SLEEP is owed to the sketch, the announced session whose end will tell it is there, for every set of requests, resets among them. |
| `Invariance` | `ConfigStoreProofs` |  | The inductive invariant: at each step of a boot, a save or a reset the files are as that step needs them, and a running configuration is the stored one. |
| `TypeCorrect` | `ConfigStoreProofs` | `TypeOK` | Every variable keeps its type. |
| `FilesAreInStep` | `ConfigStoreProofs` |  | At each step of a save, an erase or a boot the files are as the step needs them, for every set of configurations and on both platforms. |
| `NormalModeRunsTheStore` | `ConfigStoreProofs` | `RunningIsStored` | In normal mode a reboot would load what is running, or nothing, until a new configuration is acknowledged; on both platforms. |
| `StorageRefines` | `ConfigStoreProofs` | `StorageIsAtomic` | With one task at the filesystem, the configuration files implement the abstract store of AtomicConfig: every step is one of its steps or a stutter. |
| `FactoryResetIsComplete` | `ConfigStoreProofs` | `FactoryResetLeavesNothing` | With one task at the filesystem, an acknowledged factory reset has left none of the configuration files: primary, temporary file, backup, NEXTMODE. |
| `FailedRecoveryBlocks` | `ConfigStoreProofs` | `FailedRecoveryFreezesFiles` | After a failed recovery no configuration file changes until a boot succeeds or a reset begins. |
| `CancellableEraseIsHarmless` | `ConfigStoreProofs` | `CancellableEraseKeepsConfig` | With one task at the filesystem, an erase that can still be refused has not touched the primary file. |
| `ConfigOnlyResetIsHonoured` | `ConfigStoreProofs` | `ConfigOnlyResetOpensPortal` | An acknowledged configuration-only reset opens the portal at the next boot that is not cut short, on both platforms and with a save at the files at the same time. |
| `Invariance` | `OtaUpdateProofs` |  | The inductive invariant: where the handler stands, the transfer's counters, what Update was given and the flags shared with the loop agree at every step of either. |
| `TypeCorrect` | `OtaUpdateProofs` | `TypeOK` | Every variable keeps its type, for every set of images and messages. |
| `FlashIsInOrder` | `OtaUpdateProofs` | `WrittenInOrder` | Whatever fragments arrive, repeated, overlapping or with gaps, Update is given each unit once and in order. |
| `UpdaterIsReleased` | `OtaUpdateProofs` | `UpdaterReleased` | Homie holds Update exactly while a transfer that began to write goes on; every failure, time-out and disconnection gives it back. |
| `OnlyVerifiedIsStaged` | `OtaUpdateProofs` | `StagedIsAnnounced` | Only the complete, verified image of the announced transfer is ever staged; in particular no cancellation commits one. |
| `StagedIsSafe` | `OtaUpdateProofs` | `StagedIsLeftAlone` | No transfer, retry or reconnection opens Update again between the commit of an image and the restart into it. |
| `NoStatusLost` | `OtaUpdateProofs` | `LastStatusIsTold` | The status slot is emptied only when the last status queued is the one published. |
| `ForeignIsUntouched` | `OtaUpdateProofs` | `ForeignUntouched` | No step of a transfer changes an Update session of somebody else. |
| `NeverIsResumed` | `OtaUpdateProofs` | `NeverResumed` | Nothing is written for a transfer whose session has ended, once a new session is up. |
| `RingInvariance` | `RingProofs` |  | The inductive invariant of a ring: the indices are in range, and the slots from the oldest to the newest are those in use. |
| `RingIsFifo` | `RingProofs` | `PendingIsFifo` | Whatever the size of the ring, it is a bounded FIFO: every operation is one of BoundedQueue on the messages it holds. |
| `Invariance` | `MqttSessionProofs` |  | The inductive invariant of a session: the flags, the client, the announcement, the queue, the message that arrives, the acknowledgement and the drop counter agree between any two steps of the two tasks. |
| `TypeCorrect` | `MqttSessionProofs` | `TypeOK` | Every variable keeps its type. |
| `SessionUsesRing` | `MqttSessionProofs` |  | A session implements the specification of the ring: whatever the loop and the callbacks do to the queue is one of the ring's operations. |
| `SessionQueueIsFifo` | `MqttSessionProofs` | `PendingIsFifo` | The queue of pending messages is a bounded FIFO in the whole composition, with callbacks between any two steps of the loop. |
| `CommandsAreOfOpenSession` | `MqttSessionProofs` | `CommandOfOpenSession` | A command the sketch is given is whole, of the open session (or the one in hand when it ended), given once and in order; for any messages and rings of any size. |
| `DropsCounted` | `MqttSessionProofs` | `DropsAreCounted` | While a session lasts, the drop counter is at least the number of commands that disappeared. |
| `SleepAckExact` | `MqttSessionProofs` | `SleepAckIsExact` | The device takes its farewell for delivered exactly when the broker has acknowledged that publication, for any number of farewells and any size of the event ring. |
| `CommandsReach` | `DeviceNodesProofs` |  | For any nodes with unambiguous names and any set commands: a command reaches just the settable property and the element it is addressed to, and nothing else is handed to the sketch. |
| `AnnouncementIsFull` | `MqttSessionProofs` | `AnnouncedInFull` | A device that says it is ready has said all there is to say over this connection, for any nodes under any of the three conventions. |
| `Invariance` | `ConfigPortalProofs` |  | The inductive invariant: a claim, the phase the loop has loaded, a callback under way and the verdict of the test agree in every reachable state. |
| `TypeCorrect` | `ConfigPortalProofs` |  | Every variable of the portal keeps its type. |
| `FailuresAreExplained` | `ConfigPortalProofs` | `FailureIsExplained` | The reason given for a failed test is the reason of that test, for every deadline and any number of tests. |
| `SaveIsOfTheTested` | `ConfigPortalProofs` | `SavedWasTested` | After a test, a save writes the candidate that passed, whatever requests and callbacks came between. |
| `AttributesAreEnforced` | `PropertyContractProofs` | `AdvertisedIsEnforced` | For every set of declarations and payloads of the modelled datatypes (whole numbers), every width of integers and the three conventions: of what can be counted, all that the advertised attributes allow is accepted, but for an empty command and numbers of more than twenty characters; and nothing else, but for how the components of a colour are written and a value of Homie 3 or 4 with a NUL in it. |
| `MeaningIsKept` | `PropertyContractProofs` | `MeaningSurvives` | Under Homie 5 no value that is accepted means something else on the other side, and none is published as an empty payload, for every set of values. |
| `EnumerationIsAdvertised` | `PropertyContractProofs` |  | The single scan of an enumeration's format accepts just the values between its separators, for formats and payloads of any length; under Homie 3 a doubled comma is part of a value. |
| `DurationIsAdvertised` | `PropertyContractProofs` |  | The loop over a duration accepts just hours, minutes and seconds in this order, each at most once, for texts of any length. |

**Connectivity.** The safety properties are not inductive one by one: that a leg
is never stranded depends on timers being inactive only when a session is up,
which depends on when attempts are booked. `IInv` is the conjunction of `TypeOK`,
`NoStrandedLeg`, `WatchdogArmed`, `SketchView` and `Bookkeeping`; `Bookkeeping` is
the strengthening: Wi-Fi and MQTT flags agree, a handled session has no attempt or
timer behind it, and of a session the loop never handled at most two advertisement
steps are out. `ConnectivityProofs` proves the type part first (flags, then
ranges), then `InvStep` with one step per action; the three action properties
follow from `IInv` and one look at the actions that change the primed variable, and
`SleepNotForgotten` is kept by every step because `SketchView` ties `ready` to a session
the loop has handled, whose end tells READY_TO_SLEEP.

**ConfigStore.** `IInv` is `TypeOK`, `FilesFollowSteps` and `RunningIsStored`.
`FilesFollowSteps` says, for every step of a save, an erase or a boot, which files
exist and what they hold; its second half is only claimed where one task is at the
filesystem (`Serial`). From it, `RefinementStep` maps every action to an action of
`AtomicConfig` or a stutter, and `StorageRefines` is the theorem
`Spec => Atomic!Spec` for `~TwoTasks`. `NormalModeRunsTheStore` needs no such
assumption.

**OtaUpdate.** `IInv` joins the invariants with `Agreement`, the strengthening: at
each place of the handler the fragment, `processed` and the length of what
`Update` was given fit together; nothing is staged while a transfer goes on; and a
transfer whose session has ended has the flag of the disconnection set. There is one lemma per step, or per group of steps that
end alike (every failure is `FailKeeps`), and the type part is split so that each
step shows only the parts it touches. `StagedIsSafe` is a corollary: a session of `Update` needs
a transfer, and none goes on beside a staged image. The action properties need one look at the
steps: `OnlySlicesGrow` says that only `WriteSlice` lengthens what is written.

**Ring.** `RingInv` says where the indices are and that the slots from the oldest on
are the ones in use; `RingIsFifo` is the refinement: what `Behind` reads from the ring
is the queue of `BoundedQueue`, for every capacity.

**ConfigPortal.** Whether a save writes what was tested depends on what a claim found,
on what the loop loaded before it looked at the client, and on callbacks still under
way. `IInv` is `TypeOK` with three parts: `ClaimsHold` (a claimed phase stays, an active
phase the loop has loaded stays, a request to test finds the client disconnected),
`CallbacksHold` (a callback under way is about the last session, and none comes from
`mqtt.loop()` while a test has no session) and `TestHolds` (what each phase knows of its
test; `Standing` is the phase a refused request restores). There is one lemma per
action with one step per part.

**Advertisement** (`DeviceNodesProofs`). `_advertise()` walks three nested counters, and a publication may be
refused at each. `Said(p)` is the announcement up to a progress `p`, written from the
counters; `AdvanceSays` is the core: moving on from `p` adds to it exactly what the call
at `p` attempts, whichever counter moves and however many elements, properties or
nodes there are. `DoneIsAnnounced` says that at the end it is the whole announcement of
the convention, `SaidInFull` that on the way it is what `AnnouncedInFull` asks for.

**MqttSession.** Two tasks share every part of the state, and no property holds by
itself. `IInv` adds to the types (`Typed`, which includes `RingInv`):
* `LegAgreement`: which flags go with which state of the client. A session the loop has
  not handled has its event pending; until then at most `$state=init` was said in it,
  nothing is subscribed and so nothing arrives or is queued. This is what makes the flush
  of a disconnection come in time.
* `QueueAgreement`: every message in the ring, and the one in the loop's hands, is whole,
  of the open session, later than all that were dispatched, and they are in order.
* `ArrivalAgreement`: the message whose chunks arrive is the last that began, and the
  buffer holds its chunks so far, unless it was too small and the message is lost.
* `LateAgreement`: nothing was dispatched since the session ended, if the loop is about to
  take or dispatch a message; hence one at most.
* `AckAgreement`: the packed word says acknowledged exactly when the broker has said so,
  and a publication whose id is not known yet cannot have been acknowledged, because the
  callback waits for the client's mutex.
* `DropAgreement`: every command that is neither dispatched nor on its way was counted.
* `AnnouncementAgreement`: `announced` is `Said(progress)`, or the session is over and
  `progress` starts anew.

Each part has a lemma with one step per action; `MessageEffect` says once what a chunk
does to the buffer, the ring and the counter, and the others use only that.
`SessionUsesRing` shows that a session implements `RingSpec`, so that `RingIsFifo` carries
over to it.

**SetCommand** (`DeviceNodesProofs`). `CommandsReach` is about a function of the topic, so it needs no
invariant, only the names (`NamesAssumption`). `IdFindsNode` and `ElementFindsRange` say
that the node a name belongs to is the first that matches it: an earlier one would have
to be a prefix of the later one's id. `FirstIsLeast` says that there is a first one.

**PropertyContract.** The state is small and the proof is about data: that loops over the
characters of a text, as the code has them, find what positions in the text say. The
library's induction theorems take an operator and cannot be used here; `Induction` is
stated for a set of numbers instead, from the least counterexample (`LeastElement`), and
`Recursion` unfolds a recursive function.
* Enumerations: `ScanKnows` is the invariant of the scan. Up to place `i` it has seen just
  the values between adjacent bounds, `found` says whether the payload was one of them,
  and `token` is what is written since the last separator. `ScanCharacterKeeps` has one
  case per kind of character; `CommasPair` says where Homie 3 takes a comma for the
  first of two. `EnumerationIsAdvertised` is the result.
* Durations: `GroupsTo` is what the loop knows after each character, and
  `DurationIsAdvertised` that it ends with hours, minutes and seconds in order.
* Integers: `Steps` and `WrapIs` say that the remainder of the wrapped difference is zero
  just when a whole number of steps leads from the base to the value, if the difference
  fits; `IntegerIsAdvertised` and `ColorIsAdvertised` follow.
* `AdvertisedIs` is what of a declaration becomes of its attributes, `MatchesConforms` puts
  the datatypes together, `AcceptedHasNoNul` says that no payload accepted is cut short at a
  NUL, other than strings and the colours of Homie 3 and 4. `ContractInv` remembers of an exchange how its bytes and its value came about.

`AttributesAreEnforced` has the premise `Countable` of the property: a difference within a
`long long` and fewer than 256 components. Beyond it the code is wrong (section 5 for
colours) or undefined (a hazard, for integers). It has the property's exceptions too
(section 2), and speaks of the payloads the model has: whole numbers, no dates, no JSON.

Assumptions on the constants are the ASSUMEs named `...Assumption` (and `LongLong`),
which TLC evaluates in every run. Only the results on the files have a premise of their
own: they name `~TwoTasks` where they need it.

Only model-checked: the liveness properties (`StableRecovery`, `OutageEnds`,
`SleepCompletes`, `TransferEnds`, `RetrySucceeds`, `TestEnds`), because the prover has no
ENABLED reasoning. Every safety invariant and every action property of a passing run is
a theorem.

## 5. Disagreements found

* `FactoryResetForgets` (run `store_race`, `src/src/Homie/Utils/ConfigFile.hpp:58`): Nothing serialises Config::erase(), called by ResetHandler::_handleReset on the main loop (ResetHandler.ipp:58), with Config::write(), called by the portal's POST on the web server's task of an ESP32 (BootConfigTest.ipp:111): the claim of _configTestPhase excludes other requests only. The run shows erase() removing the temporary file and the backup, the save then renaming the primary to the backup (ConfigFile.hpp:58), and erase() finding no primary and reporting success: whether the save now undoes its rename or the restart comes first, the next boot finds the configuration that was reset. docs/advanced-usage/ui-bundle.md:95 says "a factory reset removes the primary, temporary and backup files" and docs/advanced-usage/resetting.md:10 says "factory reset, including device ID".
* `RecoveredIsReviewed` (run `store_review`, `src/src/Homie/Utils/ConfigFile.hpp:21`): load() promotes the backup with a rename and reports RECOVERED in RAM only (Config.cpp:152); setup() opens the portal because of that flag (Homie.cpp:152). When the power fails between the rename and the portal, the next boot finds a valid primary, reports PRIMARY and runs the older configuration in normal mode. docs/advanced-usage/ui-bundle.md:91-93 says "Recovery opens configuration mode with the recovered ID and settings, allowing credentials to be reviewed instead of silently trying an older network."
* `SuccessIsTrue` (run `ota_status`, `src/src/Homie/Boot/BootNormalOta.ipp:166`): While a restart is pending every fragment with index 0 is answered from _otaRequestedChecksum alone: 200 if it is the same MD5 (BootNormalOta.ipp:166-170). The test takes a pending restart for a completed update, but $implementation/config/set (BootNormal.cpp:2364) and the connectivity watchdog (BootNormal.cpp:859) set the same flag, and the first does it while a transfer is under way, when _otaRequestedChecksum already holds the MD5 of the image being received. The run shows a transfer begun, a new configuration stored, and the sender's retry of the same image answered with 200 although nothing is staged; the device then restarts into its old firmware. docs/others/homie-implementation-specifics.md:90 says "`200`: OTA successfully flashed."
* `InvalidCommandsAreIgnored` (run `contract_color`, `src/src/Homie/Utils/ConventionValidation.hpp:620`): The number of components is kept in a uint8_t (ConventionValidation.hpp:620 for Homie 3 and 4, 653 for Homie 5) and only compared at the end (values == 3, or 2 for xyz), so a payload of 259 components of rgb or hsv, or of 258 of xyz, is accepted. Nothing before it refuses one: 259 single digits make 517 bytes, and without preallocated buffers a payload may have 4096 (BootNormal.hpp:31-35). docs/advanced-usage/compiler-flags.md:140-141 says of strict validation: 'incoming `/set` commands with invalid payloads are ignored before application handlers run'. The run has payloads of 2 to 4 and of 258 to 260 components and TLC finds a command with more than 255 accepted. Up to 255 components the code is right: AdvertisedIsEnforced is proved with that premise (Countable).

## 6. Not modelled, and the plan

Modules still to come, most important first:

1. A composition of `MqttSession` with the drift and stall recovery of `Connectivity`, now two views of one loop that agree by inspection only.
2. `ResetButton`: the polled button with wrap-around time and ticks suspended while a reset waits.
3. Floats, dates and JSON in `PropertyPayload`; the QoS, ranges and shared builder of `SendingPromise`.

Left out for good: parsing, validation and formatting of JSON and topics (pure string
work that unit tests reach better); timers as arithmetic (every interval may be found
elapsed or not, and the back-off's retry count is clamped); the network scan, the
proxy and the captive portal of the configuration mode; the LED, the logger,
statistics; the host's `ota_updater.py`, since `OtaUpdate` lets any sender send
anything; the generated portal page; the opt-in SPIFFS to LittleFS
migration and the formatting of an erased partition; builds without a portal.

----------------------------- MODULE OtaUpdate -----------------------------
(***************************************************************************)
(* Firmware updates over MQTT (BootNormalOta.ipp): the handler that takes  *)
(* the fragments of a firmware message as they arrive, the cleanup, the    *)
(* status publisher and the restart of the main loop, and the Update       *)
(* object of the platform that all of them share.                          *)
(*                                                                         *)
(* On ESP32 the fragments arrive on a task of their own and a mutex guards *)
(* the whole handler; everything else of the loop goes on beside it.  On   *)
(* ESP8266 the loop stands still during the handler, but while the handler *)
(* yields after a slice another callback may come in.                      *)
(*                                                                         *)
(* Images are sequences of units; one unit is a slice of flash.  A Base64  *)
(* payload is one unit longer than its image, the padding.                 *)
(***************************************************************************)
EXTENDS Naturals, Sequences

CONSTANTS
  Firmwares,   \* firmware images, named by their MD5
  ImageSize,   \* how many units an image has
  Messages,    \* the firmware messages that may be sent
  Upgrade,     \* the one that is sent again and again once all has settled
  Factory,     \* the firmware the device runs first
  Platforms,   \* "esp32", "esp8266"
  Enabled,     \* the values ota.enabled may have
  None         \* no firmware, no message

Kinds == {"binary", "base64",  \* the image
          "junk",              \* a binary with the right header, not the image
          "noise",             \* neither header
          "retained", "broken" \* retained; with impossible bounds
         }

Statuses == {"accepted", "progress", "success", "failed", "refused"}

ASSUME OtaUpdateAssumption ==
  /\ Firmwares \subseteq STRING /\ {"junk", "never"} \cap Firmwares = {}
  /\ None \notin Firmwares \cup Statuses
  /\ ImageSize \in [Firmwares -> Nat \ {0}]
  /\ None \notin Messages /\ Upgrade \in Messages /\ Factory \in Firmwares
  /\ \A msg \in Messages :
       /\ msg.kind \in Kinds /\ msg.total \in Nat \ {0, 1}
       /\ msg.kind = "binary" =>
            msg.fw \in Firmwares /\ msg.total = ImageSize[msg.fw]
       /\ msg.kind = "base64" =>
            msg.fw \in Firmwares /\ msg.total = ImageSize[msg.fw] + 1
  /\ Upgrade.kind \in {"binary", "base64"}
  /\ Platforms \subseteq {"esp32", "esp8266"} /\ Enabled \subseteq BOOLEAN

VARIABLES
  platform, enabled,   \* the build; ota.enabled
  session,     \* "up", "lost" (the loop has not noticed), "down"
  sent,        \* once all has settled: how much of Upgrade was delivered
  stable,      \* from here on senders, network and flash behave
  receiver,    \* where __handleOTAUpdates is, or "idle"
  chunk,       \* the fragment in its hands
  ongoing, requested, base64, payloadTotal, processed, started,
  quiet,       \* has HOMIE_OTA_TIMEOUT_MS passed since _otaLastChunkAt?
  disconnected,       \* _otaDisconnected
  updater, staged,    \* Update; the image the boot loader is to install
  running,            \* _fwChecksum
  flaggedForReboot,
  status,      \* the status to be published, or None
  current,     \* is the status still the one the publisher copied?
  recent,      \* is the grace period since _otaStatusQueuedAt not over?
  pc, wait,    \* where the main loop is; its waitForOtaStatus
  cut,         \* history: the transfer's session has ended
  told         \* history: the last status queued was published

transfer == <<ongoing, requested, base64, payloadTotal, processed, started,
              quiet>>
flash    == <<updater, staged>>
mailbox  == <<status, current, recent, told>>
network  == <<session, sent, stable>>
world    == <<platform, enabled>>
main     == <<pc, wait>>
handler  == <<receiver, chunk>>
vars == <<world, network, handler, transfer, disconnected, flash, running,
          flaggedForReboot, mailbox, main, cut>>

HandlerSteps == {"entered", "checked", "write", "stored", "finish", "announce"}
LoopSteps    == {"session", "service", "status", "settle", "grace", "reboot"}

NoChunk   == [message |-> None, index |-> 0, len |-> 0]
NoUpdate  == [owner |-> "none", digest |-> None, size |-> 0, written |-> <<>>]

Image(fw) == [i \in 1..ImageSize[fw] |-> <<fw, i>>]
Images    == {Image(fw) : fw \in Firmwares}

-----------------------------------------------------------------------------
\* Update, the flash driver of the platform.
\* end(anyway) installs what is complete, or all there is if `anyway', when its
\* digest is the expected one.
Installs(digest, anyway) ==
  /\ anyway \/ Len(updater.written) = updater.size
  /\ digest \in Firmwares => updater.written = Image(digest)
  /\ digest # "never"

EndUpdate(digest, anyway) ==
  /\ updater' = NoUpdate
  /\ staged' = IF Installs(digest, anyway) THEN updater.written ELSE staged

\* ESP8266 has no abort(): a digest that no image has, then end(false).
AbortDigestMutant == updater.digest
AbortDigest == "never"
AbortUpdate ==
  IF platform = "esp32" THEN updater' = NoUpdate /\ staged' = staged
  ELSE EndUpdate(AbortDigest, FALSE)

\* Another consumer of Update: a sketch's own updater, for instance.
OtherUpdate ==
  /\ \/ /\ updater.owner = "none" /\ ~stable
        /\ updater' = [NoUpdate EXCEPT !.owner = "other"]
     \/ updater.owner = "other" /\ updater' = NoUpdate
  /\ UNCHANGED <<world, network, handler, transfer, disconnected, staged,
                 running, flaggedForReboot, mailbox, main, cut>>

-----------------------------------------------------------------------------
\* _queueOtaStatus: one slot; the last status wins.
QueueStatus(s) ==
  /\ status' = s /\ current' = FALSE /\ recent' = TRUE
  /\ told' = FALSE

ResetTransferMutant(checksum) ==
  /\ ongoing' = ongoing /\ requested' = checksum
  /\ started' = FALSE /\ base64' = FALSE
  /\ payloadTotal' = 0 /\ processed' = 0 /\ quiet' = FALSE
\* _resetOtaTransferState, but for the updater.
ResetTransfer(checksum) ==
  /\ ongoing' = FALSE /\ requested' = checksum
  /\ started' = FALSE /\ base64' = FALSE
  /\ payloadTotal' = 0 /\ processed' = 0 /\ quiet' = FALSE

MustAbortMutant == FALSE
MustAbortAlways == TRUE
MustAbort == started
\* _failOtaUpdate: the updater is released before the failure is visible.
FailUpdate ==
  /\ IF MustAbort THEN AbortUpdate ELSE UNCHANGED flash
  /\ ResetTransfer(None)
  /\ QueueStatus("failed")

-----------------------------------------------------------------------------
\* The handler.  Where its code can run, given what else is running.
CallbackMayRun == platform = "esp8266" => pc # "reboot"
LoopMayRun     == platform = "esp8266" => receiver = "idle"

Return == receiver' = "idle" /\ chunk' = NoChunk

m == chunk.message
ChunkEnd == chunk.index + chunk.len
Padding  == IF base64 THEN 1 ELSE 0
DataLeft == chunk.len > 0 /\ chunk.index < payloadTotal - Padding

\* What a unit of the payload decodes to.
Unit(i) == <<IF m.kind = IF base64 THEN "base64" ELSE "binary"
             THEN m.fw ELSE "junk", i + 1>>

InterruptedMutant == FALSE
Interrupted == disconnected /\ ongoing

\* A fragment arrives.  The guard is taken, and a disconnection since the last
\* one ends the transfer it interrupted.  Fragments may be lost (a callback came
\* in while another ran) and messages sent again, so any may come next until
\* all has settled.  A settled sender waits while a restart is pending: each new
\* attempt renews the grace period and puts the restart off.
Receive ==
  /\ receiver = "idle" /\ CallbackMayRun /\ session = "up"
  /\ \E message \in IF stable THEN {Upgrade} ELSE Messages :
       \E index \in 0..message.total : \E len \in 0..(message.total - index) :
         /\ stable => index = sent /\ len > 0 /\ ~(index = 0 /\ flaggedForReboot)
         /\ sent' = IF stable /\ index + len < message.total THEN index + len ELSE 0
         /\ chunk' = [message |-> message, index |-> index, len |-> len]
  /\ receiver' = "entered"
  /\ disconnected' = FALSE
  /\ IF Interrupted THEN FailUpdate
     ELSE UNCHANGED <<transfer, flash, mailbox>>
  /\ UNCHANGED <<world, session, stable, running, flaggedForReboot, main, cut>>

\* A callback that comes in while the handler yields finds the guard taken.
ReceiveNested ==
  /\ platform = "esp8266" /\ receiver = "write" /\ ~stable
  /\ session = "up"
  /\ QueueStatus("refused")
  /\ UNCHANGED <<world, network, handler, transfer, disconnected, flash,
                 running, flaggedForReboot, main, cut>>

\* Nothing may overwrite a staged image, or start before a restart.
RestartPendingMutant == FALSE
RestartPending == flaggedForReboot
CheckReboot ==
  /\ receiver = "entered"
  /\ \/ /\ ~RestartPending
        /\ receiver' = "checked" /\ UNCHANGED <<chunk, mailbox>>
     \/ /\ RestartPending
        /\ IF chunk.index = 0
           THEN QueueStatus(IF m.fw = requested THEN "success" ELSE "refused")
           ELSE UNCHANGED mailbox
        /\ Return
  /\ UNCHANGED <<world, network, transfer, disconnected, flash, running,
                 flaggedForReboot, main, cut>>

\* Every failure ends the transfer, if there is one, and the handler.
Fail ==
  /\ FailUpdate /\ Return
  /\ UNCHANGED <<world, network, running, flaggedForReboot, main, cut>>

Refuse ==
  /\ QueueStatus("refused") /\ Return
  /\ UNCHANGED <<world, network, transfer, disconnected, flash, running,
                 flaggedForReboot, main, cut>>

Ignore ==
  /\ Return
  /\ UNCHANGED <<world, network, transfer, disconnected, flash, running,
                 flaggedForReboot, mailbox, main, cut>>

Impossible == m.kind = "broken" \/ (m.kind = "retained" /\ chunk.len > 0)
Empty      == chunk.len = 0
Opening    == chunk.index = 0 /\ ~ongoing
Refused    == ~enabled \/ (m.fw \in Firmwares /\ m.fw = running)
              \/ (m.fw \in Firmwares /\ updater.owner # "none")
BadRequest == m.fw \notin Firmwares \/ m.kind = "noise"

RejectChunk == receiver = "checked" /\ Impossible /\ Fail
               /\ UNCHANGED disconnected
IgnoreEmpty == receiver = "checked" /\ ~Impossible /\ Empty /\ Ignore
Usable      == receiver = "checked" /\ ~Impossible /\ ~Empty

RefuseStart == Usable /\ Opening /\ Refused /\ Refuse
RejectStart == Usable /\ Opening /\ ~Refused /\ BadRequest /\ Fail
               /\ UNCHANGED disconnected
DiscardTail == Usable /\ ~ongoing /\ ~Opening /\ Ignore

Start ==
  /\ Usable /\ Opening /\ ~Refused /\ ~BadRequest
  /\ ongoing' = TRUE /\ requested' = m.fw
  /\ base64' = (m.kind = "base64")
  /\ payloadTotal' = m.total /\ processed' = 0 /\ quiet' = FALSE
  /\ QueueStatus("accepted")
  /\ cut' = (session # "up")
  /\ UNCHANGED <<world, network, handler, started, disconnected, flash,
                 running, flaggedForReboot, main>>

\* The transfer goes on: with the same image, and with no gap.
Belongs == m.fw = requested /\ m.total = payloadTotal
Gap     == chunk.index > processed
Known   == ChunkEnd <= processed

RejectOther  == Usable /\ ongoing /\ (~Belongs \/ (~Known /\ Gap)) /\ Fail
                /\ UNCHANGED disconnected
IgnoreKnownMutant ==
  /\ Usable /\ ongoing /\ Belongs /\ Known
  /\ Return /\ quiet' = FALSE
  /\ UNCHANGED <<world, network, ongoing, requested, base64, payloadTotal,
                 processed, started, disconnected, flash, running,
                 flaggedForReboot, mailbox, main, cut>>
IgnoreKnown  == Usable /\ ongoing /\ Belongs /\ Known /\ Ignore

\* What was processed before is trimmed away.
TrimmedMutant == chunk
Trimmed ==
  [message |-> m, index |-> processed, len |-> ChunkEnd - processed]

ExpectedDigestMutant == None
ExpectedDigest == requested

\* Decoding; then begin() and setMD5() before the first unit.
Take ==
  /\ Usable /\ ongoing /\ Belongs /\ ~Known /\ ~Gap
  /\ chunk' = Trimmed
  /\ IF processed >= payloadTotal - Padding
     THEN receiver' = "stored" /\ UNCHANGED <<updater, started>>
     ELSE /\ receiver' = "write"
          /\ started' = TRUE
          /\ IF started THEN UNCHANGED updater
             ELSE /\ updater.owner = "none"
                  /\ updater' = [owner |-> "homie", digest |-> ExpectedDigest,
                                 size |-> payloadTotal, written |-> <<>>]
  /\ UNCHANGED <<world, network, ongoing, requested, base64, payloadTotal,
                 processed, quiet, disconnected, staged, running,
                 flaggedForReboot, mailbox, main, cut>>

\* Bad Base64, no memory, a decoded header that is wrong, a refused begin().
TakeFails ==
  /\ Usable /\ ongoing /\ Belongs /\ ~Known /\ ~Gap
  /\ ~stable \/ (~started /\ updater.owner # "none")
  /\ Fail /\ UNCHANGED disconnected

\* _writeOtaPayload: one slice after the other, looking for a disconnection.
WriteSlice ==
  /\ receiver = "write" /\ DataLeft /\ ~disconnected
  /\ updater' = [updater EXCEPT !.written = Append(@, Unit(chunk.index))]
  /\ chunk' = [message |-> m, index |-> chunk.index + 1, len |-> chunk.len - 1]
  /\ UNCHANGED <<world, network, receiver, transfer, disconnected, staged,
                 running, flaggedForReboot, mailbox, main, cut>>

WriteFails ==
  /\ receiver = "write" /\ DataLeft /\ ~stable
  /\ disconnected' = FALSE
  /\ Fail

AbandonChunk ==
  /\ receiver = "write" /\ disconnected
  /\ disconnected' = FALSE
  /\ Fail

AllWritten ==
  /\ receiver = "write" /\ ~DataLeft /\ ~disconnected
  /\ receiver' = "stored"
  /\ UNCHANGED <<world, network, chunk, transfer, disconnected, flash, running,
                 flaggedForReboot, mailbox, main, cut>>

\* The fragment is processed; progress is told, now and then by a status.
Stored ==
  /\ receiver = "stored"
  /\ processed' = ChunkEnd /\ quiet' = FALSE
  /\ \/ /\ ChunkEnd = payloadTotal
        /\ receiver' = "finish" /\ UNCHANGED <<chunk, mailbox>>
     \/ /\ ChunkEnd # payloadTotal
        /\ Return
        /\ QueueStatus("progress") \/ UNCHANGED mailbox
  /\ UNCHANGED <<world, network, ongoing, requested, base64, payloadTotal,
                 started, disconnected, flash, running, flaggedForReboot,
                 main, cut>>

WrongLength == ~started \/ Len(updater.written) # payloadTotal - Padding

\* Damaged Base64, a wrong length, a connection lost meanwhile, a wrong MD5 or
\* a flash that fails.
FinishFails ==
  /\ receiver = "finish"
  /\ \/ (WrongLength \/ (base64 /\ ~stable)) /\ UNCHANGED disconnected
     \/ ~WrongLength /\ disconnected /\ disconnected' = FALSE
     \/ /\ ~WrongLength /\ ~disconnected /\ UNCHANGED disconnected
        /\ ~stable \/ ~Installs(updater.digest, base64)
  /\ Fail

Commit ==
  /\ receiver = "finish" /\ ~WrongLength /\ ~disconnected
  /\ Installs(updater.digest, base64)
  /\ EndUpdate(updater.digest, base64)
  /\ ResetTransfer(requested)
  /\ QueueStatus("success")
  /\ receiver' = "announce"
  /\ UNCHANGED <<world, network, chunk, disconnected, running,
                 flaggedForReboot, main, cut>>

Announce ==
  /\ receiver = "announce"
  /\ flaggedForReboot' = TRUE
  /\ Return
  /\ UNCHANGED <<world, network, transfer, disconnected, flash, running,
                 mailbox, main, cut>>

Arrival == Receive \/ ReceiveNested

HandlerStep ==
  \/ CheckReboot \/ RejectChunk \/ IgnoreEmpty \/ RefuseStart
  \/ RejectStart \/ DiscardTail \/ Start
  \/ RejectOther \/ IgnoreKnown \/ Take \/ TakeFails
  \/ WriteSlice \/ WriteFails \/ AbandonChunk \/ AllWritten
  \/ Stored \/ FinishFails \/ Commit \/ Announce

-----------------------------------------------------------------------------
\* The main loop.
At(here) == pc = here /\ LoopMayRun
Goto(there) == pc' = there

\* _handleMqttDisconnected sets the flag once more.  It may come late, when the
\* client is connected again, or ahead of a disconnection it is about to force.
Noticed == session = "lost" /\ session' = "down" /\ disconnected' = TRUE
NoticedLate == ~stable /\ UNCHANGED session /\ disconnected' = TRUE

\* _processPendingAsyncEvents, where the loop learns of a disconnection.
NoticeSession ==
  /\ At("session") /\ Goto("service")
  /\ \/ Noticed
     \/ session # "lost" /\ (NoticedLate \/ UNCHANGED <<session, disconnected>>)
  /\ UNCHANGED <<world, sent, stable, handler, transfer, flash, running,
                 flaggedForReboot, mailbox, wait, cut>>

\* _serviceOta.  It takes the guard only if a transfer is going on, which may be
\* over when it has got the guard.
ServiceFails ==
  /\ At("service") /\ Goto("status")
  /\ ongoing /\ receiver = "idle" /\ (disconnected \/ quiet)
  /\ disconnected' = FALSE
  /\ FailUpdate
  /\ UNCHANGED <<world, network, handler, running, flaggedForReboot, wait, cut>>

ServicePasses ==
  /\ At("service") /\ Goto("status")
  /\ ongoing => receiver = "idle" /\ ~disconnected /\ ~quiet
  /\ \/ UNCHANGED disconnected
     \/ platform = "esp32" /\ receiver = "idle" /\ disconnected' = FALSE
  /\ UNCHANGED <<world, network, handler, transfer, flash, running,
                 flaggedForReboot, mailbox, wait, cut>>

\* _processPendingOtaStatus: copies and publishes the status, then withdraws it
\* unless another one was queued meanwhile.
NothingToPublish ==
  /\ At("status") /\ Goto("grace")
  /\ status # None => session # "up" \/ ~stable
  /\ UNCHANGED <<world, network, handler, transfer, disconnected, flash,
                 running, flaggedForReboot, mailbox, wait, cut>>

PublishStatus ==
  /\ At("status") /\ Goto("settle")
  /\ status # None /\ session = "up"
  /\ current' = TRUE /\ told' = TRUE
  /\ UNCHANGED <<world, network, handler, transfer, disconnected, flash,
                 running, flaggedForReboot, status, recent, wait, cut>>

WithdrawnMutant == None
Withdrawn == IF current THEN None ELSE status

SettleStatus ==
  /\ At("settle") /\ Goto("grace")
  /\ status' = Withdrawn
  /\ current' = FALSE
  /\ UNCHANGED <<world, network, handler, transfer, disconnected, flash,
                 running, flaggedForReboot, recent, told, wait, cut>>

\* The restart: two looks at what the handler writes, the status first.
LookAtStatus ==
  /\ At("grace") /\ Goto("reboot")
  /\ wait' = recent
  /\ UNCHANGED <<world, network, handler, transfer, disconnected, flash,
                 running, flaggedForReboot, mailbox, cut>>

\* ESP.restart(), once the sketch is idle.  The boot loader installs the image;
\* ota.enabled is read again.
Restart ==
  /\ At("reboot") /\ flaggedForReboot /\ ~wait
  /\ running' = IF staged \in Images
                THEN CHOOSE fw \in Firmwares : staged = Image(fw)
                ELSE IF staged = <<>> THEN running ELSE "junk"
  /\ session' = "down" /\ sent' = 0
  /\ receiver' = "idle" /\ chunk' = NoChunk
  /\ ResetTransfer(None)
  /\ disconnected' = FALSE /\ updater' = NoUpdate /\ staged' = <<>>
  /\ flaggedForReboot' = FALSE
  /\ status' = None /\ current' = FALSE /\ recent' = FALSE /\ told' = TRUE
  /\ Goto("session") /\ wait' = FALSE /\ cut' = FALSE
  /\ enabled' \in IF stable THEN {enabled} ELSE Enabled
  /\ UNCHANGED <<platform, stable>>

\* The rest of the loop.  The drift check may notice the disconnection;
\* $implementation/config/set may arrive, and __handleConfig stores it and asks
\* for a restart, whatever transfer is going on; the watchdog asks for one if no
\* transfer is.
RunMessages ==
  /\ At("reboot") /\ Goto("session") /\ wait' = FALSE
  /\ Noticed \/ NoticedLate \/ UNCHANGED <<session, disconnected>>
  /\ \/ UNCHANGED flaggedForReboot
     \/ ~stable /\ (session = "up" \/ ~ongoing) /\ flaggedForReboot' = TRUE
  /\ UNCHANGED <<world, sent, stable, handler, transfer, flash, running,
                 mailbox, cut>>

LoopStep ==
  \/ NoticeSession \/ ServiceFails \/ ServicePasses
  \/ NothingToPublish \/ PublishStatus \/ SettleStatus
  \/ LookAtStatus \/ Restart \/ RunMessages

-----------------------------------------------------------------------------
\* Time, the network and the sender.
InactivityElapses ==
  /\ ongoing /\ ~stable /\ ~quiet /\ quiet' = TRUE
  /\ UNCHANGED <<world, network, handler, ongoing, requested, base64,
                 payloadTotal, processed, started, disconnected, flash,
                 running, flaggedForReboot, mailbox, main, cut>>

GraceEnds ==
  /\ recent /\ recent' = FALSE
  /\ UNCHANGED <<world, network, handler, transfer, disconnected, flash,
                 running, flaggedForReboot, status,
                 current, told, main, cut>>

\* _onMqttDisconnected.
SessionEnds ==
  /\ session = "up" /\ ~stable
  /\ CallbackMayRun /\ (platform = "esp8266" => receiver \in {"idle", "write"})
  /\ session' = "lost"
  /\ disconnected' = TRUE
  /\ cut' = (cut \/ ongoing)
  /\ UNCHANGED <<world, sent, stable, handler, transfer, flash, running,
                 flaggedForReboot, mailbox, main>>

\* Also before the loop has noticed that the last session ended.
Reconnect ==
  /\ session # "up" /\ session' = "up"
  /\ UNCHANGED <<world, sent, stable, handler, transfer, disconnected, flash,
                 running, flaggedForReboot, mailbox, main, cut>>

\* From here on nothing fails, and a sender sends Upgrade again and again.
Settle ==
  /\ ~stable /\ stable' = TRUE
  /\ UNCHANGED <<world, session, sent, handler, transfer, disconnected,
                 flash, running, flaggedForReboot, mailbox, main, cut>>

Outside == \/ OtherUpdate \/ InactivityElapses \/ GraceEnds \/ SessionEnds
           \/ Reconnect \/ Settle

-----------------------------------------------------------------------------
Init ==
  /\ platform \in Platforms /\ enabled \in Enabled
  /\ session = "down" /\ sent = 0 /\ stable = FALSE
  /\ receiver = "idle" /\ chunk = NoChunk
  /\ ongoing = FALSE /\ requested = None /\ base64 = FALSE
  /\ payloadTotal = 0 /\ processed = 0 /\ started = FALSE /\ quiet = FALSE
  /\ disconnected = FALSE /\ updater = NoUpdate /\ staged = <<>>
  /\ running = Factory /\ flaggedForReboot = FALSE
  /\ status = None /\ current = FALSE /\ recent = FALSE /\ told = TRUE
  /\ pc = "session" /\ wait = FALSE /\ cut = FALSE

Next == Arrival \/ HandlerStep \/ LoopStep \/ Outside

Spec == Init /\ [][Next]_vars

\* The handler and the main loop keep running; a guard that is free again and
\* again is got, and a sketch is idle again and again; intervals end; another
\* consumer of Update finishes; the network comes back and the sender retries.
Fairness ==
  /\ WF_vars(HandlerStep) /\ SF_vars(LoopStep)
  /\ SF_vars(ServiceFails) /\ SF_vars(Restart)
  /\ WF_vars(InactivityElapses) /\ WF_vars(GraceEnds)
  /\ WF_vars(Reconnect) /\ SF_vars(stable /\ Receive)
  /\ WF_vars(updater.owner = "other" /\ OtherUpdate)

FairSpec == Spec /\ Fairness

-----------------------------------------------------------------------------
\* Type invariant.
TypeOK ==
  /\ platform \in {"esp32", "esp8266"} /\ enabled \in BOOLEAN
  /\ session \in {"up", "lost", "down"} /\ stable \in BOOLEAN
  /\ sent \in 0..(Upgrade.total - 1)
  /\ receiver \in HandlerSteps \cup {"idle"}
  /\ chunk \in [message : Messages \cup {None}, index : Nat, len : Nat]
  /\ ongoing \in BOOLEAN /\ requested \in Firmwares \cup {None}
  /\ base64 \in BOOLEAN /\ payloadTotal \in Nat /\ processed \in Nat
  /\ started \in BOOLEAN /\ quiet \in BOOLEAN /\ disconnected \in BOOLEAN
  /\ updater \in [owner : {"none", "homie", "other"},
                  digest : Firmwares \cup {None}, size : Nat,
                  written : Seq((Firmwares \cup {"junk"}) \X Nat)]
  /\ staged \in Images \cup {<<>>}
  /\ running \in Firmwares
  /\ flaggedForReboot \in BOOLEAN
  /\ status \in Statuses \cup {None}
  /\ current \in BOOLEAN /\ recent \in BOOLEAN /\ told \in BOOLEAN
  /\ pc \in LoopSteps /\ wait \in BOOLEAN /\ cut \in BOOLEAN

\* What reaches the flash is the image from its first unit on, each unit once
\* and in order, and the counters agree with it between fragments: duplicates
\* are trimmed, gaps are refused (BootNormalOta.ipp:232-243).
WrittenInOrder ==
  /\ \A i \in DOMAIN updater.written : updater.written[i][2] = i
  /\ receiver = "idle" /\ started => Len(updater.written) = processed

\* Update belongs to Homie exactly while a transfer that began to write goes on;
\* every way a transfer can end gives it back.
UpdaterReleased ==
  /\ updater.owner = "homie" <=> started
  /\ started => ongoing

\* An image is staged only by a transfer that succeeded: it is the one that was
\* requested, complete and verified, and the restart into it is certain.  In
\* particular cancelling a complete image does not commit it (line 42).
StagedIsAnnounced ==
  staged # <<>> => /\ requested \in Firmwares /\ staged = Image(requested)
                   /\ flaggedForReboot \/ receiver = "announce"

\* From the commit of an image to the restart into it, no transfer opens Update
\* again: not the sender's retry of the same image, nor what is left of a message,
\* a reconnection or the time-out, whatever the loop does meanwhile (line 166).
StagedIsLeftAlone == staged # <<>> => updater.owner # "homie"

\* The status slot is empty only when the last status queued was the last one
\* published, also when one is queued while another is being published.
LastStatusIsTold == status = None => told

\* No transfer touches an Update session of somebody else.
ForeignUntouched ==
  [][ updater.owner = "other" /\ updater' # updater => OtherUpdate \/ Restart
    ]_vars

\* A transfer is never resumed on another connection than its own.
NeverResumed ==
  [][ Len(updater'.written) > Len(updater.written)
        => ~(cut /\ session = "up") ]_vars

\* No transfer goes on for ever, whatever arrives: duplicates do not count as
\* activity.
TransferEnds == ongoing ~> ~ongoing

\* Once all has settled, a sender that retries gets its image installed, with
\* no help: whatever was going on before left nothing that stops it.
RetrySucceeds == stable /\ enabled ~> running = Upgrade.fw

\* What the handler has in its hands, the transfer, the updater and the two flags
\* the handler shares with the loop agree, at every step of either.
Agreement ==
  /\ receiver # "idle" => m \in Messages /\ ChunkEnd <= m.total
  /\ ongoing => requested \in Firmwares /\ payloadTotal > 1
  /\ ongoing /\ receiver # "finish" => processed < payloadTotal
  /\ ongoing /\ ~started => processed = 0
  /\ ~ongoing => payloadTotal = 0 /\ processed = 0
  /\ started => updater.digest = requested /\ updater.size = payloadTotal
  /\ receiver \in {"write", "stored", "finish"} =>
       started /\ m.fw = requested /\ m.total = payloadTotal
  /\ receiver \notin {"write", "stored", "finish"} /\ started =>
       Len(updater.written) = processed
  /\ receiver = "write" => Len(updater.written) = chunk.index
  /\ receiver = "stored" => \/ Len(updater.written) = ChunkEnd
                            \/ base64 /\ ChunkEnd = payloadTotal
  /\ staged # <<>> => ~ongoing /\ receiver \in {"idle", "entered", "announce"}
  /\ receiver = "announce" => ~ongoing
  /\ ongoing /\ cut => disconnected
  /\ receiver \in {"entered", "checked"} /\ session # "up" => disconnected
  /\ current => told

\* The inductive invariant behind the theorems of OtaUpdateProofs.
IInv == /\ TypeOK /\ WrittenInOrder /\ UpdaterReleased /\ StagedIsAnnounced
        /\ LastStatusIsTold /\ Agreement

\* "`200`: OTA successfully flashed." (homie-implementation-specifics.md:90)
SuccessIsTrue == status = "success" => staged # <<>>
=============================================================================

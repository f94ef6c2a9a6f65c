-------------------------- MODULE OtaUpdateProofs --------------------------
(***************************************************************************)
(* Safety of OtaUpdate, proved for any firmware, sizes and messages.       *)
(*                                                                         *)
(* The properties are invariants of one inductive invariant, IInv.  What   *)
(* they need beyond themselves is Agreement: where the handler stands in   *)
(* a fragment, the counters of the transfer, the length of what the        *)
(* updater was given and the flag of a disconnection belong together, in   *)
(* every interleaving with the main loop.  There is a lemma for each step  *)
(* or group of steps that change the same parts, then one for Next.        *)
(***************************************************************************)
EXTENDS OtaUpdate, TLAPS

USE OtaUpdateAssumption
USE DEF vars, world, network, handler, transfer, flash, mailbox, main

\* The sessions of Update, and TypeOK in five parts.
Sessions == [owner : {"none", "homie", "other"}, digest : Firmwares \cup {None},
             size : Nat, written : Seq((Firmwares \cup {"junk"}) \X Nat)]

TypeWorld == /\ platform \in {"esp32", "esp8266"} /\ enabled \in BOOLEAN
             /\ session \in {"up", "lost", "down"} /\ stable \in BOOLEAN
             /\ sent \in 0..(Upgrade.total - 1)
             /\ running \in Firmwares /\ flaggedForReboot \in BOOLEAN
             /\ pc \in LoopSteps /\ wait \in BOOLEAN /\ cut \in BOOLEAN
TypeHandler ==
  /\ receiver \in HandlerSteps \cup {"idle"}
  /\ chunk \in [message : Messages \cup {None}, index : Nat, len : Nat]
TypeTransfer ==
  /\ ongoing \in BOOLEAN /\ requested \in Firmwares \cup {None}
  /\ base64 \in BOOLEAN /\ payloadTotal \in Nat /\ processed \in Nat
  /\ started \in BOOLEAN /\ quiet \in BOOLEAN /\ disconnected \in BOOLEAN
TypeFlash == updater \in Sessions /\ staged \in Images \cup {<<>>}
TypeMail  == /\ status \in Statuses \cup {None}
             /\ current \in BOOLEAN /\ recent \in BOOLEAN /\ told \in BOOLEAN

\* TypeOK, by the parts that steps change together.
LEMMA TypeParts ==
  TypeOK <=> TypeWorld /\ TypeHandler /\ TypeTransfer /\ TypeFlash /\ TypeMail
BY Zenon DEF TypeOK, TypeWorld, TypeHandler, TypeTransfer, TypeFlash, TypeMail,
             Sessions

\* A released updater is an Update session of nobody, with nothing written.
LEMMA NoUpdateIsFree ==
  NoUpdate \in Sessions /\ NoUpdate.owner = "none" /\ NoUpdate.written = <<>>
BY DEF NoUpdate, Sessions

\* An abort releases the updater and never stages an image: on ESP8266 because
\* no image has the digest it leaves (_resetOtaTransferState, line 42).
LEMMA AbortReleases ==
  ASSUME AbortUpdate PROVE updater' = NoUpdate /\ staged' = staged
BY DEF AbortUpdate, EndUpdate, AbortDigest, Installs

\* A failure in the handler, wherever it happens, ends the transfer and the
\* session of the updater.
LEMMA FailKeeps ==
  ASSUME IInv, Fail, receiver \in {"checked", "write", "finish"},
         disconnected' \in BOOLEAN
  PROVE  IInv'
<1> USE DEF IInv, Fail, FailUpdate, Return, NoChunk, QueueStatus,
            ResetTransfer
<1>1. staged = <<>> /\ staged' = <<>> /\ ~started' /\ ~ongoing'
  BY AbortReleases DEF Agreement, MustAbort
<1>2. updater' = NoUpdate \/ (updater' = updater /\ ~started)
  BY AbortReleases DEF MustAbort
<1>3. /\ updater' \in Sessions
      /\ updater'.owner # "homie"
      /\ \A i \in DOMAIN updater'.written : updater'.written[i][2] = i
  <2>1. CASE updater' = NoUpdate
    BY <2>1, NoUpdateIsFree
  <2>2. CASE updater' = updater /\ ~started
    BY <2>2 DEF TypeOK, UpdaterReleased, WrittenInOrder, Sessions
  <2> QED BY <1>2, <2>1, <2>2
<1>4. TypeOK'
  BY <1>1, <1>3 DEF TypeOK, Statuses, Sessions
<1>5. Agreement'
  BY <1>1, <1>3 DEF Agreement, TypeOK, m, ChunkEnd
<1>6. UpdaterReleased' /\ StagedIsAnnounced' /\ LastStatusIsTold'
  BY <1>1, <1>3
    DEF UpdaterReleased, StagedIsAnnounced, LastStatusIsTold, TypeOK, Statuses
<1>7. WrittenInOrder'
  BY <1>1, <1>3 DEF WrittenInOrder
<1> QED BY <1>4, <1>5, <1>6, <1>7

\* Steps that change nothing but where the handler is.
LEMMA IgnoreKeeps ==
  ASSUME IInv, Ignore, receiver = "checked" PROVE IInv'
<1> USE DEF IInv, Ignore, Return, NoChunk
<1>1. TypeOK'
  BY DEF TypeOK
<1>2. Agreement'
  BY DEF Agreement, TypeOK
<1>3. /\ UpdaterReleased' /\ StagedIsAnnounced' /\ LastStatusIsTold'
      /\ WrittenInOrder'
  BY
    DEF UpdaterReleased, StagedIsAnnounced, LastStatusIsTold, TypeOK,
        WrittenInOrder, Agreement
<1> QED BY <1>1, <1>2, <1>3

\* A refusal changes the status, and nothing of a transfer that goes on.
LEMMA RefuseKeeps ==
  ASSUME IInv, Refuse, receiver = "checked" PROVE IInv'
<1> USE DEF IInv, Refuse, Return, NoChunk, QueueStatus
<1>1. TypeOK'
  <2>1. TypeWorld' /\ TypeTransfer' /\ TypeFlash'
    BY TypeParts DEF TypeWorld, TypeTransfer, TypeFlash
  <2>2. TypeHandler'
    BY TypeParts DEF TypeHandler
  <2>3. TypeMail'
    BY TypeParts DEF TypeMail, Statuses
  <2> QED BY <2>1, <2>2, <2>3, Zenon
      DEF TypeOK, TypeWorld, TypeHandler, TypeTransfer, TypeFlash, TypeMail,
          Sessions
<1>2. Agreement'
  BY DEF Agreement, TypeOK
<1>3. /\ UpdaterReleased' /\ StagedIsAnnounced' /\ LastStatusIsTold'
      /\ WrittenInOrder'
  BY
    DEF UpdaterReleased, StagedIsAnnounced, LastStatusIsTold, TypeOK,
        WrittenInOrder, Agreement, Statuses
<1> QED BY <1>1, <1>2, <1>3

\* The answer while a restart is pending.
LEMMA CheckRebootKeeps ==
  ASSUME IInv, CheckReboot PROVE IInv'
<1> USE DEF IInv, CheckReboot, RestartPending, Return, NoChunk, QueueStatus
<1>1. TypeOK'
  <2>1. TypeWorld' /\ TypeTransfer' /\ TypeFlash'
    BY TypeParts DEF TypeWorld, TypeTransfer, TypeFlash
  <2>2. TypeHandler'
    BY TypeParts DEF TypeHandler, HandlerSteps
  <2>3. TypeMail'
    BY TypeParts DEF TypeMail, Statuses
  <2> QED BY <2>1, <2>2, <2>3, Zenon
      DEF TypeOK, TypeWorld, TypeHandler, TypeTransfer, TypeFlash, TypeMail,
          Sessions
<1>2. Agreement'
  BY DEF Agreement, TypeOK, m, ChunkEnd, StagedIsAnnounced
<1>3. /\ UpdaterReleased' /\ StagedIsAnnounced' /\ LastStatusIsTold'
      /\ WrittenInOrder'
  BY
    DEF UpdaterReleased, StagedIsAnnounced, LastStatusIsTold, TypeOK,
        WrittenInOrder, Agreement, Statuses
<1> QED BY <1>1, <1>2, <1>3

\* A transfer starts with nothing processed and the updater not yet begun.
LEMMA StartKeeps ==
  ASSUME IInv, Start PROVE IInv'
<1> USE
  DEF IInv, Start, QueueStatus, Usable, Impossible, Empty, Opening, Refused,
      BadRequest
<1>1. TypeOK'
  BY DEF TypeOK, Statuses, HandlerSteps, Agreement
<1>2. Agreement'
  BY DEF Agreement, TypeOK, m, ChunkEnd, StagedIsAnnounced, UpdaterReleased
<1>3. /\ UpdaterReleased' /\ StagedIsAnnounced' /\ LastStatusIsTold'
      /\ WrittenInOrder'
  BY
    DEF UpdaterReleased, StagedIsAnnounced, LastStatusIsTold, TypeOK,
        WrittenInOrder, Agreement, Statuses
<1> QED BY <1>1, <1>2, <1>3

\* Trimming moves the fragment to what was processed; the updater begins at
\* most once.
LEMMA TakeKeeps ==
  ASSUME IInv, Take PROVE IInv'
<1> USE DEF IInv, Take, Usable, Impossible, Empty, Belongs, Known, Gap, Trimmed,
            m, ChunkEnd
<1>1. /\ chunk.index \in Nat /\ chunk.len \in Nat /\ processed \in Nat
      /\ chunk.message \in Messages /\ payloadTotal \in Nat
      /\ chunk.message.total = payloadTotal /\ requested \in Firmwares
      /\ processed < chunk.index + chunk.len
      /\ chunk.index + chunk.len <= payloadTotal
  BY TypeParts DEF TypeHandler, TypeTransfer, Agreement
<1>2. /\ chunk'.message = m /\ chunk'.index = processed
      /\ chunk'.len \in Nat /\ chunk'.index + chunk'.len = ChunkEnd
      /\ chunk' \in [message : Messages \cup {None}, index : Nat, len : Nat]
  BY <1>1
<1>3. CASE processed >= payloadTotal - Padding
  <2>1. started /\ started' = started /\ receiver' = "stored"
    BY <1>1, <1>3 DEF Agreement, Padding
  <2>2. TypeOK'
    BY <1>2, <2>1, <1>3 DEF TypeOK, HandlerSteps
  <2>3. Agreement'
    BY <1>1, <1>2, <1>3, <2>1
      DEF Agreement, StagedIsAnnounced, Padding, UpdaterReleased
  <2>4. /\ UpdaterReleased' /\ StagedIsAnnounced' /\ LastStatusIsTold'
        /\ WrittenInOrder'
    BY <1>3, <2>1
      DEF UpdaterReleased, StagedIsAnnounced, LastStatusIsTold,
          WrittenInOrder, Agreement
  <2> QED BY <2>2, <2>3, <2>4
<1>4. CASE ~(processed >= payloadTotal - Padding)
  <2>1. /\ started' /\ started' = TRUE /\ receiver' = "write"
        /\ updater' \in Sessions /\ updater'.owner = "homie"
        /\ updater'.digest = requested /\ updater'.size = payloadTotal
        /\ Len(updater'.written) = processed
        /\ \A i \in DOMAIN updater'.written : updater'.written[i][2] = i
    <3>1. CASE started
      BY <1>1, <1>4, <3>1, TypeParts
        DEF TypeFlash, Agreement, UpdaterReleased, WrittenInOrder
    <3>2. CASE ~started
      <4>1. updater' = [owner |-> "homie", digest |-> requested,
                        size |-> payloadTotal, written |-> <<>>]
        BY <1>4, <3>2 DEF ExpectedDigest
      <4> QED BY <1>1, <1>4, <3>2, <4>1 DEF Sessions, Agreement
    <3> QED BY <3>1, <3>2
  <2>2. TypeOK'
    BY <1>2, <2>1 DEF TypeOK, HandlerSteps, Sessions
  <2>3. Agreement'
    BY <1>1, <1>2, <2>1 DEF Agreement, StagedIsAnnounced, UpdaterReleased
  <2>4. /\ UpdaterReleased' /\ StagedIsAnnounced' /\ LastStatusIsTold'
        /\ WrittenInOrder'
    BY <2>1
      DEF UpdaterReleased, StagedIsAnnounced, LastStatusIsTold,
          WrittenInOrder, Agreement
  <2> QED BY <2>2, <2>3, <2>4
<1> QED BY <1>3, <1>4

\* Appending one unit to a session that was written in order.
LEMMA AppendKeepsOrder ==
  ASSUME NEW s \in Sessions, NEW u \in (Firmwares \cup {"junk"}) \X Nat,
         u[2] = Len(s.written) + 1,
         \A i \in DOMAIN s.written : s.written[i][2] = i,
         NEW t, t = [s EXCEPT !.written = Append(@, u)]
  PROVE  /\ t \in Sessions
         /\ t.owner = s.owner /\ t.digest = s.digest /\ t.size = s.size
         /\ Len(t.written) = Len(s.written) + 1
         /\ \A i \in DOMAIN t.written : t.written[i][2] = i
<1>1. s.written \in Seq((Firmwares \cup {"junk"}) \X Nat)
  BY DEF Sessions
<1>2. t.written = Append(s.written, u)
  BY DEF Sessions
<1>3. /\ t.owner = s.owner /\ t.digest = s.digest /\ t.size = s.size
  BY DEF Sessions
<1>4. t.written \in Seq((Firmwares \cup {"junk"}) \X Nat)
  BY <1>1, <1>2
<1>5. t \in Sessions
  BY <1>4 DEF Sessions
<1>6. Len(t.written) = Len(s.written) + 1
  BY <1>1, <1>2
<1>7. \A i \in DOMAIN t.written : t.written[i][2] = i
  BY <1>1, <1>2
<1> QED BY <1>3, <1>5, <1>6, <1>7

\* A slice is written right behind the last one.
LEMMA WriteSliceKeeps ==
  ASSUME IInv, WriteSlice PROVE IInv'
<1>1. /\ chunk.index \in Nat /\ chunk.len \in Nat /\ chunk.len > 0
      /\ chunk.message \in Messages /\ updater \in Sessions
      /\ Len(updater.written) = chunk.index /\ ongoing /\ started
  BY TypeParts DEF IInv, WriteSlice, DataLeft, m, TypeHandler, TypeFlash,
                   Agreement, UpdaterReleased
<1>2. Unit(chunk.index) \in (Firmwares \cup {"junk"}) \X Nat
      /\ Unit(chunk.index)[2] = chunk.index + 1
  BY <1>1 DEF Unit, m
<1>3. /\ updater' \in Sessions
      /\ updater'.owner = updater.owner /\ updater'.digest = updater.digest
      /\ updater'.size = updater.size
      /\ Len(updater'.written) = chunk.index + 1
      /\ \A i \in DOMAIN updater'.written : updater'.written[i][2] = i
  <2>1. updater' = [updater EXCEPT !.written = Append(@, Unit(chunk.index))]
    BY DEF WriteSlice
  <2>2. \A i \in DOMAIN updater.written : updater.written[i][2] = i
    BY DEF IInv, WrittenInOrder
  <2> QED BY <1>1, <1>2, <2>1, <2>2, AppendKeepsOrder
<1>4. /\ chunk'.message = m /\ chunk'.index = chunk.index + 1
      /\ chunk'.len \in Nat /\ chunk'.index + chunk'.len = ChunkEnd
      /\ chunk' \in [message : Messages \cup {None}, index : Nat, len : Nat]
  <2>1. chunk' = [message |-> m, index |-> chunk.index + 1,
                  len |-> chunk.len - 1]
    BY DEF WriteSlice
  <2>2. chunk.len - 1 \in Nat /\ chunk.index + 1 \in Nat
    BY <1>1
  <2>3. chunk.index + 1 + (chunk.len - 1) = chunk.index + chunk.len
    BY <1>1
  <2> QED BY <1>1, <2>1, <2>2, <2>3 DEF m, ChunkEnd
<1> USE DEF IInv, WriteSlice
<1>5. TypeOK'
  BY <1>3, <1>4 DEF TypeOK, Sessions
<1>6. Agreement'
  BY <1>1, <1>3, <1>4 DEF Agreement, m, ChunkEnd
<1>7. UpdaterReleased' /\ StagedIsAnnounced' /\ LastStatusIsTold'
  BY <1>1, <1>3 DEF UpdaterReleased, StagedIsAnnounced, LastStatusIsTold
<1>8. WrittenInOrder'
  BY <1>1, <1>3 DEF WrittenInOrder
<1> QED BY <1>5, <1>6, <1>7, <1>8

\* When no data is left the fragment ends where the flash does, or in the
\* padding of Base64.
LEMMA AllWrittenKeeps ==
  ASSUME IInv, AllWritten PROVE IInv'
<1> USE DEF IInv, AllWritten, DataLeft, m, ChunkEnd, Padding
<1>1. TypeOK'
  BY DEF TypeOK, HandlerSteps
<1>2. Agreement'
  BY TypeParts DEF TypeHandler, TypeTransfer, Agreement
<1>3. /\ UpdaterReleased' /\ StagedIsAnnounced' /\ LastStatusIsTold'
      /\ WrittenInOrder'
  BY
    DEF UpdaterReleased, StagedIsAnnounced, LastStatusIsTold, WrittenInOrder,
        Agreement
<1> QED BY <1>1, <1>2, <1>3

\* What is processed catches up with what is written.
LEMMA StoredKeeps ==
  ASSUME IInv, Stored PROVE IInv'
<1> USE DEF IInv, Stored, m, ChunkEnd, Return, NoChunk, QueueStatus
<1>1. /\ chunk.index \in Nat /\ chunk.len \in Nat /\ ongoing /\ started
      /\ chunk.index + chunk.len \in Nat /\ processed' \in Nat
      /\ chunk.index + chunk.len <= payloadTotal /\ payloadTotal \in Nat
      /\ staged = <<>>
  BY TypeParts DEF TypeHandler, TypeTransfer, Agreement, UpdaterReleased
<1>2. /\ status' \in Statuses \cup {None} /\ current' \in BOOLEAN
      /\ recent' \in BOOLEAN /\ told' \in BOOLEAN
      /\ status' = None => told'
      /\ current' => told'
  <2>1. CASE QueueStatus("progress")
    BY <2>1 DEF Statuses, QueueStatus
  <2>2. CASE UNCHANGED mailbox
    BY <2>2, TypeParts DEF TypeMail, LastStatusIsTold, Agreement
  <2> QED BY <2>1, <2>2
<1>3. TypeOK'
  <2>1. TypeWorld' /\ TypeFlash'
    BY TypeParts DEF TypeWorld, TypeFlash
  <2>2. TypeHandler'
    BY TypeParts DEF TypeHandler, HandlerSteps
  <2>3. TypeTransfer'
    BY <1>1, TypeParts DEF TypeTransfer
  <2>4. TypeMail'
    BY <1>2, Zenon DEF TypeMail
  <2> QED BY <2>1, <2>2, <2>3, <2>4, Zenon
    DEF TypeOK, TypeWorld, TypeHandler, TypeTransfer, TypeFlash, TypeMail,
        Sessions
<1>4. Agreement'
  <2>1. CASE ChunkEnd = payloadTotal
    BY <1>1, <1>2, <2>1 DEF Agreement
  <2>2. CASE ChunkEnd # payloadTotal
    BY <1>1, <1>2, <2>2 DEF Agreement
  <2> QED BY <2>1, <2>2
<1>5. LastStatusIsTold'
  BY <1>2, Zenon DEF LastStatusIsTold
<1>6. UpdaterReleased'
  BY Zenon DEF UpdaterReleased
<1>7. StagedIsAnnounced'
  BY <1>1 DEF StagedIsAnnounced
<1>8. WrittenInOrder'
  BY <1>1 DEF WrittenInOrder, Agreement
<1> QED BY <1>3, <1>4, <1>5, <1>6, <1>7, <1>8

\* A commit stages the image that was requested and frees the updater.
LEMMA CommitKeeps ==
  ASSUME IInv, Commit PROVE IInv'
<1> USE
  DEF IInv, Commit, EndUpdate, Installs, ResetTransfer, QueueStatus,
      WrongLength
<1>1. /\ updater' = NoUpdate /\ staged' = Image(requested)
      /\ requested \in Firmwares
  BY DEF Agreement, UpdaterReleased
<1>2. TypeOK'
  <2>1. TypeWorld' /\ TypeTransfer'
    BY TypeParts DEF TypeWorld, TypeTransfer
  <2>2. TypeHandler'
    BY TypeParts DEF TypeHandler, HandlerSteps
  <2>3. TypeFlash'
    BY <1>1, NoUpdateIsFree DEF TypeFlash, Images
  <2>4. TypeMail'
    BY TypeParts DEF TypeMail, Statuses
  <2> QED BY <2>1, <2>2, <2>3, <2>4, Zenon
    DEF TypeOK, TypeWorld, TypeHandler, TypeTransfer, TypeFlash, TypeMail,
        Sessions
<1>3. Agreement'
  BY <1>1, NoUpdateIsFree DEF Agreement, TypeOK, m, ChunkEnd
<1>4. /\ UpdaterReleased' /\ StagedIsAnnounced' /\ LastStatusIsTold'
      /\ WrittenInOrder'
  BY <1>1, NoUpdateIsFree
    DEF UpdaterReleased, StagedIsAnnounced, LastStatusIsTold, TypeOK,
        WrittenInOrder, Statuses
<1> QED BY <1>2, <1>3, <1>4

\* The other ways through the handler.
LEMMA AnnounceKeeps ==
  ASSUME IInv, Announce \/ ReceiveNested PROVE IInv'
<1> USE DEF IInv, Announce, ReceiveNested, Return, NoChunk, QueueStatus
<1>1. TypeOK'
  <2>1. TypeWorld' /\ TypeFlash' /\ TypeTransfer'
    <3>1. TypeWorld'
      BY TypeParts DEF TypeWorld
    <3>2. TypeFlash'
      BY TypeParts DEF TypeFlash
    <3>3. TypeTransfer'
      BY TypeParts DEF TypeTransfer
    <3> QED BY <3>1, <3>2, <3>3
  <2>2. TypeHandler'
    BY TypeParts DEF TypeHandler
  <2>3. TypeMail'
    BY TypeParts DEF TypeMail, Statuses
  <2> QED BY <2>1, <2>2, <2>3, Zenon
      DEF TypeOK, TypeWorld, TypeHandler, TypeTransfer, TypeFlash, TypeMail,
          Sessions
<1>2. Agreement'
  BY DEF Agreement, TypeOK, m, ChunkEnd
<1>3. /\ UpdaterReleased' /\ StagedIsAnnounced' /\ LastStatusIsTold'
      /\ WrittenInOrder'
  BY
    DEF UpdaterReleased, StagedIsAnnounced, LastStatusIsTold, TypeOK,
        WrittenInOrder, Agreement, Statuses
<1> QED BY <1>1, <1>2, <1>3

\* A fragment arrives; the transfer that a disconnection interrupted is failed.
LEMMA ReceiveKeeps ==
  ASSUME IInv, Receive PROVE IInv'
<1> USE DEF IInv
<1>1. PICK message \in IF stable THEN {Upgrade} ELSE Messages :
        \E index \in 0..message.total : \E len \in 0..(message.total - index) :
          /\ sent' = IF stable /\ index + len < message.total
                     THEN index + len ELSE 0
          /\ chunk' = [message |-> message, index |-> index, len |-> len]
  BY DEF Receive
<1>a. /\ message \in Messages /\ message.total \in Nat
      /\ stable => message = Upgrade
      /\ Upgrade.total \in Nat /\ Upgrade.total > 1
  BY <1>1
<1>b. PICK index \in 0..message.total : \E len \in 0..(message.total - index) :
          /\ sent' = IF stable /\ index + len < message.total
                     THEN index + len ELSE 0
          /\ chunk' = [message |-> message, index |-> index, len |-> len]
  BY <1>1
<1>c. PICK len \in 0..(message.total - index) :
          /\ sent' = IF stable /\ index + len < message.total
                     THEN index + len ELSE 0
          /\ chunk' = [message |-> message, index |-> index, len |-> len]
  BY <1>b
<1>2. sent' \in 0..(Upgrade.total - 1)
  BY <1>a, <1>c
<1>3. /\ chunk' \in [message : Messages \cup {None}, index : Nat, len : Nat]
      /\ chunk'.message \in Messages
      /\ chunk'.index + chunk'.len <= chunk'.message.total
  BY <1>a, <1>c
<1>4. CASE Interrupted
  <2> USE DEF FailUpdate, QueueStatus, ResetTransfer, Receive
  <2>1. staged = <<>> /\ staged' = <<>> /\ ~started' /\ ~ongoing'
    BY <1>4, AbortReleases DEF Agreement, MustAbort, Interrupted
  <2>2. updater' = NoUpdate \/ (updater' = updater /\ ~started)
    BY <1>4, AbortReleases DEF MustAbort
  <2>3. /\ updater' \in Sessions
        /\ updater'.owner # "homie"
        /\ \A i \in DOMAIN updater'.written : updater'.written[i][2] = i
    <3>1. CASE updater' = NoUpdate
      BY <3>1, NoUpdateIsFree
    <3>2. CASE updater' = updater /\ ~started
      BY <3>2 DEF TypeOK, UpdaterReleased, WrittenInOrder, Sessions
    <3> QED BY <2>2, <3>1, <3>2
  <2>4. TypeOK'
    <3>1. TypeWorld'
      BY <1>2, TypeParts DEF TypeWorld
    <3>2. TypeHandler'
      BY <1>3 DEF TypeHandler, HandlerSteps
    <3>3. TypeTransfer'
      <4>1. /\ ongoing' = FALSE /\ requested' = None /\ base64' = FALSE
            /\ payloadTotal' = 0 /\ processed' = 0 /\ started' = FALSE
            /\ quiet' = FALSE /\ disconnected' = FALSE
        BY <1>4, Zenon DEF Receive, FailUpdate, ResetTransfer
      <4> QED BY <4>1 DEF TypeTransfer
    <3>4. TypeFlash'
      BY <2>1, <2>3 DEF TypeFlash
    <3>5. TypeMail'
      BY <1>4 DEF TypeMail, Statuses
    <3> QED BY <3>1, <3>2, <3>3, <3>4, <3>5, Zenon
      DEF TypeOK, TypeWorld, TypeHandler, TypeTransfer, TypeFlash, TypeMail,
          Sessions
  <2>5. Agreement'
    BY <1>3, <1>4, <2>1, <2>3 DEF Agreement, TypeOK, m, ChunkEnd, CallbackMayRun
  <2>6. /\ UpdaterReleased' /\ StagedIsAnnounced' /\ LastStatusIsTold'
        /\ WrittenInOrder'
    BY <1>4, <2>1, <2>3
      DEF UpdaterReleased, StagedIsAnnounced, LastStatusIsTold, TypeOK,
          Statuses, WrittenInOrder
  <2> QED BY <2>4, <2>5, <2>6
<1>5. CASE ~Interrupted
  <2> USE DEF Receive
  <2>1. TypeOK'
    <3>1. TypeWorld'
      BY <1>2, TypeParts DEF TypeWorld
    <3>2. TypeHandler'
      BY <1>3 DEF TypeHandler, HandlerSteps
    <3>3. TypeTransfer' /\ TypeFlash' /\ TypeMail'
      BY <1>5, TypeParts DEF TypeTransfer, TypeFlash, TypeMail
    <3> QED BY <3>1, <3>2, <3>3, Zenon
      DEF TypeOK, TypeWorld, TypeHandler, TypeTransfer, TypeFlash, TypeMail,
          Sessions
  <2>2. Agreement'
    BY <1>3, <1>5
      DEF Agreement, TypeOK, m, ChunkEnd, CallbackMayRun, Interrupted
  <2>3. /\ UpdaterReleased' /\ StagedIsAnnounced' /\ LastStatusIsTold'
        /\ WrittenInOrder'
    BY <1>5
      DEF UpdaterReleased, StagedIsAnnounced, LastStatusIsTold, WrittenInOrder
  <2> QED BY <2>1, <2>2, <2>3
<1> QED BY <1>4, <1>5

\* Every step of the handler keeps the invariant.
LEMMA HandlerKeeps ==
  ASSUME IInv, HandlerStep PROVE IInv'
<1> USE DEF Usable
<1>1. CASE \/ RejectChunk \/ RejectStart \/ RejectOther \/ TakeFails
           \/ WriteFails \/ AbandonChunk \/ FinishFails
  <2>1. Fail /\ receiver \in {"checked", "write", "finish"}
    BY <1>1
      DEF RejectChunk, RejectStart, RejectOther, TakeFails, WriteFails,
          AbandonChunk, FinishFails
  <2>2. disconnected' \in BOOLEAN
    BY <1>1
      DEF RejectChunk, RejectStart, RejectOther, TakeFails, WriteFails,
          AbandonChunk, FinishFails, IInv, TypeOK
  <2> QED BY <2>1, <2>2, FailKeeps
<1>2. CASE IgnoreEmpty \/ DiscardTail \/ IgnoreKnown
  BY <1>2, IgnoreKeeps DEF IgnoreEmpty, DiscardTail, IgnoreKnown
<1>3. CASE RefuseStart
  BY <1>3, RefuseKeeps DEF RefuseStart
<1> QED BY <1>1, <1>2, <1>3, CheckRebootKeeps, StartKeeps,
           TakeKeeps, WriteSliceKeeps,
           AllWrittenKeeps, StoredKeeps, CommitKeeps, AnnounceKeeps
             DEF HandlerStep

\* However the loop learns of a disconnection, it only ever raises the flag.
LEMMA NoticesRaise ==
  ASSUME TypeWorld, TypeTransfer,
         Noticed \/ NoticedLate \/ UNCHANGED <<session, disconnected>>
  PROVE  /\ session' \in {"up", "lost", "down"} /\ disconnected' \in BOOLEAN
         /\ disconnected => disconnected'
         /\ session' # "up" => session # "up"
<1>1. CASE Noticed
  BY <1>1 DEF Noticed
<1>2. CASE NoticedLate
  BY <1>2 DEF NoticedLate, TypeWorld
<1>3. CASE UNCHANGED <<session, disconnected>>
  BY <1>3 DEF TypeWorld, TypeTransfer
<1> QED BY <1>1, <1>2, <1>3

\* The loop learns of a disconnection.
LEMMA NoticeKeeps ==
  ASSUME IInv, NoticeSession PROVE IInv'
<1> USE DEF IInv, NoticeSession, Goto, At
<1>0. /\ session' \in {"up", "lost", "down"} /\ disconnected' \in BOOLEAN
      /\ disconnected => disconnected'
      /\ session' # "up" => session # "up"
  BY NoticesRaise, TypeParts
<1>1. TypeOK'
  <2>1. TypeWorld'
    BY <1>0, TypeParts DEF TypeWorld, LoopSteps
  <2>2. TypeHandler'
    BY TypeParts DEF TypeHandler
  <2>3. TypeTransfer'
    BY <1>0, TypeParts, Zenon DEF TypeTransfer
  <2>4. TypeFlash'
    BY TypeParts DEF TypeFlash
  <2>5. TypeMail'
    BY TypeParts DEF TypeMail, Statuses
  <2> QED BY <2>1, <2>2, <2>3, <2>4, <2>5, Zenon
    DEF TypeOK, TypeWorld, TypeHandler, TypeTransfer, TypeFlash, TypeMail,
        Sessions
<1>2. Agreement'
  BY <1>0, TypeParts DEF TypeWorld, TypeHandler, TypeMail, Agreement, m, ChunkEnd
<1>3. /\ UpdaterReleased' /\ StagedIsAnnounced' /\ LastStatusIsTold'
      /\ WrittenInOrder'
  BY TypeParts DEF TypeMail, Agreement, UpdaterReleased, StagedIsAnnounced,
     LastStatusIsTold, WrittenInOrder
<1> QED BY <1>1, <1>2, <1>3

\* _serviceOta finds nothing to clean up.
LEMMA PassesKeeps ==
  ASSUME IInv, ServicePasses PROVE IInv'
<1> USE DEF IInv, ServicePasses, Goto, At
<1>1. TypeOK'
  <2>1. TypeWorld'
    BY TypeParts DEF TypeWorld, LoopSteps
  <2>2. TypeHandler'
    BY TypeParts DEF TypeHandler
  <2>3. TypeTransfer'
    BY TypeParts DEF TypeTransfer
  <2>4. TypeFlash'
    BY TypeParts DEF TypeFlash
  <2>5. TypeMail'
    BY TypeParts DEF TypeMail, Statuses
  <2> QED BY <2>1, <2>2, <2>3, <2>4, <2>5, Zenon
    DEF TypeOK, TypeWorld, TypeHandler, TypeTransfer, TypeFlash, TypeMail,
        Sessions
<1>2. Agreement'
  BY TypeParts DEF TypeWorld, TypeHandler, TypeMail, Agreement, m, ChunkEnd
<1>3. /\ UpdaterReleased' /\ StagedIsAnnounced' /\ LastStatusIsTold'
      /\ WrittenInOrder'
  BY TypeParts DEF TypeMail, Agreement, UpdaterReleased, StagedIsAnnounced,
     LastStatusIsTold, WrittenInOrder
<1> QED BY <1>1, <1>2, <1>3

\* The status publisher, up to its second look at the slot.
LEMMA PublishKeeps ==
  ASSUME IInv, NothingToPublish \/ PublishStatus PROVE IInv'
<1> USE DEF IInv, NothingToPublish, PublishStatus, Goto, At
<1>1. TypeOK'
  <2>1. TypeWorld'
    BY TypeParts DEF TypeWorld, LoopSteps
  <2>2. TypeHandler'
    BY TypeParts DEF TypeHandler
  <2>3. TypeTransfer'
    BY TypeParts DEF TypeTransfer
  <2>4. TypeFlash'
    BY TypeParts DEF TypeFlash
  <2>5. TypeMail'
    BY TypeParts DEF TypeMail, Statuses
  <2> QED BY <2>1, <2>2, <2>3, <2>4, <2>5, Zenon
    DEF TypeOK, TypeWorld, TypeHandler, TypeTransfer, TypeFlash, TypeMail,
        Sessions
<1>2. Agreement'
  BY TypeParts DEF TypeWorld, TypeHandler, TypeMail, Agreement, m, ChunkEnd
<1>3. /\ UpdaterReleased' /\ StagedIsAnnounced' /\ LastStatusIsTold'
      /\ WrittenInOrder'
  BY TypeParts DEF TypeMail, Agreement, UpdaterReleased, StagedIsAnnounced,
     LastStatusIsTold, WrittenInOrder
<1> QED BY <1>1, <1>2, <1>3

\* The status publisher empties the slot only if what it published is in it.
LEMMA SettleStatusKeeps ==
  ASSUME IInv, SettleStatus PROVE IInv'
<1> USE DEF IInv, SettleStatus, Goto, At, Withdrawn
<1>1. TypeOK'
  <2>1. TypeWorld'
    BY TypeParts DEF TypeWorld, LoopSteps
  <2>2. TypeHandler'
    BY TypeParts DEF TypeHandler
  <2>3. TypeTransfer'
    BY TypeParts DEF TypeTransfer
  <2>4. TypeFlash'
    BY TypeParts DEF TypeFlash
  <2>5. TypeMail'
    BY TypeParts DEF TypeMail, Statuses
  <2> QED BY <2>1, <2>2, <2>3, <2>4, <2>5, Zenon
    DEF TypeOK, TypeWorld, TypeHandler, TypeTransfer, TypeFlash, TypeMail,
        Sessions
<1>2. Agreement'
  BY TypeParts DEF TypeWorld, TypeHandler, TypeMail, Agreement, m, ChunkEnd
<1>3. /\ UpdaterReleased' /\ StagedIsAnnounced' /\ LastStatusIsTold'
      /\ WrittenInOrder'
  BY TypeParts DEF TypeMail, Agreement, UpdaterReleased, StagedIsAnnounced,
     LastStatusIsTold, WrittenInOrder
<1> QED BY <1>1, <1>2, <1>3

\* The look at the grace period, and the rest of the loop.
LEMMA LookKeeps ==
  ASSUME IInv, LookAtStatus \/ RunMessages PROVE IInv'
<1> USE DEF IInv, LookAtStatus, RunMessages, Goto, At, LoopMayRun
<1>0. /\ session' \in {"up", "lost", "down"} /\ disconnected' \in BOOLEAN
      /\ disconnected => disconnected'
      /\ session' # "up" => session # "up"
  <2>1. CASE LookAtStatus
    BY <2>1, NoticesRaise, TypeParts
  <2>2. CASE RunMessages
    BY <2>2, NoticesRaise, TypeParts
  <2> QED BY <2>1, <2>2
<1>1. TypeOK'
  <2>1. TypeWorld'
    <3>1. CASE LookAtStatus
      BY <3>1, TypeParts DEF TypeWorld, TypeMail, LoopSteps
    <3>2. CASE RunMessages
      BY <1>0, <3>2, TypeParts DEF TypeWorld, LoopSteps
    <3> QED BY <3>1, <3>2
  <2>2. TypeHandler'
    BY TypeParts DEF TypeHandler
  <2>3. TypeTransfer'
    BY <1>0, TypeParts, Zenon DEF TypeTransfer
  <2>4. TypeFlash'
    BY TypeParts DEF TypeFlash
  <2>5. TypeMail'
    BY TypeParts DEF TypeMail, Statuses
  <2> QED BY <2>1, <2>2, <2>3, <2>4, <2>5, Zenon
    DEF TypeOK, TypeWorld, TypeHandler, TypeTransfer, TypeFlash, TypeMail,
        Sessions
<1>2. Agreement'
  BY <1>0, TypeParts DEF TypeWorld, TypeHandler, TypeMail, Agreement, m, ChunkEnd
<1>3. /\ UpdaterReleased' /\ StagedIsAnnounced' /\ LastStatusIsTold'
      /\ WrittenInOrder'
  BY TypeParts DEF TypeMail, Agreement, UpdaterReleased, StagedIsAnnounced,
     LastStatusIsTold, WrittenInOrder
<1> QED BY <1>1, <1>2, <1>3

\* Time and the network.
LEMMA NetworkKeeps ==
  ASSUME IInv,
         InactivityElapses \/ GraceEnds \/ SessionEnds \/ Reconnect \/ Settle
  PROVE  IInv'
<1> USE
  DEF IInv, InactivityElapses, GraceEnds, SessionEnds, Reconnect, Settle,
      CallbackMayRun
<1>1. TypeOK'
  <2>1. TypeWorld'
    <3>1. CASE InactivityElapses \/ GraceEnds
      BY <3>1, TypeParts DEF TypeWorld
    <3>2. CASE SessionEnds
      BY <3>2, TypeParts DEF TypeWorld, TypeTransfer
    <3>3. CASE Reconnect \/ Settle
      BY <3>3, TypeParts DEF TypeWorld
    <3> QED BY <3>1, <3>2, <3>3
  <2>2. TypeHandler'
    BY TypeParts DEF TypeHandler
  <2>3. TypeTransfer'
    BY TypeParts DEF TypeTransfer
  <2>4. TypeFlash'
    BY TypeParts DEF TypeFlash
  <2>5. TypeMail'
    BY TypeParts DEF TypeMail, Statuses
  <2> QED BY <2>1, <2>2, <2>3, <2>4, <2>5, Zenon
    DEF TypeOK, TypeWorld, TypeHandler, TypeTransfer, TypeFlash, TypeMail,
        Sessions
<1>2. Agreement'
  BY TypeParts DEF TypeWorld, TypeHandler, TypeMail, Agreement, m, ChunkEnd
<1>3. /\ UpdaterReleased' /\ StagedIsAnnounced' /\ LastStatusIsTold'
      /\ WrittenInOrder'
  BY TypeParts DEF TypeMail, Agreement, UpdaterReleased, StagedIsAnnounced,
     LastStatusIsTold, WrittenInOrder
<1> QED BY <1>1, <1>2, <1>3

\* The cleanup of the loop fails a transfer that stalled or was cut.
LEMMA ServiceFailsKeeps ==
  ASSUME IInv, ServiceFails PROVE IInv'
<1> USE DEF IInv, ServiceFails, FailUpdate, QueueStatus, ResetTransfer, At, Goto
<1>1. staged = <<>> /\ staged' = <<>> /\ ~started' /\ ~ongoing'
  BY AbortReleases DEF Agreement, MustAbort
<1>2. /\ updater' \in Sessions
      /\ updater'.owner # "homie"
      /\ \A i \in DOMAIN updater'.written : updater'.written[i][2] = i
  <2>1. CASE started
    BY <2>1, AbortReleases, NoUpdateIsFree DEF MustAbort
  <2>2. CASE ~started
    BY <2>2 DEF TypeOK, UpdaterReleased, WrittenInOrder, Sessions, MustAbort
  <2> QED BY <2>1, <2>2
<1>3. TypeOK'
  <2>1. TypeWorld'
    BY TypeParts DEF TypeWorld, LoopSteps
  <2>2. TypeHandler'
    BY TypeParts DEF TypeHandler
  <2>3. TypeTransfer'
    <3>1. /\ ongoing' = FALSE /\ requested' = None /\ base64' = FALSE
          /\ payloadTotal' = 0 /\ processed' = 0 /\ started' = FALSE
          /\ quiet' = FALSE /\ disconnected' = FALSE
      BY Zenon
    <3> QED BY ONLY <3>1 DEF TypeTransfer
  <2>4. TypeFlash'
    BY <1>1, <1>2 DEF TypeFlash
  <2>5. TypeMail'
    BY DEF TypeMail, Statuses
  <2> QED BY <2>1, <2>2, <2>3, <2>4, <2>5, Zenon
    DEF TypeOK, TypeWorld, TypeHandler, TypeTransfer, TypeFlash, TypeMail,
        Sessions
<1>4. Agreement'
  BY <1>1, <1>2 DEF Agreement, TypeOK, m, ChunkEnd
<1>5. /\ UpdaterReleased' /\ StagedIsAnnounced' /\ LastStatusIsTold'
      /\ WrittenInOrder'
  BY <1>1, <1>2 DEF UpdaterReleased, StagedIsAnnounced, LastStatusIsTold,
     WrittenInOrder, TypeOK, Statuses
<1> QED BY <1>3, <1>4, <1>5

\* The restart begins again with what Init begins with, and what was staged is
\* one of the images.
LEMMA RestartKeeps ==
  ASSUME IInv, Restart PROVE IInv'
<1> USE DEF IInv, Restart, ResetTransfer, NoChunk, At, Goto
<1>1. running' \in Firmwares
  <2>1. CASE staged \in Images
    <3>1. \E fw \in Firmwares : staged = Image(fw)
      BY <2>1 DEF Images
    <3> QED BY <2>1, <3>1
  <2>2. CASE staged \notin Images
    BY <2>2, TypeParts DEF TypeFlash, TypeWorld
  <2> QED BY <2>1, <2>2
<1>2. TypeOK'
  <2>1. TypeWorld'
    <3>0. TypeWorld
      BY TypeParts
    <3>4. enabled' \in BOOLEAN
      BY <3>0, Zenon DEF TypeWorld
    <3>1. /\ UNCHANGED <<platform, stable>> /\ session' = "down"
          /\ sent' = 0 /\ flaggedForReboot' = FALSE /\ pc' = "session"
          /\ wait' = FALSE /\ cut' = FALSE
      BY Zenon
    <3>3. 0 \in 0..(Upgrade.total - 1)
      OBVIOUS
    <3> QED BY ONLY <1>1, <3>0, <3>1, <3>3, <3>4 DEF TypeWorld, LoopSteps
  <2>2. TypeHandler'
    BY DEF TypeHandler
  <2>3. TypeTransfer'
    <3>1. /\ ongoing' = FALSE /\ requested' = None /\ base64' = FALSE
          /\ payloadTotal' = 0 /\ processed' = 0 /\ started' = FALSE
          /\ quiet' = FALSE /\ disconnected' = FALSE
      BY Zenon
    <3> QED BY ONLY <3>1 DEF TypeTransfer
  <2>4. TypeFlash'
    BY NoUpdateIsFree DEF TypeFlash
  <2>5. TypeMail'
    BY DEF TypeMail
  <2> QED BY <2>1, <2>2, <2>3, <2>4, <2>5, Zenon
    DEF TypeOK, TypeWorld, TypeHandler, TypeTransfer, TypeFlash, TypeMail,
        Sessions
<1>3. Agreement'
  BY NoUpdateIsFree DEF Agreement
<1>4. /\ UpdaterReleased' /\ StagedIsAnnounced' /\ LastStatusIsTold'
      /\ WrittenInOrder'
  BY NoUpdateIsFree DEF UpdaterReleased, StagedIsAnnounced, LastStatusIsTold,
     WrittenInOrder
<1> QED BY <1>2, <1>3, <1>4

\* Another consumer of Update begins or ends a session of its own.
LEMMA OtherKeeps ==
  ASSUME IInv, OtherUpdate PROVE IInv'
<1> USE DEF IInv, OtherUpdate
<1>1. /\ updater' \in Sessions /\ updater'.written = <<>>
      /\ updater'.owner # "homie" /\ ~started
  <2>1. updater.owner \in {"none", "other"} /\ updater.owner # "homie"
    OBVIOUS
  <2>2. ~started
    BY <2>1, Zenon DEF UpdaterReleased
  <2>3. updater' = NoUpdate \/ updater' = [NoUpdate EXCEPT !.owner = "other"]
    BY Zenon
  <2>4. CASE updater' = NoUpdate
    BY <2>2, <2>4, NoUpdateIsFree
  <2>5. CASE updater' = [NoUpdate EXCEPT !.owner = "other"]
    <3>1. updater' = [owner |-> "other", digest |-> None, size |-> 0,
                      written |-> <<>>]
      BY <2>5 DEF NoUpdate
    <3> QED BY ONLY <2>2, <3>1 DEF Sessions
  <2> QED BY <2>3, <2>4, <2>5
<1>2. TypeOK'
  <2>1. TypeWorld'
    BY TypeParts DEF TypeWorld
  <2>2. TypeHandler'
    BY TypeParts DEF TypeHandler
  <2>3. TypeTransfer'
    BY TypeParts DEF TypeTransfer
  <2>4. TypeFlash'
    BY <1>1, TypeParts DEF TypeFlash
  <2>5. TypeMail'
    BY TypeParts DEF TypeMail
  <2> QED BY <2>1, <2>2, <2>3, <2>4, <2>5, Zenon
    DEF TypeOK, TypeWorld, TypeHandler, TypeTransfer, TypeFlash, TypeMail,
        Sessions
<1>3. Agreement'
  BY <1>1 DEF Agreement, m, ChunkEnd
<1>4. /\ UpdaterReleased' /\ StagedIsAnnounced' /\ LastStatusIsTold'
      /\ WrittenInOrder'
  BY <1>1 DEF UpdaterReleased, StagedIsAnnounced, LastStatusIsTold,
     WrittenInOrder
<1> QED BY <1>2, <1>3, <1>4

\* The device starts in a state of the invariant.
LEMMA InitHolds ==
  ASSUME Init PROVE IInv
<1> USE DEF Init, NoChunk
<1>1. TypeOK
  <2>1. TypeWorld
    <3>1. platform \in {"esp32", "esp8266"} /\ 0 \in 0..(Upgrade.total - 1)
          /\ Factory \in Firmwares
      BY DEF Init
    <3>2. /\ enabled \in BOOLEAN /\ session = "down" /\ stable = FALSE
          /\ sent = 0 /\ running = Factory /\ flaggedForReboot = FALSE
          /\ pc = "session" /\ wait = FALSE /\ cut = FALSE
      BY Zenon DEF Init
    <3> QED BY ONLY <3>1, <3>2 DEF TypeWorld, LoopSteps
  <2>2. TypeHandler
    BY DEF TypeHandler
  <2>3. TypeTransfer
    BY DEF TypeTransfer
  <2>4. TypeFlash
    BY NoUpdateIsFree DEF TypeFlash
  <2>5. TypeMail
    BY DEF TypeMail
  <2> QED BY <2>1, <2>2, <2>3, <2>4, <2>5, TypeParts
<1>2. Agreement
  BY NoUpdateIsFree DEF Agreement
<1>3. UpdaterReleased /\ StagedIsAnnounced /\ LastStatusIsTold /\ WrittenInOrder
  BY NoUpdateIsFree DEF UpdaterReleased, StagedIsAnnounced, LastStatusIsTold,
     WrittenInOrder
<1> QED BY <1>1, <1>2, <1>3 DEF IInv

\* A step that changes nothing.
LEMMA StutterKeeps ==
  ASSUME IInv, UNCHANGED vars PROVE IInv'
<1>1. TypeOK'
  <2>1. TypeWorld'
    BY TypeParts DEF IInv, TypeWorld
  <2>2. TypeHandler'
    BY TypeParts DEF IInv, TypeHandler
  <2>3. TypeTransfer'
    BY TypeParts DEF IInv, TypeTransfer
  <2>4. TypeFlash'
    BY TypeParts DEF IInv, TypeFlash
  <2>5. TypeMail'
    BY TypeParts DEF IInv, TypeMail
  <2> QED BY <2>1, <2>2, <2>3, <2>4, <2>5, Zenon
    DEF TypeOK, TypeWorld, TypeHandler, TypeTransfer, TypeFlash, TypeMail,
        Sessions
<1>2. Agreement'
  BY DEF IInv, Agreement, m, ChunkEnd
<1>3. /\ UpdaterReleased' /\ StagedIsAnnounced' /\ LastStatusIsTold'
      /\ WrittenInOrder'
  BY DEF IInv, UpdaterReleased, StagedIsAnnounced, LastStatusIsTold,
         WrittenInOrder
<1> QED BY <1>1, <1>2, <1>3 DEF IInv

\* Every step keeps the invariant.
LEMMA NextKeeps ==
  ASSUME IInv, [Next]_vars PROVE IInv'
<1>1. CASE Arrival
  BY <1>1, ReceiveKeeps, AnnounceKeeps DEF Arrival
<1>2. CASE HandlerStep
  BY <1>2, HandlerKeeps
<1>3. CASE LoopStep
  BY <1>3, NoticeKeeps, ServiceFailsKeeps, PassesKeeps, PublishKeeps,
     SettleStatusKeeps, LookKeeps, RestartKeeps DEF LoopStep
<1>4. CASE Outside
  BY <1>4, OtherKeeps, NetworkKeeps DEF Outside
<1> QED BY <1>1, <1>2, <1>3, <1>4, StutterKeeps DEF Next

\* The inductive invariant holds in every state of every behaviour.
THEOREM Invariance == Spec => []IInv
<1>1. Init => IInv
  BY InitHolds
<1>2. IInv /\ [Next]_vars => IInv'
  BY NextKeeps
<1> QED BY <1>1, <1>2, PTL DEF Spec

\* Type correctness.
THEOREM TypeCorrect == Spec => []TypeOK
BY Invariance, PTL DEF IInv

\* What is written to the flash are the units of an image in their order.
THEOREM FlashIsInOrder == Spec => []WrittenInOrder
BY Invariance, PTL DEF IInv

\* Every way a transfer can end gives Update back, and none takes it from
\* somebody else.
THEOREM UpdaterIsReleased == Spec => []UpdaterReleased
BY Invariance, PTL DEF IInv

\* Only a transfer that succeeded stages an image: the one it announced.
THEOREM OnlyVerifiedIsStaged == Spec => []StagedIsAnnounced
BY Invariance, PTL DEF IInv

\* A transfer that goes on and a staged image exclude each other, in every
\* interleaving of the handler and the loop: the image is left alone until the
\* restart into it.
THEOREM StagedIsSafe == Spec => []StagedIsLeftAlone
<1>1. IInv => StagedIsLeftAlone
  BY DEF IInv, Agreement, UpdaterReleased, StagedIsLeftAlone
<1> QED BY <1>1, Invariance, PTL

\* No status is lost between the handler and the publisher.
THEOREM NoStatusLost == Spec => []LastStatusIsTold
BY Invariance, PTL DEF IInv

\* A transfer that failed without having begun to write leaves Update alone.
LEMMA FailSparesForeign ==
  ASSUME IInv, FailUpdate, updater.owner = "other"
  PROVE  updater' = updater
BY Zenon DEF IInv, UpdaterReleased, FailUpdate, MustAbort

\* No transfer touches an Update session of somebody else.
THEOREM ForeignIsUntouched == Spec => ForeignUntouched
<1>1. ASSUME IInv, [Next]_vars, updater.owner = "other", updater' # updater
      PROVE  OtherUpdate \/ Restart
  <2>1. ~started
    BY <1>1 DEF IInv, UpdaterReleased
  <2>2. CASE Arrival
    BY <1>1, <2>2, FailSparesForeign DEF Arrival, Receive, ReceiveNested
  <2>3. CASE HandlerStep
    <3>1. ~Fail
      BY <1>1, FailSparesForeign DEF Fail
    <3>2. /\ ~Take /\ ~WriteSlice /\ ~Commit
      BY <1>1, <2>1 DEF Take, WriteSlice, Commit, IInv, Agreement, WrongLength
    <3> QED BY <1>1, <2>3, <3>1, <3>2
      DEF HandlerStep, CheckReboot, RejectChunk, IgnoreEmpty, RefuseStart,
          RejectStart, DiscardTail, Start, RejectOther, IgnoreKnown,
          TakeFails, WriteFails, AbandonChunk, AllWritten, Stored,
          FinishFails, Announce, Refuse, Ignore
  <2>4. CASE LoopStep
    BY <1>1, <2>4, FailSparesForeign
      DEF LoopStep, NoticeSession, ServiceFails, ServicePasses,
          NothingToPublish, PublishStatus, SettleStatus, LookAtStatus,
          RunMessages
  <2>5. CASE Outside
    BY <1>1, <2>5 DEF Outside, InactivityElapses, GraceEnds, SessionEnds,
                      Reconnect, Settle
  <2> QED BY <1>1, <2>2, <2>3, <2>4, <2>5 DEF Next
<1>2. IInv /\ [Next]_vars
        => [updater.owner = "other" /\ updater' # updater
              => OtherUpdate \/ Restart]_vars
  BY <1>1
<1> QED BY <1>2, Invariance, PTL DEF Spec, ForeignUntouched

\* Only a slice written makes what is written longer.
LEMMA OnlySlicesGrow ==
  ASSUME IInv, [Next]_vars, Len(updater'.written) > Len(updater.written)
  PROVE  WriteSlice
<1>1. Len(updater.written) \in Nat
  BY TypeParts DEF IInv, TypeFlash, Sessions
<1>2. updater' # updater /\ updater' # NoUpdate
  BY <1>1, NoUpdateIsFree
<1>3. ~FailUpdate
  BY <1>2, AbortReleases DEF FailUpdate
<1>4. CASE Arrival
  BY <1>2, <1>3, <1>4 DEF Arrival, Receive, ReceiveNested
<1>5. CASE HandlerStep
  <2>1. ~Take
    BY <1>1, <1>2 DEF Take
  <2>2. ~Commit
    BY <1>2 DEF Commit, EndUpdate
  <2> QED BY <1>2, <1>3, <1>5, <2>1, <2>2
    DEF HandlerStep, CheckReboot, RejectChunk, IgnoreEmpty, RefuseStart,
        RejectStart, DiscardTail, Start, RejectOther, IgnoreKnown, TakeFails,
        WriteFails, AbandonChunk, AllWritten, Stored, FinishFails, Announce,
        Refuse, Ignore, Fail
<1>6. CASE LoopStep
  BY <1>2, <1>3, <1>6
    DEF LoopStep, NoticeSession, ServiceFails, ServicePasses,
        NothingToPublish, PublishStatus, SettleStatus, LookAtStatus, Restart,
        RunMessages
<1>7. CASE Outside
  <2>1. ~OtherUpdate
    BY <1>1, <1>2 DEF OtherUpdate, NoUpdate
  <2> QED BY <1>2, <1>7, <2>1 DEF Outside, InactivityElapses, GraceEnds,
                                  SessionEnds, Reconnect, Settle
<1> QED BY <1>2, <1>4, <1>5, <1>6, <1>7 DEF Next

\* Nothing is written for a transfer once its connection is gone.
THEOREM NeverIsResumed == Spec => NeverResumed
<1>1. ASSUME IInv, WriteSlice
      PROVE  ~(cut /\ session = "up")
  BY <1>1 DEF WriteSlice, IInv, Agreement, UpdaterReleased
<1>2. IInv /\ [Next]_vars
        => [Len(updater'.written) > Len(updater.written)
              => ~(cut /\ session = "up")]_vars
  BY <1>1, OnlySlicesGrow
<1> QED BY <1>2, Invariance, PTL DEF Spec, NeverResumed
=============================================================================

---------------------------- MODULE ConfigStore ----------------------------
(***************************************************************************)
(* The stored configuration: Config and ConfigFile over a filesystem whose *)
(* calls may each be refused and whose power may fail between any two of   *)
(* them, the boot that loads it and selects a mode (HomieClass::setup),    *)
(* the configuration portal and the MQTT handler that replace it, and the  *)
(* reset handler that erases it or asks for the portal.                    *)
(*                                                                         *)
(* One action is one call that changes the filesystem, with the reads and  *)
(* the decisions that follow it.  A rename or a remove is atomic; a file   *)
(* being written is unreadable until it is complete.  A portal build is    *)
(* modelled (HOMIE_CONFIG), and a sketch that leaves the mode to the boot. *)
(***************************************************************************)
EXTENDS Naturals

CONSTANTS
  Configs,   \* configurations that pass validation
  Absent,    \* the content of a file that does not exist
  Invalid,   \* a torn, corrupt or rejected content
  Portal,    \* the content "#2" of NEXTMODE
  TwoTasks   \* do portal requests run beside the main loop (ESP32), or in it?

ASSUME ConfigStoreAssumption ==
  /\ {Absent, Invalid, Portal} \cap Configs = {}
  /\ Absent # Invalid /\ Absent # Portal /\ Invalid # Portal
  /\ TwoTasks \in BOOLEAN

VARIABLES
  files,            \* flash: what each path holds
  flaky,            \* flash: can a read of an intact file fail?
  phase,            \* the boot in progress, or the mode it ended in
  mounted,          \* _filesystemBegan
  portalRequested,  \* setup()'s _nextHomieBootMode is CONFIGURATION
  loaded,           \* the LoadResult
  running,          \* _configStruct
  writer,           \* where ConfigFile::write is, or "idle"
  candidate,        \* what it is to store
  saved,            \* _flaggedForReboot, after a successful write
  resetter,         \* where the reset being prepared is, or "idle"
  owed,             \* history: an acknowledged configuration-only reset
  unreviewed        \* history: a backup was promoted, no portal opened since

vars == <<files, flaky, phase, mounted, portalRequested, loaded, running,
          writer, candidate, saved, resetter, owed, unreviewed>>

ConfigPaths == {"config", "temporary", "backup"}
Paths       == ConfigPaths \union {"nextMode"}
BootSteps   == {"readMode", "clearMode", "load", "discard", "promote", "select"}
Modes       == {"normal", "portal"}
WriteSteps  == {"keep", "clean", "open", "fill", "spare", "retire", "commit",
                "undo"}
AskSteps    == {"openMode", "writeMode", "readBack"}

Exists(p)     == files[p] # Absent
Removed(p)    == [files EXCEPT ![p] = Absent]
Renamed(p, q) == [files EXCEPT ![p] = Absent, ![q] = files[p]]

ramOfBoot   == <<mounted, portalRequested, loaded, running>>
ramOfWriter == <<candidate, saved>>

-----------------------------------------------------------------------------
\* A new board, a provisioned one, or one whose files were damaged.
Init ==
  /\ files \in [Paths -> Configs \union {Absent, Invalid}]
  /\ files["temporary"] = Absent /\ files["nextMode"] = Absent
  /\ flaky \in BOOLEAN
  /\ phase = "readMode"
  /\ mounted = FALSE /\ portalRequested = FALSE
  /\ loaded = "invalid" /\ running = Absent
  /\ writer = "idle" /\ candidate = Absent /\ saved = FALSE
  /\ resetter = "idle"
  /\ owed = FALSE /\ unreviewed = FALSE

\* RAM after a power failure or ESP.restart().
Reboot ==
  /\ phase' = "readMode"
  /\ mounted' = FALSE /\ portalRequested' = FALSE
  /\ loaded' = "invalid" /\ running' = Absent
  /\ writer' = "idle" /\ candidate' = Absent /\ saved' = FALSE
  /\ resetter' = "idle"
  /\ UNCHANGED <<files, flaky, unreviewed>>

\* A boot cut short may have consumed NEXTMODE: nothing is owed after it.
PowerFails ==
  /\ Reboot
  /\ owed' = (owed /\ phase \notin BootSteps)

-----------------------------------------------------------------------------
\* The boot.  A valid file may fail to be read when reads are flaky.
ValidationsMutant(p) == {Exists(p)}
Validations(p) ==
  IF files[p] \notin Configs THEN {FALSE}
  ELSE IF flaky THEN BOOLEAN ELSE {TRUE}

\* getHomieBootModeOnNextBoot(); a torn NEXTMODE reads as UNDEFINED.
ReadNextMode ==
  /\ phase = "readMode"
  /\ \E mount \in BOOLEAN, read \in IF flaky THEN BOOLEAN ELSE {TRUE} :
       /\ mounted' = mount
       /\ portalRequested' = (mount /\ read /\ files["nextMode"] = Portal)
       /\ owed' = (owed /\ mount /\ read)
  /\ phase' = IF portalRequested' THEN "clearMode" ELSE "load"
  /\ UNCHANGED <<files, flaky, loaded, running, writer, ramOfWriter, resetter,
                 unreviewed>>

\* setHomieBootModeOnNextBoot(UNDEFINED), whose result setup() ignores.
ClearNextMode ==
  /\ phase = "clearMode"
  /\ phase' = "load"
  /\ files' \in {files, Removed("nextMode")}
  /\ UNCHANGED <<flaky, ramOfBoot, writer, ramOfWriter, resetter, owed,
                 unreviewed>>

\* Which step of load() follows the two validations.
AfterValidation(primaryValid, backupValid) ==
  IF primaryValid \/ ~backupValid THEN "select"
  ELSE IF Exists("config") THEN "discard" ELSE "promote"

\* Config::load() up to its first change; it mounts the filesystem if the read
\* of NEXTMODE could not.
Load ==
  /\ phase = "load"
  /\ mounted' \in {mounted, TRUE}
  /\ UNCHANGED <<files, flaky, portalRequested, writer, ramOfWriter, resetter,
                 owed, unreviewed>>
  /\ \/ ~mounted' /\ phase' = "select" /\ UNCHANGED <<loaded, running>>
     \/ /\ mounted'
        /\ \E primaryValid \in Validations("config"),
              backupValid \in Validations("backup") :
             /\ phase' = AfterValidation(primaryValid, backupValid)
             /\ loaded' = IF primaryValid THEN "primary" ELSE "invalid"
             /\ running' = IF primaryValid THEN files["config"]
                           ELSE IF backupValid THEN files["backup"]
                           ELSE Absent

\* load() removes the invalid primary ...
Discard ==
  /\ phase = "discard"
  /\ \/ phase' = "promote" /\ files' = Removed("config") /\ loaded' = loaded
     \/ phase' = "select" /\ files' = files /\ loaded' = "failed"
  /\ UNCHANGED <<flaky, mounted, portalRequested, running, writer, ramOfWriter,
                 resetter, owed, unreviewed>>

\* ... and puts the backup in its place.
Promote ==
  /\ phase = "promote" /\ phase' = "select"
  /\ \/ /\ files' = Renamed("backup", "config")
        /\ loaded' = "recovered" /\ unreviewed' = TRUE
     \/ /\ files' = files
        /\ loaded' = "failed" /\ unreviewed' = unreviewed
  /\ UNCHANGED <<flaky, mounted, portalRequested, running, writer, ramOfWriter,
                 resetter, owed>>

SelectedModeMutant == IF loaded = "primary" THEN "normal" ELSE "portal"
\* NORMAL needs a configuration that was not recovered; see setup().
SelectedMode ==
  IF portalRequested \/ loaded # "primary" THEN "portal" ELSE "normal"

Select ==
  /\ phase = "select" /\ phase' = SelectedMode
  /\ owed' = FALSE
  /\ unreviewed' = (unreviewed /\ SelectedMode = "normal")
  /\ UNCHANGED <<files, flaky, ramOfBoot, writer, ramOfWriter, resetter>>

Boot == ReadNextMode \/ ClearNextMode \/ Load \/ Discard \/ Promote \/ Select

-----------------------------------------------------------------------------
\* Saving: the portal's POST, or $implementation/config/set in normal mode.
\* Normal mode serves both MQTT and the reset from the main loop; the portal's
\* requests come from the web server's task where there is one.
Alone(other) == other = "idle" \/ (TwoTasks /\ phase = "portal")

WritesBlockedMutant == saved \/ ~mounted
\* Config::write and isStorageReady(), and the portal once it has saved.
WritesBlocked == saved \/ ~mounted \/ loaded = "failed"

\* Config::patch() in normal mode, prepare() in the portal: the stored file is
\* read again before it is changed, unless the boot found none.
Mergeable ==
  loaded \in {"primary", "recovered"} => files["config"] \in Configs

BeginSave(c) ==
  /\ phase \in Modes /\ writer = "idle" /\ Alone(resetter)
  /\ phase = "portal" => ~WritesBlocked
  /\ Mergeable
  /\ writer' = "keep" /\ candidate' = c
  /\ UNCHANGED <<files, flaky, phase, ramOfBoot, saved, resetter, owed,
                 unreviewed>>

\* A filesystem call of the writer: done, or refused.
WriterCalls(changed, next, refused) ==
  /\ \/ files' = changed /\ writer' = next
     \/ files' = files /\ writer' = refused
  /\ UNCHANGED <<flaky, phase, ramOfBoot, ramOfWriter, resetter, owed,
                 unreviewed>>

WriterGoes(next) ==
  /\ writer' = next
  /\ UNCHANGED <<files, flaky, phase, ramOfBoot, ramOfWriter, resetter, owed,
                 unreviewed>>

\* The first line of write(): an interrupted promotion is completed.
Keep ==
  /\ writer = "keep"
  /\ IF ~Exists("config") /\ Exists("backup")
       THEN WriterCalls(Renamed("backup", "config"), "clean", "idle")
       ELSE WriterGoes("clean")

Clean ==
  /\ writer = "clean"
  /\ IF Exists("temporary") THEN WriterCalls(Removed("temporary"), "open", "idle")
                            ELSE WriterGoes("open")

\* open(temporary, "w") leaves an empty file.
Open ==
  /\ writer = "open"
  /\ WriterCalls([files EXCEPT !["temporary"] = Invalid], "fill", "idle")

\* The whole content is written and read back, or write() gives up.
AfterReadBack ==
  IF files'["temporary"] = candidate THEN {"spare", "idle"} ELSE {"idle"}

Fill ==
  /\ writer = "fill"
  /\ \E content \in {candidate, Invalid} :
       files' = [files EXCEPT !["temporary"] = content]
  /\ writer' \in AfterReadBack
  /\ UNCHANGED <<flaky, phase, ramOfBoot, ramOfWriter, resetter, owed,
                 unreviewed>>

\* The old backup makes room for the current configuration.
Spare ==
  /\ writer = "spare"
  /\ IF Exists("config") /\ Exists("backup")
       THEN WriterCalls(Removed("backup"), "retire", "idle")
       ELSE WriterGoes(IF Exists("config") THEN "retire" ELSE "commit")

RetireMutant ==
  /\ writer = "retire"
  /\ WriterCalls(Removed("config"), "commit", "idle")

Retire ==
  /\ writer = "retire"
  /\ IF Exists("config")
       THEN WriterCalls(Renamed("config", "backup"), "commit", "idle")
       ELSE WriterGoes("idle")

\* The save takes effect, is acknowledged, and a restart is flagged.
Commit ==
  /\ writer = "commit"
  /\ \/ /\ Exists("temporary")
        /\ files' = Renamed("temporary", "config")
        /\ writer' = "idle" /\ saved' = TRUE
     \/ /\ files' = files /\ writer' = "undo" /\ saved' = saved
  /\ UNCHANGED <<flaky, phase, ramOfBoot, candidate, resetter, owed, unreviewed>>

\* recover(), whose result write() ignores.
Undo ==
  /\ writer = "undo"
  /\ IF ~Exists("config") /\ Exists("backup")
       THEN WriterCalls(Renamed("backup", "config"), "idle", "idle")
       ELSE WriterGoes("idle")

Save ==
  \/ \E c \in Configs : BeginSave(c)
  \/ Keep \/ Clean \/ Open \/ Fill \/ Spare \/ Retire \/ Commit \/ Undo

-----------------------------------------------------------------------------
\* ResetHandler::_handleReset(), in either mode.  The filesystem is mounted
\* again if it is not; a call that fails cancels the reset.
EraseOrderMutant ==
  [temporary |-> "config", config |-> "backup", backup |-> "nextMode",
   nextMode |-> "erased"]

EraseForgetsMutant ==
  [temporary |-> "backup", backup |-> "config", config |-> "erased",
   nextMode |-> "erased"]

\* "Delete the primary last."
EraseOrder ==
  [temporary |-> "backup", backup |-> "nextMode", nextMode |-> "config",
   config |-> "erased"]

BeginReset(firstStep) ==
  /\ phase \in Modes /\ resetter = "idle" /\ Alone(writer)
  /\ mounted' \in {mounted, TRUE}
  /\ resetter' = IF mounted' THEN firstStep ELSE "idle"
  /\ UNCHANGED <<files, flaky, phase, portalRequested, loaded, running, writer,
                 ramOfWriter, owed, unreviewed>>

\* A filesystem call of the reset handler: done, or refused.
ResetterCalls(changed, next) ==
  /\ \/ files' = changed /\ resetter' = next
     \/ files' = files /\ resetter' = "idle"
  /\ UNCHANGED <<flaky, phase, ramOfBoot, writer, ramOfWriter, owed, unreviewed>>

\* One file of Config::erase().  The exists() that checks the remove() is one step
\* with it: only another task that creates the file just between them would make it
\* refuse, and fewer resets be acknowledged.
EraseFile ==
  /\ resetter \in Paths
  /\ IF Exists(resetter)
       THEN ResetterCalls(Removed(resetter), EraseOrder[resetter])
       ELSE /\ resetter' = EraseOrder[resetter]
            /\ UNCHANGED <<files, flaky, phase, ramOfBoot, writer, ramOfWriter,
                           owed, unreviewed>>

\* setHomieBootModeOnNextBoot(CONFIGURATION): the file is written in place.
OpenNextMode ==
  /\ resetter = "openMode"
  /\ ResetterCalls([files EXCEPT !["nextMode"] = Invalid], "writeMode")

WriteNextMode ==
  /\ resetter = "writeMode"
  /\ ResetterCalls([files EXCEPT !["nextMode"] = Portal], "readBack")

ReadNextModeBack ==
  /\ resetter = "readBack"
  /\ \/ /\ files["nextMode"] = Portal /\ resetter' = "asked" /\ owed' = TRUE
     \/ flaky /\ resetter' = "idle" /\ owed' = owed
  /\ UNCHANGED <<files, flaky, phase, ramOfBoot, writer, ramOfWriter, unreviewed>>

Reset ==
  \/ BeginReset("temporary") \/ BeginReset("openMode")
  \/ EraseFile \/ OpenNextMode \/ WriteNextMode \/ ReadNextModeBack

\* ESP.restart(): a prepared reset at once, a saved configuration when the
\* device is idle or three seconds have passed.
Restart ==
  /\ phase \in Modes
  /\ \/ resetter \in {"erased", "asked"}
     \/ saved /\ writer = "idle" /\ resetter = "idle"
  /\ Reboot
  /\ UNCHANGED owed

Next == Boot \/ Save \/ Reset \/ Restart \/ PowerFails

Spec == Init /\ [][Next]_vars

-----------------------------------------------------------------------------
\* Type invariant: the file contents, the boot's results and the steps of the
\* writer and the resetter stay within their sets; NEXTMODE never holds a
\* configuration and a configuration file never holds a mode.
TypeOK ==
  /\ files \in [Paths -> Configs \union {Absent, Invalid, Portal}]
  /\ \A p \in ConfigPaths : files[p] # Portal
  /\ files["nextMode"] \notin Configs
  /\ phase \in BootSteps \union Modes
  /\ mounted \in BOOLEAN /\ portalRequested \in BOOLEAN /\ flaky \in BOOLEAN
  /\ loaded \in {"invalid", "primary", "recovered", "failed"}
  /\ running \in Configs \union {Absent}
  /\ writer \in WriteSteps \union {"idle"}
  /\ candidate \in Configs \union {Absent}
  /\ saved \in BOOLEAN
  /\ resetter \in Paths \union AskSteps \union {"idle", "erased", "asked"}
  /\ owed \in BOOLEAN /\ unreviewed \in BOOLEAN

\* What a boot that can read its files would load.
Effective ==
  IF files["config"] \in Configs THEN files["config"]
  ELSE IF files["backup"] \in Configs THEN files["backup"]
  ELSE Absent

\* The file a boot looks at first, passing over a missing one, is unreadable.
Damaged ==
  \/ files["config"] = Invalid
  \/ files["config"] = Absent /\ files["backup"] = Invalid

RequestInProgress ==
  IF writer # "idle" THEN [op |-> "save", value |-> candidate]
  ELSE IF resetter \in Paths THEN [op |-> "erase", value |-> Absent]
  ELSE [op |-> "none", value |-> Absent]

Atomic == INSTANCE AtomicConfig WITH
  stored <- Effective, request <- RequestInProgress, damaged <- Damaged

\* Through refused calls, torn writes and power failures between any two
\* calls, and through the boots that follow, the files implement one value
\* that a save replaces atomically and a factory reset removes for good
\* (ConfigFile::write, load, recover, erase).
StorageIsAtomic == Atomic!Spec

\* As long as a factory reset can still be refused, and the device go on, the
\* stored configuration is untouched (ConfigFile::erase deletes it last).
CancellableEraseKeepsConfig ==
  [][(resetter \in Paths /\ resetter' # "erased")
       => (files'["config"] = files["config"])]_vars

\* After a recovery that failed, and until a boot succeeds or the user erases
\* it, no configuration file changes: neither copy may be the only good one
\* (the _recoveryFailed guards of Config).
FailedRecoveryFreezesFiles ==
  [][(loaded = "failed" /\ resetter = "idle")
       => \A p \in ConfigPaths : files'[p] = files[p]]_vars

\* A device that has acknowledged no change runs what a reboot would load; at
\* worst, after a save and an erase that both failed half way, a reboot would
\* find nothing, but never another configuration (patch, write, erase).
RunningIsStored ==
  phase = "normal" /\ ~saved => Effective \in {running, Absent}

\* When a factory reset has been acknowledged and the restart is due, none of the
\* configuration's files is left: the primary, the temporary file, the backup and
\* NEXTMODE (Config::erase, ResetHandler::_handleReset).
FactoryResetLeavesNothing ==
  resetter = "erased" => \A p \in Paths : ~Exists(p)

\* A configuration-only reset that was acknowledged opens the portal on the
\* next boot, if the power and the reads of that boot hold (HomieClass::setup).
ConfigOnlyResetOpensPortal ==
  [][phase = "select" /\ phase' \in Modes /\ owed => phase' = "portal"]_vars

\* A backup that a boot promoted is never run before the portal has offered it
\* for review.
RecoveredIsReviewed == phase = "normal" => ~unreviewed

\* Once a factory reset has been acknowledged, no boot finds a configuration.
FactoryResetForgets == resetter = "erased" => Effective = Absent

\* Only one task is at the filesystem: a boot, normal mode, or a portal whose
\* requests run in the main loop.
Serial == ~TwoTasks \/ phase # "portal"

\* At each step the two files are as the step needs them: with one task at the
\* filesystem, at most one operation is under way, the new configuration is
\* complete before the old one moves, a backup is only dropped beside an
\* existing primary, and the primary is only erased after everything else.
FilesFollowSteps ==
  /\ phase \notin Modes => writer = "idle" /\ resetter = "idle"
  /\ writer # "idle" => candidate \in Configs /\ loaded # "failed"
  /\ phase = "normal" => loaded = "primary"
  /\ phase \in BootSteps \ {"select"} => loaded = "invalid"
  /\ phase = "discard" => /\ Exists("config") /\ files["backup"] \in Configs
                          /\ files["config"] \in Configs => flaky
  /\ phase = "promote" => ~Exists("config") /\ files["backup"] \in Configs
  /\ phase = "select" /\ loaded = "primary" =>
       running = files["config"] /\ running \in Configs
  /\ Serial =>
     /\ writer = "idle" \/ resetter = "idle"
     /\ writer \in {"clean", "open", "fill", "spare"} =>
          Exists("config") \/ ~Exists("backup")
     /\ writer \in {"spare", "retire", "commit", "undo"} =>
          files["temporary"] = candidate
     /\ writer = "retire" => Exists("config") /\ ~Exists("backup")
     /\ writer \in {"commit", "undo"} => ~Exists("config")
     /\ resetter \in {"backup", "nextMode", "config", "erased"} =>
          ~Exists("temporary")
     /\ resetter \in {"nextMode", "config", "erased"} => ~Exists("backup")
     /\ resetter \in {"config", "erased"} => ~Exists("nextMode")
     /\ resetter = "erased" => ~Exists("config")

\* The inductive invariant behind the theorems of ConfigStoreProofs.
IInv == TypeOK /\ FilesFollowSteps /\ RunningIsStored
=============================================================================

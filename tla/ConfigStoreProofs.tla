------------------------ MODULE ConfigStoreProofs ------------------------
(***************************************************************************)
(* Theorems about ConfigStore, for any set of configurations.  The         *)
(* inductive invariant is FilesFollowSteps: what the files hold at each    *)
(* step of an operation.  From it, every step of the boot, of a save and   *)
(* of a reset is a step of AtomicConfig, or none.                          *)
(***************************************************************************)
EXTENDS ConfigStore, TLAPS

\* TypeOK in two parts, for two provers: the Boolean variables ...
Flags ==
  /\ mounted \in BOOLEAN /\ portalRequested \in BOOLEAN /\ flaky \in BOOLEAN
  /\ saved \in BOOLEAN /\ owed \in BOOLEAN /\ unreviewed \in BOOLEAN

\* ... and the others.
Values ==
  /\ files \in [Paths -> Configs \union {Absent, Invalid, Portal}]
  /\ \A p \in ConfigPaths : files[p] # Portal
  /\ files["nextMode"] \notin Configs
  /\ phase \in BootSteps \union Modes
  /\ loaded \in {"invalid", "primary", "recovered", "failed"}
  /\ running \in Configs \union {Absent}
  /\ writer \in WriteSteps \union {"idle"}
  /\ candidate \in Configs \union {Absent}
  /\ resetter \in Paths \union AskSteps \union {"idle", "erased", "asked"}

\* The type invariant, split into the flags and the rest.
LEMMA TypeParts == TypeOK <=> Flags /\ Values
BY DEF TypeOK, Flags, Values

\* Every step keeps the Boolean variables Boolean.
LEMMA FlagsStep ==
  ASSUME Flags, Next
  PROVE  Flags'
<1>1. CASE ReadNextMode
  BY <1>1, Zenon DEF ReadNextMode, ramOfBoot, ramOfWriter, Flags
<1>2. CASE ClearNextMode
  BY <1>2, Zenon DEF ClearNextMode, Removed, ramOfBoot, ramOfWriter, Flags
<1>3. CASE Load
  BY <1>3, Zenon DEF Load, Validations, AfterValidation, Exists, ramOfBoot,
      ramOfWriter, Flags
<1>4. CASE Discard
  BY <1>4, Zenon DEF Discard, Removed, ramOfBoot, ramOfWriter, Flags
<1>5. CASE Promote
  BY <1>5, Zenon DEF Promote, Renamed, ramOfBoot, ramOfWriter, Flags
<1>6. CASE Select
  BY <1>6, Zenon DEF Select, SelectedMode, ramOfBoot, ramOfWriter, Flags
<1>7. CASE \E c \in Configs : BeginSave(c)
  BY <1>7, Zenon DEF BeginSave, Alone, WritesBlocked, Mergeable, ramOfBoot,
      ramOfWriter, Flags
<1>8. CASE Keep
  BY <1>8, Zenon DEF Keep, WriterCalls, WriterGoes, Exists, Renamed,
      ramOfBoot, ramOfWriter, Flags
<1>9. CASE Clean
  BY <1>9, Zenon DEF Clean, WriterCalls, WriterGoes, Exists, Removed,
      ramOfBoot, ramOfWriter, Flags
<1>10. CASE Open
  BY <1>10, Zenon DEF Open, WriterCalls, ramOfBoot, ramOfWriter, Flags
<1>11. CASE Fill
  BY <1>11, Zenon DEF Fill, AfterReadBack, ramOfBoot, ramOfWriter, Flags
<1>12. CASE Spare
  BY <1>12, Zenon DEF Spare, WriterCalls, WriterGoes, Exists, Removed,
      ramOfBoot, ramOfWriter, Flags
<1>13. CASE Retire
  BY <1>13, Zenon DEF Retire, WriterCalls, WriterGoes, Exists, Renamed,
      ramOfBoot, ramOfWriter, Flags
<1>14. CASE Commit
  BY <1>14, Zenon DEF Commit, Exists, Renamed, ramOfBoot, ramOfWriter, Flags
<1>15. CASE Undo
  BY <1>15, Zenon DEF Undo, WriterCalls, WriterGoes, Exists, Renamed,
      ramOfBoot, ramOfWriter, Flags
<1>16. CASE BeginReset("temporary")
  BY <1>16, Zenon DEF BeginReset, Alone, ramOfBoot, ramOfWriter, Flags
<1>17. CASE BeginReset("openMode")
  BY <1>17, Zenon DEF BeginReset, Alone, ramOfBoot, ramOfWriter, Flags
<1>18. CASE EraseFile
  BY <1>18, Zenon DEF EraseFile, ResetterCalls, Exists, Removed, EraseOrder,
      ramOfBoot, ramOfWriter, Flags
<1>19. CASE OpenNextMode
  BY <1>19, Zenon DEF OpenNextMode, ResetterCalls, ramOfBoot, ramOfWriter,
      Flags
<1>20. CASE WriteNextMode
  BY <1>20, Zenon DEF WriteNextMode, ResetterCalls, ramOfBoot, ramOfWriter,
      Flags
<1>21. CASE ReadNextModeBack
  BY <1>21, Zenon DEF ReadNextModeBack, ramOfBoot, ramOfWriter, Flags
<1>22. CASE Restart
  BY <1>22, Zenon DEF Restart, Reboot, ramOfBoot, ramOfWriter, Flags
<1>23. CASE PowerFails
  BY <1>23, Zenon DEF PowerFails, Reboot, ramOfBoot, ramOfWriter, Flags
<1> QED
  BY <1>1, <1>2, <1>3, <1>4, <1>5, <1>6, <1>7, <1>8, <1>9, <1>10, <1>11,
      <1>12, <1>13, <1>14, <1>15, <1>16, <1>17, <1>18, <1>19, <1>20, <1>21,
      <1>22, <1>23
     DEF Next, Boot, Save, Reset

\* Every step keeps the other variables in their types.
LEMMA ValuesStep ==
  ASSUME ConfigStoreAssumption, Values, Next
  PROVE  Values'
<1> USE DEF ConfigStoreAssumption
<1>1. CASE ReadNextMode
  BY <1>1 DEF ReadNextMode, ramOfBoot, ramOfWriter, Values, Paths,
      ConfigPaths, BootSteps, Modes, WriteSteps, AskSteps
<1>2. CASE ClearNextMode
  BY <1>2 DEF ClearNextMode, Removed, ramOfBoot, ramOfWriter, Values, Paths,
      ConfigPaths, BootSteps, Modes, WriteSteps, AskSteps
<1>3. CASE Load
  BY <1>3 DEF Load, Validations, AfterValidation, Exists, ramOfBoot,
      ramOfWriter, Values, Paths, ConfigPaths, BootSteps, Modes, WriteSteps,
      AskSteps
<1>4. CASE Discard
  BY <1>4 DEF Discard, Removed, ramOfBoot, ramOfWriter, Values, Paths,
      ConfigPaths, BootSteps, Modes, WriteSteps, AskSteps
<1>5. CASE Promote
  BY <1>5 DEF Promote, Renamed, ramOfBoot, ramOfWriter, Values, Paths,
      ConfigPaths, BootSteps, Modes, WriteSteps, AskSteps
<1>6. CASE Select
  BY <1>6 DEF Select, SelectedMode, ramOfBoot, ramOfWriter, Values, Paths,
      ConfigPaths, BootSteps, Modes, WriteSteps, AskSteps
<1>7. CASE \E c \in Configs : BeginSave(c)
  BY <1>7 DEF BeginSave, Alone, WritesBlocked, Mergeable, ramOfBoot,
      ramOfWriter, Values, Paths, ConfigPaths, BootSteps, Modes, WriteSteps,
      AskSteps
<1>8. CASE Keep
  BY <1>8 DEF Keep, WriterCalls, WriterGoes, Exists, Renamed, ramOfBoot,
      ramOfWriter, Values, Paths, ConfigPaths, BootSteps, Modes, WriteSteps,
      AskSteps
<1>9. CASE Clean
  BY <1>9 DEF Clean, WriterCalls, WriterGoes, Exists, Removed, ramOfBoot,
      ramOfWriter, Values, Paths, ConfigPaths, BootSteps, Modes, WriteSteps,
      AskSteps
<1>10. CASE Open
  BY <1>10 DEF Open, WriterCalls, ramOfBoot, ramOfWriter, Values, Paths,
      ConfigPaths, BootSteps, Modes, WriteSteps, AskSteps
<1>11. CASE Fill
  BY <1>11 DEF Fill, AfterReadBack, ramOfBoot, ramOfWriter, Values, Paths,
      ConfigPaths, BootSteps, Modes, WriteSteps, AskSteps
<1>12. CASE Spare
  BY <1>12 DEF Spare, WriterCalls, WriterGoes, Exists, Removed, ramOfBoot,
      ramOfWriter, Values, Paths, ConfigPaths, BootSteps, Modes, WriteSteps,
      AskSteps
<1>13. CASE Retire
  BY <1>13 DEF Retire, WriterCalls, WriterGoes, Exists, Renamed, ramOfBoot,
      ramOfWriter, Values, Paths, ConfigPaths, BootSteps, Modes, WriteSteps,
      AskSteps
<1>14. CASE Commit
  BY <1>14 DEF Commit, Exists, Renamed, ramOfBoot, ramOfWriter, Values, Paths,
      ConfigPaths, BootSteps, Modes, WriteSteps, AskSteps
<1>15. CASE Undo
  BY <1>15 DEF Undo, WriterCalls, WriterGoes, Exists, Renamed, ramOfBoot,
      ramOfWriter, Values, Paths, ConfigPaths, BootSteps, Modes, WriteSteps,
      AskSteps
<1>16. CASE BeginReset("temporary")
  BY <1>16 DEF BeginReset, Alone, ramOfBoot, ramOfWriter, Values, Paths,
      ConfigPaths, BootSteps, Modes, WriteSteps, AskSteps
<1>17. CASE BeginReset("openMode")
  BY <1>17 DEF BeginReset, Alone, ramOfBoot, ramOfWriter, Values, Paths,
      ConfigPaths, BootSteps, Modes, WriteSteps, AskSteps
<1>18. CASE EraseFile
  BY <1>18 DEF EraseFile, ResetterCalls, Exists, Removed, EraseOrder,
      ramOfBoot, ramOfWriter, Values, Paths, ConfigPaths, BootSteps, Modes,
      WriteSteps, AskSteps
<1>19. CASE OpenNextMode
  BY <1>19 DEF OpenNextMode, ResetterCalls, ramOfBoot, ramOfWriter, Values,
      Paths, ConfigPaths, BootSteps, Modes, WriteSteps, AskSteps
<1>20. CASE WriteNextMode
  BY <1>20 DEF WriteNextMode, ResetterCalls, ramOfBoot, ramOfWriter, Values,
      Paths, ConfigPaths, BootSteps, Modes, WriteSteps, AskSteps
<1>21. CASE ReadNextModeBack
  BY <1>21 DEF ReadNextModeBack, ramOfBoot, ramOfWriter, Values, Paths,
      ConfigPaths, BootSteps, Modes, WriteSteps, AskSteps
<1>22. CASE Restart
  BY <1>22 DEF Restart, Reboot, ramOfBoot, ramOfWriter, Values, Paths,
      ConfigPaths, BootSteps, Modes, WriteSteps, AskSteps
<1>23. CASE PowerFails
  BY <1>23 DEF PowerFails, Reboot, ramOfBoot, ramOfWriter, Values, Paths,
      ConfigPaths, BootSteps, Modes, WriteSteps, AskSteps
<1> QED
  BY <1>1, <1>2, <1>3, <1>4, <1>5, <1>6, <1>7, <1>8, <1>9, <1>10, <1>11,
      <1>12, <1>13, <1>14, <1>15, <1>16, <1>17, <1>18, <1>19, <1>20, <1>21,
      <1>22, <1>23
     DEF Next, Boot, Save, Reset

\* Every step leaves the files as the next step needs them.
LEMMA FilesStep ==
  ASSUME ConfigStoreAssumption, TypeOK, FilesFollowSteps, Next
  PROVE  FilesFollowSteps'
<1> USE DEF ConfigStoreAssumption
<1>1. CASE ReadNextMode
  BY <1>1 DEF ReadNextMode, ramOfBoot, ramOfWriter, TypeOK, Paths,
      ConfigPaths, BootSteps, Modes, WriteSteps, AskSteps, FilesFollowSteps,
      Serial, Exists
<1>2. CASE ClearNextMode
  BY <1>2 DEF ClearNextMode, Removed, ramOfBoot, ramOfWriter, TypeOK, Paths,
      ConfigPaths, BootSteps, Modes, WriteSteps, AskSteps, FilesFollowSteps,
      Serial, Exists
<1>3. CASE Load
  <2>1. CASE ~mounted'
    BY <1>3, <2>1 DEF Load, ramOfBoot, ramOfWriter, TypeOK, Paths,
        ConfigPaths, BootSteps, Modes, WriteSteps, AskSteps, FilesFollowSteps,
        Serial, Exists
  <2>2. CASE mounted'
    <3>1. PICK primaryValid \in Validations("config"),
               backupValid \in Validations("backup") :
            /\ phase' = AfterValidation(primaryValid, backupValid)
            /\ loaded' = IF primaryValid THEN "primary" ELSE "invalid"
            /\ running' = IF primaryValid THEN files["config"]
                          ELSE IF backupValid THEN files["backup"]
                          ELSE Absent
      BY <1>3, <2>2, Zenon DEF Load
    <3>2. /\ primaryValid => files["config"] \in Configs
          /\ backupValid => files["backup"] \in Configs
          /\ files["config"] \in Configs /\ ~flaky => primaryValid
      BY <3>1 DEF Validations
    <3>3. UNCHANGED <<files, flaky, portalRequested, writer, candidate, saved,
                      resetter, owed, unreviewed>>
      BY <1>3 DEF Load, ramOfWriter
    <3> QED
      BY <1>3, <3>1, <3>2, <3>3 DEF Load, AfterValidation, ramOfBoot,
          ramOfWriter, TypeOK, Paths, ConfigPaths, BootSteps, Modes,
          WriteSteps, AskSteps, FilesFollowSteps, Serial, Exists
  <2> QED BY <2>1, <2>2
<1>4. CASE Discard
  BY <1>4 DEF Discard, Removed, ramOfBoot, ramOfWriter, TypeOK, Paths,
      ConfigPaths, BootSteps, Modes, WriteSteps, AskSteps, FilesFollowSteps,
      Serial, Exists
<1>5. CASE Promote
  BY <1>5 DEF Promote, Renamed, ramOfBoot, ramOfWriter, TypeOK, Paths,
      ConfigPaths, BootSteps, Modes, WriteSteps, AskSteps, FilesFollowSteps,
      Serial, Exists
<1>6. CASE Select
  BY <1>6 DEF Select, SelectedMode, ramOfBoot, ramOfWriter, TypeOK, Paths,
      ConfigPaths, BootSteps, Modes, WriteSteps, AskSteps, FilesFollowSteps,
      Serial, Exists
<1>7. CASE \E c \in Configs : BeginSave(c)
  BY <1>7 DEF BeginSave, Alone, WritesBlocked, Mergeable, ramOfBoot,
      ramOfWriter, TypeOK, Paths, ConfigPaths, BootSteps, Modes, WriteSteps,
      AskSteps, FilesFollowSteps, Serial, Exists
<1>8. CASE Keep
  BY <1>8 DEF Keep, WriterCalls, WriterGoes, Exists, Renamed, ramOfBoot,
      ramOfWriter, TypeOK, Paths, ConfigPaths, BootSteps, Modes, WriteSteps,
      AskSteps, FilesFollowSteps, Serial
<1>9. CASE Clean
  BY <1>9 DEF Clean, WriterCalls, WriterGoes, Exists, Removed, ramOfBoot,
      ramOfWriter, TypeOK, Paths, ConfigPaths, BootSteps, Modes, WriteSteps,
      AskSteps, FilesFollowSteps, Serial
<1>10. CASE Open
  BY <1>10 DEF Open, WriterCalls, ramOfBoot, ramOfWriter, TypeOK, Paths,
      ConfigPaths, BootSteps, Modes, WriteSteps, AskSteps, FilesFollowSteps,
      Serial, Exists
<1>11. CASE Fill
  BY <1>11 DEF Fill, AfterReadBack, ramOfBoot, ramOfWriter, TypeOK, Paths,
      ConfigPaths, BootSteps, Modes, WriteSteps, AskSteps, FilesFollowSteps,
      Serial, Exists
<1>12. CASE Spare
  BY <1>12 DEF Spare, WriterCalls, WriterGoes, Exists, Removed, ramOfBoot,
      ramOfWriter, TypeOK, Paths, ConfigPaths, BootSteps, Modes, WriteSteps,
      AskSteps, FilesFollowSteps, Serial
<1>13. CASE Retire
  BY <1>13 DEF Retire, WriterCalls, WriterGoes, Exists, Renamed, ramOfBoot,
      ramOfWriter, TypeOK, Paths, ConfigPaths, BootSteps, Modes, WriteSteps,
      AskSteps, FilesFollowSteps, Serial
<1>14. CASE Commit
  BY <1>14 DEF Commit, Exists, Renamed, ramOfBoot, ramOfWriter, TypeOK, Paths,
      ConfigPaths, BootSteps, Modes, WriteSteps, AskSteps, FilesFollowSteps,
      Serial
<1>15. CASE Undo
  BY <1>15 DEF Undo, WriterCalls, WriterGoes, Exists, Renamed, ramOfBoot,
      ramOfWriter, TypeOK, Paths, ConfigPaths, BootSteps, Modes, WriteSteps,
      AskSteps, FilesFollowSteps, Serial
<1>16. CASE BeginReset("temporary")
  BY <1>16 DEF BeginReset, Alone, ramOfBoot, ramOfWriter, TypeOK, Paths,
      ConfigPaths, BootSteps, Modes, WriteSteps, AskSteps, FilesFollowSteps,
      Serial, Exists
<1>17. CASE BeginReset("openMode")
  BY <1>17 DEF BeginReset, Alone, ramOfBoot, ramOfWriter, TypeOK, Paths,
      ConfigPaths, BootSteps, Modes, WriteSteps, AskSteps, FilesFollowSteps,
      Serial, Exists
<1>18. CASE EraseFile
  BY <1>18 DEF EraseFile, ResetterCalls, Exists, Removed, EraseOrder,
      ramOfBoot, ramOfWriter, TypeOK, Paths, ConfigPaths, BootSteps, Modes,
      WriteSteps, AskSteps, FilesFollowSteps, Serial
<1>19. CASE OpenNextMode
  BY <1>19 DEF OpenNextMode, ResetterCalls, ramOfBoot, ramOfWriter, TypeOK,
      Paths, ConfigPaths, BootSteps, Modes, WriteSteps, AskSteps,
      FilesFollowSteps, Serial, Exists
<1>20. CASE WriteNextMode
  BY <1>20 DEF WriteNextMode, ResetterCalls, ramOfBoot, ramOfWriter, TypeOK,
      Paths, ConfigPaths, BootSteps, Modes, WriteSteps, AskSteps,
      FilesFollowSteps, Serial, Exists
<1>21. CASE ReadNextModeBack
  BY <1>21 DEF ReadNextModeBack, ramOfBoot, ramOfWriter, TypeOK, Paths,
      ConfigPaths, BootSteps, Modes, WriteSteps, AskSteps, FilesFollowSteps,
      Serial, Exists
<1>22. CASE Restart
  BY <1>22 DEF Restart, Reboot, ramOfBoot, ramOfWriter, TypeOK, Paths,
      ConfigPaths, BootSteps, Modes, WriteSteps, AskSteps, FilesFollowSteps,
      Serial, Exists
<1>23. CASE PowerFails
  BY <1>23 DEF PowerFails, Reboot, ramOfBoot, ramOfWriter, TypeOK, Paths,
      ConfigPaths, BootSteps, Modes, WriteSteps, AskSteps, FilesFollowSteps,
      Serial, Exists
<1> QED
  BY <1>1, <1>2, <1>3, <1>4, <1>5, <1>6, <1>7, <1>8, <1>9, <1>10, <1>11,
      <1>12, <1>13, <1>14, <1>15, <1>16, <1>17, <1>18, <1>19, <1>20, <1>21,
      <1>22, <1>23
     DEF Next, Boot, Save, Reset

\* The initial files are a store with no operation under way.
LEMMA RefinementInit ==
  ASSUME ConfigStoreAssumption, Init
  PROVE  Atomic!Init
BY DEF ConfigStoreAssumption, Init, Atomic!Init, Atomic!None, Effective,
       Damaged, RequestInProgress, Paths, ConfigPaths

\* With one task at the filesystem, every step is a step of the abstract store
\* or leaves it alone.
LEMMA RefinementStep ==
  ASSUME ConfigStoreAssumption, ~TwoTasks, TypeOK, FilesFollowSteps, Next
  PROVE  Atomic!Next \/ UNCHANGED Atomic!vars
<1> USE DEF ConfigStoreAssumption
<1>1. CASE ReadNextMode
  BY <1>1 DEF ReadNextMode, ramOfBoot, ramOfWriter, TypeOK, Paths,
      ConfigPaths, BootSteps, Modes, WriteSteps, AskSteps, FilesFollowSteps,
      Serial, Exists, Atomic!Next, Atomic!vars, Atomic!None, Atomic!Save,
      Atomic!Erase, Atomic!NothingDamaged, Atomic!Begin, Atomic!Done,
      Atomic!EraseTakesEffect, Atomic!Abandoned, Atomic!LoseDamaged,
      Atomic!Revert, Effective, Damaged, RequestInProgress
<1>2. CASE ClearNextMode
  BY <1>2 DEF ClearNextMode, Removed, ramOfBoot, ramOfWriter, TypeOK, Paths,
      ConfigPaths, BootSteps, Modes, WriteSteps, AskSteps, FilesFollowSteps,
      Serial, Exists, Atomic!Next, Atomic!vars, Atomic!None, Atomic!Save,
      Atomic!Erase, Atomic!NothingDamaged, Atomic!Begin, Atomic!Done,
      Atomic!EraseTakesEffect, Atomic!Abandoned, Atomic!LoseDamaged,
      Atomic!Revert, Effective, Damaged, RequestInProgress
<1>3. CASE Load
  BY <1>3 DEF Load, Validations, AfterValidation, Exists, ramOfBoot,
      ramOfWriter, TypeOK, Paths, ConfigPaths, BootSteps, Modes, WriteSteps,
      AskSteps, FilesFollowSteps, Serial, Atomic!Next, Atomic!vars,
      Atomic!None, Atomic!Save, Atomic!Erase, Atomic!NothingDamaged,
      Atomic!Begin, Atomic!Done, Atomic!EraseTakesEffect, Atomic!Abandoned,
      Atomic!LoseDamaged, Atomic!Revert, Effective, Damaged, RequestInProgress
<1>4. CASE Discard
  BY <1>4 DEF Discard, Removed, ramOfBoot, ramOfWriter, TypeOK, Paths,
      ConfigPaths, BootSteps, Modes, WriteSteps, AskSteps, FilesFollowSteps,
      Serial, Exists, Atomic!Next, Atomic!vars, Atomic!None, Atomic!Save,
      Atomic!Erase, Atomic!NothingDamaged, Atomic!Begin, Atomic!Done,
      Atomic!EraseTakesEffect, Atomic!Abandoned, Atomic!LoseDamaged,
      Atomic!Revert, Effective, Damaged, RequestInProgress
<1>5. CASE Promote
  BY <1>5 DEF Promote, Renamed, ramOfBoot, ramOfWriter, TypeOK, Paths,
      ConfigPaths, BootSteps, Modes, WriteSteps, AskSteps, FilesFollowSteps,
      Serial, Exists, Atomic!Next, Atomic!vars, Atomic!None, Atomic!Save,
      Atomic!Erase, Atomic!NothingDamaged, Atomic!Begin, Atomic!Done,
      Atomic!EraseTakesEffect, Atomic!Abandoned, Atomic!LoseDamaged,
      Atomic!Revert, Effective, Damaged, RequestInProgress
<1>6. CASE Select
  BY <1>6 DEF Select, SelectedMode, ramOfBoot, ramOfWriter, TypeOK, Paths,
      ConfigPaths, BootSteps, Modes, WriteSteps, AskSteps, FilesFollowSteps,
      Serial, Exists, Atomic!Next, Atomic!vars, Atomic!None, Atomic!Save,
      Atomic!Erase, Atomic!NothingDamaged, Atomic!Begin, Atomic!Done,
      Atomic!EraseTakesEffect, Atomic!Abandoned, Atomic!LoseDamaged,
      Atomic!Revert, Effective, Damaged, RequestInProgress
<1>7. CASE \E c \in Configs : BeginSave(c)
  BY <1>7 DEF BeginSave, Alone, WritesBlocked, Mergeable, ramOfBoot,
      ramOfWriter, TypeOK, Paths, ConfigPaths, BootSteps, Modes, WriteSteps,
      AskSteps, FilesFollowSteps, Serial, Exists, Atomic!Next, Atomic!vars,
      Atomic!None, Atomic!Save, Atomic!Erase, Atomic!NothingDamaged,
      Atomic!Begin, Atomic!Done, Atomic!EraseTakesEffect, Atomic!Abandoned,
      Atomic!LoseDamaged, Atomic!Revert, Effective, Damaged, RequestInProgress
<1>8. CASE Keep
  BY <1>8 DEF Keep, WriterCalls, WriterGoes, Exists, Renamed, ramOfBoot,
      ramOfWriter, TypeOK, Paths, ConfigPaths, BootSteps, Modes, WriteSteps,
      AskSteps, FilesFollowSteps, Serial, Atomic!Next, Atomic!vars,
      Atomic!None, Atomic!Save, Atomic!Erase, Atomic!NothingDamaged,
      Atomic!Begin, Atomic!Done, Atomic!EraseTakesEffect, Atomic!Abandoned,
      Atomic!LoseDamaged, Atomic!Revert, Effective, Damaged, RequestInProgress
<1>9. CASE Clean
  BY <1>9 DEF Clean, WriterCalls, WriterGoes, Exists, Removed, ramOfBoot,
      ramOfWriter, TypeOK, Paths, ConfigPaths, BootSteps, Modes, WriteSteps,
      AskSteps, FilesFollowSteps, Serial, Atomic!Next, Atomic!vars,
      Atomic!None, Atomic!Save, Atomic!Erase, Atomic!NothingDamaged,
      Atomic!Begin, Atomic!Done, Atomic!EraseTakesEffect, Atomic!Abandoned,
      Atomic!LoseDamaged, Atomic!Revert, Effective, Damaged, RequestInProgress
<1>10. CASE Open
  BY <1>10 DEF Open, WriterCalls, ramOfBoot, ramOfWriter, TypeOK, Paths,
      ConfigPaths, BootSteps, Modes, WriteSteps, AskSteps, FilesFollowSteps,
      Serial, Exists, Atomic!Next, Atomic!vars, Atomic!None, Atomic!Save,
      Atomic!Erase, Atomic!NothingDamaged, Atomic!Begin, Atomic!Done,
      Atomic!EraseTakesEffect, Atomic!Abandoned, Atomic!LoseDamaged,
      Atomic!Revert, Effective, Damaged, RequestInProgress
<1>11. CASE Fill
  BY <1>11 DEF Fill, AfterReadBack, ramOfBoot, ramOfWriter, TypeOK, Paths,
      ConfigPaths, BootSteps, Modes, WriteSteps, AskSteps, FilesFollowSteps,
      Serial, Exists, Atomic!Next, Atomic!vars, Atomic!None, Atomic!Save,
      Atomic!Erase, Atomic!NothingDamaged, Atomic!Begin, Atomic!Done,
      Atomic!EraseTakesEffect, Atomic!Abandoned, Atomic!LoseDamaged,
      Atomic!Revert, Effective, Damaged, RequestInProgress
<1>12. CASE Spare
  BY <1>12 DEF Spare, WriterCalls, WriterGoes, Exists, Removed, ramOfBoot,
      ramOfWriter, TypeOK, Paths, ConfigPaths, BootSteps, Modes, WriteSteps,
      AskSteps, FilesFollowSteps, Serial, Atomic!Next, Atomic!vars,
      Atomic!None, Atomic!Save, Atomic!Erase, Atomic!NothingDamaged,
      Atomic!Begin, Atomic!Done, Atomic!EraseTakesEffect, Atomic!Abandoned,
      Atomic!LoseDamaged, Atomic!Revert, Effective, Damaged, RequestInProgress
<1>13. CASE Retire
  BY <1>13 DEF Retire, WriterCalls, WriterGoes, Exists, Renamed, ramOfBoot,
      ramOfWriter, TypeOK, Paths, ConfigPaths, BootSteps, Modes, WriteSteps,
      AskSteps, FilesFollowSteps, Serial, Atomic!Next, Atomic!vars,
      Atomic!None, Atomic!Save, Atomic!Erase, Atomic!NothingDamaged,
      Atomic!Begin, Atomic!Done, Atomic!EraseTakesEffect, Atomic!Abandoned,
      Atomic!LoseDamaged, Atomic!Revert, Effective, Damaged, RequestInProgress
<1>14. CASE Commit
  BY <1>14 DEF Commit, Exists, Renamed, ramOfBoot, ramOfWriter, TypeOK, Paths,
      ConfigPaths, BootSteps, Modes, WriteSteps, AskSteps, FilesFollowSteps,
      Serial, Atomic!Next, Atomic!vars, Atomic!None, Atomic!Save,
      Atomic!Erase, Atomic!NothingDamaged, Atomic!Begin, Atomic!Done,
      Atomic!EraseTakesEffect, Atomic!Abandoned, Atomic!LoseDamaged,
      Atomic!Revert, Effective, Damaged, RequestInProgress
<1>15. CASE Undo
  BY <1>15 DEF Undo, WriterCalls, WriterGoes, Exists, Renamed, ramOfBoot,
      ramOfWriter, TypeOK, Paths, ConfigPaths, BootSteps, Modes, WriteSteps,
      AskSteps, FilesFollowSteps, Serial, Atomic!Next, Atomic!vars,
      Atomic!None, Atomic!Save, Atomic!Erase, Atomic!NothingDamaged,
      Atomic!Begin, Atomic!Done, Atomic!EraseTakesEffect, Atomic!Abandoned,
      Atomic!LoseDamaged, Atomic!Revert, Effective, Damaged, RequestInProgress
<1>16. CASE BeginReset("temporary")
  BY <1>16 DEF BeginReset, Alone, ramOfBoot, ramOfWriter, TypeOK, Paths,
      ConfigPaths, BootSteps, Modes, WriteSteps, AskSteps, FilesFollowSteps,
      Serial, Exists, Atomic!Next, Atomic!vars, Atomic!None, Atomic!Save,
      Atomic!Erase, Atomic!NothingDamaged, Atomic!Begin, Atomic!Done,
      Atomic!EraseTakesEffect, Atomic!Abandoned, Atomic!LoseDamaged,
      Atomic!Revert, Effective, Damaged, RequestInProgress
<1>17. CASE BeginReset("openMode")
  BY <1>17 DEF BeginReset, Alone, ramOfBoot, ramOfWriter, TypeOK, Paths,
      ConfigPaths, BootSteps, Modes, WriteSteps, AskSteps, FilesFollowSteps,
      Serial, Exists, Atomic!Next, Atomic!vars, Atomic!None, Atomic!Save,
      Atomic!Erase, Atomic!NothingDamaged, Atomic!Begin, Atomic!Done,
      Atomic!EraseTakesEffect, Atomic!Abandoned, Atomic!LoseDamaged,
      Atomic!Revert, Effective, Damaged, RequestInProgress
<1>18. CASE EraseFile
  BY <1>18 DEF EraseFile, ResetterCalls, Exists, Removed, EraseOrder,
      ramOfBoot, ramOfWriter, TypeOK, Paths, ConfigPaths, BootSteps, Modes,
      WriteSteps, AskSteps, FilesFollowSteps, Serial, Atomic!Next,
      Atomic!vars, Atomic!None, Atomic!Save, Atomic!Erase,
      Atomic!NothingDamaged, Atomic!Begin, Atomic!Done,
      Atomic!EraseTakesEffect, Atomic!Abandoned, Atomic!LoseDamaged,
      Atomic!Revert, Effective, Damaged, RequestInProgress
<1>19. CASE OpenNextMode
  BY <1>19 DEF OpenNextMode, ResetterCalls, ramOfBoot, ramOfWriter, TypeOK,
      Paths, ConfigPaths, BootSteps, Modes, WriteSteps, AskSteps,
      FilesFollowSteps, Serial, Exists, Atomic!Next, Atomic!vars, Atomic!None,
      Atomic!Save, Atomic!Erase, Atomic!NothingDamaged, Atomic!Begin,
      Atomic!Done, Atomic!EraseTakesEffect, Atomic!Abandoned,
      Atomic!LoseDamaged, Atomic!Revert, Effective, Damaged, RequestInProgress
<1>20. CASE WriteNextMode
  BY <1>20 DEF WriteNextMode, ResetterCalls, ramOfBoot, ramOfWriter, TypeOK,
      Paths, ConfigPaths, BootSteps, Modes, WriteSteps, AskSteps,
      FilesFollowSteps, Serial, Exists, Atomic!Next, Atomic!vars, Atomic!None,
      Atomic!Save, Atomic!Erase, Atomic!NothingDamaged, Atomic!Begin,
      Atomic!Done, Atomic!EraseTakesEffect, Atomic!Abandoned,
      Atomic!LoseDamaged, Atomic!Revert, Effective, Damaged, RequestInProgress
<1>21. CASE ReadNextModeBack
  BY <1>21 DEF ReadNextModeBack, ramOfBoot, ramOfWriter, TypeOK, Paths,
      ConfigPaths, BootSteps, Modes, WriteSteps, AskSteps, FilesFollowSteps,
      Serial, Exists, Atomic!Next, Atomic!vars, Atomic!None, Atomic!Save,
      Atomic!Erase, Atomic!NothingDamaged, Atomic!Begin, Atomic!Done,
      Atomic!EraseTakesEffect, Atomic!Abandoned, Atomic!LoseDamaged,
      Atomic!Revert, Effective, Damaged, RequestInProgress
<1>22. CASE Restart
  BY <1>22 DEF Restart, Reboot, ramOfBoot, ramOfWriter, TypeOK, Paths,
      ConfigPaths, BootSteps, Modes, WriteSteps, AskSteps, FilesFollowSteps,
      Serial, Exists, Atomic!Next, Atomic!vars, Atomic!None, Atomic!Save,
      Atomic!Erase, Atomic!NothingDamaged, Atomic!Begin, Atomic!Done,
      Atomic!EraseTakesEffect, Atomic!Abandoned, Atomic!LoseDamaged,
      Atomic!Revert, Effective, Damaged, RequestInProgress
<1>23. CASE PowerFails
  BY <1>23 DEF PowerFails, Reboot, ramOfBoot, ramOfWriter, TypeOK, Paths,
      ConfigPaths, BootSteps, Modes, WriteSteps, AskSteps, FilesFollowSteps,
      Serial, Exists, Atomic!Next, Atomic!vars, Atomic!None, Atomic!Save,
      Atomic!Erase, Atomic!NothingDamaged, Atomic!Begin, Atomic!Done,
      Atomic!EraseTakesEffect, Atomic!Abandoned, Atomic!LoseDamaged,
      Atomic!Revert, Effective, Damaged, RequestInProgress
<1> QED
  BY <1>1, <1>2, <1>3, <1>4, <1>5, <1>6, <1>7, <1>8, <1>9, <1>10, <1>11,
      <1>12, <1>13, <1>14, <1>15, <1>16, <1>17, <1>18, <1>19, <1>20, <1>21,
      <1>22, <1>23
     DEF Next, Boot, Save, Reset

\* Until a change is acknowledged, normal mode never sees its store replaced.
LEMMA RunningStep ==
  ASSUME ConfigStoreAssumption, IInv, Next
  PROVE  RunningIsStored'
<1> USE DEF ConfigStoreAssumption
<1>1. CASE ReadNextMode
  BY <1>1 DEF ReadNextMode, ramOfBoot, ramOfWriter, TypeOK, Paths,
      ConfigPaths, BootSteps, Modes, WriteSteps, AskSteps, FilesFollowSteps,
      Serial, Exists, IInv, RunningIsStored, Effective
<1>2. CASE ClearNextMode
  BY <1>2 DEF ClearNextMode, Removed, ramOfBoot, ramOfWriter, TypeOK, Paths,
      ConfigPaths, BootSteps, Modes, WriteSteps, AskSteps, FilesFollowSteps,
      Serial, Exists, IInv, RunningIsStored, Effective
<1>3. CASE Load
  BY <1>3 DEF Load, Validations, AfterValidation, Exists, ramOfBoot,
      ramOfWriter, TypeOK, Paths, ConfigPaths, BootSteps, Modes, WriteSteps,
      AskSteps, FilesFollowSteps, Serial, IInv, RunningIsStored, Effective
<1>4. CASE Discard
  BY <1>4 DEF Discard, Removed, ramOfBoot, ramOfWriter, TypeOK, Paths,
      ConfigPaths, BootSteps, Modes, WriteSteps, AskSteps, FilesFollowSteps,
      Serial, Exists, IInv, RunningIsStored, Effective
<1>5. CASE Promote
  BY <1>5 DEF Promote, Renamed, ramOfBoot, ramOfWriter, TypeOK, Paths,
      ConfigPaths, BootSteps, Modes, WriteSteps, AskSteps, FilesFollowSteps,
      Serial, Exists, IInv, RunningIsStored, Effective
<1>6. CASE Select
  BY <1>6 DEF Select, SelectedMode, ramOfBoot, ramOfWriter, TypeOK, Paths,
      ConfigPaths, BootSteps, Modes, WriteSteps, AskSteps, FilesFollowSteps,
      Serial, Exists, IInv, RunningIsStored, Effective
<1>7. CASE \E c \in Configs : BeginSave(c)
  BY <1>7 DEF BeginSave, Alone, WritesBlocked, Mergeable, ramOfBoot,
      ramOfWriter, TypeOK, Paths, ConfigPaths, BootSteps, Modes, WriteSteps,
      AskSteps, FilesFollowSteps, Serial, Exists, IInv, RunningIsStored,
      Effective
<1>8. CASE Keep
  BY <1>8 DEF Keep, WriterCalls, WriterGoes, Exists, Renamed, ramOfBoot,
      ramOfWriter, TypeOK, Paths, ConfigPaths, BootSteps, Modes, WriteSteps,
      AskSteps, FilesFollowSteps, Serial, IInv, RunningIsStored, Effective
<1>9. CASE Clean
  BY <1>9 DEF Clean, WriterCalls, WriterGoes, Exists, Removed, ramOfBoot,
      ramOfWriter, TypeOK, Paths, ConfigPaths, BootSteps, Modes, WriteSteps,
      AskSteps, FilesFollowSteps, Serial, IInv, RunningIsStored, Effective
<1>10. CASE Open
  BY <1>10 DEF Open, WriterCalls, ramOfBoot, ramOfWriter, TypeOK, Paths,
      ConfigPaths, BootSteps, Modes, WriteSteps, AskSteps, FilesFollowSteps,
      Serial, Exists, IInv, RunningIsStored, Effective
<1>11. CASE Fill
  BY <1>11 DEF Fill, AfterReadBack, ramOfBoot, ramOfWriter, TypeOK, Paths,
      ConfigPaths, BootSteps, Modes, WriteSteps, AskSteps, FilesFollowSteps,
      Serial, Exists, IInv, RunningIsStored, Effective
<1>12. CASE Spare
  BY <1>12 DEF Spare, WriterCalls, WriterGoes, Exists, Removed, ramOfBoot,
      ramOfWriter, TypeOK, Paths, ConfigPaths, BootSteps, Modes, WriteSteps,
      AskSteps, FilesFollowSteps, Serial, IInv, RunningIsStored, Effective
<1>13. CASE Retire
  BY <1>13 DEF Retire, WriterCalls, WriterGoes, Exists, Renamed, ramOfBoot,
      ramOfWriter, TypeOK, Paths, ConfigPaths, BootSteps, Modes, WriteSteps,
      AskSteps, FilesFollowSteps, Serial, IInv, RunningIsStored, Effective
<1>14. CASE Commit
  BY <1>14 DEF Commit, Exists, Renamed, ramOfBoot, ramOfWriter, TypeOK, Paths,
      ConfigPaths, BootSteps, Modes, WriteSteps, AskSteps, FilesFollowSteps,
      Serial, IInv, RunningIsStored, Effective
<1>15. CASE Undo
  BY <1>15 DEF Undo, WriterCalls, WriterGoes, Exists, Renamed, ramOfBoot,
      ramOfWriter, TypeOK, Paths, ConfigPaths, BootSteps, Modes, WriteSteps,
      AskSteps, FilesFollowSteps, Serial, IInv, RunningIsStored, Effective
<1>16. CASE BeginReset("temporary")
  BY <1>16 DEF BeginReset, Alone, ramOfBoot, ramOfWriter, TypeOK, Paths,
      ConfigPaths, BootSteps, Modes, WriteSteps, AskSteps, FilesFollowSteps,
      Serial, Exists, IInv, RunningIsStored, Effective
<1>17. CASE BeginReset("openMode")
  BY <1>17 DEF BeginReset, Alone, ramOfBoot, ramOfWriter, TypeOK, Paths,
      ConfigPaths, BootSteps, Modes, WriteSteps, AskSteps, FilesFollowSteps,
      Serial, Exists, IInv, RunningIsStored, Effective
<1>18. CASE EraseFile
  BY <1>18 DEF EraseFile, ResetterCalls, Exists, Removed, EraseOrder,
      ramOfBoot, ramOfWriter, TypeOK, Paths, ConfigPaths, BootSteps, Modes,
      WriteSteps, AskSteps, FilesFollowSteps, Serial, IInv, RunningIsStored,
      Effective
<1>19. CASE OpenNextMode
  BY <1>19 DEF OpenNextMode, ResetterCalls, ramOfBoot, ramOfWriter, TypeOK,
      Paths, ConfigPaths, BootSteps, Modes, WriteSteps, AskSteps,
      FilesFollowSteps, Serial, Exists, IInv, RunningIsStored, Effective
<1>20. CASE WriteNextMode
  BY <1>20 DEF WriteNextMode, ResetterCalls, ramOfBoot, ramOfWriter, TypeOK,
      Paths, ConfigPaths, BootSteps, Modes, WriteSteps, AskSteps,
      FilesFollowSteps, Serial, Exists, IInv, RunningIsStored, Effective
<1>21. CASE ReadNextModeBack
  BY <1>21 DEF ReadNextModeBack, ramOfBoot, ramOfWriter, TypeOK, Paths,
      ConfigPaths, BootSteps, Modes, WriteSteps, AskSteps, FilesFollowSteps,
      Serial, Exists, IInv, RunningIsStored, Effective
<1>22. CASE Restart
  BY <1>22 DEF Restart, Reboot, ramOfBoot, ramOfWriter, TypeOK, Paths,
      ConfigPaths, BootSteps, Modes, WriteSteps, AskSteps, FilesFollowSteps,
      Serial, Exists, IInv, RunningIsStored, Effective
<1>23. CASE PowerFails
  BY <1>23 DEF PowerFails, Reboot, ramOfBoot, ramOfWriter, TypeOK, Paths,
      ConfigPaths, BootSteps, Modes, WriteSteps, AskSteps, FilesFollowSteps,
      Serial, Exists, IInv, RunningIsStored, Effective
<1> QED
  BY <1>1, <1>2, <1>3, <1>4, <1>5, <1>6, <1>7, <1>8, <1>9, <1>10, <1>11,
      <1>12, <1>13, <1>14, <1>15, <1>16, <1>17, <1>18, <1>19, <1>20, <1>21,
      <1>22, <1>23
     DEF Next, Boot, Save, Reset

\* The invariant of a device that is switched on, ...
LEMMA IInvInit ==
  ASSUME ConfigStoreAssumption, Init
  PROVE  IInv
<1>1. TypeOK
  BY DEF ConfigStoreAssumption, Init, TypeOK, Paths, ConfigPaths, BootSteps,
         Modes, WriteSteps, AskSteps
<1>2. FilesFollowSteps
  BY DEF Init, FilesFollowSteps, Serial, Exists, BootSteps, Modes
<1>3. RunningIsStored
  BY DEF Init, RunningIsStored
<1> QED BY <1>1, <1>2, <1>3 DEF IInv

\* ... and of every step it takes.
LEMMA IInvStep ==
  ASSUME ConfigStoreAssumption, IInv, [Next]_vars
  PROVE  IInv'
<1>1. CASE Next
  <2>1. TypeOK'
    <3>1. Flags' BY <1>1, FlagsStep, TypeParts DEF IInv
    <3>2. Values' BY <1>1, ValuesStep, TypeParts DEF IInv
    <3>3. TypeOK' <=> Flags' /\ Values' BY DEF TypeOK, Flags, Values
    <3> QED BY <3>1, <3>2, <3>3
  <2>2. FilesFollowSteps' BY <1>1, FilesStep DEF IInv
  <2>3. RunningIsStored' BY <1>1, RunningStep
  <2> QED BY <2>1, <2>2, <2>3 DEF IInv
<1>2. CASE UNCHANGED vars
  BY <1>2 DEF IInv, vars, TypeOK, FilesFollowSteps, Serial, Exists,
              RunningIsStored, Effective
<1> QED BY <1>1, <1>2

-----------------------------------------------------------------------------
\* The inductive invariant holds in every reachable state.
THEOREM Invariance == ASSUME ConfigStoreAssumption PROVE Spec => []IInv
BY IInvInit, IInvStep, PTL DEF Spec

\* Every variable keeps its type.
THEOREM TypeCorrect == ASSUME ConfigStoreAssumption PROVE Spec => []TypeOK
<1>1. IInv => TypeOK BY DEF IInv
<1> QED BY <1>1, Invariance, PTL

\* The new configuration is complete before the old one moves, and each file
\* is there when a later step relies on it.
THEOREM FilesAreInStep ==
  ASSUME ConfigStoreAssumption PROVE Spec => []FilesFollowSteps
<1>1. IInv => FilesFollowSteps BY DEF IInv
<1> QED BY <1>1, Invariance, PTL

\* Normal mode runs what a reboot would load, on either platform.
THEOREM NormalModeRunsTheStore ==
  ASSUME ConfigStoreAssumption PROVE Spec => []RunningIsStored
<1>1. IInv => RunningIsStored BY DEF IInv
<1> QED BY <1>1, Invariance, PTL

\* With one task at the filesystem, the files implement the atomic store:
\* torn writes, refused calls and power failures included.
THEOREM StorageRefines ==
  ASSUME ConfigStoreAssumption, ~TwoTasks
  PROVE  Spec => StorageIsAtomic
<1>1. Init => Atomic!Init BY RefinementInit
<1>2. IInv /\ [Next]_vars => [Atomic!Next]_(Atomic!vars)
  <2>1. CASE Next
    BY <2>1, RefinementStep DEF IInv
  <2>2. CASE UNCHANGED vars
    BY <2>2 DEF vars, Atomic!vars, Effective, Damaged, RequestInProgress
  <2> QED BY <2>1, <2>2
<1> QED BY <1>1, <1>2, Invariance, PTL DEF Spec, Atomic!Spec, StorageIsAtomic

\* With one task at the filesystem, an acknowledged factory reset has left
\* nothing behind.
THEOREM FactoryResetIsComplete ==
  ASSUME ConfigStoreAssumption, ~TwoTasks
  PROVE  Spec => []FactoryResetLeavesNothing
<1>1. IInv => FactoryResetLeavesNothing
  BY DEF IInv, FilesFollowSteps, Serial, FactoryResetLeavesNothing, Exists,
         Paths, ConfigPaths
<1> QED BY <1>1, Invariance, PTL

\* No step changes a configuration file after a failed recovery.
LEMMA FrozenFilesStep ==
  ASSUME ConfigStoreAssumption, TypeOK, FilesFollowSteps, Next
  PROVE  (loaded = "failed" /\ resetter = "idle")
           => \A p \in ConfigPaths : files'[p] = files[p]
<1> USE DEF ConfigStoreAssumption
<1>1. CASE ReadNextMode
  BY <1>1 DEF ReadNextMode, ramOfBoot, ramOfWriter, TypeOK, Paths,
      ConfigPaths, Modes, BootSteps, FilesFollowSteps, Serial
<1>2. CASE ClearNextMode
  BY <1>2 DEF ClearNextMode, Removed, ramOfBoot, ramOfWriter, TypeOK, Paths,
      ConfigPaths, Modes, BootSteps, FilesFollowSteps, Serial
<1>3. CASE Load
  BY <1>3 DEF Load, Validations, AfterValidation, Exists, ramOfBoot,
      ramOfWriter, TypeOK, Paths, ConfigPaths, Modes, BootSteps,
      FilesFollowSteps, Serial
<1>4. CASE Discard
  BY <1>4 DEF Discard, Removed, ramOfBoot, ramOfWriter, TypeOK, Paths,
      ConfigPaths, Modes, BootSteps, FilesFollowSteps, Serial
<1>5. CASE Promote
  BY <1>5 DEF Promote, Renamed, ramOfBoot, ramOfWriter, TypeOK, Paths,
      ConfigPaths, Modes, BootSteps, FilesFollowSteps, Serial
<1>6. CASE Select
  BY <1>6 DEF Select, SelectedMode, ramOfBoot, ramOfWriter, TypeOK, Paths,
      ConfigPaths, Modes, BootSteps, FilesFollowSteps, Serial
<1>7. CASE \E c \in Configs : BeginSave(c)
  BY <1>7 DEF BeginSave, Alone, WritesBlocked, Mergeable, ramOfBoot,
      ramOfWriter, TypeOK, Paths, ConfigPaths, Modes, BootSteps,
      FilesFollowSteps, Serial
<1>8. CASE Keep
  BY <1>8 DEF Keep, WriterCalls, WriterGoes, Exists, Renamed, ramOfBoot,
      ramOfWriter, TypeOK, Paths, ConfigPaths, Modes, BootSteps,
      FilesFollowSteps, Serial
<1>9. CASE Clean
  BY <1>9 DEF Clean, WriterCalls, WriterGoes, Exists, Removed, ramOfBoot,
      ramOfWriter, TypeOK, Paths, ConfigPaths, Modes, BootSteps,
      FilesFollowSteps, Serial
<1>10. CASE Open
  BY <1>10 DEF Open, WriterCalls, ramOfBoot, ramOfWriter, TypeOK, Paths,
      ConfigPaths, Modes, BootSteps, FilesFollowSteps, Serial
<1>11. CASE Fill
  BY <1>11 DEF Fill, AfterReadBack, ramOfBoot, ramOfWriter, TypeOK, Paths,
      ConfigPaths, Modes, BootSteps, FilesFollowSteps, Serial
<1>12. CASE Spare
  BY <1>12 DEF Spare, WriterCalls, WriterGoes, Exists, Removed, ramOfBoot,
      ramOfWriter, TypeOK, Paths, ConfigPaths, Modes, BootSteps,
      FilesFollowSteps, Serial
<1>13. CASE Retire
  BY <1>13 DEF Retire, WriterCalls, WriterGoes, Exists, Renamed, ramOfBoot,
      ramOfWriter, TypeOK, Paths, ConfigPaths, Modes, BootSteps,
      FilesFollowSteps, Serial
<1>14. CASE Commit
  BY <1>14 DEF Commit, Exists, Renamed, ramOfBoot, ramOfWriter, TypeOK, Paths,
      ConfigPaths, Modes, BootSteps, FilesFollowSteps, Serial
<1>15. CASE Undo
  BY <1>15 DEF Undo, WriterCalls, WriterGoes, Exists, Renamed, ramOfBoot,
      ramOfWriter, TypeOK, Paths, ConfigPaths, Modes, BootSteps,
      FilesFollowSteps, Serial
<1>16. CASE BeginReset("temporary")
  BY <1>16 DEF BeginReset, Alone, ramOfBoot, ramOfWriter, TypeOK, Paths,
      ConfigPaths, Modes, BootSteps, FilesFollowSteps, Serial
<1>17. CASE BeginReset("openMode")
  BY <1>17 DEF BeginReset, Alone, ramOfBoot, ramOfWriter, TypeOK, Paths,
      ConfigPaths, Modes, BootSteps, FilesFollowSteps, Serial
<1>18. CASE EraseFile
  BY <1>18 DEF EraseFile, ResetterCalls, Exists, Removed, EraseOrder,
      ramOfBoot, ramOfWriter, TypeOK, Paths, ConfigPaths, Modes, BootSteps,
      FilesFollowSteps, Serial
<1>19. CASE OpenNextMode
  BY <1>19 DEF OpenNextMode, ResetterCalls, ramOfBoot, ramOfWriter, TypeOK,
      Paths, ConfigPaths, Modes, BootSteps, FilesFollowSteps, Serial
<1>20. CASE WriteNextMode
  BY <1>20 DEF WriteNextMode, ResetterCalls, ramOfBoot, ramOfWriter, TypeOK,
      Paths, ConfigPaths, Modes, BootSteps, FilesFollowSteps, Serial
<1>21. CASE ReadNextModeBack
  BY <1>21 DEF ReadNextModeBack, ramOfBoot, ramOfWriter, TypeOK, Paths,
      ConfigPaths, Modes, BootSteps, FilesFollowSteps, Serial
<1>22. CASE Restart
  BY <1>22 DEF Restart, Reboot, ramOfBoot, ramOfWriter, TypeOK, Paths,
      ConfigPaths, Modes, BootSteps, FilesFollowSteps, Serial
<1>23. CASE PowerFails
  BY <1>23 DEF PowerFails, Reboot, ramOfBoot, ramOfWriter, TypeOK, Paths,
      ConfigPaths, Modes, BootSteps, FilesFollowSteps, Serial
<1> QED
  BY <1>1, <1>2, <1>3, <1>4, <1>5, <1>6, <1>7, <1>8, <1>9, <1>10, <1>11,
      <1>12, <1>13, <1>14, <1>15, <1>16, <1>17, <1>18, <1>19, <1>20, <1>21,
      <1>22, <1>23
     DEF Next, Boot, Save, Reset

\* A recovery that failed blocks every change but an erase.
THEOREM FailedRecoveryBlocks ==
  ASSUME ConfigStoreAssumption PROVE Spec => FailedRecoveryFreezesFiles
<1>1. IInv /\ [Next]_vars =>
        [(loaded = "failed" /\ resetter = "idle")
           => \A p \in ConfigPaths : files'[p] = files[p]]_vars
  BY FrozenFilesStep DEF IInv
<1> QED BY <1>1, Invariance, PTL DEF Spec, FailedRecoveryFreezesFiles

\* No step but the last of an erase changes the primary, with one task.
LEMMA KeptConfigStep ==
  ASSUME ConfigStoreAssumption, ~TwoTasks, TypeOK, FilesFollowSteps, Next
  PROVE  (resetter \in Paths /\ resetter' # "erased")
           => (files'["config"] = files["config"])
<1> USE DEF ConfigStoreAssumption
<1>1. CASE ReadNextMode
  BY <1>1 DEF ReadNextMode, ramOfBoot, ramOfWriter, TypeOK, Paths,
      ConfigPaths, Modes, BootSteps, FilesFollowSteps, Serial
<1>2. CASE ClearNextMode
  BY <1>2 DEF ClearNextMode, Removed, ramOfBoot, ramOfWriter, TypeOK, Paths,
      ConfigPaths, Modes, BootSteps, FilesFollowSteps, Serial
<1>3. CASE Load
  BY <1>3 DEF Load, Validations, AfterValidation, Exists, ramOfBoot,
      ramOfWriter, TypeOK, Paths, ConfigPaths, Modes, BootSteps,
      FilesFollowSteps, Serial
<1>4. CASE Discard
  BY <1>4 DEF Discard, Removed, ramOfBoot, ramOfWriter, TypeOK, Paths,
      ConfigPaths, Modes, BootSteps, FilesFollowSteps, Serial
<1>5. CASE Promote
  BY <1>5 DEF Promote, Renamed, ramOfBoot, ramOfWriter, TypeOK, Paths,
      ConfigPaths, Modes, BootSteps, FilesFollowSteps, Serial
<1>6. CASE Select
  BY <1>6 DEF Select, SelectedMode, ramOfBoot, ramOfWriter, TypeOK, Paths,
      ConfigPaths, Modes, BootSteps, FilesFollowSteps, Serial
<1>7. CASE \E c \in Configs : BeginSave(c)
  BY <1>7 DEF BeginSave, Alone, WritesBlocked, Mergeable, ramOfBoot,
      ramOfWriter, TypeOK, Paths, ConfigPaths, Modes, BootSteps,
      FilesFollowSteps, Serial
<1>8. CASE Keep
  BY <1>8 DEF Keep, WriterCalls, WriterGoes, Exists, Renamed, ramOfBoot,
      ramOfWriter, TypeOK, Paths, ConfigPaths, Modes, BootSteps,
      FilesFollowSteps, Serial
<1>9. CASE Clean
  BY <1>9 DEF Clean, WriterCalls, WriterGoes, Exists, Removed, ramOfBoot,
      ramOfWriter, TypeOK, Paths, ConfigPaths, Modes, BootSteps,
      FilesFollowSteps, Serial
<1>10. CASE Open
  BY <1>10 DEF Open, WriterCalls, ramOfBoot, ramOfWriter, TypeOK, Paths,
      ConfigPaths, Modes, BootSteps, FilesFollowSteps, Serial
<1>11. CASE Fill
  BY <1>11 DEF Fill, AfterReadBack, ramOfBoot, ramOfWriter, TypeOK, Paths,
      ConfigPaths, Modes, BootSteps, FilesFollowSteps, Serial
<1>12. CASE Spare
  BY <1>12 DEF Spare, WriterCalls, WriterGoes, Exists, Removed, ramOfBoot,
      ramOfWriter, TypeOK, Paths, ConfigPaths, Modes, BootSteps,
      FilesFollowSteps, Serial
<1>13. CASE Retire
  BY <1>13 DEF Retire, WriterCalls, WriterGoes, Exists, Renamed, ramOfBoot,
      ramOfWriter, TypeOK, Paths, ConfigPaths, Modes, BootSteps,
      FilesFollowSteps, Serial
<1>14. CASE Commit
  BY <1>14 DEF Commit, Exists, Renamed, ramOfBoot, ramOfWriter, TypeOK, Paths,
      ConfigPaths, Modes, BootSteps, FilesFollowSteps, Serial
<1>15. CASE Undo
  BY <1>15 DEF Undo, WriterCalls, WriterGoes, Exists, Renamed, ramOfBoot,
      ramOfWriter, TypeOK, Paths, ConfigPaths, Modes, BootSteps,
      FilesFollowSteps, Serial
<1>16. CASE BeginReset("temporary")
  BY <1>16 DEF BeginReset, Alone, ramOfBoot, ramOfWriter, TypeOK, Paths,
      ConfigPaths, Modes, BootSteps, FilesFollowSteps, Serial
<1>17. CASE BeginReset("openMode")
  BY <1>17 DEF BeginReset, Alone, ramOfBoot, ramOfWriter, TypeOK, Paths,
      ConfigPaths, Modes, BootSteps, FilesFollowSteps, Serial
<1>18. CASE EraseFile
  BY <1>18 DEF EraseFile, ResetterCalls, Exists, Removed, EraseOrder,
      ramOfBoot, ramOfWriter, TypeOK, Paths, ConfigPaths, Modes, BootSteps,
      FilesFollowSteps, Serial
<1>19. CASE OpenNextMode
  BY <1>19 DEF OpenNextMode, ResetterCalls, ramOfBoot, ramOfWriter, TypeOK,
      Paths, ConfigPaths, Modes, BootSteps, FilesFollowSteps, Serial
<1>20. CASE WriteNextMode
  BY <1>20 DEF WriteNextMode, ResetterCalls, ramOfBoot, ramOfWriter, TypeOK,
      Paths, ConfigPaths, Modes, BootSteps, FilesFollowSteps, Serial
<1>21. CASE ReadNextModeBack
  BY <1>21 DEF ReadNextModeBack, ramOfBoot, ramOfWriter, TypeOK, Paths,
      ConfigPaths, Modes, BootSteps, FilesFollowSteps, Serial
<1>22. CASE Restart
  BY <1>22 DEF Restart, Reboot, ramOfBoot, ramOfWriter, TypeOK, Paths,
      ConfigPaths, Modes, BootSteps, FilesFollowSteps, Serial
<1>23. CASE PowerFails
  BY <1>23 DEF PowerFails, Reboot, ramOfBoot, ramOfWriter, TypeOK, Paths,
      ConfigPaths, Modes, BootSteps, FilesFollowSteps, Serial
<1> QED
  BY <1>1, <1>2, <1>3, <1>4, <1>5, <1>6, <1>7, <1>8, <1>9, <1>10, <1>11,
      <1>12, <1>13, <1>14, <1>15, <1>16, <1>17, <1>18, <1>19, <1>20, <1>21,
      <1>22, <1>23
     DEF Next, Boot, Save, Reset

\* With one task at the filesystem, a reset that can still be cancelled has
\* not touched the configuration.
THEOREM CancellableEraseIsHarmless ==
  ASSUME ConfigStoreAssumption, ~TwoTasks
  PROVE  Spec => CancellableEraseKeepsConfig
<1>1. IInv /\ [Next]_vars =>
        [(resetter \in Paths /\ resetter' # "erased")
           => (files'["config"] = files["config"])]_vars
  BY KeptConfigStep DEF IInv
<1> QED BY <1>1, Invariance, PTL DEF Spec, CancellableEraseKeepsConfig

\* Where a configuration-only reset that was acknowledged has got to: its file
\* waits for the next boot, or this boot has read it.
PortalIsOwed ==
  owed =>
    IF phase \in Modes THEN resetter = "asked" /\ files["nextMode"] = Portal
    ELSE IF phase = "readMode" THEN files["nextMode"] = Portal
    ELSE portalRequested

\* No save touches NEXTMODE, and nothing but a restart follows the request.
LEMMA PortalOwedStep ==
  ASSUME ConfigStoreAssumption, IInv, PortalIsOwed, Next
  PROVE  PortalIsOwed'
<1> USE DEF ConfigStoreAssumption, IInv, TypeOK, PortalIsOwed
<1>1. CASE ReadNextMode
  BY <1>1 DEF ReadNextMode, ramOfBoot, ramOfWriter, Paths,
      ConfigPaths, Modes, BootSteps, AskSteps
<1>2. CASE ClearNextMode
  BY <1>2 DEF ClearNextMode, Removed, ramOfBoot, ramOfWriter, Paths,
      ConfigPaths, Modes, BootSteps, AskSteps
<1>3. CASE Load
  BY <1>3 DEF Load, AfterValidation, ramOfBoot, ramOfWriter, Paths,
      ConfigPaths, Modes, BootSteps, AskSteps
<1>4. CASE Discard
  BY <1>4 DEF Discard, Removed, ramOfBoot, ramOfWriter, Paths,
      ConfigPaths, Modes, BootSteps, AskSteps
<1>5. CASE Promote
  BY <1>5 DEF Promote, Renamed, ramOfBoot, ramOfWriter, Paths,
      ConfigPaths, Modes, BootSteps, AskSteps
<1>6. CASE Select
  BY <1>6 DEF Select, ramOfBoot, ramOfWriter, Paths, ConfigPaths,
      Modes, BootSteps, AskSteps
<1>7. CASE \E c \in Configs : BeginSave(c)
  BY <1>7 DEF BeginSave, ramOfBoot, ramOfWriter, Paths, ConfigPaths,
      Modes, BootSteps, AskSteps
<1>8. CASE Keep
  BY <1>8 DEF Keep, WriterCalls, WriterGoes, Renamed, ramOfBoot,
      ramOfWriter, Paths, ConfigPaths, Modes, BootSteps, AskSteps
<1>9. CASE Clean
  BY <1>9 DEF Clean, WriterCalls, WriterGoes, Removed, ramOfBoot,
      ramOfWriter, Paths, ConfigPaths, Modes, BootSteps, AskSteps
<1>10. CASE Open
  BY <1>10 DEF Open, WriterCalls, ramOfBoot, ramOfWriter, Paths,
      ConfigPaths, Modes, BootSteps, AskSteps
<1>11. CASE Fill
  BY <1>11 DEF Fill, ramOfBoot, ramOfWriter, Paths, ConfigPaths,
      Modes, BootSteps, AskSteps
<1>12. CASE Spare
  BY <1>12 DEF Spare, WriterCalls, WriterGoes, Removed, ramOfBoot,
      ramOfWriter, Paths, ConfigPaths, Modes, BootSteps, AskSteps
<1>13. CASE Retire
  BY <1>13 DEF Retire, WriterCalls, WriterGoes, Renamed, ramOfBoot,
      ramOfWriter, Paths, ConfigPaths, Modes, BootSteps, AskSteps
<1>14. CASE Commit
  BY <1>14 DEF Commit, Renamed, ramOfBoot, ramOfWriter, Paths,
      ConfigPaths, Modes, BootSteps, AskSteps
<1>15. CASE Undo
  BY <1>15 DEF Undo, WriterCalls, WriterGoes, Renamed, ramOfBoot,
      ramOfWriter, Paths, ConfigPaths, Modes, BootSteps, AskSteps
<1>16. CASE BeginReset("temporary")
  BY <1>16 DEF BeginReset, ramOfBoot, ramOfWriter, Paths,
      ConfigPaths, Modes, BootSteps, AskSteps
<1>17. CASE BeginReset("openMode")
  BY <1>17 DEF BeginReset, ramOfBoot, ramOfWriter, Paths,
      ConfigPaths, Modes, BootSteps, AskSteps
<1>18. CASE EraseFile
  BY <1>18 DEF EraseFile, FilesFollowSteps, ResetterCalls, Removed, ramOfBoot,
      ramOfWriter, Paths, ConfigPaths, Modes, BootSteps, AskSteps
<1>19. CASE OpenNextMode
  BY <1>19 DEF OpenNextMode, FilesFollowSteps, ResetterCalls, ramOfBoot,
      ramOfWriter, Paths, ConfigPaths, Modes, BootSteps, AskSteps
<1>20. CASE WriteNextMode
  BY <1>20 DEF WriteNextMode, ResetterCalls, ramOfBoot, ramOfWriter, Paths,
      ConfigPaths, Modes, BootSteps, AskSteps
<1>21. CASE ReadNextModeBack
  BY <1>21 DEF ReadNextModeBack, FilesFollowSteps, ramOfBoot, ramOfWriter, Paths,
      ConfigPaths, Modes, BootSteps, AskSteps
<1>22. CASE Restart
  BY <1>22 DEF Restart, Reboot, ramOfBoot, ramOfWriter, Paths,
      ConfigPaths, Modes, BootSteps, AskSteps
<1>23. CASE PowerFails
  BY <1>23 DEF PowerFails, Reboot, ramOfBoot, ramOfWriter, Paths,
      ConfigPaths, Modes, BootSteps, AskSteps
<1> QED
  BY <1>1, <1>2, <1>3, <1>4, <1>5, <1>6, <1>7, <1>8, <1>9, <1>10, <1>11,
      <1>12, <1>13, <1>14, <1>15, <1>16, <1>17, <1>18, <1>19, <1>20, <1>21,
      <1>22, <1>23
     DEF Next, Boot, Save, Reset

\* An acknowledged configuration-only reset opens the portal, with any number of
\* tasks at the filesystem and whatever a save was doing meanwhile.
THEOREM ConfigOnlyResetIsHonoured ==
  ASSUME ConfigStoreAssumption PROVE Spec => ConfigOnlyResetOpensPortal
<1>1. Init => PortalIsOwed
  BY DEF Init, PortalIsOwed
<1>2. IInv /\ PortalIsOwed /\ [Next]_vars => PortalIsOwed'
  <2>1. ASSUME UNCHANGED vars, PortalIsOwed PROVE PortalIsOwed'
    BY <2>1 DEF vars, PortalIsOwed
  <2> QED BY <2>1, PortalOwedStep
<1>3. IInv /\ PortalIsOwed /\ [Next]_vars =>
        [phase = "select" /\ phase' \in Modes /\ owed => phase' = "portal"]_vars
  <2> SUFFICES ASSUME IInv, PortalIsOwed, Next, phase = "select", owed,
                      phase' \in Modes
               PROVE  phase' = "portal"
    OBVIOUS
  <2>1. Select
    BY DEF Next, Boot, Save, Reset, ReadNextMode, ClearNextMode, Load, Discard,
        Promote, BeginSave, Keep, Clean, Open, Fill, Spare, Retire, Commit,
        Undo, WriterCalls, WriterGoes, BeginReset, EraseFile, ResetterCalls,
        OpenNextMode, WriteNextMode, ReadNextModeBack, Restart, PowerFails,
        Reboot, Modes
  <2> QED BY <2>1 DEF Select, SelectedMode, PortalIsOwed, Modes
<1> QED
  BY <1>1, <1>2, <1>3, Invariance, PTL DEF Spec, ConfigOnlyResetOpensPortal

=============================================================================

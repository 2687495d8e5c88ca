------------------------ MODULE StoreRecovery_proofs ------------------------
(***************************************************************************)
(* IInv is an inductive invariant of the store's recovery, for any number  *)
(* of backups but one, of migrations and of moments, on Unix and Windows.  *)
(***************************************************************************)
EXTENDS StoreRecovery, TLAPS

-----------------------------------------------------------------------------
(* Types.                                                                  *)

LEMMA FileTypes ==
  /\ NoFile \in File /\ Damaged \in File /\ Empty \in File
  /\ ~Sound(NoFile) /\ ~Sound(Damaged) /\ Sound(Empty)
BY StoreAssumption DEF NoFile, Damaged, Empty, File, Sound

LEMMA ProgramTypes ==
  /\ NotOpen \in Program /\ Ready \in Program
  /\ NotOpen.pc = "stopped" /\ NotOpen.task = "none"
  /\ Ready.pc = "ready" /\ Ready.task = "none"
BY StoreAssumption, FileTypes DEF NotOpen, Ready, Program, Times, Tasks, Pcs

LEMMA ProgramTyped ==
  ASSUME IInv, [Next]_vars
  PROVE  proc' \in Program
<1> USE StoreAssumption, ProgramTypes
<1> USE DEF IInv, TypeOK, On, Turn, Stop, Program, Pcs, Tasks, BackupPcs
<1>1. CASE Start
  BY <1>1 DEF Start
<1>2. CASE Verify
  BY <1>2 DEF Verify
<1>3. CASE Migrate
  BY <1>3 DEF Migrate
<1>4. CASE MigrationFails
  BY <1>4 DEF MigrationFails
<1>5. CASE Writes
  BY <1>5 DEF Writes
<1>6. CASE Checkpoint
  BY <1>6 DEF Checkpoint
<1>7. CASE Stage
  BY <1>7 DEF Stage
<1>8. CASE Copy
  BY <1>8 DEF Copy
<1>9. CASE Stamp
  <2>1. Backups \in 0..Backups
    BY SMT
  <2> QED BY <1>9, <2>1 DEF Stamp
<1>10. CASE Rotate
  <2>1. proc.at - 1 \in 0..Backups
    BY <1>10 DEF Rotate, RotationOK, Program
  <2> QED BY <1>10, <2>1 DEF Rotate
<1>11. CASE RotateStamp
  <2>1. proc.at - 1 \in 0..Backups
    BY <1>11 DEF RotateStamp, RotationOK, Program
  <2>2. 0 \in 0..Backups
    BY SMT
  <2>3. \/ proc' = [proc EXCEPT !.pc = "rotate", !.at = proc.at - 1]
        \/ proc' = [proc EXCEPT !.pc = "migrate", !.at = 0]
        \/ proc' = [proc EXCEPT !.pc = "preserve", !.at = 0]
        \/ proc' = Ready
    BY <1>11 DEF RotateStamp
  <2> QED BY <2>1, <2>2, <2>3
<1>12. CASE BackupFails
  BY <1>12 DEF BackupFails
<1>13. CASE \E i \in Slots : Recover(i)
  <2>1. PICK i \in Slots : Recover(i)
    BY <1>13
  <2>2. i \in 0..Backups /\ CreatedAt(i) \in {0} \cup Times
    BY StoreAssumption DEF CreatedAt, Slots
  <2> QED BY <2>1, <2>2 DEF Recover, Program
<1>14. CASE Preserve
  BY <1>14 DEF Preserve, Program
<1>15. CASE PreserveFails
  BY <1>15 DEF PreserveFails
<1>16. CASE Activate
  BY <1>16 DEF Activate
<1>17. CASE ActivateFails
  BY <1>17 DEF ActivateFails
<1>18. CASE Confirm
  BY <1>18 DEF Confirm
<1>19. CASE ConfirmFails
  BY <1>19 DEF ConfirmFails
<1>20. CASE RollBack
  BY <1>20 DEF RollBack
<1>21. CASE RollBackFails
  BY <1>21 DEF RollBackFails
<1>22. CASE Crash
  BY <1>22 DEF Crash
<1>23. CASE Tick
  BY <1>23 DEF Tick
<1>24. CASE Damage
  BY <1>24 DEF Damage
<1>25. CASE Delete
  BY <1>25 DEF Delete
<1>26. CASE UNCHANGED vars
  BY <1>26 DEF vars
<1> QED BY <1>1, <1>2, <1>3, <1>4, <1>5, <1>6, <1>7, <1>8, <1>9, <1>10, <1>11, <1>12, <1>13, <1>14, <1>15, <1>16, <1>17, <1>18, <1>19, <1>20, <1>21, <1>22, <1>23, <1>24, <1>25, <1>26 DEF Next

\* The steps that touch neither the database nor what is owed.
LEMMA DatabaseLeft ==
  ASSUME \/ Verify \/ MigrationFails \/ Checkpoint \/ Stage \/ Copy \/ Stamp
         \/ Rotate \/ RotateStamp \/ BackupFails \/ (\E i \in Slots : Recover(i))
         \/ Preserve \/ PreserveFails \/ Confirm \/ ConfirmFails \/ Tick
         \/ UNCHANGED vars
  PROVE  active' = active /\ owed' = owed
BY DEF Verify, MigrationFails, Checkpoint, Stage, Copy, Stamp, Rotate, RotateStamp,
       BackupFails, Recover, Preserve, PreserveFails, Confirm, ConfirmFails, Tick, vars

LEMMA DatabaseTyped ==
  ASSUME IInv, [Next]_vars
  PROVE  active' \in File /\ owed' \subseteq Times
<1> USE StoreAssumption, FileTypes
<1> USE DEF IInv, TypeOK, On
<1>1. CASE Start
  BY <1>1 DEF Start
<1>2. CASE Migrate
  <2>1. active.schema < Schema
    BY <1>2 DEF Migrate, MigrationOK, TaskOK
  <2>2. active.schema + 1 \in 0..Schema
    BY <2>1 DEF File
  <2> QED BY <1>2, <2>2 DEF Migrate, File
<1>3. CASE Writes
  BY <1>3 DEF Writes, File
<1>4. CASE Activate
  BY <1>4 DEF Activate, Program
<1>5. CASE ActivateFails \/ RollBackFails \/ Crash \/ Damage \/ Delete
  BY <1>5 DEF ActivateFails, RollBackFails, Crash, Damage, Delete
<1>6. CASE RollBack
  BY <1>6 DEF RollBack, Program
<1> QED BY <1>1, <1>2, <1>3, <1>4, <1>5, <1>6, DatabaseLeft DEF Next

\* The steps that leave the backups alone.
LEMMA BackupsLeft ==
  ASSUME \/ Start \/ Verify \/ Migrate \/ MigrationFails \/ Writes \/ Checkpoint
         \/ (\E i \in Slots : Recover(i)) \/ Preserve \/ PreserveFails
         \/ Activate \/ ActivateFails \/ Confirm \/ ConfirmFails
         \/ RollBack \/ RollBackFails \/ Tick \/ Damage \/ Delete \/ UNCHANGED vars
  PROVE  UNCHANGED backupVars
BY DEF Start, Verify, Migrate, MigrationFails, Writes, Checkpoint, Recover, Preserve,
       PreserveFails, Activate, ActivateFails, Confirm, ConfirmFails, RollBack,
       RollBackFails, Tick, Damage, Delete, vars, backupVars

LEMMA BackupsTyped ==
  ASSUME IInv, [Next]_vars
  PROVE  /\ backup' \in [0..Backups -> File]
         /\ captured' \in [0..Backups -> {0} \cup Times]
         /\ stamp' \in [0..1 -> {0} \cup Times]
<1> USE StoreAssumption, FileTypes
<1> USE DEF IInv, TypeOK, On
<1>1. CASE Stage
  BY <1>1 DEF Stage
<1>2. CASE Copy
  <2>1. Source \in File
    BY DEF Source, Program
  <2> QED BY <1>2, <2>1 DEF Copy
<1>3. CASE Stamp
  BY <1>3 DEF Stamp
<1>4. CASE Rotate
  <2>1. proc.at \in 0..Backups /\ proc.at - 1 \in 0..Backups
    BY <1>4 DEF Rotate, RotationOK, Program
  <2> QED BY <1>4, <2>1 DEF Rotate
<1>5. CASE RotateStamp
  BY <1>5 DEF RotateStamp
<1>6. CASE BackupFails \/ Crash
  <2>1. CutShort
    BY <1>6 DEF BackupFails, Crash
  <2> QED BY <2>1 DEF CutShort
<1>7. CASE UNCHANGED backupVars
  BY <1>7 DEF backupVars
<1> QED BY <1>1, <1>2, <1>3, <1>4, <1>5, <1>6, <1>7, BackupsLeft DEF Next

LEMMA TypesKept ==
  ASSUME IInv, [Next]_vars
  PROVE  TypeOK'
<1>1. clock' \in Times /\ losses' \in 0..MaxLosses
  <2> USE StoreAssumption DEF IInv, TypeOK, Times
  <2>1. CASE Tick
    BY <2>1 DEF Tick
  <2>2. CASE Damage \/ Delete
    BY <2>2 DEF Damage, Delete
  <2>3. CASE UNCHANGED envVars
    BY <2>3 DEF envVars
  <2>4. CASE UNCHANGED vars
    BY <2>4 DEF vars
  <2> QED
    BY <2>1, <2>2, <2>3, <2>4
    DEF Next, Start, Verify, Migrate, MigrationFails, Writes, Checkpoint, Stage, Copy,
        Stamp, Rotate, RotateStamp, BackupFails, Recover, Preserve, PreserveFails,
        Activate, ActivateFails, Confirm, ConfirmFails, RollBack, RollBackFails, Crash
<1> QED BY <1>1, ProgramTyped, DatabaseTyped, BackupsTyped DEF TypeOK

-----------------------------------------------------------------------------
(* The programs and the backups.                                           *)

LEMMA TasksKept ==
  ASSUME IInv, [Next]_vars
  PROVE  TaskOK'
<1> USE ProgramTypes
<1> USE DEF IInv, TypeOK, TaskOK, On, Turn, Stop, Program, BackupPcs
<1>1. CASE Start \/ Verify \/ Migrate \/ MigrationFails \/ Writes \/ Checkpoint
  BY <1>1 DEF Start, Verify, Migrate, MigrationFails, Writes, Checkpoint
<1>2. CASE Stage \/ Copy \/ Stamp \/ Rotate \/ BackupFails
  BY <1>2 DEF Stage, Copy, Stamp, Rotate, BackupFails
<1>3. CASE RotateStamp
  BY <1>3 DEF RotateStamp
<1>4. CASE (\E i \in Slots : Recover(i)) \/ Preserve \/ PreserveFails
  BY <1>4 DEF Recover, Preserve, PreserveFails
<1>5. CASE Activate \/ ActivateFails \/ Confirm \/ ConfirmFails \/ RollBack \/ RollBackFails
  BY <1>5 DEF Activate, ActivateFails, Confirm, ConfirmFails, RollBack, RollBackFails
<1>6. CASE Crash \/ Tick \/ Damage \/ Delete \/ UNCHANGED vars
  BY <1>6 DEF Crash, Tick, Damage, Delete, vars
<1> QED BY <1>1, <1>2, <1>3, <1>4, <1>5, <1>6 DEF Next

LEMMA RotationKept ==
  ASSUME IInv, [Next]_vars
  PROVE  RotationOK' /\ SlotsValid'
<1> USE StoreAssumption, FileTypes, ProgramTypes
<1> USE DEF IInv, TypeOK, RotationOK, SlotsValid, On, Turn, Stop, Slots
<1>1. CASE Stage
  BY <1>1 DEF Stage, Program
<1>2. CASE Copy
  BY <1>2 DEF Copy, Program
<1>3. CASE Stamp
  BY <1>3 DEF Stamp, Program
<1>4. CASE Rotate
  <2> DEFINE i == proc.at
  <2>1. i \in 1..Backups /\ i - 1 \in 0..Backups
    BY <1>4 DEF Rotate, Program
  <2>2. CASE backup[i - 1] = NoFile
    <3>1. /\ backup' = backup /\ i > 1
          /\ proc'.pc = "rotate" /\ proc'.at = i - 1
      BY <1>4, <2>1, <2>2 DEF Rotate, Program
    <3> QED BY <1>4, <2>1, <2>2, <3>1 DEF Rotate
  <2>3. CASE backup[i - 1] # NoFile
    <3>1. /\ backup'[i] = backup[i - 1] /\ backup'[i - 1] = NoFile
          /\ \A j \in 0..Backups : j # i /\ j # i - 1 => backup'[j] = backup[j]
          /\ proc'.pc = "rotate_stamp" /\ proc'.at = i
      BY <1>4, <2>1, <2>3 DEF Rotate, Program
    <3>2. backup[i - 1] # Damaged
      BY <1>4, <2>1 DEF Rotate
    <3>3. NoFile # Damaged
      BY DEF NoFile, Damaged
    <3>4. SlotsValid'
      BY <2>1, <3>1, <3>2, <3>3
    <3>5. RotationOK'
      BY <1>4, <2>1, <3>1, SMTT(30) DEF Rotate
    <3> QED BY <3>4, <3>5
  <2> QED BY <2>2, <2>3
<1>5. CASE RotateStamp
  <2>1. proc.at \in 1..Backups
    BY <1>5 DEF RotateStamp, Program
  <2>2. /\ backup' = backup
        /\ \/ proc.at > 1 /\ proc'.pc = "rotate" /\ proc'.at = proc.at - 1
           \/ proc'.pc \in {"migrate", "preserve", "ready"}
    BY <1>5, <2>1 DEF RotateStamp, Program
  <2> QED BY <1>5, <2>1, <2>2 DEF RotateStamp
<1>6. CASE BackupFails \/ Crash
  <2>1. proc'.pc \in {"stopped", "ready"}
    BY <1>6 DEF BackupFails, Crash
  <2>2. \A j \in Slots : backup'[j] \in {backup[j], NoFile}
    BY <1>6 DEF BackupFails, Crash, CutShort
  <2>3. NoFile # Damaged
    BY DEF NoFile, Damaged
  <2> QED BY <2>1, <2>2, <2>3
<1>7. CASE UNCHANGED backupVars /\ proc'.pc \notin {"rotate", "rotate_stamp"}
  BY <1>7 DEF backupVars
<1>8. CASE UNCHANGED backupVars /\ proc' = proc
  BY <1>8 DEF backupVars
<1>9. CASE Start \/ Verify \/ Checkpoint \/ Migrate \/ MigrationFails \/ Confirm
  BY <1>7, <1>8, <1>9, BackupsLeft
  DEF Start, Verify, Checkpoint, Migrate, MigrationFails, Confirm, Program
<1>10. CASE (\E i \in Slots : Recover(i)) \/ Preserve \/ PreserveFails
  BY <1>7, <1>10, BackupsLeft DEF Recover, Preserve, PreserveFails, Program
<1>11. CASE Activate \/ ActivateFails \/ ConfirmFails \/ RollBack \/ RollBackFails
  BY <1>7, <1>11, BackupsLeft
  DEF Activate, ActivateFails, ConfirmFails, RollBack, RollBackFails, Program
<1>12. CASE Writes \/ Tick \/ Damage \/ Delete \/ UNCHANGED vars
  BY <1>8, <1>12, BackupsLeft DEF Writes, Tick, Damage, Delete, vars
<1> QED
  BY <1>1, <1>2, <1>3, <1>4, <1>5, <1>6, <1>9, <1>10, <1>11, <1>12 DEF Next

\* What a step of the running backup does with the copy it made: it is the
\* source, it stays where it is or takes its place, and it is backup-1 at the end.
LEMMA CopyFollowed ==
  ASSUME IInv
  PROVE  /\ Copy => backup'[0] = Source /\ CopyAt' = 0
         /\ Stamp => backup'[CopyAt'] = backup[0] /\ CopyAt = 0
         /\ Rotate => backup'[CopyAt'] = backup[CopyAt]
         /\ RotateStamp => backup'[CopyAt'] = backup[CopyAt]
<1> USE StoreAssumption, FileTypes, ProgramTypes
<1> USE DEF IInv, TypeOK, On, Turn, CopyAt, RotationOK
<1>1. Copy => backup'[0] = Source /\ CopyAt' = 0
  BY DEF Copy, Program
<1>2. Stamp => backup'[CopyAt'] = backup[0] /\ CopyAt = 0
  BY DEF Stamp, Program
<1>3. ASSUME Rotate
      PROVE  backup'[CopyAt'] = backup[CopyAt]
  <2>1. proc.at \in 1..Backups /\ proc.at - 1 \in 0..Backups
    BY <1>3 DEF Rotate, Program
  <2>2. CASE backup[proc.at - 1] = NoFile
    BY <1>3, <2>1, <2>2 DEF Rotate, Program
  <2>3. CASE backup[proc.at - 1] # NoFile
    <3>1. proc'.pc = "rotate_stamp" /\ proc'.at = proc.at
      BY <1>3, <2>1, <2>3 DEF Rotate, Program
    <3>2. CASE proc.at = 1
      BY <1>3, <2>1, <2>3, <3>1, <3>2 DEF Rotate
    <3>3. CASE proc.at > 1
      BY <1>3, <2>1, <2>3, <3>1, <3>3 DEF Rotate
    <3> QED BY <2>1, <3>2, <3>3
  <2> QED BY <2>2, <2>3
<1>4. ASSUME RotateStamp
      PROVE  backup'[CopyAt'] = backup[CopyAt]
  <2>1. proc.at \in 1..Backups
    BY <1>4 DEF RotateStamp, Program
  <2>2. /\ backup' = backup
        /\ \/ proc.at > 1 /\ proc'.pc = "rotate"
           \/ proc.at = 1 /\ proc'.pc \in {"migrate", "preserve", "ready"}
    BY <1>4, <2>1 DEF RotateStamp, Program
  <2> QED BY <1>4, <2>1, <2>2 DEF RotateStamp
<1> QED BY <1>1, <1>2, <1>3, <1>4

LEMMA CandidateOKKept ==
  ASSUME IInv, [Next]_vars
  PROVE  CandidateOK'
<1> USE ProgramTypes
<1> USE DEF IInv, TypeOK, CandidateOK, On, Turn, Stop
<1>1. CASE proc'.task # "restore"
  BY <1>1
<1>2. CASE \E i \in Slots : Recover(i)
  BY <1>2 DEF Recover
<1>3. CASE Stage
  BY <1>3 DEF Stage, Source, Program
<1>4. CASE Copy
  BY <1>4, CopyFollowed DEF Copy, Source, Program
<1>5. CASE Stamp
  BY <1>5, CopyFollowed DEF Stamp, Program
<1>6. CASE Rotate
  BY <1>6, CopyFollowed DEF Rotate, Program
<1>7. CASE RotateStamp
  BY <1>7, CopyFollowed DEF RotateStamp, Program
<1>8. CASE Preserve
  BY <1>8, BackupsLeft DEF Preserve, CopyAt, backupVars, Program
<1>9. CASE Activate \/ ActivateFails \/ Confirm \/ ConfirmFails
  BY <1>9, BackupsLeft
  DEF Activate, ActivateFails, Confirm, ConfirmFails, CopyAt, backupVars, Program
<1>10. CASE Start \/ Verify \/ Migrate \/ MigrationFails \/ Writes \/ Checkpoint
  BY <1>1, <1>10
  DEF Start, Verify, Migrate, MigrationFails, Writes, Checkpoint, TaskOK, Program
<1>11. CASE BackupFails \/ PreserveFails \/ RollBack \/ RollBackFails \/ Crash
  BY <1>1, <1>11 DEF BackupFails, PreserveFails, RollBack, RollBackFails, Crash
<1>12. CASE Tick \/ Damage \/ Delete \/ UNCHANGED vars
  BY <1>12, BackupsLeft DEF Tick, Damage, Delete, vars, CopyAt, backupVars
<1> QED
  BY <1>2, <1>3, <1>4, <1>5, <1>6, <1>7, <1>8, <1>9, <1>10, <1>11, <1>12 DEF Next

LEMMA MigrationKept ==
  ASSUME IInv, [Next]_vars
  PROVE  MigrationOK' /\ MigrationBackedUp'
<1> USE ProgramTypes
<1> USE DEF IInv, TypeOK, TaskOK, MigrationOK, MigrationBackedUp, On, Turn, Stop
<1>1. CASE proc'.task # "open" /\ TaskOK'
  BY <1>1
<1>2. CASE proc'.pc = "verify"
  BY <1>2
<1>3. CASE Verify
  BY <1>1, <1>3, TasksKept DEF Verify, Program
<1>4. CASE Stage
  BY <1>4 DEF Stage, Program
<1>5. CASE Copy
  BY <1>5, CopyFollowed DEF Copy, Source, Program
<1>6. CASE Stamp
  BY <1>6, CopyFollowed DEF Stamp, CopyAt, Program
<1>7. CASE Rotate
  BY <1>7, CopyFollowed DEF Rotate, Program
<1>8. CASE RotateStamp
  <2>1. active' = active /\ backup'[CopyAt'] = backup[CopyAt]
    BY <1>8, CopyFollowed DEF RotateStamp
  <2>2. CASE proc'.pc = "migrate"
    <3>1. CopyAt' = 1 /\ proc.task = "open"
      BY <1>8, <2>2 DEF RotateStamp, CopyAt, Program
    <3>2. Sound(active) => backup'[1] = active /\ active.schema < Schema
      BY <1>8, <2>1, <3>1 DEF RotateStamp
    <3> QED BY <2>1, <2>2, <3>2, StoreAssumption DEF File
  <2>3. CASE proc'.pc # "migrate"
    BY <1>8, <2>1, <2>3 DEF RotateStamp, Program
  <2> QED BY <2>2, <2>3
<1>9. CASE Migrate
  <2>1. active.schema + 1 \in Nat /\ active.schema + 1 <= Schema
    BY <1>9, StoreAssumption DEF Migrate, File
  <2>2. CASE active.schema + 1 = Schema
    BY <1>9, <2>2 DEF Migrate
  <2>3. CASE active.schema + 1 # Schema
    <3>1. /\ active' = [active EXCEPT !.schema = active.schema + 1]
          /\ proc' = proc /\ backup' = backup
      BY <1>9, <2>3, BackupsLeft DEF Migrate, backupVars
    <3>2. backup[1] \in File
      BY StoreAssumption
    <3> QED BY <1>9, <2>1, <2>3, <3>1, <3>2, StoreAssumption DEF Migrate, File, Sound
  <2> QED BY <2>2, <2>3
<1>10. CASE Damage \/ Delete
  <2>1. ~Sound(active')
    BY <1>10, FileTypes DEF Damage, Delete, Sound
  <2> QED BY <2>1 DEF Sound
<1>11. CASE Tick \/ UNCHANGED vars
  BY <1>11, BackupsLeft DEF Tick, vars, CopyAt, backupVars
<1>12. CASE Start
  BY <1>2, <1>12 DEF Start
<1>13. CASE MigrationFails \/ Writes \/ Checkpoint \/ (\E i \in Slots : Recover(i)) \/ Preserve
  BY <1>1, <1>13, TasksKept DEF MigrationFails, Writes, Checkpoint, Recover, Preserve, Program
<1>14. CASE PreserveFails \/ Activate \/ ActivateFails \/ Confirm \/ ConfirmFails
  BY <1>1, <1>14, TasksKept
  DEF PreserveFails, Activate, ActivateFails, Confirm, ConfirmFails, Program
<1>15. CASE BackupFails \/ RollBack \/ RollBackFails \/ Crash
  BY <1>1, <1>15, TasksKept DEF BackupFails, RollBack, RollBackFails, Crash
<1> QED
  BY <1>3, <1>4, <1>5, <1>6, <1>7, <1>8, <1>9, <1>10, <1>11, <1>12, <1>13, <1>14, <1>15
  DEF Next

-----------------------------------------------------------------------------
(* The database.                                                           *)

LEMMA OwedKept ==
  ASSUME IInv, [Next]_vars
  PROVE  OwedOK'
<1> USE FileTypes, ProgramTypes
<1> USE DEF IInv, TypeOK, OwedOK, On, Turn, Stop, Sound
<1>1. SUFFICES ASSUME ~Windows
               PROVE  OwedOK'
  OBVIOUS
<1>2. CASE /\ active' = active /\ owed' = owed
           /\ \/ proc'.pc \notin {"activate", "confirm", "rollback"}
              \/ /\ proc.pc \in {"activate", "confirm", "rollback"}
                 /\ proc'.preserved = proc.preserved
  BY <1>1, <1>2
<1>3. CASE Start
  BY <1>1, <1>3 DEF Start, Empty
<1>4. CASE Migrate
  BY <1>1, <1>4 DEF Migrate, File
<1>5. CASE Writes
  BY <1>1, <1>5 DEF Writes, File
<1>6. CASE Preserve
  BY <1>1, <1>6 DEF Preserve, Program
<1>7. CASE Activate
  BY <1>1, <1>7 DEF Activate, CandidateOK, Program, TaskOK
<1>8. CASE ActivateFails
  BY <1>1, <1>8 DEF ActivateFails, Program
<1>9. CASE RollBack
  BY <1>1, <1>9 DEF RollBack
<1>10. CASE RollBackFails \/ Crash
  BY <1>1, <1>10 DEF RollBackFails, Crash
<1>11. CASE Damage
  BY <1>1, <1>11 DEF Damage, Damaged
<1>12. CASE Delete
  BY <1>1, <1>12 DEF Delete, NoFile
<1>13. CASE Verify \/ MigrationFails \/ Checkpoint \/ Stage \/ Copy \/ Stamp
  BY <1>2, <1>13, DatabaseLeft
  DEF Verify, MigrationFails, Checkpoint, Stage, Copy, Stamp, Program
<1>14. CASE Rotate \/ RotateStamp \/ BackupFails \/ (\E i \in Slots : Recover(i))
  BY <1>2, <1>14, DatabaseLeft DEF Rotate, RotateStamp, BackupFails, Recover, Program
<1>15. CASE PreserveFails \/ Confirm \/ ConfirmFails \/ Tick \/ UNCHANGED vars
  BY <1>2, <1>15, DatabaseLeft DEF PreserveFails, Confirm, ConfirmFails, Tick, vars, Program
<1> QED
  BY <1>3, <1>4, <1>5, <1>6, <1>7, <1>8, <1>9, <1>10, <1>11, <1>12, <1>13, <1>14, <1>15
  DEF Next

LEMMA DisplacedOKKept ==
  ASSUME IInv, [Next]_vars
  PROVE  DisplacedOK'
<1> USE FileTypes, ProgramTypes
<1> USE DEF IInv, TypeOK, TaskOK, DisplacedOK, On, Turn, Stop
<1>1. CASE proc'.pc \notin {"activate", "confirm", "rollback"}
  BY <1>1
<1>2. CASE Preserve
  BY <1>2 DEF Preserve, Program
<1>3. CASE Activate
  BY <1>3 DEF Activate, Program
<1>4. CASE ActivateFails
  BY <1>4 DEF ActivateFails, Program
<1>5. CASE Confirm \/ ConfirmFails
  BY <1>5 DEF Confirm, ConfirmFails, Program
<1>6. CASE Damage \/ Delete
  BY <1>6 DEF Damage, Delete
<1>7. CASE Tick \/ UNCHANGED vars
  BY <1>7 DEF Tick, vars
<1>8. CASE Start \/ Verify \/ Migrate \/ MigrationFails \/ Writes \/ Checkpoint
  BY <1>1, <1>8
  DEF Start, Verify, Migrate, MigrationFails, Writes, Checkpoint, Program
<1>9. CASE Stage \/ Copy \/ Stamp \/ Rotate \/ RotateStamp \/ BackupFails
  BY <1>1, <1>9 DEF Stage, Copy, Stamp, Rotate, RotateStamp, BackupFails, Program
<1>10. CASE (\E i \in Slots : Recover(i)) \/ PreserveFails \/ RollBack \/ RollBackFails \/ Crash
  BY <1>1, <1>10 DEF Recover, PreserveFails, RollBack, RollBackFails, Crash, Program
<1> QED
  BY <1>2, <1>3, <1>4, <1>5, <1>6, <1>7, <1>8, <1>9, <1>10 DEF Next

-----------------------------------------------------------------------------
(* The theorems.                                                           *)

LEMMA Initially ==
  ASSUME Init
  PROVE  IInv
<1> USE StoreAssumption, FileTypes, ProgramTypes
<1> USE DEF Init, On
<1>1. active \in File
  BY DEF File, Times
<1>2. TypeOK
  BY <1>1 DEF TypeOK, File, Times
<1>3. TaskOK /\ RotationOK /\ CandidateOK /\ MigrationOK /\ MigrationBackedUp /\ DisplacedOK
  BY DEF TaskOK, RotationOK, CandidateOK, MigrationOK, MigrationBackedUp, DisplacedOK, BackupPcs
<1>4. SlotsValid
  BY DEF SlotsValid, NoFile, Damaged, Slots
<1>5. OwedOK
  BY DEF OwedOK, NoFile, Sound
<1> QED BY <1>2, <1>3, <1>4, <1>5 DEF IInv

\* IInv holds in every state: each operation of the store and each failure in
\* the middle of one preserves it.
THEOREM RecoveryInvariance == Spec => []IInv
<1>1. IInv /\ [Next]_vars => IInv'
  BY TypesKept, TasksKept, RotationKept, CandidateOKKept, MigrationKept, OwedKept,
     DisplacedOKKept
  DEF IInv
<1> QED BY Initially, <1>1, PTL DEF Spec

\* Every variable of the store keeps its type.
THEOREM RecoveryTypes == Spec => []TypeOK
<1>1. IInv => TypeOK
  BY DEF IInv
<1> QED BY <1>1, RecoveryInvariance, PTL

\* No torn or damaged copy ever becomes a backup: the copy is inspected where
\* it is staged, and renamed into place whole.
THEOREM BackupsAreValid == Spec => []SlotsValid
<1>1. IInv => SlotsValid
  BY DEF IInv
<1> QED BY <1>1, RecoveryInvariance, PTL

\* A migration never runs without the database of before it in backup-1.
THEOREM MigrationsAreBackedUp == Spec => []MigrationBackedUp
<1>1. IInv => MigrationBackedUp
  BY DEF IInv
<1> QED BY <1>1, RecoveryInvariance, PTL

\* The candidate of a restore is among the backups from when it is copied, and
\* the newest of them from before the database is touched.
THEOREM CandidatesAreKept == Spec => []CandidateKept
<1>1. ASSUME IInv
      PROVE  CandidateKept
  <2>1. CopyAt \in 0..Backups
    BY StoreAssumption DEF CopyAt
  <2>2. proc.pc \in {"preserve", "activate", "confirm", "rollback"} => CopyAt = 1
    BY DEF CopyAt, On
  <2> QED BY <1>1, <2>1, <2>2 DEF IInv, CandidateOK, CandidateKept
<1> QED BY <1>1, RecoveryInvariance, PTL

\* Where a rename replaces its destination or leaves it, a service that is up
\* on a readable database has every change that nobody gave up.
THEOREM NoSilentResets == ASSUME ~Windows PROVE Spec => []NoSilentReset
<1>1. IInv => NoSilentReset
  BY DEF IInv, OwedOK, NoSilentReset
<1> QED BY <1>1, RecoveryInvariance, PTL

\* However many backups are interrupted, and wherever, the newest sound backup
\* stays in one of the slots.
THEOREM NewestIsKept == Spec => NewestKept
<1> DEFINE Newest(i) == Sound(backup[i]) /\ \A j \in 1..i - 1 : backup[j] = NoFile
<1>1. ASSUME IInv, [Next]_vars, NEW i \in Slots, Newest(i)
      PROVE  \E j \in Slots : backup'[j] = backup[i]
  <2> USE StoreAssumption, FileTypes
  <2> USE DEF IInv, TypeOK, RotationOK, On, Slots
  <2>1. CASE Rotate
    <3> DEFINE k == proc.at
    <3>1. k \in 1..Backups /\ k - 1 \in 0..Backups
      BY <1>1, <2>1 DEF Rotate, Program
    <3>2. CASE backup[k - 1] = NoFile
      BY <1>1, <2>1, <3>2 DEF Rotate
    <3>3. CASE backup[k - 1] # NoFile
      <4>1. /\ backup'[k] = backup[k - 1]
            /\ \A j \in Slots : j # k /\ j # k - 1 => backup'[j] = backup[j]
        BY <1>1, <2>1, <3>1, <3>3 DEF Rotate
      <4>2. k # i
        BY <1>1, <2>1, <3>1, <3>3, SMTT(30) DEF Rotate
      <4>3. CASE i = k - 1
        BY <3>1, <4>1, <4>3
      <4>4. CASE i # k - 1
        BY <4>1, <4>2, <4>4
      <4> QED BY <4>3, <4>4
    <3> QED BY <3>2, <3>3
  <2>2. CASE BackupFails \/ Crash
    <3>1. CutShort
      BY <2>2 DEF BackupFails, Crash
    <3>2. backup'[i] = backup[i] \/ (On("rotate") /\ i = proc.at /\ backup[i - 1] # NoFile)
      BY <3>1 DEF CutShort
    <3>3. ~(On("rotate") /\ i = proc.at /\ backup[i - 1] # NoFile)
      BY <1>1
    <3> QED BY <3>2, <3>3
  <2>3. CASE Stage \/ Copy
    BY <1>1, <2>3 DEF Stage, Copy
  <2>4. CASE Stamp \/ RotateStamp
    BY <1>1, <2>4 DEF Stamp, RotateStamp
  <2>5. CASE UNCHANGED backupVars
    BY <1>1, <2>5 DEF backupVars
  <2> QED BY <1>1, <2>1, <2>2, <2>3, <2>4, <2>5, BackupsLeft DEF Next
<1>2. IInv /\ [Next]_vars => [\A i \in Slots : Newest(i) => \E j \in Slots : backup'[j] = backup[i]]_vars
  BY <1>1
<1> QED BY <1>2, RecoveryInvariance, PTL DEF Spec, NewestKept

\* A restore and its rollback overwrite a readable database only when there is
\* an identical file left.
THEOREM DisplacedIsKept == Spec => DisplacedKept
<1>1. IInv /\ [Next]_vars =>
        [proc.task = "restore" /\ active' # active /\ Sound(active) /\ losses' = losses =>
            active \in {proc.preserved} \cup {backup[i] : i \in Slots}]_vars
  <2> SUFFICES ASSUME IInv, [Next]_vars, proc.task = "restore", active' # active,
                      Sound(active), losses' = losses
               PROVE  active \in {proc.preserved} \cup {backup[i] : i \in Slots}
    OBVIOUS
  <2> USE DEF IInv, TypeOK, TaskOK, On
  <2>1. proc.pc \in {"activate", "confirm", "rollback"} =>
           active \in {proc.preserved, backup[1]}
    BY DEF DisplacedOK, CandidateOK, CopyAt
  <2>2. 1 \in Slots
    BY StoreAssumption DEF Slots
  <2>3. Activate \/ ActivateFails \/ RollBack \/ RollBackFails \/ Crash
    BY DatabaseLeft, StoreAssumption
    DEF Next, Start, Migrate, Writes, Damage, Delete
  <2>4. proc.pc \in {"activate", "confirm", "rollback"}
    BY <2>3 DEF Activate, ActivateFails, RollBack, RollBackFails, Crash
  <2> QED BY <2>1, <2>2, <2>4
<1> QED BY <1>1, RecoveryInvariance, PTL DEF Spec, DisplacedKept
=============================================================================

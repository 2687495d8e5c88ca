---------------------------- MODULE StoreRecovery ----------------------------
(***************************************************************************)
(* The database file, its rotating backups, and the two programs that work *)
(* on them: the service, which opens, migrates and checkpoints the         *)
(* database (internal/store/store.go), and the recovery command, which     *)
(* restores a backup (internal/store/recovery.go).  Both hold the owner    *)
(* lock, so one runs at a time; either may fail or be killed between any   *)
(* two accesses to the disk.  An access that fails returns early, and what *)
(* the code then undoes is part of the failing action.                     *)
(***************************************************************************)
EXTENDS Naturals

CONSTANTS
    Backups,        \* RecoveryBackupCount
    Schema,         \* CurrentSchemaVersion
    Windows,        \* a replace that fails may have removed its destination
    MaxClock,       \* BOUND on the clock
    MaxLosses       \* BOUND on damages to the database from outside

ASSUME StoreAssumption ==
    /\ Backups \in Nat \ {0, 1}
    /\ Schema \in Nat \ {0}
    /\ Windows \in BOOLEAN
    /\ MaxClock \in Nat
    /\ MaxLosses \in Nat

VARIABLES
    active,         \* the database file
    backup,         \* backup[i] is the file of backup-i, and backup[0] the staged one
    captured,       \* captured[i] is its modification time, 0 without one
    stamp,          \* created_at in the metadata of the staged copy and of
                    \* backup-1, 0 without one
    proc,           \* the program that holds the owner lock
    clock,
    losses,
    owed            \* the changes nobody asked to give up

vars == <<active, backup, captured, stamp, proc, clock, losses, owed>>

Slots == 1..Backups
Times == 1..MaxClock + 1

\* A file is what inspect makes of it.  A database is its schema version and
\* the changes committed to it, each known by its time.
File == [kind : {"absent", "damaged", "database"}, schema : 0..Schema,
         changes : SUBSET Times]

NoFile  == [kind |-> "absent", schema |-> 0, changes |-> {}]
Damaged == [kind |-> "damaged", schema |-> 0, changes |-> {}]
Empty   == [kind |-> "database", schema |-> 0, changes |-> {}]

Sound(f) == f.kind = "database"

Tasks == {"none", "open", "checkpoint", "restore"}

Pcs == {"stopped", "verify", "backup", "copy", "stamp", "rotate", "rotate_stamp",
        "migrate", "ready", "preserve", "activate", "confirm", "rollback"}

\* The program, the slot its rotation is at, and what a restore has read so
\* far: its candidate, since when changes may be missing from it, and the copy
\* it made of the database (a displaced-* or damaged-* file, which nothing
\* removes and only this restore reads).
Program == [task : Tasks, pc : Pcs, at : 0..Backups, candidate : File,
            since : {0} \cup Times, preserved : File]

NotOpen == [task |-> "none", pc |-> "stopped", at |-> 0, candidate |-> NoFile,
            since |-> 0, preserved |-> NoFile]
Ready   == [NotOpen EXCEPT !.pc = "ready"]

\* A first installation, or a database left by this or an earlier version.
Init ==
    /\ active \in {NoFile} \cup
          [kind : {"database"}, schema : 1..Schema, changes : {{1}}]
    /\ backup = [i \in 0..Backups |-> NoFile]
    /\ captured = [i \in 0..Backups |-> 0]
    /\ stamp = [i \in 0..1 |-> 0]
    /\ proc = NotOpen
    /\ clock = 1
    /\ losses = 0
    /\ owed = active.changes

backupVars == <<backup, captured, stamp>>
envVars    == <<clock, losses>>

On(pc) == proc.pc = pc
Turn(pc) == proc' = [proc EXCEPT !.pc = pc]
Stop == proc' = NotOpen

-----------------------------------------------------------------------------
(* OpenWithOptions.                                                        *)

\* MUTANT: a database that cannot be read is made anew.
StartOverDamaged ==
    /\ On("stopped")
    /\ active' = IF Sound(active) THEN active ELSE Empty
    /\ proc' = [NotOpen EXCEPT !.task = "open", !.pc = "verify"]
    /\ UNCHANGED <<backupVars, envVars, owed>>

\* prepareDatabaseFile creates a missing file.
Start ==
    /\ On("stopped")
    /\ active' = IF active.kind = "absent" THEN Empty ELSE active
    /\ proc' = [NotOpen EXCEPT !.task = "open", !.pc = "verify"]
    /\ UNCHANGED <<backupVars, envVars, owed>>

Verify ==
    /\ On("verify")
    /\ IF Sound(active)
       THEN IF active.schema < Schema THEN Turn("backup") ELSE proc' = Ready
       ELSE Stop
    /\ UNCHANGED <<active, backupVars, envVars, owed>>

\* Each migration is a transaction, and the database is checked after it.
Migrate ==
    /\ On("migrate")
    /\ Sound(active)
    /\ active' = [active EXCEPT !.schema = @ + 1]
    /\ proc' = IF active.schema + 1 = Schema THEN Ready ELSE proc
    /\ UNCHANGED <<backupVars, envVars, owed>>

MigrationFails ==
    /\ On("migrate")
    /\ Stop
    /\ UNCHANGED <<active, backupVars, envVars, owed>>

-----------------------------------------------------------------------------
(* The service is up.                                                      *)

Writes ==
    /\ On("ready")
    /\ Sound(active)
    /\ active' = [active EXCEPT !.changes = @ \cup {clock}]
    /\ owed' = active'.changes
    /\ UNCHANGED <<backupVars, proc, envVars>>

\* operationMu keeps commits out until the checkpoint is taken.
Checkpoint ==
    /\ On("ready")
    /\ proc' = [NotOpen EXCEPT !.task = "checkpoint", !.pc = "backup"]
    /\ UNCHANGED <<active, backupVars, envVars, owed>>

-----------------------------------------------------------------------------
(* createBackupLocked, for a migration, a checkpoint or a restore.         *)

\* MUTANT: a restore secures the database it is about to displace.
SourceActive == active

Source == IF proc.task = "restore" THEN proc.candidate ELSE active

\* The copy is begun, and torn until it is complete.
Stage ==
    /\ On("backup")
    /\ Sound(Source)
    /\ backup' = [backup EXCEPT ![0] = Damaged]
    /\ Turn("copy")
    /\ UNCHANGED <<active, captured, stamp, envVars, owed>>

Copy ==
    /\ On("copy")
    /\ backup' = [backup EXCEPT ![0] = Source]
    /\ captured' = [captured EXCEPT ![0] = clock]
    /\ Turn("stamp")
    /\ UNCHANGED <<active, stamp, envVars, owed>>

\* MUTANT: the copy is not inspected.
StampUnchecked ==
    /\ On("stamp")
    /\ stamp' = [stamp EXCEPT ![0] = clock]
    /\ proc' = [proc EXCEPT !.pc = "rotate", !.at = Backups]
    /\ UNCHANGED <<active, backup, captured, envVars, owed>>

\* The copy is inspected, and its metadata written.
Stamp ==
    /\ On("stamp")
    /\ Sound(backup[0])
    /\ stamp' = [stamp EXCEPT ![0] = clock]
    /\ proc' = [proc EXCEPT !.pc = "rotate", !.at = Backups]
    /\ UNCHANGED <<active, backup, captured, envVars, owed>>

\* MUTANT: a slot whose predecessor is missing is emptied.
RotateEmptying ==
    /\ On("rotate")
    /\ LET i == proc.at IN
       /\ backup' = [backup EXCEPT ![i] = backup[i - 1], ![i - 1] = NoFile]
       /\ captured' = [captured EXCEPT ![i] = captured[i - 1], ![i - 1] = 0]
       /\ proc' = IF backup[i - 1] = NoFile
                  THEN [proc EXCEPT !.at = i - 1]
                  ELSE [proc EXCEPT !.pc = "rotate_stamp"]
    /\ UNCHANGED <<active, stamp, envVars, owed>>

\* rotate: from the last slot down to the staged copy, each file takes the
\* slot after it.  Where it is missing that slot is left alone.
Rotate ==
    /\ On("rotate")
    /\ LET i == proc.at IN
       IF backup[i - 1] = NoFile
       THEN /\ proc' = [proc EXCEPT !.at = i - 1]
            /\ UNCHANGED <<backup, captured>>
       ELSE /\ backup' = [backup EXCEPT ![i] = backup[i - 1], ![i - 1] = NoFile]
            /\ captured' = [captured EXCEPT ![i] = captured[i - 1], ![i - 1] = 0]
            /\ Turn("rotate_stamp")
    /\ UNCHANGED <<active, stamp, envVars, owed>>

\* Its metadata follows, which only counts in backup-1 (see CreatedAt).  With
\* the staged copy in place the backup is done.
RotateStamp ==
    /\ On("rotate_stamp")
    /\ LET i == proc.at IN
       /\ stamp' = IF i = 1 THEN [stamp EXCEPT ![1] = stamp[0], ![0] = 0]
                   ELSE [stamp EXCEPT ![1] = IF i = 2 THEN 0 ELSE @]
       /\ \/ i > 1 /\ proc' = [proc EXCEPT !.pc = "rotate", !.at = i - 1]
          \/ i = 1 /\ proc.task = "open"
                /\ proc' = [proc EXCEPT !.pc = "migrate", !.at = 0]
          \/ i = 1 /\ proc.task = "checkpoint" /\ proc' = Ready
          \/ i = 1 /\ proc.task = "restore"
                /\ proc' = [proc EXCEPT !.pc = "preserve", !.at = 0]
    /\ UNCHANGED <<active, backup, captured, envVars, owed>>

\* A rename that fails, or is cut short, leaves its destination as it was,
\* except that on Windows the code removes it before it tries again.  What is
\* staged is removed, at the latest by the next backup and before any use.
CutShort ==
    \E torn \in {FALSE, Windows /\ proc.pc \in {"rotate", "rotate_stamp"}} :
        LET Gone(slot) == \/ slot = 0
                          \/ torn /\ slot = proc.at /\ On("rotate")
                                  /\ backup[slot - 1] # NoFile
        IN
        /\ backup' = [i \in 0..Backups |-> IF Gone(i) THEN NoFile ELSE backup[i]]
        /\ captured' = [i \in 0..Backups |-> IF Gone(i) THEN 0 ELSE captured[i]]
        /\ stamp' = [stamp EXCEPT ![0] = 0,
                        ![1] = IF torn /\ On("rotate_stamp") /\ proc.at = 1
                               THEN 0 ELSE @]

BackupPcs == {"backup", "copy", "stamp", "rotate", "rotate_stamp"}

\* MUTANT: a migration goes on without its backup.
BackupFailsUnheeded ==
    /\ proc.pc \in BackupPcs
    /\ CutShort
    /\ proc' = CASE proc.task = "open" -> [proc EXCEPT !.pc = "migrate", !.at = 0]
                 [] proc.task = "checkpoint" -> Ready
                 [] OTHER -> NotOpen
    /\ UNCHANGED <<active, envVars, owed>>

\* No migration follows, and no restore; a service
\* that was up stays up.
BackupFails ==
    /\ proc.pc \in BackupPcs
    /\ CutShort
    /\ proc' = IF proc.task = "checkpoint" THEN Ready ELSE NotOpen
    /\ UNCHANGED <<active, envVars, owed>>

-----------------------------------------------------------------------------
(* Restore.                                                                *)

\* validCandidateLocked: rotate moves metadata without the identifier in it,
\* so that only backup-1 has metadata that is accepted, and the others go by
\* their modification time.
CreatedAt(i) == IF i = 1 /\ stamp[1] # 0 THEN stamp[1] ELSE captured[i]

Recover(i) ==
    /\ On("stopped")
    /\ Sound(backup[i])
    /\ proc' = [NotOpen EXCEPT !.task = "restore", !.pc = "backup",
                               !.candidate = backup[i], !.since = CreatedAt(i)]
    /\ UNCHANGED <<active, backupVars, envVars, owed>>

\* MUTANT: only a database that cannot be read is preserved.
PreserveDamaged ==
    /\ On("preserve")
    /\ proc' = [proc EXCEPT !.pc = "activate",
                            !.preserved = IF Sound(active) THEN NoFile ELSE active]
    /\ UNCHANGED <<active, backupVars, envVars, owed>>

Preserve ==
    /\ On("preserve")
    /\ proc' = [proc EXCEPT !.pc = "activate", !.preserved = active]
    /\ UNCHANGED <<active, backupVars, envVars, owed>>

PreserveFails ==
    /\ On("preserve")
    /\ Stop
    /\ UNCHANGED <<active, backupVars, envVars, owed>>

\* Who restores gives up what the candidate does not have.
Activate ==
    /\ On("activate")
    /\ active' = proc.candidate
    /\ owed' = owed \cap proc.candidate.changes
    /\ Turn("confirm")
    /\ UNCHANGED <<backupVars, envVars>>

ActivateFails ==
    /\ On("activate")
    /\ active' \in {active} \cup IF Windows THEN {NoFile} ELSE {}
    /\ Turn("rollback")
    /\ UNCHANGED <<backupVars, envVars, owed>>

\* The active database is inspected once more.
Confirm ==
    /\ On("confirm")
    /\ IF Sound(active) THEN Stop ELSE Turn("rollback")
    /\ UNCHANGED <<active, backupVars, envVars, owed>>

ConfirmFails ==
    /\ On("confirm")
    /\ Turn("rollback")
    /\ UNCHANGED <<active, backupVars, envVars, owed>>

RollBack ==
    /\ On("rollback")
    /\ active' = proc.preserved
    /\ Stop
    /\ UNCHANGED <<backupVars, envVars, owed>>

RollBackFails ==
    /\ On("rollback")
    /\ active' \in {active} \cup IF Windows THEN {NoFile} ELSE {}
    /\ Stop
    /\ UNCHANGED <<backupVars, envVars, owed>>

-----------------------------------------------------------------------------
(* The process is killed, or the service is stopped.                       *)

Crash ==
    /\ ~On("stopped")
    /\ Stop
    /\ CutShort
    /\ active' \in {active} \cup
          IF Windows /\ proc.pc \in {"activate", "rollback"} THEN {NoFile} ELSE {}
    /\ UNCHANGED <<envVars, owed>>

Tick ==
    /\ clock <= MaxClock
    /\ clock' = clock + 1
    /\ UNCHANGED <<active, backupVars, proc, losses, owed>>

\* From outside: the disk damages the database, at any moment, or its owner
\* deletes it and all that is in it.
Damage ==
    /\ losses < MaxLosses
    /\ Sound(active)
    /\ active' = Damaged
    /\ losses' = losses + 1
    /\ UNCHANGED <<backupVars, proc, clock, owed>>

Delete ==
    /\ losses < MaxLosses
    /\ On("stopped")
    /\ active' = NoFile
    /\ owed' = {}
    /\ losses' = losses + 1
    /\ UNCHANGED <<backupVars, proc, clock>>

Next ==
    \/ Start \/ Verify \/ Migrate \/ MigrationFails \/ Writes \/ Checkpoint
    \/ Stage \/ Copy \/ Stamp \/ Rotate \/ RotateStamp \/ BackupFails
    \/ \E i \in Slots : Recover(i)
    \/ Preserve \/ PreserveFails \/ Activate \/ ActivateFails
    \/ Confirm \/ ConfirmFails \/ RollBack \/ RollBackFails
    \/ Crash \/ Tick \/ Damage \/ Delete

Spec == Init /\ [][Next]_vars

-----------------------------------------------------------------------------
(* Properties.                                                             *)

TypeOK ==
    /\ active \in File
    /\ backup \in [0..Backups -> File]
    /\ captured \in [0..Backups -> {0} \cup Times]
    /\ stamp \in [0..1 -> {0} \cup Times]
    /\ proc \in Program
    /\ clock \in Times
    /\ losses \in 0..MaxLosses
    /\ owed \subseteq Times

\* No slot ever holds a torn or damaged copy: the database may be damaged under
\* the copy, and the process killed in the middle of it.
SlotsValid == \A i \in Slots : backup[i] # Damaged

\* A service that is up on a readable database has every change that nobody
\* gave up: neither a failure, a crash nor damage ends in a silent reset.
NoSilentReset ==
    On("ready") /\ Sound(active) => owed \subseteq active.changes

\* Migrations run only while backup-1 is the database as it was before them.
MigrationBackedUp ==
    On("migrate") /\ Sound(active) =>
        /\ Sound(backup[1])
        /\ backup[1].changes = active.changes
        /\ backup[1].schema <= active.schema
        /\ backup[1].schema < Schema

\* From the moment it is copied the candidate of a restore is among the
\* backups, and it is the newest of them when the database is replaced.
CandidateKept ==
    proc.task = "restore" =>
        /\ proc.pc \in {"stamp", "rotate", "rotate_stamp"} =>
              \E i \in 0..Backups : backup[i] = proc.candidate
        /\ proc.pc \in {"preserve", "activate", "confirm", "rollback"} =>
              backup[1] = proc.candidate

\* The newest sound backup is never lost, by whichever step of however many
\* interrupted backups: it stays in one of the slots.
NewestKept ==
    [][\A i \in Slots :
          Sound(backup[i]) /\ (\A j \in 1..i - 1 : backup[j] = NoFile) =>
              \E j \in Slots : backup'[j] = backup[i]]_vars

\* A restore, its rollback included, overwrites a readable database only when
\* an identical file is the preserved copy or one of the backups.
DisplacedKept ==
    [][proc.task = "restore" /\ active' # active /\ Sound(active)
          /\ losses' = losses =>
              active \in {proc.preserved} \cup {backup[i] : i \in Slots}]_vars

-----------------------------------------------------------------------------
(* What the properties rest on.                                            *)

TaskOK ==
    /\ proc.pc \in {"stopped", "ready"} => proc.task = "none"
    /\ proc.pc \in {"verify", "migrate"} => proc.task = "open"
    /\ proc.pc \in BackupPcs => proc.task # "none"
    /\ proc.pc \in {"preserve", "activate", "confirm", "rollback"} =>
          proc.task = "restore"

\* The slot a rotation fills is empty, except the last; and what is staged is
\* sound until it is backup-1.
RotationOK ==
    /\ On("rotate") =>
          /\ proc.at > 0
          /\ Sound(backup[0])
          /\ proc.at < Backups => backup[proc.at] = NoFile
    /\ On("rotate_stamp") =>
          /\ proc.at > 0
          /\ backup[proc.at - 1] = NoFile
          /\ proc.at > 1 => Sound(backup[0])
          /\ proc.at = 1 => Sound(backup[1])

\* Where the copy that the running backup made is now.
CopyAt ==
    IF On("stamp") \/ On("rotate") \/ (On("rotate_stamp") /\ proc.at > 1)
    THEN 0 ELSE 1

CandidateOK ==
    proc.task = "restore" =>
        /\ Sound(proc.candidate)
        /\ proc.pc \notin {"backup", "copy"} => backup[CopyAt] = proc.candidate

MigrationOK ==
    proc.task = "open" /\ ~On("verify") /\ Sound(active) =>
        /\ active.schema < Schema
        /\ proc.pc \in {"stamp", "rotate", "rotate_stamp"} => backup[CopyAt] = active

\* Off Windows a database is missing only when its owner deleted it.
OwedOK ==
    ~Windows =>
        /\ Sound(active) => owed \subseteq active.changes
        /\ active.kind = "absent" => owed = {}
        /\ proc.pc \in {"activate", "confirm", "rollback"} =>
              /\ Sound(proc.preserved) => owed \subseteq proc.preserved.changes
              /\ proc.preserved.kind = "absent" => owed = {}

\* The database is what the restore displaces, or its candidate.
DisplacedOK ==
    /\ On("activate") /\ Sound(active) => active = proc.preserved
    /\ proc.pc \in {"confirm", "rollback"} /\ Sound(active) =>
          active \in {proc.preserved, proc.candidate}

IInv ==
    /\ TypeOK
    /\ TaskOK
    /\ SlotsValid
    /\ RotationOK
    /\ CandidateOK
    /\ MigrationOK
    /\ MigrationBackedUp
    /\ OwedOK
    /\ DisplacedOK
=============================================================================

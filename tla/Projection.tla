------------------------------ MODULE Projection ------------------------------
(***************************************************************************)
(* The projector of configuration packs over one Identity Home.  A          *)
(* projection reads the home and its manifest, stages the new files in a    *)
(* directory of the home, then moves each file away and the new one in,     *)
(* the manifest first; a step that fails rolls back what was done.  A file  *)
(* that is not as the manifest says is a local change and stays.            *)
(*                                                                         *)
(* Contents stand for themselves and for their digests.  One projection     *)
(* runs at a time; whoever works in the home does not wait for it.          *)
(***************************************************************************)
EXTENDS Integers, Sequences, FiniteSets, SequencesExt

CONSTANTS
    Paths,          \* a sequence of paths, in their order
    PackContents, LocalContents,
    Absent,
    Legacy,         \* a path that an old manifest names without a digest
    MaxEdits,
    NoJob

PathSet == Range(Paths)
Contents == PackContents \cup LocalContents

VARIABLES
    homeFiles,      \* path -> content
    tracked,        \* the manifest: path -> content, Legacy, or Absent when not named
    job,            \* the projection that is under way
    edits,
    localChange,    \* path -> what was last written there while no projection ran
    interrupted     \* paths a projection did not finish with

projectionVars == <<homeFiles, tracked, job, edits, localChange, interrupted>>

FileSets == {f \in [PathSet -> PackContents \cup {Absent}] : \E p \in PathSet : f[p] # Absent}

Tracking == [PathSet -> PackContents \cup {Legacy, Absent}]

(* The manifest is the first of the entries a projection replaces.           *)
Manifest == "manifest"
Steps == <<Manifest>> \o Paths

(* A projection under way, as the projector keeps it.                    *)
Jobs ==
    [pc : {"move", "install", "rollback"}, step : 0..Len(Steps) + 1,
     files : [PathSet -> PackContents \cup {Absent}], tracking : Tracking,
     preserved : SUBSET PathSet, affected : SUBSET PathSet, existed : SUBSET PathSet,
     before : [files : [PathSet -> Contents \cup {Absent}], tracking : Tracking],
     backups : SUBSET (({Manifest} \X Tracking) \cup (PathSet \X (Contents \cup {Absent}))),
     installed : SUBSET (PathSet \cup {Manifest}), restored : BOOLEAN, edited : SUBSET PathSet]

(* The manifest is none of the paths a pack may have.                        *)
ASSUME ProjectionAssumption ==
    /\ Paths \in Seq(PathSet) /\ Len(Paths) >= 1
    /\ \A i, j \in DOMAIN Paths : Paths[i] = Paths[j] => i = j
    /\ PackContents \cap LocalContents = {} /\ MaxEdits \in Nat
    /\ Absent \notin Contents /\ Legacy \notin Contents \cup {Absent}
    /\ Manifest \notin PathSet /\ NoJob \notin Jobs

ProjectionTypeOK ==
    /\ homeFiles \in [PathSet -> Contents \cup {Absent}]
    /\ tracked \in Tracking
    /\ edits \in 0..MaxEdits
    /\ localChange \in [PathSet -> LocalContents \cup {Absent}]
    /\ interrupted \subseteq PathSet
    /\ job # NoJob =>
        /\ job.pc \in {"move", "install", "rollback"} /\ job.step \in 0..Len(Steps) + 1
        /\ job.installed \cap job.preserved = {}
        /\ \A b \in job.backups : b[1] \notin job.preserved

ProjectionInit ==
    /\ homeFiles \in [PathSet -> LocalContents \cup {Absent}]
    /\ tracked \in [PathSet -> {Legacy, Absent}]
    /\ job = NoJob /\ edits = 0
    /\ localChange = homeFiles
    /\ interrupted = {}

-----------------------------------------------------------------------------

(* MUTANT: a path an old manifest names is the projector's own. *)
LegacyIsOwn(p) == tracked[p] # Absent /\ (tracked[p] = Legacy \/ homeFiles[p] = tracked[p])

(* The file is as the last projection left it.                               *)
Own(p) == tracked[p] # Absent /\ homeFiles[p] = tracked[p]

(* What stays: files that are not the projector's, nor as they shall become. *)
Conflicts(files) ==
    {p \in PathSet : (files[p] # Absent \/ tracked[p] # Absent)
                        /\ homeFiles[p] # Absent /\ ~Own(p) /\ homeFiles[p] # files[p]}

Affected(files) == {p \in PathSet : files[p] # Absent \/ tracked[p] # Absent}

NewTracking(files) == [p \in PathSet |-> IF p \in Conflicts(files) THEN Absent ELSE files[p]]

(* The home is read and the new files are staged; neither changes a file.    *)
StartProjection(files) ==
    /\ job = NoJob
    /\ job' = [pc |-> "move", step |-> 1, files |-> files, tracking |-> NewTracking(files),
               preserved |-> Conflicts(files), affected |-> Affected(files),
               existed |-> {p \in PathSet : homeFiles[p] # Absent},
               before |-> [files |-> homeFiles, tracking |-> tracked],
               backups |-> {}, installed |-> {}, restored |-> TRUE, edited |-> {}]
    /\ UNCHANGED <<homeFiles, tracked, edits, localChange, interrupted>>

Entry == Steps[job.step]

Skipped == Entry # Manifest /\ Entry \notin job.affected \ job.preserved

Advance(changes) == IF job.step = Len(Steps) THEN [changes EXCEPT !.step = Len(Steps) + 1, !.pc = "move"]
                    ELSE [changes EXCEPT !.step = job.step + 1, !.pc = "move"]

Skip ==
    /\ job # NoJob /\ job.pc = "move" /\ job.step <= Len(Steps) /\ Skipped
    /\ job' = Advance(job)
    /\ UNCHANGED <<homeFiles, tracked, edits, localChange, interrupted>>

(* The step that fails is among those that are rolled back.                  *)
Fail == job' = [job EXCEPT !.pc = "rollback"]

(* The old file is moved into the stage directory if there was one.          *)
MoveAway ==
    /\ job # NoJob /\ job.pc = "move" /\ job.step <= Len(Steps) /\ ~Skipped
    /\ \/ Fail /\ UNCHANGED <<homeFiles, tracked>>
       \/ /\ Entry = Manifest
          /\ job' = [job EXCEPT !.pc = "install", !.backups = {<<Manifest, tracked>>}]
          /\ tracked' = [p \in PathSet |-> Absent]
          /\ UNCHANGED homeFiles
       \/ /\ Entry # Manifest /\ Entry \in job.existed /\ homeFiles[Entry] # Absent
          /\ job' = [job EXCEPT !.pc = "install",
                                !.backups = @ \cup {<<Entry, homeFiles[Entry]>>}]
          /\ homeFiles' = [homeFiles EXCEPT ![Entry] = Absent]
          /\ UNCHANGED tracked
       \/ /\ Entry # Manifest /\ Entry \notin job.existed
          /\ job' = [job EXCEPT !.pc = "install"]
          /\ UNCHANGED <<homeFiles, tracked>>
    /\ UNCHANGED <<edits, localChange, interrupted>>

(* The new file is moved in, over whatever is there.                         *)
Install ==
    /\ job # NoJob /\ job.pc = "install"
    /\ \/ Fail /\ UNCHANGED <<homeFiles, tracked>>
       \/ /\ Entry = Manifest
          /\ tracked' = job.tracking /\ UNCHANGED homeFiles
          /\ job' = Advance([job EXCEPT !.installed = @ \cup {Manifest}])
       \/ /\ Entry # Manifest /\ job.files[Entry] # Absent
          /\ homeFiles' = [homeFiles EXCEPT ![Entry] = job.files[Entry]]
          /\ job' = Advance([job EXCEPT !.installed = @ \cup {Entry}])
          /\ UNCHANGED tracked
       \/ /\ Entry # Manifest /\ job.files[Entry] = Absent
          /\ job' = Advance(job)
          /\ UNCHANGED <<homeFiles, tracked>>
    /\ UNCHANGED <<edits, localChange, interrupted>>

(* The stage directory is removed with the backups in it.                    *)
FinishProjection ==
    /\ job # NoJob /\ job.pc = "move" /\ job.step > Len(Steps)
    /\ job' = NoJob
    /\ UNCHANGED <<homeFiles, tracked, edits, localChange, interrupted>>

-----------------------------------------------------------------------------

Backup(entry) == {b \in job.backups : b[1] = entry}

PutBack(entry) ==
    LET b == CHOOSE b \in Backup(entry) : TRUE IN
    IF entry = Manifest THEN tracked' = b[2] /\ UNCHANGED homeFiles
    ELSE homeFiles' = [homeFiles EXCEPT ![entry] = b[2]] /\ UNCHANGED tracked

TakeOut(entry) ==
    IF entry = Manifest THEN tracked' = [p \in PathSet |-> Absent] /\ UNCHANGED homeFiles
    ELSE homeFiles' = [homeFiles EXCEPT ![entry] = Absent] /\ UNCHANGED tracked

(* Last step first: what was installed is removed and what was moved away is *)
(* moved back, each of which may fail.                                       *)
RollbackStep ==
    /\ job # NoJob /\ job.pc = "rollback" /\ job.step > 0
    /\ \E removed, back \in BOOLEAN :
        /\ Entry \notin job.installed => removed
        /\ Backup(Entry) = {} => back
        /\ CASE Backup(Entry) # {} /\ back -> PutBack(Entry)
             [] ~(Backup(Entry) # {} /\ back) /\ Entry \in job.installed /\ removed -> TakeOut(Entry)
             [] OTHER -> UNCHANGED <<homeFiles, tracked>>
        /\ job' = [job EXCEPT !.step = @ - 1, !.restored = @ /\ removed /\ back,
                              !.backups = IF back THEN @ \ Backup(Entry) ELSE @]
    /\ UNCHANGED <<edits, localChange, interrupted>>

(* What stays in the stage directory: nothing unless something could not be  *)
(* put back.  No later projection reads it.                                  *)
LeftBehind == IF job.restored THEN {} ELSE job.backups

FailProjection ==
    /\ job # NoJob /\ job.pc = "rollback" /\ job.step = 0
    /\ interrupted' = IF job.restored THEN interrupted ELSE interrupted \cup job.affected
    /\ job' = NoJob
    /\ UNCHANGED <<homeFiles, tracked, edits, localChange>>

(* The service dies and leaves the stage directory behind.                   *)
CrashProjection ==
    /\ job # NoJob
    /\ interrupted' = interrupted \cup job.affected
    /\ job' = NoJob
    /\ UNCHANGED <<homeFiles, tracked, edits, localChange>>

(* A file is written or removed by whoever works in the home.                *)
EditHome(p, content) ==
    /\ edits < MaxEdits /\ edits' = edits + 1
    /\ homeFiles[p] # content
    /\ homeFiles' = [homeFiles EXCEPT ![p] = content]
    /\ IF job = NoJob
       THEN localChange' = [localChange EXCEPT ![p] = content] /\ UNCHANGED job
       ELSE /\ localChange' = [localChange EXCEPT ![p] = Absent]
            /\ job' = [job EXCEPT !.edited = @ \cup {p}]
    /\ UNCHANGED <<tracked, interrupted>>

ProjectionNext ==
    \/ \E files \in FileSets : StartProjection(files)
    \/ Skip \/ MoveAway \/ Install \/ FinishProjection
    \/ RollbackStep \/ FailProjection \/ CrashProjection
    \/ \E p \in PathSet, content \in LocalContents \cup {Absent} : EditHome(p, content)

-----------------------------------------------------------------------------

(* A local change made while no projection ran stays in its place through    *)
(* every projection, failure and crash that follows.                         *)
(* configpack/projector.go:225.                                              *)
LocalKept ==
    \A p \in PathSet : localChange[p] # Absent => homeFiles[p] = localChange[p]

(* A projection that fails without a crash leaves every file nobody else     *)
(* touched, and the manifest, as they were, or has left the old one in the   *)
(* stage directory.  configpack/projector.go:397.                            *)
Unchanged(p) ==
    homeFiles[p] = job.before.files[p] \/ <<p, job.before.files[p]>> \in LeftBehind

FailureChangesNothing ==
    [][(job # NoJob /\ job.pc = "rollback" /\ job.step = 0 /\ job' = NoJob)
        => /\ \A p \in PathSet \ job.edited : Unchanged(p) \/ (job.before.files[p] = Absent /\ ~job.restored)
           /\ tracked = job.before.tracking \/ <<Manifest, job.before.tracking>> \in LeftBehind
      ]_projectionVars

(* Where no projection was cut short, a file of a pack is one the manifest   *)
(* names with its content: none is ever taken for a local change, or left    *)
(* behind when it leaves the pack.  configpack/projector.go:182.             *)
NothingForgotten ==
    job = NoJob =>
        \A p \in PathSet \ interrupted : homeFiles[p] \in PackContents => tracked[p] = homeFiles[p]

(* A home keeps its local changes, its manifest knows the rest, and a        *)
(* projection that fails has changed neither.  configpack/projector.go:154.  *)
HomeKept == [](ProjectionTypeOK /\ LocalKept /\ NothingForgotten) /\ FailureChangesNothing
=============================================================================

--------------------------- MODULE SafeContinuation ---------------------------
(***************************************************************************)
(* Safe Continuation: the service, the CLI processes that run Codex in the *)
(* foreground, and the reports between them.                               *)
(*                                                                         *)
(*   - the continuation service edits, approves, expires and purges        *)
(*     checkpoints: each operation loads a row, decides, and saves it with *)
(*     a compare-and-swap; mutationMu admits one of them at a time;        *)
(*   - a handoff journey runs in the service: reconcile, check, (verify    *)
(*     authentication, project the pack, refresh usage), reconcile, check  *)
(*     again, and claim the checkpoint with a pending lease;               *)
(*   - the CLI that holds a lease starts the child and reports start, exit *)
(*     or abandonment; a report can be lost, late, or answered to nobody;  *)
(*   - the service can stop, the computer can reboot, a child can die      *)
(*     unnoticed, and a dead child's pid can be taken for a running one.   *)
(***************************************************************************)
EXTENDS LaunchStore

CONSTANTS
    Handoffs,       \* BOUND: handoff journeys in progress at a time
    Retentions,     \* retention settings in force: days, None for unlimited
    MaxClock,       \* BOUND: clock ticks
    MaxBoot         \* BOUND: boot sessions

ASSUME ServiceAssumption ==
    /\ Retentions \subseteq (Nat \ {0}) \cup {None}
    /\ MaxClock \in Nat
    /\ MaxBoot \in Nat

VARIABLES
    up,         \* the service is composed and serving
    boot,       \* the current OS boot session
    alive,      \* leases whose Codex child is a live process
    cli,        \* where the CLI process that holds a lease is
    report,     \* the CLI's request in flight, or the answer to it
    op,         \* the checkpoint operation that holds mutationMu
    journey     \* the handoff journeys in progress

vars == <<checkpoint, launch, clock, up, boot, alive, cli, report, op, journey>>

CliStates == {"none", "planned", "spawned", "waiting", "gone"}

Report  == [kind : {"none", "started", "accepted", "exited", "abandoned"},
            at   : Nat]
NoReport == [kind |-> "none", at |-> 0]

\* Which operation holds it matters only once the row is loaded: each of them
\* is an action on the loaded row.
Op   == [busy : {TRUE}, cp : Checkpoints, seen : CheckpointRow, at : Nat]
NoOp == [busy |-> FALSE]

\* The journey's checkpoint, revision and target arrive with the request; they
\* matter from the first check on, so they are bound there.
Journey ==
    [pc : {"idle", "begun"}, cp : {None}, rev : {None}, target : {None},
     source : {None}]
    \cup
    [pc : {"loaded", "checked", "reconciled", "reloaded"}, cp : Checkpoints,
     rev : Revisions, target : Profiles, source : {None}]
    \cup
    [pc : {"rechecked"}, cp : Checkpoints, rev : Revisions, target : Profiles,
     source : Profiles]
NoJourney == [pc |-> "idle", cp |-> None, rev |-> None, target |-> None,
              source |-> None]

TypeOK ==
    /\ StoreTypeOK
    /\ up \in BOOLEAN
    /\ boot \in Nat
    /\ alive \subseteq Leases
    /\ cli \in [Leases -> CliStates]
    /\ report \in [Leases -> Report]
    /\ op \in Op \cup {NoOp}
    /\ journey \in [Handoffs -> Journey]

Init ==
    /\ StoreInit
    /\ up = TRUE
    /\ boot = 0
    /\ alive = {}
    /\ cli = [l \in Leases |-> "none"]
    /\ report = [l \in Leases |-> NoReport]
    /\ op = NoOp
    /\ journey = [h \in Handoffs |-> NoJourney]

foregroundVars == <<alive, cli, report>>
serviceVars    == <<up, boot, op, journey>>

-----------------------------------------------------------------------------
(* Checkpoint operations (continuation.Service)                            *)

DueDate(created, retention) ==
    IF retention = None THEN None ELSE created + retention

\* Capture saves a new draft without taking mutationMu.
Capture(c) ==
    /\ up
    /\ \E j \in Projects, r \in Revisions, d \in Retentions :
         InsertCheckpoint(c, [status |-> "draft", meta |-> "draft", rev |-> r,
                              project |-> j, source |-> "repository-first",
                              created |-> clock, due |-> DueDate(clock, d)])
    /\ UNCHANGED <<foregroundVars, serviceVars>>

\* Every other operation (Show, List, Edit, PreviewAssisted, ApproveAssisted,
\* Approve, Purge) takes mutationMu and loads the row.
LoadCheckpoint(c) ==
    /\ up
    /\ ~op.busy
    /\ Exists(c)
    /\ op' = [busy |-> TRUE, cp |-> c, seen |-> checkpoint[c], at |-> clock]
    /\ UNCHANGED <<storeVars, foregroundVars, up, boot, journey>>

\* show found the row overdue at some time since it was loaded: it saves the
\* row as expired.  Every operation but Purge then ends or is refused.
ExpireCheckpoint ==
    LET expired == [op.seen EXCEPT !.status = "expired", !.meta = "expired"] IN
    /\ up
    /\ op.busy
    /\ op.seen.status # "launching"
    /\ Overdue(op.seen, clock)
    /\ op.seen # expired
    /\ SaveCheckpoint(op.cp, op.seen, expired)
    /\ op' = [op EXCEPT !.seen = expired]
    /\ UNCHANGED <<foregroundVars, up, boot, journey>>

\* show read a time, no earlier than the load, at which the row was not overdue.
NotSeenOverdue == op.seen.status = "launching" \/ ~Overdue(op.seen, op.at)

Editable == op.seen.status \notin {"launching", "completed", "expired"}

SaveSeen(row) ==
    /\ SaveCheckpoint(op.cp, op.seen, row)
    /\ op' = NoOp
    /\ UNCHANGED <<foregroundVars, up, boot, journey>>

Edit ==
    /\ up
    /\ op.busy
    /\ NotSeenOverdue
    /\ Editable
    /\ \E r \in Revisions :
         SaveSeen([op.seen EXCEPT !.status = "draft", !.meta = "draft", !.rev = r])

Approve ==
    /\ up
    /\ op.busy
    /\ NotSeenOverdue
    /\ Editable
    /\ SaveSeen([op.seen EXCEPT !.status = "approved", !.meta = "approved"])

\* ApproveAssisted: the draft becomes transcript-assisted, is dated again from
\* its creation, and is approved as previewed.
ApproveAssisted ==
    /\ up
    /\ op.busy
    /\ NotSeenOverdue
    /\ op.seen.status = "draft"
    /\ op.seen.source = "repository-first"
    /\ \E r \in Revisions, d \in Retentions :
         LET approved ==
               [op.seen EXCEPT !.status = "approved", !.meta = "approved",
                  !.rev = r, !.source = "transcript-assisted",
                  !.due = DueDate(op.seen.created, d)]
         IN /\ ~Overdue(approved, op.at)
            /\ SaveSeen(approved)

Purge ==
    /\ up
    /\ op.busy
    /\ op.seen.status = "expired" \/ NotSeenOverdue
    /\ op.seen.status # "launching"
    /\ PurgeCheckpoint(op.cp, op.seen.rev)
    /\ op' = NoOp
    /\ UNCHANGED <<foregroundVars, up, boot, journey>>

\* The operation answers without a change: refused, a lost compare-and-swap,
\* an error, or a caller that cancelled.
EndOp ==
    /\ op.busy
    /\ op' = NoOp
    /\ UNCHANGED <<storeVars, foregroundVars, up, boot, journey>>

PurgeHistory ==
    /\ up
    /\ \E L \in SUBSET SettledLeases, C \in SUBSET Checkpoints : PurgeAnalytics(L, C)
    /\ UNCHANGED <<foregroundVars, serviceVars>>

ExpireHistory ==
    /\ up
    /\ \E L \in SUBSET SettledLeases : RetainAnalytics(L)
    /\ UNCHANGED <<foregroundVars, serviceVars>>

-----------------------------------------------------------------------------
(* Launch preparation (launchCommandService)                               *)

\* A live child is always found running; a dead one may be missed, because its
\* pid was reused or cannot be signalled.
DeadRunning == {l \in Leases \ alive : launch[l].state = "running"}

Reconcile ==
    \E D \in SUBSET DeadRunning : ReconcileManagedLaunches(boot, D)

\* The CLI that asked receives the plan, or is gone before it arrives.
DeliverPlan(l) ==
    /\ \E state \in {"planned", "gone"} : cli' = [cli EXCEPT ![l] = state]
    /\ UNCHANGED <<alive, report>>

\* Prepare: an ordinary launch.  Its reconcile is a ReconcileOnly step before.
Launch(l, p, j) ==
    /\ up
    /\ PrepareLaunch(l, p, j)
    /\ DeliverPlan(l)
    /\ UNCHANGED serviceVars

\* The reconcile of an ordinary launch, whether or not the launch goes on.
ReconcileOnly ==
    /\ up
    /\ Reconcile
    /\ UNCHANGED <<foregroundVars, serviceVars>>

BeginHandoff(h) ==
    /\ up
    /\ journey[h].pc = "idle"
    /\ Reconcile
    /\ journey' = [journey EXCEPT ![h].pc = "begun"]
    /\ UNCHANGED <<foregroundVars, up, boot, op>>

\* First PrepareHandoff: the request's checkpoint and revision are ready.
CheckCheckpoint(h, c, r, p) ==
    /\ up
    /\ journey[h].pc = "begun"
    /\ ReadyForHandoff(c, r)
    /\ journey' = [journey EXCEPT ![h] = [pc |-> "loaded", cp |-> c, rev |-> r,
                                          target |-> p, source |-> None]]
    /\ UNCHANGED <<storeVars, foregroundVars, up, boot, op>>

SourceIs(h, s) ==
    /\ DefinitiveSource(checkpoint[journey[h].cp].project, s)
    /\ s # journey[h].target

CheckSource(h) ==
    /\ up
    /\ journey[h].pc = "loaded"
    /\ \E s \in Profiles : SourceIs(h, s)
    /\ journey' = [journey EXCEPT ![h].pc = "checked"]
    /\ UNCHANGED <<storeVars, foregroundVars, up, boot, op>>

ReconcileAgain(h) ==
    /\ up
    /\ journey[h].pc = "checked"
    /\ Reconcile
    /\ journey' = [journey EXCEPT ![h].pc = "reconciled"]
    /\ UNCHANGED <<foregroundVars, up, boot, op>>

\* Second PrepareHandoff: the same checks, and the source it names is kept.
RecheckCheckpoint(h) ==
    /\ up
    /\ journey[h].pc = "reconciled"
    /\ ReadyForHandoff(journey[h].cp, journey[h].rev)
    /\ journey' = [journey EXCEPT ![h].pc = "reloaded"]
    /\ UNCHANGED <<storeVars, foregroundVars, up, boot, op>>

RecheckSource(h, s) ==
    /\ up
    /\ journey[h].pc = "reloaded"
    /\ SourceIs(h, s)
    /\ journey' = [journey EXCEPT ![h].pc = "rechecked", ![h].source = s]
    /\ UNCHANGED <<storeVars, foregroundVars, up, boot, op>>

ClaimCheckpoint(h, l) ==
    LET request == journey[h] IN
    /\ up
    /\ request.pc = "rechecked"
    /\ PrepareHandoffLaunch(l, request.target, request.cp, request.rev,
                            request.source, boot)
    /\ DeliverPlan(l)
    /\ journey' = [journey EXCEPT ![h] = NoJourney]
    /\ UNCHANGED <<up, boot, op>>

\* A check fails, a step between them fails, or the CLI hangs up.
EndHandoff(h) ==
    /\ journey[h].pc # "idle"
    /\ journey' = [journey EXCEPT ![h] = NoJourney]
    /\ UNCHANGED <<storeVars, foregroundVars, up, boot, op>>

-----------------------------------------------------------------------------
(* The CLI (runForegroundLaunch) and its child                             *)

Send(l, kind, at) == report' = [report EXCEPT ![l] = [kind |-> kind, at |-> at]]

StartChild(l) ==
    /\ cli[l] = "planned"
    /\ alive' = alive \cup {l}
    /\ cli' = [cli EXCEPT ![l] = "spawned"]
    /\ Send(l, "started", 0)
    /\ UNCHANGED <<storeVars, serviceVars>>

\* The process could not be created or started, or was killed for a bad pid.
FailToStart(l) ==
    /\ cli[l] = "planned"
    /\ cli' = [cli EXCEPT ![l] = "gone"]
    /\ Send(l, "abandoned", 0)
    /\ UNCHANGED <<storeVars, serviceVars, alive>>

StartAcknowledged(l) ==
    /\ cli[l] = "spawned"
    /\ report[l].kind = "accepted"
    /\ cli' = [cli EXCEPT ![l] = "waiting"]
    /\ report' = [report EXCEPT ![l] = NoReport]
    /\ UNCHANGED <<storeVars, serviceVars, alive>>

\* MUTANT: a CLI whose started report failed abandons the lease it holds.
LeaveChildAbandoning(l) ==
    /\ cli[l] \in {"planned", "spawned", "waiting"}
    /\ cli' = [cli EXCEPT ![l] = "gone"]
    /\ IF cli[l] = "spawned" THEN Send(l, "abandoned", 0)
       ELSE report' = [report EXCEPT ![l] =
                         IF report[l].kind = "accepted" THEN NoReport ELSE report[l]]
    /\ UNCHANGED <<storeVars, serviceVars, alive>>

\* The CLI returns without waiting (its report failed), or is killed.  A
\* request already sent stays in flight; the child keeps running.
LeaveChild(l) ==
    /\ cli[l] \in {"planned", "spawned", "waiting"}
    /\ cli' = [cli EXCEPT ![l] = "gone"]
    /\ report' = [report EXCEPT ![l] =
                    IF report[l].kind = "accepted" THEN NoReport ELSE report[l]]
    /\ UNCHANGED <<storeVars, serviceVars, alive>>

ChildExits(l) ==
    /\ l \in alive
    /\ alive' = alive \ {l}
    /\ UNCHANGED <<storeVars, serviceVars, cli, report>>

\* Wait returned: the CLI reports the status, or abandons an invalid one.
ReportEnd(l) ==
    /\ cli[l] = "waiting"
    /\ l \notin alive
    /\ cli' = [cli EXCEPT ![l] = "gone"]
    /\ \/ Send(l, "exited", clock)
       \/ Send(l, "abandoned", 0)
    /\ UNCHANGED <<storeVars, serviceVars, alive>>

LoseReport(l) ==
    /\ report[l].kind # "none"
    /\ report' = [report EXCEPT ![l] = NoReport]
    /\ UNCHANGED <<storeVars, serviceVars, alive, cli>>

-----------------------------------------------------------------------------
(* The service handles a report                                            *)

HandleStarted(l) ==
    /\ up
    /\ report[l].kind = "started"
    /\ MarkStarted(l)
    /\ report' = [report EXCEPT ![l] =
                    IF cli[l] = "spawned" THEN [kind |-> "accepted", at |-> 0]
                    ELSE NoReport]
    /\ UNCHANGED <<serviceVars, alive, cli>>

HandleExited(l) ==
    /\ up
    /\ report[l].kind = "exited"
    /\ \E t \in report[l].at .. clock : MarkExited(l, t)
    /\ report' = [report EXCEPT ![l] = NoReport]
    /\ UNCHANGED <<serviceVars, alive, cli>>

HandleAbandoned(l) ==
    /\ up
    /\ report[l].kind = "abandoned"
    /\ MarkAbandoned(l)
    /\ report' = [report EXCEPT ![l] = NoReport]
    /\ UNCHANGED <<serviceVars, alive, cli>>

-----------------------------------------------------------------------------
(* Environment                                                             *)

DropService ==
    /\ up' = FALSE
    /\ op' = NoOp
    /\ journey' = [h \in Handoffs |-> NoJourney]

ServiceStops ==
    /\ up
    /\ DropService
    /\ report' = [l \in Leases |-> NoReport]
    /\ UNCHANGED <<storeVars, boot, alive, cli>>

\* MUTANT: composition leaves the leases for the next launch to reconcile.
ServiceStartsUnreconciled ==
    /\ ~up
    /\ up' = TRUE
    /\ UNCHANGED <<storeVars, foregroundVars, boot, op, journey>>

\* Composition reconciles before the service answers; if it fails, the
\* service stays down.
ServiceStarts ==
    /\ ~up
    /\ up' = TRUE
    /\ Reconcile
    /\ UNCHANGED <<foregroundVars, boot, op, journey>>

Reboot ==
    /\ boot < MaxBoot
    /\ boot' = boot + 1
    /\ DropService
    /\ alive' = {}
    /\ cli' = [l \in Leases |-> IF cli[l] = "none" THEN "none" ELSE "gone"]
    /\ report' = [l \in Leases |-> NoReport]
    /\ UNCHANGED storeVars

Tick ==
    /\ clock < MaxClock
    /\ clock' = clock + 1
    /\ UNCHANGED <<checkpoint, launch, foregroundVars, serviceVars>>

-----------------------------------------------------------------------------
CheckpointStep ==
    \/ \E c \in Checkpoints : Capture(c)
    \/ \E c \in Checkpoints : LoadCheckpoint(c)
    \/ ExpireCheckpoint
    \/ Edit
    \/ Approve
    \/ ApproveAssisted
    \/ Purge
    \/ EndOp
    \/ PurgeHistory
    \/ ExpireHistory

PrepareStep ==
    \/ \E l \in Leases, p \in Profiles, j \in Projects : Launch(l, p, j)
    \/ ReconcileOnly
    \/ \E h \in Handoffs :
         \/ BeginHandoff(h)
         \/ \E c \in Checkpoints, r \in Revisions, p \in Profiles :
              CheckCheckpoint(h, c, r, p)
         \/ CheckSource(h)
         \/ ReconcileAgain(h)
         \/ RecheckCheckpoint(h)
         \/ \E s \in Profiles : RecheckSource(h, s)
         \/ \E l \in Leases : ClaimCheckpoint(h, l)
         \/ EndHandoff(h)

ForegroundStep ==
    \E l \in Leases :
       \/ StartChild(l)
       \/ FailToStart(l)
       \/ StartAcknowledged(l)
       \/ LeaveChild(l)
       \/ ChildExits(l)
       \/ ReportEnd(l)
       \/ LoseReport(l)
       \/ HandleStarted(l)
       \/ HandleExited(l)
       \/ HandleAbandoned(l)

EnvironmentStep ==
    \/ ServiceStops
    \/ ServiceStarts
    \/ Reboot
    \/ Tick

Next == CheckpointStep \/ PrepareStep \/ ForegroundStep \/ EnvironmentStep

Spec == Init /\ [][Next]_vars

\* A stopped service is started again; nothing else is owed.
ServiceFairness == WF_vars(ServiceStarts)

-----------------------------------------------------------------------------
(* Properties                                                              *)

\* A lease the store has settled has no live child: a lost or late report, a
\* reconcile or a reboot never lets the store call a live Codex finished.
SettledHasNoChild == \A l \in alive : launch[l].state \in OpenStates

\* Two live Codex children never continue the same checkpoint, even when the
\* start of the first was never reported.
OneChildPerCheckpoint ==
    \A l, k \in alive :
       launch[l].cp = launch[k].cp /\ launch[l].cp # None => l = k

\* The step that claims a checkpoint leaves from a quiet project: no Codex runs
\* in it under any lease, the checkpoint is not overdue, and another profile's
\* launch in the project has exited.
ClaimFromQuietProject ==
    [][\A c \in Checkpoints :
         checkpoint[c].status # "launching" /\ checkpoint'[c].status = "launching" =>
            /\ \A l \in alive : launch[l].project # checkpoint[c].project
            /\ ~Overdue(checkpoint[c], clock)
            /\ \E l, k \in Leases :
                 /\ launch'[l].cp = c
                 /\ launch[l].state = "unused"
                 /\ launch[k].state = "exited"
                 /\ launch[k].project = checkpoint[c].project
                 /\ launch[k].profile # launch'[l].profile]_vars

\* A claim left over from an earlier boot session is given back once the
\* service runs again: no checkpoint stays launching across a reboot.
StaleClaimReleased ==
    \A l \in Leases, b \in 0..MaxBoot :
       (boot > b /\ launch[l].state = "pending" /\ launch[l].boot = b)
          ~> launch[l].state # "pending"

\* Safe Continuation implements the ledger of claims.
HeldBy(c) ==
    IF checkpoint[c].status = "launching"
    THEN CHOOSE l \in Leases : launch[l].state = "pending" /\ launch[l].cp = c
    ELSE 0

StageOf(c) ==
    CASE checkpoint[c].status \in {"absent", "draft", "approved"} -> "open"
      [] checkpoint[c].status = "launching" -> "claimed"
      [] OTHER -> "spent"

Ledger == INSTANCE HandoffLedger WITH
    NoLease <- 0,
    stage   <- [c \in Checkpoints |-> StageOf(c)],
    holder  <- [c \in Checkpoints |-> HeldBy(c)],
    issued  <- {l \in Leases : launch[l].state # "unused"}

\* No checkpoint is delivered twice, claimed by two leases, or reopened once it
\* is spent, whatever services, CLIs, purges and reboots do in between.
ImplementsLedger == Ledger!LedgerSpec

-----------------------------------------------------------------------------
(* The inductive strengthening of the properties above.                    *)

\* The row an operation loaded existed, and belongs to the checkpoint it will
\* save.
LoadedRowKept ==
    op.busy => /\ op.seen.status \notin {"absent", "purged"}
               /\ checkpoint[op.cp].status # "absent"
               /\ op.seen.project = checkpoint[op.cp].project

\* What the CLI and its reports know of a lease, and what they cannot know.
ForegroundOK ==
    \A l \in Leases :
       /\ launch[l].state = "unused" =>
             cli[l] = "none" /\ l \notin alive /\ report[l].kind = "none"
       /\ cli[l] = "planned" =>
             /\ launch[l].state = "pending"
             /\ l \notin alive
             /\ launch[l].boot \in {None, boot}
       /\ report[l].kind # "none" => cli[l] \notin {"none", "planned"}
       /\ report[l].kind \in {"exited", "abandoned"} =>
             cli[l] = "gone" /\ l \notin alive
       /\ l \in alive => launch[l].boot \in {None, boot}

IInv ==
    /\ TypeOK
    /\ StoreInv
    /\ LoadedRowKept
    /\ ForegroundOK
    /\ SettledHasNoChild
=============================================================================

--------------------- MODULE SafeContinuation_refinement ---------------------
(***************************************************************************)
(* What a step of Safe Continuation can do to the store, and the two facts *)
(* that follow from it and the inductive invariant: a claim is only ever   *)
(* taken in a quiet project, and every step is a step of HandoffLedger.    *)
(***************************************************************************)
EXTENDS SafeContinuation_proofs

\* A save that neither takes nor gives back a claim, nor reopens what is spent.
HarmlessSave(c, row) ==
    /\ checkpoint[c].status \notin {"absent", "purged", "launching"}
    /\ row.status \in {"draft", "approved", "expired"}
    /\ checkpoint[c].status \in {"completed", "expired"} => row.status = "expired"
    /\ checkpoint' = [checkpoint EXCEPT ![c] = row]
    /\ launch' = launch

\* The effect of a step on the two tables.
StoreStep ==
    \/ UNCHANGED <<checkpoint, launch>>
    \/ \E c \in Checkpoints, row \in CheckpointRow :
         /\ row.status = "draft"
         /\ InsertCheckpoint(c, row)
    \/ \E c \in Checkpoints, row \in CheckpointRow : HarmlessSave(c, row)
    \/ \E L \in SUBSET SettledLeases, C \in SUBSET Checkpoints :
         /\ \A c \in C : checkpoint[c].status # "launching"
         /\ DeleteRows(L, C)
    \/ \E l \in Leases, p \in Profiles, j \in Projects : PrepareLaunch(l, p, j)
    \/ \E l \in Leases, c \in Checkpoints, p, s \in Profiles, r \in Revisions :
         PrepareHandoffLaunch(l, p, c, r, s, boot)
    \/ \E l \in Leases : MarkStarted(l)
    \/ \E l \in Leases, t \in Nat : MarkExited(l, t)
    \/ \E S \in SUBSET Leases :
         /\ \A l \in S : launch[l].state \in OpenStates
         /\ AbandonLeases(S)

LEMMA SaveIsHarmless ==
  ASSUME IInv, op.busy, NEW row \in CheckpointRow,
         SaveCheckpoint(op.cp, op.seen, row),
         op.seen.status # "launching",
         row.status \in {"draft", "approved", "expired"},
         op.seen.status \in {"completed", "expired"} => row.status = "expired"
  PROVE  StoreStep
<1>1. op.cp \in Checkpoints
  BY LoadedRowType DEF IInv
<1>2. op.seen.status \notin {"absent", "purged"}
  BY DEF IInv, LoadedRowKept
<1>3. HarmlessSave(op.cp, row)
  BY <1>2 DEF SaveCheckpoint, HarmlessSave
<1> QED BY <1>1, <1>3 DEF StoreStep

LEMMA CheckpointStoreStep == ASSUME IInv, CheckpointStep PROVE StoreStep
<1>1. ASSUME NEW c \in Checkpoints, Capture(c) PROVE StoreStep
  <2>1. PICK j \in Projects, r \in Revisions, d \in Retentions :
          InsertCheckpoint(c, [status |-> "draft", meta |-> "draft", rev |-> r,
                               project |-> j, source |-> "repository-first",
                               created |-> clock, due |-> DueDate(clock, d)])
    BY <1>1 DEF Capture
  <2>2. clock \in Nat /\ DueDate(clock, d) \in Nat \cup {None}
    BY ServiceAssumption DEF DueDate, IInv, TypeOK, StoreTypeOK
  <2>3. [status |-> "draft", meta |-> "draft", rev |-> r, project |-> j,
         source |-> "repository-first", created |-> clock,
         due |-> DueDate(clock, d)] \in CheckpointRow
    BY <2>2 DEF CheckpointRow
  <2> QED BY <2>1, <2>3 DEF StoreStep
<1>2. ASSUME NEW c \in Checkpoints, LoadCheckpoint(c) PROVE StoreStep
  BY <1>2 DEF LoadCheckpoint, storeVars, StoreStep
<1>3. CASE ExpireCheckpoint
  <2> DEFINE expired == [op.seen EXCEPT !.status = "expired", !.meta = "expired"]
  <2>1. op.busy /\ op.seen.status # "launching" /\ SaveCheckpoint(op.cp, op.seen, expired)
    BY <1>3 DEF ExpireCheckpoint
  <2>2. op.seen \in CheckpointRow
    BY <2>1, LoadedRowType DEF IInv
  <2>3. expired \in CheckpointRow /\ expired.status = "expired"
    BY <2>2 DEF CheckpointRow
  <2> HIDE DEF expired
  <2> QED BY <2>1, <2>3, SaveIsHarmless
<1>4. CASE Edit
  <2>1. PICK r \in Revisions :
          SaveSeen([op.seen EXCEPT !.status = "draft", !.meta = "draft", !.rev = r])
    BY <1>4 DEF Edit
  <2> DEFINE row == [op.seen EXCEPT !.status = "draft", !.meta = "draft", !.rev = r]
  <2>2. op.busy /\ Editable
    BY <1>4 DEF Edit
  <2>3. op.seen \in CheckpointRow
    BY <2>2, LoadedRowType DEF IInv
  <2>4. row \in CheckpointRow /\ row.status = "draft"
    BY <2>3 DEF CheckpointRow
  <2>5. SaveCheckpoint(op.cp, op.seen, row)
    BY <2>1 DEF SaveSeen
  <2> HIDE DEF row
  <2> QED BY <2>2, <2>4, <2>5, SaveIsHarmless DEF Editable
<1>5. CASE Approve
  <2> DEFINE row == [op.seen EXCEPT !.status = "approved", !.meta = "approved"]
  <2>1. op.busy /\ Editable /\ SaveCheckpoint(op.cp, op.seen, row)
    BY <1>5 DEF Approve, SaveSeen
  <2>2. op.seen \in CheckpointRow
    BY <2>1, LoadedRowType DEF IInv
  <2>3. row \in CheckpointRow /\ row.status = "approved"
    BY <2>2 DEF CheckpointRow
  <2> HIDE DEF row
  <2> QED BY <2>1, <2>3, SaveIsHarmless DEF Editable
<1>6. CASE ApproveAssisted
  <2>1. PICK r \in Revisions, d \in Retentions :
          SaveSeen([op.seen EXCEPT !.status = "approved", !.meta = "approved",
                      !.rev = r, !.source = "transcript-assisted",
                      !.due = DueDate(op.seen.created, d)])
    BY <1>6 DEF ApproveAssisted
  <2> DEFINE row == [op.seen EXCEPT !.status = "approved", !.meta = "approved",
                       !.rev = r, !.source = "transcript-assisted",
                       !.due = DueDate(op.seen.created, d)]
  <2>2. op.busy /\ op.seen.status = "draft"
    BY <1>6 DEF ApproveAssisted
  <2>3. op.seen \in CheckpointRow
    BY <2>2, LoadedRowType DEF IInv
  <2>4. DueDate(op.seen.created, d) \in Nat \cup {None}
    BY <2>3, ServiceAssumption DEF DueDate, CheckpointRow
  <2>5. row \in CheckpointRow /\ row.status = "approved"
    BY <2>3, <2>4 DEF CheckpointRow
  <2>6. SaveCheckpoint(op.cp, op.seen, row)
    BY <2>1 DEF SaveSeen
  <2> HIDE DEF row
  <2> QED BY <2>2, <2>5, <2>6, SaveIsHarmless
<1>7. CASE Purge
  <2>1. /\ op.cp \in Checkpoints
        /\ checkpoint[op.cp].status # "launching"
        /\ DeleteRows({}, {op.cp})
    BY <1>7, LoadedRowType DEF Purge, PurgeCheckpoint, IInv
  <2> QED BY <2>1 DEF StoreStep
<1>8. CASE EndOp
  BY <1>8 DEF EndOp, storeVars, StoreStep
<1>9. CASE PurgeHistory
  <2>1. PICK L \in SUBSET SettledLeases, C \in SUBSET Checkpoints : PurgeAnalytics(L, C)
    BY <1>9 DEF PurgeHistory
  <2>2. (\A c \in C : checkpoint[c].status # "launching") /\ DeleteRows(L, C)
    BY <2>1 DEF PurgeAnalytics
  <2> QED BY <2>2 DEF StoreStep
<1>10. CASE ExpireHistory
  <2>1. PICK L \in SUBSET SettledLeases : DeleteRows(L, {})
    BY <1>10 DEF ExpireHistory, RetainAnalytics
  <2> QED BY <2>1 DEF StoreStep
<1> QED BY <1>1, <1>2, <1>3, <1>4, <1>5, <1>6, <1>7, <1>8, <1>9, <1>10
        DEF CheckpointStep

LEMMA ReconcileStoreStep == ASSUME IInv, Reconcile PROVE StoreStep
<1>1. PICK D \in SUBSET DeadRunning : AbandonLeases(FromEarlierBoot(boot) \cup D)
  BY DEF Reconcile, ReconcileManagedLaunches
<1>2. /\ FromEarlierBoot(boot) \cup D \in SUBSET Leases
      /\ \A l \in FromEarlierBoot(boot) \cup D : launch[l].state \in OpenStates
  BY DEF FromEarlierBoot, DeadRunning, OpenStates
<1> QED BY <1>1, <1>2 DEF StoreStep

LEMMA PrepareStoreStep == ASSUME IInv, PrepareStep PROVE StoreStep
<1>1. ASSUME NEW l \in Leases, NEW p \in Profiles, NEW j \in Projects, Launch(l, p, j)
      PROVE  StoreStep
  BY <1>1 DEF Launch, StoreStep
<1>2. CASE ReconcileOnly
  BY <1>2, ReconcileStoreStep DEF ReconcileOnly
<1>3. ASSUME NEW h \in Handoffs, BeginHandoff(h) PROVE StoreStep
  BY <1>3, ReconcileStoreStep DEF BeginHandoff
<1>4. ASSUME NEW h \in Handoffs, ReconcileAgain(h) PROVE StoreStep
  BY <1>4, ReconcileStoreStep DEF ReconcileAgain
<1>5. ASSUME NEW h \in Handoffs, NEW l \in Leases, ClaimCheckpoint(h, l)
      PROVE  StoreStep
  <2>1. /\ journey[h].pc = "rechecked"
        /\ PrepareHandoffLaunch(l, journey[h].target, journey[h].cp, journey[h].rev,
                                journey[h].source, boot)
    BY <1>5 DEF ClaimCheckpoint
  <2>2. journey[h] \in Journey
    BY DEF IInv, TypeOK
  <2>3. /\ journey[h].cp \in Checkpoints
        /\ journey[h].rev \in Revisions
        /\ journey[h].target \in Profiles
        /\ journey[h].source \in Profiles
    BY <2>1, <2>2 DEF Journey
  <2> QED BY <2>1, <2>3 DEF StoreStep
<1>6. ASSUME NEW h \in Handoffs,
             \/ \E c \in Checkpoints, r \in Revisions, p \in Profiles :
                  CheckCheckpoint(h, c, r, p)
             \/ CheckSource(h)
             \/ RecheckCheckpoint(h)
             \/ \E s \in Profiles : RecheckSource(h, s)
             \/ EndHandoff(h)
      PROVE  StoreStep
  BY <1>6 DEF CheckCheckpoint, CheckSource, RecheckCheckpoint, RecheckSource,
              EndHandoff, storeVars, StoreStep
<1> QED BY <1>1, <1>2, <1>3, <1>4, <1>5, <1>6 DEF PrepareStep

LEMMA ForegroundStoreStep == ASSUME IInv, ForegroundStep PROVE StoreStep
<1>1. PICK l \in Leases :
        \/ StartChild(l) \/ FailToStart(l) \/ StartAcknowledged(l)
        \/ LeaveChild(l) \/ ChildExits(l) \/ ReportEnd(l) \/ LoseReport(l)
        \/ HandleStarted(l) \/ HandleExited(l) \/ HandleAbandoned(l)
  BY DEF ForegroundStep
<1>2. CASE \/ StartChild(l) \/ FailToStart(l) \/ StartAcknowledged(l)
           \/ LeaveChild(l) \/ ChildExits(l) \/ ReportEnd(l) \/ LoseReport(l)
  BY <1>2 DEF StartChild, FailToStart, StartAcknowledged, LeaveChild, ChildExits,
              ReportEnd, LoseReport, storeVars, StoreStep
<1>3. CASE HandleStarted(l)
  BY <1>3 DEF HandleStarted, StoreStep
<1>4. CASE HandleExited(l)
  <2>1. PICK t \in report[l].at .. clock : MarkExited(l, t)
    BY <1>4 DEF HandleExited
  <2>2. report[l].at \in Nat /\ clock \in Nat
    BY DEF IInv, TypeOK, StoreTypeOK, Report
  <2>3. t \in Nat
    BY <2>1, <2>2
  <2> QED BY <2>1, <2>3 DEF StoreStep
<1>5. CASE HandleAbandoned(l)
  <2>1. launch[l].state \in OpenStates /\ AbandonLeases({l})
    BY <1>5 DEF HandleAbandoned, MarkAbandoned
  <2> QED BY <2>1 DEF StoreStep
<1> QED BY <1>1, <1>2, <1>3, <1>4, <1>5

LEMMA EnvironmentStoreStep == ASSUME IInv, EnvironmentStep PROVE StoreStep
BY ReconcileStoreStep
   DEF EnvironmentStep, ServiceStops, ServiceStarts, Reboot, Tick, storeVars, StoreStep

\* Every step does one transaction of the store, or none.
LEMMA NextStoreStep == ASSUME IInv, [Next]_vars PROVE StoreStep
<1>1. CASE UNCHANGED vars
  BY <1>1 DEF vars, StoreStep
<1> QED BY <1>1, CheckpointStoreStep, PrepareStoreStep, ForegroundStoreStep,
           EnvironmentStoreStep DEF Next

-----------------------------------------------------------------------------
(* Claims                                                                  *)

\* Only the claiming transaction makes a checkpoint launching.
LEMMA OnlyClaimsLaunch ==
  ASSUME IInv, StoreStep, NEW c \in Checkpoints,
         checkpoint[c].status # "launching", checkpoint'[c].status = "launching"
  PROVE  \E l \in Leases, p, s \in Profiles, r \in Revisions :
            PrepareHandoffLaunch(l, p, c, r, s, boot)
<1>1. checkpoint \in [Checkpoints -> CheckpointRow]
  BY DEF IInv, TypeOK, StoreTypeOK
<1>2. ASSUME NEW d \in Checkpoints, NEW row \in CheckpointRow,
             row.status # "launching", checkpoint' = [checkpoint EXCEPT ![d] = row]
      PROVE  FALSE
  BY <1>1, <1>2
<1>3. ASSUME NEW L \in SUBSET SettledLeases, NEW C \in SUBSET Checkpoints,
             DeleteRows(L, C)
      PROVE  FALSE
  <2>1. checkpoint'[c] = IF c \in C
                         THEN [AbsentCheckpoint EXCEPT !.status = "purged",
                                 !.project = checkpoint[c].project]
                         ELSE checkpoint[c]
    BY <1>3 DEF DeleteRows
  <2> QED BY <2>1 DEF AbsentCheckpoint
<1>4. ASSUME NEW l \in Leases, MarkStarted(l) PROVE FALSE
  <2>1. \/ checkpoint' = checkpoint
        \/ checkpoint' = [checkpoint EXCEPT ![launch[l].cp].status = "completed"]
    BY <1>4 DEF MarkStarted
  <2>2. CASE checkpoint' = [checkpoint EXCEPT ![launch[l].cp].status = "completed"]
    <3>1. checkpoint'[c] \in {checkpoint[c], [checkpoint[c] EXCEPT !.status = "completed"]}
      BY <1>1, <2>2
    <3> QED BY <1>1, <3>1 DEF CheckpointRow
  <2> QED BY <2>1, <2>2
<1>5. ASSUME NEW S \in SUBSET Leases, AbandonLeases(S) PROVE FALSE
  BY <1>5 DEF AbandonLeases
<1>6. ASSUME NEW l \in Leases, NEW d \in Checkpoints, NEW p \in Profiles,
             NEW s \in Profiles, NEW r \in Revisions,
             PrepareHandoffLaunch(l, p, d, r, s, boot)
      PROVE  PrepareHandoffLaunch(l, p, c, r, s, boot)
  <2>1. checkpoint' = [checkpoint EXCEPT ![d].status = "launching"]
    BY <1>6 DEF PrepareHandoffLaunch
  <2>2. c = d
    BY <1>1, <2>1
  <2> QED BY <1>6, <2>2
<1> QED BY <1>2, <1>3, <1>4, <1>5, <1>6
        DEF StoreStep, InsertCheckpoint, HarmlessSave, PrepareLaunch, MarkExited

LEMMA ClaimIsQuiet ==
  ASSUME IInv, NEW l \in Leases, NEW c \in Checkpoints, NEW p \in Profiles,
         NEW s \in Profiles, NEW r \in Revisions,
         PrepareHandoffLaunch(l, p, c, r, s, boot)
  PROVE  /\ \A k \in alive : launch[k].project # checkpoint[c].project
         /\ ~Overdue(checkpoint[c], clock)
         /\ \E m, k \in Leases :
              /\ launch'[m].cp = c
              /\ launch[m].state = "unused"
              /\ launch[k].state = "exited"
              /\ launch[k].project = checkpoint[c].project
              /\ launch[k].profile # launch'[m].profile
<1>1. /\ ~Overdue(checkpoint[c], clock)
      /\ Unresolved(checkpoint[c].project) = {}
      /\ \E k \in SourceRows(checkpoint[c].project) : launch[k].profile = s
      /\ s # p
      /\ InsertPending(l, p, checkpoint[c].project, c, r, boot)
  BY DEF PrepareHandoffLaunch, ReadyForHandoff, DefinitiveSource
<1>2. ASSUME NEW k \in alive, launch[k].project = checkpoint[c].project PROVE FALSE
  <2>1. k \in Leases /\ launch[k].state \in OpenStates
    BY DEF IInv, TypeOK, SettledHasNoChild
  <2>2. k \in Unresolved(checkpoint[c].project)
    BY <1>2, <2>1 DEF Unresolved, SourceRows, OpenStates
  <2> QED BY <1>1, <2>2
<1>3. PICK k \in SourceRows(checkpoint[c].project) : launch[k].profile = s
  BY <1>1
<1>4. k \in Leases /\ launch[k].project = checkpoint[c].project /\ launch[k].state = "exited"
  BY <1>1 DEF SourceRows, Unresolved
<1>5. launch[l].state = "unused" /\ launch'[l].cp = c /\ launch'[l].profile = p
  BY <1>1 DEF InsertPending, IsNextLease, BlankLaunch, IInv, TypeOK, StoreTypeOK
<1> QED BY <1>1, <1>2, <1>3, <1>4, <1>5

\* Claims are taken only in a project where no Codex runs and another profile
\* has worked: the last check and the claim are one transaction, and a live
\* child always has an open lease.
THEOREM ClaimsFromQuietProjects == Spec => ClaimFromQuietProject
<1> DEFINE Claimed(c) ==
      checkpoint[c].status # "launching" /\ checkpoint'[c].status = "launching" =>
         /\ \A l \in alive : launch[l].project # checkpoint[c].project
         /\ ~Overdue(checkpoint[c], clock)
         /\ \E l, k \in Leases :
              /\ launch'[l].cp = c
              /\ launch[l].state = "unused"
              /\ launch[k].state = "exited"
              /\ launch[k].project = checkpoint[c].project
              /\ launch[k].profile # launch'[l].profile
<1>1. ASSUME IInv, [Next]_vars PROVE [\A c \in Checkpoints : Claimed(c)]_vars
  <2>1. ASSUME NEW c \in Checkpoints PROVE Claimed(c)
    <3> SUFFICES ASSUME checkpoint[c].status # "launching",
                        checkpoint'[c].status = "launching"
                 PROVE  /\ \A l \in alive : launch[l].project # checkpoint[c].project
                        /\ ~Overdue(checkpoint[c], clock)
                        /\ \E l, k \in Leases :
                             /\ launch'[l].cp = c
                             /\ launch[l].state = "unused"
                             /\ launch[k].state = "exited"
                             /\ launch[k].project = checkpoint[c].project
                             /\ launch[k].profile # launch'[l].profile
      OBVIOUS
    <3>1. PICK l \in Leases, p \in Profiles, s \in Profiles, r \in Revisions :
            PrepareHandoffLaunch(l, p, c, r, s, boot)
      BY <1>1, NextStoreStep, OnlyClaimsLaunch
    <3> QED BY <1>1, <3>1, ClaimIsQuiet
  <2> QED BY <2>1
<1> QED BY <1>1, Invariance, PTL DEF Spec, ClaimFromQuietProject

-----------------------------------------------------------------------------
(* Refinement of HandoffLedger                                             *)

Stage  == [c \in Checkpoints |-> StageOf(c)]
Holder == [c \in Checkpoints |-> HeldBy(c)]
Issued == {l \in Leases : launch[l].state # "unused"}

LEMMA ZeroIsNoLease == 0 \notin Leases
BY StoreAssumption DEF Leases

\* The pending lease of a launching checkpoint is its holder.
LEMMA HolderIs ==
  ASSUME ClaimsExclusive, StoreAssumption, NEW c \in Checkpoints, NEW l \in Leases,
         checkpoint[c].status = "launching",
         launch[l].state = "pending", launch[l].cp = c
  PROVE  HeldBy(c) = l
<1> DEFINE P(k) == launch[k].state = "pending" /\ launch[k].cp = c
<1>1. c # None
  BY StoreAssumption
<1>2. \A k \in Leases : P(k) => k = l
  BY <1>1 DEF ClaimsExclusive
<1>3. (CHOOSE k \in Leases : P(k)) = l
  BY <1>2
<1> QED BY <1>3 DEF HeldBy

LEMMA NextHolderIs ==
  ASSUME ClaimsExclusive', StoreAssumption, NEW c \in Checkpoints, NEW l \in Leases,
         checkpoint'[c].status = "launching",
         launch'[l].state = "pending", launch'[l].cp = c
  PROVE  HeldBy(c)' = l
<1> DEFINE P(k) == launch'[k].state = "pending" /\ launch'[k].cp = c
<1>1. c # None
  BY StoreAssumption
<1>2. \A k \in Leases : P(k) => k = l
  BY <1>1 DEF ClaimsExclusive
<1>3. (CHOOSE k \in Leases : P(k)) = l
  BY <1>2
<1> QED BY <1>3 DEF HeldBy

\* Nobody's claim changes hands if the launching checkpoints and their pending
\* leases stay what they are.
LEMMA HolderFrame ==
  ASSUME ClaimsExclusive, ClaimsExclusive', NEW c \in Checkpoints,
         checkpoint'[c].status = "launching" <=> checkpoint[c].status = "launching",
         \A l \in Leases : launch[l].state = "pending" /\ launch[l].cp = c =>
                           launch'[l].state = "pending" /\ launch'[l].cp = c
  PROVE  HeldBy(c)' = HeldBy(c)
<1>1. CASE checkpoint[c].status = "launching"
  <2>1. PICK l \in Leases : launch[l].state = "pending" /\ launch[l].cp = c
    BY <1>1 DEF ClaimsExclusive
  <2>2. HeldBy(c) = l
    BY <1>1, <2>1, HolderIs, StoreAssumption
  <2>3. HeldBy(c)' = l
    BY <1>1, <2>1, NextHolderIs, StoreAssumption
  <2> QED BY <2>2, <2>3
<1>2. CASE checkpoint[c].status # "launching"
  BY <1>2 DEF HeldBy
<1> QED BY <1>1, <1>2

LEMMA InitRefines == Init => Ledger!LedgerInit
<1> SUFFICES ASSUME Init PROVE Ledger!LedgerInit
  OBVIOUS
<1>1. \A c \in Checkpoints : checkpoint[c].status = "absent"
  BY DEF Init, StoreInit, AbsentCheckpoint
<1>2. Stage = [c \in Checkpoints |-> "open"]
  BY <1>1 DEF Stage, StageOf
<1>3. Holder = [c \in Checkpoints |-> 0]
  BY <1>1 DEF Holder, HeldBy
<1>4. Issued = {}
  BY DEF Issued, Init, StoreInit, BlankLaunch
<1> QED BY <1>2, <1>3, <1>4 DEF Ledger!LedgerInit, Stage, Holder, Issued

\* The steps of the ledger, in terms of the mapping.
LEMMA Stutters ==
  ASSUME Stage' = Stage, Holder' = Holder, Issued' = Issued
  PROVE  UNCHANGED Ledger!ledgerVars
BY DEF Ledger!ledgerVars, Stage, Holder, Issued

LEMMA Issues ==
  ASSUME NEW l \in Leases, l \notin Issued, Issued' = Issued \cup {l},
         Stage' = Stage, Holder' = Holder
  PROVE  Ledger!LedgerNext
BY DEF Ledger!LedgerNext, Ledger!Issue, Stage, Holder, Issued

LEMMA Claims ==
  ASSUME NEW c \in Checkpoints, NEW l \in Leases, Stage[c] = "open", l \notin Issued,
         Stage' = [Stage EXCEPT ![c] = "claimed"],
         Holder' = [Holder EXCEPT ![c] = l],
         Issued' = Issued \cup {l}
  PROVE  Ledger!LedgerNext
BY DEF Ledger!LedgerNext, Ledger!Claim, Stage, Holder, Issued

LEMMA Releases ==
  ASSUME NEW C \in SUBSET Checkpoints,
         \A c \in C : Stage[c] = "claimed",
         Stage' = [c \in Checkpoints |-> IF c \in C THEN "open" ELSE Stage[c]],
         Holder' = [c \in Checkpoints |-> IF c \in C THEN 0 ELSE Holder[c]],
         Issued' = Issued
  PROVE  Ledger!LedgerNext
BY DEF Ledger!LedgerNext, Ledger!Release, Stage, Holder, Issued

LEMMA Delivers ==
  ASSUME NEW c \in Checkpoints, Stage[c] = "claimed",
         Stage' = [Stage EXCEPT ![c] = "spent"],
         Holder' = [Holder EXCEPT ![c] = 0],
         Issued' = Issued
  PROVE  Ledger!LedgerNext
BY DEF Ledger!LedgerNext, Ledger!Deliver, Stage, Holder, Issued

LEMMA Retires ==
  ASSUME NEW C \in SUBSET Checkpoints,
         \A c \in C : Stage[c] # "claimed",
         Stage' = [c \in Checkpoints |-> IF c \in C THEN "spent" ELSE Stage[c]],
         Holder' = Holder, Issued' = Issued
  PROVE  Ledger!LedgerNext
BY DEF Ledger!LedgerNext, Ledger!Retire, Stage, Holder, Issued

\* How the transactions of the store appear in the ledger.
SimStep == Ledger!LedgerNext \/ UNCHANGED Ledger!ledgerVars

LEMMA InsertSim ==
  ASSUME IInv, ClaimsExclusive', NEW c \in Checkpoints, NEW row \in CheckpointRow,
         row.status = "draft", InsertCheckpoint(c, row)
  PROVE  SimStep
<1>1. /\ checkpoint[c].status = "absent"
      /\ checkpoint' = [checkpoint EXCEPT ![c] = row]
      /\ launch' = launch
  BY DEF InsertCheckpoint
<1>2. checkpoint'[c] = row /\ \A d \in Checkpoints : d # c => checkpoint'[d] = checkpoint[d]
  BY <1>1 DEF IInv, TypeOK, StoreTypeOK
<1>3. \A d \in Checkpoints : StageOf(d)' = StageOf(d)
  BY <1>1, <1>2 DEF StageOf
<1>4. \A d \in Checkpoints : HeldBy(d)' = HeldBy(d)
  BY <1>1, <1>2, HolderFrame DEF IInv, StoreInv
<1>5. Stage' = Stage /\ Holder' = Holder /\ Issued' = Issued
  BY <1>1, <1>3, <1>4 DEF Stage, Holder, Issued
<1> QED BY <1>5, Stutters DEF SimStep

LEMMA SaveSim ==
  ASSUME IInv, ClaimsExclusive', NEW c \in Checkpoints, NEW row \in CheckpointRow,
         HarmlessSave(c, row)
  PROVE  SimStep
<1>1. /\ checkpoint[c].status \notin {"absent", "purged", "launching"}
      /\ row.status \in {"draft", "approved", "expired"}
      /\ checkpoint[c].status \in {"completed", "expired"} => row.status = "expired"
      /\ launch' = launch
  BY DEF HarmlessSave
<1>2. checkpoint'[c] = row /\ \A d \in Checkpoints : d # c => checkpoint'[d] = checkpoint[d]
  BY DEF HarmlessSave, IInv, TypeOK, StoreTypeOK
<1>3. checkpoint[c] \in CheckpointRow
  BY DEF IInv, TypeOK, StoreTypeOK
<1>4. \A d \in Checkpoints : HeldBy(d)' = HeldBy(d)
  BY <1>1, <1>2, HolderFrame DEF IInv, StoreInv
<1>5. Holder' = Holder /\ Issued' = Issued
  BY <1>1, <1>4 DEF Holder, Issued
<1>6. CASE row.status = "expired"
  <2> DEFINE C == {c}
  <2>1. Stage[c] # "claimed" /\ StageOf(c)' = "spent"
    BY <1>1, <1>2, <1>3, <1>6 DEF Stage, StageOf, CheckpointRow
  <2>2. \A d \in Checkpoints : StageOf(d)' = IF d \in C THEN "spent" ELSE StageOf(d)
    BY <1>2, <2>1 DEF StageOf
  <2>3. C \in SUBSET Checkpoints /\ \A d \in C : Stage[d] # "claimed"
    BY <2>1
  <2> HIDE DEF C
  <2>4. Stage' = [d \in Checkpoints |-> IF d \in C THEN "spent" ELSE Stage[d]]
    BY <2>2 DEF Stage
  <2>5. Ledger!LedgerNext
    BY <1>5, <2>3, <2>4, Retires
  <2> QED BY <2>5 DEF SimStep
<1>7. CASE row.status # "expired"
  <2>1. StageOf(c) = "open" /\ StageOf(c)' = "open"
    BY <1>1, <1>2, <1>3, <1>7 DEF StageOf, CheckpointRow
  <2>2. \A d \in Checkpoints : StageOf(d)' = StageOf(d)
    BY <1>2, <2>1 DEF StageOf
  <2>3. Stage' = Stage
    BY <2>2 DEF Stage
  <2> QED BY <1>5, <2>3, Stutters DEF SimStep
<1> QED BY <1>6, <1>7

LEMMA DeleteSim ==
  ASSUME IInv, ClaimsExclusive', NEW L \in SUBSET SettledLeases,
         NEW C \in SUBSET Checkpoints,
         \A c \in C : checkpoint[c].status # "launching",
         DeleteRows(L, C)
  PROVE  SimStep
<1>1. \A l \in Leases :
        launch'[l] = IF l \in L THEN [BlankLaunch EXCEPT !.state = "deleted"]
                     ELSE IF launch[l].cp \in C
                     THEN [launch[l] EXCEPT !.cp = None, !.rev = None]
                     ELSE launch[l]
  BY DEF DeleteRows
<1>2. \A c \in Checkpoints :
        /\ c \in C => checkpoint'[c].status = "purged"
        /\ c \notin C => checkpoint'[c] = checkpoint[c]
  BY DEF DeleteRows, AbsentCheckpoint
<1>3. \A l \in Leases : launch'[l].state # "unused" <=> launch[l].state # "unused"
  <2> SUFFICES ASSUME NEW l \in Leases
               PROVE  launch'[l].state # "unused" <=> launch[l].state # "unused"
    OBVIOUS
  <2>1. launch[l] \in LaunchRow
    BY DEF IInv, TypeOK, StoreTypeOK
  <2>2. CASE l \in L
    BY <1>1, <2>2 DEF BlankLaunch, SettledLeases, SettledStates
  <2>3. CASE l \notin L
    BY <1>1, <2>1, <2>3 DEF LaunchRow
  <2> QED BY <2>2, <2>3
<1>4. ASSUME NEW c \in Checkpoints PROVE HeldBy(c)' = HeldBy(c)
  <2>1. CASE c \in C
    BY <1>2, <2>1 DEF HeldBy
  <2>2. CASE c \notin C
    <3>1. \A l \in Leases : launch[l].state = "pending" /\ launch[l].cp = c =>
                            launch'[l].state = "pending" /\ launch'[l].cp = c
      BY <1>1, <2>2 DEF SettledLeases, SettledStates
    <3> QED BY <1>2, <2>2, <3>1, HolderFrame DEF IInv, StoreInv
  <2> QED BY <2>1, <2>2
<1>5. Holder' = Holder /\ Issued' = Issued
  BY <1>3, <1>4 DEF Holder, Issued
<1>6. \A c \in C : Stage[c] # "claimed"
  BY DEF Stage, StageOf
<1>7. \A c \in Checkpoints : StageOf(c)' = IF c \in C THEN "spent" ELSE StageOf(c)
  BY <1>2 DEF StageOf
<1>8. Stage' = [c \in Checkpoints |-> IF c \in C THEN "spent" ELSE Stage[c]]
  BY <1>7 DEF Stage
<1> QED BY <1>5, <1>6, <1>8, Retires DEF SimStep

\* A row inserted by either kind of launch.
LEMMA InsertedRow ==
  ASSUME IInv, NEW l \in Leases, NEW p, NEW j, NEW c, NEW r, NEW b,
         InsertPending(l, p, j, c, r, b)
  PROVE  /\ launch[l].state = "unused"
         /\ launch'[l].state = "pending"
         /\ launch'[l].cp = c
         /\ \A k \in Leases : k # l => launch'[k] = launch[k]
         /\ l \notin Issued
         /\ Issued' = Issued \cup {l}
<1>1. /\ launch[l].state = "unused"
      /\ launch'[l].state = "pending"
      /\ launch'[l].cp = c
      /\ \A k \in Leases : k # l => launch'[k] = launch[k]
  BY DEF InsertPending, IsNextLease, BlankLaunch, IInv, TypeOK, StoreTypeOK
<1>2. l \notin Issued /\ Issued' = Issued \cup {l}
  BY <1>1 DEF Issued
<1> QED BY <1>1, <1>2

LEMMA LaunchSim ==
  ASSUME IInv, ClaimsExclusive', NEW l \in Leases, NEW p \in Profiles, NEW j \in Projects,
         PrepareLaunch(l, p, j)
  PROVE  SimStep
<1>1. InsertPending(l, p, j, None, None, None) /\ checkpoint' = checkpoint
  BY DEF PrepareLaunch
<1>2. /\ launch[l].state = "unused"
      /\ \A k \in Leases : k # l => launch'[k] = launch[k]
      /\ l \notin Issued
      /\ Issued' = Issued \cup {l}
  BY <1>1, InsertedRow
<1>3. \A c \in Checkpoints : HeldBy(c)' = HeldBy(c)
  BY <1>1, <1>2, HolderFrame DEF IInv, StoreInv
<1>4. Stage' = Stage /\ Holder' = Holder
  BY <1>1, <1>3 DEF Stage, StageOf, Holder
<1> QED BY <1>2, <1>4, Issues DEF SimStep

LEMMA ClaimSim ==
  ASSUME IInv, ClaimsExclusive', NEW l \in Leases, NEW c \in Checkpoints,
         NEW p \in Profiles, NEW s \in Profiles, NEW r \in Revisions,
         PrepareHandoffLaunch(l, p, c, r, s, boot)
  PROVE  SimStep
<1>1. /\ checkpoint[c].status = "approved"
      /\ checkpoint' = [checkpoint EXCEPT ![c].status = "launching"]
      /\ InsertPending(l, p, checkpoint[c].project, c, r, boot)
  BY DEF PrepareHandoffLaunch, ReadyForHandoff
<1>2. /\ launch[l].state = "unused"
      /\ launch'[l].state = "pending"
      /\ launch'[l].cp = c
      /\ \A k \in Leases : k # l => launch'[k] = launch[k]
      /\ l \notin Issued
      /\ Issued' = Issued \cup {l}
  BY <1>1, InsertedRow
<1>3. /\ checkpoint[c] \in CheckpointRow
      /\ checkpoint'[c] = [checkpoint[c] EXCEPT !.status = "launching"]
      /\ \A d \in Checkpoints : d # c => checkpoint'[d] = checkpoint[d]
  BY <1>1 DEF IInv, TypeOK, StoreTypeOK
<1>4. checkpoint'[c].status = "launching"
  BY <1>3 DEF CheckpointRow
<1>5. HeldBy(c)' = l
  BY <1>2, <1>4, NextHolderIs, StoreAssumption
<1>6. \A d \in Checkpoints : d # c => HeldBy(d)' = HeldBy(d)
  BY <1>2, <1>3, HolderFrame DEF IInv, StoreInv
<1>7. Holder' = [Holder EXCEPT ![c] = l]
  BY <1>5, <1>6 DEF Holder
<1>8. StageOf(c) = "open" /\ StageOf(c)' = "claimed"
  BY <1>1, <1>4 DEF StageOf
<1>9. \A d \in Checkpoints : d # c => StageOf(d)' = StageOf(d)
  BY <1>3 DEF StageOf
<1>10. Stage[c] = "open" /\ Stage' = [Stage EXCEPT ![c] = "claimed"]
  BY <1>8, <1>9 DEF Stage
<1> QED BY <1>2, <1>7, <1>10, Claims DEF SimStep

LEMMA StartSim ==
  ASSUME IInv, ClaimsExclusive', NEW l \in Leases, MarkStarted(l)
  PROVE  SimStep
<1>0. PICK c : c = launch[l].cp
  OBVIOUS
<1>1. /\ launch[l].state = "pending"
      /\ c # None => checkpoint[c].status = "launching"
      /\ launch' = [launch EXCEPT ![l].state = "running", ![l].pid = TRUE]
      /\ checkpoint' = IF c = None THEN checkpoint
                       ELSE [checkpoint EXCEPT ![c].status = "completed"]
  BY <1>0 DEF MarkStarted
<1>2. launch[l] \in LaunchRow /\ launch \in [Leases -> LaunchRow]
      /\ checkpoint \in [Checkpoints -> CheckpointRow]
  BY DEF IInv, TypeOK, StoreTypeOK
<1>3. c \in Checkpoints \cup {None}
  BY <1>0, <1>2 DEF LaunchRow
<1>4. launch'[l].state = "running" /\ \A k \in Leases : k # l => launch'[k] = launch[k]
  BY <1>1, <1>2 DEF LaunchRow
<1>5. Issued' = Issued
  BY <1>1, <1>4 DEF Issued
<1>6. CASE c = None
  <2>1. checkpoint' = checkpoint
    BY <1>1, <1>6
  <2>2. ASSUME NEW d \in Checkpoints PROVE HeldBy(d)' = HeldBy(d)
    <3>1. d # launch[l].cp
      BY <1>0, <1>6, StoreAssumption
    <3> QED BY <1>4, <2>1, <3>1, HolderFrame DEF IInv, StoreInv
  <2>3. Stage' = Stage /\ Holder' = Holder
    BY <2>1, <2>2 DEF Stage, StageOf, Holder
  <2> QED BY <1>5, <2>3, Stutters DEF SimStep
<1>7. CASE c # None
  <2>1. c \in Checkpoints /\ checkpoint[c].status = "launching"
    BY <1>1, <1>3, <1>7
  <2>2. /\ checkpoint'[c] = [checkpoint[c] EXCEPT !.status = "completed"]
        /\ \A d \in Checkpoints : d # c => checkpoint'[d] = checkpoint[d]
    BY <1>1, <1>2, <1>7, <2>1
  <2>3. checkpoint'[c].status = "completed"
    BY <1>2, <2>1, <2>2 DEF CheckpointRow
  <2>4. StageOf(c) = "claimed" /\ StageOf(c)' = "spent" /\ HeldBy(c)' = 0
    BY <2>1, <2>3 DEF StageOf, HeldBy
  <2>5. ASSUME NEW d \in Checkpoints, d # c
        PROVE  StageOf(d)' = StageOf(d) /\ HeldBy(d)' = HeldBy(d)
    <3>1. d # launch[l].cp
      BY <1>0, <2>5
    <3>2. HeldBy(d)' = HeldBy(d)
      BY <1>4, <2>2, <2>5, <3>1, HolderFrame DEF IInv, StoreInv
    <3> QED BY <2>2, <2>5, <3>2 DEF StageOf
  <2>6. /\ Stage[c] = "claimed"
        /\ Stage' = [Stage EXCEPT ![c] = "spent"]
        /\ Holder' = [Holder EXCEPT ![c] = 0]
    BY <2>1, <2>4, <2>5 DEF Stage, Holder
  <2> QED BY <1>5, <2>1, <2>6, Delivers DEF SimStep
<1> QED BY <1>6, <1>7

LEMMA ExitSim ==
  ASSUME IInv, ClaimsExclusive', NEW l \in Leases, NEW t \in Nat, MarkExited(l, t)
  PROVE  SimStep
<1>1. /\ launch[l].state = "running"
      /\ launch' = [launch EXCEPT ![l].state = "exited", ![l].ended = t]
      /\ checkpoint' = checkpoint
  BY DEF MarkExited
<1>2. launch'[l].state = "exited" /\ \A k \in Leases : k # l => launch'[k] = launch[k]
  BY <1>1 DEF IInv, TypeOK, StoreTypeOK, LaunchRow
<1>3. \A c \in Checkpoints : HeldBy(c)' = HeldBy(c)
  BY <1>1, <1>2, HolderFrame DEF IInv, StoreInv
<1>4. Stage' = Stage /\ Holder' = Holder /\ Issued' = Issued
  BY <1>1, <1>2, <1>3 DEF Stage, StageOf, Holder, Issued
<1> QED BY <1>4, Stutters DEF SimStep

LEMMA AbandonSim ==
  ASSUME IInv, ClaimsExclusive', NEW S \in SUBSET Leases,
         \A l \in S : launch[l].state \in OpenStates,
         AbandonLeases(S)
  PROVE  SimStep
<1> DEFINE C == {c \in Checkpoints : /\ checkpoint[c].status = "launching"
                                     /\ \E l \in S : launch[l].cp = c}
<1>1. \A l \in Leases : launch'[l] = IF l \in S
                                     THEN [launch[l] EXCEPT !.state = "abandoned"]
                                     ELSE launch[l]
  BY DEF AbandonLeases
<1>2. \A c \in Checkpoints : checkpoint'[c] = IF c \in C
                                              THEN [checkpoint[c] EXCEPT !.status = "approved"]
                                              ELSE checkpoint[c]
  BY DEF AbandonLeases
<1>3. \A c \in Checkpoints : checkpoint[c] \in CheckpointRow
  BY DEF IInv, TypeOK, StoreTypeOK
<1>4. \A l \in Leases : launch[l] \in LaunchRow
  BY DEF IInv, TypeOK, StoreTypeOK
<1>5. \A c \in C : c \in Checkpoints /\ checkpoint[c].status = "launching"
                   /\ checkpoint'[c].status = "approved"
  BY <1>2, <1>3 DEF CheckpointRow
<1>6. ASSUME NEW c \in Checkpoints, c \notin C PROVE HeldBy(c)' = HeldBy(c)
  <2>1. checkpoint'[c] = checkpoint[c]
    BY <1>2, <1>6
  <2>2. CASE checkpoint[c].status = "launching"
    <3>1. \A l \in S : launch[l].cp # c
      BY <1>6, <2>2
    <3>2. \A l \in Leases : launch[l].state = "pending" /\ launch[l].cp = c =>
                            launch'[l].state = "pending" /\ launch'[l].cp = c
      BY <1>1, <3>1
    <3> HIDE DEF C
    <3> QED BY <2>1, <3>2, HolderFrame DEF IInv, StoreInv
  <2>3. CASE checkpoint[c].status # "launching"
    BY <2>1, <2>3 DEF HeldBy
  <2> QED BY <2>2, <2>3
<1>7. Issued' = Issued
  <2>1. ASSUME NEW l \in Leases
        PROVE  launch'[l].state # "unused" <=> launch[l].state # "unused"
    <3>1. CASE l \in S
      BY <1>1, <1>4, <3>1 DEF LaunchRow, OpenStates
    <3>2. CASE l \notin S
      BY <1>1, <3>2
    <3> QED BY <3>1, <3>2
  <2> QED BY <2>1 DEF Issued
<1> HIDE DEF C
<1>8. \A c \in C : c \in Checkpoints /\ HeldBy(c)' = 0 /\ StageOf(c)' = "open"
                   /\ StageOf(c) = "claimed"
  BY <1>5 DEF HeldBy, StageOf
<1>9. \A c \in Checkpoints : c \notin C => StageOf(c)' = StageOf(c)
  BY <1>2 DEF StageOf
<1>10. Stage' = [c \in Checkpoints |-> IF c \in C THEN "open" ELSE Stage[c]]
  BY <1>8, <1>9 DEF Stage
<1>11. Holder' = [c \in Checkpoints |-> IF c \in C THEN 0 ELSE Holder[c]]
  BY <1>6, <1>8 DEF Holder
<1>12. C \in SUBSET Checkpoints /\ \A c \in C : Stage[c] = "claimed"
  BY <1>8 DEF Stage
<1> QED BY <1>7, <1>10, <1>11, <1>12, Releases DEF SimStep

\* The checkpoints, leases and reports of Safe Continuation, with every service
\* restart, reboot and lost report, implement the ledger of claims.
THEOREM LedgerImplemented == Spec => ImplementsLedger
<1>1. ASSUME IInv, [Next]_vars PROVE [Ledger!LedgerNext]_Ledger!ledgerVars
  <2>1. StoreStep
    BY <1>1, NextStoreStep
  <2>2. ClaimsExclusive'
    BY <1>1, NextInvariant DEF IInv, StoreInv
  <2>3. SimStep
    <3>1. CASE UNCHANGED <<checkpoint, launch>>
      <4>1. Stage' = Stage /\ Holder' = Holder /\ Issued' = Issued
        BY <3>1 DEF Stage, StageOf, Holder, HeldBy, Issued
      <4> QED BY <4>1, Stutters DEF SimStep
    <3> QED BY <1>1, <2>1, <2>2, <3>1, InsertSim, SaveSim, DeleteSim, LaunchSim,
               ClaimSim, StartSim, ExitSim, AbandonSim DEF StoreStep
  <2> QED BY <2>3 DEF SimStep
<1> QED BY <1>1, InitRefines, Invariance, PTL
        DEF Spec, ImplementsLedger, Ledger!LedgerSpec
=============================================================================

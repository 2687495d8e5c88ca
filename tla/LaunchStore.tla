----------------------------- MODULE LaunchStore -----------------------------
(***************************************************************************)
(* The two tables of the SQLite store that decide a Safe Continuation:     *)
(* checkpoints and managed_launches.  Every operator below is one          *)
(* transaction of internal/store, taken under the store's operationMu, so  *)
(* each is one atomic step whose guard is the conjunction of the checks    *)
(* after which the code does not roll back.                                *)
(***************************************************************************)
EXTENDS Naturals, FiniteSets

CONSTANTS
    Checkpoints,    \* checkpoint identifiers (random, never issued twice)
    MaxLease,       \* BOUND: leases issued; lease k is the k-th inserted row
    Profiles,       \* Identity Profiles
    Projects,       \* Project Identities
    Revisions,      \* content hashes a checkpoint can have
    None            \* SQL NULL

ASSUME StoreAssumption ==
    /\ MaxLease \in Nat
    /\ None \notin Checkpoints \cup Profiles \cup Projects \cup Revisions \cup Nat

VARIABLES
    checkpoint,     \* the checkpoints table
    launch,         \* the managed_launches table
    clock           \* the wall clock the store and the services read

storeVars == <<checkpoint, launch, clock>>

Leases == 1..MaxLease

OpenStates    == {"pending", "running"}
SettledStates == {"exited", "abandoned"}

\* status is the column, meta the status inside the encrypted metadata, due
\* the expiry time (None: unlimited retention).
CheckpointRow ==
    [status  : {"absent", "draft", "approved", "launching", "completed",
                "expired", "purged"},
     meta    : {"draft", "approved", "expired"},
     rev     : Revisions \cup {None},
     project : Projects \cup {None},
     source  : {"repository-first", "transcript-assisted"},
     created : Nat,
     due     : Nat \cup {None}]

LaunchRow ==
    [state   : {"unused", "deleted"} \cup OpenStates \cup SettledStates,
     profile : Profiles \cup {None},
     project : Projects \cup {None},
     cp      : Checkpoints \cup {None},
     rev     : Revisions \cup {None},
     pid     : BOOLEAN,                 \* process_id IS NOT NULL
     boot    : Nat \cup {None},
     ended   : Nat]

AbsentCheckpoint ==
    [status |-> "absent", meta |-> "draft", rev |-> None, project |-> None,
     source |-> "repository-first", created |-> 0, due |-> None]

BlankLaunch ==
    [state |-> "unused", profile |-> None, project |-> None, cp |-> None,
     rev |-> None, pid |-> FALSE, boot |-> None, ended |-> 0]

StoreInit ==
    /\ checkpoint = [c \in Checkpoints |-> AbsentCheckpoint]
    /\ launch = [l \in Leases |-> BlankLaunch]
    /\ clock = 0

StoreTypeOK ==
    /\ checkpoint \in [Checkpoints -> CheckpointRow]
    /\ launch \in [Leases -> LaunchRow]
    /\ clock \in Nat

-----------------------------------------------------------------------------
(* What the source queries see.                                            *)

Overdue(row, t) == row.due # None /\ row.due <= t

\* The launches of project j that count as evidence: all rows except those
\* abandoned before a process was ever reported.
SourceRows(j) ==
    {l \in Leases : /\ launch[l].state \in OpenStates \cup SettledStates
                    /\ launch[l].project = j
                    /\ ~(launch[l].state = "abandoned" /\ ~launch[l].pid)}

\* MUTANT: a lease whose start was not reported yet does not count.
UnresolvedRunning(j) == {l \in SourceRows(j) : launch[l].state = "running"}

Unresolved(j) == {l \in SourceRows(j) : launch[l].state # "exited"}

EndedAfter(l, k) ==
    \/ launch[l].ended > launch[k].ended
    \/ launch[l].ended = launch[k].ended /\ l >= k

\* MUTANT: the latest exit alone decides, whatever is unresolved.
DefinitiveSourceByLatestExit(j, p) ==
    \E l \in SourceRows(j) \ Unresolved(j) :
       /\ launch[l].profile = p
       /\ \A k \in SourceRows(j) \ Unresolved(j) : EndedAfter(l, k)

\* definitiveSourceLaunchSQL finds profile p: nothing in the project is
\* unresolved and the launch that ended last ran under p.
DefinitiveSource(j, p) ==
    /\ Unresolved(j) = {}
    /\ \E l \in SourceRows(j) : /\ launch[l].profile = p
                                /\ \A k \in SourceRows(j) : EndedAfter(l, k)

\* The tests PrepareHandoff and PrepareLaunch both make of a checkpoint row.
ReadyForHandoff(c, r) ==
    /\ checkpoint[c].status = "approved"
    /\ checkpoint[c].meta = "approved"
    /\ checkpoint[c].rev = r
    /\ ~Overdue(checkpoint[c], clock)

-----------------------------------------------------------------------------
(* managed_launches                                                        *)

IsNextLease(l) ==
    /\ launch[l].state = "unused"
    /\ \A k \in Leases : k < l => launch[k].state # "unused"

InsertPending(l, p, j, c, r, b) ==
    /\ IsNextLease(l)
    /\ launch' = [launch EXCEPT ![l] =
                    [BlankLaunch EXCEPT !.state = "pending", !.profile = p,
                        !.project = j, !.cp = c, !.rev = r, !.boot = b]]

\* PrepareLaunch without a checkpoint: no boot session is recorded.
PrepareLaunch(l, p, j) ==
    /\ InsertPending(l, p, j, None, None, None)
    /\ UNCHANGED <<checkpoint, clock>>

\* PrepareLaunch for revision r of checkpoint c: everything the service
\* checked before is checked again in the transaction that takes the claim.
PrepareHandoffLaunch(l, p, c, r, s, b) ==
    /\ ReadyForHandoff(c, r)
    /\ DefinitiveSource(checkpoint[c].project, s)
    /\ s # p
    /\ checkpoint' = [checkpoint EXCEPT ![c].status = "launching"]
    /\ InsertPending(l, p, checkpoint[c].project, c, r, b)
    /\ UNCHANGED clock

MarkStarted(l) ==
    LET c == launch[l].cp IN
    /\ launch[l].state = "pending"
    /\ c # None => checkpoint[c].status = "launching"
    /\ launch' = [launch EXCEPT ![l].state = "running", ![l].pid = TRUE]
    /\ checkpoint' = IF c = None THEN checkpoint
                     ELSE [checkpoint EXCEPT ![c].status = "completed"]
    /\ UNCHANGED clock

\* MUTANT: the launch gets the status a delivered checkpoint has.
MarkExitedAsCompleted(l, t) ==
    /\ launch[l].state = "running"
    /\ launch' = [launch EXCEPT ![l].state = "completed", ![l].ended = t]
    /\ UNCHANGED <<checkpoint, clock>>

\* ended_at is the time t the handler read before it got the lock.
MarkExited(l, t) ==
    /\ launch[l].state = "running"
    /\ launch' = [launch EXCEPT ![l].state = "exited", ![l].ended = t]
    /\ UNCHANGED <<checkpoint, clock>>

\* MUTANT: the checkpoint of an abandoned lease is given back whatever its
\* status is.
AbandonAndReopen(S) ==
    /\ launch' = [l \in Leases |->
                    IF l \in S THEN [launch[l] EXCEPT !.state = "abandoned"]
                    ELSE launch[l]]
    /\ checkpoint' = [c \in Checkpoints |->
                        IF \E l \in S : launch[l].cp = c
                        THEN [checkpoint[c] EXCEPT !.status = "approved"]
                        ELSE checkpoint[c]]
    /\ UNCHANGED clock

\* One transaction abandons the leases S and gives their checkpoints back.
AbandonLeases(S) ==
    /\ launch' = [l \in Leases |->
                    IF l \in S THEN [launch[l] EXCEPT !.state = "abandoned"]
                    ELSE launch[l]]
    /\ checkpoint' = [c \in Checkpoints |->
                        IF /\ checkpoint[c].status = "launching"
                           /\ \E l \in S : launch[l].cp = c
                        THEN [checkpoint[c] EXCEPT !.status = "approved"]
                        ELSE checkpoint[c]]
    /\ UNCHANGED clock

\* MUTANT: the claim on the checkpoint is not given back.
MarkAbandonedOnly(l) ==
    /\ launch[l].state \in OpenStates
    /\ launch' = [launch EXCEPT ![l].state = "abandoned"]
    /\ UNCHANGED <<checkpoint, clock>>

MarkAbandoned(l) ==
    /\ launch[l].state \in OpenStates
    /\ AbandonLeases({l})

\* MUTANT: any pending handoff lease is taken for a stale one.
FromAnyBoot(b) ==
    {l \in Leases : launch[l].state = "pending" /\ launch[l].boot # None}

\* The pending leases ReconcileManagedLaunches gives up in boot session b.
FromEarlierBoot(b) ==
    {l \in Leases : /\ launch[l].state = "pending"
                    /\ launch[l].cp # None
                    /\ launch[l].boot # None
                    /\ launch[l].boot # b}

\* D is the set of running leases whose process the inspector found dead.
ReconcileManagedLaunches(b, D) ==
    AbandonLeases(FromEarlierBoot(b) \cup D)

-----------------------------------------------------------------------------
(* checkpoints                                                             *)

Exists(c) == checkpoint[c].status \notin {"absent", "purged"}

InsertCheckpoint(c, row) ==
    /\ checkpoint[c].status = "absent"
    /\ checkpoint' = [checkpoint EXCEPT ![c] = row]
    /\ UNCHANGED <<launch, clock>>

\* MUTANT: the last writer wins.
SaveOverwriting(c, seen, row) ==
    /\ Exists(c)
    /\ checkpoint' = [checkpoint EXCEPT ![c] = row]
    /\ UNCHANGED <<launch, clock>>

\* MUTANT: only the revision is compared.
SaveSameRevision(c, seen, row) ==
    /\ checkpoint[c].rev = seen.rev
    /\ checkpoint' = [checkpoint EXCEPT ![c] = row]
    /\ UNCHANGED <<launch, clock>>

\* putCheckpoint with the status and revision the caller saw.
SaveCheckpoint(c, seen, row) ==
    /\ checkpoint[c].status = seen.status
    /\ checkpoint[c].rev = seen.rev
    /\ checkpoint' = [checkpoint EXCEPT ![c] = row]
    /\ UNCHANGED <<launch, clock>>

NoOpenLease(c) ==
    \A l \in Leases : launch[l].cp = c => launch[l].state \notin OpenStates

SettledLeases == {l \in Leases : launch[l].state \in SettledStates}

\* A transaction that deletes the launch rows L and the checkpoint rows C,
\* whose references in the remaining launches become NULL.
DeleteRows(L, C) ==
    /\ launch' = [l \in Leases |->
                    IF l \in L THEN [BlankLaunch EXCEPT !.state = "deleted"]
                    ELSE IF launch[l].cp \in C
                    THEN [launch[l] EXCEPT !.cp = None, !.rev = None]
                    ELSE launch[l]]
    /\ checkpoint' = [c \in Checkpoints |->
                        IF c \in C
                        THEN [AbsentCheckpoint EXCEPT !.status = "purged",
                                !.project = checkpoint[c].project]
                        ELSE checkpoint[c]]
    /\ UNCHANGED clock

PurgeCheckpoint(c, r) ==
    /\ Exists(c)
    /\ checkpoint[c].status # "launching"
    /\ checkpoint[c].rev = r
    /\ NoOpenLease(c)
    /\ DeleteRows({}, {c})

\* PurgeAnalytics over a scope that selects the launches L and checkpoints C.
PurgeAnalytics(L, C) ==
    /\ L \subseteq SettledLeases
    /\ \A c \in C : /\ Exists(c)
                    /\ checkpoint[c].status # "launching"
                    /\ NoOpenLease(c)
    /\ DeleteRows(L, C)

\* RetainAnalytics deletes settled launches older than the cutoff that no
\* correlation evidence refers to: any set of them.
RetainAnalytics(L) ==
    /\ L \subseteq SettledLeases
    /\ DeleteRows(L, {})

-----------------------------------------------------------------------------
(* Properties of the two tables                                            *)

Holders(c) == {l \in Leases : launch[l].state = "pending" /\ launch[l].cp = c}

\* A checkpoint is launching exactly while one pending lease refers to it:
\* PrepareLaunch, MarkStarted, the two ways to abandon, the compare-and-swap of
\* every edit and the two purges keep the two tables in step.
ClaimMatchesLease ==
    \A c \in Checkpoints :
       IF checkpoint[c].status = "launching"
       THEN \E l \in Leases : Holders(c) = {l}
       ELSE Holders(c) = {}

\* What was approved is what runs: from the claim until the launch settles the
\* row keeps the approved revision the lease recorded, and a delivered
\* checkpoint never returns to a status that could be edited or claimed.
ApprovedContentKept ==
    \A l \in Leases :
       launch[l].state \in OpenStates /\ launch[l].cp # None =>
          LET row == checkpoint[launch[l].cp] IN
          /\ row.rev = launch[l].rev
          /\ row.project = launch[l].project
          /\ launch[l].state = "pending" => row.meta = "approved"
          /\ launch[l].state = "running" => row.status \in {"completed", "expired"}

\* Over all leases ever issued for a checkpoint, at most one was reported as
\* started, whatever was retried after a reboot or an abandoned start.
HandedOffOnce ==
    \A l, k \in Leases :
       /\ launch[l].cp = launch[k].cp
       /\ launch[l].cp # None
       /\ launch[l].pid
       /\ launch[k].pid
       => l = k

\* Handoffs of different checkpoints of a project exclude each other.
OneHandoffPerProject ==
    \A c, d \in Checkpoints :
       /\ checkpoint[c].status = "launching"
       /\ checkpoint[d].status = "launching"
       /\ checkpoint[c].project = checkpoint[d].project
       => c = d

-----------------------------------------------------------------------------
(* Their inductive strengthening                                           *)

\* Rows that were never inserted or are deleted say nothing; a pid is recorded
\* exactly by MarkStarted.
LaunchRowsOK ==
    \A l \in Leases :
       /\ launch[l].state \in {"unused", "deleted"} =>
             launch[l].cp = None /\ ~launch[l].pid
       /\ launch[l].state = "pending" => ~launch[l].pid
       /\ launch[l].state \in {"running", "exited"} => launch[l].pid

\* ClaimMatchesLease, lease by lease.
ClaimsExclusive ==
    /\ \A l \in Leases :
          launch[l].state = "pending" /\ launch[l].cp # None =>
             checkpoint[launch[l].cp].status = "launching"
    /\ \A l, k \in Leases :
          /\ launch[l].state = "pending"
          /\ launch[k].state = "pending"
          /\ launch[l].cp # None
          /\ launch[l].cp = launch[k].cp
          => l = k
    /\ \A c \in Checkpoints :
          checkpoint[c].status = "launching" =>
             \E l \in Leases : launch[l].state = "pending" /\ launch[l].cp = c

\* A checkpoint some lease was started for is past claiming.
StartedIsSpent ==
    \A l \in Leases :
       launch[l].pid /\ launch[l].cp # None =>
          checkpoint[launch[l].cp].status \in {"completed", "expired"}

StoreInv ==
    /\ LaunchRowsOK
    /\ ClaimsExclusive
    /\ ApprovedContentKept
    /\ StartedIsSpent
    /\ HandedOffOnce
    /\ OneHandoffPerProject
=============================================================================

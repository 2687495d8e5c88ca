---------------------------- MODULE ProfileStore ----------------------------
(***************************************************************************)
(* The tables of the SQLite store that hold Identity Profiles: the         *)
(* profiles with their aliases, setup stages, pending registrations and    *)
(* home registrations, the quarantine, the Selected Profile, and what      *)
(* removal looks at of managed_launches.  Every operator below that primes *)
(* a variable is one transaction under the store's operationMu.            *)
(***************************************************************************)
EXTENDS Naturals, FiniteSets

CONSTANTS
    Profiles,       \* profile identifiers (random, never issued twice)
    Established,    \* the profiles whose setup finished before the run
    Leases,         \* launch leases
    Period,         \* profileQuarantinePeriod, in clock ticks
    None            \* SQL NULL

ASSUME ProfileAssumption ==
    /\ Established \subseteq Profiles
    /\ Period \in Nat
    /\ None \notin Profiles

VARIABLES
    profile,        \* identity_profiles and the tables keyed by its identifier
    quarantine,     \* profile_quarantine
    selected,       \* selected_profile
    lease,          \* managed_launches
    clock           \* the wall clock of the store and of the services

tableVars == <<profile, quarantine, selected, lease>>

Ownerships == {"managed", "referenced"}
Statuses   == {"pending", "ready", "needs_reauthentication", "unavailable"}

NoRow == [status |-> "absent", named |-> FALSE, pending |-> FALSE,
          home |-> "none", done |-> {}]

\* named: its cli_aliases and profile_setup_stages rows; pending: its
\* pending_profiles row; home: the ownership in its identity_homes row; done:
\* the setup stages a later step reads.
ProfileRow ==
    [status : {"absent"}, named : {FALSE}, pending : {FALSE}, home : {"none"},
     done : {{}}]
    \cup [status : Statuses, named : BOOLEAN, pending : BOOLEAN,
          home : {"none"} \cup Ownerships,
          done : SUBSET {"authentication", "validation"}]

QuarantineRow ==
    [state : {"none", "prepared", "quarantined"}, reselect : BOOLEAN, until : Nat]

LeaseRow ==
    [state : {"unused"}, profile : {None}]
    \cup [state : {"pending", "running", "settled"}, profile : Profiles]

FreshRow == [NoRow EXCEPT !.status = "pending", !.named = TRUE, !.pending = TRUE]
SetUpRow(own) ==
    [status |-> "ready", named |-> TRUE, pending |-> FALSE, home |-> own,
     done |-> {"authentication", "validation"}]
\* identity_profiles keeps a row of a profile that is deleted.
Tombstone == [NoRow EXCEPT !.status = "unavailable"]

NotQuarantined == [state |-> "none", reselect |-> FALSE, until |-> 0]

StoreInit ==
    /\ \E own \in [Established -> Ownerships] :
          profile = [p \in Profiles |->
                        IF p \in Established THEN SetUpRow(own[p]) ELSE NoRow]
    /\ quarantine = [p \in Profiles |-> NotQuarantined]
    /\ IF Established = {} THEN selected = None ELSE selected \in Established
    /\ lease = [l \in Leases |-> [state |-> "unused", profile |-> None]]
    /\ clock = 0

StoreTypeOK ==
    /\ profile \in [Profiles -> ProfileRow]
    /\ quarantine \in [Profiles -> QuarantineRow]
    /\ selected \in Profiles \cup {None}
    /\ lease \in [Leases -> LeaseRow]
    /\ clock \in Nat

-----------------------------------------------------------------------------
(* What the queries see.                                                   *)

\* GetProfile finds p: it has an alias and no quarantine row.
Visible(p) == profile[p].named /\ quarantine[p].state = "none"

Selectable(p) == Visible(p) /\ profile[p].status = "ready"

\* MUTANT: only launches whose start was reported block a removal.
OpenLeasesRunning(p) ==
    {l \in Leases : lease[l].profile = p /\ lease[l].state = "running"}

OpenLeases(p) ==
    {l \in Leases : lease[l].profile = p /\ lease[l].state \in {"pending", "running"}}

Expired(p) == quarantine[p].until <= clock

-----------------------------------------------------------------------------
(* Setup.                                                                  *)

CreatePendingProfile(p) ==
    /\ profile[p] = NoRow
    /\ profile' = [profile EXCEPT ![p] = FreshRow]
    /\ UNCHANGED <<quarantine, selected, lease>>

\* setHome rolls back when no pending_profiles row is left.
SetHome(p, own) ==
    /\ profile[p].pending
    /\ profile[p].home \in {"none", own}
    /\ profile' = [profile EXCEPT ![p].home = own]
    /\ UNCHANGED <<quarantine, selected, lease>>

SaveSetupStage(p, stage) ==
    /\ profile[p].named
    /\ profile[p].pending
    /\ profile' = [profile EXCEPT ![p].done = @ \cup {stage}]
    /\ UNCHANGED <<quarantine, selected, lease>>

\* The three updates of ResetAuthentication do not look whether a row is left;
\* only identity_profiles always has one.
ResetAuthentication(p) ==
    /\ profile' = [profile EXCEPT ![p].done = {}, ![p].status = "pending"]
    /\ UNCHANGED <<quarantine, selected, lease>>

\* Whatever the profile has become since its identifier was read.
SetAuthenticationState(p, status) ==
    /\ profile' = [profile EXCEPT ![p].status = status]
    /\ UNCHANGED <<quarantine, selected, lease>>

CompleteInitialSelection(p) ==
    /\ profile[p].named
    /\ \/ profile[p].status = "ready"
       \/ /\ profile[p].status = "pending"
          /\ profile[p].done = {"authentication", "validation"}
    /\ profile' = [profile EXCEPT ![p].status = "ready", ![p].pending = FALSE]
    /\ selected' = IF selected = None THEN p ELSE selected
    /\ UNCHANGED <<quarantine, lease>>

SelectProfile(p) ==
    /\ Selectable(p)
    /\ selected' = p
    /\ UNCHANGED <<profile, quarantine, lease>>

-----------------------------------------------------------------------------
(* Launches, as far as removal cares: LaunchStore has the rest.            *)

PrepareLaunch(l, p) ==
    /\ lease[l].state = "unused"
    /\ Selectable(p)
    /\ profile[p].home # "none"
    /\ lease' = [lease EXCEPT ![l] = [state |-> "pending", profile |-> p]]
    /\ UNCHANGED <<profile, quarantine, selected>>

MarkStarted(l) ==
    /\ lease[l].state = "pending"
    /\ lease' = [lease EXCEPT ![l].state = "running"]
    /\ UNCHANGED <<profile, quarantine, selected>>

\* An exit, or an abandonment by its CLI or by a reconcile.
SettleLaunch(l) ==
    /\ lease[l].state \in {"pending", "running"}
    /\ lease' = [lease EXCEPT ![l].state = "settled"]
    /\ UNCHANGED <<profile, quarantine, selected>>

-----------------------------------------------------------------------------
(* Removal.  own and was are what the caller read before the transaction.  *)

\* MUTANT: the registration of an unfinished setup is left behind.
DeleteKeepingRegistration(p, s) ==
    /\ profile' = [profile EXCEPT ![p] = [Tombstone EXCEPT !.pending = profile[p].pending]]
    /\ quarantine' = [quarantine EXCEPT ![p] = NotQuarantined]
    /\ selected' = IF s = p THEN None ELSE s
    /\ lease' = [l \in Leases |->
                    IF lease[l].profile = p THEN [lease[l] EXCEPT !.state = "settled"]
                    ELSE lease[l]]

\* The tables after deleteProfileRows, the selection having moved to s.
DeleteProfileRows(p, s) ==
    /\ profile' = [profile EXCEPT ![p] = Tombstone]
    /\ quarantine' = [quarantine EXCEPT ![p] = NotQuarantined]
    /\ selected' = IF s = p THEN None ELSE s
    /\ lease' = [l \in Leases |->
                    IF lease[l].profile = p THEN [lease[l] EXCEPT !.state = "settled"]
                    ELSE lease[l]]

\* The selection after p is removed: another usable profile when p had it.
SelectionWithout(p) ==
    IF selected = p THEN {s \in Profiles \ {p} : Selectable(s)} ELSE {selected}

BeginProfileRemoval(p, own) ==
    /\ OpenLeases(p) = {}
    /\ \E s \in SelectionWithout(p) :
          \/ own = "referenced" /\ DeleteProfileRows(p, s)
          \/ /\ own = "managed"
             /\ quarantine[p].state = "none"
             /\ quarantine' = [quarantine EXCEPT ![p] =
                    [state |-> "prepared", reselect |-> selected = p,
                     until |-> clock + Period]]
             /\ selected' = s
             /\ UNCHANGED <<profile, lease>>

CompleteProfileQuarantine(p) ==
    /\ quarantine[p].state = "prepared"
    /\ quarantine' = [quarantine EXCEPT ![p].state = "quarantined"]
    /\ UNCHANGED <<profile, selected, lease>>

\* MUTANT: the removal is taken back in whatever state it is.
CancelQuarantined(p) ==
    /\ quarantine[p].state # "none"
    /\ selected' = IF quarantine[p].reselect THEN p ELSE selected
    /\ quarantine' = [quarantine EXCEPT ![p] = NotQuarantined]
    /\ UNCHANGED <<profile, lease>>

CancelProfileRemoval(p) ==
    /\ quarantine[p].state = "prepared"
    /\ selected' = IF quarantine[p].reselect THEN p ELSE selected
    /\ quarantine' = [quarantine EXCEPT ![p] = NotQuarantined]
    /\ UNCHANGED <<profile, lease>>

RestoreProfile(p) ==
    /\ quarantine[p].state = "quarantined"
    /\ ~Expired(p)
    /\ quarantine' = [quarantine EXCEPT ![p] = NotQuarantined]
    /\ UNCHANGED <<profile, selected, lease>>

PurgeProfile(p) ==
    /\ quarantine[p].state = "quarantined"
    /\ DeleteProfileRows(p, selected)
=============================================================================

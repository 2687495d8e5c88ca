-------------------------- MODULE ProfileLifecycle --------------------------
(***************************************************************************)
(* The requests about Identity Profiles over ProfileStore and the          *)
(* directories of the Identity Homes: setup (internal/profile Workflow),   *)
(* reauthentication, removal, restoration and purge (Lifecycle).  No lock  *)
(* is held across the steps of a request; an action is what happens        *)
(* between two accesses to shared state.  A request that ends early was    *)
(* refused, failed, or lost its context because its client went away or    *)
(* the service stopped.                                                    *)
(***************************************************************************)
EXTENDS ProfileStore

CONSTANTS
    Requests,       \* requests handled at a time
    Verdicts,       \* BOUND: outcomes of authentication checks considered
    MaxSetups,      \* BOUND: setups at a time
    MaxRemovals,    \* BOUND: removals, restorations and purges at a time
    MaxClock        \* BOUND: the last clock value

ASSUME RequestAssumption ==
    /\ Verdicts \subseteq {"ready", "needs_reauthentication", "unavailable"}
    /\ MaxSetups \in Nat /\ MaxRemovals \in Nat /\ MaxClock \in Nat

VARIABLES
    home,           \* the directories of managed Identity Homes
    req,            \* the requests
    contested       \* HISTORY: the profiles that had two setups at a time

vars == <<profile, quarantine, selected, lease, clock, home, req, contested>>

Places == {"managed", "quarantine"}

\* What the directory of a profile holds: nothing a login left, or an identity.
Contents == {"none", "empty", "identity"}

Removals == {"remove", "restore", "purge"}

Steps ==
    {"ensure", "register", "revalidate", "login", "method", "authenticated",
     "validate", "validated", "confirm", "select", "check", "record", "relogin",
     "begin", "stat", "rename", "commit", "cancel", "erase"}

\* own and status are what the request read of the profile, status also the
\* verdict of an authentication check it will store; done the stages it read.
Request ==
    [kind    : {"idle", "setup", "reauthenticate"} \cup Removals,
     pc      : {"idle"} \cup Steps,
     profile : Profiles \cup {None},
     own     : {"none"} \cup Ownerships,
     status  : Statuses,
     done    : SUBSET {"authentication", "validation"},
     again   : BOOLEAN]

Idle == [kind |-> "idle", pc |-> "idle", profile |-> None, own |-> "none",
         status |-> "pending", done |-> {}, again |-> FALSE]

Init ==
    /\ StoreInit
    /\ home = [p \in Profiles |-> [d \in Places |->
                  IF d = "managed" /\ profile[p].home = "managed"
                  THEN "identity" ELSE "none"]]
    /\ req = [r \in Requests |-> Idle]
    /\ contested = {}

StateTypeOK ==
    /\ StoreTypeOK
    /\ home \in [Profiles -> [Places -> Contents]]
    /\ req \in [Requests -> Request]

TypeOK == StateTypeOK /\ contested \subseteq Profiles

At(r, pc) == req[r].pc = pc
Goto(r, pc) == req' = [req EXCEPT ![r].pc = pc]
End(r) == req' = [req EXCEPT ![r] = Idle]
InProgress(kinds) == {r \in Requests : req[r].kind \in kinds}
SetupsOf(p) == {r \in InProgress({"setup"}) : req[r].profile = p}

\* The request loads p.
Load(kind, pc, p) == [Idle EXCEPT !.kind = kind, !.pc = pc, !.profile = p]

Begin(r, request) == req[r] = Idle /\ req' = [req EXCEPT ![r] = request]

-----------------------------------------------------------------------------
(* Workflow.Add.                                                           *)

\* A new registration, or the pending one of the alias: FindPendingProfile asks
\* neither whether it is quarantined nor whether a setup of it is running.
BeginSetup(r, p) ==
    /\ Cardinality(InProgress({"setup"})) < MaxSetups
    /\ \/ /\ CreatePendingProfile(p)
          /\ Begin(r, Load("setup", "ensure", p))
       \/ /\ profile[p].named
          /\ profile[p].pending
          /\ Begin(r, [Load("setup", "ensure", p) EXCEPT
                          !.own = profile[p].home, !.done = profile[p].done])
          /\ UNCHANGED tableVars
    /\ contested' = IF SetupsOf(p) = {} THEN contested ELSE contested \cup {p}
    /\ UNCHANGED <<clock, home>>

\* Where authenticateAndValidate starts, given the stages the setup read.
FirstStage(done) ==
    IF "validation" \in done THEN "revalidate"
    ELSE IF "authentication" \in done THEN "validate"
    ELSE "login"

\* The managed directory is made unless it exists; a referenced one belongs to
\* somebody else.
EnsureHome(r, own) ==
    LET p == req[r].profile
    IN  /\ At(r, "ensure")
        /\ req[r].own \in {"none", own}
        /\ home' = IF own = "managed" /\ home[p]["managed"] = "none"
                   THEN [home EXCEPT ![p]["managed"] = "empty"] ELSE home
        /\ req' = [req EXCEPT
              ![r].own = own,
              ![r].pc = IF req[r].own = "none" THEN "register"
                        ELSE FirstStage(req[r].done)]
        /\ UNCHANGED <<tableVars, clock, contested>>

RegisterHome(r) ==
    /\ At(r, "register")
    /\ SetHome(req[r].profile, req[r].own)
    /\ Goto(r, FirstStage(req[r].done))
    /\ UNCHANGED <<clock, home, contested>>

\* Codex finds a sign-in: always possible in a home CodexFolio does not own.
SignedIn(r) ==
    req[r].own = "managed" => home[req[r].profile]["managed"] = "identity"

\* A referenced home that is signed in needs no login.
ReuseSignIn(r) ==
    /\ At(r, "login")
    /\ req[r].own = "referenced"
    /\ req[r].done = {}
    /\ ~req[r].again
    /\ SaveSetupStage(req[r].profile, "authentication")
    /\ Goto(r, "validated")
    /\ UNCHANGED <<clock, home, contested>>

\* Codex writes the sign-in into the home.
SignIn(p, own) ==
    IF own = "managed"
    THEN /\ home[p]["managed"] # "none"
         /\ home' = [home EXCEPT ![p]["managed"] = "identity"]
    ELSE UNCHANGED home

Login(r) ==
    /\ At(r, "login")
    /\ SignIn(req[r].profile, req[r].own)
    /\ Goto(r, "method")
    /\ UNCHANGED <<tableVars, clock, contested>>

RecordMethod(r) ==
    /\ At(r, "method")
    /\ SetAuthenticationState(req[r].profile, "pending")
    /\ Goto(r, "authenticated")
    /\ UNCHANGED <<clock, home, contested>>

SaveAuthentication(r) ==
    /\ At(r, "authenticated")
    /\ SaveSetupStage(req[r].profile, "authentication")
    /\ Goto(r, "validate")
    /\ UNCHANGED <<clock, home, contested>>

CheckSucceeds(r) ==
    /\ SignedIn(r)
    /\ \/ At(r, "revalidate") /\ Goto(r, "confirm")
       \/ At(r, "validate") /\ Goto(r, "validated")
    /\ UNCHANGED <<tableVars, clock, home, contested>>

\* Not authenticated: the stages are taken back, and a first login is repeated
\* once.
CheckRejects(r) ==
    /\ \/ At(r, "revalidate")
       \/ At(r, "validate")
    /\ ResetAuthentication(req[r].profile)
    /\ IF At(r, "revalidate") THEN Goto(r, "login")
       ELSE IF req[r].again THEN End(r)
       ELSE req' = [req EXCEPT ![r].pc = "login", ![r].again = TRUE]
    /\ UNCHANGED <<clock, home, contested>>

SaveValidation(r) ==
    /\ At(r, "validated")
    /\ SaveSetupStage(req[r].profile, "validation")
    /\ Goto(r, "confirm")
    /\ UNCHANGED <<clock, home, contested>>

Confirm(r) ==
    /\ At(r, "confirm")
    /\ SetAuthenticationState(req[r].profile, "pending")
    /\ Goto(r, "select")
    /\ UNCHANGED <<clock, home, contested>>

FinishSetup(r) ==
    /\ At(r, "select")
    /\ CompleteInitialSelection(req[r].profile)
    /\ End(r)
    /\ UNCHANGED <<clock, home, contested>>

-----------------------------------------------------------------------------
(* Reauthenticate and VerifyAuthentication.                                *)

\* MUTANT: a profile is checked whatever its status.
BeginAnyReauthentication(r, p) ==
    /\ Visible(p)
    /\ profile[p].home # "none"
    /\ Begin(r, [Load("reauthenticate", "check", p) EXCEPT
                    !.own = profile[p].home, !.status = profile[p].status])
    /\ UNCHANGED <<tableVars, clock, home, contested>>

BeginReauthentication(r, p) ==
    /\ Visible(p)
    /\ profile[p].status # "pending"
    /\ profile[p].home # "none"
    /\ Begin(r, [Load("reauthenticate", "check", p) EXCEPT
                    !.own = profile[p].home, !.status = profile[p].status])
    /\ UNCHANGED <<tableVars, clock, home, contested>>

\* The verdict is stored by the next step; a ready profile that is signed in
\* needs none (EndRequest).
CheckSignIn(r) ==
    /\ At(r, "check")
    /\ \E verdict \in Verdicts :
          /\ verdict = "ready" => SignedIn(r) /\ req[r].status # "ready"
          /\ req' = [req EXCEPT ![r].pc = "record", ![r].status = verdict]
    /\ UNCHANGED <<tableVars, clock, home, contested>>

RecordVerdict(r) ==
    /\ At(r, "record")
    /\ SetAuthenticationState(req[r].profile, req[r].status)
    /\ IF req[r].status = "needs_reauthentication" /\ ~req[r].again
       THEN Goto(r, "relogin") ELSE End(r)
    /\ UNCHANGED <<clock, home, contested>>

LoginAgain(r) ==
    /\ At(r, "relogin")
    /\ SignIn(req[r].profile, req[r].own)
    /\ \E verdict \in Verdicts :
          req' = [req EXCEPT ![r].pc = "record", ![r].status = verdict,
                             ![r].again = TRUE]
    /\ UNCHANGED <<tableVars, clock, contested>>

-----------------------------------------------------------------------------
(* Lifecycle.Remove, Restore and Purge.                                    *)

\* BeginProfileRemoval returns a quarantine row that exists, whatever its
\* state, before it looks for the profile.
BeginRemoval(r, p) ==
    /\ Cardinality(InProgress(Removals)) < MaxRemovals
    /\ profile[p].named
    /\ profile[p].home # "none"
    /\ Begin(r, [Load("remove", IF Visible(p) THEN "begin" ELSE "stat", p)
                    EXCEPT !.own = profile[p].home])
    /\ UNCHANGED <<tableVars, clock, home, contested>>

PrepareRemoval(r) ==
    /\ At(r, "begin")
    /\ BeginProfileRemoval(req[r].profile, req[r].own)
    /\ IF req[r].own = "referenced" THEN End(r) ELSE Goto(r, "stat")
    /\ UNCHANGED <<clock, home, contested>>

BeginRestoration(r, p) ==
    /\ Cardinality(InProgress(Removals)) < MaxRemovals
    /\ profile[p].named
    /\ quarantine[p].state = "quarantined"
    /\ ~Expired(p)
    /\ Begin(r, Load("restore", "stat", p))
    /\ UNCHANGED <<tableVars, clock, home, contested>>

BeginPurge(r, p) ==
    /\ Cardinality(InProgress(Removals)) < MaxRemovals
    /\ profile[p].named
    /\ quarantine[p].state = "quarantined"
    /\ Begin(r, Load("purge", "erase", p))
    /\ UNCHANGED <<tableVars, clock, home, contested>>

Source(r) == IF req[r].kind = "remove" THEN "managed" ELSE "quarantine"
Target(r) == IF req[r].kind = "remove" THEN "quarantine" ELSE "managed"

Exists(r, d) == home[req[r].profile][d] # "none"

\* A failed move cancels a removal; a restoration just ends.
MoveFails(r) == IF req[r].kind = "remove" THEN Goto(r, "cancel") ELSE End(r)

\* move first looks at both places.
StatHomes(r) ==
    /\ At(r, "stat")
    /\ IF Exists(r, Source(r)) # Exists(r, Target(r))
       THEN Goto(r, IF Exists(r, Source(r)) THEN "rename" ELSE "commit")
       ELSE MoveFails(r)
    /\ UNCHANGED <<tableVars, clock, home, contested>>

RenameHome(r) ==
    LET p == req[r].profile
    IN  /\ At(r, "rename")
        /\ Exists(r, Source(r))
        /\ ~Exists(r, Target(r))
        /\ home' = [home EXCEPT ![p][Target(r)] = home[p][Source(r)],
                                ![p][Source(r)] = "none"]
        /\ Goto(r, "commit")
        /\ UNCHANGED <<tableVars, clock, contested>>

\* The file system may refuse, and must when the directories changed.
RenameFails(r) ==
    /\ At(r, "rename")
    /\ MoveFails(r)
    /\ UNCHANGED <<tableVars, clock, home, contested>>

CancelRemoval(r) ==
    /\ At(r, "cancel")
    /\ CancelProfileRemoval(req[r].profile)
    /\ End(r)
    /\ UNCHANGED <<clock, home, contested>>

EraseHome(r) ==
    /\ At(r, "erase")
    /\ home' = [home EXCEPT ![req[r].profile]["quarantine"] = "none"]
    /\ Goto(r, "commit")
    /\ UNCHANGED <<tableVars, clock, contested>>

\* The transaction that ends a removal, a restoration or a purge.
CommitLifecycle(r) ==
    LET p == req[r].profile
    IN  /\ At(r, "commit")
        /\ \/ req[r].kind = "remove" /\ CompleteProfileQuarantine(p)
           \/ req[r].kind = "restore" /\ RestoreProfile(p)
           \/ req[r].kind = "purge" /\ PurgeProfile(p)
        /\ End(r)
        /\ UNCHANGED <<clock, home, contested>>

-----------------------------------------------------------------------------
(* Everything else.                                                        *)

\* Refused, failed, or without a context: the steps done so far stay.
EndRequest(r) ==
    /\ req[r] # Idle
    /\ End(r)
    /\ UNCHANGED <<tableVars, clock, home, contested>>

Select(p) == SelectProfile(p) /\ UNCHANGED <<clock, home, req, contested>>

Launch(l, p) == PrepareLaunch(l, p) /\ UNCHANGED <<clock, home, req, contested>>

LaunchReport(l) ==
    /\ MarkStarted(l) \/ SettleLaunch(l)
    /\ UNCHANGED <<clock, home, req, contested>>

Tick ==
    /\ clock < MaxClock
    /\ clock' = clock + 1
    /\ UNCHANGED <<tableVars, home, req, contested>>

SetupStep(r) ==
    \/ \E own \in Ownerships : EnsureHome(r, own)
    \/ RegisterHome(r) \/ ReuseSignIn(r) \/ Login(r) \/ RecordMethod(r)
    \/ SaveAuthentication(r) \/ CheckSucceeds(r) \/ CheckRejects(r)
    \/ SaveValidation(r) \/ Confirm(r) \/ FinishSetup(r)

LifecycleStep(r) ==
    \/ PrepareRemoval(r) \/ StatHomes(r) \/ RenameHome(r) \/ RenameFails(r)
    \/ CancelRemoval(r) \/ EraseHome(r) \/ CommitLifecycle(r)

Next ==
    \/ \E r \in Requests :
          \/ \E p \in Profiles :
                \/ BeginSetup(r, p) \/ BeginReauthentication(r, p)
                \/ BeginRemoval(r, p) \/ BeginRestoration(r, p) \/ BeginPurge(r, p)
          \/ SetupStep(r) \/ LifecycleStep(r) \/ EndRequest(r)
          \/ CheckSignIn(r) \/ RecordVerdict(r) \/ LoginAgain(r)
    \/ \E p \in Profiles : Select(p)
    \/ \E l \in Leases : LaunchReport(l) \/ \E p \in Profiles : Launch(l, p)
    \/ Tick

Spec == Init /\ [][Next]_vars

-----------------------------------------------------------------------------
(* Properties.                                                             *)

\* A launch is open only for a profile that is neither in quarantine nor on its
\* way there, and whose home is registered: removal and launch exclude each
\* other, whichever comes first.
NoOpenLaunchInQuarantine ==
    \A l \in Leases : lease[l].state \in {"pending", "running"} =>
       LET p == lease[l].profile IN Visible(p) /\ profile[p].home # "none"

\* A profile that was purged or deregistered leaves nothing that could use it,
\* although setups and checks that began before go on writing.
GoneForGood ==
    \A p \in Profiles : ~profile[p].named =>
       /\ ~profile[p].pending
       /\ profile[p].home = "none"
       /\ selected # p
       /\ OpenLeases(p) = {}

\* The home of a managed profile that was set up is where the profile is: in
\* place while the profile is in use, and in one of the two places while a
\* removal is under way, wherever removals and restorations were interrupted.
HomeFollowsProfile ==
    \A p \in Profiles :
       profile[p].home = "managed" /\ profile[p].done = {"authentication", "validation"} =>
          LET at == {d \in Places : home[p][d] = "identity"}
          IN  /\ quarantine[p].state = "none" => at = {"managed"}
              /\ quarantine[p].state = "prepared" => Cardinality(at) = 1

\* The same, looked at only when no removal, restoration or purge is under way.
SettledHomeFollowsProfile == InProgress(Removals) = {} => HomeFollowsProfile

\* Once a profile is selected there always is a Selected Profile, and it is in
\* use: removals replace it, and what takes a removal back gives it back.
SelectionUsable == selected # None /\ Visible(selected)

\* A ready profile is out of setup, whatever setups and checks of it wrote and in
\* which order: what can be selected and launched is never half set up.
ReadyIsSetUp == \A p \in Profiles : Selectable(p) => ~profile[p].pending

\* The profiles of ps that are left Pending have a registration that repeating
\* the setup resumes.
Resumable(ps) ==
    \A p \in ps :
       profile[p].named /\ profile[p].status = "pending" => profile[p].pending

\* The profiles of ps are ready, and so selectable, only with their
\* authentication and validation stages completed.
Validated(ps) ==
    \A p \in ps :
       Selectable(p) => profile[p].done = {"authentication", "validation"}

\* What a user can act on, whatever setups, checks and removals run into each
\* other: the selection can be launched and what is ready is out of setup.  A
\* profile that never had two setups at a time can also be set up again while it
\* is Pending, and was validated when it is ready.
ProfilesUsable ==
    /\ SelectionUsable
    /\ ReadyIsSetUp
    /\ Resumable(Profiles \ contested)
    /\ Validated(Profiles \ contested)


-----------------------------------------------------------------------------
(* The inductive strengthening of the properties above that hold for any   *)
(* number of setups and removals at a time.                                *)

NothingLeft ==
    \A p \in Profiles : ~profile[p].named =>
       ~profile[p].pending /\ profile[p].home = "none" /\ selected # p

\* Only a profile that is still registered is given the selection back.
ReselectRegistered ==
    \A p \in Profiles : quarantine[p].reselect => profile[p].named

StoreInv ==
    StoreTypeOK /\ NoOpenLaunchInQuarantine /\ NothingLeft /\ ReselectRegistered

RequestsNameProfiles ==
    \A r \in Requests : req[r].pc # "idle" => req[r].profile \in Profiles

IInv == StateTypeOK /\ StoreInv /\ RequestsNameProfiles
=============================================================================

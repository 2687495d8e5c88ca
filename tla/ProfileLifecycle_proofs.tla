----------------------- MODULE ProfileLifecycle_proofs -----------------------
(***************************************************************************)
(* IInv is an inductive invariant of the profile lifecycle, for any number *)
(* of profiles, launches, requests, setups and removals at a time: first   *)
(* every transaction preserves StoreInv, then every step of a request      *)
(* preserves IInv.  UsableInv adds what holds while setups do not overlap, *)
(* MoveInv what holds while no setup runs and removals do not overlap.     *)
(***************************************************************************)
EXTENDS ProfileLifecycle, FiniteSetTheorems, TLAPS

-----------------------------------------------------------------------------
(* The transactions.                                                       *)

LEMMA UnchangedTables ==
  ASSUME StoreInv, UNCHANGED tableVars, clock' \in Nat
  PROVE  StoreInv'
BY DEF StoreInv, StoreTypeOK, NoOpenLaunchInQuarantine, Visible, NothingLeft,
       ReselectRegistered, tableVars

LEMMA InitialTables ==
  ASSUME StoreInit
  PROVE  StoreInv
<1>1. PICK own \in [Established -> Ownerships] :
        profile = [p \in Profiles |->
                     IF p \in Established THEN SetUpRow(own[p]) ELSE NoRow]
  BY DEF StoreInit
<1>2. /\ NoRow \in ProfileRow
      /\ \A o \in Ownerships : SetUpRow(o) \in ProfileRow /\ SetUpRow(o).named
      /\ ~NoRow.named /\ ~NoRow.pending /\ NoRow.home = "none"
      /\ NotQuarantined \in QuarantineRow /\ ~NotQuarantined.reselect
  BY DEF NoRow, SetUpRow, ProfileRow, Ownerships, Statuses, NotQuarantined, QuarantineRow
<1>3. profile \in [Profiles -> ProfileRow]
  BY <1>1, <1>2
<1>4. selected = None \/ selected \in Established
  BY DEF StoreInit
<1>5. \A p \in Profiles : ~profile[p].named =>
         ~profile[p].pending /\ profile[p].home = "none" /\ p \notin Established
  BY <1>1, <1>2
<1>6. StoreTypeOK
  BY <1>2, <1>3, <1>4, ProfileAssumption DEF StoreInit, StoreTypeOK, LeaseRow
<1>7. NothingLeft
  BY <1>4, <1>5, ProfileAssumption DEF NothingLeft
<1>8. ReselectRegistered
  BY <1>2 DEF ReselectRegistered, StoreInit
<1>9. NoOpenLaunchInQuarantine
  BY DEF NoOpenLaunchInQuarantine, StoreInit
<1> QED BY <1>6, <1>7, <1>8, <1>9 DEF StoreInv

\* A transaction that leaves aliases and registrations alone: it may write to a
\* profile that is gone.
LEMMA RegistrationsKept ==
  ASSUME StoreInv, profile' \in [Profiles -> ProfileRow],
         \A p \in Profiles : /\ profile'[p].named = profile[p].named
                              /\ profile'[p].pending = profile[p].pending
                              /\ profile'[p].home = profile[p].home,
         UNCHANGED <<quarantine, selected, lease, clock>>
  PROVE  StoreInv'
<1>1. \A l \in Leases : lease[l].state \in {"pending", "running"} =>
                            lease[l].profile \in Profiles
  BY DEF StoreInv, StoreTypeOK, LeaseRow
<1>2. StoreTypeOK'
  BY DEF StoreInv, StoreTypeOK
<1>3. NoOpenLaunchInQuarantine'
  BY <1>1 DEF StoreInv, NoOpenLaunchInQuarantine, Visible
<1>4. NothingLeft' /\ ReselectRegistered'
  BY DEF StoreInv, NothingLeft, ReselectRegistered
<1> QED BY <1>2, <1>3, <1>4 DEF StoreInv

\* A transaction that rewrites a registered profile, keeping its home
\* registration if it has one, and that may select the profile.
LEMMA ProfileUpdateKeeps ==
  ASSUME StoreInv, NEW p \in Profiles, NEW row \in ProfileRow,
         profile' = [profile EXCEPT ![p] = row],
         row.named, profile[p].home # "none" => row.home # "none",
         selected' = selected \/ selected' = p,
         UNCHANGED <<quarantine, lease, clock>>
  PROVE  StoreInv'
<1>1. /\ profile'[p] = row
      /\ \A q \in Profiles : q # p => profile'[q] = profile[q]
      /\ \A l \in Leases : lease[l].state \in {"pending", "running"} =>
                              lease[l].profile \in Profiles
  BY DEF StoreInv, StoreTypeOK, LeaseRow
<1>2. StoreTypeOK'
  BY DEF StoreInv, StoreTypeOK
<1>3. NoOpenLaunchInQuarantine'
  BY <1>1 DEF StoreInv, NoOpenLaunchInQuarantine, Visible
<1>4. NothingLeft'
  BY <1>1 DEF StoreInv, NothingLeft
<1>5. ReselectRegistered'
  BY <1>1 DEF StoreInv, ReselectRegistered
<1> QED BY <1>2, <1>3, <1>4, <1>5 DEF StoreInv

\* The transactions of setup and reauthentication, also those that write to a
\* profile that is gone.
LEMMA SetupTransactionKeeps ==
  ASSUME StoreInv, clock' = clock, NEW p \in Profiles,
         NEW own \in {"none"} \cup Ownerships,
         NEW stage \in {"authentication", "validation"}, NEW status \in Statuses,
         \/ CreatePendingProfile(p) \/ SetHome(p, own) \/ SaveSetupStage(p, stage)
         \/ ResetAuthentication(p) \/ SetAuthenticationState(p, status)
         \/ CompleteInitialSelection(p)
  PROVE  StoreInv'
<1>1. /\ profile \in [Profiles -> ProfileRow]
      /\ profile[p] \in ProfileRow
      /\ ~profile[p].named => ~profile[p].pending /\ profile[p].home = "none"
  BY DEF StoreInv, StoreTypeOK, NothingLeft
<1>2. CASE CreatePendingProfile(p)
  <2>1. FreshRow \in ProfileRow /\ FreshRow.named
    BY DEF FreshRow, NoRow, ProfileRow, Ownerships, Statuses
  <2>2. profile[p].home = "none"
    BY <1>2 DEF CreatePendingProfile, NoRow
  <2> QED BY <1>2, <2>1, <2>2, ProfileUpdateKeeps DEF CreatePendingProfile
<1>3. CASE SetHome(p, own)
  <2> DEFINE row == [profile[p] EXCEPT !.home = own]
  <2>1. profile' = [profile EXCEPT ![p] = row]
    BY <1>1, <1>3 DEF SetHome
  <2>2. /\ row \in ProfileRow
        /\ row.named = profile[p].named
        /\ row.named
        /\ profile[p].home # "none" => row.home # "none"
    BY <1>1, <1>3 DEF SetHome, ProfileRow
  <2> HIDE DEF row
  <2> QED BY <1>3, <2>1, <2>2, ProfileUpdateKeeps DEF SetHome
<1>4. CASE SaveSetupStage(p, stage)
  <2> DEFINE row == [profile[p] EXCEPT !.done = @ \cup {stage}]
  <2>1. profile' = [profile EXCEPT ![p] = row]
    BY <1>1, <1>4 DEF SaveSetupStage
  <2>2. row \in ProfileRow /\ row.named /\ row.home = profile[p].home
    BY <1>1, <1>4 DEF SaveSetupStage, ProfileRow
  <2> HIDE DEF row
  <2> QED BY <1>4, <2>1, <2>2, ProfileUpdateKeeps DEF SaveSetupStage
<1>5. CASE ResetAuthentication(p)
  <2>1. profile' \in [Profiles -> ProfileRow]
    BY <1>1, <1>5 DEF ResetAuthentication, ProfileRow, Statuses
  <2>2. \A q \in Profiles : /\ profile'[q].named = profile[q].named
                             /\ profile'[q].pending = profile[q].pending
                             /\ profile'[q].home = profile[q].home
    BY <1>1, <1>5 DEF ResetAuthentication, ProfileRow
  <2> QED BY <1>5, <2>1, <2>2, RegistrationsKept DEF ResetAuthentication
<1>6. CASE SetAuthenticationState(p, status)
  <2>1. profile' \in [Profiles -> ProfileRow]
    BY <1>1, <1>6 DEF SetAuthenticationState, ProfileRow
  <2>2. \A q \in Profiles : /\ profile'[q].named = profile[q].named
                             /\ profile'[q].pending = profile[q].pending
                             /\ profile'[q].home = profile[q].home
    BY <1>1, <1>6 DEF SetAuthenticationState, ProfileRow
  <2> QED BY <1>6, <2>1, <2>2, RegistrationsKept DEF SetAuthenticationState
<1>7. CASE CompleteInitialSelection(p)
  <2> DEFINE row == [profile[p] EXCEPT !.status = "ready", !.pending = FALSE]
  <2>1. profile' = [profile EXCEPT ![p] = row]
    BY <1>1, <1>7 DEF CompleteInitialSelection
  <2>2. row \in ProfileRow /\ row.named /\ row.home = profile[p].home
    BY <1>1, <1>7 DEF CompleteInitialSelection, ProfileRow, Statuses
  <2>3. selected' = selected \/ selected' = p
    BY <1>7 DEF CompleteInitialSelection
  <2> HIDE DEF row
  <2> QED BY <1>7, <2>1, <2>2, <2>3, ProfileUpdateKeeps DEF CompleteInitialSelection
<1> QED BY <1>2, <1>3, <1>4, <1>5, <1>6, <1>7

\* A selection is of a registered profile.
LEMMA SelectKeeps ==
  ASSUME StoreInv, clock' = clock, NEW p \in Profiles, SelectProfile(p)
  PROVE  StoreInv'
BY DEF StoreInv, StoreTypeOK, NoOpenLaunchInQuarantine, NothingLeft,
       ReselectRegistered, SelectProfile, Selectable, Visible

\* A launch opens only for a visible profile with a home, and settles freely.
LEMMA LaunchKeeps ==
  ASSUME StoreInv, clock' = clock, NEW l \in Leases, NEW p,
         \/ p \in Profiles /\ PrepareLaunch(l, p)
         \/ MarkStarted(l) \/ SettleLaunch(l)
  PROVE  StoreInv'
<1>1. /\ lease \in [Leases -> LeaseRow]
      /\ UNCHANGED <<profile, quarantine, selected>>
  BY DEF StoreInv, StoreTypeOK, PrepareLaunch, MarkStarted, SettleLaunch
<1>2. /\ lease' \in [Leases -> LeaseRow]
      /\ \A k \in Leases : lease'[k].state \in {"pending", "running"} =>
            Visible(lease'[k].profile) /\ profile[lease'[k].profile].home # "none"
  <2>1. CASE p \in Profiles /\ PrepareLaunch(l, p)
    <3> DEFINE row == [state |-> "pending", profile |-> p]
    <3>1. row \in LeaseRow /\ row.profile = p
      BY <2>1 DEF LeaseRow
    <3>2. /\ lease'[l] = row
          /\ \A k \in Leases : k # l => lease'[k] = lease[k]
          /\ lease' \in [Leases -> LeaseRow]
      BY <1>1, <2>1, <3>1 DEF PrepareLaunch
    <3> HIDE DEF row
    <3>3. Visible(p) /\ profile[p].home # "none"
      BY <2>1 DEF PrepareLaunch, Selectable
    <3> QED BY <3>1, <3>2, <3>3 DEF StoreInv, NoOpenLaunchInQuarantine
  <2>2. ASSUME NEW s \in {"running", "settled"},
               lease[l].state \in {"pending", "running"},
               lease' = [lease EXCEPT ![l].state = s]
        PROVE  /\ lease' \in [Leases -> LeaseRow]
               /\ \A k \in Leases : lease'[k].state \in {"pending", "running"} =>
                     Visible(lease'[k].profile) /\ profile[lease'[k].profile].home # "none"
    <3> DEFINE row == [lease[l] EXCEPT !.state = s]
    <3>1. row \in LeaseRow /\ row.profile = lease[l].profile
      BY <1>1, <2>2 DEF LeaseRow
    <3>2. lease' = [lease EXCEPT ![l] = row]
      BY <1>1, <2>2
    <3> HIDE DEF row
    <3>3. /\ lease'[l] = row
          /\ \A k \in Leases : k # l => lease'[k] = lease[k]
          /\ lease' \in [Leases -> LeaseRow]
      BY <1>1, <3>1, <3>2
    <3> QED BY <2>2, <3>1, <3>3 DEF StoreInv, NoOpenLaunchInQuarantine
  <2> QED BY <2>1, <2>2 DEF MarkStarted, SettleLaunch
<1>3. StoreTypeOK'
  BY <1>1, <1>2 DEF StoreInv, StoreTypeOK
<1>4. NoOpenLaunchInQuarantine'
  BY <1>1, <1>2 DEF NoOpenLaunchInQuarantine, Visible
<1>5. NothingLeft' /\ ReselectRegistered'
  BY <1>1 DEF StoreInv, NothingLeft, ReselectRegistered
<1> QED BY <1>3, <1>4, <1>5 DEF StoreInv

\* deleteProfileRows: the profile is gone, its launches are settled and the
\* selection has moved to a registered profile or to none.
LEMMA DeleteRowsKeeps ==
  ASSUME StoreInv, clock' = clock, NEW p \in Profiles,
         NEW s \in Profiles \cup {None},
         \A q \in Profiles : ~profile[q].named => s # q,
         DeleteProfileRows(p, s)
  PROVE  StoreInv'
<1>1. /\ Tombstone \in ProfileRow
      /\ ~Tombstone.named /\ ~Tombstone.pending /\ Tombstone.home = "none"
      /\ NotQuarantined \in QuarantineRow
      /\ NotQuarantined.reselect = FALSE
  BY DEF Tombstone, NoRow, ProfileRow, Statuses, NotQuarantined, QuarantineRow
<1>2. /\ profile' = [profile EXCEPT ![p] = Tombstone]
      /\ quarantine' = [quarantine EXCEPT ![p] = NotQuarantined]
      /\ selected' = IF s = p THEN None ELSE s
      /\ profile \in [Profiles -> ProfileRow]
      /\ quarantine \in [Profiles -> QuarantineRow]
  BY DEF DeleteProfileRows, StoreInv, StoreTypeOK
<1>3. /\ profile'[p] = Tombstone
      /\ quarantine'[p] = NotQuarantined
      /\ \A q \in Profiles : q # p => /\ profile'[q] = profile[q]
                                     /\ quarantine'[q] = quarantine[q]
      /\ profile' \in [Profiles -> ProfileRow]
      /\ quarantine' \in [Profiles -> QuarantineRow]
  BY <1>1, <1>2
<1>4. ASSUME NEW l \in Leases
      PROVE  /\ lease'[l] \in LeaseRow
             /\ lease'[l].state \in {"pending", "running"} =>
                   /\ lease'[l] = lease[l]
                   /\ lease[l].profile \in Profiles \ {p}
  <2>1. lease[l] \in LeaseRow
    BY DEF StoreInv, StoreTypeOK
  <2>2. CASE lease[l].profile = p
    <3>1. lease'[l] = [lease[l] EXCEPT !.state = "settled"]
      BY <2>2 DEF DeleteProfileRows
    <3> QED BY <2>1, <2>2, <3>1, ProfileAssumption DEF LeaseRow
  <2>3. CASE lease[l].profile # p
    <3>1. lease'[l] = lease[l]
      BY <2>3 DEF DeleteProfileRows
    <3> QED BY <2>1, <2>3, <3>1 DEF LeaseRow
  <2> QED BY <2>2, <2>3
<1>5. StoreTypeOK'
  <2>1. lease' \in [Leases -> LeaseRow]
    BY <1>4 DEF DeleteProfileRows
  <2> QED BY <1>2, <1>3, <2>1 DEF StoreInv, StoreTypeOK
<1>6. NoOpenLaunchInQuarantine'
  BY <1>3, <1>4 DEF StoreInv, NoOpenLaunchInQuarantine, Visible
<1>7. NothingLeft'
  BY <1>1, <1>2, <1>3, ProfileAssumption DEF StoreInv, NothingLeft
<1>8. ReselectRegistered'
  BY <1>1, <1>3 DEF StoreInv, ReselectRegistered
<1> QED BY <1>5, <1>6, <1>7, <1>8 DEF StoreInv

\* A transaction that rewrites a quarantine row, puts no profile with an open
\* launch in quarantine and selects a registered profile if it selects one.
LEMMA QuarantineUpdateKeeps ==
  ASSUME StoreInv, NEW p \in Profiles, NEW row \in QuarantineRow,
         quarantine' = [quarantine EXCEPT ![p] = row],
         row.state = "none" \/ quarantine[p].state # "none" \/ OpenLeases(p) = {},
         row.reselect => profile[p].named,
         selected' \in Profiles \cup {None},
         selected' = selected
            \/ (selected' \in Profiles => profile[selected'].named),
         UNCHANGED <<profile, lease, clock>>
  PROVE  StoreInv'
<1>1. /\ quarantine'[p] = row
      /\ \A q \in Profiles : q # p => quarantine'[q] = quarantine[q]
      /\ quarantine' \in [Profiles -> QuarantineRow]
      /\ \A l \in Leases : lease[l].state \in {"pending", "running"} =>
                              lease[l].profile \in Profiles
  BY DEF StoreInv, StoreTypeOK, LeaseRow
<1>2. StoreTypeOK'
  BY <1>1 DEF StoreInv, StoreTypeOK
<1>3. NoOpenLaunchInQuarantine'
  <2> SUFFICES ASSUME NEW l \in Leases, lease[l].state \in {"pending", "running"}
               PROVE  /\ profile[lease[l].profile].named
                      /\ quarantine'[lease[l].profile].state = "none"
                      /\ profile[lease[l].profile].home # "none"
    BY DEF NoOpenLaunchInQuarantine, Visible
  <2>1. /\ profile[lease[l].profile].named
        /\ quarantine[lease[l].profile].state = "none"
        /\ profile[lease[l].profile].home # "none"
    BY DEF StoreInv, NoOpenLaunchInQuarantine, Visible
  <2>2. CASE lease[l].profile # p
    BY <1>1, <2>1, <2>2
  <2>3. CASE lease[l].profile = p
    <3>1. row.state = "none"
      BY <2>1, <2>3 DEF OpenLeases
    <3> QED BY <1>1, <2>1, <2>3, <3>1
  <2> QED BY <2>2, <2>3
<1>4. NothingLeft'
  BY DEF StoreInv, NothingLeft
<1>5. ReselectRegistered'
  BY <1>1 DEF StoreInv, ReselectRegistered
<1> QED BY <1>2, <1>3, <1>4, <1>5 DEF StoreInv

\* A removal begins only without open launches; the selection moves to a
\* profile in use.
LEMMA BeginRemovalKeeps ==
  ASSUME StoreInv, clock' = clock, NEW p \in Profiles, NEW own,
         BeginProfileRemoval(p, own)
  PROVE  StoreInv'
<1>1. PICK s \in SelectionWithout(p) :
         \/ DeleteProfileRows(p, s)
         \/ /\ quarantine' = [quarantine EXCEPT ![p] =
                   [state |-> "prepared", reselect |-> selected = p,
                    until |-> clock + Period]]
            /\ selected' = s
            /\ UNCHANGED <<profile, lease>>
  BY DEF BeginProfileRemoval
<1>2. /\ s \in Profiles \cup {None}
      /\ s = selected \/ (s \in Profiles => profile[s].named)
  BY <1>1 DEF SelectionWithout, Selectable, Visible, StoreInv, StoreTypeOK
<1>3. OpenLeases(p) = {}
  BY DEF BeginProfileRemoval
<1>4. CASE DeleteProfileRows(p, s)
  <2>1. \A q \in Profiles : ~profile[q].named => s # q
    BY <1>2 DEF StoreInv, NothingLeft
  <2> QED BY <1>2, <1>4, <2>1, DeleteRowsKeeps
<1>5. CASE /\ quarantine' = [quarantine EXCEPT ![p] =
                   [state |-> "prepared", reselect |-> selected = p,
                    until |-> clock + Period]]
           /\ selected' = s
           /\ UNCHANGED <<profile, lease>>
  <2> DEFINE row == [state |-> "prepared", reselect |-> selected = p,
                     until |-> clock + Period]
  <2>1. row \in QuarantineRow
    BY ProfileAssumption DEF StoreInv, StoreTypeOK, QuarantineRow
  <2>2. row.reselect => profile[p].named
    BY DEF StoreInv, NothingLeft
  <2>3. quarantine' = [quarantine EXCEPT ![p] = row]
    BY <1>5
  <2> HIDE DEF row
  <2> QED BY <1>2, <1>3, <1>5, <2>1, <2>2, <2>3, QuarantineUpdateKeeps
<1> QED BY <1>1, <1>4, <1>5

\* The transactions that end a removal, a restoration or a purge.
LEMMA EndRemovalKeeps ==
  ASSUME StoreInv, clock' = clock, NEW p \in Profiles,
         \/ CompleteProfileQuarantine(p) \/ CancelProfileRemoval(p)
         \/ RestoreProfile(p) \/ PurgeProfile(p)
  PROVE  StoreInv'
<1>1. /\ quarantine \in [Profiles -> QuarantineRow]
      /\ quarantine[p] \in QuarantineRow
      /\ quarantine[p].reselect => profile[p].named
      /\ selected \in Profiles \cup {None}
  BY DEF StoreInv, StoreTypeOK, ReselectRegistered
<1>2. NotQuarantined \in QuarantineRow /\ NotQuarantined.state = "none"
      /\ NotQuarantined.reselect = FALSE
  BY DEF NotQuarantined, QuarantineRow
<1>3. CASE CompleteProfileQuarantine(p)
  <2> DEFINE row == [quarantine[p] EXCEPT !.state = "quarantined"]
  <2>1. /\ row \in QuarantineRow
        /\ row.reselect => profile[p].named
    BY <1>1 DEF QuarantineRow
  <2>2. quarantine' = [quarantine EXCEPT ![p] = row]
    BY <1>1, <1>3 DEF CompleteProfileQuarantine
  <2>3. quarantine[p].state # "none" /\ selected' = selected
        /\ UNCHANGED <<profile, lease>>
    BY <1>3 DEF CompleteProfileQuarantine
  <2> HIDE DEF row
  <2> QED BY <1>1, <2>1, <2>2, <2>3, QuarantineUpdateKeeps
<1>4. CASE CancelProfileRemoval(p)
  <2>1. /\ quarantine' = [quarantine EXCEPT ![p] = NotQuarantined]
        /\ selected' = IF quarantine[p].reselect THEN p ELSE selected
        /\ UNCHANGED <<profile, lease>>
    BY <1>4 DEF CancelProfileRemoval
  <2>2. selected' = selected \/ (selected' = p /\ profile[p].named)
    BY <1>1, <2>1
  <2> QED BY <1>1, <1>2, <2>1, <2>2, QuarantineUpdateKeeps
<1>5. CASE RestoreProfile(p)
  <2>1. /\ quarantine' = [quarantine EXCEPT ![p] = NotQuarantined]
        /\ UNCHANGED <<profile, selected, lease>>
    BY <1>5 DEF RestoreProfile
  <2> QED BY <1>1, <1>2, <2>1, QuarantineUpdateKeeps
<1>6. CASE PurgeProfile(p)
  <2>1. \A q \in Profiles : ~profile[q].named => selected # q
    BY DEF StoreInv, NothingLeft
  <2> QED BY <1>1, <1>6, <2>1, DeleteRowsKeeps DEF PurgeProfile
<1> QED BY <1>3, <1>4, <1>5, <1>6

-----------------------------------------------------------------------------
(* The requests.                                                           *)

ReqOK == req \in [Requests -> Request] /\ RequestsNameProfiles

HomesOK == home \in [Profiles -> [Places -> Contents]]

LEMMA InitialInvariant == Init => IInv
<1> SUFFICES ASSUME Init PROVE IInv
  OBVIOUS
<1>1. StoreInv
  BY InitialTables DEF Init
<1>2. Idle \in Request /\ Idle.pc = "idle"
  BY DEF Idle, Request, Statuses
<1>3. req \in [Requests -> Request] /\ RequestsNameProfiles
  BY <1>2, ProfileAssumption DEF Init, RequestsNameProfiles
<1>4. home \in [Profiles -> [Places -> Contents]]
  BY DEF Init, Contents
<1> QED BY <1>1, <1>3, <1>4 DEF IInv, StateTypeOK, StoreInv

\* What makes IInv of its parts.
LEMMA Together ==
  ASSUME StoreInv', HomesOK', ReqOK'
  PROVE  IInv'
BY DEF IInv, StateTypeOK, StoreInv, HomesOK, ReqOK

LEMMA Apart ==
  ASSUME IInv
  PROVE  StoreInv /\ HomesOK /\ ReqOK /\ StoreTypeOK
BY DEF IInv, StateTypeOK, StoreInv, HomesOK, ReqOK

\* A request that is in progress knows its profile.
LEMMA InProgressType ==
  ASSUME ReqOK, NEW r \in Requests, req[r].pc # "idle"
  PROVE  /\ req[r] \in Request
         /\ req[r].profile \in Profiles
         /\ req[r].own \in {"none"} \cup Ownerships
         /\ req[r].status \in Statuses
BY DEF ReqOK, RequestsNameProfiles, Request

\* The ways a request goes on.
LEMMA RequestsStay == ASSUME ReqOK, req' = req PROVE ReqOK'
BY DEF ReqOK, RequestsNameProfiles

LEMMA RequestEnds ==
  ASSUME ReqOK, NEW r \in Requests, End(r)
  PROVE  ReqOK'
<1>1. Idle \in Request /\ Idle.pc = "idle"
  BY DEF Idle, Request, Statuses
<1> QED BY <1>1 DEF ReqOK, RequestsNameProfiles, End

LEMMA RequestChanges ==
  ASSUME ReqOK, NEW r \in Requests, NEW row \in Request,
         row.profile \in Profiles,
         req' = [req EXCEPT ![r] = row]
  PROVE  ReqOK'
BY DEF ReqOK, RequestsNameProfiles

LEMMA RequestGoesOn ==
  ASSUME ReqOK, NEW r \in Requests, NEW pc \in Steps,
         req[r].pc # "idle", Goto(r, pc)
  PROVE  ReqOK'
<1> DEFINE row == [req[r] EXCEPT !.pc = pc]
<1>1. row \in Request /\ row.profile \in Profiles
  BY InProgressType DEF Request
<1>2. req' = [req EXCEPT ![r] = row]
  BY DEF Goto, ReqOK
<1> HIDE DEF row
<1> QED BY <1>1, <1>2, RequestChanges

LEMMA RequestBegins ==
  ASSUME ReqOK, NEW r \in Requests, NEW row \in Request,
         row.profile \in Profiles, Begin(r, row)
  PROVE  ReqOK'
BY RequestChanges DEF Begin

\* A step that touches no table.
LEMMA TablesStay ==
  ASSUME StoreInv, UNCHANGED <<tableVars, clock>>
  PROVE  StoreInv'
BY UnchangedTables DEF StoreInv, StoreTypeOK

-----------------------------------------------------------------------------
(* The steps of setup.                                                     *)

LEMMA BeginSetupKeeps ==
  ASSUME IInv, NEW r \in Requests, NEW p \in Profiles, BeginSetup(r, p)
  PROVE  IInv'
<1>1. StoreInv /\ HomesOK /\ ReqOK
  BY Apart
<1>2. HomesOK' /\ clock' = clock
  BY <1>1 DEF BeginSetup, HomesOK
<1>3. CASE CreatePendingProfile(p) /\ Begin(r, Load("setup", "ensure", p))
  <2>1. StoreInv'
    BY <1>1, <1>2, <1>3, SetupTransactionKeeps DEF Statuses
  <2>2. /\ Load("setup", "ensure", p) \in Request
        /\ Load("setup", "ensure", p).profile = p
    BY DEF Load, Idle, Request, Steps, Statuses
  <2>3. ReqOK'
    BY <1>1, <1>3, <2>2, RequestBegins
  <2> QED BY <1>2, <2>1, <2>3, Together
<1>4. CASE /\ Begin(r, [Load("setup", "ensure", p) EXCEPT
                          !.own = profile[p].home, !.done = profile[p].done])
           /\ UNCHANGED tableVars
  <2> DEFINE row == [Load("setup", "ensure", p) EXCEPT
                       !.own = profile[p].home, !.done = profile[p].done]
  <2>1. StoreInv'
    BY <1>1, <1>2, <1>4, TablesStay
  <2>2. profile[p] \in ProfileRow
    BY <1>1 DEF StoreInv, StoreTypeOK
  <2>3. row \in Request /\ row.profile = p
    BY <2>2 DEF Load, Idle, Request, Steps, Statuses, ProfileRow
  <2> HIDE DEF row
  <2>4. ReqOK'
    BY <1>1, <1>4, <2>3, RequestBegins DEF row
  <2> QED BY <1>2, <2>1, <2>4, Together
<1> QED BY <1>3, <1>4 DEF BeginSetup

\* The contents of the directories stay contents.
LEMMA HomeWritten ==
  ASSUME HomesOK, NEW p \in Profiles, NEW d \in Places, NEW c \in Contents,
         home' = [home EXCEPT ![p][d] = c]
  PROVE  HomesOK'
BY DEF HomesOK

LEMMA EnsureHomeKeeps ==
  ASSUME IInv, NEW r \in Requests, NEW own \in Ownerships, EnsureHome(r, own)
  PROVE  IInv'
<1>1. StoreInv /\ HomesOK /\ ReqOK /\ req[r].pc # "idle"
  BY Apart DEF EnsureHome, At
<1>2. StoreInv'
  BY <1>1, TablesStay DEF EnsureHome
<1>3. HomesOK'
  <2>1. req[r].profile \in Profiles
    BY <1>1, InProgressType
  <2> QED BY <1>1, <2>1, HomeWritten DEF EnsureHome, HomesOK, Places, Contents
<1>4. ReqOK'
  <2> DEFINE next == IF req[r].own = "none" THEN "register" ELSE FirstStage(req[r].done)
             row == [req[r] EXCEPT !.own = own, !.pc = next]
  <2>1. next \in Steps
    BY DEF FirstStage, Steps
  <2>2. req' = [req EXCEPT ![r] = row]
    BY <1>1 DEF EnsureHome, ReqOK
  <2> HIDE DEF next
  <2>3. row \in Request /\ row.profile \in Profiles
    BY <1>1, <2>1, InProgressType DEF Request
  <2> HIDE DEF row
  <2> QED BY <1>1, <2>2, <2>3, RequestChanges
<1> QED BY <1>2, <1>3, <1>4, Together

\* A step that only runs a setup transaction and goes on or ends.
LEMMA SetupWriteKeeps ==
  ASSUME IInv, NEW r \in Requests, req[r].pc # "idle", NEW pc \in Steps,
         NEW own \in {"none"} \cup Ownerships,
         NEW stage \in {"authentication", "validation"}, NEW status \in Statuses,
         \/ SetHome(req[r].profile, own) \/ SaveSetupStage(req[r].profile, stage)
         \/ ResetAuthentication(req[r].profile)
         \/ SetAuthenticationState(req[r].profile, status)
         \/ CompleteInitialSelection(req[r].profile),
         \/ Goto(r, pc) \/ End(r)
         \/ req' = [req EXCEPT ![r].pc = pc, ![r].again = TRUE],
         UNCHANGED <<clock, home>>
  PROVE  IInv'
<1>1. StoreInv /\ HomesOK /\ ReqOK /\ req[r].profile \in Profiles
  BY Apart, InProgressType
<1>2. StoreInv'
  BY <1>1, SetupTransactionKeeps
<1>3. HomesOK'
  BY <1>1 DEF HomesOK
<1>4. ReqOK'
  <2>1. CASE Goto(r, pc)
    BY <1>1, <2>1, RequestGoesOn
  <2>2. CASE End(r)
    BY <1>1, <2>2, RequestEnds
  <2>3. CASE req' = [req EXCEPT ![r].pc = pc, ![r].again = TRUE]
    <3> DEFINE row == [req[r] EXCEPT !.pc = pc, !.again = TRUE]
    <3>1. row \in Request /\ row.profile \in Profiles
      BY <1>1, InProgressType DEF Request
    <3>2. req' = [req EXCEPT ![r] = row]
      BY <1>1, <2>3 DEF ReqOK
    <3> HIDE DEF row
    <3> QED BY <1>1, <3>1, <3>2, RequestChanges
  <2> QED BY <2>1, <2>2, <2>3
<1> QED BY <1>2, <1>3, <1>4, Together

\* A step that touches no table and goes on or ends.
LEMMA QuietStepKeeps ==
  ASSUME IInv, NEW r \in Requests, req[r].pc # "idle", NEW pc \in Steps,
         Goto(r, pc) \/ End(r),
         HomesOK', UNCHANGED <<tableVars, clock>>
  PROVE  IInv'
<1>1. StoreInv /\ HomesOK /\ ReqOK
  BY Apart
<1>2. StoreInv'
  BY <1>1, TablesStay
<1>3. ReqOK'
  BY <1>1, RequestGoesOn, RequestEnds
<1> QED BY <1>2, <1>3, Together

\* Every step of a setup, whatever else happened to its profile meanwhile.
LEMMA SetupStepKeeps ==
  ASSUME IInv, NEW r \in Requests, SetupStep(r)
  PROVE  IInv'
<1>1. StoreInv /\ HomesOK /\ ReqOK /\ (home' = home => HomesOK')
  BY Apart DEF HomesOK
<1>2. \A own \in Ownerships : EnsureHome(r, own) => IInv'
  BY EnsureHomeKeeps
<1>3. RegisterHome(r) => IInv'
  <2> SUFFICES ASSUME RegisterHome(r) PROVE IInv'
    OBVIOUS
  <2>1. req[r].pc # "idle" /\ FirstStage(req[r].done) \in Steps
    BY DEF RegisterHome, At, FirstStage, Steps
  <2>2. req[r].own \in {"none"} \cup Ownerships
    BY <1>1, <2>1, InProgressType
  <2> QED BY <2>1, <2>2, SetupWriteKeeps DEF RegisterHome, Statuses
<1>4. ReuseSignIn(r) \/ SaveAuthentication(r) \/ SaveValidation(r) => IInv'
  BY SetupWriteKeeps
     DEF ReuseSignIn, SaveAuthentication, SaveValidation, At, Steps, Statuses
<1>5. RecordMethod(r) \/ Confirm(r) => IInv'
  BY SetupWriteKeeps DEF RecordMethod, Confirm, At, Steps, Statuses
<1>6. FinishSetup(r) => IInv'
  BY SetupWriteKeeps DEF FinishSetup, At, Steps, Statuses
<1>7. CheckRejects(r) => IInv'
  BY SetupWriteKeeps DEF CheckRejects, At, Steps, Statuses
<1>8. CheckSucceeds(r) => IInv'
  BY <1>1, QuietStepKeeps DEF CheckSucceeds, At, Steps
<1>9. Login(r) => IInv'
  <2> SUFFICES ASSUME Login(r) PROVE IInv'
    OBVIOUS
  <2>1. req[r].pc # "idle"
    BY DEF Login, At
  <2>2. req[r].profile \in Profiles
    BY <1>1, <2>1, InProgressType
  <2>3. HomesOK'
    BY <1>1, <2>2, HomeWritten DEF Login, SignIn, Places, Contents
  <2> QED BY <2>1, <2>3, QuietStepKeeps DEF Login, Steps
<1> QED BY <1>2, <1>3, <1>4, <1>5, <1>6, <1>7, <1>8, <1>9 DEF SetupStep

-----------------------------------------------------------------------------
(* The steps of reauthentication.                                          *)

LEMMA ReauthenticationKeeps ==
  ASSUME IInv, RequestAssumption, NEW r \in Requests, NEW p \in Profiles,
         \/ BeginReauthentication(r, p) \/ CheckSignIn(r)
         \/ RecordVerdict(r) \/ LoginAgain(r)
  PROVE  IInv'
<1>1. StoreInv /\ HomesOK /\ ReqOK /\ (home' = home => HomesOK')
  BY Apart DEF HomesOK
<1>2. Verdicts \subseteq Statuses
  BY DEF RequestAssumption, Statuses
<1>3. CASE BeginReauthentication(r, p)
  <2> DEFINE row == [Load("reauthenticate", "check", p) EXCEPT
                       !.own = profile[p].home, !.status = profile[p].status]
  <2>1. /\ profile[p] \in ProfileRow
        /\ profile[p].status # "absent"
    <3>1. profile[p] \in ProfileRow /\ profile[p].named
      BY <1>1, <1>3 DEF StoreInv, StoreTypeOK, BeginReauthentication, Visible
    <3> QED BY <3>1 DEF ProfileRow, Statuses
  <2>2. row \in Request /\ row.profile = p
    BY <2>1 DEF Load, Idle, Request, Steps, Statuses, ProfileRow
  <2>3. Begin(r, row)
    BY <1>3 DEF BeginReauthentication
  <2> HIDE DEF row
  <2>4. ReqOK' /\ StoreInv'
    BY <1>1, <1>3, <2>2, <2>3, RequestBegins, TablesStay DEF BeginReauthentication
  <2> QED BY <1>1, <1>3, <2>4, Together DEF BeginReauthentication
<1>4. CASE CheckSignIn(r)
  <2>1. PICK verdict \in Verdicts :
          req' = [req EXCEPT ![r].pc = "record", ![r].status = verdict]
    BY <1>4 DEF CheckSignIn
  <2> DEFINE row == [req[r] EXCEPT !.pc = "record", !.status = verdict]
  <2>2. req' = [req EXCEPT ![r] = row]
    BY <1>1, <2>1 DEF ReqOK
  <2>3. req[r].pc # "idle"
    BY <1>4 DEF CheckSignIn, At
  <2>4. row \in Request /\ row.profile \in Profiles
    BY <1>1, <1>2, <2>3, InProgressType DEF Request, Steps
  <2> HIDE DEF row
  <2>5. ReqOK' /\ StoreInv'
    BY <1>1, <1>4, <2>2, <2>4, RequestChanges, TablesStay DEF CheckSignIn
  <2> QED BY <1>1, <1>4, <2>5, Together DEF CheckSignIn
<1>5. CASE RecordVerdict(r)
  <2>1. req[r].pc # "idle"
    BY <1>5 DEF RecordVerdict, At
  <2>2. req[r].status \in Statuses
    BY <1>1, <2>1, InProgressType
  <2> QED BY <1>5, <2>1, <2>2, SetupWriteKeeps DEF RecordVerdict, Steps
<1>6. CASE LoginAgain(r)
  <2>1. PICK verdict \in Verdicts :
          req' = [req EXCEPT ![r].pc = "record", ![r].status = verdict, ![r].again = TRUE]
    BY <1>6 DEF LoginAgain
  <2> DEFINE row == [req[r] EXCEPT !.pc = "record", !.status = verdict, !.again = TRUE]
  <2>2. req' = [req EXCEPT ![r] = row]
    BY <1>1, <2>1 DEF ReqOK
  <2>3. req[r].pc # "idle"
    BY <1>6 DEF LoginAgain, At
  <2>4. row \in Request /\ row.profile \in Profiles
    BY <1>1, <1>2, <2>3, InProgressType DEF Request, Steps
  <2> HIDE DEF row
  <2>5. ReqOK' /\ StoreInv'
    BY <1>1, <1>6, <2>2, <2>4, RequestChanges, TablesStay DEF LoginAgain
  <2>6. HomesOK'
    BY <1>1, <1>6, <2>3, InProgressType, HomeWritten
       DEF LoginAgain, SignIn, Places, Contents
  <2> QED BY <2>5, <2>6, Together
<1> QED BY <1>3, <1>4, <1>5, <1>6

-----------------------------------------------------------------------------
(* The steps of removal, restoration and purge.                            *)

LEMMA BeginLifecycleKeeps ==
  ASSUME IInv, NEW r \in Requests, NEW p \in Profiles,
         BeginRemoval(r, p) \/ BeginRestoration(r, p) \/ BeginPurge(r, p)
  PROVE  IInv'
<1>1. StoreInv /\ HomesOK /\ ReqOK /\ profile[p] \in ProfileRow
  BY Apart DEF StoreInv, StoreTypeOK
<1>2. StoreInv' /\ HomesOK'
  BY <1>1, TablesStay DEF BeginRemoval, BeginRestoration, BeginPurge, HomesOK
<1>3. \A kind \in Removals, pc \in Steps, own \in {"none"} \cup Ownerships :
         LET row == [Load(kind, pc, p) EXCEPT !.own = own]
         IN  row \in Request /\ row.profile = p
  BY DEF Load, Idle, Request, Statuses
<1>4. \A kind \in Removals, pc \in Steps :
         Load(kind, pc, p) \in Request /\ Load(kind, pc, p).profile = p
  BY DEF Load, Idle, Request, Statuses
<1>5. profile[p].home \in {"none"} \cup Ownerships
  BY <1>1 DEF ProfileRow
<1>6. ReqOK'
  <2>1. CASE BeginRemoval(r, p)
    <3> DEFINE pc == IF Visible(p) THEN "begin" ELSE "stat"
               row == [Load("remove", pc, p) EXCEPT !.own = profile[p].home]
    <3>1. pc \in Steps
      BY DEF Steps
    <3> HIDE DEF pc
    <3>2. row \in Request /\ row.profile = p
      BY <1>3, <1>5, <3>1 DEF Removals
    <3>3. Begin(r, row)
      BY <2>1 DEF BeginRemoval, pc
    <3> HIDE DEF row
    <3> QED BY <1>1, <3>2, <3>3, RequestBegins
  <2>2. CASE BeginRestoration(r, p)
    BY <1>1, <1>4, <2>2, RequestBegins DEF BeginRestoration, Removals, Steps
  <2>3. CASE BeginPurge(r, p)
    BY <1>1, <1>4, <2>3, RequestBegins DEF BeginPurge, Removals, Steps
  <2> QED BY <2>1, <2>2, <2>3
<1> QED BY <1>2, <1>6, Together

LEMMA MoveStepKeeps ==
  ASSUME IInv, NEW r \in Requests,
         StatHomes(r) \/ RenameHome(r) \/ RenameFails(r) \/ EraseHome(r)
  PROVE  IInv'
<1>1. HomesOK /\ req[r].pc # "idle" /\ req[r].profile \in Profiles
  BY Apart, InProgressType DEF StatHomes, RenameHome, RenameFails, EraseHome, At
<1>2. HomesOK'
  <2>1. CASE StatHomes(r) \/ RenameFails(r)
    BY <1>1, <2>1 DEF StatHomes, RenameFails, HomesOK
  <2>2. CASE RenameHome(r)
    <3> DEFINE p == req[r].profile
    <3>1. /\ home' = [home EXCEPT ![p][Target(r)] = home[p][Source(r)],
                                  ![p][Source(r)] = "none"]
          /\ Source(r) \in Places /\ Target(r) \in Places
          /\ "none" \in Contents
      BY <2>2 DEF RenameHome, Source, Target, Places, Contents
    <3>2. home[p][Source(r)] \in Contents
      BY <1>1, <3>1 DEF HomesOK
    <3> QED BY <1>1, <3>1, <3>2 DEF HomesOK
  <2>3. CASE EraseHome(r)
    BY <1>1, <2>3, HomeWritten DEF EraseHome, Places, Contents
  <2> QED BY <2>1, <2>2, <2>3
<1> QED BY <1>1, <1>2, QuietStepKeeps
        DEF StatHomes, RenameHome, RenameFails, EraseHome, MoveFails, Steps

LEMMA LifecycleStepKeeps ==
  ASSUME IInv, NEW r \in Requests, LifecycleStep(r)
  PROVE  IInv'
<1>1. StoreInv /\ HomesOK /\ ReqOK
  BY Apart
<1>2. CASE PrepareRemoval(r) \/ CancelRemoval(r) \/ CommitLifecycle(r)
  <2>1. /\ req[r].pc # "idle" /\ req[r].profile \in Profiles
        /\ HomesOK' /\ clock' = clock
    BY <1>1, <1>2, InProgressType
       DEF PrepareRemoval, CancelRemoval, CommitLifecycle, At, HomesOK
  <2>2. StoreInv'
    BY <1>1, <1>2, <2>1, BeginRemovalKeeps, EndRemovalKeeps
       DEF PrepareRemoval, CancelRemoval, CommitLifecycle
  <2>3. ReqOK'
    BY <1>1, <1>2, <2>1, RequestGoesOn, RequestEnds
       DEF PrepareRemoval, CancelRemoval, CommitLifecycle, Steps
  <2> QED BY <2>1, <2>2, <2>3, Together
<1> QED BY <1>2, MoveStepKeeps DEF LifecycleStep

-----------------------------------------------------------------------------
(* The other steps.                                                        *)

LEMMA OtherStepKeeps ==
  ASSUME IInv,
         \/ \E r \in Requests : EndRequest(r)
         \/ \E p \in Profiles : Select(p)
         \/ \E l \in Leases : LaunchReport(l) \/ \E p \in Profiles : Launch(l, p)
         \/ Tick
         \/ UNCHANGED vars
  PROVE  IInv'
<1>1. StoreInv /\ HomesOK /\ ReqOK
  BY Apart
<1>2. (home' = home => HomesOK') /\ (req' = req => ReqOK')
  BY <1>1, RequestsStay DEF HomesOK
<1>3. CASE \E r \in Requests : EndRequest(r)
  <2>1. StoreInv' /\ HomesOK' /\ ReqOK'
    BY <1>1, <1>2, <1>3, TablesStay, RequestEnds DEF EndRequest
  <2> QED BY <2>1, Together
<1>4. CASE \E p \in Profiles : Select(p)
  <2>1. StoreInv' /\ HomesOK' /\ ReqOK'
    BY <1>1, <1>2, <1>4, SelectKeeps DEF Select
  <2> QED BY <2>1, Together
<1>5. CASE \E l \in Leases : LaunchReport(l) \/ \E p \in Profiles : Launch(l, p)
  <2>1. StoreInv'
    BY <1>1, <1>5, LaunchKeeps DEF Launch, LaunchReport
  <2>2. HomesOK' /\ ReqOK'
    BY <1>2, <1>5 DEF Launch, LaunchReport
  <2> QED BY <2>1, <2>2, Together
<1>6. CASE Tick
  <2>1. clock' \in Nat /\ UNCHANGED tableVars
    BY <1>1, <1>6 DEF Tick, StoreInv, StoreTypeOK
  <2>2. StoreInv' /\ HomesOK' /\ ReqOK'
    BY <1>1, <1>2, <1>6, <2>1, UnchangedTables DEF Tick
  <2> QED BY <2>2, Together
<1>7. CASE UNCHANGED vars
  <2>1. StoreInv' /\ HomesOK' /\ ReqOK'
    BY <1>1, <1>2, <1>7, TablesStay DEF vars, tableVars
  <2> QED BY <2>1, Together
<1> QED BY <1>3, <1>4, <1>5, <1>6, <1>7

\* IInv is inductive.
LEMMA NextInvariant ==
  ASSUME IInv, [Next]_vars
  PROVE  IInv'
<1>1. ASSUME NEW r \in Requests, NEW p \in Profiles,
             \/ BeginSetup(r, p) \/ BeginReauthentication(r, p)
             \/ BeginRemoval(r, p) \/ BeginRestoration(r, p) \/ BeginPurge(r, p)
      PROVE  IInv'
  BY <1>1, BeginSetupKeeps, ReauthenticationKeeps, BeginLifecycleKeeps, RequestAssumption
<1>2. ASSUME NEW r \in Requests, SetupStep(r) \/ LifecycleStep(r)
      PROVE  IInv'
  BY <1>2, SetupStepKeeps, LifecycleStepKeeps
<1>3. ASSUME NEW r \in Requests, CheckSignIn(r) \/ RecordVerdict(r) \/ LoginAgain(r)
      PROVE  IInv'
  <2>1. req[r].profile \in Profiles
    BY <1>3, Apart, InProgressType DEF CheckSignIn, RecordVerdict, LoginAgain, At
  <2> QED BY <1>3, <2>1, ReauthenticationKeeps, RequestAssumption
<1> QED BY <1>1, <1>2, <1>3, OtherStepKeeps DEF Next

\* Only the beginning of a setup contests its profile.
LEMMA QuietlyContested ==
  ASSUME [Next]_vars
  PROVE  \/ contested' = contested
         \/ \E r \in Requests, p \in Profiles : BeginSetup(r, p)
<1>1. ASSUME NEW r \in Requests, SetupStep(r) PROVE contested' = contested
  BY <1>1 DEF SetupStep, EnsureHome, RegisterHome, ReuseSignIn, Login, RecordMethod,
     SaveAuthentication, CheckSucceeds, CheckRejects, SaveValidation, Confirm, FinishSetup
<1>2. ASSUME NEW r \in Requests, LifecycleStep(r) PROVE contested' = contested
  BY <1>2 DEF LifecycleStep, PrepareRemoval, StatHomes, RenameHome, RenameFails,
     CancelRemoval, EraseHome, CommitLifecycle
<1>3. ASSUME NEW r \in Requests, CheckSignIn(r) \/ RecordVerdict(r) \/ LoginAgain(r) \/ EndRequest(r)
      PROVE  contested' = contested
  BY <1>3 DEF CheckSignIn, RecordVerdict, LoginAgain, EndRequest
<1>4. ASSUME NEW r \in Requests, NEW p \in Profiles,
             \/ BeginReauthentication(r, p)
             \/ BeginRemoval(r, p) \/ BeginRestoration(r, p) \/ BeginPurge(r, p)
      PROVE  contested' = contested
  BY <1>4 DEF BeginReauthentication, BeginRemoval, BeginRestoration, BeginPurge
<1>5. ASSUME \/ \E p \in Profiles : Select(p)
             \/ \E l \in Leases : LaunchReport(l) \/ \E p \in Profiles : Launch(l, p)
             \/ Tick \/ UNCHANGED vars
      PROVE  contested' = contested
  BY <1>5 DEF Select, LaunchReport, Launch, Tick, vars
<1> QED BY <1>1, <1>2, <1>3, <1>4, <1>5 DEF Next

TypedInv == IInv /\ contested \subseteq Profiles

LEMMA NextTyped ==
  ASSUME TypedInv, [Next]_vars
  PROVE  TypedInv'
<1>1. contested' \subseteq Profiles
  BY QuietlyContested DEF TypedInv, BeginSetup
<1> QED BY <1>1, NextInvariant DEF TypedInv

-----------------------------------------------------------------------------
(* Theorems                                                                *)

\* The inductive invariant holds in every behaviour.
THEOREM LifecycleInvariance == Spec => []IInv
BY InitialInvariant, NextInvariant, PTL DEF Spec

\* Every variable keeps its type, for all values of the constants.
THEOREM LifecycleTypes == Spec => []TypeOK
<1>1. Init => TypedInv
  BY InitialInvariant DEF Init, TypedInv
<1>2. TypedInv /\ [Next]_vars => TypedInv'
  BY NextTyped
<1>3. TypedInv => TypeOK
  BY DEF IInv, TypeOK, TypedInv
<1> QED BY <1>1, <1>2, <1>3, PTL DEF Spec

\* No launch is open for a profile in quarantine or on its way there, however
\* many removals, restorations, setups and launches run at a time.
THEOREM RemovalExcludesLaunch == Spec => []NoOpenLaunchInQuarantine
<1>1. IInv => NoOpenLaunchInQuarantine
  BY DEF IInv, StoreInv
<1> QED BY <1>1, LifecycleInvariance, PTL

\* Nothing a late setup or check writes brings a purged profile back.
THEOREM PurgedStaysGone == Spec => []GoneForGood
<1>1. ASSUME IInv PROVE GoneForGood
  <2> SUFFICES ASSUME NEW p \in Profiles, ~profile[p].named
               PROVE  /\ ~profile[p].pending
                      /\ profile[p].home = "none"
                      /\ selected # p
                      /\ OpenLeases(p) = {}
    BY DEF GoneForGood
  <2>1. OpenLeases(p) = {}
    BY <1>1 DEF IInv, StoreInv, NoOpenLaunchInQuarantine, OpenLeases, Visible
  <2> QED BY <1>1, <2>1 DEF IInv, StoreInv, NothingLeft
<1> QED BY <1>1, LifecycleInvariance, PTL

-----------------------------------------------------------------------------
(* What a user can act on.                                                 *)

SetupSteps ==
    {"ensure", "register", "revalidate", "login", "method", "authenticated",
     "validate", "validated", "confirm", "select"}
CheckSteps == {"check", "record", "relogin"}
RemovalSteps == {"begin", "stat", "rename", "commit", "cancel", "erase"}

\* The steps of a request are those of its kind.
Fits(q) ==
    \/ q.kind = "idle" /\ q.pc = "idle"
    \/ q.kind = "setup" /\ q.pc \in SetupSteps
    \/ q.kind = "reauthenticate" /\ q.pc \in CheckSteps
    \/ q.kind \in Removals /\ q.pc \in RemovalSteps

StepsFit == \A r \in Requests : Fits(req[r])

\* An uncontested profile has one setup at a time.
OneSetup ==
    \A p \in Profiles \ contested : \A r, s \in Requests :
       /\ req[r].kind = "setup" /\ req[r].profile = p
       /\ req[s].kind = "setup" /\ req[s].profile = p
       => r = s

\* An uncontested profile without a pending registration was set up, and its
\* status is that of a later check.
Completed ==
    \A p \in Profiles \ contested : profile[p].named /\ ~profile[p].pending =>
       /\ profile[p].done = {"authentication", "validation"}
       /\ profile[p].status # "pending"

Uncompleted == \A p \in Profiles : profile[p].pending => profile[p].status = "pending"

\* A setup of an uncontested profile works on a registration that is pending,
\* unless the profile is gone.
SetupsRegistered ==
    \A r \in Requests : \A p \in Profiles \ contested :
       req[r].kind = "setup" /\ req[r].profile = p /\ profile[p].named => profile[p].pending

\* A check is of a profile that was set up, though it may be gone by now, and
\* never stores Pending.
ChecksCompleted ==
    \A r \in Requests : \A p \in Profiles :
       req[r].kind = "reauthenticate" /\ req[r].profile = p =>
          ~profile[p].pending /\ profile[p].status # "absent" /\ req[r].status # "pending"

UsableInv ==
    /\ IInv /\ SelectionUsable
    /\ StepsFit /\ OneSetup /\ Completed /\ Uncompleted /\ SetupsRegistered /\ ChecksCompleted

\* The steps of a request after its first.
Follows(r) ==
    /\ \A s \in Requests : s # r => req'[s] = req[s]
    /\ \/ req'[r].kind = "idle" /\ req'[r].pc = "idle"
       \/ /\ req'[r].kind = req[r].kind /\ req'[r].profile = req[r].profile
          /\ Fits(req'[r])
          /\ req'[r].status = req[r].status \/ req'[r].status \in Verdicts

\* A step that goes on has the step it goes to and what it had.
LEMMA RequestGoes ==
  ASSUME ReqOK, NEW r \in Requests, NEW pc \in Steps, Goto(r, pc)
  PROVE  /\ \A s \in Requests : s # r => req'[s] = req[s]
         /\ req'[r].kind = req[r].kind /\ req'[r].profile = req[r].profile
         /\ req'[r].status = req[r].status /\ req'[r].own = req[r].own /\ req'[r].pc = pc
<1> DEFINE row == [req[r] EXCEPT !.pc = pc]
<1>1. req[r] \in Request /\ req \in [Requests -> Request]
  BY DEF ReqOK
<1>2. /\ row.kind = req[r].kind /\ row.profile = req[r].profile
      /\ row.status = req[r].status /\ row.own = req[r].own /\ row.pc = pc
  BY <1>1 DEF Request
<1>3. req' = [req EXCEPT ![r] = row]
  BY <1>1 DEF Goto
<1> HIDE DEF row
<1>4. req'[r] = row /\ \A s \in Requests : s # r => req'[s] = req[s]
  BY <1>1, <1>3
<1> QED BY <1>2, <1>4, Zenon

\* A request that ends is idle again.
LEMMA RequestOver ==
  ASSUME ReqOK, NEW r \in Requests, End(r)
  PROVE  /\ \A s \in Requests : s # r => req'[s] = req[s]
         /\ req'[r].kind = "idle" /\ req'[r].pc = "idle"
<1>1. req[r] \in Request /\ req \in [Requests -> Request]
  BY DEF ReqOK
<1>2. Idle.kind = "idle" /\ Idle.pc = "idle"
  BY DEF Idle
<1>3. req'[r] = Idle /\ \A s \in Requests : s # r => req'[s] = req[s]
  BY <1>1 DEF End
<1> QED BY <1>2, <1>3, Zenon

\* A request that begins was idle.
LEMMA RequestStarts ==
  ASSUME ReqOK, NEW r \in Requests, NEW row, Begin(r, row)
  PROVE  /\ \A s \in Requests : s # r => req'[s] = req[s]
         /\ req'[r] = row /\ req[r].kind = "idle" /\ req[r].pc = "idle"
<1>1. req[r] \in Request /\ req \in [Requests -> Request]
  BY DEF ReqOK
<1>2. Idle.kind = "idle" /\ Idle.pc = "idle"
  BY DEF Idle
<1>3. req'[r] = row /\ \A s \in Requests : s # r => req'[s] = req[s]
  BY <1>1, Zenon DEF Begin
<1> QED BY <1>2, <1>3, Zenon DEF Begin

\* A request that is rewritten: the others stay.
LEMMA RequestIs ==
  ASSUME ReqOK, NEW r \in Requests, NEW row, req' = [req EXCEPT ![r] = row]
  PROVE  req'[r] = row /\ \A s \in Requests : s # r => req'[s] = req[s]
BY DEF ReqOK

\* Where no setup is added, uncontested profiles keep to one.
LEMMA OneSetupStays ==
  ASSUME OneSetup, contested' = contested,
         \A s \in Requests : req'[s].kind = "setup" =>
            req[s].kind = "setup" /\ req[s].profile = req'[s].profile
  PROVE  OneSetup'
<1> SUFFICES ASSUME NEW p \in Profiles \ contested', NEW r \in Requests, NEW s \in Requests,
                    req'[r].kind = "setup" /\ req'[r].profile = p,
                    req'[s].kind = "setup" /\ req'[s].profile = p
             PROVE  r = s
  BY DEF OneSetup
<1>1. req[r].kind = "setup" /\ req[r].profile = p BY Zenon
<1>2. req[s].kind = "setup" /\ req[s].profile = p BY Zenon
<1>3. p \in Profiles \ contested BY Zenon
<1> QED BY <1>1, <1>2, <1>3, Zenon DEF OneSetup

\* Requests keep to their kind, and no setup is added.
LEMMA FollowsFits ==
  ASSUME StepsFit, OneSetup, NEW r \in Requests, Follows(r), contested' = contested
  PROVE  StepsFit' /\ OneSetup'
<1>1. \A s \in Requests : s # r => req'[s] = req[s] BY Zenon DEF Follows
<1>2. Fits(req'[r]) BY Zenon DEF Follows, Fits
<1>3. \A s \in Requests : req'[s].kind = "setup" =>
         req[s].kind = "setup" /\ req[s].profile = req'[s].profile
  <2>1. req'[r].kind = "setup" => req[r].kind = "setup" /\ req[r].profile = req'[r].profile
    BY SMT DEF Follows
  <2> QED BY <1>1, <2>1, Zenon
<1>4. StepsFit'
  <2>1. \A s \in Requests : Fits(req'[s]) BY <1>1, <1>2, Zenon DEF StepsFit
  <2> QED BY <2>1, Zenon DEF StepsFit, Fits
<1>5. OneSetup' BY <1>3, OneSetupStays, Zenon
<1> QED BY <1>4, <1>5

\* Where registrations do not change, neither does what requests need of them.
LEMMA FollowsRegistered ==
  ASSUME RequestAssumption, SetupsRegistered, ChecksCompleted, NEW r \in Requests, Follows(r),
         contested' = contested,
         \A s \in Requests : req[s].kind # "idle" => req[s].profile \in Profiles,
         \A p \in Profiles : /\ profile'[p].named => profile[p].named
                             /\ profile[p].pending <=> profile'[p].pending
                             /\ profile'[p].status = "absent" => profile[p].status = "absent"
  PROVE  SetupsRegistered' /\ ChecksCompleted'
<1>1. \A s \in Requests : s # r => req'[s] = req[s] BY Zenon DEF Follows
<1>2. \A s \in Requests : req'[s].kind # "idle" =>
         /\ req'[s].kind = req[s].kind /\ req'[s].profile = req[s].profile
         /\ req'[s].status = req[s].status \/ req'[s].status \in Verdicts
  BY <1>1, Zenon DEF Follows
<1>3. "pending" \notin Verdicts BY SMT DEF RequestAssumption
<1>4. SetupsRegistered'
  <2> SUFFICES ASSUME NEW s \in Requests, NEW p \in Profiles \ contested, req'[s].kind = "setup",
                      req'[s].profile = p, profile'[p].named
               PROVE  profile'[p].pending
    BY Zenon DEF SetupsRegistered
  <2>1. req[s].kind = "setup" /\ req[s].profile = p BY <1>2, SMT
  <2>2. profile[p].pending BY <2>1, Zenon DEF SetupsRegistered
  <2> QED BY <2>2, Zenon
<1>5. ChecksCompleted'
  <2> SUFFICES ASSUME NEW s \in Requests, NEW p \in Profiles, req'[s].kind = "reauthenticate",
                      req'[s].profile = p
               PROVE  /\ ~profile'[p].pending
                      /\ profile'[p].status # "absent"
                      /\ req'[s].status # "pending"
    BY Zenon DEF ChecksCompleted
  <2>1. /\ req[s].kind = "reauthenticate" /\ req[s].profile = p
        /\ req'[s].status = req[s].status \/ req'[s].status \in Verdicts
    BY <1>2, SMT
  <2>2. ~profile[p].pending /\ profile[p].status # "absent" /\ req[s].status # "pending"
    BY <2>1, Zenon DEF ChecksCompleted
  <2>3. ~profile'[p].pending /\ profile'[p].status # "absent" BY <2>2, Zenon
  <2> QED BY <1>3, <2>1, <2>2, <2>3, Zenon
<1> QED BY <1>4, <1>5

\* A request of some kind is at a step and knows its profile.
LEMMA InKind ==
  ASSUME ReqOK, StepsFit
  PROVE  \A s \in Requests : req[s].kind # "idle" => req[s].pc # "idle" /\ req[s].profile \in Profiles
<1> SUFFICES ASSUME NEW s \in Requests, req[s].kind # "idle"
             PROVE  req[s].pc # "idle" /\ req[s].profile \in Profiles
  OBVIOUS
<1>1. Fits(req[s]) BY Zenon DEF StepsFit
<1>2. req[s].pc # "idle" BY <1>1, SMT DEF Fits, SetupSteps, CheckSteps, RemovalSteps
<1> QED BY <1>2, InProgressType

\* A step that writes to a profile and neither names nor registers it.
LEMMA RowWriteUsable ==
  ASSUME RequestAssumption, UsableInv, IInv', NEW r \in Requests, Follows(r), NEW p \in Profiles,
         contested' = contested,
         \A q \in Profiles : q # p => profile'[q] = profile[q],
         profile'[p].named <=> profile[p].named, profile'[p].pending <=> profile[p].pending,
         profile'[p].status = "absent" => profile[p].status = "absent",
         profile[p].pending => profile'[p].status = "pending",
         profile[p].named /\ ~profile[p].pending /\ p \notin contested =>
            profile'[p].done = {"authentication", "validation"} /\ profile'[p].status # "pending",
         quarantine' = quarantine, selected' = selected
  PROVE  UsableInv'
<1>0. ReqOK /\ StepsFit /\ OneSetup /\ SetupsRegistered /\ ChecksCompleted /\ StoreTypeOK
  BY Apart, Zenon DEF UsableInv
<1>1. StepsFit' /\ OneSetup' BY <1>0, FollowsFits, Zenon
<1>2. \A q \in Profiles : /\ profile'[q].named <=> profile[q].named
                          /\ profile'[q].pending <=> profile[q].pending
                          /\ profile'[q].status = "absent" => profile[q].status = "absent"
  <2> SUFFICES ASSUME NEW q \in Profiles
               PROVE  /\ profile'[q].named <=> profile[q].named
                      /\ profile'[q].pending <=> profile[q].pending
                      /\ profile'[q].status = "absent" => profile[q].status = "absent"
    BY Zenon
  <2>1. CASE q = p BY <2>1, Zenon
  <2>2. CASE q # p
    <3>1. profile'[q] = profile[q] BY <2>2, Zenon
    <3> QED BY <3>1, Zenon
  <2> QED BY <2>1, <2>2
<1>3. SetupsRegistered' /\ ChecksCompleted' BY <1>0, <1>2, InKind, FollowsRegistered, Zenon
<1>4. SelectionUsable'
  <2>1. selected \in Profiles /\ profile[selected].named /\ quarantine[selected].state = "none"
    BY <1>0, SMT DEF UsableInv, SelectionUsable, StoreTypeOK, Visible
  <2> QED BY <1>2, <2>1, Zenon DEF UsableInv, SelectionUsable, Visible
<1>5. Completed' BY <1>2, Zenon DEF UsableInv, Completed
<1>6. Uncompleted' BY <1>2, Zenon DEF UsableInv, Uncompleted
<1> QED BY <1>1, <1>3, <1>4, <1>5, <1>6, Zenon DEF UsableInv

\* A step that touches neither profiles nor the selection of one in use.
LEMMA ProfilesStayUsable ==
  ASSUME RequestAssumption, UsableInv, IInv', NEW r \in Requests, Follows(r),
         profile' = profile, contested' = contested, SelectionUsable'
  PROVE  UsableInv'
<1>0. ReqOK /\ StepsFit /\ OneSetup /\ SetupsRegistered /\ ChecksCompleted
  BY Apart, Zenon DEF UsableInv
<1>1. StepsFit' /\ OneSetup' BY <1>0, FollowsFits, Zenon
<1>2. \A q \in Profiles : /\ profile'[q].named => profile[q].named
                          /\ profile[q].pending <=> profile'[q].pending
                          /\ profile'[q].status = "absent" => profile[q].status = "absent"
  BY Zenon
<1>3. SetupsRegistered' /\ ChecksCompleted' BY <1>0, <1>2, InKind, FollowsRegistered, Zenon
<1>4. Completed' /\ Uncompleted' BY Zenon DEF UsableInv, Completed, Uncompleted
<1> QED BY <1>1, <1>3, <1>4, Zenon DEF UsableInv

\* A setup that ends with the selection.
LEMMA CompletionUsable ==
  ASSUME RequestAssumption, UsableInv, IInv', NEW r \in Requests, NEW p \in Profiles,
         req[r].kind = "setup", req[r].profile = p, CompleteInitialSelection(p), End(r),
         contested' = contested
  PROVE  UsableInv'
<1>0. /\ ReqOK /\ StepsFit /\ OneSetup /\ SetupsRegistered /\ ChecksCompleted /\ StoreTypeOK
      /\ Completed /\ Uncompleted /\ SelectionUsable
  BY Apart, Zenon DEF UsableInv
<1> DEFINE row == [profile[p] EXCEPT !.status = "ready", !.pending = FALSE]
<1>1. profile[p] \in ProfileRow /\ profile \in [Profiles -> ProfileRow]
  BY <1>0 DEF StoreTypeOK
<1>2. row.status = "ready" /\ row.pending = FALSE /\ row.named = profile[p].named
      /\ row.done = profile[p].done
  BY <1>1 DEF ProfileRow
<1>3. profile' = [profile EXCEPT ![p] = row]
  BY <1>1 DEF CompleteInitialSelection
<1> HIDE DEF row
<1>4. profile'[p] = row /\ \A q \in Profiles : q # p => profile'[q] = profile[q]
  BY <1>1, <1>3
<1>5. /\ \A s \in Requests : s # r => req'[s] = req[s]
      /\ req'[r].kind = "idle" /\ req'[r].pc = "idle"
  BY <1>0, RequestOver, Zenon
<1>6. StepsFit' /\ OneSetup'
  <2>1. Follows(r) BY <1>5, Zenon DEF Follows
  <2> QED BY <1>0, <2>1, FollowsFits, Zenon
<1>7. /\ profile[p].named
      /\ p \notin contested => profile[p].done = {"authentication", "validation"}
  <2>1. profile[p].named BY Zenon DEF CompleteInitialSelection
  <2>2. ASSUME p \notin contested PROVE profile[p].done = {"authentication", "validation"}
    <3>1. profile[p].pending BY <1>0, <2>1, <2>2, Zenon DEF SetupsRegistered
    <3>2. profile[p].status = "pending" BY <1>0, <3>1, Zenon DEF Uncompleted
    <3> QED BY <3>2, SMT DEF CompleteInitialSelection
  <2> QED BY <2>1, <2>2
<1>8. selected' = selected /\ quarantine' = quarantine
  <2>1. selected # None BY <1>0, Zenon DEF SelectionUsable
  <2> QED BY <2>1, Zenon DEF CompleteInitialSelection
<1>9. SelectionUsable'
  <2>1. selected \in Profiles /\ profile[selected].named /\ quarantine[selected].state = "none"
    BY <1>0, SMT DEF SelectionUsable, StoreTypeOK, Visible
  <2>2. profile'[selected].named
    <3>1. CASE selected = p BY <1>2, <1>4, <1>7, <3>1, Zenon
    <3>2. CASE selected # p BY <1>4, <2>1, <3>2, Zenon
    <3> QED BY <3>1, <3>2
  <2>3. selected # None BY <1>0, Zenon DEF SelectionUsable
  <2> QED BY <1>8, <2>1, <2>2, <2>3, Zenon DEF SelectionUsable, Visible
<1>10. Completed'
  <2> SUFFICES ASSUME NEW q \in Profiles \ contested, profile'[q].named, ~profile'[q].pending
               PROVE  profile'[q].done = {"authentication", "validation"} /\ profile'[q].status # "pending"
    BY Zenon DEF Completed
  <2>1. CASE q = p BY <1>2, <1>4, <1>7, <2>1, SMT
  <2>2. CASE q # p
    <3>1. profile'[q] = profile[q] BY <1>4, <2>2, Zenon
    <3> QED BY <1>0, <3>1, Zenon DEF Completed
  <2> QED BY <2>1, <2>2
<1>11. Uncompleted'
  <2> SUFFICES ASSUME NEW q \in Profiles, profile'[q].pending
               PROVE  profile'[q].status = "pending"
    BY Zenon DEF Uncompleted
  <2>1. CASE q = p
    <3>1. profile'[p].pending = FALSE BY <1>2, <1>4, SMT
    <3> QED BY <2>1, <3>1, Zenon
  <2>2. CASE q # p
    <3>1. profile'[q] = profile[q] BY <1>4, <2>2, Zenon
    <3> QED BY <1>0, <3>1, Zenon DEF Uncompleted
  <2> QED BY <2>1, <2>2
<1>12. SetupsRegistered'
  <2> SUFFICES ASSUME NEW s \in Requests, NEW q \in Profiles \ contested, req'[s].kind = "setup",
                      req'[s].profile = q, profile'[q].named
               PROVE  profile'[q].pending
    BY Zenon DEF SetupsRegistered
  <2>1. s # r BY <1>5, SMT
  <2>2. req[s].kind = "setup" /\ req[s].profile = q BY <1>5, <2>1, SMT
  <2>3. q # p BY <1>0, <2>1, <2>2, Zenon DEF OneSetup
  <2>4. profile'[q] = profile[q] BY <1>4, <2>3, Zenon
  <2> QED BY <1>0, <2>2, <2>4, Zenon DEF SetupsRegistered
<1>13. ChecksCompleted'
  <2> SUFFICES ASSUME NEW s \in Requests, NEW q \in Profiles, req'[s].kind = "reauthenticate",
                      req'[s].profile = q
               PROVE  /\ ~profile'[q].pending
                      /\ profile'[q].status # "absent"
                      /\ req'[s].status # "pending"
    BY Zenon DEF ChecksCompleted
  <2>1. req'[s] = req[s] BY <1>5, SMT
  <2>2. ~profile[q].pending /\ profile[q].status # "absent" /\ req[s].status # "pending"
    BY <1>0, <2>1, Zenon DEF ChecksCompleted
  <2>3. CASE q = p
    <3>1. profile'[p].pending = FALSE /\ profile'[p].status = "ready" BY <1>2, <1>4, SMT
    <3>2. profile'[p].status # "absent" BY <3>1, SMT
    <3>3. ~profile'[p].pending BY <3>1, Zenon
    <3> QED BY <2>1, <2>2, <2>3, <3>2, <3>3, Zenon
  <2>4. CASE q # p
    <3>1. profile'[q] = profile[q] BY <1>4, <2>4, Zenon
    <3> QED BY <2>1, <2>2, <3>1, Zenon
  <2> QED BY <2>3, <2>4
<1> QED BY <1>6, <1>9, <1>10, <1>11, <1>12, <1>13, Zenon DEF UsableInv

\* The first step of a request of another kind.
LEMMA StartUsable ==
  ASSUME UsableInv, IInv', NEW r \in Requests, NEW row, Begin(r, row),
         Fits(row), row.kind \notin {"setup", "reauthenticate"}, UNCHANGED tableVars,
         contested' = contested
  PROVE  UsableInv'
<1>0. /\ ReqOK /\ StepsFit /\ OneSetup /\ SetupsRegistered /\ ChecksCompleted /\ StoreTypeOK
      /\ Completed /\ Uncompleted /\ SelectionUsable
  BY Apart, Zenon DEF UsableInv
<1>1. /\ \A s \in Requests : s # r => req'[s] = req[s]
      /\ req'[r] = row
  BY <1>0, RequestStarts, Zenon
<1>2. \A s \in Requests : req'[s].kind \in {"setup", "reauthenticate"} => req'[s] = req[s]
  <2>1. req'[r].kind \notin {"setup", "reauthenticate"} BY <1>1, SMT
  <2> QED BY <1>1, <2>1, Zenon
<1>3. profile' = profile /\ quarantine' = quarantine /\ selected' = selected
  BY SMT DEF tableVars
<1>4. StepsFit'
  <2>1. \A s \in Requests : Fits(req'[s]) BY <1>0, <1>1, Zenon DEF StepsFit
  <2> QED BY <2>1, Zenon DEF StepsFit, Fits
<1>5. OneSetup'
  <2>1. \A s \in Requests : req'[s].kind = "setup" => req'[s] = req[s] BY <1>2, SMT
  <2> QED BY <1>0, <2>1, OneSetupStays, Zenon
<1>6. SetupsRegistered'
  <2> SUFFICES ASSUME NEW s \in Requests, NEW q \in Profiles \ contested, req'[s].kind = "setup",
                      req'[s].profile = q, profile'[q].named
               PROVE  profile'[q].pending
    BY Zenon DEF SetupsRegistered
  <2>1. req'[s] = req[s] BY <1>2, SMT
  <2>2. profile[q].named BY <1>3, Zenon
  <2>3. req[s].kind = "setup" /\ req[s].profile = q BY <2>1, Zenon
  <2>4. profile[q].pending BY <1>0, <2>2, <2>3, Zenon DEF SetupsRegistered
  <2> QED BY <1>3, <2>4, Zenon
<1>7. ChecksCompleted'
  <2> SUFFICES ASSUME NEW s \in Requests, NEW q \in Profiles, req'[s].kind = "reauthenticate",
                      req'[s].profile = q
               PROVE  /\ ~profile'[q].pending
                      /\ profile'[q].status # "absent"
                      /\ req'[s].status # "pending"
    BY Zenon DEF ChecksCompleted
  <2>1. req'[s] = req[s] BY <1>2, SMT
  <2>2. req[s].kind = "reauthenticate" /\ req[s].profile = q BY <2>1, Zenon
  <2> QED BY <1>0, <1>3, <2>1, <2>2, Zenon DEF ChecksCompleted
<1>8. SelectionUsable' /\ Completed' /\ Uncompleted'
  BY <1>0, <1>3, Zenon DEF SelectionUsable, Visible, Completed, Uncompleted
<1> QED BY <1>4, <1>5, <1>6, <1>7, <1>8, Zenon DEF UsableInv

\* The first step of a check, of a profile that was set up.
LEMMA CheckStartUsable ==
  ASSUME UsableInv, IInv', NEW r \in Requests, NEW p \in Profiles, BeginReauthentication(r, p)
  PROVE  UsableInv'
<1>0. /\ ReqOK /\ StepsFit /\ OneSetup /\ SetupsRegistered /\ ChecksCompleted /\ StoreTypeOK
      /\ Completed /\ Uncompleted /\ SelectionUsable
  BY Apart, Zenon DEF UsableInv
<1> DEFINE row == [Load("reauthenticate", "check", p) EXCEPT
                      !.own = profile[p].home, !.status = profile[p].status]
<1>1. row.kind = "reauthenticate" /\ row.pc = "check" /\ row.profile = p
      /\ row.status = profile[p].status
  BY SMT DEF Load, Idle
<1>2. Begin(r, row) BY Zenon DEF BeginReauthentication
<1> HIDE DEF row
<1>3. /\ \A s \in Requests : s # r => req'[s] = req[s]
      /\ req'[r] = row
  BY <1>0, <1>2, RequestStarts, Zenon
<1>4. /\ profile' = profile /\ quarantine' = quarantine /\ selected' = selected
      /\ contested' = contested
  BY SMT DEF BeginReauthentication, tableVars
<1>5. ~profile[p].pending /\ profile[p].status # "absent" /\ profile[p].status # "pending"
  <2>1. profile[p].status # "pending" /\ profile[p].named
    BY Zenon DEF BeginReauthentication, Visible
  <2>2. ~profile[p].pending BY <1>0, <2>1, Zenon DEF Uncompleted
  <2>3. profile[p] \in ProfileRow BY <1>0, SMT DEF StoreTypeOK
  <2>4. profile[p].status # "absent"
    <3>1. profile[p] \in ProfileRow /\ profile[p].named BY <2>1, <2>3, Zenon
    <3> QED BY <3>1 DEF ProfileRow, Statuses
  <2> QED BY <2>1, <2>2, <2>4
<1>6. StepsFit'
  <2>1. Fits(row) BY <1>1, SMT DEF Fits, CheckSteps
  <2>2. \A s \in Requests : Fits(req'[s]) BY <1>0, <1>3, <2>1, Zenon DEF StepsFit
  <2> QED BY <2>2, Zenon DEF StepsFit, Fits
<1>7. \A s \in Requests : req'[s].kind = "setup" => req'[s] = req[s]
  <2>1. req'[r].kind # "setup" BY <1>1, <1>3, SMT
  <2> QED BY <1>3, <2>1, Zenon
<1>8. OneSetup'
  <2>1. \A s \in Requests : req'[s].kind = "setup" => req'[s] = req[s] BY <1>7, Zenon
  <2> QED BY <1>0, <1>4, <2>1, OneSetupStays, Zenon
<1>9. SetupsRegistered'
  <2> SUFFICES ASSUME NEW s \in Requests, NEW q \in Profiles \ contested, req'[s].kind = "setup",
                      req'[s].profile = q, profile'[q].named
               PROVE  profile'[q].pending
    BY <1>4, Zenon DEF SetupsRegistered
  <2>1. req'[s] = req[s] BY <1>7, SMT
  <2>2. profile[q].named BY <1>4, Zenon
  <2>3. req[s].kind = "setup" /\ req[s].profile = q BY <2>1, Zenon
  <2>4. profile[q].pending BY <1>0, <2>2, <2>3, Zenon DEF SetupsRegistered
  <2> QED BY <1>4, <2>4, Zenon
<1>10. ChecksCompleted'
  <2> SUFFICES ASSUME NEW s \in Requests, NEW q \in Profiles, req'[s].kind = "reauthenticate",
                      req'[s].profile = q
               PROVE  /\ ~profile'[q].pending
                      /\ profile'[q].status # "absent"
                      /\ req'[s].status # "pending"
    BY Zenon DEF ChecksCompleted
  <2>1. CASE s = r
    <3>1. q = p /\ req'[s].status = profile[p].status BY <1>1, <1>3, <2>1, SMT
    <3> QED BY <1>4, <1>5, <3>1, Zenon
  <2>2. CASE s # r
    <3>1. req'[s] = req[s] BY <1>3, <2>2, Zenon
    <3>2. req[s].kind = "reauthenticate" /\ req[s].profile = q BY <3>1, Zenon
    <3> QED BY <1>0, <1>4, <3>1, <3>2, Zenon DEF ChecksCompleted
  <2> QED BY <2>1, <2>2
<1>11. SelectionUsable' /\ Completed' /\ Uncompleted'
  BY <1>0, <1>4, Zenon DEF SelectionUsable, Visible, Completed, Uncompleted
<1> QED BY <1>6, <1>8, <1>9, <1>10, <1>11, Zenon DEF UsableInv

\* The first step of a setup, of a new registration or of a pending one.
LEMMA SetupStartUsable ==
  ASSUME UsableInv, IInv', NEW r \in Requests, NEW p \in Profiles, BeginSetup(r, p)
  PROVE  UsableInv'
<1>0. /\ ReqOK /\ StepsFit /\ OneSetup /\ SetupsRegistered /\ ChecksCompleted /\ StoreTypeOK
      /\ Completed /\ Uncompleted /\ SelectionUsable
  BY Apart, Zenon DEF UsableInv
<1>1. /\ contested \subseteq contested'
      /\ p \notin contested' => SetupsOf(p) = {}
  BY Zenon DEF BeginSetup
<1>2. PICK row : /\ Begin(r, row)
                 /\ row.kind = "setup" /\ row.pc = "ensure" /\ row.profile = p
  <2>1. Load("setup", "ensure", p).kind = "setup" /\ Load("setup", "ensure", p).pc = "ensure"
        /\ Load("setup", "ensure", p).profile = p
    BY SMT DEF Load, Idle
  <2> DEFINE again == [Load("setup", "ensure", p) EXCEPT
                          !.own = profile[p].home, !.done = profile[p].done]
  <2>2. again.kind = "setup" /\ again.pc = "ensure" /\ again.profile = p
    BY SMT DEF Load, Idle
  <2>3. Begin(r, Load("setup", "ensure", p)) \/ Begin(r, again) BY Zenon DEF BeginSetup
  <2> HIDE DEF again
  <2> QED BY <2>1, <2>2, <2>3, Zenon
<1>3. /\ \A s \in Requests : s # r => req'[s] = req[s]
      /\ req'[r] = row
  BY <1>0, <1>2, RequestStarts, Zenon
<1>4. StepsFit'
  <2>1. Fits(row) BY <1>2, SMT DEF Fits, SetupSteps
  <2>2. \A s \in Requests : Fits(req'[s]) BY <1>0, <1>3, <2>1, Zenon DEF StepsFit
  <2> QED BY <2>2, Zenon DEF StepsFit, Fits
<1>5. \A q \in Profiles \ contested' : \A s \in Requests :
         req'[s].kind = "setup" /\ req'[s].profile = q =>
            IF q = p THEN s = r ELSE s # r /\ req'[s] = req[s]
  <2> SUFFICES ASSUME NEW q \in Profiles \ contested', NEW s \in Requests,
                      req'[s].kind = "setup", req'[s].profile = q
               PROVE  IF q = p THEN s = r ELSE s # r /\ req'[s] = req[s]
    BY Zenon
  <2>1. CASE q = p
    <3>1. ASSUME s # r PROVE FALSE
      <4>1. req[s].kind = "setup" /\ req[s].profile = p BY <1>3, <2>1, <3>1, Zenon
      <4>2. s \in SetupsOf(p) BY <4>1, SMT DEF SetupsOf, InProgress
      <4> QED BY <1>1, <2>1, <4>2, Zenon
    <3> QED BY <2>1, <3>1, Zenon
  <2>2. CASE q # p
    <3>1. s # r BY <1>2, <1>3, <2>2, Zenon
    <3> QED BY <1>3, <2>2, <3>1, Zenon
  <2> QED BY <2>1, <2>2
<1>6. OneSetup'
  <2> SUFFICES ASSUME NEW q \in Profiles \ contested', NEW s \in Requests, NEW t \in Requests,
                      req'[s].kind = "setup", req'[s].profile = q,
                      req'[t].kind = "setup", req'[t].profile = q
               PROVE  s = t
    BY Zenon DEF OneSetup
  <2>1. CASE q = p BY <1>5, <2>1, Zenon
  <2>2. CASE q # p
    <3>1. req'[s] = req[s] /\ req'[t] = req[t] BY <1>5, <2>2, Zenon
    <3>2. q \in Profiles \ contested BY <1>1, Zenon
    <3> QED BY <1>0, <3>1, <3>2, Zenon DEF OneSetup
  <2> QED BY <2>1, <2>2
<1>7. /\ quarantine' = quarantine /\ selected' = selected
      /\ \A q \in Profiles : q # p => profile'[q] = profile[q]
      /\ \/ profile'[p] = profile[p] /\ profile[p].pending
         \/ profile[p] = NoRow /\ profile'[p] = FreshRow
  <2>1. profile \in [Profiles -> ProfileRow] BY <1>0, SMT DEF StoreTypeOK
  <2>2. CASE CreatePendingProfile(p) BY <2>1, <2>2, SMT DEF CreatePendingProfile
  <2>3. CASE profile[p].pending /\ UNCHANGED tableVars BY <2>3, Zenon DEF tableVars
  <2> QED BY <2>2, <2>3, Zenon DEF BeginSetup
<1>8. /\ NoRow.status = "absent" /\ NoRow.named = FALSE /\ FreshRow.pending = TRUE
      /\ FreshRow.named = TRUE /\ FreshRow.status = "pending"
  BY SMT DEF NoRow, FreshRow
<1>9. profile'[p].pending
  BY <1>7, <1>8, Zenon
<1>10. SetupsRegistered'
  <2> SUFFICES ASSUME NEW s \in Requests, NEW q \in Profiles \ contested', req'[s].kind = "setup",
                      req'[s].profile = q, profile'[q].named
               PROVE  profile'[q].pending
    BY Zenon DEF SetupsRegistered
  <2>1. CASE q = p BY <1>9, <2>1, Zenon
  <2>2. CASE q # p
    <3>1. req'[s] = req[s] /\ profile'[q] = profile[q] BY <1>5, <1>7, <2>2, Zenon
    <3>2. q \in Profiles \ contested BY <1>1, Zenon
    <3> QED BY <1>0, <3>1, <3>2, Zenon DEF SetupsRegistered
  <2> QED BY <2>1, <2>2
<1>11. ChecksCompleted'
  <2> SUFFICES ASSUME NEW s \in Requests, NEW q \in Profiles, req'[s].kind = "reauthenticate",
                      req'[s].profile = q
               PROVE  /\ ~profile'[q].pending
                      /\ profile'[q].status # "absent"
                      /\ req'[s].status # "pending"
    BY Zenon DEF ChecksCompleted
  <2>1. s # r BY <1>2, <1>3, SMT
  <2>2. req'[s] = req[s] BY <1>3, <2>1, Zenon
  <2>3. req[s].kind = "reauthenticate" /\ req[s].profile = q BY <2>2, Zenon
  <2>4. ~profile[q].pending /\ profile[q].status # "absent" /\ req[s].status # "pending"
    BY <1>0, <2>3, Zenon DEF ChecksCompleted
  <2>5. profile'[q] = profile[q] \/ profile[q] = NoRow BY <1>7, Zenon
  <2>6. profile[q] # NoRow BY <1>8, <2>4, Zenon
  <2> QED BY <2>2, <2>4, <2>5, <2>6, Zenon
<1>12. SelectionUsable'
  <2>1. selected \in Profiles /\ profile[selected].named /\ quarantine[selected].state = "none"
    BY <1>0, SMT DEF SelectionUsable, StoreTypeOK, Visible
  <2>2. profile'[selected].named
    <3>1. CASE selected = p
      <4>1. profile[p].named BY <2>1, <3>1, Zenon
      <4>2. profile[p] # NoRow BY <1>8, <4>1, Zenon
      <4> QED BY <1>7, <3>1, <4>1, <4>2, Zenon
    <3>2. CASE selected # p BY <1>7, <2>1, <3>2, Zenon
    <3> QED BY <3>1, <3>2
  <2>3. selected # None BY <1>0, Zenon DEF SelectionUsable
  <2> QED BY <1>7, <2>1, <2>2, <2>3, Zenon DEF SelectionUsable, Visible
<1>13. Completed' /\ Uncompleted'
  <2>1. \A q \in Profiles : profile'[q] = profile[q] \/ profile'[q] = FreshRow BY <1>7, Zenon
  <2>2. Completed'
    <3> SUFFICES ASSUME NEW q \in Profiles \ contested', profile'[q].named, ~profile'[q].pending
                 PROVE  profile'[q].done = {"authentication", "validation"} /\ profile'[q].status # "pending"
      BY Zenon DEF Completed
    <3>1. profile'[q] # FreshRow BY <1>8, Zenon
    <3>2. profile'[q] = profile[q] BY <2>1, <3>1, Zenon
    <3>3. q \in Profiles \ contested BY <1>1, Zenon
    <3> QED BY <1>0, <3>2, <3>3, Zenon DEF Completed
  <2>3. Uncompleted'
    <3> SUFFICES ASSUME NEW q \in Profiles, profile'[q].pending PROVE profile'[q].status = "pending"
      BY Zenon DEF Uncompleted
    <3>1. CASE profile'[q] = FreshRow BY <1>8, <3>1, Zenon
    <3>2. CASE profile'[q] = profile[q] BY <1>0, <3>2, Zenon DEF Uncompleted
    <3> QED BY <2>1, <3>1, <3>2
  <2> QED BY <2>2, <2>3
<1> QED BY <1>4, <1>6, <1>10, <1>11, <1>12, <1>13, Zenon DEF UsableInv

\* The rows of a profile that is removed for good, or forgotten.
LEMMA DeletionUsable ==
  ASSUME RequestAssumption, UsableInv, IInv', NEW r \in Requests, Follows(r), NEW p \in Profiles,
         NEW s \in Profiles, s # p, profile[s].named, quarantine[s].state = "none",
         DeleteProfileRows(p, s), contested' = contested
  PROVE  UsableInv'
<1>0. /\ ReqOK /\ StepsFit /\ OneSetup /\ SetupsRegistered /\ ChecksCompleted /\ StoreTypeOK
      /\ Completed /\ Uncompleted /\ SelectionUsable
  BY Apart, Zenon DEF UsableInv
<1>1. profile \in [Profiles -> ProfileRow] /\ quarantine \in [Profiles -> QuarantineRow]
  BY <1>0, SMT DEF StoreTypeOK
<1>2. /\ profile'[p] = Tombstone
      /\ \A q \in Profiles : q # p => profile'[q] = profile[q] /\ quarantine'[q] = quarantine[q]
      /\ selected' = s
  BY <1>1, SMT DEF DeleteProfileRows
<1>3. Tombstone.named = FALSE /\ Tombstone.pending = FALSE /\ Tombstone.status = "unavailable"
  BY SMT DEF Tombstone, NoRow
<1>4. Tombstone.status # "absent" BY <1>3, SMT
<1>5. StepsFit' /\ OneSetup' BY <1>0, FollowsFits, Zenon
<1>6. \A t \in Requests : t # r => req'[t] = req[t] BY Zenon DEF Follows
<1>7. \A t \in Requests : req'[t].kind # "idle" =>
         /\ req'[t].kind = req[t].kind /\ req'[t].profile = req[t].profile
         /\ req'[t].status = req[t].status \/ req'[t].status \in Verdicts
  BY <1>6, Zenon DEF Follows
<1>8. "pending" \notin Verdicts BY SMT DEF RequestAssumption
<1>9. SetupsRegistered'
  <2> SUFFICES ASSUME NEW t \in Requests, NEW q \in Profiles \ contested, req'[t].kind = "setup",
                      req'[t].profile = q, profile'[q].named
               PROVE  profile'[q].pending
    BY Zenon DEF SetupsRegistered
  <2>1. req[t].kind = "setup" /\ req[t].profile = q BY <1>7, SMT
  <2>2. q # p BY <1>2, <1>3, Zenon
  <2>3. profile'[q] = profile[q] BY <1>2, <2>2, Zenon
  <2> QED BY <1>0, <2>1, <2>3, Zenon DEF SetupsRegistered
<1>10. ChecksCompleted'
  <2> SUFFICES ASSUME NEW t \in Requests, NEW q \in Profiles, req'[t].kind = "reauthenticate",
                      req'[t].profile = q
               PROVE  /\ ~profile'[q].pending
                      /\ profile'[q].status # "absent"
                      /\ req'[t].status # "pending"
    BY Zenon DEF ChecksCompleted
  <2>1. /\ req[t].kind = "reauthenticate" /\ req[t].profile = q
        /\ req'[t].status = req[t].status \/ req'[t].status \in Verdicts
    BY <1>7, SMT
  <2>2. ~profile[q].pending /\ profile[q].status # "absent" /\ req[t].status # "pending"
    BY <1>0, <2>1, Zenon DEF ChecksCompleted
  <2>3. req'[t].status # "pending" BY <1>8, <2>1, <2>2, Zenon
  <2>4. CASE q = p BY <1>2, <1>3, <1>4, <2>3, <2>4, Zenon
  <2>5. CASE q # p
    <3>1. profile'[q] = profile[q] BY <1>2, <2>5, Zenon
    <3> QED BY <2>2, <2>3, <3>1, Zenon
  <2> QED BY <2>4, <2>5
<1>11. SelectionUsable'
  <2>1. profile'[s].named /\ quarantine'[s].state = "none" BY <1>2, Zenon
  <2>2. s # None BY ProfileAssumption, Zenon
  <2> QED BY <1>2, <2>1, <2>2, Zenon DEF SelectionUsable, Visible
<1>12. Completed' /\ Uncompleted'
  <2>1. \A q \in Profiles : profile'[q] = profile[q] \/ profile'[q] = Tombstone BY <1>2, Zenon
  <2>2. Completed'
    <3> SUFFICES ASSUME NEW q \in Profiles \ contested, profile'[q].named, ~profile'[q].pending
                 PROVE  profile'[q].done = {"authentication", "validation"} /\ profile'[q].status # "pending"
      BY Zenon DEF Completed
    <3>1. profile'[q] # Tombstone BY <1>3, Zenon
    <3>2. profile'[q] = profile[q] BY <2>1, <3>1, Zenon
    <3> QED BY <1>0, <3>2, Zenon DEF Completed
  <2>3. Uncompleted'
    <3> SUFFICES ASSUME NEW q \in Profiles, profile'[q].pending PROVE profile'[q].status = "pending"
      BY Zenon DEF Uncompleted
    <3>1. profile'[q] # Tombstone BY <1>3, Zenon
    <3>2. profile'[q] = profile[q] BY <2>1, <3>1, Zenon
    <3> QED BY <1>0, <3>2, Zenon DEF Uncompleted
  <2> QED BY <2>2, <2>3
<1> QED BY <1>5, <1>9, <1>10, <1>11, <1>12, Zenon DEF UsableInv

\* The tables of a removal, restoration or purge: the selection goes to a
\* profile in use, or stays.
LEMMA RemovalUsable ==
  ASSUME RequestAssumption, UsableInv, IInv', NEW r \in Requests, Follows(r), NEW p \in Profiles,
         NEW own, contested' = contested,
         \/ BeginProfileRemoval(p, own) \/ CompleteProfileQuarantine(p)
         \/ CancelProfileRemoval(p) \/ RestoreProfile(p) \/ PurgeProfile(p)
  PROVE  UsableInv'
<1>0. StoreTypeOK /\ SelectionUsable /\ StoreInv
  BY Apart, Zenon DEF UsableInv
<1>1. /\ profile \in [Profiles -> ProfileRow] /\ quarantine \in [Profiles -> QuarantineRow]
      /\ selected \in Profiles
  BY <1>0, SMT DEF StoreTypeOK, SelectionUsable
<1>2. profile[selected].named /\ quarantine[selected].state = "none" /\ selected # None
  BY <1>0, Zenon DEF SelectionUsable, Visible
<1>3. CASE BeginProfileRemoval(p, own)
  <2>1. PICK s \in SelectionWithout(p) :
           \/ DeleteProfileRows(p, s)
           \/ /\ quarantine' = [quarantine EXCEPT ![p] =
                     [state |-> "prepared", reselect |-> selected = p, until |-> clock + Period]]
              /\ selected' = s /\ UNCHANGED <<profile, lease>>
    BY <1>3, Zenon DEF BeginProfileRemoval
  <2>2. s \in Profiles /\ s # p /\ profile[s].named /\ quarantine[s].state = "none"
    <3>1. CASE selected = p
      <4>1. s \in {q \in Profiles \ {p} : Selectable(q)} BY <3>1, Zenon DEF SelectionWithout
      <4> QED BY <4>1, Zenon DEF Selectable, Visible
    <3>2. CASE selected # p
      <4>1. s = selected BY <3>2, Zenon DEF SelectionWithout
      <4> QED BY <1>1, <1>2, <3>2, <4>1, Zenon
    <3> QED BY <3>1, <3>2
  <2>3. CASE DeleteProfileRows(p, s) BY <2>2, <2>3, DeletionUsable, Zenon
  <2>4. CASE /\ quarantine' = [quarantine EXCEPT ![p] =
                     [state |-> "prepared", reselect |-> selected = p, until |-> clock + Period]]
             /\ selected' = s /\ UNCHANGED <<profile, lease>>
    <3>1. quarantine'[s] = quarantine[s] BY <1>1, <2>2, <2>4, Zenon
    <3>2. s # None BY <2>2, ProfileAssumption, Zenon
    <3>3. SelectionUsable' BY <2>2, <2>4, <3>1, <3>2, Zenon DEF SelectionUsable, Visible
    <3> QED BY <2>4, <3>3, ProfilesStayUsable, Zenon
  <2> QED BY <2>1, <2>3, <2>4
<1>4. CASE CompleteProfileQuarantine(p)
  <2>1. selected # p BY <1>2, <1>4, SMT DEF CompleteProfileQuarantine
  <2>2. quarantine'[selected] = quarantine[selected]
    BY <1>1, <1>4, <2>1, SMT DEF CompleteProfileQuarantine
  <2>3. profile' = profile /\ selected' = selected BY <1>4, Zenon DEF CompleteProfileQuarantine
  <2>4. SelectionUsable' BY <1>2, <2>2, <2>3, Zenon DEF SelectionUsable, Visible
  <2> QED BY <2>3, <2>4, ProfilesStayUsable, Zenon
<1>5. CASE CancelProfileRemoval(p)
  <2>1. /\ quarantine'[p] = NotQuarantined
        /\ \A q \in Profiles : q # p => quarantine'[q] = quarantine[q]
        /\ profile' = profile
    BY <1>1, <1>5, SMT DEF CancelProfileRemoval
  <2>2. NotQuarantined.state = "none" BY SMT DEF NotQuarantined
  <2>3. CASE quarantine[p].reselect
    <3>1. selected' = p /\ p # None BY <1>5, <2>3, ProfileAssumption, Zenon DEF CancelProfileRemoval
    <3>2. profile[p].named BY <1>0, <2>3, Zenon DEF StoreInv, ReselectRegistered
    <3> QED BY <2>1, <2>2, <3>1, <3>2, ProfilesStayUsable, Zenon DEF SelectionUsable, Visible
  <2>4. CASE ~quarantine[p].reselect
    <3>1. selected' = selected BY <1>5, <2>4, Zenon DEF CancelProfileRemoval
    <3>2. quarantine'[selected].state = "none" BY <1>1, <1>2, <2>1, <2>2, Zenon
    <3> QED BY <1>2, <2>1, <3>1, <3>2, ProfilesStayUsable, Zenon DEF SelectionUsable, Visible
  <2> QED BY <2>3, <2>4
<1>6. CASE RestoreProfile(p)
  <2>1. /\ quarantine'[p] = NotQuarantined
        /\ \A q \in Profiles : q # p => quarantine'[q] = quarantine[q]
        /\ profile' = profile /\ selected' = selected
    BY <1>1, <1>6, SMT DEF RestoreProfile
  <2>2. NotQuarantined.state = "none" BY SMT DEF NotQuarantined
  <2>3. quarantine'[selected].state = "none" BY <1>1, <1>2, <2>1, <2>2, Zenon
  <2> QED BY <1>2, <2>1, <2>3, ProfilesStayUsable, Zenon DEF SelectionUsable, Visible
<1>7. CASE PurgeProfile(p)
  <2>1. selected # p BY <1>2, <1>7, SMT DEF PurgeProfile
  <2> QED BY <1>1, <1>2, <1>7, <2>1, DeletionUsable, Zenon DEF PurgeProfile
<1> QED BY <1>3, <1>4, <1>5, <1>6, <1>7

\* What a setup writes before it completes: only while its registration is
\* pending, or to a profile that is gone.
LEMMA SetupWriteUsable ==
  ASSUME RequestAssumption, UsableInv, IInv', NEW r \in Requests, Follows(r), NEW p \in Profiles,
         req[r].kind = "setup", req[r].profile = p, NEW own, NEW stage,
         contested' = contested,
         \/ SetHome(p, own) \/ SaveSetupStage(p, stage)
         \/ ResetAuthentication(p) \/ SetAuthenticationState(p, "pending")
  PROVE  UsableInv'
<1>0. StoreTypeOK /\ SetupsRegistered /\ Uncompleted /\ profile[p] \in ProfileRow
      /\ profile \in [Profiles -> ProfileRow]
  BY Apart, Zenon DEF UsableInv, StoreTypeOK
<1>1. profile[p].named /\ p \notin contested => profile[p].pending BY <1>0, Zenon DEF SetupsRegistered
<1>2. profile[p].pending => profile[p].status = "pending" BY <1>0, Zenon DEF Uncompleted
<1>3. PICK row : /\ profile' = [profile EXCEPT ![p] = row]
                 /\ row.named = profile[p].named /\ row.pending = profile[p].pending
                 /\ row.status = profile[p].status \/ row.status = "pending"
  <2>1. CASE SetHome(p, own)
    <3> DEFINE row == [profile[p] EXCEPT !.home = own]
    <3>1. row.named = profile[p].named /\ row.pending = profile[p].pending
          /\ row.status = profile[p].status
      BY <1>0 DEF ProfileRow
    <3>2. profile' = [profile EXCEPT ![p] = row] BY <1>0, <2>1 DEF SetHome
    <3> HIDE DEF row
    <3> QED BY <3>1, <3>2, Zenon
  <2>2. CASE SaveSetupStage(p, stage)
    <3> DEFINE row == [profile[p] EXCEPT !.done = @ \cup {stage}]
    <3>1. row.named = profile[p].named /\ row.pending = profile[p].pending
          /\ row.status = profile[p].status
      BY <1>0 DEF ProfileRow
    <3>2. profile' = [profile EXCEPT ![p] = row] BY <1>0, <2>2 DEF SaveSetupStage
    <3> HIDE DEF row
    <3> QED BY <3>1, <3>2, Zenon
  <2>3. CASE ResetAuthentication(p)
    <3> DEFINE row == [profile[p] EXCEPT !.done = {}, !.status = "pending"]
    <3>1. row.named = profile[p].named /\ row.pending = profile[p].pending
          /\ row.status = "pending"
      BY <1>0 DEF ProfileRow
    <3>2. profile' = [profile EXCEPT ![p] = row] BY <1>0, <2>3 DEF ResetAuthentication
    <3> HIDE DEF row
    <3> QED BY <3>1, <3>2, Zenon
  <2>4. CASE SetAuthenticationState(p, "pending")
    <3> DEFINE row == [profile[p] EXCEPT !.status = "pending"]
    <3>1. row.named = profile[p].named /\ row.pending = profile[p].pending
          /\ row.status = "pending"
      BY <1>0 DEF ProfileRow
    <3>2. profile' = [profile EXCEPT ![p] = row] BY <1>0, <2>4 DEF SetAuthenticationState
    <3> HIDE DEF row
    <3> QED BY <3>1, <3>2, Zenon
  <2> QED BY <2>1, <2>2, <2>3, <2>4
<1>4. profile'[p] = row /\ \A q \in Profiles : q # p => profile'[q] = profile[q]
  BY <1>0, <1>3
<1>5. /\ profile'[p].named <=> profile[p].named
      /\ profile'[p].pending <=> profile[p].pending
  BY <1>3, <1>4, Zenon
<1>6. profile'[p].status = profile[p].status \/ profile'[p].status = "pending"
  BY <1>3, <1>4, Zenon
<1>7. profile'[p].status = "absent" => profile[p].status = "absent" BY <1>6, SMT
<1>8. profile[p].pending => profile'[p].status = "pending" BY <1>2, <1>6, Zenon
<1>9. profile[p].named /\ ~profile[p].pending /\ p \notin contested =>
         profile'[p].done = {"authentication", "validation"} /\ profile'[p].status # "pending"
  BY <1>1, Zenon
<1>10. quarantine' = quarantine /\ selected' = selected
  BY Zenon DEF SetHome, SaveSetupStage, ResetAuthentication, SetAuthenticationState
<1> QED BY <1>4, <1>5, <1>7, <1>8, <1>9, <1>10, RowWriteUsable, Zenon

\* What a check writes: of a profile that was set up, or of one that is gone.
LEMMA VerdictUsable ==
  ASSUME RequestAssumption, UsableInv, IInv', NEW r \in Requests, Follows(r), NEW p \in Profiles,
         req[r].kind = "reauthenticate", req[r].profile = p, req[r].status \in Statuses,
         SetAuthenticationState(p, req[r].status), contested' = contested
  PROVE  UsableInv'
<1>0. StoreTypeOK /\ ChecksCompleted /\ Completed /\ profile[p] \in ProfileRow
      /\ profile \in [Profiles -> ProfileRow]
  BY Apart, Zenon DEF UsableInv, StoreTypeOK
<1>1. ~profile[p].pending /\ req[r].status # "pending" BY <1>0, Zenon DEF ChecksCompleted
<1> DEFINE row == [profile[p] EXCEPT !.status = req[r].status]
<1>2. row.named = profile[p].named /\ row.pending = profile[p].pending
      /\ row.status = req[r].status /\ row.done = profile[p].done
  BY <1>0 DEF ProfileRow
<1>3. profile' = [profile EXCEPT ![p] = row] BY <1>0 DEF SetAuthenticationState
<1> HIDE DEF row
<1>4. profile'[p] = row /\ \A q \in Profiles : q # p => profile'[q] = profile[q]
  BY <1>0, <1>3
<1>5. /\ profile'[p].named <=> profile[p].named
      /\ profile'[p].pending <=> profile[p].pending
  BY <1>2, <1>4, Zenon
<1>6. profile'[p].status # "absent" /\ profile'[p].status # "pending"
  BY <1>1, <1>2, <1>4, SMT DEF Statuses
<1>7. profile[p].named /\ p \notin contested => profile'[p].done = {"authentication", "validation"}
  <2>1. profile[p].named /\ p \notin contested => profile[p].done = {"authentication", "validation"}
    BY <1>0, <1>1, Zenon DEF Completed
  <2>2. profile'[p].done = profile[p].done BY <1>2, <1>4, Zenon
  <2> QED BY <2>1, <2>2, Zenon
<1>8. quarantine' = quarantine /\ selected' = selected
  BY Zenon DEF SetAuthenticationState
<1> QED BY <1>1, <1>4, <1>5, <1>6, <1>7, <1>8, RowWriteUsable, Zenon

\* The first states.
LEMMA InitiallyUsable ==
  ASSUME Established # {}, Init
  PROVE  UsableInv
<1>1. IInv BY InitialInvariant
<1>2. PICK own \in [Established -> Ownerships] :
        profile = [p \in Profiles |-> IF p \in Established THEN SetUpRow(own[p]) ELSE NoRow]
  BY SMT DEF Init, StoreInit
<1>3. \A p \in Profiles :
         IF p \in Established THEN profile[p] = SetUpRow(own[p]) ELSE profile[p] = NoRow
  BY <1>2, SMT
<1>4. /\ NoRow.named = FALSE /\ NoRow.pending = FALSE
      /\ \A o : /\ SetUpRow(o).named = TRUE /\ SetUpRow(o).pending = FALSE
                /\ SetUpRow(o).status = "ready" /\ SetUpRow(o).done = {"authentication", "validation"}
  BY SMT DEF NoRow, SetUpRow
<1>5. \A r \in Requests : req[r].kind = "idle" /\ req[r].pc = "idle"
  BY SMT DEF Init, Idle
<1>6. SelectionUsable
  <2>1. selected \in Established /\ selected \in Profiles /\ selected # None
    BY ProfileAssumption, SMT DEF Init, StoreInit
  <2>2. profile[selected].named BY <1>3, <1>4, <2>1, Zenon
  <2>3. quarantine[selected].state = "none" BY <2>1, SMT DEF Init, StoreInit, NotQuarantined
  <2> QED BY <2>1, <2>2, <2>3, Zenon DEF SelectionUsable, Visible
<1>7. StepsFit BY <1>5, Zenon DEF StepsFit, Fits
<1>8. \A r \in Requests : req[r].kind # "setup" /\ req[r].kind # "reauthenticate"
  BY <1>5, SMT
<1>9. OneSetup /\ SetupsRegistered /\ ChecksCompleted
  BY <1>8, Zenon DEF OneSetup, SetupsRegistered, ChecksCompleted
<1>10. Completed
  <2> SUFFICES ASSUME NEW p \in Profiles, profile[p].named
               PROVE  profile[p].done = {"authentication", "validation"} /\ profile[p].status # "pending"
    BY Zenon DEF Completed
  <2>1. p \in Established /\ profile[p] = SetUpRow(own[p]) BY <1>3, <1>4, Zenon
  <2>2. profile[p].done = {"authentication", "validation"} /\ profile[p].status = "ready"
    BY <1>4, <2>1, Zenon
  <2> QED BY <2>2, SMT
<1>11. Uncompleted
  <2>1. \A p \in Profiles : ~profile[p].pending BY <1>3, <1>4, Zenon
  <2> QED BY <2>1, Zenon DEF Uncompleted
<1> QED BY <1>1, <1>6, <1>7, <1>9, <1>10, <1>11, Zenon DEF UsableInv

\* The kind of a request is that of its step.
LEMMA KindOfStep ==
  ASSUME StepsFit, NEW r \in Requests
  PROVE  /\ req[r].pc \in SetupSteps => req[r].kind = "setup"
         /\ req[r].pc \in CheckSteps => req[r].kind = "reauthenticate"
         /\ req[r].pc \in RemovalSteps => req[r].kind \in Removals
<1>1. Fits(req[r]) BY Zenon DEF StepsFit
<1> QED BY <1>1, SMT DEF Fits, SetupSteps, CheckSteps, RemovalSteps

\* The steps of the kinds are steps.
LEMMA StepsAre ==
  SetupSteps \subseteq Steps /\ CheckSteps \subseteq Steps /\ RemovalSteps \subseteq Steps
BY SMT DEF SetupSteps, CheckSteps, RemovalSteps, Steps

\* Requests follow their kind when they end,
LEMMA EndFollows ==
  ASSUME ReqOK, NEW r \in Requests, End(r)
  PROVE  Follows(r)
BY RequestOver, Zenon DEF Follows

\* and when they go on within it.
LEMMA GotoFollows ==
  ASSUME ReqOK, NEW r \in Requests, NEW pc, Goto(r, pc),
         \/ req[r].kind = "setup" /\ pc \in SetupSteps
         \/ req[r].kind = "reauthenticate" /\ pc \in CheckSteps
         \/ req[r].kind \in Removals /\ pc \in RemovalSteps
  PROVE  Follows(r)
<1>1. pc \in Steps BY StepsAre, SMT
<1>2. /\ \A s \in Requests : s # r => req'[s] = req[s]
      /\ req'[r].kind = req[r].kind /\ req'[r].profile = req[r].profile
      /\ req'[r].status = req[r].status /\ req'[r].pc = pc
  BY <1>1, RequestGoes, Zenon
<1>3. Fits(req'[r]) BY <1>2, SMT DEF Fits
<1> QED BY <1>2, <1>3, Zenon DEF Follows

\* Every step of a setup after its first.
LEMMA SetupStepUsable ==
  ASSUME RequestAssumption, UsableInv, IInv', NEW r \in Requests, SetupStep(r)
  PROVE  UsableInv'
<1>0. ReqOK /\ StepsFit /\ HomesOK /\ SelectionUsable BY Apart, Zenon DEF UsableInv
<1>a. contested' = contested
  BY Zenon DEF SetupStep, EnsureHome, RegisterHome, ReuseSignIn, Login, RecordMethod,
     SaveAuthentication, CheckSucceeds, CheckRejects, SaveValidation, Confirm, FinishSetup
<1>1. req[r].pc \in SetupSteps
  <2>1. \/ At(r, "ensure") \/ At(r, "register") \/ At(r, "login") \/ At(r, "method")
        \/ At(r, "authenticated") \/ At(r, "revalidate") \/ At(r, "validate")
        \/ At(r, "validated") \/ At(r, "confirm") \/ At(r, "select")
    BY Zenon DEF SetupStep, EnsureHome, RegisterHome, ReuseSignIn, Login, RecordMethod,
       SaveAuthentication, CheckSucceeds, CheckRejects, SaveValidation, Confirm, FinishSetup
  <2> QED BY <2>1, SMT DEF At, SetupSteps
<1>2. req[r].kind = "setup" BY <1>0, <1>1, KindOfStep, Zenon
<1>3. req[r].pc # "idle" BY <1>1, SMT DEF SetupSteps
<1>4. req[r] \in Request /\ req[r].profile \in Profiles BY <1>0, <1>3, InProgressType, Zenon
<1> DEFINE p == req[r].profile
<1>5. FirstStage(req[r].done) \in SetupSteps BY SMT DEF FirstStage, SetupSteps
<1>6. ASSUME UNCHANGED tableVars, Follows(r) PROVE UsableInv'
  <2>1. profile' = profile /\ quarantine' = quarantine /\ selected' = selected
    BY <1>6, SMT DEF tableVars
  <2>2. SelectionUsable' BY <1>0, <2>1, Zenon DEF SelectionUsable, Visible
  <2> QED BY <1>a, <1>6, <2>1, <2>2, ProfilesStayUsable, Zenon
<1>7. ASSUME NEW own \in Ownerships, EnsureHome(r, own) PROVE UsableInv'
  <2> DEFINE next == IF req[r].own = "none" THEN "register" ELSE FirstStage(req[r].done)
             row == [req[r] EXCEPT !.own = own, !.pc = next]
  <2>1. next \in SetupSteps BY <1>5, SMT DEF SetupSteps
  <2>2. req' = [req EXCEPT ![r] = row] BY <1>0, <1>7 DEF EnsureHome, ReqOK
  <2> HIDE DEF next
  <2>3. row.kind = req[r].kind /\ row.profile = req[r].profile /\ row.status = req[r].status
        /\ row.pc = next
    BY <1>4 DEF Request
  <2> HIDE DEF row
  <2>4. req'[r] = row /\ \A s \in Requests : s # r => req'[s] = req[s]
    BY <1>0, <2>2, RequestIs, Zenon
  <2>5. Fits(row) BY <1>2, <2>1, <2>3, Zenon DEF Fits
  <2>6. Follows(r) BY <2>3, <2>4, <2>5, Zenon DEF Follows
  <2>7. UNCHANGED tableVars BY <1>7, Zenon DEF EnsureHome
  <2> QED BY <1>6, <2>6, <2>7
<1>8. ASSUME RegisterHome(r) PROVE UsableInv'
  <2>1. Follows(r) BY <1>0, <1>2, <1>5, <1>8, GotoFollows, Zenon DEF RegisterHome
  <2>2. SetHome(p, req[r].own) BY <1>8, Zenon DEF RegisterHome
  <2> QED BY <1>a, <1>2, <1>4, <2>1, <2>2, SetupWriteUsable, Zenon
<1>9. ASSUME ReuseSignIn(r) \/ SaveAuthentication(r) \/ SaveValidation(r) PROVE UsableInv'
  <2>1. PICK pc \in SetupSteps : Goto(r, pc)
    BY <1>9, SMT DEF ReuseSignIn, SaveAuthentication, SaveValidation, SetupSteps
  <2>2. Follows(r) BY <1>0, <1>2, <2>1, GotoFollows, Zenon
  <2>3. SaveSetupStage(p, "authentication") \/ SaveSetupStage(p, "validation")
    BY <1>9, Zenon DEF ReuseSignIn, SaveAuthentication, SaveValidation
  <2> HIDE DEF p
  <2>4. CASE SaveSetupStage(p, "authentication")
    BY <1>a, <1>2, <1>4, <2>2, <2>4, SetupWriteUsable, Zenon DEF p
  <2>5. CASE SaveSetupStage(p, "validation")
    BY <1>a, <1>2, <1>4, <2>2, <2>5, SetupWriteUsable, Zenon DEF p
  <2> QED BY <2>3, <2>4, <2>5
<1>10. ASSUME RecordMethod(r) \/ Confirm(r) PROVE UsableInv'
  <2>1. PICK pc \in SetupSteps : Goto(r, pc)
    BY <1>10, SMT DEF RecordMethod, Confirm, SetupSteps
  <2>2. Follows(r) BY <1>0, <1>2, <2>1, GotoFollows, Zenon
  <2>3. SetAuthenticationState(p, "pending") BY <1>10, Zenon DEF RecordMethod, Confirm
  <2> QED BY <1>a, <1>2, <1>4, <2>2, <2>3, SetupWriteUsable, Zenon
<1>11. ASSUME CheckRejects(r) PROVE UsableInv'
  <2>1. ResetAuthentication(p) BY <1>11, Zenon DEF CheckRejects
  <2>2. Follows(r)
    <3>1. CASE Goto(r, "login")
      <4>1. "login" \in SetupSteps BY SMT DEF SetupSteps
      <4> QED BY <1>0, <1>2, <3>1, <4>1, GotoFollows, Zenon
    <3>2. CASE End(r) BY <1>0, <3>2, EndFollows, Zenon
    <3>3. CASE req' = [req EXCEPT ![r].pc = "login", ![r].again = TRUE]
      <4> DEFINE row == [req[r] EXCEPT !.pc = "login", !.again = TRUE]
      <4>1. req' = [req EXCEPT ![r] = row] BY <1>0, <3>3 DEF ReqOK
      <4>2. row.kind = req[r].kind /\ row.profile = req[r].profile /\ row.status = req[r].status
            /\ row.pc = "login"
        BY <1>4 DEF Request
      <4> HIDE DEF row
      <4>3. req'[r] = row /\ \A s \in Requests : s # r => req'[s] = req[s]
        BY <1>0, <4>1, RequestIs, Zenon
      <4>4. "login" \in SetupSteps BY SMT DEF SetupSteps
      <4>5. Fits(row) BY <1>2, <4>2, <4>4, Zenon DEF Fits
      <4> QED BY <4>2, <4>3, <4>5, Zenon DEF Follows
    <3> QED BY <1>11, <3>1, <3>2, <3>3, Zenon DEF CheckRejects
  <2> QED BY <1>a, <1>2, <1>4, <2>1, <2>2, SetupWriteUsable, Zenon
<1>12. ASSUME FinishSetup(r) PROVE UsableInv'
  BY <1>a, <1>2, <1>4, <1>12, CompletionUsable, Zenon DEF FinishSetup
<1>13. ASSUME CheckSucceeds(r) \/ Login(r) PROVE UsableInv'
  <2>1. PICK pc \in SetupSteps : Goto(r, pc) BY <1>13, SMT DEF CheckSucceeds, Login, SetupSteps
  <2>2. Follows(r) BY <1>0, <1>2, <2>1, GotoFollows, Zenon
  <2>3. UNCHANGED tableVars BY <1>13, Zenon DEF CheckSucceeds, Login
  <2> QED BY <1>6, <2>2, <2>3
<1> QED BY <1>7, <1>8, <1>9, <1>10, <1>11, <1>12, <1>13, Zenon DEF SetupStep

\* Every step of a check after its first.
LEMMA CheckStepUsable ==
  ASSUME RequestAssumption, UsableInv, IInv', NEW r \in Requests,
         CheckSignIn(r) \/ RecordVerdict(r) \/ LoginAgain(r)
  PROVE  UsableInv'
<1>0. ReqOK /\ StepsFit /\ SelectionUsable BY Apart, Zenon DEF UsableInv
<1>a. contested' = contested BY Zenon DEF CheckSignIn, RecordVerdict, LoginAgain
<1>1. req[r].pc \in CheckSteps
  <2>1. At(r, "check") \/ At(r, "record") \/ At(r, "relogin")
    BY Zenon DEF CheckSignIn, RecordVerdict, LoginAgain
  <2> QED BY <2>1, SMT DEF At, CheckSteps
<1>2. req[r].kind = "reauthenticate" BY <1>0, <1>1, KindOfStep, Zenon
<1>3. req[r].pc # "idle" BY <1>1, SMT DEF CheckSteps
<1>4. req[r] \in Request /\ req[r].profile \in Profiles /\ req[r].status \in Statuses
  BY <1>0, <1>3, InProgressType, Zenon
<1>5. "record" \in CheckSteps /\ "relogin" \in CheckSteps BY SMT DEF CheckSteps
<1>6. ASSUME NEW verdict \in Verdicts, NEW row, req' = [req EXCEPT ![r] = row],
             row.kind = req[r].kind, row.profile = req[r].profile, row.status = verdict,
             row.pc = "record", UNCHANGED tableVars
      PROVE  UsableInv'
  <2>1. req'[r] = row /\ \A s \in Requests : s # r => req'[s] = req[s]
    BY <1>0, <1>6, RequestIs, Zenon
  <2>2. Fits(row) BY <1>2, <1>5, <1>6, Zenon DEF Fits
  <2>3. Follows(r) BY <1>6, <2>1, <2>2, Zenon DEF Follows
  <2>4. profile' = profile /\ quarantine' = quarantine /\ selected' = selected
    BY <1>6, SMT DEF tableVars
  <2>5. SelectionUsable' BY <1>0, <2>4, Zenon DEF SelectionUsable, Visible
  <2> QED BY <1>a, <2>3, <2>4, <2>5, ProfilesStayUsable, Zenon
<1>7. CASE CheckSignIn(r)
  <2>1. PICK verdict \in Verdicts :
          req' = [req EXCEPT ![r].pc = "record", ![r].status = verdict]
    BY <1>7, Zenon DEF CheckSignIn
  <2> DEFINE row == [req[r] EXCEPT !.pc = "record", !.status = verdict]
  <2>2. req' = [req EXCEPT ![r] = row] BY <1>0, <2>1 DEF ReqOK
  <2>3. row.kind = req[r].kind /\ row.profile = req[r].profile /\ row.status = verdict
        /\ row.pc = "record"
    BY <1>4 DEF Request
  <2>4. UNCHANGED tableVars BY <1>7, Zenon DEF CheckSignIn
  <2> HIDE DEF row
  <2> QED BY <1>6, <2>2, <2>3, <2>4, Zenon
<1>8. CASE RecordVerdict(r)
  <2>1. Follows(r)
    BY <1>0, <1>2, <1>5, <1>8, GotoFollows, EndFollows, Zenon DEF RecordVerdict
  <2>2. SetAuthenticationState(req[r].profile, req[r].status) BY <1>8, Zenon DEF RecordVerdict
  <2> QED BY <1>a, <1>2, <1>4, <2>1, <2>2, VerdictUsable, Zenon
<1>9. CASE LoginAgain(r)
  <2>1. PICK verdict \in Verdicts :
          req' = [req EXCEPT ![r].pc = "record", ![r].status = verdict, ![r].again = TRUE]
    BY <1>9, Zenon DEF LoginAgain
  <2> DEFINE row == [req[r] EXCEPT !.pc = "record", !.status = verdict, !.again = TRUE]
  <2>2. req' = [req EXCEPT ![r] = row] BY <1>0, <2>1 DEF ReqOK
  <2>3. row.kind = req[r].kind /\ row.profile = req[r].profile /\ row.status = verdict
        /\ row.pc = "record"
    BY <1>4 DEF Request
  <2>4. UNCHANGED tableVars BY <1>9, Zenon DEF LoginAgain
  <2> HIDE DEF row
  <2> QED BY <1>6, <2>2, <2>3, <2>4, Zenon
<1> QED BY <1>7, <1>8, <1>9

\* Every step of a removal, restoration or purge after its first.
LEMMA LifecycleStepUsable ==
  ASSUME RequestAssumption, UsableInv, IInv', NEW r \in Requests, LifecycleStep(r)
  PROVE  UsableInv'
<1>0. ReqOK /\ StepsFit /\ SelectionUsable BY Apart, Zenon DEF UsableInv
<1>a. contested' = contested
  BY SMT DEF LifecycleStep, PrepareRemoval, StatHomes, RenameHome, RenameFails, CancelRemoval,
     EraseHome, CommitLifecycle
<1>1. req[r].pc \in RemovalSteps
  BY SMT DEF LifecycleStep, PrepareRemoval, StatHomes, RenameHome, RenameFails, CancelRemoval,
     EraseHome, CommitLifecycle, At, RemovalSteps
<1>2. req[r].kind \in Removals BY <1>0, <1>1, KindOfStep, Zenon
<1>3. req[r].pc # "idle" BY <1>1, SMT DEF RemovalSteps
<1>4. req[r].profile \in Profiles BY <1>0, <1>3, InProgressType, Zenon
<1>5. Follows(r)
  <2>1. End(r) \/ \E pc \in RemovalSteps : Goto(r, pc)
    BY SMT DEF LifecycleStep, PrepareRemoval, StatHomes, RenameHome, RenameFails, CancelRemoval,
       EraseHome, CommitLifecycle, MoveFails, RemovalSteps
  <2> QED BY <1>0, <1>2, <2>1, GotoFollows, EndFollows, Zenon
<1>6. CASE PrepareRemoval(r) \/ CancelRemoval(r) \/ CommitLifecycle(r)
  BY <1>a, <1>4, <1>5, <1>6, RemovalUsable, Zenon DEF PrepareRemoval, CancelRemoval, CommitLifecycle
<1>7. CASE StatHomes(r) \/ RenameHome(r) \/ RenameFails(r) \/ EraseHome(r)
  <2>1. UNCHANGED tableVars BY <1>7, Zenon DEF StatHomes, RenameHome, RenameFails, EraseHome
  <2>2. profile' = profile /\ quarantine' = quarantine /\ selected' = selected
    BY <2>1, SMT DEF tableVars
  <2>3. SelectionUsable' BY <1>0, <2>2, Zenon DEF SelectionUsable, Visible
  <2> QED BY <1>a, <1>5, <2>2, <2>3, ProfilesStayUsable, Zenon
<1> QED BY <1>6, <1>7, Zenon DEF LifecycleStep

\* UsableInv is inductive, whatever overlaps.
LEMMA NextUsable ==
  ASSUME RequestAssumption, UsableInv, [Next]_vars
  PROVE  UsableInv'
<1>0. /\ ReqOK /\ StepsFit /\ SelectionUsable /\ OneSetup /\ SetupsRegistered /\ ChecksCompleted
      /\ Completed /\ Uncompleted /\ IInv
  BY Apart, Zenon DEF UsableInv
<1>1. IInv' BY <1>0, NextInvariant, Zenon
<1>2. ASSUME UNCHANGED <<profile, quarantine, req, contested>>, SelectionUsable' PROVE UsableInv'
  <2>1. profile' = profile /\ req' = req /\ contested' = contested BY <1>2, Zenon
  <2>2. StepsFit' /\ OneSetup' /\ SetupsRegistered' /\ ChecksCompleted'
    BY <1>0, <2>1, Zenon
    DEF StepsFit, Fits, OneSetup, SetupsRegistered, ChecksCompleted
  <2>3. Completed' /\ Uncompleted' BY <1>0, <2>1, Zenon DEF Completed, Uncompleted
  <2> QED BY <1>1, <1>2, <2>2, <2>3, Zenon DEF UsableInv
<1>3. ASSUME UNCHANGED <<profile, quarantine, selected>> PROVE SelectionUsable'
  BY <1>0, <1>3, Zenon DEF SelectionUsable, Visible
<1>4. ASSUME NEW r \in Requests, NEW p \in Profiles,
             BeginRemoval(r, p) \/ BeginRestoration(r, p) \/ BeginPurge(r, p)
      PROVE  UsableInv'
  <2>1. PICK row : /\ Begin(r, row)
                   /\ row.kind \in Removals /\ row.pc \in RemovalSteps
    <3>1. \A own : \A kind \in Removals, pc \in RemovalSteps :
             LET row == [Load(kind, pc, p) EXCEPT !.own = own]
             IN  row.kind \in Removals /\ row.pc \in RemovalSteps
      BY SMT DEF Load, Idle
    <3>2. \A kind \in Removals, pc \in RemovalSteps :
             Load(kind, pc, p).kind \in Removals /\ Load(kind, pc, p).pc \in RemovalSteps
      BY SMT DEF Load, Idle
    <3>3. CASE BeginRemoval(r, p)
      <4> DEFINE pc == IF Visible(p) THEN "begin" ELSE "stat"
                 row == [Load("remove", pc, p) EXCEPT !.own = profile[p].home]
      <4>1. Begin(r, row) BY <3>3, Zenon DEF BeginRemoval
      <4>2. pc \in RemovalSteps /\ "remove" \in Removals BY SMT DEF RemovalSteps, Removals
      <4> HIDE DEF pc
      <4>3. row.kind \in Removals /\ row.pc \in RemovalSteps BY <3>1, <4>2, Zenon
      <4> HIDE DEF row
      <4> QED BY <4>1, <4>3, Zenon
    <3>4. CASE BeginRestoration(r, p)
      <4>1. "stat" \in RemovalSteps /\ "restore" \in Removals BY SMT DEF RemovalSteps, Removals
      <4> QED BY <3>2, <3>4, <4>1, Zenon DEF BeginRestoration
    <3>5. CASE BeginPurge(r, p)
      <4>1. "erase" \in RemovalSteps /\ "purge" \in Removals BY SMT DEF RemovalSteps, Removals
      <4> QED BY <3>2, <3>5, <4>1, Zenon DEF BeginPurge
    <3> QED BY <1>4, <3>3, <3>4, <3>5
  <2>2. Fits(row) BY <2>1, Zenon DEF Fits
  <2>3. row.kind \notin {"setup", "reauthenticate"} BY <2>1, SMT DEF Removals
  <2>4. UNCHANGED tableVars BY <1>4, Zenon DEF BeginRemoval, BeginRestoration, BeginPurge
  <2>5. contested' = contested BY <1>4, Zenon DEF BeginRemoval, BeginRestoration, BeginPurge
  <2> QED BY <1>1, <2>1, <2>2, <2>3, <2>4, <2>5, StartUsable, Zenon
<1>5. ASSUME NEW r \in Requests, NEW p \in Profiles, BeginSetup(r, p) PROVE UsableInv'
  BY <1>1, <1>5, SetupStartUsable, Zenon
<1>6. ASSUME NEW r \in Requests, NEW p \in Profiles, BeginReauthentication(r, p) PROVE UsableInv'
  BY <1>1, <1>6, CheckStartUsable, Zenon
<1>7. ASSUME NEW r \in Requests, SetupStep(r) \/ LifecycleStep(r) PROVE UsableInv'
  BY <1>1, <1>7, SetupStepUsable, LifecycleStepUsable, Zenon
<1>8. ASSUME NEW r \in Requests, CheckSignIn(r) \/ RecordVerdict(r) \/ LoginAgain(r)
     PROVE  UsableInv'
  BY <1>1, <1>8, CheckStepUsable, Zenon
<1>9. ASSUME NEW r \in Requests, EndRequest(r) PROVE UsableInv'
  <2>1. Follows(r) BY <1>0, <1>9, EndFollows, Zenon DEF EndRequest
  <2>2. /\ profile' = profile /\ quarantine' = quarantine /\ selected' = selected
        /\ contested' = contested
    BY <1>9, SMT DEF EndRequest, tableVars
  <2> QED BY <1>1, <1>3, <2>1, <2>2, ProfilesStayUsable, Zenon
<1>10. ASSUME NEW p \in Profiles, Select(p) PROVE UsableInv'
  <2>1. p # None BY ProfileAssumption, Zenon
  <2>2. SelectionUsable'
    BY <1>10, <2>1, Zenon DEF Select, SelectProfile, Selectable, SelectionUsable, Visible
  <2> QED BY <1>2, <1>10, <2>2, Zenon DEF Select, SelectProfile
<1>11. ASSUME NEW l \in Leases, LaunchReport(l) \/ \E p \in Profiles : Launch(l, p)
       PROVE  UsableInv'
  BY <1>2, <1>3, <1>11, Zenon
  DEF LaunchReport, Launch, MarkStarted, SettleLaunch, PrepareLaunch
<1>12. ASSUME Tick PROVE UsableInv'
  BY <1>2, <1>3, <1>12, SMT DEF Tick, tableVars
<1>13. ASSUME UNCHANGED vars PROVE UsableInv'
  BY <1>2, <1>3, <1>13, SMT DEF vars
<1>14. CASE Next
  BY <1>4, <1>5, <1>6, <1>7, <1>8, <1>9, <1>10, <1>11, <1>12, <1>14, Zenon DEF Next
<1> QED BY <1>13, <1>14

\* Any setups, removals, restorations, purges, checks and launches at a time
\* leave a profile selected that is in use, and only profiles ready that are out
\* of setup.  A profile that never had two setups at a time keeps its registration
\* while it is Pending, and is ready only when validated.  store/profiles.go:707.
THEOREM ProfilesAreUsable ==
  ASSUME Established # {}
  PROVE  Spec => []ProfilesUsable
<1>1. Init => UsableInv BY InitiallyUsable
<1>2. UsableInv /\ [Next]_vars => UsableInv' BY RequestAssumption, NextUsable
<1>3. UsableInv => ProfilesUsable
  <2> SUFFICES ASSUME UsableInv PROVE ProfilesUsable
    OBVIOUS
  <2>1. Resumable(Profiles \ contested) BY Zenon DEF UsableInv, Completed, Resumable
  <2>2. ReadyIsSetUp
    <3> SUFFICES ASSUME NEW p \in Profiles, Selectable(p) PROVE ~profile[p].pending
      BY Zenon DEF ReadyIsSetUp
    <3>1. profile[p].status # "pending" BY SMT DEF Selectable
    <3> QED BY <3>1, Zenon DEF UsableInv, Uncompleted
  <2>3. Validated(Profiles \ contested)
    <3> SUFFICES ASSUME NEW p \in Profiles \ contested, Selectable(p)
                 PROVE  profile[p].done = {"authentication", "validation"}
      BY Zenon DEF Validated
    <3>1. profile[p].named /\ ~profile[p].pending
      BY <2>2, Zenon DEF Selectable, Visible, ReadyIsSetUp
    <3> QED BY <3>1, Zenon DEF UsableInv, Completed
  <2> QED BY <2>1, <2>2, <2>3, Zenon DEF UsableInv, ProfilesUsable
<1> QED BY <1>1, <1>2, <1>3, PTL DEF Spec

-----------------------------------------------------------------------------
(* Where the directories are.                                              *)

NoSetup == \A r \in Requests : req[r].kind # "setup"

OneRemoval ==
    \A r, s \in Requests : req[r].kind \in Removals /\ req[s].kind \in Removals => r = s

Has(p, d) == home[p][d] # "none"

InPlace(p) == Has(p, "managed") /\ ~Has(p, "quarantine")

\* The directory of a managed profile is in place while the profile is in use,
\* and in one place while its removal is prepared.
Settled(p) ==
    /\ \A d \in Places : home[p][d] # "empty"
    /\ profile[p].home = "managed" /\ quarantine[p].state = "none" => InPlace(p)
    /\ profile[p].home = "managed" /\ quarantine[p].state = "prepared" =>
          (Has(p, "managed") <=> ~Has(p, "quarantine"))

HomesSettled == \A p \in Profiles : Settled(p)

\* What request r for p knows of the quarantine and of the directory it moves.
Moves(r, p) ==
    /\ req[r].kind = "remove" /\ req[r].pc # "begin" => quarantine[p].state # "none"
    /\ req[r].kind \in {"restore", "purge"} => quarantine[p].state = "quarantined"
    /\ req[r].pc = "rename" => Has(p, Source(r)) /\ ~Has(p, Target(r))
    /\ req[r].pc = "commit" /\ req[r].kind # "purge" =>
          ~Has(p, Source(r)) /\ Has(p, Target(r))
    /\ req[r].pc = "cancel" /\ quarantine[p].state = "prepared"
          /\ profile[p].home = "managed" => InPlace(p)
    /\ req[r].pc = "erase" => req[r].kind = "purge"

Moving ==
    \A r \in Requests : \A p \in Profiles :
       req[r].kind \in Removals /\ req[r].profile = p => Moves(r, p)

MoveInv == IInv /\ StepsFit /\ NoSetup /\ OneRemoval /\ HomesSettled /\ Moving

\* The steps of other requests, of users and of launches.
LEMMA OthersMove ==
  ASSUME MoveInv, IInv',
         \A p \in Profiles : /\ profile'[p].home = profile[p].home
                             /\ quarantine'[p].state = quarantine[p].state
                             /\ \A d \in Places : /\ home'[p][d] = "none" <=> home[p][d] = "none"
                                                  /\ home'[p][d] # "empty",
         \A s \in Requests : \/ req'[s] = req[s]
                             \/ /\ req'[s].kind \notin Removals /\ req'[s].kind # "setup"
                                /\ Fits(req'[s])
  PROVE  MoveInv'
<1>1. StepsFit'
  <2>1. \A s \in Requests : Fits(req'[s]) BY Zenon DEF MoveInv, StepsFit
  <2> QED BY <2>1, Zenon DEF StepsFit, Fits
<1>2. NoSetup' BY Zenon DEF MoveInv, NoSetup
<1>3. \A s \in Requests : req'[s].kind \in Removals => req'[s] = req[s] BY Zenon
<1>4. OneRemoval' BY <1>3, Zenon DEF MoveInv, OneRemoval
<1>5. HomesSettled'
  <2> SUFFICES ASSUME NEW p \in Profiles PROVE Settled(p)'
    BY Zenon DEF HomesSettled
  <2>1. Settled(p) BY Zenon DEF MoveInv, HomesSettled
  <2>2. "managed" \in Places /\ "quarantine" \in Places BY SMT DEF Places
  <2> QED BY <2>1, <2>2, SMT DEF Settled, InPlace, Has
<1>6. Moving'
  <2> SUFFICES ASSUME NEW r \in Requests, NEW p \in Profiles, req'[r].kind \in Removals,
                      req'[r].profile = p
               PROVE  Moves(r, p)'
    BY Zenon DEF Moving
  <2>1. req'[r] = req[r] BY <1>3
  <2>2. Moves(r, p) BY <2>1, Zenon DEF MoveInv, Moving
  <2>3. "managed" \in Places /\ "quarantine" \in Places BY SMT DEF Places
  <2>4. /\ Has(p, "managed")' <=> Has(p, "managed")
        /\ Has(p, "quarantine")' <=> Has(p, "quarantine")
    BY <2>3, Zenon DEF Has
  <2>5. Source(r)' = Source(r) /\ Target(r)' = Target(r) BY <2>1, Zenon DEF Source, Target
  <2>6. Source(r) \in {"managed", "quarantine"} /\ Target(r) \in {"managed", "quarantine"}
    BY SMT DEF Source, Target
  <2>7. /\ Has(p, Source(r))' <=> Has(p, Source(r))
        /\ Has(p, Target(r))' <=> Has(p, Target(r))
    BY <2>3, <2>5, <2>6, SMT DEF Has, Places
  <2>8. profile'[p].home = profile[p].home /\ quarantine'[p].state = quarantine[p].state
    BY Zenon
  <2> QED BY <2>1, <2>2, <2>4, <2>7, <2>8, SMT DEF Moves, InPlace
<1> QED BY <1>1, <1>2, <1>4, <1>5, <1>6, Zenon DEF MoveInv

\* A step of the one removal, restoration or purge.
LEMMA MoverMoves ==
  ASSUME MoveInv, IInv', NEW r \in Requests, Follows(r), req[r].kind \in Removals,
         NEW p \in Profiles, req[r].profile = p,
         HomesSettled', req'[r].kind = "idle" \/ Moves(r, p)'
  PROVE  MoveInv'
<1>1. /\ \A s \in Requests : s # r => req'[s] = req[s] /\ req'[s].kind \notin Removals
      /\ req'[r].kind = "idle" \/ (req'[r].kind = req[r].kind /\ req'[r].profile = req[r].profile)
  BY Zenon DEF Follows, MoveInv, OneRemoval
<1>2. StepsFit'
  <2>1. Fits(req'[r]) BY Zenon DEF Follows, Fits
  <2>2. \A s \in Requests : Fits(req'[s]) BY <1>1, <2>1, Zenon DEF MoveInv, StepsFit
  <2> QED BY <2>2, Zenon DEF StepsFit, Fits
<1>3. NoSetup'
  <2>1. req'[r].kind # "setup" BY <1>1, SMT DEF Removals
  <2> QED BY <1>1, <2>1, Zenon DEF MoveInv, NoSetup
<1>4. OneRemoval' BY <1>1, Zenon DEF OneRemoval
<1>5. Moving'
  <2> SUFFICES ASSUME NEW s \in Requests, NEW q \in Profiles, req'[s].kind \in Removals,
                      req'[s].profile = q
               PROVE  Moves(s, q)'
    BY Zenon DEF Moving
  <2>1. s = r BY <1>1, Zenon
  <2>2. req'[r].kind # "idle" BY <2>1, SMT DEF Removals
  <2>3. q = p BY <1>1, <2>1, <2>2, Zenon
  <2> QED BY <2>1, <2>2, <2>3, Zenon
<1> QED BY <1>2, <1>3, <1>4, <1>5, Zenon DEF MoveInv

\* Without requests of some kinds none is counted.
LEMMA NoneCounted ==
  ASSUME NEW kinds, \A s \in Requests : req[s].kind \notin kinds
  PROVE  Cardinality(InProgress(kinds)) = 0
<1>1. InProgress(kinds) = {} BY Zenon DEF InProgress
<1> QED BY <1>1, FS_EmptySet, SMT

\* One removal at a time is none before another.
LEMMA NoRemovalBefore ==
  ASSUME RequestAssumption, MaxRemovals <= 1, OneRemoval,
         Cardinality(InProgress(Removals)) < MaxRemovals
  PROVE  \A s \in Requests : req[s].kind \notin Removals
<1> SUFFICES ASSUME NEW s \in Requests, req[s].kind \in Removals PROVE FALSE
  OBVIOUS
<1>1. InProgress(Removals) = {s}
  <2>1. \A q \in InProgress(Removals) : q = s BY Zenon DEF InProgress, OneRemoval
  <2>2. s \in InProgress(Removals) BY Zenon DEF InProgress
  <2> QED BY <2>1, <2>2, Zenon
<1>2. Cardinality({s}) = 1 BY FS_Singleton, Zenon
<1> QED BY <1>1, <1>2, SMT DEF RequestAssumption

\* The first step of a removal, a restoration or a purge.
LEMMA StartMoves ==
  ASSUME RequestAssumption, MaxRemovals <= 1, MoveInv, IInv',
         NEW r \in Requests, NEW p \in Profiles,
         BeginRemoval(r, p) \/ BeginRestoration(r, p) \/ BeginPurge(r, p)
  PROVE  MoveInv'
<1>0. ReqOK /\ StepsFit /\ NoSetup /\ OneRemoval /\ HomesSettled /\ StoreTypeOK
  BY Apart, Zenon DEF MoveInv
<1>1. \A s \in Requests : req[s].kind \notin Removals
  BY <1>0, NoRemovalBefore, Zenon DEF BeginRemoval, BeginRestoration, BeginPurge
<1>2. PICK row : /\ Begin(r, row) /\ row.profile = p
                 /\ \/ row.kind = "remove" /\ row.pc = "begin"
                    \/ row.kind = "remove" /\ row.pc = "stat" /\ ~Visible(p)
                    \/ /\ row.kind = "restore" /\ row.pc = "stat"
                       /\ quarantine[p].state = "quarantined"
                    \/ /\ row.kind = "purge" /\ row.pc = "erase"
                       /\ quarantine[p].state = "quarantined"
  <2>1. CASE BeginRemoval(r, p)
    <3> DEFINE pc == IF Visible(p) THEN "begin" ELSE "stat"
               row == [Load("remove", pc, p) EXCEPT !.own = profile[p].home]
    <3>1. Begin(r, row) BY <2>1, Zenon DEF BeginRemoval
    <3>2. pc = "begin" \/ (pc = "stat" /\ ~Visible(p)) BY Zenon
    <3> HIDE DEF pc
    <3>3. row.kind = "remove" /\ row.pc = pc /\ row.profile = p BY SMT DEF Load, Idle
    <3> HIDE DEF row
    <3> QED BY <3>1, <3>2, <3>3, Zenon
  <2>2. CASE BeginRestoration(r, p)
    <3>1. Load("restore", "stat", p).kind = "restore" /\ Load("restore", "stat", p).pc = "stat"
          /\ Load("restore", "stat", p).profile = p
      BY SMT DEF Load, Idle
    <3> QED BY <2>2, <3>1, Zenon DEF BeginRestoration
  <2>3. CASE BeginPurge(r, p)
    <3>1. Load("purge", "erase", p).kind = "purge" /\ Load("purge", "erase", p).pc = "erase"
          /\ Load("purge", "erase", p).profile = p
      BY SMT DEF Load, Idle
    <3> QED BY <2>3, <3>1, Zenon DEF BeginPurge
  <2> QED BY <2>1, <2>2, <2>3
<1>3. profile[p].named BY Zenon DEF BeginRemoval, BeginRestoration, BeginPurge
<1>4. /\ \A s \in Requests : s # r => req'[s] = req[s]
      /\ req'[r] = row
  BY <1>0, <1>2, RequestStarts, Zenon
<1>5. home' = home /\ profile' = profile /\ quarantine' = quarantine
  BY SMT DEF BeginRemoval, BeginRestoration, BeginPurge, tableVars
<1>6. StepsFit'
  <2>1. Fits(row) BY <1>2, SMT DEF Fits, Removals, RemovalSteps
  <2>2. \A s \in Requests : Fits(req'[s]) BY <1>0, <1>4, <2>1, Zenon DEF StepsFit
  <2> QED BY <2>2, Zenon DEF StepsFit, Fits
<1>7. NoSetup'
  <2>1. req'[r].kind # "setup" BY <1>2, <1>4, SMT
  <2> QED BY <1>0, <1>4, <2>1, Zenon DEF NoSetup
<1>8. \A s \in Requests : req'[s].kind \in Removals => s = r BY <1>1, <1>4, Zenon
<1>9. OneRemoval' BY <1>8, Zenon DEF OneRemoval
<1>10. HomesSettled' BY <1>0, <1>5, Zenon DEF HomesSettled, Settled, InPlace, Has
<1>11. Moves(r, p)'
  <2>1. ~Visible(p) => quarantine'[p].state # "none" BY <1>3, <1>5, Zenon DEF Visible
  <2>2. quarantine'[p].state = quarantine[p].state BY <1>5
  <2> QED BY <1>2, <1>4, <2>1, <2>2, SMT DEF Moves
<1>12. Moving'
  <2> SUFFICES ASSUME NEW s \in Requests, NEW q \in Profiles, req'[s].kind \in Removals,
                      req'[s].profile = q
               PROVE  Moves(s, q)'
    BY Zenon DEF Moving
  <2>1. s = r BY <1>8
  <2>2. q = p BY <1>2, <1>4, <2>1, Zenon
  <2> QED BY <1>11, <2>1, <2>2, Zenon
<1> QED BY <1>6, <1>7, <1>9, <1>10, <1>12, Zenon DEF MoveInv

\* The transactions of a removal and the directory of its profile.
LEMMA TransactionMoves ==
  ASSUME MoveInv, IInv', NEW r \in Requests,
         PrepareRemoval(r) \/ CancelRemoval(r) \/ CommitLifecycle(r)
  PROVE  MoveInv'
<1>0. ReqOK /\ StepsFit /\ HomesSettled /\ Moving /\ StoreTypeOK
  BY Apart, Zenon DEF MoveInv
<1>1. req[r].pc \in RemovalSteps
  BY SMT DEF PrepareRemoval, CancelRemoval, CommitLifecycle, At, RemovalSteps
<1>2. req[r].kind \in Removals /\ req[r].pc # "idle"
  <2>1. req[r].pc # "idle" BY <1>1, SMT DEF RemovalSteps
  <2> QED BY <1>0, <1>1, <2>1, KindOfStep, Zenon
<1>3. PICK p \in Profiles : p = req[r].profile BY <1>0, <1>2, InProgressType, Zenon
<1>4. Moves(r, p) /\ Settled(p) BY <1>0, <1>2, <1>3, Zenon DEF Moving, HomesSettled
<1>5. profile \in [Profiles -> ProfileRow] /\ quarantine \in [Profiles -> QuarantineRow]
  BY <1>0, SMT DEF StoreTypeOK
<1>6. home' = home BY Zenon DEF PrepareRemoval, CancelRemoval, CommitLifecycle
<1>7. ASSUME Follows(r), \A q \in Profiles : q # p => /\ profile'[q] = profile[q]
                                                      /\ quarantine'[q] = quarantine[q],
             Settled(p)', req'[r].kind = "idle" \/ Moves(r, p)'
      PROVE  MoveInv'
  <2>1. HomesSettled'
    <3> SUFFICES ASSUME NEW q \in Profiles PROVE Settled(q)'
      BY Zenon DEF HomesSettled
    <3>1. CASE q = p BY <1>7, <3>1, Zenon
    <3>2. CASE q # p
      <4>1. Settled(q) BY <1>0, Zenon DEF HomesSettled
      <4>2. profile'[q] = profile[q] /\ quarantine'[q] = quarantine[q] BY <1>7, <3>2, Zenon
      <4> QED BY <1>6, <4>1, <4>2, Zenon DEF Settled, InPlace, Has
    <3> QED BY <3>1, <3>2
  <2> QED BY <1>2, <1>3, <1>7, <2>1, MoverMoves, Zenon
<1>8. ASSUME NEW s, DeleteProfileRows(p, s), End(r) PROVE MoveInv'
  <2>1. profile'[p] = Tombstone
        /\ \A q \in Profiles : q # p => profile'[q] = profile[q] /\ quarantine'[q] = quarantine[q]
    BY <1>3, <1>5, <1>8, SMT DEF DeleteProfileRows
  <2>2. Tombstone.home = "none" BY SMT DEF Tombstone, NoRow
  <2>3. profile'[p].home # "managed" BY <2>1, <2>2, SMT
  <2>4. Settled(p)' BY <1>4, <1>6, <2>3, Zenon DEF Settled
  <2>5. Follows(r) /\ req'[r].kind = "idle" BY <1>0, <1>8, EndFollows, RequestOver, Zenon
  <2> QED BY <1>7, <2>1, <2>4, <2>5, Zenon
<1>9. CASE PrepareRemoval(r)
  <2>1. BeginProfileRemoval(p, req[r].own) BY <1>3, <1>9, Zenon DEF PrepareRemoval
  <2>2. PICK s : \/ req[r].own = "referenced" /\ DeleteProfileRows(p, s)
                 \/ /\ req[r].own = "managed" /\ quarantine[p].state = "none"
                    /\ quarantine' = [quarantine EXCEPT ![p] =
                          [state |-> "prepared", reselect |-> selected = p,
                           until |-> clock + Period]]
                    /\ UNCHANGED <<profile, lease>>
    BY <2>1, Zenon DEF BeginProfileRemoval
  <2>3. CASE req[r].own = "referenced" /\ DeleteProfileRows(p, s)
    <3>1. End(r) BY <1>9, <2>3, Zenon DEF PrepareRemoval
    <3> QED BY <1>8, <2>3, <3>1, Zenon
  <2>4. CASE /\ req[r].own = "managed" /\ quarantine[p].state = "none"
             /\ quarantine' = [quarantine EXCEPT ![p] =
                   [state |-> "prepared", reselect |-> selected = p, until |-> clock + Period]]
             /\ UNCHANGED <<profile, lease>>
    <3>1. req[r].own # "referenced" BY <2>4, SMT
    <3>2. Goto(r, "stat") BY <1>9, <3>1, Zenon DEF PrepareRemoval
    <3>3. "stat" \in RemovalSteps BY SMT DEF RemovalSteps
    <3>4. "stat" \in Steps BY SMT DEF Steps
    <3>5. Follows(r) BY <1>0, <1>2, <3>2, <3>3, GotoFollows, Zenon
    <3>6. req'[r].kind = req[r].kind /\ req'[r].pc = "stat"
      BY <1>0, <3>2, <3>4, RequestGoes, Zenon
    <3>7. /\ quarantine'[p].state = "prepared" /\ profile' = profile
          /\ \A q \in Profiles : q # p => quarantine'[q] = quarantine[q]
      BY <1>3, <1>5, <2>4, SMT
    <3>8. Moves(r, p)' BY <1>4, <2>4, <3>6, <3>7, SMT DEF Moves
    <3>9. Settled(p)' BY <1>4, <1>6, <2>4, <3>7, SMT DEF Settled, InPlace, Has
    <3> QED BY <1>7, <3>5, <3>7, <3>8, <3>9, Zenon
  <2> QED BY <2>2, <2>3, <2>4
<1>10. CASE CancelRemoval(r)
  <2>1. req[r].pc = "cancel" /\ CancelProfileRemoval(p) /\ End(r)
    BY <1>3, <1>10, Zenon DEF CancelRemoval, At
  <2>2. /\ quarantine[p].state = "prepared" /\ profile' = profile
        /\ \A q \in Profiles : q # p => quarantine'[q] = quarantine[q]
    BY <1>5, <2>1, SMT DEF CancelProfileRemoval
  <2>3. profile[p].home = "managed" => InPlace(p) BY <1>4, <2>1, <2>2, Zenon DEF Moves
  <2>4. Settled(p)'
    <3>1. quarantine'[p].state = "none"
      BY <1>3, <1>5, <2>1, SMT DEF CancelProfileRemoval, NotQuarantined
    <3> QED BY <1>4, <1>6, <2>2, <2>3, <3>1, SMT DEF Settled, InPlace, Has
  <2>5. Follows(r) /\ req'[r].kind = "idle" BY <1>0, <2>1, EndFollows, RequestOver, Zenon
  <2> QED BY <1>7, <2>2, <2>4, <2>5, Zenon
<1>11. CASE CommitLifecycle(r)
  <2>1. End(r) /\ req[r].pc = "commit" BY <1>11, Zenon DEF CommitLifecycle, At
  <2>2. Follows(r) /\ req'[r].kind = "idle" BY <1>0, <2>1, EndFollows, RequestOver, Zenon
  <2>3. CASE CompleteProfileQuarantine(p)
    <3>1. /\ quarantine'[p].state = "quarantined" /\ profile' = profile
          /\ \A q \in Profiles : q # p => quarantine'[q] = quarantine[q]
      BY <1>3, <1>5, <2>3, SMT DEF CompleteProfileQuarantine, QuarantineRow
    <3>2. Settled(p)' BY <1>4, <1>6, <3>1, SMT DEF Settled
    <3> QED BY <1>7, <2>2, <3>1, <3>2, Zenon
  <2>4. CASE req[r].kind = "restore" /\ RestoreProfile(p)
    <3>1. /\ profile' = profile
          /\ \A q \in Profiles : q # p => quarantine'[q] = quarantine[q]
      BY <1>5, <2>4, SMT DEF RestoreProfile
    <3>2. InPlace(p) BY <1>4, <2>1, <2>4, SMT DEF Moves, Source, Target, InPlace
    <3>3. quarantine'[p].state = "none"
      BY <1>3, <1>5, <2>4, SMT DEF RestoreProfile, NotQuarantined
    <3>4. Settled(p)' BY <1>4, <1>6, <3>1, <3>2, <3>3, SMT DEF Settled, InPlace, Has
    <3> QED BY <1>7, <2>2, <3>1, <3>4, Zenon
  <2>5. CASE PurgeProfile(p) BY <1>8, <2>1, <2>5, Zenon DEF PurgeProfile
  <2> QED BY <1>3, <1>11, <2>3, <2>4, <2>5, Zenon DEF CommitLifecycle
<1> QED BY <1>9, <1>10, <1>11

\* The steps of a removal that look at the directories or move them.
LEMMA DirectoryMoves ==
  ASSUME MoveInv, IInv', NEW r \in Requests,
         StatHomes(r) \/ RenameHome(r) \/ RenameFails(r) \/ EraseHome(r)
  PROVE  MoveInv'
<1>0. ReqOK /\ StepsFit /\ HomesSettled /\ Moving /\ HomesOK
  BY Apart, Zenon DEF MoveInv
<1>1. req[r].pc \in {"stat", "rename", "erase"}
  BY SMT DEF StatHomes, RenameHome, RenameFails, EraseHome, At
<1>2. req[r].kind \in Removals /\ req[r].pc # "idle"
  <2>1. req[r].pc # "idle" /\ req[r].pc \in RemovalSteps BY <1>1, SMT DEF RemovalSteps
  <2> QED BY <1>0, <2>1, KindOfStep, Zenon
<1>3. PICK p \in Profiles : p = req[r].profile BY <1>0, <1>2, InProgressType, Zenon
<1>4. Moves(r, p) /\ Settled(p) BY <1>0, <1>2, <1>3, Zenon DEF Moving, HomesSettled
<1>5. profile' = profile /\ quarantine' = quarantine
  BY SMT DEF StatHomes, RenameHome, RenameFails, EraseHome, tableVars
<1>6. ASSUME \A q \in Profiles : q # p => home'[q] = home[q], Settled(p)'
      PROVE  HomesSettled'
  <2> SUFFICES ASSUME NEW q \in Profiles, q # p PROVE Settled(q)'
    BY <1>6, Zenon DEF HomesSettled
  <2>1. Settled(q) BY <1>0, Zenon DEF HomesSettled
  <2> QED BY <1>5, <1>6, <2>1, Zenon DEF Settled, InPlace, Has
<1>7. /\ Source(r) = IF req[r].kind = "remove" THEN "managed" ELSE "quarantine"
      /\ Target(r) = IF req[r].kind = "remove" THEN "quarantine" ELSE "managed"
      /\ \A d : Exists(r, d) <=> Has(p, d)
  BY <1>3, Zenon DEF Source, Target, Exists, Has
<1>8. ASSUME NEW pc \in RemovalSteps, Goto(r, pc)
      PROVE  /\ Follows(r) /\ req'[r].kind = req[r].kind /\ req'[r].pc = pc
             /\ Source(r)' = Source(r) /\ Target(r)' = Target(r)
  <2>1. pc \in Steps BY StepsAre, SMT
  <2>2. req'[r].kind = req[r].kind /\ req'[r].pc = pc BY <1>0, <1>8, <2>1, RequestGoes, Zenon
  <2>3. Follows(r) BY <1>0, <1>2, <1>8, GotoFollows, Zenon
  <2> QED BY <2>2, <2>3, Zenon DEF Source, Target
<1>9. "rename" \in RemovalSteps /\ "commit" \in RemovalSteps /\ "cancel" \in RemovalSteps
  BY SMT DEF RemovalSteps
<1>10. ASSUME HomesSettled', End(r) PROVE MoveInv'
  <2>1. Follows(r) /\ req'[r].kind = "idle" BY <1>0, <1>10, EndFollows, RequestOver, Zenon
  <2> QED BY <1>2, <1>3, <1>10, <2>1, MoverMoves, Zenon
<1>11. ASSUME home' = home PROVE HomesSettled'
  <2>1. Settled(p)' BY <1>4, <1>5, <1>11, Zenon DEF Settled, InPlace, Has
  <2> QED BY <1>6, <1>11, <2>1, Zenon
<1>12. ASSUME home' = home, Goto(r, "cancel"), req[r].kind = "remove",
              quarantine[p].state = "prepared" /\ profile[p].home = "managed" => InPlace(p)
       PROVE  MoveInv'
  <2>1. Follows(r) /\ req'[r].kind = "remove" /\ req'[r].pc = "cancel"
    BY <1>8, <1>9, <1>12, Zenon
  <2>2. quarantine[p].state # "none" BY <1>1, <1>4, <1>12, SMT DEF Moves
  <2>3. InPlace(p)' <=> InPlace(p) BY <1>12, Zenon DEF InPlace, Has
  <2>4. Moves(r, p)' BY <1>5, <1>12, <2>1, <2>2, <2>3, SMT DEF Moves
  <2> QED BY <1>2, <1>3, <1>11, <1>12, <2>1, <2>4, MoverMoves, Zenon
<1>13. CASE StatHomes(r)
  <2>0. home' = home BY <1>13, Zenon DEF StatHomes
  <2>1. HomesSettled' BY <1>11, <2>0
  <2>2. req[r].pc = "stat" BY <1>13, Zenon DEF StatHomes, At
  <2>3. CASE Exists(r, Source(r)) /\ ~Exists(r, Target(r))
    <3>1. Goto(r, "rename") BY <1>13, <2>3, Zenon DEF StatHomes
    <3>2. /\ Follows(r) /\ req'[r].kind = req[r].kind /\ req'[r].pc = "rename"
          /\ Source(r)' = Source(r) /\ Target(r)' = Target(r)
      BY <1>8, <1>9, <3>1, Zenon
    <3>3. /\ Has(p, Source(r))' <=> Has(p, Source(r))
          /\ Has(p, Target(r))' <=> Has(p, Target(r))
      BY <2>0, <3>2, Zenon DEF Has
    <3>4. Has(p, Source(r)) /\ ~Has(p, Target(r)) BY <1>7, <2>3, Zenon
    <3>5. Moves(r, p)' BY <1>4, <1>5, <2>2, <3>2, <3>3, <3>4, SMT DEF Moves
    <3> QED BY <1>2, <1>3, <2>1, <3>2, <3>5, MoverMoves, Zenon
  <2>4. CASE ~Exists(r, Source(r)) /\ Exists(r, Target(r))
    <3>1. Goto(r, "commit") BY <1>13, <2>4, Zenon DEF StatHomes
    <3>2. /\ Follows(r) /\ req'[r].kind = req[r].kind /\ req'[r].pc = "commit"
          /\ Source(r)' = Source(r) /\ Target(r)' = Target(r)
      BY <1>8, <1>9, <3>1, Zenon
    <3>3. /\ Has(p, Source(r))' <=> Has(p, Source(r))
          /\ Has(p, Target(r))' <=> Has(p, Target(r))
      BY <2>0, <3>2, Zenon DEF Has
    <3>4. ~Has(p, Source(r)) /\ Has(p, Target(r)) BY <1>7, <2>4, Zenon
    <3>5. Moves(r, p)' BY <1>4, <1>5, <2>2, <3>2, <3>3, <3>4, SMT DEF Moves
    <3> QED BY <1>2, <1>3, <2>1, <3>2, <3>5, MoverMoves, Zenon
  <2>5. CASE Exists(r, Source(r)) <=> Exists(r, Target(r))
    <3>1. MoveFails(r)
      <4>1. Exists(r, Source(r)) = Exists(r, Target(r)) BY <2>5, SMT DEF Exists
      <4> QED BY <1>13, <4>1, Zenon DEF StatHomes
    <3>2. CASE req[r].kind = "remove"
      <4>1. Goto(r, "cancel") BY <3>1, <3>2, Zenon DEF MoveFails
      <4>2. Has(p, "managed") <=> Has(p, "quarantine") BY <1>7, <2>5, <3>2, Zenon
      <4>3. ~(quarantine[p].state = "prepared" /\ profile[p].home = "managed")
        BY <1>4, <4>2, Zenon DEF Settled
      <4> QED BY <1>12, <2>0, <3>2, <4>1, <4>3, Zenon
    <3>3. CASE req[r].kind # "remove"
      <4>1. End(r) BY <3>1, <3>3, Zenon DEF MoveFails
      <4> QED BY <1>10, <2>1, <4>1, Zenon
    <3> QED BY <3>2, <3>3
  <2> QED BY <2>3, <2>4, <2>5
<1>14. CASE RenameFails(r)
  <2>1. home' = home /\ MoveFails(r) /\ req[r].pc = "rename" BY <1>14, Zenon DEF RenameFails, At
  <2>2. CASE req[r].kind = "remove"
    <3>1. Goto(r, "cancel") BY <2>1, <2>2, Zenon DEF MoveFails
    <3>2. Has(p, "managed") /\ ~Has(p, "quarantine")
      BY <1>4, <1>7, <2>1, <2>2, Zenon DEF Moves
    <3> QED BY <1>12, <2>1, <2>2, <3>1, <3>2, Zenon DEF InPlace
  <2>3. CASE req[r].kind # "remove"
    <3>1. End(r) BY <2>1, <2>3, Zenon DEF MoveFails
    <3> QED BY <1>10, <1>11, <2>1, <3>1, Zenon
  <2> QED BY <2>2, <2>3
<1>15. CASE RenameHome(r)
  <2>1. /\ home' = [home EXCEPT ![p][Target(r)] = home[p][Source(r)], ![p][Source(r)] = "none"]
        /\ Goto(r, "commit") /\ req[r].pc = "rename"
        /\ Has(p, Source(r)) /\ ~Has(p, Target(r))
    BY <1>3, <1>7, <1>15, Zenon DEF RenameHome, At
  <2>2. \/ Source(r) = "managed" /\ Target(r) = "quarantine"
        \/ Source(r) = "quarantine" /\ Target(r) = "managed"
    BY <1>7, Zenon
  <2>3. Places = {"managed", "quarantine"} BY DEF Places
  <2>4. /\ home'[p][Source(r)] = "none" /\ home'[p][Target(r)] = home[p][Source(r)]
        /\ \A q \in Profiles : q # p => home'[q] = home[q]
    BY <1>0, <2>1, <2>2, <2>3, SMT DEF HomesOK
  <2>5. /\ Follows(r) /\ req'[r].kind = req[r].kind /\ req'[r].pc = "commit"
        /\ Source(r)' = Source(r) /\ Target(r)' = Target(r)
    BY <1>8, <1>9, <2>1, Zenon
  <2>6. ~Has(p, Source(r))' /\ Has(p, Target(r))' BY <2>1, <2>4, <2>5, Zenon DEF Has
  <2>7. home[p]["managed"] # "empty" /\ home[p]["quarantine"] # "empty"
    BY <1>4, <2>3, SMT DEF Settled
  <2>8. quarantine[p].state # "none" BY <1>2, <1>4, <2>1, SMT DEF Moves, Removals
  <2>9. Settled(p)'
    BY <1>5, <2>2, <2>3, <2>4, <2>5, <2>6, <2>7, <2>8, SMT DEF Settled, InPlace, Has
  <2>10. Moves(r, p)' BY <1>4, <1>5, <2>1, <2>5, <2>6, <2>8, SMT DEF Moves
  <2> QED BY <1>2, <1>3, <1>6, <2>4, <2>5, <2>9, <2>10, MoverMoves, Zenon
<1>16. CASE EraseHome(r)
  <2>1. /\ home' = [home EXCEPT ![p]["quarantine"] = "none"]
        /\ Goto(r, "commit") /\ req[r].pc = "erase"
    BY <1>3, <1>16, Zenon DEF EraseHome, At
  <2>2. req[r].kind = "purge" BY <1>4, <2>1, Zenon DEF Moves
  <2>3. quarantine[p].state = "quarantined" BY <1>4, <2>2, SMT DEF Moves
  <2>4. /\ Follows(r) /\ req'[r].kind = req[r].kind /\ req'[r].pc = "commit"
    BY <1>8, <1>9, <2>1, Zenon
  <2>5. \A q \in Profiles : q # p => home'[q] = home[q] BY <1>0, <2>1, SMT DEF HomesOK
  <2>6. \A d \in Places : home'[p][d] # "empty"
    BY <1>0, <1>4, <2>1, SMT DEF HomesOK, Settled, Places
  <2>7. Settled(p)' BY <1>5, <2>3, <2>6, SMT DEF Settled
  <2>8. Moves(r, p)' BY <1>5, <2>2, <2>3, <2>4, SMT DEF Moves
  <2> QED BY <1>2, <1>3, <1>6, <2>4, <2>5, <2>7, <2>8, MoverMoves, Zenon
<1> QED BY <1>13, <1>14, <1>15, <1>16

\* The first states.
LEMMA InitiallyInPlace ==
  ASSUME Init
  PROVE  MoveInv
<1>1. IInv BY InitialInvariant
<1>2. \A r \in Requests : req[r].kind = "idle" /\ req[r].pc = "idle"
  BY SMT DEF Init, Idle
<1>3. StepsFit BY <1>2, Zenon DEF StepsFit, Fits
<1>4. \A r \in Requests : req[r].kind # "setup" /\ req[r].kind \notin Removals
  BY <1>2, SMT DEF Removals
<1>5. NoSetup /\ OneRemoval /\ Moving BY <1>4, Zenon DEF NoSetup, OneRemoval, Moving
<1>6. HomesSettled
  <2> SUFFICES ASSUME NEW p \in Profiles PROVE Settled(p)
    BY Zenon DEF HomesSettled
  <2>1. quarantine[p].state = "none" BY SMT DEF Init, StoreInit, NotQuarantined
  <2>2. /\ home[p]["managed"] = IF profile[p].home = "managed" THEN "identity" ELSE "none"
        /\ home[p]["quarantine"] = "none"
    BY SMT DEF Init, Places
  <2> QED BY <2>1, <2>2, SMT DEF Settled, InPlace, Has, Places
<1> QED BY <1>1, <1>3, <1>5, <1>6, Zenon DEF MoveInv

\* MoveInv is inductive while no setup runs and removals do not overlap.
LEMMA NextMoves ==
  ASSUME RequestAssumption, MaxSetups = 0, MaxRemovals <= 1, MoveInv, [Next]_vars
  PROVE  MoveInv'
<1>0. /\ ReqOK /\ StepsFit /\ NoSetup /\ HomesSettled /\ StoreTypeOK /\ HomesOK /\ IInv
      /\ profile \in [Profiles -> ProfileRow]
  BY Apart, Zenon DEF MoveInv, StoreTypeOK
<1>1. IInv' BY <1>0, NextInvariant, Zenon
<1>2. \A p \in Profiles : \A d \in Places : home[p][d] # "empty"
  BY <1>0, Zenon DEF HomesSettled, Settled
<1>3. ASSUME UNCHANGED <<profile, quarantine, home>>,
             \A s \in Requests : \/ req'[s] = req[s]
                                 \/ /\ req'[s].kind \notin Removals /\ req'[s].kind # "setup"
                                    /\ Fits(req'[s])
      PROVE  MoveInv'
  BY <1>1, <1>2, <1>3, OthersMove, Zenon
<1>4. \A kind : kind = "idle" \/ kind = "reauthenticate" => kind \notin Removals /\ kind # "setup"
  BY SMT DEF Removals
<1>5. ASSUME NEW r \in Requests, NEW p \in Profiles, BeginSetup(r, p) PROVE FALSE
  <2>1. Cardinality(InProgress({"setup"})) = 0
    <3>1. \A s \in Requests : req[s].kind \notin {"setup"} BY <1>0, Zenon DEF NoSetup
    <3> QED BY <3>1, NoneCounted, Zenon
  <2> QED BY <1>5, <2>1, SMT DEF BeginSetup
<1>6. ASSUME NEW r \in Requests, NEW p \in Profiles,
             BeginRemoval(r, p) \/ BeginRestoration(r, p) \/ BeginPurge(r, p)
      PROVE  MoveInv'
  BY <1>1, <1>6, StartMoves, Zenon
<1>7. ASSUME NEW r \in Requests, LifecycleStep(r) PROVE MoveInv'
  BY <1>1, <1>7, TransactionMoves, DirectoryMoves, Zenon DEF LifecycleStep
<1>8. ASSUME NEW r \in Requests, SetupStep(r) PROVE FALSE
  <2>1. \/ At(r, "ensure") \/ At(r, "register") \/ At(r, "login") \/ At(r, "method")
        \/ At(r, "authenticated") \/ At(r, "revalidate") \/ At(r, "validate")
        \/ At(r, "validated") \/ At(r, "confirm") \/ At(r, "select")
    BY <1>8, Zenon DEF SetupStep, EnsureHome, RegisterHome, ReuseSignIn, Login, RecordMethod,
       SaveAuthentication, CheckSucceeds, CheckRejects, SaveValidation, Confirm, FinishSetup
  <2>2. req[r].pc \in SetupSteps BY <2>1, SMT DEF At, SetupSteps
  <2> QED BY <1>0, <2>2, KindOfStep, Zenon DEF NoSetup
<1>9. ASSUME NEW r \in Requests, NEW p \in Profiles, BeginReauthentication(r, p) PROVE MoveInv'
  <2> DEFINE row == [Load("reauthenticate", "check", p) EXCEPT
                        !.own = profile[p].home, !.status = profile[p].status]
  <2>1. row.kind = "reauthenticate" /\ row.pc = "check" BY SMT DEF Load, Idle
  <2>2. Begin(r, row) BY <1>9, Zenon DEF BeginReauthentication
  <2> HIDE DEF row
  <2>3. req'[r] = row /\ \A s \in Requests : s # r => req'[s] = req[s]
    BY <1>0, <2>2, RequestStarts, Zenon
  <2>4. Fits(row) BY <2>1, SMT DEF Fits, CheckSteps
  <2>5. UNCHANGED <<profile, quarantine, home>>
    BY <1>9, SMT DEF BeginReauthentication, tableVars
  <2> QED BY <1>3, <1>4, <2>1, <2>3, <2>4, <2>5, Zenon
<1>10. ASSUME NEW r \in Requests, CheckSignIn(r) \/ RecordVerdict(r) \/ LoginAgain(r)
       PROVE  MoveInv'
  <2>1. req[r].pc \in CheckSteps
    <3>1. At(r, "check") \/ At(r, "record") \/ At(r, "relogin")
      BY <1>10, Zenon DEF CheckSignIn, RecordVerdict, LoginAgain
    <3> QED BY <3>1, SMT DEF At, CheckSteps
  <2>2. req[r].kind = "reauthenticate" BY <1>0, <2>1, KindOfStep, Zenon
  <2>3. req[r].pc # "idle" BY <2>1, SMT DEF CheckSteps
  <2>4. req[r] \in Request /\ req[r].profile \in Profiles BY <1>0, <2>3, InProgressType, Zenon
  <2>5. "record" \in CheckSteps /\ "relogin" \in CheckSteps BY SMT DEF CheckSteps
  <2>6. \A s \in Requests : \/ req'[s] = req[s]
                            \/ /\ req'[s].kind \notin Removals /\ req'[s].kind # "setup"
                               /\ Fits(req'[s])
    <3>1. CASE Goto(r, "relogin") \/ End(r)
      <4>1. Follows(r) BY <1>0, <2>2, <2>5, <3>1, GotoFollows, EndFollows, Zenon
      <4>2. Fits(req'[r]) /\ (req'[r].kind = "idle" \/ req'[r].kind = "reauthenticate")
        BY <2>2, <4>1, Zenon DEF Follows, Fits
      <4> QED BY <1>4, <4>1, <4>2, Zenon DEF Follows
    <3>2. ASSUME NEW row, req' = [req EXCEPT ![r] = row], row.kind = req[r].kind,
                 row.pc = "record"
          PROVE  \A s \in Requests : \/ req'[s] = req[s]
                                     \/ /\ req'[s].kind \notin Removals /\ req'[s].kind # "setup"
                                        /\ Fits(req'[s])
      <4>1. req'[r] = row /\ \A s \in Requests : s # r => req'[s] = req[s]
        BY <1>0, <3>2, RequestIs, Zenon
      <4>2. Fits(row) BY <2>2, <2>5, <3>2, Zenon DEF Fits
      <4> QED BY <1>4, <2>2, <3>2, <4>1, <4>2, Zenon
    <3>3. CASE CheckSignIn(r)
      <4>1. PICK verdict : req' = [req EXCEPT ![r].pc = "record", ![r].status = verdict]
        BY <3>3, Zenon DEF CheckSignIn
      <4> DEFINE row == [req[r] EXCEPT !.pc = "record", !.status = verdict]
      <4>2. req' = [req EXCEPT ![r] = row] BY <1>0, <4>1 DEF ReqOK
      <4>3. row.kind = req[r].kind /\ row.pc = "record" BY <2>4 DEF Request
      <4> HIDE DEF row
      <4> QED BY <3>2, <4>2, <4>3, Zenon
    <3>4. CASE LoginAgain(r)
      <4>1. PICK verdict :
              req' = [req EXCEPT ![r].pc = "record", ![r].status = verdict, ![r].again = TRUE]
        BY <3>4, Zenon DEF LoginAgain
      <4> DEFINE row == [req[r] EXCEPT !.pc = "record", !.status = verdict, !.again = TRUE]
      <4>2. req' = [req EXCEPT ![r] = row] BY <1>0, <4>1 DEF ReqOK
      <4>3. row.kind = req[r].kind /\ row.pc = "record" BY <2>4 DEF Request
      <4> HIDE DEF row
      <4> QED BY <3>2, <4>2, <4>3, Zenon
    <3> QED BY <1>10, <3>1, <3>3, <3>4, Zenon DEF RecordVerdict
  <2>7. CASE CheckSignIn(r)
    <3>1. UNCHANGED <<profile, quarantine, home>> BY <2>7, SMT DEF CheckSignIn, tableVars
    <3> QED BY <1>3, <2>6, <3>1, Zenon
  <2>8. CASE RecordVerdict(r)
    <3>1. SetAuthenticationState(req[r].profile, req[r].status) /\ home' = home
      BY <2>8, Zenon DEF RecordVerdict
    <3>2. quarantine' = quarantine BY <3>1, Zenon DEF SetAuthenticationState
    <3>3. \A p \in Profiles : profile'[p].home = profile[p].home
      BY <1>0, <3>1 DEF SetAuthenticationState, ProfileRow
    <3> QED BY <1>1, <1>2, <2>6, <3>1, <3>2, <3>3, OthersMove, Zenon
  <2>9. CASE LoginAgain(r)
    <3>1. SignIn(req[r].profile, req[r].own) /\ profile' = profile /\ quarantine' = quarantine
      BY <2>9, SMT DEF LoginAgain, tableVars
    <3>2. CASE home' = home BY <1>3, <2>6, <3>1, <3>2, Zenon
    <3>3. CASE /\ home[req[r].profile]["managed"] # "none"
               /\ home' = [home EXCEPT ![req[r].profile]["managed"] = "identity"]
      <4>1. \A p \in Profiles : \A d \in Places : /\ home'[p][d] = "none" <=> home[p][d] = "none"
                                                  /\ home'[p][d] # "empty"
        BY <1>0, <1>2, <2>4, <3>3, SMT DEF HomesOK, Places
      <4> QED BY <1>1, <2>6, <3>1, <4>1, OthersMove, Zenon
    <3> QED BY <3>1, <3>2, <3>3, Zenon DEF SignIn
  <2> QED BY <1>10, <2>7, <2>8, <2>9
<1>11. ASSUME NEW r \in Requests, EndRequest(r) PROVE MoveInv'
  <2>1. End(r) /\ UNCHANGED <<profile, quarantine, home>>
    BY <1>11, SMT DEF EndRequest, tableVars
  <2>2. /\ \A s \in Requests : s # r => req'[s] = req[s]
        /\ req'[r].kind = "idle" /\ req'[r].pc = "idle"
    BY <1>0, <2>1, RequestOver, Zenon
  <2>3. Fits(req'[r]) BY <2>2, Zenon DEF Fits
  <2> QED BY <1>3, <1>4, <2>1, <2>2, <2>3, Zenon
<1>12. ASSUME UNCHANGED <<profile, quarantine, home, req>> PROVE MoveInv'
  BY <1>3, <1>12, Zenon
<1>13. ASSUME \/ \E p \in Profiles : Select(p)
              \/ \E l \in Leases : LaunchReport(l) \/ \E p \in Profiles : Launch(l, p)
              \/ Tick \/ UNCHANGED vars
       PROVE  MoveInv'
  <2>1. UNCHANGED <<profile, quarantine, home, req>>
    BY <1>13, SMT DEF Select, SelectProfile, LaunchReport, Launch, MarkStarted, SettleLaunch,
       PrepareLaunch, Tick, vars, tableVars
  <2> QED BY <1>12, <2>1, Zenon
<1>14. CASE Next
  BY <1>5, <1>6, <1>7, <1>8, <1>9, <1>10, <1>11, <1>13, <1>14, Zenon DEF Next
<1> QED BY <1>13, <1>14

\* With no setup in progress and one removal, restoration or purge at a time,
\* interrupted and repeated at any step and amid any reauthentications and
\* launches, the directory of a managed profile is where its quarantine says.
\* profile/lifecycle.go:62.
THEOREM DirectoriesFollow ==
  ASSUME MaxSetups = 0, MaxRemovals <= 1
  PROVE  Spec => []HomeFollowsProfile
<1>1. Init => MoveInv BY InitiallyInPlace
<1>2. MoveInv /\ [Next]_vars => MoveInv' BY RequestAssumption, NextMoves
<1>3. MoveInv => HomeFollowsProfile
  <2> SUFFICES ASSUME MoveInv, NEW p \in Profiles, profile[p].home = "managed"
               PROVE  LET at == {d \in Places : home[p][d] = "identity"}
                      IN  /\ quarantine[p].state = "none" => at = {"managed"}
                          /\ quarantine[p].state = "prepared" => Cardinality(at) = 1
    BY Zenon DEF HomeFollowsProfile
  <2> DEFINE at == {d \in Places : home[p][d] = "identity"}
  <2>1. HomesOK /\ Settled(p) BY Apart, Zenon DEF MoveInv, HomesSettled
  <2>2. \A d \in Places : Has(p, d) <=> d \in at
    BY <2>1, SMT DEF HomesOK, Settled, Has, Contents
  <2>3. Places = {"managed", "quarantine"} /\ at \subseteq Places BY DEF Places
  <2> HIDE DEF at
  <2>4. ASSUME quarantine[p].state = "none" PROVE at = {"managed"}
    <3>1. "managed" \in at /\ "quarantine" \notin at
      BY <2>1, <2>2, <2>3, <2>4, Zenon DEF Settled, InPlace
    <3> QED BY <2>3, <3>1, Zenon
  <2>5. ASSUME quarantine[p].state = "prepared" PROVE Cardinality(at) = 1
    <3>1. "managed" \in at <=> "quarantine" \notin at
      BY <2>1, <2>2, <2>3, <2>5, Zenon DEF Settled
    <3>2. at = {"managed"} \/ at = {"quarantine"} BY <2>3, <3>1, Zenon
    <3> QED BY <3>2, FS_Singleton, Zenon
  <2> QED BY <2>4, <2>5, Zenon DEF at
<1> QED BY <1>1, <1>2, <1>3, PTL DEF Spec
==============================================================================

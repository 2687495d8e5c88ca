----------------------- MODULE SafeContinuation_proofs ------------------------
(***************************************************************************)
(* Safe Continuation: first the transactions of the store, then the        *)
(* journeys and processes that use it.                                     *)
(***************************************************************************)
EXTENDS SafeContinuation, TLAPS

-----------------------------------------------------------------------------
(***************************************************************************)
(* Every transaction of the store preserves the row types and StoreInv,    *)
(* for any set of checkpoints and any number of leases.                    *)
(***************************************************************************)

\* What StoreInv and the row types speak about is unchanged.
LEMMA UnchangedStore ==
  ASSUME StoreTypeOK, StoreInv, UNCHANGED storeVars
  PROVE  StoreTypeOK' /\ StoreInv'
BY DEF StoreTypeOK, StoreInv, storeVars, LaunchRowsOK, ClaimsExclusive,
       ApprovedContentKept, StartedIsSpent, HandedOffOnce, OneHandoffPerProject

\* The first states of the store.
LEMMA InitialStore ==
  ASSUME StoreInit
  PROVE  StoreTypeOK /\ StoreInv
<1>1. /\ AbsentCheckpoint \in CheckpointRow
      /\ BlankLaunch \in LaunchRow
  BY DEF AbsentCheckpoint, CheckpointRow, BlankLaunch, LaunchRow
<1>2. StoreTypeOK
  BY <1>1 DEF StoreInit, StoreTypeOK
<1>3. /\ \A l \in Leases : /\ launch[l].state = "unused"
                           /\ launch[l].cp = None
                           /\ ~launch[l].pid
      /\ \A c \in Checkpoints : checkpoint[c].status = "absent"
  BY DEF StoreInit, BlankLaunch, AbsentCheckpoint
<1>4. StoreInv
  BY <1>3 DEF StoreInv, LaunchRowsOK, ClaimsExclusive, ApprovedContentKept,
              StartedIsSpent, HandedOffOnce, OneHandoffPerProject, OpenStates
<1> QED BY <1>2, <1>4

\* PrepareLaunch: a lease without a checkpoint touches no claim.
LEMMA PrepareLaunchKeepsStore ==
  ASSUME StoreTypeOK, StoreInv,
         NEW l \in Leases, NEW p \in Profiles, NEW j \in Projects,
         PrepareLaunch(l, p, j)
  PROVE  StoreTypeOK' /\ StoreInv'
<1> DEFINE row == [BlankLaunch EXCEPT !.state = "pending", !.profile = p,
                     !.project = j, !.cp = None, !.rev = None, !.boot = None]
<1>1. /\ launch' = [launch EXCEPT ![l] = row]
      /\ UNCHANGED <<checkpoint, clock>>
      /\ launch[l].state = "unused"
  BY DEF PrepareLaunch, InsertPending, IsNextLease
<1>2. /\ row \in LaunchRow
      /\ row.state = "pending" /\ row.cp = None /\ ~row.pid
  BY DEF BlankLaunch, LaunchRow, OpenStates
<1>3. StoreTypeOK'
  BY <1>1, <1>2 DEF StoreTypeOK
<1>4. /\ launch'[l] = row
      /\ \A k \in Leases : k # l => launch'[k] = launch[k]
  BY <1>1 DEF StoreTypeOK
<1>5. LaunchRowsOK' /\ StartedIsSpent' /\ HandedOffOnce' /\ ApprovedContentKept'
  BY <1>1, <1>2, <1>4 DEF StoreInv, LaunchRowsOK, StartedIsSpent, HandedOffOnce,
                          ApprovedContentKept
<1>6. ClaimsExclusive'
  BY <1>1, <1>2, <1>4 DEF StoreInv, ClaimsExclusive
<1>7. OneHandoffPerProject'
  BY <1>1 DEF StoreInv, OneHandoffPerProject
<1> QED BY <1>3, <1>5, <1>6, <1>7 DEF StoreInv

\* PrepareLaunch with a checkpoint: the approved checkpoint nobody holds
\* becomes the claim of the new lease.
LEMMA ClaimKeepsStore ==
  ASSUME StoreTypeOK, StoreInv,
         NEW l \in Leases, NEW p \in Profiles, NEW c \in Checkpoints,
         NEW r \in Revisions, NEW s \in Profiles, NEW b \in Nat,
         PrepareHandoffLaunch(l, p, c, r, s, b)
  PROVE  StoreTypeOK' /\ StoreInv'
<1> DEFINE row == [BlankLaunch EXCEPT !.state = "pending", !.profile = p,
                     !.project = checkpoint[c].project, !.cp = c, !.rev = r,
                     !.boot = b]
<1>1. /\ launch' = [launch EXCEPT ![l] = row]
      /\ checkpoint' = [checkpoint EXCEPT ![c].status = "launching"]
      /\ UNCHANGED clock
      /\ launch[l].state = "unused"
      /\ checkpoint[c].status = "approved"
      /\ checkpoint[c].meta = "approved"
      /\ checkpoint[c].rev = r
  BY DEF PrepareHandoffLaunch, InsertPending, IsNextLease, ReadyForHandoff
<1>2. /\ row \in LaunchRow
      /\ row.state = "pending" /\ row.cp = c /\ ~row.pid /\ row.rev = r
      /\ row.project = checkpoint[c].project
  BY DEF BlankLaunch, LaunchRow, OpenStates, StoreTypeOK, CheckpointRow
<1>3. StoreTypeOK'
  BY <1>1, <1>2 DEF StoreTypeOK, CheckpointRow
<1> HIDE DEF row
<1>4. /\ launch'[l] = row
      /\ \A k \in Leases : k # l => launch'[k] = launch[k]
      /\ checkpoint'[c] = [checkpoint[c] EXCEPT !.status = "launching"]
      /\ \A d \in Checkpoints : d # c => checkpoint'[d] = checkpoint[d]
  BY <1>1 DEF StoreTypeOK
<1>5. /\ checkpoint'[c].status = "launching"
      /\ checkpoint'[c].rev = r
      /\ checkpoint'[c].meta = "approved"
      /\ checkpoint'[c].project = checkpoint[c].project
  BY <1>1, <1>4 DEF StoreTypeOK, CheckpointRow
<1>6. /\ c # None
      /\ \A k \in Leases : launch[k].cp \in Checkpoints \cup {None}
  BY StoreAssumption DEF StoreTypeOK, LaunchRow
\* No open or started lease refers to c: it was approved.
<1>7. \A k \in Leases : launch[k].cp = c => /\ launch[k].state \notin OpenStates
                                            /\ ~launch[k].pid
  BY <1>1, <1>6 DEF StoreInv, ClaimsExclusive, StartedIsSpent, LaunchRowsOK, OpenStates
<1>8. LaunchRowsOK'
  BY <1>2, <1>4 DEF StoreInv, LaunchRowsOK
<1>9. ClaimsExclusive'
  <2>1. ASSUME NEW k \in Leases, launch'[k].state = "pending", launch'[k].cp # None
        PROVE  checkpoint'[launch'[k].cp].status = "launching"
    <3>1. CASE k = l
      BY <3>1, <1>2, <1>4, <1>5
    <3>2. CASE k # l
      <4>1. launch[k].state = "pending" /\ launch[k].cp # c /\ launch[k].cp \in Checkpoints
        BY <2>1, <3>2, <1>4, <1>6, <1>7 DEF OpenStates
      <4> QED BY <2>1, <3>2, <4>1, <1>4 DEF StoreInv, ClaimsExclusive
    <3> QED BY <3>1, <3>2
  <2>2. ASSUME NEW k \in Leases, NEW m \in Leases,
               launch'[k].state = "pending", launch'[m].state = "pending",
               launch'[k].cp # None, launch'[k].cp = launch'[m].cp
        PROVE  k = m
    <3>1. CASE k = l
      BY <2>2, <3>1, <1>2, <1>4, <1>7 DEF OpenStates
    <3>2. CASE m = l
      BY <2>2, <3>2, <1>2, <1>4, <1>7 DEF OpenStates
    <3>3. CASE k # l /\ m # l
      BY <2>2, <3>3, <1>4 DEF StoreInv, ClaimsExclusive
    <3> QED BY <3>1, <3>2, <3>3
  <2>3. ASSUME NEW d \in Checkpoints, checkpoint'[d].status = "launching"
        PROVE  \E k \in Leases : launch'[k].state = "pending" /\ launch'[k].cp = d
    <3>1. CASE d = c
      BY <3>1, <1>2, <1>4
    <3>2. CASE d # c
      <4>1. PICK k \in Leases : launch[k].state = "pending" /\ launch[k].cp = d
        BY <2>3, <3>2, <1>4 DEF StoreInv, ClaimsExclusive
      <4> QED BY <4>1, <1>1, <1>4
    <3> QED BY <3>1, <3>2
  <2> QED BY <2>1, <2>2, <2>3 DEF ClaimsExclusive
<1>10. ApprovedContentKept'
  <2> SUFFICES ASSUME NEW k \in Leases,
                      launch'[k].state \in OpenStates, launch'[k].cp # None
               PROVE  LET new == checkpoint'[launch'[k].cp] IN
                      /\ new.rev = launch'[k].rev
                      /\ new.project = launch'[k].project
                      /\ launch'[k].state = "pending" => new.meta = "approved"
                      /\ launch'[k].state = "running" =>
                            new.status \in {"completed", "expired"}
    BY DEF ApprovedContentKept
  <2>1. CASE k = l
    BY <2>1, <1>2, <1>4, <1>5
  <2>2. CASE k # l
    <3>1. launch'[k] = launch[k] /\ checkpoint'[launch[k].cp] = checkpoint[launch[k].cp]
      BY <2>2, <1>4, <1>6, <1>7
    <3> QED BY <3>1 DEF StoreInv, ApprovedContentKept
  <2> QED BY <2>1, <2>2
<1>11. StartedIsSpent' /\ HandedOffOnce'
  <2>1. \A k \in Leases : launch'[k].pid => k # l /\ launch'[k] = launch[k]
    BY <1>2, <1>4
  <2>2. \A k \in Leases : launch'[k].pid /\ launch'[k].cp # None =>
                           checkpoint'[launch'[k].cp] = checkpoint[launch[k].cp]
    BY <2>1, <1>4, <1>6, <1>7
  <2> QED BY <2>1, <2>2 DEF StoreInv, StartedIsSpent, HandedOffOnce
\* The definitive source leaves no pending lease in the project of c.
<1>12. OneHandoffPerProject'
  <2>1. ASSUME NEW d \in Checkpoints, checkpoint[d].status = "launching"
        PROVE  checkpoint[d].project # checkpoint[c].project
    <3>1. PICK k \in Leases : launch[k].state = "pending" /\ launch[k].cp = d
      BY <2>1 DEF StoreInv, ClaimsExclusive
    <3>2. launch[k].project = checkpoint[d].project
      BY <3>1, <2>1, StoreAssumption DEF StoreInv, ApprovedContentKept, OpenStates
    <3>3. Unresolved(checkpoint[c].project) = {}
      BY DEF PrepareHandoffLaunch, DefinitiveSource
    <3> QED BY <3>1, <3>2, <3>3 DEF Unresolved, SourceRows, OpenStates
  <2>2. \A d \in Checkpoints : d # c => checkpoint'[d] = checkpoint[d]
    BY <1>4
  <2> QED BY <2>1, <2>2, <1>5 DEF StoreInv, OneHandoffPerProject
<1> QED BY <1>3, <1>8, <1>9, <1>10, <1>11, <1>12 DEF StoreInv

\* MarkManagedLaunchStarted turns the claim of a pending lease into a
\* completed checkpoint.
LEMMA MarkStartedKeepsStore ==
  ASSUME StoreTypeOK, StoreInv, NEW l \in Leases, MarkStarted(l)
  PROVE  StoreTypeOK' /\ StoreInv'
<1> DEFINE c == launch[l].cp
<1>1. /\ launch[l].state = "pending"
      /\ c # None => checkpoint[c].status = "launching"
      /\ launch' = [launch EXCEPT ![l].state = "running", ![l].pid = TRUE]
      /\ c # None => checkpoint' = [checkpoint EXCEPT ![c].status = "completed"]
      /\ c = None => checkpoint' = checkpoint
      /\ UNCHANGED clock
  BY DEF MarkStarted
<1>2. \A k \in Leases : launch[k].cp \in Checkpoints \cup {None}
  BY DEF StoreTypeOK, LaunchRow
<1>3. /\ launch'[l] = [launch[l] EXCEPT !.state = "running", !.pid = TRUE]
      /\ \A k \in Leases : k # l => launch'[k] = launch[k]
      /\ c # None => checkpoint'[c] = [checkpoint[c] EXCEPT !.status = "completed"]
      /\ \A d \in Checkpoints : d # c => checkpoint'[d] = checkpoint[d]
  BY <1>1, <1>2 DEF StoreTypeOK
<1>4. /\ launch'[l].state = "running"
      /\ launch'[l].pid
      /\ launch'[l].cp = c
      /\ launch'[l].rev = launch[l].rev
      /\ launch'[l].project = launch[l].project
  BY <1>3 DEF StoreTypeOK, LaunchRow
<1>5. c # None => /\ checkpoint'[c].status = "completed"
                  /\ checkpoint'[c].rev = checkpoint[c].rev
                  /\ checkpoint'[c].project = checkpoint[c].project
  BY <1>2, <1>3 DEF StoreTypeOK, CheckpointRow
<1>6. StoreTypeOK'
  <2>1. launch'[l] \in LaunchRow
    BY <1>3 DEF StoreTypeOK, LaunchRow, OpenStates
  <2>2. launch' \in [Leases -> LaunchRow]
    BY <1>1, <2>1 DEF StoreTypeOK
  <2>3. checkpoint' \in [Checkpoints -> CheckpointRow]
    BY <1>1, <1>2 DEF StoreTypeOK, CheckpointRow
  <2> QED BY <1>1, <2>2, <2>3 DEF StoreTypeOK
\* No other lease is open on c, and none was ever started for it.
<1>7. \A k \in Leases : k # l /\ launch[k].cp = c /\ c # None =>
                           /\ launch[k].state \notin OpenStates
                           /\ ~launch[k].pid
  BY <1>1, <1>2 DEF StoreInv, ClaimsExclusive, StartedIsSpent, LaunchRowsOK, OpenStates
<1>8. LaunchRowsOK'
  BY <1>3, <1>4 DEF StoreInv, LaunchRowsOK
<1> HIDE DEF c
<1>9. ClaimsExclusive'
  <2>1. ASSUME NEW k \in Leases, launch'[k].state = "pending", launch'[k].cp # None
        PROVE  checkpoint'[launch'[k].cp].status = "launching"
    <3>1. /\ k # l
          /\ launch'[k] = launch[k]
          /\ launch[k].cp \in Checkpoints
          /\ launch[k].cp # c
      BY <2>1, <1>2, <1>3, <1>4, <1>7 DEF OpenStates
    <3> QED BY <2>1, <3>1, <1>3 DEF StoreInv, ClaimsExclusive
  <2>2. ASSUME NEW k \in Leases, NEW m \in Leases,
               launch'[k].state = "pending", launch'[m].state = "pending",
               launch'[k].cp # None, launch'[k].cp = launch'[m].cp
        PROVE  k = m
    <3>1. launch'[k] = launch[k] /\ launch'[m] = launch[m]
      BY <2>2, <1>3, <1>4
    <3> QED BY <2>2, <3>1 DEF StoreInv, ClaimsExclusive
  <2>3. ASSUME NEW d \in Checkpoints, checkpoint'[d].status = "launching"
        PROVE  \E k \in Leases : launch'[k].state = "pending" /\ launch'[k].cp = d
    <3>1. d # c
      BY <2>3, <1>5, StoreAssumption
    <3>2. PICK k \in Leases : launch[k].state = "pending" /\ launch[k].cp = d
      BY <2>3, <3>1, <1>3 DEF StoreInv, ClaimsExclusive
    <3>3. k # l
      BY <3>1, <3>2 DEF c
    <3> QED BY <3>2, <3>3, <1>3
  <2> QED BY <2>1, <2>2, <2>3 DEF ClaimsExclusive
<1>10. ApprovedContentKept'
  <2> SUFFICES ASSUME NEW k \in Leases,
                      launch'[k].state \in OpenStates, launch'[k].cp # None
               PROVE  LET new == checkpoint'[launch'[k].cp] IN
                      /\ new.rev = launch'[k].rev
                      /\ new.project = launch'[k].project
                      /\ launch'[k].state = "pending" => new.meta = "approved"
                      /\ launch'[k].state = "running" =>
                            new.status \in {"completed", "expired"}
    BY DEF ApprovedContentKept
  <2>1. CASE k = l
    <3>1. /\ c # None
          /\ checkpoint[c].rev = launch[l].rev
          /\ checkpoint[c].project = launch[l].project
      BY <2>1, <1>1, <1>4 DEF c, StoreInv, ApprovedContentKept, OpenStates
    <3> QED BY <2>1, <3>1, <1>4, <1>5
  <2>2. CASE k # l
    <3>1. /\ launch'[k] = launch[k]
          /\ launch[k].cp # c
          /\ launch[k].cp \in Checkpoints
      BY <2>2, <1>2, <1>3, <1>7
    <3>2. checkpoint'[launch[k].cp] = checkpoint[launch[k].cp]
      BY <3>1, <1>3
    <3> QED BY <3>1, <3>2 DEF StoreInv, ApprovedContentKept
  <2> QED BY <2>1, <2>2
<1>11. StartedIsSpent'
  <2> SUFFICES ASSUME NEW k \in Leases, launch'[k].pid, launch'[k].cp # None
               PROVE  checkpoint'[launch'[k].cp].status \in {"completed", "expired"}
    BY DEF StartedIsSpent
  <2>1. CASE k = l
    BY <2>1, <1>4, <1>5
  <2>2. CASE k # l
    <3>1. /\ launch'[k] = launch[k]
          /\ launch[k].cp # c
          /\ launch[k].cp \in Checkpoints
      BY <2>2, <1>2, <1>3, <1>7
    <3> QED BY <3>1, <1>3 DEF StoreInv, StartedIsSpent
  <2> QED BY <2>1, <2>2
<1>12. HandedOffOnce'
  <2> SUFFICES ASSUME NEW k \in Leases, NEW m \in Leases,
                      launch'[k].cp = launch'[m].cp, launch'[k].cp # None,
                      launch'[k].pid, launch'[m].pid
               PROVE  k = m
    BY DEF HandedOffOnce
  <2>1. CASE k # l /\ m # l
    BY <2>1, <1>3 DEF StoreInv, HandedOffOnce
  <2>2. CASE k = l
    BY <2>2, <1>3, <1>4, <1>7
  <2>3. CASE m = l
    BY <2>3, <1>3, <1>4, <1>7
  <2> QED BY <2>1, <2>2, <2>3
<1>13. OneHandoffPerProject'
  <2>1. \A d \in Checkpoints : checkpoint'[d].status = "launching" =>
                                d # c /\ checkpoint'[d] = checkpoint[d]
    BY <1>3, <1>5, StoreAssumption
  <2> QED BY <2>1 DEF StoreInv, OneHandoffPerProject
<1> QED BY <1>6, <1>8, <1>9, <1>10, <1>11, <1>12, <1>13 DEF StoreInv

\* MarkManagedLaunchExited settles a running lease, whose checkpoint is spent.
LEMMA MarkExitedKeepsStore ==
  ASSUME StoreTypeOK, StoreInv, NEW l \in Leases, NEW t \in Nat, MarkExited(l, t)
  PROVE  StoreTypeOK' /\ StoreInv'
<1>1. /\ launch[l].state = "running"
      /\ launch' = [launch EXCEPT ![l].state = "exited", ![l].ended = t]
      /\ checkpoint' = checkpoint
      /\ clock' = clock
  BY DEF MarkExited
<1>2. /\ launch'[l] = [launch[l] EXCEPT !.state = "exited", !.ended = t]
      /\ \A k \in Leases : k # l => launch'[k] = launch[k]
  BY <1>1 DEF StoreTypeOK
<1>3. launch'[l] \in LaunchRow
  BY <1>2 DEF StoreTypeOK, LaunchRow, SettledStates
<1>4. StoreTypeOK'
  BY <1>1, <1>3 DEF StoreTypeOK
<1>5. \A k \in Leases :
        /\ launch'[k].cp = launch[k].cp
        /\ launch'[k].pid = launch[k].pid
        /\ launch'[k].rev = launch[k].rev
        /\ launch'[k].project = launch[k].project
        /\ launch'[k].state = "exited" \/ launch'[k].state = launch[k].state
  <2>1. ASSUME NEW k \in Leases
        PROVE  /\ launch'[k].cp = launch[k].cp
               /\ launch'[k].pid = launch[k].pid
               /\ launch'[k].rev = launch[k].rev
               /\ launch'[k].project = launch[k].project
               /\ launch'[k].state = "exited" \/ launch'[k].state = launch[k].state
    <3>1. CASE k = l
      <4>1. launch[l] \in LaunchRow
        BY DEF StoreTypeOK
      <4> HIDE <1>1
      <4> QED BY <3>1, <4>1, <1>2 DEF LaunchRow
    <3>2. CASE k # l
      BY <3>2, <2>1, <1>2
    <3> QED BY <3>1, <3>2
  <2> QED BY <2>1
<1>6. launch[l].pid /\ launch'[l].state = "exited"
  BY <1>1, <1>2 DEF StoreTypeOK, LaunchRow, StoreInv, LaunchRowsOK
<1>7. LaunchRowsOK'
  BY <1>2, <1>5, <1>6 DEF StoreInv, LaunchRowsOK
<1>8. ClaimsExclusive'
  <2>1. \A k \in Leases : launch'[k].state = "pending" => launch'[k] = launch[k]
    BY <1>2, <1>6
  <2>2. \A k \in Leases : launch[k].state = "pending" => launch'[k] = launch[k]
    BY <1>1, <1>2
  <2>3. ClaimsExclusive
    BY DEF StoreInv
  <2>4. ASSUME NEW c \in Checkpoints, checkpoint'[c].status = "launching"
        PROVE  \E k \in Leases : launch'[k].state = "pending" /\ launch'[k].cp = c
    <3>1. PICK k \in Leases : launch[k].state = "pending" /\ launch[k].cp = c
      BY <2>3, <2>4, <1>1 DEF ClaimsExclusive
    <3> QED BY <3>1, <2>2
  <2>5. ASSUME NEW k \in Leases, launch'[k].state = "pending", launch'[k].cp # None
        PROVE  checkpoint'[launch'[k].cp].status = "launching"
    <3>1. launch'[k] = launch[k] /\ launch[k].state = "pending" /\ launch[k].cp # None
      BY <2>1, <2>5
    <3>2. checkpoint[launch[k].cp].status = "launching"
      BY <2>3, <3>1 DEF ClaimsExclusive
    <3> QED BY <3>1, <3>2, <1>1
  <2>6. ASSUME NEW k \in Leases, NEW m \in Leases,
               launch'[k].state = "pending", launch'[m].state = "pending",
               launch'[k].cp # None, launch'[k].cp = launch'[m].cp
        PROVE  k = m
    BY <2>1, <2>3, <2>6 DEF ClaimsExclusive
  <2> QED BY <2>4, <2>5, <2>6 DEF ClaimsExclusive
<1>9. ApprovedContentKept' /\ StartedIsSpent' /\ HandedOffOnce' /\ OneHandoffPerProject'
  <2>1. \A k \in Leases : launch'[k].state \in OpenStates => launch'[k] = launch[k]
    BY <1>2, <1>6 DEF OpenStates
  <2>2. ApprovedContentKept'
    <3>1. ASSUME NEW k \in Leases, launch'[k].state \in OpenStates
          PROVE  launch'[k] = launch[k] /\ launch[k].state \in OpenStates
      BY <2>1, <3>1
    <3>2. ApprovedContentKept
      BY DEF StoreInv
    <3> QED BY <3>1, <3>2, <1>1 DEF ApprovedContentKept
  <2>3. StartedIsSpent' /\ OneHandoffPerProject'
    BY <1>1, <1>5 DEF StoreInv, StartedIsSpent, OneHandoffPerProject
  <2>4. HandedOffOnce'
    BY <1>5 DEF StoreInv, HandedOffOnce
  <2> QED BY <2>2, <2>3, <2>4
<1> QED BY <1>4, <1>7, <1>8, <1>9 DEF StoreInv

\* MarkManagedLaunchAbandoned and ReconcileManagedLaunches: the claims of the
\* abandoned pending leases, and no other, are given back.
LEMMA AbandonKeepsStore ==
  ASSUME StoreTypeOK, StoreInv, NEW S \in SUBSET Leases,
         \A l \in S : launch[l].state \in OpenStates,
         AbandonLeases(S)
  PROVE  StoreTypeOK' /\ StoreInv'
<1>1. /\ \A l \in S : launch'[l] = [launch[l] EXCEPT !.state = "abandoned"]
      /\ \A l \in Leases \ S : launch'[l] = launch[l]
      /\ launch' = [l \in Leases |-> launch'[l]]
      /\ clock' = clock
  BY DEF AbandonLeases
<1>2. \A c \in Checkpoints :
        checkpoint'[c] = IF /\ checkpoint[c].status = "launching"
                            /\ \E l \in S : launch[l].cp = c
                         THEN [checkpoint[c] EXCEPT !.status = "approved"]
                         ELSE checkpoint[c]
  BY DEF AbandonLeases
<1>3. \A l \in Leases : /\ launch'[l] \in LaunchRow
                        /\ launch'[l].cp = launch[l].cp
                        /\ launch'[l].pid = launch[l].pid
                        /\ launch'[l].rev = launch[l].rev
                        /\ launch'[l].project = launch[l].project
                        /\ launch'[l].state = IF l \in S THEN "abandoned"
                                              ELSE launch[l].state
  <2> SUFFICES ASSUME NEW l \in Leases
               PROVE  /\ launch'[l] \in LaunchRow
                      /\ launch'[l].cp = launch[l].cp
                      /\ launch'[l].pid = launch[l].pid
                      /\ launch'[l].rev = launch[l].rev
                      /\ launch'[l].project = launch[l].project
                      /\ launch'[l].state = IF l \in S THEN "abandoned"
                                            ELSE launch[l].state
    OBVIOUS
  <2>1. launch[l] \in LaunchRow
    BY DEF StoreTypeOK
  <2>2. CASE l \in S
    <3>1. launch'[l] = [launch[l] EXCEPT !.state = "abandoned"]
      BY <2>2, <1>1
    <3> HIDE <1>1
    <3> QED BY <2>1, <2>2, <3>1 DEF LaunchRow, SettledStates
  <2>3. CASE l \notin S
    BY <2>1, <2>3, <1>1
  <2> QED BY <2>2, <2>3
<1>4. \A c \in Checkpoints : /\ checkpoint'[c] \in CheckpointRow
                             /\ checkpoint'[c].rev = checkpoint[c].rev
                             /\ checkpoint'[c].meta = checkpoint[c].meta
                             /\ checkpoint'[c].project = checkpoint[c].project
                             /\ checkpoint'[c].status =
                                  IF /\ checkpoint[c].status = "launching"
                                     /\ \E l \in S : launch[l].cp = c
                                  THEN "approved" ELSE checkpoint[c].status
  <2> SUFFICES ASSUME NEW c \in Checkpoints
               PROVE  /\ checkpoint'[c] \in CheckpointRow
                      /\ checkpoint'[c].rev = checkpoint[c].rev
                      /\ checkpoint'[c].meta = checkpoint[c].meta
                      /\ checkpoint'[c].project = checkpoint[c].project
                      /\ checkpoint'[c].status =
                           IF /\ checkpoint[c].status = "launching"
                              /\ \E l \in S : launch[l].cp = c
                           THEN "approved" ELSE checkpoint[c].status
    OBVIOUS
  <2>1. checkpoint[c] \in CheckpointRow
    BY DEF StoreTypeOK
  <2>2. CASE checkpoint[c].status = "launching" /\ \E l \in S : launch[l].cp = c
    BY <2>1, <2>2, <1>2 DEF CheckpointRow
  <2>3. CASE ~(checkpoint[c].status = "launching" /\ \E l \in S : launch[l].cp = c)
    <3>1. checkpoint'[c] = checkpoint[c]
      BY <2>3, <1>2
    <3> QED BY <2>1, <2>3, <3>1
  <2> QED BY <2>2, <2>3
<1>5. StoreTypeOK'
  <2>1. launch' \in [Leases -> LaunchRow]
    BY <1>1, <1>3
  <2>2. checkpoint' \in [Checkpoints -> CheckpointRow]
    BY <1>4 DEF AbandonLeases
  <2> QED BY <2>1, <2>2, <1>1 DEF StoreTypeOK
\* A pending lease that is not abandoned keeps its claim.
<1>6. \A l \in Leases \ S :
        launch[l].state = "pending" /\ launch[l].cp # None =>
           ~\E k \in S : launch[k].cp = launch[l].cp
  <2> SUFFICES ASSUME NEW l \in Leases \ S, NEW k \in S, launch[l].state = "pending",
                      launch[l].cp # None, launch[k].cp = launch[l].cp
               PROVE  FALSE
    OBVIOUS
  <2>1. checkpoint[launch[l].cp].status = "launching"
    BY DEF StoreInv, ClaimsExclusive
  <2>2. launch[k].state # "running"
    BY <2>1 DEF StoreInv, ApprovedContentKept, OpenStates
  <2>3. launch[k].state = "pending"
    BY <2>2 DEF OpenStates
  <2> QED BY <2>3 DEF StoreInv, ClaimsExclusive
<1>7. \A l \in Leases : launch[l].cp \in Checkpoints \cup {None}
  BY DEF StoreTypeOK, LaunchRow
<1>8. LaunchRowsOK'
  BY <1>3 DEF StoreInv, LaunchRowsOK
<1>9. ClaimsExclusive'
  <2>1. ASSUME NEW l \in Leases, launch'[l].state = "pending", launch'[l].cp # None
        PROVE  checkpoint'[launch'[l].cp].status = "launching"
    <3>1. l \notin S /\ launch[l].state = "pending" /\ launch[l].cp \in Checkpoints
      BY <2>1, <1>3, <1>7
    <3>2. checkpoint[launch[l].cp].status = "launching"
      BY <2>1, <3>1, <1>3 DEF StoreInv, ClaimsExclusive
    <3> QED BY <2>1, <3>1, <3>2, <1>3, <1>4, <1>6
  <2>2. ASSUME NEW l \in Leases, NEW k \in Leases,
               launch'[l].state = "pending", launch'[k].state = "pending",
               launch'[l].cp # None, launch'[l].cp = launch'[k].cp
        PROVE  l = k
    BY <2>2, <1>3 DEF StoreInv, ClaimsExclusive
  <2>3. ASSUME NEW c \in Checkpoints, checkpoint'[c].status = "launching"
        PROVE  \E l \in Leases : launch'[l].state = "pending" /\ launch'[l].cp = c
    <3>1. checkpoint[c].status = "launching" /\ ~\E l \in S : launch[l].cp = c
      BY <2>3, <1>4
    <3>2. PICK l \in Leases : launch[l].state = "pending" /\ launch[l].cp = c
      BY <3>1 DEF StoreInv, ClaimsExclusive
    <3> QED BY <3>1, <3>2, <1>3
  <2> QED BY <2>1, <2>2, <2>3 DEF ClaimsExclusive
<1>10. ApprovedContentKept'
  <2> SUFFICES ASSUME NEW l \in Leases,
                      launch'[l].state \in OpenStates, launch'[l].cp # None
               PROVE  LET new == checkpoint'[launch'[l].cp] IN
                      /\ new.rev = launch'[l].rev
                      /\ new.project = launch'[l].project
                      /\ launch'[l].state = "pending" => new.meta = "approved"
                      /\ launch'[l].state = "running" =>
                            new.status \in {"completed", "expired"}
    BY DEF ApprovedContentKept
  <2>1. l \notin S /\ launch[l].state = launch'[l].state
    BY <1>3 DEF OpenStates
  <2>2. launch[l].cp \in Checkpoints /\ launch[l].cp # None
    BY <1>3, <1>7
  <2>3. LET row == checkpoint[launch[l].cp] IN
        /\ row.rev = launch[l].rev
        /\ row.project = launch[l].project
        /\ launch[l].state = "pending" => row.meta = "approved"
        /\ launch[l].state = "running" => row.status \in {"completed", "expired"}
    BY <2>1, <2>2 DEF StoreInv, ApprovedContentKept
  <2> QED BY <2>1, <2>2, <2>3, <1>3, <1>4
<1>11. StartedIsSpent' /\ HandedOffOnce'
  <2>1. HandedOffOnce'
    BY <1>3 DEF StoreInv, HandedOffOnce
  <2>2. StartedIsSpent'
    BY <1>3, <1>4, <1>7 DEF StoreInv, StartedIsSpent
  <2> QED BY <2>1, <2>2
<1>12. OneHandoffPerProject'
  BY <1>4 DEF StoreInv, OneHandoffPerProject
<1> QED BY <1>5, <1>8, <1>9, <1>10, <1>11, <1>12 DEF StoreInv

\* Capture inserts a draft nothing refers to.
LEMMA InsertCheckpointKeepsStore ==
  ASSUME StoreTypeOK, StoreInv, NEW c \in Checkpoints, NEW row \in CheckpointRow,
         row.status = "draft",
         InsertCheckpoint(c, row)
  PROVE  StoreTypeOK' /\ StoreInv'
<1>1. /\ checkpoint[c].status = "absent"
      /\ checkpoint' = [checkpoint EXCEPT ![c] = row]
      /\ launch' = launch
      /\ clock' = clock
  BY DEF InsertCheckpoint
<1>2. /\ checkpoint'[c] = row
      /\ \A d \in Checkpoints : d # c => checkpoint'[d] = checkpoint[d]
      /\ \A l \in Leases : launch[l].cp \in Checkpoints \cup {None}
  BY <1>1 DEF StoreTypeOK, LaunchRow
<1>3. StoreTypeOK'
  BY <1>1 DEF StoreTypeOK
<1>4. \A l \in Leases :
        launch[l].cp # None /\ (launch[l].state \in OpenStates \/ launch[l].pid) =>
           launch[l].cp # c
  BY <1>1 DEF StoreInv, ClaimsExclusive, StartedIsSpent, LaunchRowsOK, OpenStates
<1>5. LaunchRowsOK' /\ HandedOffOnce'
  BY <1>1 DEF StoreInv, LaunchRowsOK, HandedOffOnce
<1>6. ClaimsExclusive'
  BY <1>1, <1>2, <1>4 DEF StoreInv, ClaimsExclusive, OpenStates
<1>7. ApprovedContentKept'
  BY <1>1, <1>2, <1>4 DEF StoreInv, ApprovedContentKept
<1>8. StartedIsSpent' /\ OneHandoffPerProject'
  BY <1>1, <1>2, <1>4 DEF StoreInv, StartedIsSpent, OneHandoffPerProject
<1> QED BY <1>3, <1>5, <1>6, <1>7, <1>8 DEF StoreInv

\* A compare-and-swap on a row that is not launching: an editable row gets any
\* content, a spent one only becomes expired.
LEMMA SaveKeepsStore ==
  ASSUME StoreTypeOK, StoreInv, NEW c \in Checkpoints,
         NEW seen \in CheckpointRow, NEW row \in CheckpointRow,
         seen.status # "launching",
         row.status # "launching",
         \/ seen.status \notin {"completed", "expired"}
         \/ /\ row.status = "expired"
            /\ row.rev = seen.rev
            /\ row.project = checkpoint[c].project,
         SaveCheckpoint(c, seen, row)
  PROVE  StoreTypeOK' /\ StoreInv'
<1>1. /\ checkpoint[c].status = seen.status
      /\ checkpoint[c].rev = seen.rev
      /\ checkpoint' = [checkpoint EXCEPT ![c] = row]
      /\ launch' = launch
      /\ clock' = clock
  BY DEF SaveCheckpoint
<1>2. /\ checkpoint'[c] = row
      /\ \A d \in Checkpoints : d # c => checkpoint'[d] = checkpoint[d]
      /\ \A l \in Leases : launch[l].cp \in Checkpoints \cup {None}
  BY <1>1 DEF StoreTypeOK, LaunchRow
<1>3. StoreTypeOK'
  BY <1>1 DEF StoreTypeOK
<1>4. \A l \in Leases :
        launch[l].cp # None /\ launch[l].state = "pending" => launch[l].cp # c
  BY <1>1 DEF StoreInv, ClaimsExclusive
<1>5. \A l \in Leases :
        launch[l].cp = c /\ launch[l].cp # None
        /\ (launch[l].state \in OpenStates \/ launch[l].pid) =>
           /\ seen.status \in {"completed", "expired"}
           /\ launch[l].state # "pending"
           /\ launch[l].pid
  BY <1>1, <1>4 DEF StoreInv, StartedIsSpent, LaunchRowsOK, OpenStates
<1>6. LaunchRowsOK' /\ HandedOffOnce'
  BY <1>1 DEF StoreInv, LaunchRowsOK, HandedOffOnce
<1>7. ClaimsExclusive'
  BY <1>1, <1>2, <1>4 DEF StoreInv, ClaimsExclusive
<1>8. ApprovedContentKept'
  <2> SUFFICES ASSUME NEW l \in Leases,
                      launch[l].state \in OpenStates, launch[l].cp # None
               PROVE  LET new == checkpoint'[launch[l].cp] IN
                      /\ new.rev = launch[l].rev
                      /\ new.project = launch[l].project
                      /\ launch[l].state = "pending" => new.meta = "approved"
                      /\ launch[l].state = "running" =>
                            new.status \in {"completed", "expired"}
    BY <1>1 DEF ApprovedContentKept
  <2>1. CASE launch[l].cp = c
    <3>1. /\ row.status = "expired"
          /\ row.rev = checkpoint[c].rev
          /\ row.project = checkpoint[c].project
          /\ launch[l].state # "pending"
      BY <2>1, <1>1, <1>5
    <3> QED BY <2>1, <3>1, <1>2 DEF StoreInv, ApprovedContentKept
  <2>2. CASE launch[l].cp # c
    BY <2>2, <1>2 DEF StoreInv, ApprovedContentKept
  <2> QED BY <2>1, <2>2
<1>9. StartedIsSpent'
  <2> SUFFICES ASSUME NEW l \in Leases, launch[l].pid, launch[l].cp # None
               PROVE  checkpoint'[launch[l].cp].status \in {"completed", "expired"}
    BY <1>1 DEF StartedIsSpent
  <2>1. CASE launch[l].cp = c
    BY <2>1, <1>1, <1>2, <1>5
  <2>2. CASE launch[l].cp # c
    BY <2>2, <1>2 DEF StoreInv, StartedIsSpent
  <2> QED BY <2>1, <2>2
<1>10. OneHandoffPerProject'
  BY <1>2 DEF StoreInv, OneHandoffPerProject
<1> QED BY <1>3, <1>6, <1>7, <1>8, <1>9, <1>10 DEF StoreInv

\* PurgeCheckpoint, PurgeAnalytics and RetainAnalytics: settled launches and
\* unclaimed checkpoints without an open lease disappear.
LEMMA DeleteKeepsStore ==
  ASSUME StoreTypeOK, StoreInv,
         NEW L \in SUBSET SettledLeases, NEW C \in SUBSET Checkpoints,
         \A c \in C : checkpoint[c].status # "launching" /\ NoOpenLease(c),
         DeleteRows(L, C)
  PROVE  StoreTypeOK' /\ StoreInv'
<1> DEFINE gone == [BlankLaunch EXCEPT !.state = "deleted"]
           purged(c) == [AbsentCheckpoint EXCEPT !.status = "purged",
                           !.project = checkpoint[c].project]
<1>1. /\ gone \in LaunchRow
      /\ gone.state = "deleted" /\ gone.cp = None /\ ~gone.pid
  BY DEF BlankLaunch, LaunchRow
<1>2. \A c \in Checkpoints : /\ purged(c) \in CheckpointRow
                             /\ purged(c).status = "purged"
                             /\ purged(c).project = checkpoint[c].project
  BY DEF AbsentCheckpoint, CheckpointRow, StoreTypeOK
<1>3. /\ \A l \in Leases :
           launch'[l] = IF l \in L THEN gone
                        ELSE IF launch[l].cp \in C
                        THEN [launch[l] EXCEPT !.cp = None, !.rev = None]
                        ELSE launch[l]
      /\ \A c \in Checkpoints :
           checkpoint'[c] = IF c \in C THEN purged(c) ELSE checkpoint[c]
      /\ launch' = [l \in Leases |-> launch'[l]]
      /\ checkpoint' = [c \in Checkpoints |-> checkpoint'[c]]
      /\ clock' = clock
  BY DEF DeleteRows
<1> HIDE DEF gone, purged
<1>4. \A l \in Leases : launch[l] \in LaunchRow /\ launch[l].cp \in Checkpoints \cup {None}
  BY DEF StoreTypeOK, LaunchRow
\* Each launch is deleted, loses its reference, or stays.
<1>5. \A l \in Leases :
        LET new == launch'[l] IN
        /\ new \in LaunchRow
        /\ \/ l \in L /\ new = gone
           \/ /\ l \notin L
              /\ launch[l].state \notin OpenStates
              /\ new.cp = None
              /\ new.state = launch[l].state
              /\ new.pid = launch[l].pid
           \/ /\ l \notin L
              /\ launch[l].cp \notin C
              /\ new = launch[l]
  <2> SUFFICES ASSUME NEW l \in Leases
               PROVE  LET new == launch'[l] IN
                      /\ new \in LaunchRow
                      /\ \/ l \in L /\ new = gone
                         \/ /\ l \notin L
                            /\ launch[l].state \notin OpenStates
                            /\ new.cp = None
                            /\ new.state = launch[l].state
                            /\ new.pid = launch[l].pid
                         \/ /\ l \notin L
                            /\ launch[l].cp \notin C
                            /\ new = launch[l]
    OBVIOUS
  <2>1. CASE l \in L
    BY <2>1, <1>1, <1>3
  <2>2. CASE l \notin L /\ launch[l].cp \in C
    <3>1. launch[l].state \notin OpenStates
      BY <2>2 DEF NoOpenLease
    <3>2. launch'[l] = [launch[l] EXCEPT !.cp = None, !.rev = None]
      BY <2>2, <1>3
    <3>3. /\ launch'[l] \in LaunchRow
          /\ launch'[l].cp = None
          /\ launch'[l].state = launch[l].state
          /\ launch'[l].pid = launch[l].pid
      BY <3>2, <1>4 DEF LaunchRow
    <3> QED BY <2>2, <3>1, <3>3
  <2>3. CASE l \notin L /\ launch[l].cp \notin C
    BY <2>3, <1>3, <1>4
  <2> QED BY <2>1, <2>2, <2>3
<1>6. StoreTypeOK'
  <2>1. launch' \in [Leases -> LaunchRow]
    BY <1>3, <1>5
  <2>2. \A c \in Checkpoints : checkpoint'[c] \in CheckpointRow
    BY <1>2, <1>3 DEF StoreTypeOK
  <2> QED BY <2>1, <2>2, <1>3 DEF StoreTypeOK
<1>7. LaunchRowsOK'
  BY <1>1, <1>5 DEF StoreInv, LaunchRowsOK, OpenStates
<1>8. \A l \in Leases :
        launch'[l].cp # None => /\ launch'[l] = launch[l]
                                /\ launch[l].cp \in Checkpoints \ C
                                /\ checkpoint'[launch[l].cp] = checkpoint[launch[l].cp]
  BY <1>1, <1>3, <1>4, <1>5
<1>9. \A l \in Leases : launch[l].state = "pending" => launch'[l] = launch[l]
  BY <1>5 DEF SettledLeases, SettledStates, OpenStates
<1>10. ClaimsExclusive'
  <2>1. ClaimsExclusive
    BY DEF StoreInv
  <2>2. ASSUME NEW c \in Checkpoints, checkpoint'[c].status = "launching"
        PROVE  \E l \in Leases : launch'[l].state = "pending" /\ launch'[l].cp = c
    <3>1. c \notin C /\ checkpoint[c].status = "launching"
      BY <2>2, <1>2, <1>3
    <3>2. PICK l \in Leases : launch[l].state = "pending" /\ launch[l].cp = c
      BY <2>1, <3>1 DEF ClaimsExclusive
    <3> QED BY <3>2, <1>9
  <2> QED BY <2>1, <2>2, <1>8 DEF ClaimsExclusive
<1>11. ApprovedContentKept' /\ StartedIsSpent'
  BY <1>8 DEF StoreInv, ApprovedContentKept, StartedIsSpent
<1>12. HandedOffOnce'
  BY <1>8 DEF StoreInv, HandedOffOnce
<1>13. OneHandoffPerProject'
  BY <1>2, <1>3 DEF StoreInv, OneHandoffPerProject
<1> QED BY <1>6, <1>7, <1>10, <1>11, <1>12, <1>13 DEF StoreInv

\* The tables are in step: exactly one pending lease per launching checkpoint.
LEMMA ClaimsExclusiveMatch ==
  ASSUME StoreTypeOK, StoreInv
  PROVE  ClaimMatchesLease
<1> SUFFICES ASSUME NEW c \in Checkpoints
             PROVE  IF checkpoint[c].status = "launching"
                    THEN \E l \in Leases : Holders(c) = {l}
                    ELSE Holders(c) = {}
  BY DEF ClaimMatchesLease
<1>1. c # None
  BY StoreAssumption
<1>2. CASE checkpoint[c].status = "launching"
  <2>1. PICK l \in Leases : launch[l].state = "pending" /\ launch[l].cp = c
    BY <1>2 DEF StoreInv, ClaimsExclusive
  <2>2. Holders(c) = {l}
    BY <2>1, <1>1 DEF Holders, StoreInv, ClaimsExclusive
  <2> QED BY <1>2, <2>2
<1>3. CASE checkpoint[c].status # "launching"
  <2>1. Holders(c) = {}
    BY <1>1, <1>3 DEF Holders, StoreInv, ClaimsExclusive
  <2> QED BY <1>3, <2>1
<1> QED BY <1>2, <1>3

-----------------------------------------------------------------------------
(***************************************************************************)
(* IInv is an inductive invariant of Safe Continuation, for any set of     *)
(* checkpoints, profiles, projects and journeys and any bounds; the safety *)
(* properties of the model follow from it.                                 *)
(***************************************************************************)

LEMMA InitialInvariant == Init => IInv
<1> SUFFICES ASSUME Init PROVE IInv
  OBVIOUS
<1>1. StoreTypeOK /\ StoreInv
  BY InitialStore DEF Init
<1>2. NoReport \in Report /\ NoReport.kind = "none" /\ NoJourney \in Journey
  BY DEF NoReport, Report, NoJourney, Journey
<1>3. TypeOK
  BY <1>1, <1>2 DEF Init, TypeOK, CliStates
<1>4. LoadedRowKept /\ ForegroundOK /\ SettledHasNoChild
  BY <1>2 DEF Init, LoadedRowKept, NoOp, ForegroundOK, SettledHasNoChild
<1> QED BY <1>1, <1>3, <1>4 DEF IInv

\* A loaded row is a checkpoint row.
LEMMA LoadedRowType ==
  ASSUME TypeOK, op.busy
  PROVE  /\ op \in Op
         /\ op.cp \in Checkpoints
         /\ op.seen \in CheckpointRow
         /\ op.at \in Nat
<1>1. op # NoOp
  BY DEF NoOp
<1>2. op \in Op
  BY <1>1 DEF TypeOK
<1> QED BY <1>2 DEF Op

\* A step that leaves the processes and the reports alone keeps what is known
\* of them if each lease keeps its state, or is nobody's any more.
LEMMA ForegroundFrame ==
  ASSUME ForegroundOK, SettledHasNoChild,
         UNCHANGED <<foregroundVars, boot>>,
         \A l \in Leases :
            \/ /\ launch'[l].state = launch[l].state
               /\ launch'[l].boot = launch[l].boot
            \/ /\ l \notin alive
               /\ cli[l] # "planned"
               /\ launch'[l].state # "unused",
         alive \subseteq Leases
  PROVE  ForegroundOK' /\ SettledHasNoChild'
<1>1. ForegroundOK'
  BY DEF ForegroundOK, foregroundVars
<1>2. SettledHasNoChild'
  BY DEF SettledHasNoChild, foregroundVars
<1> QED BY <1>1, <1>2

\* An operation keeps its row as long as no checkpoint becomes absent or
\* changes its project.
LEMMA LoadedFrame ==
  ASSUME TypeOK, LoadedRowKept, op' = op,
         \A c \in Checkpoints :
            checkpoint[c].status # "absent" =>
               /\ checkpoint'[c].status # "absent"
               /\ checkpoint'[c].project = checkpoint[c].project
  PROVE  LoadedRowKept'
BY LoadedRowType DEF LoadedRowKept

-----------------------------------------------------------------------------
(* Checkpoint operations                                                   *)

LEMMA CaptureKeeps ==
  ASSUME IInv, NEW c \in Checkpoints, Capture(c)
  PROVE  IInv'
<1>1. PICK j \in Projects, r \in Revisions, d \in Retentions :
        InsertCheckpoint(c, [status |-> "draft", meta |-> "draft", rev |-> r,
                             project |-> j, source |-> "repository-first",
                             created |-> clock, due |-> DueDate(clock, d)])
  BY DEF Capture
<1> DEFINE row == [status |-> "draft", meta |-> "draft", rev |-> r,
                   project |-> j, source |-> "repository-first",
                   created |-> clock, due |-> DueDate(clock, d)]
<1>2. clock \in Nat
  BY DEF IInv, TypeOK, StoreTypeOK
<1>3. DueDate(clock, d) \in Nat \cup {None}
  BY <1>2, ServiceAssumption DEF DueDate
<1>4. row \in CheckpointRow /\ row.status = "draft"
  BY <1>2, <1>3 DEF CheckpointRow
<1> HIDE DEF row
<1>5. InsertCheckpoint(c, row)
  BY <1>1 DEF row
<1>6. StoreTypeOK' /\ StoreInv'
  BY <1>4, <1>5, InsertCheckpointKeepsStore DEF IInv, TypeOK
<1>7. UNCHANGED <<foregroundVars, serviceVars>>
  BY DEF Capture
<1>8. TypeOK'
  BY <1>6, <1>7 DEF IInv, TypeOK, foregroundVars, serviceVars
<1>9. LoadedRowKept'
  <2>1. \A e \in Checkpoints : checkpoint[e].status # "absent" =>
                               checkpoint'[e] = checkpoint[e]
    BY <1>5 DEF InsertCheckpoint, IInv, TypeOK, StoreTypeOK
  <2> QED BY <2>1, <1>7, LoadedFrame DEF IInv, serviceVars
<1>10. ForegroundOK' /\ SettledHasNoChild'
  BY <1>5, <1>7, ForegroundFrame
     DEF IInv, TypeOK, InsertCheckpoint, foregroundVars, serviceVars
<1> QED BY <1>6, <1>8, <1>9, <1>10 DEF IInv

LEMMA LoadKeeps ==
  ASSUME IInv, NEW c \in Checkpoints, LoadCheckpoint(c)
  PROVE  IInv'
<1>1. /\ Exists(c)
      /\ op' = [busy |-> TRUE, cp |-> c, seen |-> checkpoint[c], at |-> clock]
      /\ UNCHANGED <<storeVars, foregroundVars, up, boot, journey>>
  BY DEF LoadCheckpoint
<1>2. StoreTypeOK' /\ StoreInv'
  BY <1>1, UnchangedStore DEF IInv, TypeOK
<1>3. TypeOK'
  BY <1>1, <1>2 DEF IInv, TypeOK, StoreTypeOK, Op, foregroundVars
<1>4. LoadedRowKept'
  BY <1>1 DEF LoadedRowKept, Exists, storeVars
<1>5. ForegroundOK' /\ SettledHasNoChild'
  BY <1>1, ForegroundFrame DEF IInv, TypeOK, storeVars
<1> QED BY <1>2, <1>3, <1>4, <1>5 DEF IInv

\* The saves that end an operation.
LEMMA SaveSeenKeeps ==
  ASSUME IInv, NEW row \in CheckpointRow, op.busy,
         Editable,
         row.status # "launching",
         SaveSeen(row)
  PROVE  IInv'
<1>1. /\ SaveCheckpoint(op.cp, op.seen, row)
      /\ op' = NoOp
      /\ UNCHANGED <<foregroundVars, up, boot, journey>>
  BY DEF SaveSeen
<1>2. op.cp \in Checkpoints /\ op.seen \in CheckpointRow
  BY LoadedRowType DEF IInv
<1>3. StoreTypeOK' /\ StoreInv'
  BY <1>1, <1>2, SaveKeepsStore DEF IInv, TypeOK, Editable
<1>4. TypeOK'
  BY <1>1, <1>3 DEF IInv, TypeOK, foregroundVars
<1>5. LoadedRowKept'
  BY <1>1 DEF LoadedRowKept, NoOp
<1>6. ForegroundOK' /\ SettledHasNoChild'
  BY <1>1, ForegroundFrame DEF IInv, TypeOK, SaveCheckpoint
<1> QED BY <1>3, <1>4, <1>5, <1>6 DEF IInv

LEMMA EditKeeps == ASSUME IInv, Edit PROVE IInv'
<1>1. PICK r \in Revisions :
        SaveSeen([op.seen EXCEPT !.status = "draft", !.meta = "draft", !.rev = r])
  BY DEF Edit
<1>2. op.busy /\ Editable
  BY DEF Edit
<1>3. op.seen \in CheckpointRow
  BY <1>2, LoadedRowType DEF IInv
<1> DEFINE row == [op.seen EXCEPT !.status = "draft", !.meta = "draft", !.rev = r]
<1>4. row \in CheckpointRow /\ row.status # "launching"
  BY <1>3 DEF CheckpointRow
<1> HIDE DEF row
<1>5. SaveSeen(row)
  BY <1>1 DEF row
<1> QED BY <1>2, <1>4, <1>5, SaveSeenKeeps

LEMMA ApproveKeeps == ASSUME IInv, Approve PROVE IInv'
<1> DEFINE row == [op.seen EXCEPT !.status = "approved", !.meta = "approved"]
<1>1. op.busy /\ Editable /\ SaveSeen(row)
  BY DEF Approve
<1>2. op.seen \in CheckpointRow
  BY <1>1, LoadedRowType DEF IInv
<1>3. row \in CheckpointRow /\ row.status # "launching"
  BY <1>2 DEF CheckpointRow
<1> HIDE DEF row
<1> QED BY <1>1, <1>3, SaveSeenKeeps

LEMMA ApproveAssistedKeeps == ASSUME IInv, ApproveAssisted PROVE IInv'
<1>1. PICK r \in Revisions, d \in Retentions :
        SaveSeen([op.seen EXCEPT !.status = "approved", !.meta = "approved",
                    !.rev = r, !.source = "transcript-assisted",
                    !.due = DueDate(op.seen.created, d)])
  BY DEF ApproveAssisted
<1> DEFINE row == [op.seen EXCEPT !.status = "approved", !.meta = "approved",
                     !.rev = r, !.source = "transcript-assisted",
                     !.due = DueDate(op.seen.created, d)]
<1>2. op.busy /\ Editable
  BY DEF ApproveAssisted, Editable
<1>3. op.seen \in CheckpointRow
  BY <1>2, LoadedRowType DEF IInv
<1>4. DueDate(op.seen.created, d) \in Nat \cup {None}
  BY <1>3, ServiceAssumption DEF DueDate, CheckpointRow
<1>5. row \in CheckpointRow /\ row.status # "launching"
  BY <1>3, <1>4 DEF CheckpointRow
<1> HIDE DEF row
<1>6. SaveSeen(row)
  BY <1>1 DEF row
<1> QED BY <1>2, <1>5, <1>6, SaveSeenKeeps

LEMMA ExpireKeeps == ASSUME IInv, ExpireCheckpoint PROVE IInv'
<1> DEFINE expired == [op.seen EXCEPT !.status = "expired", !.meta = "expired"]
<1>1. /\ op.busy
      /\ op.seen.status # "launching"
      /\ SaveCheckpoint(op.cp, op.seen, expired)
      /\ op' = [op EXCEPT !.seen = expired]
      /\ UNCHANGED <<foregroundVars, up, boot, journey>>
  BY DEF ExpireCheckpoint
<1>2. op \in Op /\ op.cp \in Checkpoints /\ op.seen \in CheckpointRow
  BY <1>1, LoadedRowType DEF IInv
<1>3. op.seen.project = checkpoint[op.cp].project
  BY <1>1 DEF IInv, LoadedRowKept
<1>4. /\ expired \in CheckpointRow
      /\ expired.status = "expired"
      /\ expired.rev = op.seen.rev
      /\ expired.project = op.seen.project
  BY <1>2 DEF CheckpointRow
<1> HIDE DEF expired
<1>5. StoreTypeOK' /\ StoreInv'
  BY <1>1, <1>2, <1>3, <1>4, SaveKeepsStore DEF IInv, TypeOK
<1>6. op' \in Op /\ op'.cp = op.cp /\ op'.seen = expired
  BY <1>1, <1>2, <1>4 DEF Op
<1>7. TypeOK'
  BY <1>1, <1>5, <1>6 DEF IInv, TypeOK, foregroundVars
<1>8. checkpoint'[op.cp] = expired
  BY <1>1, <1>2 DEF SaveCheckpoint, IInv, TypeOK, StoreTypeOK
<1>9. LoadedRowKept'
  BY <1>4, <1>6, <1>8 DEF LoadedRowKept
<1>10. ForegroundOK' /\ SettledHasNoChild'
  BY <1>1, ForegroundFrame DEF IInv, TypeOK, SaveCheckpoint
<1> QED BY <1>5, <1>7, <1>9, <1>10 DEF IInv

\* Deleting settled launches and unclaimed checkpoints.
LEMMA DeleteKeeps ==
  ASSUME IInv, NEW L \in SUBSET SettledLeases, NEW C \in SUBSET Checkpoints,
         \A c \in C : /\ Exists(c)
                      /\ checkpoint[c].status # "launching"
                      /\ NoOpenLease(c),
         DeleteRows(L, C),
         op' \in {op, NoOp},
         UNCHANGED <<foregroundVars, up, boot, journey>>
  PROVE  IInv'
<1>1. StoreTypeOK' /\ StoreInv'
  BY DeleteKeepsStore DEF IInv, TypeOK
<1>2. TypeOK'
  BY <1>1 DEF IInv, TypeOK, foregroundVars
<1>3. LoadedRowKept'
  <2>1. \A c \in Checkpoints :
          checkpoint[c].status # "absent" =>
             /\ checkpoint'[c].status # "absent"
             /\ checkpoint'[c].project = checkpoint[c].project
    BY DEF DeleteRows, AbsentCheckpoint
  <2>2. CASE op' = op
    BY <2>1, <2>2, LoadedFrame DEF IInv
  <2>3. CASE op' = NoOp
    BY <2>3 DEF LoadedRowKept, NoOp
  <2> QED BY <2>2, <2>3
<1>4. \A l \in Leases :
        \/ /\ launch'[l].state = launch[l].state
           /\ launch'[l].boot = launch[l].boot
        \/ /\ l \notin alive
           /\ cli[l] # "planned"
           /\ launch'[l].state # "unused"
  <2> SUFFICES ASSUME NEW l \in Leases
               PROVE  \/ /\ launch'[l].state = launch[l].state
                         /\ launch'[l].boot = launch[l].boot
                      \/ /\ l \notin alive
                         /\ cli[l] # "planned"
                         /\ launch'[l].state # "unused"
    OBVIOUS
  <2>1. CASE l \in L
    <3>1. launch'[l].state = "deleted"
      BY <2>1 DEF DeleteRows, BlankLaunch
    <3>2. launch[l].state \in SettledStates
      BY <2>1 DEF SettledLeases
    <3> QED BY <3>1, <3>2
            DEF IInv, ForegroundOK, SettledHasNoChild, SettledStates, OpenStates
  <2>2. CASE l \notin L
    <3>1. launch[l] \in LaunchRow
      BY DEF IInv, TypeOK, StoreTypeOK
    <3>2. launch'[l] = IF launch[l].cp \in C
                       THEN [launch[l] EXCEPT !.cp = None, !.rev = None]
                       ELSE launch[l]
      BY <2>2 DEF DeleteRows
    <3> QED BY <3>1, <3>2 DEF LaunchRow
  <2> QED BY <2>1, <2>2
<1>5. ForegroundOK' /\ SettledHasNoChild'
  BY <1>4, ForegroundFrame DEF IInv, TypeOK
<1> QED BY <1>1, <1>2, <1>3, <1>5 DEF IInv

LEMMA CheckpointStepKeeps == ASSUME IInv, CheckpointStep PROVE IInv'
<1>1. ASSUME NEW c \in Checkpoints, Capture(c) PROVE IInv'
  BY <1>1, CaptureKeeps
<1>2. ASSUME NEW c \in Checkpoints, LoadCheckpoint(c) PROVE IInv'
  BY <1>2, LoadKeeps
<1>3. CASE Purge
  <2>1. op.busy /\ op' = NoOp /\ PurgeCheckpoint(op.cp, op.seen.rev)
    BY <1>3 DEF Purge
  <2>2. op.cp \in Checkpoints
    BY <2>1, LoadedRowType DEF IInv
  <2>3. UNCHANGED <<foregroundVars, up, boot, journey>>
    BY <1>3 DEF Purge
  <2>4. /\ Exists(op.cp)
        /\ checkpoint[op.cp].status # "launching"
        /\ NoOpenLease(op.cp)
        /\ DeleteRows({}, {op.cp})
    BY <2>1 DEF PurgeCheckpoint
  <2> QED BY <2>1, <2>2, <2>3, <2>4, DeleteKeeps
<1>4. CASE EndOp
  <2>1. op' = NoOp /\ UNCHANGED <<storeVars, foregroundVars, up, boot, journey>>
    BY <1>4 DEF EndOp
  <2>2. StoreTypeOK' /\ StoreInv'
    BY <2>1, UnchangedStore DEF IInv, TypeOK
  <2>3. TypeOK' /\ LoadedRowKept'
    BY <2>1, <2>2 DEF IInv, TypeOK, LoadedRowKept, NoOp, foregroundVars
  <2>4. ForegroundOK' /\ SettledHasNoChild'
    BY <2>1, ForegroundFrame DEF IInv, TypeOK, storeVars
  <2> QED BY <2>2, <2>3, <2>4 DEF IInv
<1>5. CASE PurgeHistory
  <2>1. PICK L \in SUBSET SettledLeases, C \in SUBSET Checkpoints : PurgeAnalytics(L, C)
    BY <1>5 DEF PurgeHistory
  <2>2. op' = op /\ UNCHANGED <<foregroundVars, up, boot, journey>>
    BY <1>5 DEF PurgeHistory, serviceVars
  <2> QED BY <2>1, <2>2, DeleteKeeps DEF PurgeAnalytics
<1>6. CASE ExpireHistory
  <2>1. PICK L \in SUBSET SettledLeases : RetainAnalytics(L)
    BY <1>6 DEF ExpireHistory
  <2>2. op' = op /\ UNCHANGED <<foregroundVars, up, boot, journey>>
    BY <1>6 DEF ExpireHistory, serviceVars
  <2>3. DeleteRows(L, {})
    BY <2>1 DEF RetainAnalytics
  <2> QED BY <2>2, <2>3, DeleteKeeps
<1> QED BY <1>1, <1>2, <1>3, <1>4, <1>5, <1>6, ExpireKeeps, EditKeeps,
           ApproveKeeps, ApproveAssistedKeeps DEF CheckpointStep

-----------------------------------------------------------------------------
(* Launch preparation                                                      *)

\* Reconciling touches no lease that a process or a waiting CLI holds: a pending
\* lease of an earlier boot has neither, a running one was found dead.
LEMMA ReconcileKeeps ==
  ASSUME IInv, Reconcile,
         UNCHANGED <<foregroundVars, boot, op>>,
         up' \in BOOLEAN,
         journey' \in [Handoffs -> Journey]
  PROVE  IInv'
<1>1. PICK D \in SUBSET DeadRunning : ReconcileManagedLaunches(boot, D)
  BY DEF Reconcile
<1> DEFINE S == FromEarlierBoot(boot) \cup D
<1>2. AbandonLeases(S)
  BY <1>1 DEF ReconcileManagedLaunches
<1>3. /\ S \in SUBSET Leases
      /\ \A l \in S : launch[l].state \in OpenStates
  BY <1>1 DEF FromEarlierBoot, DeadRunning, OpenStates
<1>4. \A l \in S : l \notin alive /\ cli[l] # "planned"
  <2>1. \A l \in FromEarlierBoot(boot) : launch[l].boot \notin {None, boot}
    BY DEF FromEarlierBoot
  <2>2. \A l \in DeadRunning : l \notin alive /\ launch[l].state = "running"
    BY DEF DeadRunning
  <2> QED BY <1>1, <1>3, <2>1, <2>2 DEF IInv, ForegroundOK
<1> HIDE DEF S
<1>5. StoreTypeOK' /\ StoreInv'
  BY <1>2, <1>3, AbandonKeepsStore DEF IInv, TypeOK
<1>6. TypeOK'
  BY <1>5 DEF IInv, TypeOK, foregroundVars
<1>7. LoadedRowKept'
  <2>1. \A c \in Checkpoints :
          checkpoint[c].status # "absent" =>
             /\ checkpoint'[c].status # "absent"
             /\ checkpoint'[c].project = checkpoint[c].project
    <3> SUFFICES ASSUME NEW c \in Checkpoints, checkpoint[c].status # "absent"
                 PROVE  /\ checkpoint'[c].status # "absent"
                        /\ checkpoint'[c].project = checkpoint[c].project
      OBVIOUS
    <3>1. checkpoint[c] \in CheckpointRow
      BY DEF IInv, TypeOK, StoreTypeOK
    <3>2. checkpoint'[c] \in {checkpoint[c], [checkpoint[c] EXCEPT !.status = "approved"]}
      BY <1>2 DEF AbandonLeases
    <3> QED BY <3>1, <3>2 DEF CheckpointRow
  <2> QED BY <2>1, LoadedFrame DEF IInv
<1>8. \A l \in Leases :
        IF l \in S THEN launch'[l].state = "abandoned" ELSE launch'[l] = launch[l]
  <2>1. ASSUME NEW l \in S PROVE launch'[l].state = "abandoned"
    <3>1. launch[l] \in LaunchRow /\ l \in Leases
      BY <1>3 DEF IInv, TypeOK, StoreTypeOK
    <3>2. launch'[l] = [launch[l] EXCEPT !.state = "abandoned"]
      BY <1>2, <3>1 DEF AbandonLeases
    <3> QED BY <3>1, <3>2 DEF LaunchRow
  <2> QED BY <2>1, <1>2 DEF AbandonLeases
<1>9. ForegroundOK' /\ SettledHasNoChild'
  BY <1>4, <1>8, ForegroundFrame DEF IInv, TypeOK
<1> QED BY <1>5, <1>6, <1>7, <1>9 DEF IInv

\* A lease that has just been inserted belongs to the CLI that gets the plan.
LEMMA InsertedForeground ==
  ASSUME IInv, NEW l \in Leases,
         launch[l].state = "unused",
         launch'[l].state = "pending",
         launch'[l].boot \in {None, boot},
         \A k \in Leases : k # l => launch'[k] = launch[k],
         DeliverPlan(l),
         boot' = boot
  PROVE  ForegroundOK' /\ SettledHasNoChild' /\ cli' \in [Leases -> CliStates]
<1>1. PICK state \in {"planned", "gone"} : cli' = [cli EXCEPT ![l] = state]
  BY DEF DeliverPlan
<1>2. UNCHANGED <<alive, report>>
  BY DEF DeliverPlan
<1>3. cli \in [Leases -> CliStates] /\ alive \subseteq Leases
  BY DEF IInv, TypeOK
<1>4. /\ cli'[l] \in {"planned", "gone"}
      /\ \A k \in Leases : k # l => cli'[k] = cli[k]
  BY <1>1, <1>3
<1>5. l \notin alive /\ report[l].kind = "none"
  BY DEF IInv, ForegroundOK
<1>6. ForegroundOK'
  BY <1>2, <1>4, <1>5 DEF IInv, ForegroundOK
<1>7. SettledHasNoChild'
  BY <1>2, <1>3, <1>5 DEF IInv, SettledHasNoChild
<1> QED BY <1>1, <1>3, <1>6, <1>7 DEF CliStates

LEMMA LaunchKeeps ==
  ASSUME IInv, NEW l \in Leases, NEW p \in Profiles, NEW j \in Projects,
         Launch(l, p, j)
  PROVE  IInv'
<1>1. /\ PrepareLaunch(l, p, j)
      /\ DeliverPlan(l)
      /\ UNCHANGED serviceVars
  BY DEF Launch
<1>2. StoreTypeOK' /\ StoreInv'
  BY <1>1, PrepareLaunchKeepsStore DEF IInv, TypeOK
<1>3. /\ launch[l].state = "unused"
      /\ launch'[l].state = "pending"
      /\ launch'[l].boot = None
      /\ \A k \in Leases : k # l => launch'[k] = launch[k]
      /\ checkpoint' = checkpoint
  <2>1. launch \in [Leases -> LaunchRow]
    BY DEF IInv, TypeOK, StoreTypeOK
  <2> QED BY <1>1, <2>1 DEF PrepareLaunch, InsertPending, IsNextLease, BlankLaunch
<1>4. ForegroundOK' /\ SettledHasNoChild' /\ cli' \in [Leases -> CliStates]
  BY <1>1, <1>3, InsertedForeground DEF serviceVars
<1>5. TypeOK'
  BY <1>1, <1>2, <1>4 DEF IInv, TypeOK, serviceVars, DeliverPlan
<1>6. LoadedRowKept'
  BY <1>1, <1>3 DEF IInv, LoadedRowKept, serviceVars
<1> QED BY <1>2, <1>4, <1>5, <1>6 DEF IInv

LEMMA ClaimKeeps ==
  ASSUME IInv, NEW h \in Handoffs, NEW l \in Leases, ClaimCheckpoint(h, l)
  PROVE  IInv'
<1> DEFINE request == journey[h]
<1>1. /\ PrepareHandoffLaunch(l, request.target, request.cp, request.rev,
                              request.source, boot)
      /\ DeliverPlan(l)
      /\ journey' = [journey EXCEPT ![h] = NoJourney]
      /\ UNCHANGED <<up, boot, op>>
      /\ request.pc = "rechecked"
  BY DEF ClaimCheckpoint
<1>2. /\ boot \in Nat
      /\ request.target \in Profiles
      /\ request.source \in Profiles
      /\ request.cp \in Checkpoints
      /\ request.rev \in Revisions
  BY <1>1 DEF IInv, TypeOK, Journey
<1> HIDE DEF request
<1>3. StoreTypeOK' /\ StoreInv'
  BY <1>1, <1>2, ClaimKeepsStore DEF IInv, TypeOK
<1>4. /\ launch[l].state = "unused"
      /\ launch'[l].state = "pending"
      /\ launch'[l].boot = boot
      /\ \A k \in Leases : k # l => launch'[k] = launch[k]
      /\ checkpoint' = [checkpoint EXCEPT ![request.cp].status = "launching"]
      /\ checkpoint[request.cp].status = "approved"
  <2>1. launch \in [Leases -> LaunchRow]
    BY DEF IInv, TypeOK, StoreTypeOK
  <2> QED BY <1>1, <2>1 DEF PrepareHandoffLaunch, InsertPending, IsNextLease,
                            BlankLaunch, ReadyForHandoff
<1>5. ForegroundOK' /\ SettledHasNoChild' /\ cli' \in [Leases -> CliStates]
  BY <1>1, <1>4, InsertedForeground
<1>6. NoJourney \in Journey /\ NoJourney.pc = "idle"
  BY DEF NoJourney, Journey
<1>7. TypeOK'
  BY <1>1, <1>3, <1>5, <1>6 DEF IInv, TypeOK, DeliverPlan
<1>8. LoadedRowKept'
  <2>1. \A c \in Checkpoints :
          checkpoint[c].status # "absent" =>
             /\ checkpoint'[c].status # "absent"
             /\ checkpoint'[c].project = checkpoint[c].project
    BY <1>2, <1>4 DEF IInv, TypeOK, StoreTypeOK, CheckpointRow
  <2> QED BY <2>1, <1>1, LoadedFrame DEF IInv
<1> QED BY <1>3, <1>5, <1>7, <1>8 DEF IInv

\* The steps of a journey that only read the store.
LEMMA JourneyReadKeeps ==
  ASSUME IInv, UNCHANGED <<storeVars, foregroundVars, up, boot, op>>,
         journey' \in [Handoffs -> Journey]
  PROVE  IInv'
<1>1. StoreTypeOK' /\ StoreInv'
  BY UnchangedStore DEF IInv, TypeOK
<1>2. TypeOK'
  BY <1>1 DEF IInv, TypeOK, foregroundVars
<1>3. LoadedRowKept'
  BY DEF IInv, LoadedRowKept, storeVars
<1>4. ForegroundOK' /\ SettledHasNoChild'
  BY ForegroundFrame DEF IInv, TypeOK, storeVars
<1> QED BY <1>1, <1>2, <1>3, <1>4 DEF IInv

LEMMA HandoffStepKeeps ==
  ASSUME IInv, NEW h \in Handoffs,
         \/ BeginHandoff(h)
         \/ \E c \in Checkpoints, r \in Revisions, p \in Profiles :
              CheckCheckpoint(h, c, r, p)
         \/ CheckSource(h)
         \/ ReconcileAgain(h)
         \/ RecheckCheckpoint(h)
         \/ \E s \in Profiles : RecheckSource(h, s)
         \/ \E l \in Leases : ClaimCheckpoint(h, l)
         \/ EndHandoff(h)
  PROVE  IInv'
<1>1. journey \in [Handoffs -> Journey] /\ journey[h] \in Journey
  BY DEF IInv, TypeOK
<1>2. up \in BOOLEAN
  BY DEF IInv, TypeOK
<1>3. CASE BeginHandoff(h)
  <2>1. [journey[h] EXCEPT !.pc = "begun"] \in Journey
    BY <1>1, <1>3 DEF BeginHandoff, Journey
  <2>2. journey' \in [Handoffs -> Journey]
    BY <1>1, <1>3, <2>1 DEF BeginHandoff
  <2> QED BY <1>2, <1>3, <2>2, ReconcileKeeps DEF BeginHandoff
<1>4. ASSUME NEW c \in Checkpoints, NEW r \in Revisions, NEW p \in Profiles,
             CheckCheckpoint(h, c, r, p)
      PROVE  IInv'
  <2>1. [pc |-> "loaded", cp |-> c, rev |-> r, target |-> p, source |-> None] \in Journey
    BY DEF Journey
  <2>2. journey' \in [Handoffs -> Journey]
    BY <1>1, <1>4, <2>1 DEF CheckCheckpoint
  <2> QED BY <1>4, <2>2, JourneyReadKeeps DEF CheckCheckpoint
<1>5. CASE CheckSource(h)
  <2>1. [journey[h] EXCEPT !.pc = "checked"] \in Journey
    BY <1>1, <1>5 DEF CheckSource, Journey
  <2>2. journey' \in [Handoffs -> Journey]
    BY <1>1, <1>5, <2>1 DEF CheckSource
  <2> QED BY <1>5, <2>2, JourneyReadKeeps DEF CheckSource
<1>6. CASE ReconcileAgain(h)
  <2>1. [journey[h] EXCEPT !.pc = "reconciled"] \in Journey
    BY <1>1, <1>6 DEF ReconcileAgain, Journey
  <2>2. journey' \in [Handoffs -> Journey]
    BY <1>1, <1>6, <2>1 DEF ReconcileAgain
  <2> QED BY <1>2, <1>6, <2>2, ReconcileKeeps DEF ReconcileAgain
<1>7. CASE RecheckCheckpoint(h)
  <2>1. [journey[h] EXCEPT !.pc = "reloaded"] \in Journey
    BY <1>1, <1>7 DEF RecheckCheckpoint, Journey
  <2>2. journey' \in [Handoffs -> Journey]
    BY <1>1, <1>7, <2>1 DEF RecheckCheckpoint
  <2> QED BY <1>7, <2>2, JourneyReadKeeps DEF RecheckCheckpoint
<1>8. ASSUME NEW s \in Profiles, RecheckSource(h, s) PROVE IInv'
  <2>1. [journey[h] EXCEPT !.pc = "rechecked", !.source = s] \in Journey
    BY <1>1, <1>8 DEF RecheckSource, Journey
  <2>2. journey' \in [Handoffs -> Journey]
    BY <1>1, <1>8, <2>1 DEF RecheckSource
  <2> QED BY <1>8, <2>2, JourneyReadKeeps DEF RecheckSource
<1>9. ASSUME NEW l \in Leases, ClaimCheckpoint(h, l) PROVE IInv'
  BY <1>9, ClaimKeeps
<1>10. CASE EndHandoff(h)
  <2>1. NoJourney \in Journey
    BY DEF NoJourney, Journey
  <2>2. journey' \in [Handoffs -> Journey]
    BY <1>1, <1>10, <2>1 DEF EndHandoff
  <2> QED BY <1>10, <2>2, JourneyReadKeeps DEF EndHandoff
<1> QED BY <1>3, <1>4, <1>5, <1>6, <1>7, <1>8, <1>9, <1>10

LEMMA PrepareStepKeeps == ASSUME IInv, PrepareStep PROVE IInv'
<1>1. ASSUME NEW l \in Leases, NEW p \in Profiles, NEW j \in Projects, Launch(l, p, j)
      PROVE  IInv'
  BY <1>1, LaunchKeeps
<1>2. CASE ReconcileOnly
  <2>1. up \in BOOLEAN /\ journey \in [Handoffs -> Journey]
    BY DEF IInv, TypeOK
  <2> QED BY <1>2, <2>1, ReconcileKeeps DEF ReconcileOnly, serviceVars
<1> QED BY <1>1, <1>2, HandoffStepKeeps DEF PrepareStep

-----------------------------------------------------------------------------
(* The CLI and the handling of its reports                                 *)

\* A step of one CLI, its child or its report that leaves the store alone.
LEMMA CliStepKeeps ==
  ASSUME IInv, NEW l \in Leases,
         UNCHANGED <<storeVars, serviceVars>>,
         alive' \subseteq alive \cup {l},
         cli' \in [Leases -> CliStates],
         report' \in [Leases -> Report],
         \A k \in Leases : k # l => /\ k \in alive' <=> k \in alive
                                    /\ cli'[k] = cli[k]
                                    /\ report'[k] = report[k],
         launch[l].state # "unused",
         cli'[l] = "planned" => cli[l] = "planned" /\ l \notin alive',
         report'[l].kind # "none" => cli'[l] \notin {"none", "planned"},
         report'[l].kind \in {"exited", "abandoned"} => cli'[l] = "gone" /\ l \notin alive',
         l \in alive' => l \in alive \/ cli[l] = "planned"
  PROVE  IInv'
<1>1. StoreTypeOK' /\ StoreInv'
  BY UnchangedStore DEF IInv, TypeOK
<1>2. TypeOK'
  BY <1>1 DEF IInv, TypeOK, serviceVars
<1>3. LoadedRowKept'
  BY DEF IInv, LoadedRowKept, storeVars, serviceVars
<1>4. launch' = launch /\ boot' = boot
  BY DEF storeVars, serviceVars
<1>5. ForegroundOK'
  <2> SUFFICES ASSUME NEW k \in Leases
               PROVE  /\ launch[k].state = "unused" =>
                           cli'[k] = "none" /\ k \notin alive' /\ report'[k].kind = "none"
                      /\ cli'[k] = "planned" =>
                           /\ launch[k].state = "pending"
                           /\ k \notin alive'
                           /\ launch[k].boot \in {None, boot}
                      /\ report'[k].kind # "none" => cli'[k] \notin {"none", "planned"}
                      /\ report'[k].kind \in {"exited", "abandoned"} =>
                           cli'[k] = "gone" /\ k \notin alive'
                      /\ k \in alive' => launch[k].boot \in {None, boot}
    BY <1>4 DEF ForegroundOK
  <2>1. CASE k = l
    BY <2>1 DEF IInv, ForegroundOK
  <2>2. CASE k # l
    BY <2>2 DEF IInv, ForegroundOK
  <2> QED BY <2>1, <2>2
<1>6. SettledHasNoChild'
  <2> SUFFICES ASSUME NEW k \in alive'
               PROVE  launch[k].state \in OpenStates
    BY <1>4 DEF SettledHasNoChild
  <2>1. CASE k \in alive
    BY <2>1 DEF IInv, SettledHasNoChild
  <2>2. CASE k = l /\ cli[l] = "planned"
    BY <2>2 DEF IInv, ForegroundOK, OpenStates
  <2> QED BY <2>1, <2>2
<1> QED BY <1>1, <1>2, <1>3, <1>5, <1>6 DEF IInv

\* The six steps of the CLI and its child, and the loss of a report.
LEMMA CliKeeps ==
  ASSUME IInv, NEW l \in Leases,
         \/ StartChild(l)
         \/ FailToStart(l)
         \/ StartAcknowledged(l)
         \/ LeaveChild(l)
         \/ ChildExits(l)
         \/ ReportEnd(l)
         \/ LoseReport(l)
  PROVE  IInv'
<1>1. /\ cli \in [Leases -> CliStates]
      /\ report \in [Leases -> Report]
      /\ alive \subseteq Leases
      /\ clock \in Nat
  BY DEF IInv, TypeOK, StoreTypeOK
<1>2. /\ NoReport \in Report
      /\ NoReport.kind = "none"
      /\ [kind |-> "started", at |-> 0] \in Report
      /\ [kind |-> "abandoned", at |-> 0] \in Report
      /\ [kind |-> "exited", at |-> clock] \in Report
  BY <1>1 DEF NoReport, Report
<1>3. CASE StartChild(l)
  <2>1. /\ cli[l] = "planned"
        /\ alive' = alive \cup {l}
        /\ cli' = [cli EXCEPT ![l] = "spawned"]
        /\ report' = [report EXCEPT ![l] = [kind |-> "started", at |-> 0]]
        /\ UNCHANGED <<storeVars, serviceVars>>
    BY <1>3 DEF StartChild, Send
  <2>2. launch[l].state # "unused"
    BY <2>1 DEF IInv, ForegroundOK
  <2> QED BY <1>1, <1>2, <2>1, <2>2, CliStepKeeps DEF CliStates
<1>4. CASE FailToStart(l)
  <2>1. /\ cli[l] = "planned"
        /\ alive' = alive
        /\ cli' = [cli EXCEPT ![l] = "gone"]
        /\ report' = [report EXCEPT ![l] = [kind |-> "abandoned", at |-> 0]]
        /\ UNCHANGED <<storeVars, serviceVars>>
    BY <1>4 DEF FailToStart, Send
  <2>2. launch[l].state # "unused" /\ l \notin alive
    BY <2>1 DEF IInv, ForegroundOK
  <2> QED BY <1>1, <1>2, <2>1, <2>2, CliStepKeeps DEF CliStates
<1>5. CASE StartAcknowledged(l)
  <2>1. /\ cli[l] = "spawned"
        /\ alive' = alive
        /\ cli' = [cli EXCEPT ![l] = "waiting"]
        /\ report' = [report EXCEPT ![l] = NoReport]
        /\ UNCHANGED <<storeVars, serviceVars>>
    BY <1>5 DEF StartAcknowledged
  <2>2. launch[l].state # "unused"
    BY <2>1 DEF IInv, ForegroundOK
  <2> QED BY <1>1, <1>2, <2>1, <2>2, CliStepKeeps DEF CliStates
<1>6. CASE LeaveChild(l)
  <2>1. /\ cli[l] \in {"planned", "spawned", "waiting"}
        /\ alive' = alive
        /\ cli' = [cli EXCEPT ![l] = "gone"]
        /\ report' = [report EXCEPT ![l] =
                        IF report[l].kind = "accepted" THEN NoReport ELSE report[l]]
        /\ UNCHANGED <<storeVars, serviceVars>>
    BY <1>6 DEF LeaveChild
  <2>2. launch[l].state # "unused"
    BY <2>1 DEF IInv, ForegroundOK
  <2>3. report'[l] \in {NoReport, report[l]}
    BY <1>1, <2>1
  <2>4. /\ report'[l].kind \in {"exited", "abandoned"} => l \notin alive
        /\ report' \in [Leases -> Report]
    BY <1>1, <1>2, <2>1, <2>3 DEF IInv, ForegroundOK
  <2> QED BY <1>1, <2>1, <2>2, <2>4, CliStepKeeps DEF CliStates
<1>7. CASE ChildExits(l)
  <2>1. /\ l \in alive
        /\ alive' = alive \ {l}
        /\ cli' = cli
        /\ report' = report
        /\ UNCHANGED <<storeVars, serviceVars>>
    BY <1>7 DEF ChildExits
  <2>2. /\ launch[l].state # "unused"
        /\ cli[l] # "planned"
        /\ report[l].kind # "none" => cli[l] \notin {"none", "planned"}
        /\ report[l].kind \in {"exited", "abandoned"} => cli[l] = "gone"
    BY <2>1 DEF IInv, ForegroundOK
  <2> QED BY <1>1, <2>1, <2>2, CliStepKeeps
<1>8. CASE ReportEnd(l)
  <2>1. /\ cli[l] = "waiting"
        /\ l \notin alive
        /\ alive' = alive
        /\ cli' = [cli EXCEPT ![l] = "gone"]
        /\ UNCHANGED <<storeVars, serviceVars>>
    BY <1>8 DEF ReportEnd
  <2>2. launch[l].state # "unused"
    BY <2>1 DEF IInv, ForegroundOK
  <2>3. PICK m \in Report : report' = [report EXCEPT ![l] = m]
    BY <1>2, <1>8 DEF ReportEnd, Send
  <2> QED BY <1>1, <2>1, <2>2, <2>3, CliStepKeeps DEF CliStates
<1>9. CASE LoseReport(l)
  <2>1. /\ report[l].kind # "none"
        /\ alive' = alive
        /\ cli' = cli
        /\ report' = [report EXCEPT ![l] = NoReport]
        /\ UNCHANGED <<storeVars, serviceVars>>
    BY <1>9 DEF LoseReport
  <2>2. launch[l].state # "unused" /\ cli[l] # "planned"
    BY <2>1 DEF IInv, ForegroundOK
  <2> QED BY <1>1, <1>2, <2>1, <2>2, CliStepKeeps
<1> QED BY <1>3, <1>4, <1>5, <1>6, <1>7, <1>8, <1>9

\* The lease whose report the service handles keeps its processes; the others
\* keep everything.
LEMMA HandledForeground ==
  ASSUME IInv, NEW l \in Leases,
         launch[l].state # "unused",
         launch'[l].state # "unused",
         launch'[l].boot = launch[l].boot,
         l \in alive => launch'[l].state \in OpenStates,
         cli[l] # "planned",
         cli[l] # "none",
         \A k \in Leases : k # l => launch'[k] = launch[k],
         report'[l].kind \in {"none", "accepted"},
         \A k \in Leases : k # l => report'[k] = report[k],
         UNCHANGED <<alive, cli, boot>>
  PROVE  ForegroundOK' /\ SettledHasNoChild'
<1>1. alive \subseteq Leases
  BY DEF IInv, TypeOK
<1>2. SettledHasNoChild'
  BY <1>1 DEF IInv, SettledHasNoChild
<1>3. ForegroundOK'
  <2> SUFFICES ASSUME NEW k \in Leases
               PROVE  /\ launch'[k].state = "unused" =>
                           cli[k] = "none" /\ k \notin alive /\ report'[k].kind = "none"
                      /\ cli[k] = "planned" =>
                           /\ launch'[k].state = "pending"
                           /\ k \notin alive
                           /\ launch'[k].boot \in {None, boot}
                      /\ report'[k].kind # "none" => cli[k] \notin {"none", "planned"}
                      /\ report'[k].kind \in {"exited", "abandoned"} =>
                           cli[k] = "gone" /\ k \notin alive
                      /\ k \in alive => launch'[k].boot \in {None, boot}
    BY DEF ForegroundOK
  <2>1. CASE k = l
    BY <2>1 DEF IInv, ForegroundOK
  <2>2. CASE k # l
    BY <2>2 DEF IInv, ForegroundOK
  <2> QED BY <2>1, <2>2
<1> QED BY <1>2, <1>3

LEMMA HandleStartedKeeps ==
  ASSUME IInv, NEW l \in Leases, HandleStarted(l)
  PROVE  IInv'
<1>1. /\ report[l].kind = "started"
      /\ MarkStarted(l)
      /\ report' = [report EXCEPT ![l] =
                      IF cli[l] = "spawned" THEN [kind |-> "accepted", at |-> 0]
                      ELSE NoReport]
      /\ UNCHANGED <<serviceVars, alive, cli>>
  BY DEF HandleStarted
<1>2. StoreTypeOK' /\ StoreInv'
  BY <1>1, MarkStartedKeepsStore DEF IInv, TypeOK
<1>3. launch \in [Leases -> LaunchRow] /\ checkpoint \in [Checkpoints -> CheckpointRow]
  BY DEF IInv, TypeOK, StoreTypeOK
<1>4. /\ launch' = [launch EXCEPT ![l].state = "running", ![l].pid = TRUE]
      /\ launch'[l].state = "running"
      /\ launch'[l].boot = launch[l].boot
      /\ launch[l].state = "pending"
      /\ \A k \in Leases : k # l => launch'[k] = launch[k]
  BY <1>1, <1>3 DEF MarkStarted, LaunchRow
<1>5. /\ report \in [Leases -> Report]
      /\ NoReport \in Report
      /\ NoReport.kind = "none"
      /\ [kind |-> "accepted", at |-> 0] \in Report
  BY DEF IInv, TypeOK, NoReport, Report
<1>6. /\ report' \in [Leases -> Report]
      /\ report'[l].kind \in {"none", "accepted"}
      /\ \A k \in Leases : k # l => report'[k] = report[k]
  BY <1>1, <1>5
<1>7. cli[l] \notin {"none", "planned"}
  BY <1>1 DEF IInv, ForegroundOK
<1>8. ForegroundOK' /\ SettledHasNoChild'
  BY <1>1, <1>4, <1>6, <1>7, HandledForeground DEF serviceVars, OpenStates
<1>9. TypeOK'
  BY <1>1, <1>2, <1>6 DEF IInv, TypeOK, serviceVars
<1>10. LoadedRowKept'
  <2>1. \A c \in Checkpoints :
          checkpoint'[c] \in {checkpoint[c], [checkpoint[c] EXCEPT !.status = "completed"]}
    BY <1>1, <1>3 DEF MarkStarted
  <2>2. \A c \in Checkpoints :
          checkpoint[c].status # "absent" =>
             /\ checkpoint'[c].status # "absent"
             /\ checkpoint'[c].project = checkpoint[c].project
    BY <1>3, <2>1 DEF CheckpointRow
  <2> QED BY <1>1, <2>2, LoadedFrame DEF IInv, serviceVars
<1> QED BY <1>2, <1>8, <1>9, <1>10 DEF IInv

LEMMA HandleExitedKeeps ==
  ASSUME IInv, NEW l \in Leases, HandleExited(l)
  PROVE  IInv'
<1>1. PICK t \in report[l].at .. clock : MarkExited(l, t)
  BY DEF HandleExited
<1>2. /\ report[l].kind = "exited"
      /\ report' = [report EXCEPT ![l] = NoReport]
      /\ UNCHANGED <<serviceVars, alive, cli>>
  BY DEF HandleExited
<1>3. /\ report \in [Leases -> Report]
      /\ NoReport \in Report
      /\ NoReport.kind = "none"
      /\ launch \in [Leases -> LaunchRow]
      /\ clock \in Nat
  BY DEF IInv, TypeOK, StoreTypeOK, NoReport, Report
<1>4. t \in Nat
  BY <1>3 DEF Report
<1>5. StoreTypeOK' /\ StoreInv'
  BY <1>1, <1>4, MarkExitedKeepsStore DEF IInv, TypeOK
<1>6. /\ launch'[l].state = "exited"
      /\ launch'[l].boot = launch[l].boot
      /\ launch[l].state = "running"
      /\ checkpoint' = checkpoint
      /\ \A k \in Leases : k # l => launch'[k] = launch[k]
  BY <1>1, <1>3 DEF MarkExited, LaunchRow
<1>7. cli[l] = "gone" /\ l \notin alive
  BY <1>2 DEF IInv, ForegroundOK
<1>8. ForegroundOK' /\ SettledHasNoChild'
  BY <1>2, <1>3, <1>6, <1>7, HandledForeground DEF serviceVars
<1>9. TypeOK' /\ LoadedRowKept'
  BY <1>2, <1>3, <1>5, <1>6 DEF IInv, TypeOK, LoadedRowKept, serviceVars
<1> QED BY <1>5, <1>8, <1>9 DEF IInv

LEMMA HandleAbandonedKeeps ==
  ASSUME IInv, NEW l \in Leases, HandleAbandoned(l)
  PROVE  IInv'
<1>1. /\ report[l].kind = "abandoned"
      /\ launch[l].state \in OpenStates
      /\ AbandonLeases({l})
      /\ report' = [report EXCEPT ![l] = NoReport]
      /\ UNCHANGED <<serviceVars, alive, cli>>
  BY DEF HandleAbandoned, MarkAbandoned
<1>2. /\ report \in [Leases -> Report]
      /\ NoReport \in Report
      /\ NoReport.kind = "none"
      /\ launch[l] \in LaunchRow
      /\ checkpoint \in [Checkpoints -> CheckpointRow]
  BY DEF IInv, TypeOK, StoreTypeOK, NoReport, Report
<1>3. StoreTypeOK' /\ StoreInv'
  BY <1>1, AbandonKeepsStore DEF IInv, TypeOK
<1>4. /\ launch'[l] = [launch[l] EXCEPT !.state = "abandoned"]
      /\ \A k \in Leases : k # l => launch'[k] = launch[k]
  BY <1>1 DEF AbandonLeases
<1>5. launch'[l].state = "abandoned" /\ launch'[l].boot = launch[l].boot
  BY <1>2, <1>4 DEF LaunchRow
<1>6. cli[l] = "gone" /\ l \notin alive
  BY <1>1 DEF IInv, ForegroundOK
<1>7. ForegroundOK' /\ SettledHasNoChild'
  BY <1>1, <1>2, <1>4, <1>5, <1>6, HandledForeground DEF serviceVars, OpenStates
<1>8. TypeOK'
  BY <1>1, <1>2, <1>3 DEF IInv, TypeOK, serviceVars
<1>9. LoadedRowKept'
  <2>1. \A c \in Checkpoints :
          checkpoint'[c] \in {checkpoint[c], [checkpoint[c] EXCEPT !.status = "approved"]}
    BY <1>1 DEF AbandonLeases
  <2>2. \A c \in Checkpoints :
          checkpoint[c].status # "absent" =>
             /\ checkpoint'[c].status # "absent"
             /\ checkpoint'[c].project = checkpoint[c].project
    BY <1>2, <2>1 DEF CheckpointRow
  <2> QED BY <1>1, <2>2, LoadedFrame DEF IInv, serviceVars
<1> QED BY <1>3, <1>7, <1>8, <1>9 DEF IInv

LEMMA ForegroundStepKeeps == ASSUME IInv, ForegroundStep PROVE IInv'
BY CliKeeps, HandleStartedKeeps, HandleExitedKeeps, HandleAbandonedKeeps
   DEF ForegroundStep

-----------------------------------------------------------------------------
(* Environment                                                             *)

LEMMA EnvironmentStepKeeps == ASSUME IInv, EnvironmentStep PROVE IInv'
<1>1. /\ NoReport \in Report
      /\ NoReport.kind = "none"
      /\ NoJourney \in Journey
      /\ [h \in Handoffs |-> NoJourney] \in [Handoffs -> Journey]
      /\ [l \in Leases |-> NoReport] \in [Leases -> Report]
  BY DEF NoReport, Report, NoJourney, Journey
<1>2. CASE ServiceStops
  <2>1. StoreTypeOK' /\ StoreInv'
    BY <1>2, UnchangedStore DEF IInv, TypeOK, ServiceStops
  <2>2. TypeOK' /\ LoadedRowKept'
    BY <1>1, <1>2, <2>1
       DEF IInv, TypeOK, LoadedRowKept, NoOp, ServiceStops, DropService
  <2>3. ForegroundOK' /\ SettledHasNoChild'
    BY <1>1, <1>2 DEF IInv, ForegroundOK, SettledHasNoChild, ServiceStops, storeVars
  <2> QED BY <2>1, <2>2, <2>3 DEF IInv
<1>3. CASE ServiceStarts
  <2>1. journey \in [Handoffs -> Journey]
    BY DEF IInv, TypeOK
  <2> QED BY <1>3, <2>1, ReconcileKeeps DEF ServiceStarts
<1>4. CASE Reboot
  <2>1. StoreTypeOK' /\ StoreInv'
    BY <1>4, UnchangedStore DEF IInv, TypeOK, Reboot
  <2>2. cli' \in [Leases -> CliStates] /\ boot' \in Nat
    BY <1>4 DEF IInv, TypeOK, Reboot, CliStates
  <2>3. TypeOK' /\ LoadedRowKept'
    BY <1>1, <1>4, <2>1, <2>2
       DEF IInv, TypeOK, LoadedRowKept, NoOp, Reboot, DropService
  <2>4. ForegroundOK' /\ SettledHasNoChild'
    BY <1>1, <1>4 DEF IInv, ForegroundOK, SettledHasNoChild, Reboot, storeVars
  <2> QED BY <2>1, <2>3, <2>4 DEF IInv
<1>5. CASE Tick
  <2>1. /\ clock' \in Nat
        /\ UNCHANGED <<checkpoint, launch, alive, cli, report, up, boot, op, journey>>
    BY <1>5 DEF Tick, IInv, TypeOK, StoreTypeOK, foregroundVars, serviceVars
  <2>2. StoreTypeOK' /\ StoreInv'
    BY <2>1 DEF IInv, TypeOK, StoreTypeOK, StoreInv, LaunchRowsOK, ClaimsExclusive,
                ApprovedContentKept, StartedIsSpent, HandedOffOnce, OneHandoffPerProject
  <2>3. TypeOK' /\ LoadedRowKept' /\ ForegroundOK' /\ SettledHasNoChild'
    BY <2>1, <2>2 DEF IInv, TypeOK, LoadedRowKept, ForegroundOK, SettledHasNoChild
  <2> QED BY <2>2, <2>3 DEF IInv
<1> QED BY <1>2, <1>3, <1>4, <1>5 DEF EnvironmentStep

LEMMA StutterKeeps == ASSUME IInv, UNCHANGED vars PROVE IInv'
<1>1. UNCHANGED <<storeVars, foregroundVars, up, boot, op, journey>>
  BY DEF vars, storeVars, foregroundVars
<1>2. journey \in [Handoffs -> Journey]
  BY DEF IInv, TypeOK
<1> QED BY <1>1, <1>2, JourneyReadKeeps

\* IInv is inductive.
LEMMA NextInvariant == ASSUME IInv, [Next]_vars PROVE IInv'
BY CheckpointStepKeeps, PrepareStepKeeps, ForegroundStepKeeps,
   EnvironmentStepKeeps, StutterKeeps DEF Next

-----------------------------------------------------------------------------
(* Theorems                                                                *)

\* The inductive invariant holds in every behaviour.
THEOREM Invariance == Spec => []IInv
BY InitialInvariant, NextInvariant, PTL DEF Spec

\* Every variable keeps its type, for all values of the constants.
THEOREM TypeCorrect == Spec => []TypeOK
<1>1. IInv => TypeOK
  BY DEF IInv
<1> QED BY <1>1, Invariance, PTL

\* The checkpoints and managed_launches tables never disagree on who holds a
\* claim.
THEOREM ClaimsMatch == Spec => []ClaimMatchesLease
<1>1. IInv => ClaimMatchesLease
  BY ClaimsExclusiveMatch DEF IInv, TypeOK
<1> QED BY <1>1, Invariance, PTL

\* The approved revision is frozen while a launch runs on it.
THEOREM ContentKept == Spec => []ApprovedContentKept
<1>1. IInv => ApprovedContentKept
  BY DEF IInv, StoreInv
<1> QED BY <1>1, Invariance, PTL

\* At most one launch of a checkpoint is ever reported as started.
THEOREM HandedOffAtMostOnce == Spec => []HandedOffOnce
<1>1. IInv => HandedOffOnce
  BY DEF IInv, StoreInv
<1> QED BY <1>1, Invariance, PTL

\* At most one checkpoint of a project is launching.
THEOREM ProjectsExclusive == Spec => []OneHandoffPerProject
<1>1. IInv => OneHandoffPerProject
  BY DEF IInv, StoreInv
<1> QED BY <1>1, Invariance, PTL

\* The store never calls a live Codex child finished.
THEOREM LiveChildIsOpen == Spec => []SettledHasNoChild
<1>1. IInv => SettledHasNoChild
  BY DEF IInv
<1> QED BY <1>1, Invariance, PTL

\* Two live children never continue the same checkpoint.
THEOREM ChildrenExclusive == Spec => []OneChildPerCheckpoint
<1>1. ASSUME IInv PROVE OneChildPerCheckpoint
  <2> SUFFICES ASSUME NEW l \in alive, NEW k \in alive,
                      launch[l].cp = launch[k].cp, launch[l].cp # None
               PROVE  l = k
    BY DEF OneChildPerCheckpoint
  <2>1. /\ l \in Leases /\ k \in Leases
        /\ launch[l].state \in OpenStates
        /\ launch[k].state \in OpenStates
    BY <1>1 DEF IInv, TypeOK, SettledHasNoChild
  <2>2. CASE launch[l].state = "pending" /\ launch[k].state = "pending"
    BY <1>1, <2>1, <2>2 DEF IInv, StoreInv, ClaimsExclusive
  <2>3. CASE launch[l].state = "running" /\ launch[k].state = "running"
    BY <1>1, <2>1, <2>3 DEF IInv, StoreInv, LaunchRowsOK, HandedOffOnce
  <2>4. CASE launch[l].state # launch[k].state
    <3>1. checkpoint[launch[l].cp].status = "launching"
      BY <1>1, <2>1, <2>4 DEF IInv, StoreInv, ClaimsExclusive, OpenStates
    <3>2. checkpoint[launch[l].cp].status \in {"completed", "expired"}
      BY <1>1, <2>1, <2>4 DEF IInv, StoreInv, ApprovedContentKept, OpenStates
    <3> QED BY <3>1, <3>2
  <2> QED BY <2>1, <2>2, <2>3, <2>4 DEF OpenStates
<1> QED BY <1>1, Invariance, PTL
=============================================================================

--------------------------- MODULE Outbound_proofs ----------------------------
(***************************************************************************)
(* What the service asks and sends: the usage of a profile, proved for any *)
(* number of callers, aliases and profiles; the checks for a newer         *)
(* version, for any list of versions; and the events of the telemetry.     *)
(***************************************************************************)
EXTENDS UsageRefresh, UpdateChecks, Telemetry, TLAPS

-----------------------------------------------------------------------------
(* Usage that is asked for.                                                  *)

(* The calls, as a set of records.                                           *)
Call ==
    [pc : {"idle", "resolved", "joined", "answered"} \cup Leading,
     alias : Aliases \cup {None}, profile : Profiles \cup {None},
     leader : Callers \cup {None}, ok : BOOLEAN, answer : Profiles \cup {None},
     error : {"none", "unavailable", "store", "collection", "cancelled"}]

(* Whoever waits for a leader asked about the profile the leader collects,   *)
(* and the leader is still at it.                                            *)
CallsInProgress ==
    \A c \in Callers :
        /\ caller[c].pc \in {"resolved", "joined"} \cup Leading => caller[c].profile \in Profiles
        /\ caller[c].pc = "joined" =>
              /\ caller[c].leader \in Callers
              /\ caller[caller[c].leader].pc \in Leading
              /\ caller[caller[c].leader].profile = caller[c].profile

(* Every caller has a call of these.                                         *)
CallsTyped == caller \in [Callers -> Call] /\ collecting \in Callers \cup {None}

(* The invariant of the refreshes.                                           *)
RefreshInv ==
    /\ RefreshTypeOK /\ OwnUsage
    /\ CallsTyped
    /\ CallsInProgress

(* How a call may fail, and where it may stand.                              *)
Errors == {"none", "unavailable", "store", "collection", "cancelled"}
Places == {"idle", "resolved", "joined", "answered"} \cup Leading

(* The steps of a call write it field by field.                              *)
LEMMA MoveTyped ==
  ASSUME NEW q \in Call, NEW pc \in Places PROVE [q EXCEPT !.pc = pc] \in Call
BY Zenon DEF Call, Places

LEMMA ResolveTyped ==
  ASSUME NEW q \in Call, NEW pc \in Places, NEW p \in Profiles \cup {None}
  PROVE  [q EXCEPT !.pc = pc, !.profile = p] \in Call
BY Zenon DEF Call, Places

LEMMA JoinTyped ==
  ASSUME NEW q \in Call, NEW pc \in Places, NEW leader \in Callers \cup {None}
  PROVE  [q EXCEPT !.pc = pc, !.leader = leader] \in Call
BY Zenon DEF Call, Places

LEMMA CollectTyped ==
  ASSUME NEW q \in Call, NEW pc \in Places, NEW ok \in BOOLEAN
  PROVE  [q EXCEPT !.pc = pc, !.ok = ok] \in Call
BY Zenon DEF Call, Places

LEMMA FailedTyped ==
  ASSUME NEW q \in Call, NEW pc \in Places, NEW error \in Errors
  PROVE  [q EXCEPT !.pc = pc, !.error = error] \in Call
BY Zenon DEF Call, Places, Errors

LEMMA SavedTyped ==
  ASSUME NEW q \in Call, NEW pc \in Places, NEW answer \in Profiles \cup {None}
  PROVE  [q EXCEPT !.pc = pc, !.answer = answer] \in Call
BY Zenon DEF Call, Places

LEMMA AnswerTyped ==
  ASSUME NEW q \in Call, NEW pc \in Places, NEW answer \in Profiles \cup {None},
         NEW error \in Errors
  PROVE  /\ [q EXCEPT !.pc = pc, !.answer = answer, !.error = error] \in Call
         /\ [q EXCEPT !.pc = pc, !.error = error, !.answer = answer] \in Call
<1>1. [q EXCEPT !.pc = pc, !.answer = answer, !.error = error] \in Call
  BY Zenon DEF Call, Places, Errors
<1>2. [q EXCEPT !.pc = pc, !.error = error, !.answer = answer] \in Call
  BY Zenon DEF Call, Places, Errors
<1>. QED BY <1>1, <1>2

(* No call is typed.                                                         *)
LEMMA IdleTyped == Idle \in Call
BY SMT DEF Idle, Call

(* A call that names its alias is typed, and not answered.                   *)
LEMMA AliasTyped ==
  ASSUME NEW a \in Aliases
  PROVE  /\ [Idle EXCEPT !.alias = a] \in Call
         /\ [Idle EXCEPT !.alias = a].answer = None
<1>1. ASSUME NEW q \in Call
      PROVE  [q EXCEPT !.alias = a] \in Call /\ [q EXCEPT !.alias = a].answer = q.answer
  <2>1. [q EXCEPT !.alias = a] \in Call
    BY Zenon DEF Call
  <2>. QED BY <2>1, SMT DEF Call
<1>2. Idle.answer = None
  BY DEF Idle
<1>. QED BY <1>1, <1>2, IdleTyped, Zenon

(* A step of a call is a step of that call alone.                            *)
LEMMA StepTyped ==
  ASSUME CallsTyped, NEW c \in Callers, NEW q \in Call, RefreshStep(c, q)
  PROVE  /\ caller' \in [Callers -> Call] /\ caller'[c] = q
         /\ \A d \in Callers \ {c} : caller'[d] = caller[d]
BY Zenon DEF RefreshStep, CallsTyped

(* A caller is told that its alias is of no use, or has a profile to ask     *)
(* about.                                                                    *)
LEMMA RefreshMakes ==
  ASSUME CallsTyped, named \in [Aliases -> Profiles \cup {None}],
         NEW c \in Callers, NEW a \in Aliases, Refresh(c, a)
  PROVE  \E q \in Call :
            /\ RefreshStep(c, q) /\ q.answer = None
            /\ \/ q.pc = "answered"
               \/ q.pc = "resolved" /\ q.profile \in Profiles
<1>. DEFINE r == [Idle EXCEPT !.alias = a]
<1>1. r \in Call /\ r.answer = None
  BY AliasTyped
<1>2. "unavailable" \in Errors /\ "answered" \in Places /\ "resolved" \in Places
  BY DEF Errors, Places
<1>3. RefreshStep(c, IF named[a] = None \/ status[named[a]] # "ready"
                     THEN [r EXCEPT !.pc = "answered", !.error = "unavailable"]
                     ELSE [r EXCEPT !.pc = "resolved", !.profile = named[a]])
  BY DEF Refresh, Failed
<1>. HIDE DEF r
<1>4. /\ [r EXCEPT !.pc = "answered", !.error = "unavailable"] \in Call
      /\ [r EXCEPT !.pc = "answered", !.error = "unavailable"].pc = "answered"
      /\ [r EXCEPT !.pc = "answered", !.error = "unavailable"].answer = None
  <2>1. [r EXCEPT !.pc = "answered", !.error = "unavailable"] \in Call
    BY <1>1, <1>2, FailedTyped, Zenon
  <2>. QED BY <2>1, <1>1, SMT DEF Call
<1>5. ASSUME named[a] # None
      PROVE  /\ [r EXCEPT !.pc = "resolved", !.profile = named[a]] \in Call
             /\ [r EXCEPT !.pc = "resolved", !.profile = named[a]].pc = "resolved"
             /\ [r EXCEPT !.pc = "resolved", !.profile = named[a]].profile \in Profiles
             /\ [r EXCEPT !.pc = "resolved", !.profile = named[a]].answer = None
  <2>1. named[a] \in Profiles
    BY <1>5
  <2>2. [r EXCEPT !.pc = "resolved", !.profile = named[a]] \in Call
    BY <1>1, <1>2, <2>1, ResolveTyped, Zenon
  <2>. QED BY <2>1, <2>2, <1>1, SMT DEF Call
<1>. QED BY <1>3, <1>4, <1>5, Zenon

(* A leader that stores what it collected keeps its profile, and answers     *)
(* with nothing but that.                                                    *)
LEMMA SaveMakes ==
  ASSUME CallsTyped, NEW c \in Callers, SaveUsageSnapshot(c), caller[c].profile \in Profiles
  PROVE  \E q \in Call :
            /\ RefreshStep(c, q)
            /\ q.profile = caller[c].profile
            /\ q.answer \in {caller[c].answer, caller[c].profile}
            /\ \/ q.pc = "publish" /\ collecting' = None
               \/ q.pc = "reread" /\ UNCHANGED collecting
<1>. DEFINE r == caller[c]
<1>1. r \in Call /\ r.profile \in Profiles
  BY DEF CallsTyped
<1>2. \/ RefreshStep(c, [r EXCEPT !.pc = "publish", !.answer = r.profile]) /\ collecting' = None
      \/ RefreshStep(c, [r EXCEPT !.pc = "reread"]) /\ UNCHANGED collecting
      \/ RefreshStep(c, [r EXCEPT !.pc = "publish", !.error = "store"]) /\ collecting' = None
  BY Zenon DEF SaveUsageSnapshot, RefreshTo
<1>3. "store" \in Errors /\ "publish" \in Places /\ "reread" \in Places
  BY DEF Errors, Places, Leading
<1>. HIDE DEF r
<1>4. /\ [r EXCEPT !.pc = "publish", !.answer = r.profile] \in Call
      /\ [r EXCEPT !.pc = "reread"] \in Call
      /\ [r EXCEPT !.pc = "publish", !.error = "store"] \in Call
  BY <1>1, <1>3, SavedTyped, MoveTyped, FailedTyped, Zenon
<1>. SUFFICES \E q \in Call :
            /\ RefreshStep(c, q)
            /\ q.profile = r.profile
            /\ q.answer \in {r.answer, r.profile}
            /\ \/ q.pc = "publish" /\ collecting' = None
               \/ q.pc = "reread" /\ UNCHANGED collecting
  BY DEF r
<1>5. CASE RefreshStep(c, [r EXCEPT !.pc = "publish", !.answer = r.profile]) /\ collecting' = None
  <2>1. LET q == [r EXCEPT !.pc = "publish", !.answer = r.profile]
        IN  q.pc = "publish" /\ q.profile = r.profile /\ q.answer = r.profile
    BY <1>1, SMT DEF Call
  <2>. QED BY <1>5, <1>4, <2>1, Zenon
<1>6. CASE RefreshStep(c, [r EXCEPT !.pc = "reread"]) /\ UNCHANGED collecting
  <2>1. LET q == [r EXCEPT !.pc = "reread"]
        IN  q.pc = "reread" /\ q.profile = r.profile /\ q.answer = r.answer
    BY <1>1, SMT DEF Call
  <2>. QED BY <1>6, <1>4, <2>1, Zenon
<1>7. CASE RefreshStep(c, [r EXCEPT !.pc = "publish", !.error = "store"]) /\ collecting' = None
  <2>1. LET q == [r EXCEPT !.pc = "publish", !.error = "store"]
        IN  q.pc = "publish" /\ q.profile = r.profile /\ q.answer = r.answer
    BY <1>1, SMT DEF Call
  <2>. QED BY <1>7, <1>4, <2>1, Zenon
<1>. QED BY <1>2, <1>5, <1>6, <1>7

(* So does a leader that reads a failure back.                               *)
LEMMA RereadMakes ==
  ASSUME CallsTyped, NEW c \in Callers, RereadFailure(c), caller[c].profile \in Profiles
  PROVE  \E q \in Call :
            /\ RefreshStep(c, q) /\ q.pc = "publish"
            /\ q.profile = caller[c].profile
            /\ q.answer \in {caller[c].answer, caller[c].profile}
<1>. DEFINE r == caller[c]
<1>1. r \in Call /\ r.profile \in Profiles
  BY DEF CallsTyped
<1>2. \/ RefreshStep(c, [r EXCEPT !.pc = "publish", !.error = "collection", !.answer = r.profile])
      \/ RefreshStep(c, [r EXCEPT !.pc = "publish", !.error = "store"])
  BY Zenon DEF RereadFailure
<1>3. "store" \in Errors /\ "collection" \in Errors /\ "publish" \in Places
  BY DEF Errors, Places, Leading
<1>. HIDE DEF r
<1>4. /\ [r EXCEPT !.pc = "publish", !.error = "collection", !.answer = r.profile] \in Call
      /\ [r EXCEPT !.pc = "publish", !.error = "store"] \in Call
  BY <1>1, <1>3, AnswerTyped, FailedTyped, Zenon
<1>. SUFFICES \E q \in Call :
            /\ RefreshStep(c, q) /\ q.pc = "publish"
            /\ q.profile = r.profile
            /\ q.answer \in {r.answer, r.profile}
  BY DEF r
<1>5. CASE RefreshStep(c, [r EXCEPT !.pc = "publish", !.error = "collection", !.answer = r.profile])
  <2>1. LET q == [r EXCEPT !.pc = "publish", !.error = "collection", !.answer = r.profile]
        IN  q.pc = "publish" /\ q.profile = r.profile /\ q.answer = r.profile
    BY <1>1, SMT DEF Call
  <2>. QED BY <1>5, <1>4, <2>1, Zenon
<1>6. CASE RefreshStep(c, [r EXCEPT !.pc = "publish", !.error = "store"])
  <2>1. LET q == [r EXCEPT !.pc = "publish", !.error = "store"]
        IN  q.pc = "publish" /\ q.profile = r.profile /\ q.answer = r.answer
    BY <1>1, SMT DEF Call
  <2>. QED BY <1>6, <1>4, <2>1, Zenon
<1>. QED BY <1>2, <1>5, <1>6

(* The answer of the leader is the answer of everybody that waits for it.    *)
LEMMA PublishMakes ==
  ASSUME CallsTyped, NEW c \in Callers, Publish(c)
  PROVE  /\ caller' \in [Callers -> Call]
         /\ \A d \in Callers :
               IF d = c \/ d \in Waiters(c)
               THEN /\ caller'[d].pc = "answered" /\ caller'[d].answer = caller[c].answer
                    /\ caller'[d].profile = caller[d].profile
               ELSE caller'[d] = caller[d]
<1>1. "answered" \in Places /\ \A d \in Callers : caller[d] \in Call
  BY DEF Places, CallsTyped
<1>2. caller[c].answer \in Profiles \cup {None} /\ caller[c].error \in Errors
  BY <1>1, SMT DEF Call, Errors
<1>3. ASSUME NEW d \in Callers
      PROVE  /\ Answered(d, c) \in Call
             /\ Answered(d, c).pc = "answered" /\ Answered(d, c).answer = caller[c].answer
             /\ Answered(d, c).profile = caller[d].profile
  <2>1. Answered(d, c) \in Call
    BY <1>1, <1>2, AnswerTyped, Zenon DEF Answered
  <2>2. caller[d] \in Call
    BY <1>1
  <2>. QED BY <2>1, <2>2, SMT DEF Answered, Call
<1>4. caller' = [d \in Callers |-> IF d = c \/ d \in Waiters(c) THEN Answered(d, c) ELSE caller[d]]
  BY DEF Publish
<1>. QED BY <1>1, <1>3, <1>4, Zenon

(* The invariant holds of the first states.                                  *)
LEMMA RefreshInvHolds ==
  ASSUME RefreshAssumption, RefreshInit
  PROVE  RefreshInv
<1>1. \A c \in Callers : caller[c] = Idle
  BY DEF RefreshInit
<1>2. Idle.pc = "idle" /\ Idle.answer = None
  BY DEF Idle
<1>3. CallsTyped
  BY <1>1, IdleTyped, Zenon DEF RefreshInit, CallsTyped
<1>4. RefreshTypeOK
  BY <1>1, <1>2, SMT DEF RefreshInit, RefreshTypeOK, RefreshAssumption, Leading
<1>5. OwnUsage /\ CallsInProgress
  BY <1>1, <1>2, SMT DEF OwnUsage, CallsInProgress, Leading
<1>. QED BY <1>3, <1>4, <1>5 DEF RefreshInv

(* Every step of a call, and what happens to profiles meanwhile, keeps it.   *)
LEMMA RefreshStepKeeps ==
  ASSUME RefreshInv, [RefreshNext]_refreshVars, RefreshAssumption PROVE RefreshInv'
<1> USE RefreshAssumption DEF RefreshAssumption, RefreshInv, RefreshTypeOK, OwnUsage,
     CallsTyped, CallsInProgress, Leading, RefreshStep, RefreshTo, Failed
<1>1. CASE UNCHANGED refreshVars
  <2>1. /\ RefreshTypeOK' /\ OwnUsage' /\ CallsTyped' /\ CallsInProgress'
    BY <1>1, SMTT(20) DEF refreshVars
  <2>. QED BY <2>1, SMT DEF RefreshInv
<1>2. ASSUME NEW c \in Callers, NEW a \in Aliases, Refresh(c, a)
      PROVE  RefreshInv'
  <2>a. PICK q \in Call :
            /\ RefreshStep(c, q) /\ q.answer = None
            /\ \/ q.pc = "answered"
               \/ q.pc = "resolved" /\ q.profile \in Profiles
    BY <1>2, RefreshMakes
  <2>b. /\ caller' \in [Callers -> Call] /\ caller'[c] = q
        /\ \A d \in Callers \ {c} : caller'[d] = caller[d]
    BY <2>a, StepTyped
  <2>c. /\ UNCHANGED <<named, status, inflight, collecting, stored>>
        /\ caller[c].pc \in {"idle", "answered"}
    BY <1>2 DEF Refresh
  <2>1. /\ RefreshTypeOK' /\ OwnUsage' /\ CallsTyped' /\ CallsInProgress'
    BY <2>a, <2>b, <2>c, SMTT(20)
  <2>. QED BY <2>1, SMT DEF RefreshInv
<1>3. ASSUME NEW c \in Callers, Join(c)
      PROVE  RefreshInv'
  <2>1. /\ RefreshTypeOK' /\ OwnUsage'
    BY <1>3, SMTT(20) DEF Join, Call
  <2>2. CallsTyped'
    <3>1. inflight[caller[c].profile] \in Callers /\ caller[c] \in Call /\ "joined" \in Places
      BY <1>3, SMT DEF Join, Places
    <3>2. [caller[c] EXCEPT !.pc = "joined", !.leader = inflight[caller[c].profile]] \in Call
      BY <3>1, JoinTyped, Zenon
    <3>. QED BY <3>2, <1>3, StepTyped DEF Join
  <2>3. CallsInProgress'
    BY <1>3, SMTT(20) DEF Join, Call
  <2>. QED BY <2>1, <2>2, <2>3, SMT DEF RefreshInv
<1>4. ASSUME NEW c \in Callers, Lead(c)
      PROVE  RefreshInv'
  BY <1>4, SMTT(20) DEF Lead, Call
<1>5. ASSUME NEW c \in Callers, StartCollection(c)
      PROVE  RefreshInv'
  BY <1>5, SMTT(20) DEF StartCollection, Call
<1>6. ASSUME NEW c \in Callers, CollectUsage(c)
      PROVE  RefreshInv'
  <2>1. /\ RefreshTypeOK' /\ OwnUsage'
    BY <1>6, SMTT(20) DEF CollectUsage, Call
  <2>2. CallsTyped'
    <3>1. PICK ok \in BOOLEAN : RefreshStep(c, [caller[c] EXCEPT !.pc = "save", !.ok = ok])
      BY <1>6 DEF CollectUsage
    <3>2. caller[c] \in Call /\ "save" \in Places
      BY SMT DEF Places
    <3>3. [caller[c] EXCEPT !.pc = "save", !.ok = ok] \in Call
      BY <3>2, CollectTyped, Zenon
    <3>. QED BY <3>1, <3>3, <1>6, StepTyped DEF CollectUsage
  <2>3. CallsInProgress'
    BY <1>6, SMTT(20) DEF CollectUsage, Call
  <2>. QED BY <2>1, <2>2, <2>3, SMT DEF RefreshInv
<1>7. ASSUME NEW c \in Callers, SaveUsageSnapshot(c)
      PROVE  RefreshInv'
  <2>a. PICK q \in Call :
            /\ RefreshStep(c, q)
            /\ q.profile = caller[c].profile
            /\ q.answer \in {caller[c].answer, caller[c].profile}
            /\ \/ q.pc = "publish" /\ collecting' = None
               \/ q.pc = "reread" /\ UNCHANGED collecting
    <3>1. caller[c].profile \in Profiles
      BY <1>7, SMT DEF SaveUsageSnapshot
    <3>. QED BY <3>1, <1>7, SaveMakes
  <2>b. /\ caller' \in [Callers -> Call] /\ caller'[c] = q
        /\ \A d \in Callers \ {c} : caller'[d] = caller[d]
    BY <2>a, StepTyped
  <2>c. /\ UNCHANGED <<named, status, inflight>> /\ stored' \subseteq Profiles
        /\ caller[c].pc = "save"
    BY <1>7, SMT DEF SaveUsageSnapshot
  <2>1. /\ RefreshTypeOK' /\ OwnUsage' /\ CallsTyped' /\ CallsInProgress'
    BY <2>a, <2>b, <2>c, SMTT(20)
  <2>. QED BY <2>1, SMT DEF RefreshInv
<1>8. ASSUME NEW c \in Callers, RereadFailure(c)
      PROVE  RefreshInv'
  <2>a. PICK q \in Call :
            /\ RefreshStep(c, q) /\ q.pc = "publish"
            /\ q.profile = caller[c].profile
            /\ q.answer \in {caller[c].answer, caller[c].profile}
    <3>1. caller[c].profile \in Profiles
      BY <1>8, SMT DEF RereadFailure
    <3>. QED BY <3>1, <1>8, RereadMakes
  <2>b. /\ caller' \in [Callers -> Call] /\ caller'[c] = q
        /\ \A d \in Callers \ {c} : caller'[d] = caller[d]
    BY <2>a, StepTyped
  <2>c. /\ UNCHANGED <<named, status, inflight, stored>> /\ collecting' = None
        /\ caller[c].pc = "reread"
    BY <1>8 DEF RereadFailure
  <2>1. /\ RefreshTypeOK' /\ OwnUsage' /\ CallsTyped' /\ CallsInProgress'
    BY <2>a, <2>b, <2>c, SMTT(20)
  <2>. QED BY <2>1, SMT DEF RefreshInv
<1>9. ASSUME NEW c \in Callers, Publish(c)
      PROVE  RefreshInv'
  <2>a. /\ caller' \in [Callers -> Call]
        /\ \A d \in Callers :
               IF d = c \/ d \in Waiters(c)
               THEN /\ caller'[d].pc = "answered" /\ caller'[d].answer = caller[c].answer
                    /\ caller'[d].profile = caller[d].profile
               ELSE caller'[d] = caller[d]
    BY <1>9, PublishMakes
  <2>b. /\ inflight' = [inflight EXCEPT ![caller[c].profile] = None]
        /\ UNCHANGED <<named, status, collecting, stored>>
        /\ caller[c].pc = "publish"
    BY <1>9 DEF Publish
  <2>1. /\ RefreshTypeOK' /\ OwnUsage' /\ CallsTyped' /\ CallsInProgress'
    BY <2>a, <2>b, SMTT(20) DEF Waiters
  <2>. QED BY <2>1, SMT DEF RefreshInv
<1>10. ASSUME NEW c \in Callers, GiveUp(c)
      PROVE  RefreshInv'
  <2>1. /\ RefreshTypeOK' /\ OwnUsage'
    BY <1>10, SMTT(20) DEF GiveUp, Call
  <2>2. CallsTyped'
    <3>1. caller[c] \in Call /\ "answered" \in Places /\ "cancelled" \in Errors
      BY SMT DEF Places, Errors
    <3>2. [caller[c] EXCEPT !.pc = "answered", !.error = "cancelled"] \in Call
      BY <3>1, FailedTyped, Zenon
    <3>. QED BY <3>2, <1>10, StepTyped DEF GiveUp
  <2>3. CallsInProgress'
    BY <1>10, SMTT(20) DEF GiveUp, Call
  <2>. QED BY <2>1, <2>2, <2>3, SMT DEF RefreshInv
<1>11. ASSUME NEW a \in Aliases, NEW b \in Aliases, Rename(a, b)
      PROVE  RefreshInv'
  BY <1>11, SMTT(20) DEF Rename
<1>12. ASSUME NEW p \in Profiles, Quarantine(p)
      PROVE  RefreshInv'
  BY <1>12, SMTT(20) DEF Quarantine
<1>13. ASSUME NEW p \in Profiles, Unquarantine(p)
      PROVE  RefreshInv'
  BY <1>13, SMTT(20) DEF Unquarantine
<1>14. ASSUME NEW p \in Profiles, PurgeProfile(p)
      PROVE  RefreshInv'
  BY <1>14, SMTT(20) DEF PurgeProfile
<1>15. CASE ClearHistory
  BY <1>15, SMTT(20) DEF ClearHistory
<1>. QED BY <1>1, <1>2, <1>3, <1>4, <1>5, <1>6, <1>7, <1>8, <1>9, <1>10,
   <1>11, <1>12, <1>13, <1>14, <1>15 DEF RefreshNext, Serve

(* A snapshot is only ever stored of a profile that is there.                *)
StoresKept == \A p \in stored' \ stored : status[p] # "purged"

(* Every other step adds nothing to what is stored.                          *)
LEMMA OnlyKeptIsStored ==
  ASSUME [RefreshNext]_refreshVars PROVE StoresKept
<1>1. ASSUME NEW c \in Callers, SaveUsageSnapshot(c) PROVE StoresKept
  BY <1>1, Zenon DEF SaveUsageSnapshot, Takes, StoresKept
<1>2. CASE UNCHANGED stored
  BY <1>2, Zenon DEF StoresKept
<1>3. CASE ClearHistory
  BY <1>3, SMT DEF ClearHistory, StoresKept
<1>4. ASSUME NEW c \in Callers, Serve(c) \/ CollectUsage(c) PROVE StoresKept
  BY <1>1, <1>2, <1>4, Zenon DEF Serve, Join, Lead, StartCollection, CollectUsage,
     RereadFailure, Publish
<1>5. ASSUME NEW c \in Callers, NEW a \in Aliases, Refresh(c, a) PROVE StoresKept
  BY <1>2, <1>5 DEF Refresh
<1>6. ASSUME NEW c \in Callers, GiveUp(c) PROVE StoresKept
  BY <1>2, <1>6 DEF GiveUp
<1>7. ASSUME NEW a \in Aliases, NEW b \in Aliases, Rename(a, b) PROVE StoresKept
  BY <1>2, <1>7 DEF Rename
<1>8. ASSUME NEW p \in Profiles, Quarantine(p) \/ Unquarantine(p) \/ PurgeProfile(p)
      PROVE  StoresKept
  BY <1>2, <1>8 DEF Quarantine, Unquarantine, PurgeProfile
<1>9. CASE UNCHANGED refreshVars
  BY <1>2, <1>9 DEF refreshVars
<1>. QED BY <1>3, <1>4, <1>5, <1>6, <1>7, <1>8, <1>9 DEF RefreshNext

(* What a caller is answered is the usage of the profile its alias named     *)
(* when it asked, and a purged profile gets no snapshot: for any number of   *)
(* callers, aliases and profiles.  usage.go:357, store/usage.go:170.         *)
THEOREM UsageIsOfAskedProfile ==
  ASSUME RefreshAssumption PROVE RefreshSpec => UsageOfAskedProfile
<1>1. RefreshInit => RefreshInv
  BY RefreshInvHolds
<1>2. RefreshInv /\ [RefreshNext]_refreshVars => RefreshInv'
  BY RefreshStepKeeps
<1>3. RefreshInv => RefreshTypeOK /\ OwnUsage
  BY DEF RefreshInv
<1>4. [RefreshNext]_refreshVars => [StoresKept]_refreshVars
  BY OnlyKeptIsStored
<1>5. RefreshSpec => [](RefreshTypeOK /\ OwnUsage)
  BY <1>1, <1>2, <1>3, PTL DEF RefreshSpec
<1>6. RefreshSpec => [][StoresKept]_refreshVars
  BY <1>4, PTL DEF RefreshSpec
<1>. QED BY <1>5, <1>6 DEF UsageOfAskedProfile, PurgedStaySilent, StoresKept

-----------------------------------------------------------------------------
(* Checks for a newer version.                                               *)

UpdateSpec == UpdateInit /\ [][UpdateNext]_updateVars

(* The constant lists the versions in their order.                           *)
VersionsInOrder ==
    \A i, j \in DOMAIN Versions : i < j => CompareVersions(Versions[i], Versions[j]) <= 0

ResultTyped ==
    /\ running \in Published /\ automatic \in BOOLEAN /\ checkTime \in 0..MaxCheckTime
    /\ checking \subseteq Checkers
    /\ result # NoResult => result \in Results
    /\ lastAutomatic # NoResult => lastAutomatic \in AutomaticResults

(* What is stored was concluded by the version it names, and it asks for     *)
(* patience of at least the shorter interval.                                *)
ResultConcluded ==
    result # NoResult =>
        /\ result.status = "update_available" <=> result.available # NoResult
        /\ result.available # NoResult => result.available.place > result.version.place
        /\ result.checkedAt <= checkTime /\ result.nextAt >= result.checkedAt + FailureRetryInterval

(* After an automatic result the same version stores only what is due as     *)
(* late, or later.                                                           *)
AutomaticRemembered ==
    lastAutomatic # NoResult =>
        /\ lastAutomatic.at <= checkTime
        /\ result # NoResult /\ result.version = lastAutomatic.version
        /\ result.nextAt >= lastAutomatic.at + FailureRetryInterval

UpdateInv == ResultTyped /\ ResultConcluded /\ AutomaticRemembered

(* No version is newer than itself.                                          *)
LEMMA NotNewerThanItself ==
  ASSUME NEW v PROVE CompareVersions(v, v) = 0
<1>1. \A q : Differing(q, q) = {} BY DEF Differing
<1>. QED BY <1>1 DEF CompareVersions, ComparePreReleases

(* A comparison says -1, 0 or 1.                                             *)
LEMMA ComparisonSigned ==
  ASSUME NEW l, NEW r PROVE CompareVersions(l, r) \in {-1, 0, 1}
<1>1. \A less : SignOf(less) \in {-1, 0, 1} BY DEF SignOf
<1>2. \A a, b : CompareIdentifiers(a, b) \in {-1, 0, 1} BY <1>1 DEF CompareIdentifiers
<1>3. ComparePreReleases(l.pre, r.pre) \in {-1, 0, 1}
  BY <1>1, <1>2 DEF ComparePreReleases
<1>. QED BY <1>1, <1>3 DEF CompareVersions

(* What is newer comes later in the list.                                    *)
LEMMA NewerIsLater ==
  ASSUME UpdateAssumption, VersionsInOrder,
         NEW offered \in Published, NEW current \in Published, Newer(offered, current)
  PROVE  offered.place > current.place
<1>1. offered.place \in DOMAIN Versions /\ current.place \in DOMAIN Versions BY DEF Published
<1>2. CompareVersions(Versions[offered.place], Versions[current.place]) > 0 BY DEF Newer
<1>3. CASE offered.place = current.place BY <1>1, <1>2, <1>3, NotNewerThanItself
<1>4. CASE offered.place < current.place BY <1>1, <1>2, <1>4, ComparisonSigned DEF VersionsInOrder
<1>. QED BY <1>1, <1>3, <1>4 DEF UpdateAssumption

LEMMA UpdateBegins ==
  ASSUME UpdateAssumption, UpdateInit PROVE UpdateInv
<1>1. checkTime \in 0..MaxCheckTime BY DEF UpdateAssumption, UpdateInit
<1>2. automatic \in BOOLEAN BY DEF UpdateInit
<1>. QED BY <1>1, <1>2 DEF UpdateInit, UpdateInv, ResultTyped, ResultConcluded, AutomaticRemembered

(* A result that is stored is of the version that runs.                      *)
LEMMA RecordFacts ==
  ASSUME UpdateAssumption, ResultTyped, NEW verdict \in {"failed", "up_to_date", "update_available"},
         NEW available \in Published \cup {NoResult}
  PROVE  /\ Record(verdict, available) \in Results /\ Record(verdict, available) # NoResult
         /\ Record(verdict, available).version = running /\ Record(verdict, available).status = verdict
         /\ Record(verdict, available).available = available
         /\ Record(verdict, available).checkedAt = checkTime
         /\ Record(verdict, available).nextAt >= checkTime + FailureRetryInterval
<1>1. checkTime \in Nat /\ running \in Published BY DEF ResultTyped, UpdateAssumption
<1>2. (IF verdict = "failed" THEN FailureRetryInterval ELSE NormalCheckInterval) \in Nat
      /\ (IF verdict = "failed" THEN FailureRetryInterval ELSE NormalCheckInterval) >= FailureRetryInterval
  BY DEF UpdateAssumption
<1>3. Record(verdict, available) \in Results BY <1>1, <1>2 DEF Record, Results
<1>4. Record(verdict, available) # NoResult BY <1>3 DEF UpdateAssumption
<1>. QED BY <1>1, <1>2, <1>3, <1>4 DEF Record, UpdateAssumption

LEMMA PerformKeeps ==
  ASSUME UpdateAssumption, VersionsInOrder, UpdateInv,
         NEW c \in Checkers, Perform(c)
  PROVE  UpdateInv'
<1>1. /\ UNCHANGED <<running, automatic, checkTime>> /\ checking' \subseteq Checkers /\ ResultTyped
      /\ checkTime \in Nat /\ running \in Published /\ FailureRetryInterval \in Nat
  BY DEF Perform, UpdateInv, ResultTyped, UpdateAssumption
<1>2. CASE UNCHANGED <<result, lastAutomatic>>
  BY <1>1, <1>2 DEF UpdateInv, ResultTyped, ResultConcluded, AutomaticRemembered
<1>3. ASSUME NEW verdict \in {"failed", "up_to_date", "update_available"},
             NEW available \in Published \cup {NoResult}, result' = Record(verdict, available),
             verdict = "update_available" <=> available # NoResult,
             available # NoResult => available.place > running.place,
             lastAutomatic' = IF c = Scheduler THEN [version |-> running, at |-> checkTime]
                              ELSE LastAutomaticOf(running)
      PROVE  UpdateInv'
  <2>1. /\ result' \in Results /\ result' # NoResult /\ result'.version = running
        /\ result'.status = verdict /\ result'.available = available
        /\ result'.checkedAt = checkTime /\ result'.nextAt >= checkTime + FailureRetryInterval
        /\ result'.nextAt \in Nat
    BY <1>1, <1>3, RecordFacts DEF Results
  <2>2. ResultConcluded' BY <1>1, <1>3, <2>1 DEF ResultConcluded
  <2>3. ASSUME lastAutomatic' # NoResult
        PROVE  lastAutomatic' \in AutomaticResults /\ lastAutomatic'.at <= checkTime
                  /\ lastAutomatic'.version = running
    <3>1. CASE c = Scheduler BY <3>1, <1>1, <1>3 DEF AutomaticResults
    <3>2. CASE c # Scheduler
      <4>1. lastAutomatic' = lastAutomatic /\ lastAutomatic.version = running
        BY <3>2, <1>3, <2>3 DEF LastAutomaticOf
      <4>. QED BY <4>1, <2>3 DEF UpdateInv, ResultTyped, AutomaticRemembered
    <3>. QED BY <3>1, <3>2
  <2>4. AutomaticRemembered'
    <3>1. SUFFICES ASSUME lastAutomatic' # NoResult
                   PROVE  result'.nextAt >= lastAutomatic'.at + FailureRetryInterval
      BY <1>1, <2>1, <2>3 DEF AutomaticRemembered
    <3>2. lastAutomatic'.at \in Nat /\ lastAutomatic'.at <= checkTime BY <3>1, <2>3 DEF AutomaticResults
    <3>. QED BY <3>2, <2>1, <1>1
  <2>5. ResultTyped' BY <1>1, <2>1, <2>3 DEF ResultTyped
  <2>. QED BY <2>2, <2>4, <2>5 DEF UpdateInv
<1>4. NoResult \notin Published BY DEF UpdateAssumption
<1>5. CASE result' = Record("failed", NoResult) /\ ~UNCHANGED <<result, lastAutomatic>>
  BY <1>3, <1>4, <1>5 DEF Perform
<1>6. ASSUME NEW offered \in Published,
             result' = IF Newer(offered, running) THEN Record("update_available", offered)
                       ELSE Record("up_to_date", NoResult),
             ~UNCHANGED <<result, lastAutomatic>>
      PROVE  UpdateInv'
  <2>1. lastAutomatic' = IF c = Scheduler THEN [version |-> running, at |-> checkTime]
                         ELSE LastAutomaticOf(running)
    BY <1>6 DEF Perform
  <2>2. CASE Newer(offered, running)
    BY <2>1, <2>2, <1>1, <1>3, <1>4, <1>6, NewerIsLater
  <2>3. CASE ~Newer(offered, running)
    BY <2>1, <2>3, <1>3, <1>4, <1>6
  <2>. QED BY <2>2, <2>3
<1>. QED BY <1>2, <1>5, <1>6 DEF Perform

LEMMA UpdateStepKeeps ==
  ASSUME UpdateAssumption, VersionsInOrder, UpdateInv,
         [UpdateNext]_updateVars
  PROVE  UpdateInv'
<1>1. CASE SetAutomatic
  BY <1>1 DEF SetAutomatic, UpdateInv, ResultTyped, ResultConcluded, AutomaticRemembered
<1>2. ASSUME NEW c \in Checkers, Check(c) PROVE UpdateInv'
  BY <1>2 DEF Check, UpdateInv, ResultTyped, ResultConcluded, AutomaticRemembered
<1>3. CASE CheckAutomatic BY <1>2, <1>3 DEF CheckAutomatic, Checkers
<1>4. CASE StartVersion
  BY <1>4 DEF StartVersion, UpdateInv, ResultTyped, ResultConcluded, AutomaticRemembered
<1>5. CASE PassCheckTime
  <2>1. /\ UNCHANGED <<running, automatic, result, checking, lastAutomatic>>
        /\ checkTime' = checkTime + 1 /\ checkTime \in Nat /\ checkTime' \in 0..MaxCheckTime
    BY <1>5 DEF PassCheckTime, UpdateInv, ResultTyped, UpdateAssumption
  <2>2. result # NoResult => result.checkedAt \in Nat BY DEF UpdateInv, ResultTyped, Results
  <2>3. lastAutomatic # NoResult => lastAutomatic.at \in Nat
    BY DEF UpdateInv, ResultTyped, AutomaticResults
  <2>. QED BY <2>1, <2>2, <2>3 DEF UpdateInv, ResultTyped, ResultConcluded, AutomaticRemembered
<1>6. ASSUME NEW c \in Checkers, Perform(c) PROVE UpdateInv'
  BY <1>6, PerformKeeps
<1>7. CASE UNCHANGED updateVars
  BY <1>7 DEF updateVars, UpdateInv, ResultTyped, ResultConcluded, AutomaticRemembered
<1>. QED BY <1>1, <1>2, <1>3, <1>4, <1>5, <1>6, <1>7 DEF UpdateNext, Checkers

LEMMA UpdateInvGives ==
  ASSUME UpdateAssumption, UpdateInv PROVE UpdateTypeOK /\ OfferIsNewer
<1>1. result # NoResult => result.nextAt > result.checkedAt
  BY DEF UpdateInv, ResultTyped, ResultConcluded, Results, UpdateAssumption
<1>2. UpdateTypeOK
  BY <1>1 DEF UpdateInv, ResultTyped, ResultConcluded, AutomaticRemembered, UpdateTypeOK, Results
<1>3. OfferIsNewer
  BY DEF OfferIsNewer, Offered, CurrentState, UpdateInv, ResultConcluded
<1>. QED BY <1>2, <1>3

(* A check that the scheduler starts is due.                                 *)
LEMMA AutomaticIsDue ==
  ASSUME UpdateAssumption, UpdateInv, [UpdateNext]_updateVars,
         Scheduler \notin checking, Scheduler \in checking',
         lastAutomatic # NoResult, lastAutomatic.version = running
  PROVE  checkTime >= lastAutomatic.at + FailureRetryInterval
<1>1. CheckAutomatic
  <2>1. \A c \in ManualCheckers : ~Check(c) BY DEF Check, UpdateAssumption
  <2>2. \A c \in Checkers : ~Perform(c) BY DEF Perform
  <2>3. ~SetAutomatic /\ ~StartVersion /\ ~PassCheckTime /\ ~UNCHANGED updateVars
    BY DEF SetAutomatic, StartVersion, PassCheckTime, updateVars
  <2>. QED BY <2>1, <2>2, <2>3 DEF UpdateNext
<1>2. CurrentState = result /\ result # NoResult
  BY DEF UpdateInv, AutomaticRemembered, CurrentState
<1>3. checkTime >= result.nextAt BY <1>1, <1>2 DEF CheckAutomatic, Due
<1>4. /\ checkTime \in Nat /\ result.nextAt \in Nat /\ lastAutomatic.at \in Nat
      /\ FailureRetryInterval \in Nat
  BY <1>2 DEF UpdateInv, ResultTyped, Results, AutomaticResults, UpdateAssumption
<1>. QED BY <1>3, <1>4 DEF UpdateInv, AutomaticRemembered

(* What is offered is newer than what runs, and automatic checks keep their  *)
(* distance, whatever versions are started and whatever checks a user makes  *)
(* in between: updates/service.go:199, :213, :387.                           *)
THEOREM ChecksAreKept ==
  ASSUME UpdateAssumption, VersionsInOrder
  PROVE  UpdateSpec => ChecksKept
<1>1. UpdateInit => UpdateInv
  BY UpdateBegins
<1>2. UpdateInv /\ [UpdateNext]_updateVars => UpdateInv'
  BY UpdateStepKeeps
<1>3. UpdateInv => UpdateTypeOK /\ OfferIsNewer
  BY UpdateInvGives
<1>4. UpdateInv /\ [UpdateNext]_updateVars =>
        [(Scheduler \notin checking /\ Scheduler \in checking'
            /\ lastAutomatic # NoResult /\ lastAutomatic.version = running)
          => checkTime >= lastAutomatic.at + FailureRetryInterval]_updateVars
  BY AutomaticIsDue
<1>5. UpdateSpec => [](UpdateTypeOK /\ OfferIsNewer)
  BY <1>1, <1>2, <1>3, PTL DEF UpdateSpec
<1>6. UpdateSpec => AutomaticSpaced
  BY <1>1, <1>2, <1>4, PTL DEF UpdateSpec, AutomaticSpaced
<1>. QED BY <1>5, <1>6 DEF ChecksKept

-----------------------------------------------------------------------------
(***************************************************************************)
(* What is sent was recorded under the consent in force: proved for queues *)
(* of any length and for any number of changes of consent.  An event names *)
(* the epoch it was recorded in; the invariant says what an epoch stands   *)
(* for, and that an attempt the worker has not been told to give up is for *)
(* an event that may still be sent.                                        *)
(***************************************************************************)

Events == [id : Nat, epoch : Nat, withdrawn : Nat, schema : Nat]
WorkerPcs == {"idle", "event", "deletion", "sending", "deleting", "ended"}
Workers == [pc : WorkerPcs, item : Events \cup Nat \cup {NoItem},
            ready : BOOLEAN, cancelled : BOOLEAN]

ConsentTyped ==
    /\ consent \in Consents /\ installation \in Nat /\ schema \in 1..2
    /\ consent.enabled => installation # 0 /\ consent.schema \in 1..schema
    /\ ~consent.enabled => consent = NoConsent
    /\ kept = [consent |-> consent, installation |-> installation]
    /\ epoch \in Nat /\ ready \in BOOLEAN /\ closed \in BOOLEAN
    /\ withdrawn \in 0..asked /\ asked \in 0..MaxConsents

QueuesTyped ==
    /\ events \in Seq(Events) /\ Len(events) <= QueueCapacity
    /\ deletions \in Seq(Nat) /\ Len(deletions) <= QueueCapacity
    /\ \A i \in DOMAIN deletions : deletions[i] \in 1..installation

WorkerTyped ==
    /\ worker \in Workers
    /\ worker.pc \in {"event", "sending"} => worker.item \in Events
    /\ worker.pc = "ended" => closed

(* An event that may be sent as things stand.                              *)
Allowed(item) ==
    /\ consent.enabled
    /\ withdrawn = item.withdrawn
    /\ installation = item.id
    /\ item.schema = schema

(* No event is of a later epoch than the present one, and one of the       *)
(* present epoch may be sent as long as consent is given at all.           *)
EpochsTell ==
    \A i \in 1..Len(events) :
        /\ events[i].epoch <= epoch
        /\ events[i].epoch = epoch /\ consent.enabled => Allowed(events[i])

(* What the worker has not been told to give up may be sent.               *)
AttemptAllowed ==
    worker.pc \in {"event", "sending"} /\ ~worker.cancelled => Allowed(worker.item)

SharedAllowed == shared = NoItem \/ shared.allowed = TRUE

IInv ==
    /\ ConsentTyped /\ QueuesTyped /\ WorkerTyped
    /\ EpochsTell /\ AttemptAllowed /\ SharedAllowed

-----------------------------------------------------------------------------
(* Queues and attempts.                                                    *)

LEMMA TailOfEvents ==
  ASSUME NEW q \in Seq(Events), q # <<>>
  PROVE  /\ Tail(q) \in Seq(Events) /\ Len(Tail(q)) = Len(q) - 1
         /\ Head(q) = q[1] /\ 1 \in 1..Len(q) /\ Head(q) \in Events
         /\ \A i \in 1..Len(Tail(q)) : i + 1 \in 1..Len(q) /\ Tail(q)[i] = q[i + 1]
OBVIOUS

LEMMA TailOfDeletions ==
  ASSUME NEW q \in Seq(Nat), q # <<>>
  PROVE  /\ Tail(q) \in Seq(Nat) /\ Len(Tail(q)) = Len(q) - 1
         /\ Head(q) = q[1] /\ 1 \in DOMAIN q /\ Head(q) \in Nat
         /\ \A i \in DOMAIN Tail(q) : i + 1 \in DOMAIN q /\ Tail(q)[i] = q[i + 1]
OBVIOUS

LEMMA AppendTyped ==
  ASSUME NEW S, NEW q \in Seq(S), NEW e \in S
  PROVE  /\ Append(q, e) \in Seq(S) /\ Len(Append(q, e)) = Len(q) + 1
         /\ \A i \in 1..Len(Append(q, e)) :
               \/ i \in 1..Len(q) /\ Append(q, e)[i] = q[i]
               \/ i = Len(q) + 1 /\ Append(q, e)[i] = e
OBVIOUS

LEMMA WorkerTypes ==
  /\ WorkerIdle \in Workers /\ WorkerIdle.pc = "idle"
  /\ \A pc \in WorkerPcs, item \in Events \cup Nat :
        /\ Working(pc, item) \in Workers
        /\ Working(pc, item).pc = pc /\ Working(pc, item).item = item
BY DEF WorkerIdle, Workers, WorkerPcs, Working

(* A user's request leaves what the worker is at; it may cancel it.        *)
LEMMA CancelTyped ==
  ASSUME WorkerTyped, CancelEvent, closed' = closed
  PROVE  /\ WorkerTyped'
         /\ worker'.pc = worker.pc /\ worker'.item = worker.item
         /\ worker'.pc \in {"event", "sending"} => worker'.cancelled
BY DEF WorkerTyped, CancelEvent, Workers, WorkerPcs

(* A deletion is queued for an identifier there has been.                  *)
LEMMA QueueDeletionTyped ==
  ASSUME ConsentTyped, QueuesTyped, TelemetryAssumption,
         QueueDeletion(installation),
         installation' \in Nat, installation' >= installation
  PROVE  /\ deletions' \in Seq(Nat) /\ Len(deletions') <= QueueCapacity
         /\ \A i \in DOMAIN deletions' : deletions'[i] \in 1..installation'
<1>1. CASE installation # 0 /\ ready /\ Len(deletions) < QueueCapacity
  <2>1. deletions' = Append(deletions, installation)
    BY <1>1 DEF QueueDeletion
  <2>2. DOMAIN deletions' = 1..Len(deletions') /\ DOMAIN deletions = 1..Len(deletions)
    BY <2>1, AppendTyped DEF QueuesTyped, ConsentTyped
  <2> QED BY <1>1, <2>1, <2>2, AppendTyped DEF QueuesTyped, ConsentTyped, TelemetryAssumption
<1>2. CASE ~(installation # 0 /\ ready /\ Len(deletions) < QueueCapacity)
  BY <1>2 DEF QueueDeletion, QueuesTyped, ConsentTyped
<1> QED BY <1>1, <1>2

-----------------------------------------------------------------------------
(* What the user asks for.                                                 *)

LEMMA StoreTyped ==
  ASSUME NEW c \in Consents, NEW id \in Nat,
         ConsentTyped, TelemetryAssumption, Store(c, id),
         c.enabled => id # 0 /\ c.schema \in 1..schema, ~c.enabled => c = NoConsent,
         schema' = schema, ready' \in BOOLEAN, closed' = closed,
         withdrawn' \in {withdrawn, withdrawn + 1}
  PROVE  ConsentTyped'
BY DEF ConsentTyped, Store, TelemetryAssumption

LEMMA EnableStep ==
  ASSUME IInv, TelemetryAssumption, Enable
  PROVE  IInv'
<1> DEFINE c == [enabled |-> TRUE, schema |-> schema]
           id == IF installation = 0 THEN 1 ELSE installation
<1>1. c \in Consents /\ id \in Nat /\ id # 0 /\ c.enabled /\ c.schema \in 1..schema
  BY DEF IInv, ConsentTyped, Consents
<1>2. Store(c, id) /\ schema' = schema /\ ready' = TRUE /\ closed' = closed
      /\ withdrawn' = withdrawn /\ UNCHANGED <<events, deletions, worker, shared>>
  BY DEF Enable
<1>3. consent' = c /\ installation' = id /\ epoch' = epoch + 1
  BY <1>2 DEF Store
<1>4. ConsentTyped'
  BY <1>1, <1>2, StoreTyped DEF IInv
<1>5. installation' >= installation /\ installation' \in Nat
      /\ (installation # 0 => installation' = installation)
  BY <1>3 DEF IInv, ConsentTyped
<1>6. QueuesTyped'
  <2>1. \A i \in DOMAIN deletions : deletions[i] \in 1..installation'
    BY <1>5 DEF IInv, QueuesTyped, ConsentTyped
  <2> QED BY <1>2, <2>1 DEF IInv, QueuesTyped
<1>7. WorkerTyped' /\ SharedAllowed'
  BY <1>2 DEF IInv, WorkerTyped, SharedAllowed
<1>8. EpochsTell'
  <2>1. \A i \in 1..Len(events) : events[i].epoch \in Nat
    <3>1. \A i \in 1..Len(events) : events[i] \in Events
      BY DEF IInv, QueuesTyped
    <3> QED BY <3>1 DEF Events
  <2> QED BY <1>2, <1>3, <2>1 DEF IInv, EpochsTell, ConsentTyped
<1>9. AttemptAllowed'
  BY <1>2, <1>3, <1>5 DEF IInv, AttemptAllowed, Allowed, ConsentTyped
<1> QED BY <1>4, <1>6, <1>7, <1>8, <1>9 DEF IInv

(* Consent revoked or an identifier replaced: no attempt survives it, and  *)
(* what is queued is of an earlier epoch.                                  *)
LEMMA WithdrawalStep ==
  ASSUME NEW c \in Consents, NEW id \in Nat,
         IInv, TelemetryAssumption, Store(c, id), id >= installation,
         c.enabled => id # 0 /\ c.schema \in 1..schema, ~c.enabled => c = NoConsent,
         CancelEvent, QueueDeletion(installation), withdrawn' = withdrawn + 1,
         UNCHANGED <<schema, ready, events, closed, shared>>
  PROVE  IInv'
<1>1. consent' = c /\ installation' = id /\ epoch' = epoch + 1
  BY DEF Store
<1>2. ConsentTyped'
  <2>1. ConsentTyped /\ ready' \in BOOLEAN
    BY DEF IInv, ConsentTyped
  <2> QED BY <2>1, StoreTyped
<1>3. QueuesTyped'
  BY <1>1, QueueDeletionTyped DEF IInv, QueuesTyped
<1>4. WorkerTyped' /\ AttemptAllowed'
  BY CancelTyped DEF IInv, AttemptAllowed
<1>5. SharedAllowed'
  BY DEF IInv, SharedAllowed
<1>6. EpochsTell'
  <2>1. \A i \in 1..Len(events) : events[i].epoch \in Nat
    <3>1. \A i \in 1..Len(events) : events[i] \in Events
      BY DEF IInv, QueuesTyped
    <3> QED BY <3>1 DEF Events
  <2> QED BY <1>1, <2>1 DEF IInv, EpochsTell, ConsentTyped
<1> QED BY <1>2, <1>3, <1>4, <1>5, <1>6 DEF IInv

LEMMA RevokeStep ==
  ASSUME IInv, TelemetryAssumption, Revoke
  PROVE  IInv'
<1>1. NoConsent \in Consents /\ ~NoConsent.enabled
  BY DEF NoConsent, Consents
<1>2. installation \in Nat /\ installation >= installation
  BY DEF IInv, ConsentTyped
<1> QED BY <1>1, <1>2, WithdrawalStep DEF Revoke

LEMMA ResetStep ==
  ASSUME IInv, TelemetryAssumption, ResetInstallationID
  PROVE  IInv'
<1>1. /\ consent \in Consents /\ installation + 1 \in Nat /\ installation + 1 >= installation
      /\ installation + 1 # 0
      /\ consent.enabled => consent.schema \in 1..schema
      /\ ~consent.enabled => consent = NoConsent
  BY DEF IInv, ConsentTyped
<1> QED BY <1>1, WithdrawalStep DEF ResetInstallationID

LEMMA RecordEventStep ==
  ASSUME IInv, TelemetryAssumption, RecordEvent
  PROVE  IInv'
<1> DEFINE e == [id |-> installation, epoch |-> epoch,
                 withdrawn |-> withdrawn, schema |-> consent.schema]
<1>1. e \in Events /\ events \in Seq(Events)
  BY DEF IInv, ConsentTyped, QueuesTyped, Events, Consents
<1>2. consent.enabled /\ consent.schema = schema /\ Len(events) < QueueCapacity
      /\ events' = Append(events, e)
      /\ UNCHANGED <<consent, installation, kept, schema, epoch, ready, deletions, worker,
                     closed, withdrawn, asked, shared>>
  BY DEF RecordEvent, MayRecord
<1>3. ConsentTyped' /\ WorkerTyped' /\ AttemptAllowed' /\ SharedAllowed'
  BY <1>2 DEF IInv, ConsentTyped, WorkerTyped, AttemptAllowed, Allowed, SharedAllowed
<1>4. QueuesTyped'
  BY <1>1, <1>2, AppendTyped DEF IInv, QueuesTyped, TelemetryAssumption
<1>5. EpochsTell'
  <2>1. /\ Len(events') = Len(events) + 1
        /\ \A i \in 1..Len(events') :
              \/ i \in 1..Len(events) /\ events'[i] = events[i]
              \/ events'[i] = e
    BY <1>1, <1>2, AppendTyped
  <2>2. e.epoch = epoch /\ e.withdrawn = withdrawn /\ e.id = installation /\ e.schema = schema
    BY <1>2
  <2>3. epoch \in Nat
    BY DEF IInv, ConsentTyped
  <2> QED BY <1>2, <2>1, <2>2, <2>3 DEF IInv, EpochsTell, Allowed
<1> QED BY <1>3, <1>4, <1>5 DEF IInv

-----------------------------------------------------------------------------
(* The worker.                                                             *)

(* Nothing that consent is about changes.                                  *)
ConsentLeft == UNCHANGED <<consent, installation, kept, schema, epoch, closed, withdrawn, asked>>

LEMMA ConsentLeftStays ==
  ASSUME ConsentTyped, ConsentLeft, ready' \in BOOLEAN
  PROVE  ConsentTyped' /\ \A item : Allowed(item)' = Allowed(item)
BY DEF ConsentTyped, ConsentLeft, Allowed

LEMMA QueuesLeftStay ==
  ASSUME QueuesTyped, EpochsTell, ConsentLeft, UNCHANGED <<events, deletions>>
  PROVE  QueuesTyped' /\ EpochsTell'
BY DEF QueuesTyped, EpochsTell, ConsentLeft, Allowed

LEMMA TakeEventStep ==
  ASSUME IInv, TelemetryAssumption, TakeEvent
  PROVE  IInv'
<1>1. events \in Seq(Events) /\ events # <<>> /\ events' = Tail(events)
  BY DEF IInv, QueuesTyped, TakeEvent
<1>2. ConsentLeft /\ UNCHANGED <<ready, deletions, shared>>
  BY DEF TakeEvent, ConsentLeft
<1>3. ConsentTyped' /\ SharedAllowed'
  BY <1>2, ConsentLeftStays DEF IInv, ConsentTyped, SharedAllowed
<1>4. QueuesTyped'
  BY <1>1, <1>2, TailOfEvents DEF IInv, QueuesTyped, ConsentLeft, TelemetryAssumption
<1>5. EpochsTell'
  BY <1>1, <1>2, TailOfEvents DEF IInv, EpochsTell, ConsentLeft, Allowed
<1>6. Head(events) \in Events /\ Head(events) = events[1] /\ 1 \in 1..Len(events)
  BY <1>1, TailOfEvents
<1>7. WorkerTyped' /\ AttemptAllowed'
  <2>1. CASE Stands(Head(events))
    <3>1. worker' = Working("event", Head(events))
      BY <2>1 DEF TakeEvent
    <3>2. Allowed(Head(events))
      BY <1>6, <2>1 DEF Stands, IInv, EpochsTell
    <3>3. worker' \in Workers /\ worker'.pc = "event" /\ worker'.item = Head(events)
      BY <1>6, <3>1, WorkerTypes DEF WorkerPcs
    <3> QED BY <1>2, <1>6, <3>2, <3>3 DEF WorkerTyped, AttemptAllowed, Allowed, ConsentLeft
  <2>2. CASE ~Stands(Head(events))
    BY <2>2, WorkerTypes DEF TakeEvent, WorkerTyped, AttemptAllowed
  <2> QED BY <2>1, <2>2
<1> QED BY <1>3, <1>4, <1>5, <1>7 DEF IInv

LEMMA TakeDeletionStep ==
  ASSUME IInv, TelemetryAssumption, TakeDeletion
  PROVE  IInv'
<1>1. deletions \in Seq(Nat) /\ deletions # <<>> /\ deletions' = Tail(deletions)
  BY DEF IInv, QueuesTyped, TakeDeletion
<1>2. ConsentLeft /\ UNCHANGED <<ready, events, shared>>
  BY DEF TakeDeletion, ConsentLeft
<1>3. ConsentTyped' /\ SharedAllowed'
  BY <1>2, ConsentLeftStays DEF IInv, ConsentTyped, SharedAllowed
<1>4. QueuesTyped'
  BY <1>1, <1>2, TailOfDeletions DEF IInv, QueuesTyped, ConsentLeft, TelemetryAssumption
<1>5. EpochsTell'
  BY <1>2 DEF IInv, EpochsTell, ConsentLeft, Allowed
<1>6. Head(deletions) \in Nat
  BY <1>1, TailOfDeletions
<1>7. WorkerTyped' /\ AttemptAllowed'
  <2>1. \/ worker' = Working("deletion", Head(deletions))
        \/ worker' = WorkerIdle
    BY DEF TakeDeletion
  <2>2. worker' \in Workers /\ worker'.pc \in {"deletion", "idle"}
    BY <1>6, <2>1, WorkerTypes DEF WorkerPcs
  <2> QED BY <2>2 DEF WorkerTyped, AttemptAllowed
<1> QED BY <1>3, <1>4, <1>5, <1>7 DEF IInv

LEMMA AskStep ==
  ASSUME IInv, AskPrerequisites
  PROVE  IInv'
<1>1. ConsentLeft /\ UNCHANGED <<ready, events, deletions, shared>>
  BY DEF AskPrerequisites, ConsentLeft
<1>2. ConsentTyped' /\ QueuesTyped' /\ EpochsTell' /\ SharedAllowed'
  BY <1>1, ConsentLeftStays, QueuesLeftStay DEF IInv, ConsentTyped, SharedAllowed
<1>3. PICK answer \in BOOLEAN :
         \/ /\ worker.pc = "event"
            /\ worker' = [worker EXCEPT !.pc = "sending", !.ready = answer]
         \/ /\ worker.pc = "deletion"
            /\ worker' = [worker EXCEPT !.pc = "deleting", !.ready = answer]
  BY DEF AskPrerequisites
<1>4. worker \in Workers
  BY DEF IInv, WorkerTyped
<1>5. WorkerTyped'
  BY <1>3, <1>4 DEF IInv, WorkerTyped, Workers, WorkerPcs
<1>6. AttemptAllowed'
  BY <1>1, <1>3, <1>4 DEF IInv, AttemptAllowed, Allowed, ConsentLeft, Workers, WorkerPcs
<1> QED BY <1>2, <1>5, <1>6 DEF IInv

LEMMA SendEventStep ==
  ASSUME IInv, SendEvent
  PROVE  IInv'
<1>1. ConsentLeft /\ UNCHANGED <<events, deletions>> /\ ready' = worker.ready
      /\ worker' = WorkerIdle /\ worker.pc = "sending" /\ worker \in Workers
  BY DEF SendEvent, ConsentLeft, IInv, WorkerTyped
<1>2. ready' \in BOOLEAN
  BY <1>1 DEF Workers
<1>3. ConsentTyped' /\ QueuesTyped' /\ EpochsTell'
  BY <1>1, <1>2, ConsentLeftStays, QueuesLeftStay DEF IInv
<1>4. WorkerTyped' /\ AttemptAllowed'
  BY <1>1, WorkerTypes DEF WorkerTyped, AttemptAllowed
<1>5. SharedAllowed'
  <2>1. CASE worker.ready /\ ~worker.cancelled
    <3>1. Allowed(worker.item)
      BY <1>1, <2>1 DEF IInv, AttemptAllowed
    <3>2. shared' = [item |-> worker.item,
                     allowed |-> /\ consent.enabled
                                 /\ withdrawn = worker.item.withdrawn
                                 /\ installation = worker.item.id
                                 /\ worker.item.schema = schema]
      BY <2>1 DEF SendEvent
    <3> QED BY <3>1, <3>2 DEF SharedAllowed, Allowed
  <2>2. CASE ~(worker.ready /\ ~worker.cancelled)
    BY <2>2 DEF SendEvent, SharedAllowed, IInv
  <2> QED BY <2>1, <2>2
<1> QED BY <1>3, <1>4, <1>5 DEF IInv

LEMMA SendDeletionStep ==
  ASSUME IInv, SendDeletion
  PROVE  IInv'
<1>1. ConsentLeft /\ UNCHANGED <<events, deletions, shared>> /\ ready' = worker.ready
      /\ worker' = WorkerIdle /\ worker \in Workers
  BY DEF SendDeletion, ConsentLeft, IInv, WorkerTyped
<1>2. ready' \in BOOLEAN
  BY <1>1 DEF Workers
<1>3. ConsentTyped' /\ QueuesTyped' /\ EpochsTell'
  BY <1>1, <1>2, ConsentLeftStays, QueuesLeftStay DEF IInv
<1>4. WorkerTyped' /\ AttemptAllowed' /\ SharedAllowed'
  BY <1>1, WorkerTypes DEF WorkerTyped, AttemptAllowed, SharedAllowed, IInv
<1> QED BY <1>3, <1>4 DEF IInv

-----------------------------------------------------------------------------
(* The rest.                                                               *)

LEMMA OtherSteps ==
  ASSUME IInv, Status \/ WorkerEnds \/ CloseTelemetry \/ CloseGivesUp
  PROVE  IInv'
<1>1. CASE Status
  <2>1. ConsentLeft /\ UNCHANGED <<events, deletions, worker, shared>> /\ ready' \in BOOLEAN
    BY <1>1 DEF Status, ConsentLeft
  <2>2. ConsentTyped' /\ QueuesTyped' /\ EpochsTell'
    BY <2>1, ConsentLeftStays, QueuesLeftStay DEF IInv
  <2> QED BY <2>1, <2>2 DEF IInv, WorkerTyped, AttemptAllowed, Allowed, SharedAllowed, ConsentLeft
<1>2. CASE WorkerEnds
  <2>1. ConsentLeft /\ UNCHANGED <<events, deletions, ready, shared>> /\ closed
        /\ worker' = [WorkerIdle EXCEPT !.pc = "ended"]
    BY <1>2 DEF WorkerEnds, ConsentLeft
  <2>2. ConsentTyped' /\ QueuesTyped' /\ EpochsTell'
    BY <2>1, ConsentLeftStays, QueuesLeftStay DEF IInv, ConsentTyped
  <2>3. worker' \in Workers /\ worker'.pc = "ended"
    BY <2>1 DEF WorkerIdle, Workers, WorkerPcs
  <2> QED BY <2>1, <2>2, <2>3
          DEF IInv, WorkerTyped, AttemptAllowed, SharedAllowed, ConsentLeft
<1>3. CASE CloseTelemetry
  BY <1>3 DEF CloseTelemetry, IInv, ConsentTyped, QueuesTyped, WorkerTyped, EpochsTell,
              AttemptAllowed, Allowed, SharedAllowed
<1>4. CASE CloseGivesUp
  <2>1. ConsentLeft /\ UNCHANGED <<events, deletions, ready, shared>>
        /\ worker' = [worker EXCEPT !.cancelled = TRUE] /\ worker \in Workers
    BY <1>4 DEF CloseGivesUp, ConsentLeft, IInv, WorkerTyped
  <2>2. ConsentTyped' /\ QueuesTyped' /\ EpochsTell'
    BY <2>1, ConsentLeftStays, QueuesLeftStay DEF IInv, ConsentTyped
  <2>3. worker' \in Workers /\ worker'.pc = worker.pc /\ worker'.item = worker.item
        /\ worker'.cancelled
    BY <2>1 DEF Workers
  <2> QED BY <2>1, <2>2, <2>3
          DEF IInv, WorkerTyped, AttemptAllowed, SharedAllowed, ConsentLeft
<1> QED BY <1>1, <1>2, <1>3, <1>4

LEMMA NewServiceStep ==
  ASSUME IInv, TelemetryAssumption, NewService
  PROVE  IInv'
<1>1. consent' = consent /\ installation' = installation
  BY DEF IInv, ConsentTyped, NewService
<1>2. ConsentTyped'
  <2>1. schema' \in 1..2 /\ schema' >= schema
        /\ (consent.enabled => consent.schema \in 1..schema')
    BY DEF IInv, ConsentTyped, NewService
  <2>2. kept' = kept /\ epoch' = 0 /\ ready' \in BOOLEAN /\ closed' = FALSE
        /\ withdrawn' = withdrawn /\ asked' = asked
    BY DEF NewService
  <2> QED BY <1>1, <2>1, <2>2 DEF IInv, ConsentTyped
<1>3. QueuesTyped' /\ EpochsTell'
  BY DEF NewService, QueuesTyped, EpochsTell, TelemetryAssumption
<1>4. WorkerTyped' /\ AttemptAllowed'
  BY WorkerTypes DEF NewService, WorkerTyped, AttemptAllowed
<1>5. SharedAllowed'
  BY DEF NewService, IInv, SharedAllowed
<1> QED BY <1>2, <1>3, <1>4, <1>5 DEF IInv

-----------------------------------------------------------------------------
(* The invariant.                                                          *)

LEMMA InitOK ==
  ASSUME TelemetryAssumption, TelemetryInit
  PROVE  IInv
<1>1. ConsentTyped
  <2>1. NoConsent \in Consents /\ ~NoConsent.enabled
    BY DEF NoConsent, Consents
  <2>2. /\ consent = NoConsent /\ installation = 0 /\ schema = 1 /\ epoch = 0
        /\ kept = [consent |-> consent, installation |-> installation]
        /\ ready \in BOOLEAN /\ closed = FALSE /\ withdrawn = 0 /\ asked = 0
    BY DEF TelemetryInit
  <2>3. MaxConsents \in Nat
    BY DEF TelemetryAssumption
  <2>4. consent \in Consents /\ ~consent.enabled
    BY <2>1, <2>2
  <2>5. withdrawn \in 0..asked /\ asked \in 0..MaxConsents /\ schema \in 1..2
        /\ installation \in Nat /\ epoch \in Nat
    BY <2>2, <2>3
  <2>6. closed \in BOOLEAN
    BY <2>2
  <2> QED BY <2>2, <2>4, <2>5, <2>6 DEF ConsentTyped
<1>2. QueuesTyped /\ EpochsTell /\ SharedAllowed
  BY DEF TelemetryInit, QueuesTyped, EpochsTell, SharedAllowed, TelemetryAssumption
<1>3. WorkerTyped /\ AttemptAllowed
  BY WorkerTypes DEF TelemetryInit, WorkerTyped, AttemptAllowed
<1> QED BY <1>1, <1>2, <1>3 DEF IInv

LEMMA StepOK ==
  ASSUME IInv, TelemetryAssumption, [TelemetryNext]_telemetryVars
  PROVE  IInv'
<1>1. CASE Enable
  BY <1>1, EnableStep
<1>2. CASE Revoke
  BY <1>2, RevokeStep
<1>3. CASE ResetInstallationID
  BY <1>3, ResetStep
<1>4. CASE RecordEvent
  BY <1>4, RecordEventStep
<1>5. CASE TakeEvent
  BY <1>5, TakeEventStep
<1>6. CASE TakeDeletion
  BY <1>6, TakeDeletionStep
<1>7. CASE AskPrerequisites
  BY <1>7, AskStep
<1>8. CASE SendEvent
  BY <1>8, SendEventStep
<1>9. CASE SendDeletion
  BY <1>9, SendDeletionStep
<1>10. CASE Status \/ WorkerEnds \/ CloseTelemetry \/ CloseGivesUp
  BY <1>10, OtherSteps
<1>11. CASE NewService
  BY <1>11, NewServiceStep
<1>12. CASE UNCHANGED telemetryVars
  BY <1>12 DEF telemetryVars, IInv, ConsentTyped, QueuesTyped, WorkerTyped, EpochsTell,
               AttemptAllowed, Allowed, SharedAllowed
<1> QED BY <1>1, <1>2, <1>3, <1>4, <1>5, <1>6, <1>7, <1>8, <1>9, <1>10, <1>11, <1>12
        DEF TelemetryNext

LEMMA InvariantGives ==
  ASSUME IInv
  PROVE  ConsentKept
<1>1. TelemetryTypeOK
  BY DEF IInv, ConsentTyped, QueuesTyped, WorkerTyped, SharedAllowed, TelemetryTypeOK,
         Workers, WorkerPcs
<1>2. SentWithConsent
  BY DEF IInv, SharedAllowed, SentWithConsent
<1> QED BY <1>1, <1>2 DEF ConsentKept

(* Whatever the collector is sent was recorded under consent that is still *)
(* given, for the present schema and the present identifier, however       *)
(* revocations, resets, restarts and the worker's attempts interleave:     *)
(* telemetry/service.go:360.                                               *)
THEOREM SentUnderConsent == TelemetrySpec => []ConsentKept
<1>1. TelemetryInit => IInv
  BY InitOK, TelemetryAssumption
<1>2. IInv /\ [TelemetryNext]_telemetryVars => IInv'
  BY StepOK, TelemetryAssumption
<1>3. IInv => ConsentKept
  BY InvariantGives
<1> QED BY <1>1, <1>2, <1>3, PTL DEF TelemetrySpec
=============================================================================

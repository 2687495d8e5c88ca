---------------------------- MODULE UsageRefresh ----------------------------
(***************************************************************************)
(* The refresh of a profile's usage, asked for by a command, the dashboard, *)
(* a launch or the scheduler.  The first caller for a profile leads: it     *)
(* collects, one profile at a time, and stores what it got.  Those who come *)
(* for the same profile meanwhile wait for the answer of the leader.        *)
(*                                                                         *)
(* A caller names a profile by its alias.  Between the steps of a refresh   *)
(* aliases are changed, profiles are removed and their history is cleared.  *)
(***************************************************************************)
EXTENDS FiniteSets

CONSTANTS Callers, Aliases, Profiles, None

ASSUME RefreshAssumption == None \notin Callers \cup Profiles

VARIABLES
    named,          \* the profile an alias names
    status,         \* "ready", "quarantined" or "purged"
    inflight,       \* the leader of the refresh that is under way for a profile
    collecting,     \* the leader that holds the collection lock
    caller,         \* what each caller is doing
    stored          \* the profiles that have a stored snapshot

refreshVars == <<named, status, inflight, collecting, caller, stored>>

Idle == [pc |-> "idle", alias |-> None, profile |-> None, leader |-> None,
         ok |-> FALSE, answer |-> None, error |-> "none"]

Leading == {"lead", "collect", "save", "reread", "publish"}

RefreshTypeOK ==
    /\ named \in [Aliases -> Profiles \cup {None}]
    /\ status \in [Profiles -> {"ready", "quarantined", "purged"}]
    /\ inflight \in [Profiles -> Callers \cup {None}]
    /\ \A p \in Profiles : inflight[p] # None =>
            caller[inflight[p]].pc \in Leading /\ caller[inflight[p]].profile = p
    /\ stored \subseteq Profiles
    /\ \A c \in Callers : caller[c].pc \in Leading => inflight[caller[c].profile] = c
    /\ \A c \in Callers : (collecting = c) <=> caller[c].pc \in {"collect", "save", "reread"}

RefreshInit ==
    /\ named \in {n \in [Aliases -> Profiles \cup {None}] :
                    \A a, b \in Aliases : n[a] = n[b] /\ n[a] # None => a = b}
    /\ status = [p \in Profiles |-> IF \E a \in Aliases : named[a] = p THEN "ready" ELSE "purged"]
    /\ inflight = [p \in Profiles |-> None]
    /\ collecting = None
    /\ caller = [c \in Callers |-> Idle]
    /\ stored = {}

-----------------------------------------------------------------------------
(* A call.                                                                   *)

RefreshStep(c, r) == caller' = [caller EXCEPT ![c] = r]
RefreshTo(c, pc) == RefreshStep(c, [caller[c] EXCEPT !.pc = pc])
Failed(r, error) == [r EXCEPT !.pc = "answered", !.error = error]

(* An alias of a removed profile names nothing, and a profile that has no    *)
(* home cannot be asked.                                                     *)
Refresh(c, a) ==
    /\ caller[c].pc \in {"idle", "answered"}
    /\ LET p == named[a]
           r == [Idle EXCEPT !.alias = a]
       IN  RefreshStep(c, IF p = None \/ status[p] # "ready" THEN Failed(r, "unavailable")
                          ELSE [r EXCEPT !.pc = "resolved", !.profile = p])
    /\ UNCHANGED <<named, status, inflight, collecting, stored>>

Join(c) ==
    /\ caller[c].pc = "resolved"
    /\ inflight[caller[c].profile] # None
    /\ RefreshStep(c, [caller[c] EXCEPT !.pc = "joined", !.leader = inflight[caller[c].profile]])
    /\ UNCHANGED <<named, status, inflight, collecting, stored>>

Lead(c) ==
    /\ caller[c].pc = "resolved"
    /\ inflight[caller[c].profile] = None
    /\ inflight' = [inflight EXCEPT ![caller[c].profile] = c]
    /\ RefreshTo(c, "lead")
    /\ UNCHANGED <<named, status, collecting, stored>>

(* One collection runs at a time.                                            *)
StartCollection(c) ==
    /\ caller[c].pc = "lead" /\ collecting = None
    /\ collecting' = c
    /\ RefreshTo(c, "collect")
    /\ UNCHANGED <<named, status, inflight, stored>>

(* The provider answers or not, or the leader's client gives up.  Nothing    *)
(* bounds how long that takes: only a launch gives the collection a deadline. *)
CollectUsage(c) ==
    /\ caller[c].pc = "collect"
    /\ \E ok \in BOOLEAN : RefreshStep(c, [caller[c] EXCEPT !.pc = "save", !.ok = ok])
    /\ UNCHANGED <<named, status, inflight, collecting, stored>>

(* MUTANT: a snapshot is stored whatever became of the profile. *)
TakesAlways(p) == TRUE

(* Only a profile with the status ready takes a snapshot; a removed one that *)
(* is not purged has it still.                                               *)
Takes(p) == status[p] # "purged"

(* A failure is stored as a snapshot too, which is then read back.           *)
SaveUsageSnapshot(c) ==
    /\ caller[c].pc = "save"
    /\ LET r == caller[c]
       IN  \/ /\ Takes(r.profile)
              /\ stored' = stored \cup {r.profile}
              /\ IF r.ok
                 THEN /\ RefreshStep(c, [r EXCEPT !.pc = "publish", !.answer = r.profile])
                      /\ collecting' = None
                 ELSE RefreshTo(c, "reread") /\ UNCHANGED collecting
           \/ /\ RefreshStep(c, [r EXCEPT !.pc = "publish", !.error = "store"])
              /\ collecting' = None /\ UNCHANGED stored
    /\ UNCHANGED <<named, status, inflight>>

(* The snapshot of the failure is what is answered, unless it is gone.       *)
RereadFailure(c) ==
    /\ caller[c].pc = "reread"
    /\ LET r == caller[c]
       IN  \/ /\ r.profile \in stored
              /\ RefreshStep(c, [r EXCEPT !.pc = "publish", !.error = "collection",
                                          !.answer = r.profile])
           \/ RefreshStep(c, [r EXCEPT !.pc = "publish", !.error = "store"])
    /\ collecting' = None
    /\ UNCHANGED <<named, status, inflight, stored>>

Waiters(c) == {d \in Callers : caller[d].pc = "joined" /\ caller[d].leader = c}

Answered(d, c) == [caller[d] EXCEPT !.pc = "answered", !.answer = caller[c].answer,
                                    !.error = caller[c].error]

(* MUTANT: the refresh is closed only when it succeeded. *)
PublishSuccess(c) ==
    /\ caller[c].pc = "publish"
    /\ inflight' = [inflight EXCEPT ![caller[c].profile] = None]
    /\ caller' = [d \in Callers |-> IF d = c \/ (d \in Waiters(c) /\ caller[c].error = "none")
                                    THEN Answered(d, c) ELSE caller[d]]
    /\ UNCHANGED <<named, status, collecting, stored>>

(* The refresh is closed: everybody has the answer of the leader.            *)
Publish(c) ==
    /\ caller[c].pc = "publish"
    /\ inflight' = [inflight EXCEPT ![caller[c].profile] = None]
    /\ caller' = [d \in Callers |-> IF d = c \/ d \in Waiters(c) THEN Answered(d, c) ELSE caller[d]]
    /\ UNCHANGED <<named, status, collecting, stored>>

(* A caller that waits for another may give up.                              *)
GiveUp(c) ==
    /\ caller[c].pc = "joined"
    /\ RefreshStep(c, Failed(caller[c], "cancelled"))
    /\ UNCHANGED <<named, status, inflight, collecting, stored>>

-----------------------------------------------------------------------------
(* What happens to profiles meanwhile.                                       *)

Rename(a, b) ==
    /\ named[a] # None /\ named[b] = None
    /\ named' = [named EXCEPT ![a] = None, ![b] = named[a]]
    /\ UNCHANGED <<status, inflight, collecting, caller, stored>>

Quarantine(p) ==
    /\ status[p] = "ready"
    /\ status' = [status EXCEPT ![p] = "quarantined"]
    /\ UNCHANGED <<named, inflight, collecting, caller, stored>>

Unquarantine(p) ==
    /\ status[p] = "quarantined"
    /\ status' = [status EXCEPT ![p] = "ready"]
    /\ UNCHANGED <<named, inflight, collecting, caller, stored>>

PurgeProfile(p) ==
    /\ status[p] = "quarantined"
    /\ status' = [status EXCEPT ![p] = "purged"]
    /\ named' = [a \in Aliases |-> IF named[a] = p THEN None ELSE named[a]]
    /\ UNCHANGED <<inflight, collecting, caller, stored>>

ClearHistory ==
    /\ stored' = {}
    /\ UNCHANGED <<named, status, inflight, collecting, caller>>

(* What a call does of itself.                                               *)
Serve(c) ==
    \/ Join(c) \/ Lead(c) \/ StartCollection(c)
    \/ SaveUsageSnapshot(c) \/ RereadFailure(c) \/ Publish(c)

RefreshNext ==
    \/ \E c \in Callers :
        \/ (\E a \in Aliases : Refresh(c, a))
        \/ Serve(c) \/ CollectUsage(c) \/ GiveUp(c)
    \/ (\E a, b \in Aliases : Rename(a, b))
    \/ (\E p \in Profiles : Quarantine(p) \/ Unquarantine(p) \/ PurgeProfile(p))
    \/ ClearHistory

(* A goroutine runs on, and the collection lock serves whoever waits         *)
(* longest.  Nobody owes the end of a collection.                            *)
RefreshFairness ==
    \A c \in Callers : WF_refreshVars(Serve(c)) /\ SF_refreshVars(StartCollection(c))

RefreshSpec == RefreshInit /\ [][RefreshNext]_refreshVars

-----------------------------------------------------------------------------

(* The usage a caller gets is that of the profile its alias named when it    *)
(* asked, whoever leads and whatever the alias names by now.                 *)
(* usage.go:357.                                                             *)
OwnUsage ==
    \A c \in Callers : caller[c].answer \in {None, caller[c].profile}

(* A purged profile gets no snapshot, though it was collected before it was  *)
(* purged.  store/usage.go:170.                                              *)
PurgedStaySilent ==
    [][\A p \in stored' \ stored : status[p] # "purged"]_refreshVars

(* Nobody's collection lasts for ever.                                       *)
CollectionsEnd == \A c \in Callers : []<>(caller[c].pc # "collect")

(* As long as no collection hangs, everybody who asked is answered, whoever  *)
(* leads and whatever fails.  One that hangs keeps the collection lock, for  *)
(* which every later caller waits, with a deadline or without.               *)
(* usage.go:340, usage.go:366.                                               *)
EveryCallAnswered ==
    CollectionsEnd => \A c \in Callers : caller[c].pc = "resolved" ~> caller[c].pc = "answered"

(* What is answered and stored is of the profile that was asked about, and   *)
(* nothing is of one that was purged.  usage.go:357, store/usage.go:170.     *)
UsageOfAskedProfile == [](RefreshTypeOK /\ OwnUsage) /\ PurgedStaySilent
=============================================================================

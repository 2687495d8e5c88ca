----------------------------- MODULE UpdateChecks -----------------------------
(***************************************************************************)
(* Checks for a newer version.  A check asks a source for the newest        *)
(* version and replaces the one stored result; the hourly scheduler starts  *)
(* one when the user has opted in and the stored schedule is due, and a     *)
(* user may start one at any time.  Neither waits for the other.  The next  *)
(* start may run an older or a newer version over the same store.           *)
(*                                                                         *)
(* A version is a core of three numbers, a sequence of pre-release          *)
(* identifiers and a build.  An identifier is a number or a name; a name    *)
(* stands for its place in the order of names.                              *)
(***************************************************************************)
EXTENDS Integers, Sequences, FiniteSetsExt

CONSTANTS
    Versions,               \* versions, from the oldest to the newest
    Builds,                 \* what may follow the +
    ManualCheckers,         \* requests for a check
    NormalCheckInterval, FailureRetryInterval,
    MaxCheckTime,
    NoResult

VARIABLES
    running,        \* the version that runs
    automatic,      \* whether the user has opted in
    result,         \* the stored result of a check
    checking,       \* which checks have asked the source
    checkTime,
    lastAutomatic   \* version and time of the last automatic result, until another
                    \* version stores one

updateVars == <<running, automatic, result, checking, checkTime, lastAutomatic>>

Scheduler == "scheduler"
Checkers == ManualCheckers \cup {Scheduler}

(* A published version: its place among the versions, and its build.         *)
Published == [place : DOMAIN Versions, build : Builds]

(* The stored result of a check, and what is known of the last automatic one. *)
Results == [version : Published, status : {"failed", "up_to_date", "update_available"},
            available : Published \cup {NoResult}, checkedAt : Nat, nextAt : Nat]
AutomaticResults == [version : Published, at : Nat]

ASSUME UpdateAssumption ==
    /\ DOMAIN Versions \subseteq Nat
    /\ FailureRetryInterval \in Nat \ {0} /\ NormalCheckInterval \in Nat /\ MaxCheckTime \in Nat
    /\ FailureRetryInterval <= NormalCheckInterval
    /\ Scheduler \notin ManualCheckers
    /\ NoResult \notin Published \cup Results \cup AutomaticResults

UpdateTypeOK ==
    /\ running \in Published /\ automatic \in BOOLEAN /\ checkTime \in 0..MaxCheckTime
    /\ checking \subseteq Checkers
    /\ result # NoResult =>
        /\ result.version \in Published
        /\ result.status \in {"failed", "up_to_date", "update_available"}
        /\ (result.status = "update_available") <=> (result.available # NoResult)
        /\ result.checkedAt <= checkTime /\ result.nextAt > result.checkedAt
    /\ lastAutomatic # NoResult => lastAutomatic.at <= checkTime

UpdateInit ==
    /\ running \in Published /\ automatic = FALSE /\ result = NoResult
    /\ checking = {} /\ checkTime = 0 /\ lastAutomatic = NoResult

-----------------------------------------------------------------------------
(* The order of versions: -1, 0 or 1.                                        *)

SignOf(less) == IF less THEN -1 ELSE 1

(* Both identifiers are numbers that ParseUint takes, or one is, or neither. *)
CompareIdentifiers(l, r) ==
    IF l.number = r.number THEN SignOf(l.value < r.value) ELSE SignOf(l.number)

Differing(l, r) == {i \in DOMAIN l \cap DOMAIN r : l[i] # r[i]}

(* MUTANT: a release has no place after its pre-releases. *)
ComparePlain(l, r) ==
    IF Differing(l, r) # {}
    THEN LET i == Min(Differing(l, r)) IN CompareIdentifiers(l[i], r[i])
    ELSE IF Len(l) # Len(r) THEN SignOf(Len(l) < Len(r)) ELSE 0

ComparePreReleases(l, r) ==
    IF (l = <<>>) # (r = <<>>) THEN SignOf(r = <<>>)
    ELSE IF Differing(l, r) # {}
         THEN LET i == Min(Differing(l, r)) IN CompareIdentifiers(l[i], r[i])
         ELSE IF Len(l) # Len(r) THEN SignOf(Len(l) < Len(r)) ELSE 0

CompareVersions(l, r) ==
    IF Differing(l.core, r.core) # {}
    THEN LET i == Min(Differing(l.core, r.core)) IN SignOf(l.core[i] < r.core[i])
    ELSE ComparePreReleases(l.pre, r.pre)

Newer(offered, current) == CompareVersions(Versions[offered.place], Versions[current.place]) > 0

-----------------------------------------------------------------------------

(* The result of a check by another version is no result.                    *)
CurrentState == IF result # NoResult /\ result.version = running THEN result ELSE NoResult

Due == CurrentState # NoResult => checkTime >= CurrentState.nextAt

SetAutomatic ==
    /\ automatic' = ~automatic
    /\ UNCHANGED <<running, result, checking, checkTime, lastAutomatic>>

Check(c) ==
    /\ c \notin checking
    /\ checking' = checking \cup {c}
    /\ UNCHANGED <<running, automatic, result, checkTime, lastAutomatic>>

CheckAutomatic ==
    /\ automatic /\ Due
    /\ Check(Scheduler)

Record(status, available) ==
    [version |-> running, status |-> status, available |-> available,
     checkedAt |-> checkTime,
     nextAt |-> checkTime + (IF status = "failed" THEN FailureRetryInterval
                             ELSE NormalCheckInterval)]

LastAutomaticOf(version) ==
    IF (lastAutomatic # NoResult => lastAutomatic.version # version) THEN NoResult
    ELSE lastAutomatic

(* The source fails or names a version, and the result is stored unless the   *)
(* check was cancelled, ran into its deadline or cannot be stored.            *)
Perform(c) ==
    /\ c \in checking
    /\ checking' = checking \ {c}
    /\ \/ /\ \/ result' = Record("failed", NoResult)
             \/ \E offered \in Published :
                    result' = IF Newer(offered, running)
                              THEN Record("update_available", offered)
                              ELSE Record("up_to_date", NoResult)
          /\ lastAutomatic' = IF c = Scheduler THEN [version |-> running, at |-> checkTime]
                              ELSE LastAutomaticOf(running)
       \/ UNCHANGED <<result, lastAutomatic>>
    /\ UNCHANGED <<running, automatic, checkTime>>

(* Another version is installed, or the same one starts again.               *)
StartVersion ==
    /\ running' \in Published
    /\ checking' = {}
    /\ UNCHANGED <<automatic, result, checkTime, lastAutomatic>>

PassCheckTime ==
    /\ checkTime < MaxCheckTime /\ checkTime' = checkTime + 1
    /\ UNCHANGED <<running, automatic, result, checking, lastAutomatic>>

UpdateNext ==
    \/ SetAutomatic \/ CheckAutomatic \/ StartVersion \/ PassCheckTime
    \/ \E c \in ManualCheckers : Check(c)
    \/ \E c \in Checkers : Perform(c)

-----------------------------------------------------------------------------

(* What the status offers is newer than what runs, whichever version found   *)
(* it and whichever check came last.  updates/service.go:213, :387.          *)
Offered == IF CurrentState # NoResult THEN CurrentState.available ELSE NoResult
OfferIsNewer == Offered # NoResult => Offered.place > running.place

(* No automatic check is started sooner after the last automatic result of   *)
(* the same version than the shorter interval, whatever a user's checks have *)
(* stored in between, unless another version has.  updates/service.go:199.   *)
AutomaticSpaced ==
    [][(Scheduler \notin checking /\ Scheduler \in checking'
            /\ lastAutomatic # NoResult /\ lastAutomatic.version = running)
        => checkTime >= lastAutomatic.at + FailureRetryInterval]_updateVars

(* Offers are newer and automatic checks are spaced.                         *)
(* updates/service.go:199, :213, :387.                                       *)
ChecksKept == [](UpdateTypeOK /\ OfferIsNewer) /\ AutomaticSpaced
=============================================================================

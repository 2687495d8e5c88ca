-------------------------------- MODULE Alerts --------------------------------
(***************************************************************************)
(* One operational alert of a profile: whether it is shown, and whether its *)
(* native notification was delivered.  Refreshes and open dashboards        *)
(* evaluate alerts, several at a time: an evaluation reads the evidence,    *)
(* writes what follows from it, lists the alerts and delivers what is due.  *)
(* Only the steps on the store are under its lock.                          *)
(*                                                                         *)
(* Alerts do not depend on one another, but for the number that one         *)
(* evaluation delivers and the number of resolved ones that are kept; both  *)
(* are choices here.                                                        *)
(***************************************************************************)
EXTENDS Integers, Sequences, FiniteSets

CONSTANTS
    Evaluators,
    Kinds,              \* which alert it is
    MaxCaptures,        \* how many captures there are
    RepeatedFailureCount,
    StaleAfter,
    WindowEnd,          \* when the window ends that an alert on capacity is about
    DeliveryMaxAttempts,
    MaxAlertTime,
    MaxOpenings,        \* how often a setting or the profile may open it again
    NoAlert

ASSUME AlertAssumption ==
    /\ Kinds \subseteq {"capacity", "reauthentication", "failures", "stale"}
    /\ MaxCaptures \in Nat /\ StaleAfter \in Nat /\ MaxAlertTime \in Nat /\ MaxOpenings \in Nat
    /\ WindowEnd \in Nat
    /\ RepeatedFailureCount \in Nat \ {0} /\ DeliveryMaxAttempts \in Nat \ {0}

VARIABLES
    kind,
    time,
    standing,       \* whether the profile is ready, signed out or in quarantine
    captures,       \* the captures of the profile, in their order
    attempt,        \* how the refresh of the scheduler went, until it is recorded
    scheduled,      \* the failures in a row that the scheduler has recorded
    warned,         \* whether the threshold makes a low reading a warning
    alert,          \* its row, or none
    evaluator,      \* what each evaluation is doing
    known,          \* whether the row follows from evidence that still stands
    sent,           \* how often the notification of this opening was delivered
    tries,          \* how often it was tried
    mixedUp         \* outcomes that were recorded for another attempt

alertVars == <<kind, time, standing, captures, attempt, scheduled, warned, alert, evaluator,
               known, sent, tries, mixedUp>>

Row == [id : Nat, opening : Nat, state : {"open", "acknowledged", "resolved"},
        delivery : {"pending", "attempting", "delivered", "failed", "unavailable"},
        attempts : Nat, next : Nat]

ASSUME NoAlertAssumption == NoAlert \notin Row

NotEvaluating == [pc |-> "idle", holds |-> FALSE, now |-> 0, current |-> FALSE,
                  native |-> FALSE, id |-> 0, attempts |-> 0, opening |-> 0, ok |-> FALSE]

Active == alert # NoAlert /\ alert.state # "resolved"

AlertTypeOK ==
    /\ kind \in Kinds /\ time \in 0..MaxAlertTime
    /\ standing \in {"ready", "needs_reauthentication", "quarantined"}
    /\ Len(captures) <= MaxCaptures
    /\ attempt \in {"none", "ok", "failed"} /\ scheduled \in 0..RepeatedFailureCount
    /\ alert = NoAlert \/ alert \in Row
    /\ alert # NoAlert => alert.attempts <= DeliveryMaxAttempts
    /\ (alert # NoAlert /\ alert.delivery = "pending") => alert.attempts = 0 /\ alert.next = 0
    /\ \A e \in Evaluators :
          /\ evaluator[e].pc \in {"idle", "sync", "list", "due", "deliver", "record"}
          /\ evaluator[e].attempts < DeliveryMaxAttempts
    /\ known \in BOOLEAN /\ sent \in Nat /\ tries \in Nat
    /\ mixedUp \subseteq {"attempt", "unavailable"}

AlertInit ==
    /\ kind \in Kinds /\ time = 0 /\ warned = TRUE
    /\ standing = "ready" /\ captures = <<>> /\ attempt = "none" /\ scheduled = 0
    /\ alert = NoAlert /\ known = FALSE /\ sent = 0 /\ tries = 0 /\ mixedUp = {}
    /\ evaluator = [e \in Evaluators |-> NotEvaluating]

-----------------------------------------------------------------------------
(* What follows from the evidence.                                           *)

(* The last capture that says something: usage, or that the profile is       *)
(* signed out.  Before there is one it is the last capture of all.           *)
Useful ==
    LET some == {i \in DOMAIN captures : captures[i].found # "failed"}
        last == IF some = {} THEN DOMAIN captures ELSE some
    IN  CHOOSE i \in last : \A j \in last : j <= i

CapturedFailures ==
    Cardinality({i \in DOMAIN captures :
        \A j \in i..Len(captures) : captures[j].found = "failed"})

(* The failures in a row are those that were captured or those that the      *)
(* scheduler has recorded, whichever are more.                               *)
FailuresInARow == IF scheduled > CapturedFailures THEN scheduled ELSE CapturedFailures

(* MUTANT: the last capture counts, whether it says anything or not. *)
HoldsByLast(k) ==
    /\ standing # "quarantined"
    /\ \/ /\ captures # <<>>
          /\ \/ k = "capacity" /\ captures[Len(captures)].found = "low" /\ warned /\ time < WindowEnd
             \/ k = "reauthentication" /\ captures[Len(captures)].found = "signed_out"
             \/ k = "stale" /\ time - captures[Len(captures)].at > StaleAfter
       \/ k = "reauthentication" /\ standing = "needs_reauthentication"
       \/ k = "failures" /\ FailuresInARow >= RepeatedFailureCount

Holds(k) ==
    /\ standing # "quarantined"
    /\ \/ /\ captures # <<>>
          /\ \/ k = "capacity" /\ captures[Useful].found = "low" /\ warned /\ time < WindowEnd
             \/ k = "reauthentication" /\ captures[Useful].found = "signed_out"
             \/ k = "stale" /\ time - captures[Useful].at > StaleAfter
       \/ k = "reauthentication" /\ standing = "needs_reauthentication"
       \/ k = "failures" /\ FailuresInARow >= RepeatedFailureCount

-----------------------------------------------------------------------------
(* An evaluation.                                                            *)

Evaluating(e, r) == evaluator' = [evaluator EXCEPT ![e] = r]
AlertStep(e, pc) == Evaluating(e, [evaluator[e] EXCEPT !.pc = pc])
Evaluated(e) == Evaluating(e, NotEvaluating)

(* The profile, its captures, its schedule and its thresholds are read one   *)
(* after the other.  An evaluation in which one of them changes between      *)
(* these reads is left out: it has old evidence, as one has in which they    *)
(* change later.                                                             *)
ReadEvidence(e) ==
    /\ evaluator[e].pc = "idle"
    /\ Evaluating(e, [NotEvaluating EXCEPT !.pc = "sync", !.holds = Holds(kind), !.now = time,
                                           !.current = TRUE])
    /\ UNCHANGED <<kind, time, standing, captures, attempt, scheduled, warned, alert, known,
                   sent, tries, mixedUp>>

Opened(row) == [row EXCEPT !.opening = @ + 1, !.state = "open", !.delivery = "pending",
                           !.attempts = 0, !.next = 0]

Resolved(row) == [row EXCEPT !.state = "resolved"]

SeenAgain(row) == IF row.state = "resolved" THEN Opened(row) ELSE row

(* The alert is opened, observed again, or resolved.  A resolved one may be  *)
(* dropped when there are newer ones; its successor is another row.          *)
SyncAlerts(e) ==
    /\ evaluator[e].pc = "sync"
    /\ \/ /\ evaluator[e].holds
          /\ alert' = IF alert = NoAlert
                      THEN [id |-> 1, opening |-> 1, state |-> "open", delivery |-> "pending",
                            attempts |-> 0, next |-> 0]
                      ELSE SeenAgain(alert)
          /\ IF Active THEN UNCHANGED <<sent, tries, mixedUp>>
             ELSE sent' = 0 /\ tries' = 0 /\ mixedUp' = {}
       \/ /\ ~evaluator[e].holds
          /\ IF Active THEN alert' = Resolved(alert)
             ELSE alert' \in {alert, IF alert = NoAlert THEN NoAlert ELSE [alert EXCEPT !.id = alert.opening + 1]}
          /\ UNCHANGED <<sent, tries, mixedUp>>
    /\ known' = evaluator[e].current
    /\ Evaluating(e, [NotEvaluating EXCEPT !.pc = "list", !.now = evaluator[e].now])
    /\ UNCHANGED <<kind, time, standing, captures, attempt, scheduled, warned>>

DeliveryDue(row, now) ==
    /\ row.state = "open"
    /\ row.attempts < DeliveryMaxAttempts
    /\ row.delivery \notin {"delivered", "attempting"}
    /\ row.next <= now

(* The alerts are listed, and whether the system shows notifications is      *)
(* asked once.  Without enrollment, when the alert is not due, or when the   *)
(* share of the evaluation or its time is used up, it is over here.          *)
ListAlerts(e) ==
    /\ evaluator[e].pc = "list"
    /\ \/ Evaluated(e)
       \/ \E native \in BOOLEAN :
            /\ alert # NoAlert /\ DeliveryDue(alert, evaluator[e].now)
            /\ Evaluating(e, [evaluator[e] EXCEPT !.pc = "due", !.native = native, !.id = alert.id,
                                                  !.attempts = alert.attempts, !.opening = alert.opening])
    /\ UNCHANGED <<kind, time, standing, captures, attempt, scheduled, warned, alert, known,
                   sent, tries, mixedUp>>

RetryAfter(attempts) == IF attempts <= 1 THEN 1 ELSE 2
UnavailableFor == 2

Waiting == {"pending", "failed", "unavailable"}

RecordUnavailable(e) ==
    LET r == evaluator[e]
    IN  /\ r.pc = "due" /\ ~r.native
        /\ IF alert.id = r.id /\ alert.state = "open" /\ alert.delivery \in Waiting
           THEN /\ alert' = [alert EXCEPT !.delivery = "unavailable", !.attempts = r.attempts,
                                          !.next = r.now + UnavailableFor]
                /\ mixedUp' = IF alert.opening # r.opening \/ alert.attempts # r.attempts
                              THEN mixedUp \cup {"unavailable"} ELSE mixedUp
           ELSE UNCHANGED <<alert, mixedUp>>
        /\ Evaluated(e)
        /\ UNCHANGED <<kind, time, standing, captures, attempt, scheduled, warned, known,
                       sent, tries>>

Claimable(r) ==
    /\ alert.id = r.id /\ alert.state = "open" /\ alert.delivery \in Waiting
    /\ alert.attempts < DeliveryMaxAttempts
    /\ alert.next <= r.now

ClaimAlertDelivery(e) ==
    LET r == evaluator[e]
    IN  /\ r.pc = "due" /\ r.native
        /\ IF Claimable(r)
           THEN /\ alert' = [alert EXCEPT !.delivery = "attempting", !.attempts = @ + 1, !.next = 0]
                /\ tries' = tries + 1
                /\ Evaluating(e, [r EXCEPT !.pc = "deliver", !.opening = alert.opening])
           ELSE Evaluated(e) /\ UNCHANGED <<alert, tries>>
        /\ UNCHANGED <<kind, time, standing, captures, attempt, scheduled, warned, known,
                       sent, mixedUp>>

Deliver(e, ok) ==
    /\ evaluator[e].pc = "deliver"
    /\ Evaluating(e, [evaluator[e] EXCEPT !.pc = "record", !.ok = ok])
    /\ sent' = IF ok /\ alert.opening = evaluator[e].opening THEN sent + 1 ELSE sent
    /\ UNCHANGED <<kind, time, standing, captures, attempt, scheduled, warned, alert, known,
                   tries, mixedUp>>

Outcome(row, attempts, ok, now) ==
    [row EXCEPT !.delivery = IF ok THEN "delivered" ELSE "failed",
                !.next = IF ok \/ attempts >= DeliveryMaxAttempts THEN 0 ELSE now + RetryAfter(attempts)]

(* The outcome is recorded if the row still waits for the outcome of an      *)
(* attempt with this number.  It is not when the client left or the store    *)
(* fails.                                                                    *)
RecordAlertDelivery(e, works) ==
    LET attempts == evaluator[e].attempts + 1
    IN  /\ evaluator[e].pc = "record"
        /\ IF /\ works /\ alert.id = evaluator[e].id /\ alert.state = "open"
              /\ alert.delivery = "attempting" /\ alert.attempts = attempts
           THEN /\ alert' = Outcome(alert, attempts, evaluator[e].ok, evaluator[e].now)
                /\ mixedUp' = IF alert.opening # evaluator[e].opening THEN mixedUp \cup {"attempt"} ELSE mixedUp
           ELSE UNCHANGED <<alert, mixedUp>>
        /\ Evaluated(e)
        /\ UNCHANGED <<kind, time, standing, captures, attempt, scheduled, warned, known,
                       sent, tries>>

-----------------------------------------------------------------------------
(* What happens meanwhile.                                                   *)

Outdated == [e \in Evaluators |-> [evaluator[e] EXCEPT !.current = FALSE]]

(* A capture stands for those the alert does not tell apart from it.  Only a *)
(* profile that is signed in takes one, also while it is in quarantine.      *)
Findings == {"fine", "failed"} \cup (IF kind = "capacity" THEN {"low"} ELSE {})
                             \cup (IF kind = "reauthentication" THEN {"signed_out"} ELSE {})

Outdate == known' = FALSE /\ evaluator' = Outdated

Captured(found) ==
    /\ found \in Findings /\ Len(captures) < MaxCaptures
    /\ standing # "needs_reauthentication"
    /\ captures' = Append(captures, [found |-> found, at |-> time])

CaptureStored(found) ==
    /\ Captured(found) /\ Outdate
    /\ UNCHANGED <<kind, time, standing, attempt, scheduled, warned, alert, sent, tries,
                   mixedUp>>

(* A refresh of the scheduler, told apart where its outcome matters.  One    *)
(* that fails may store no capture, or fail after it did.                    *)
ScheduledRefresh(found) ==
    /\ kind = "failures" /\ attempt = "none"
    /\ \/ /\ Captured(found)
          /\ attempt' \in (IF found = "failed" THEN {"failed"} ELSE {"ok", "failed"})
       \/ attempt' = "failed" /\ UNCHANGED captures
    /\ Outdate
    /\ UNCHANGED <<kind, time, standing, scheduled, warned, alert, sent, tries, mixedUp>>

(* The scheduler records its attempt, if it can.  Only this ends the row of  *)
(* failures it counts: a refresh that a user asks for does not.              *)
AttemptRecorded ==
    /\ attempt # "none" /\ attempt' = "none"
    /\ \/ scheduled' = IF attempt = "ok" THEN 0
                       ELSE IF scheduled < RepeatedFailureCount THEN scheduled + 1 ELSE scheduled
       \/ UNCHANGED scheduled
    /\ Outdate
    /\ UNCHANGED <<kind, time, standing, captures, warned, alert, sent, tries, mixedUp>>

MayOpenAgain == alert # NoAlert => alert.opening < MaxOpenings

(* A reauthentication begins or ends, or the profile is removed or restored. *)
StandingChanges ==
    /\ MayOpenAgain
    /\ standing' \in {"ready", "quarantined"}
                        \cup (IF kind = "reauthentication" THEN {"needs_reauthentication"} ELSE {})
    /\ standing' # standing
    /\ Outdate
    /\ UNCHANGED <<kind, time, captures, attempt, scheduled, warned, alert, sent, tries,
                   mixedUp>>

SetThreshold ==
    /\ kind = "capacity" /\ MayOpenAgain
    /\ warned' = ~warned
    /\ Outdate
    /\ UNCHANGED <<kind, time, standing, captures, attempt, scheduled, alert, sent, tries,
                   mixedUp>>

AcknowledgeAlert ==
    /\ alert # NoAlert /\ alert.state = "open"
    /\ alert' = [alert EXCEPT !.state = "acknowledged"]
    /\ UNCHANGED <<kind, time, standing, captures, attempt, scheduled, warned, evaluator, known,
                   sent, tries, mixedUp>>

(* The service stops.                                                        *)
AlertCrash ==
    /\ evaluator' = [e \in Evaluators |-> NotEvaluating] /\ attempt' = "none"
    /\ UNCHANGED <<kind, time, standing, captures, scheduled, warned, alert, known, sent,
                   tries, mixedUp>>

AlertClock ==
    /\ time < MaxAlertTime
    /\ time' = time + 1
    /\ Outdate
    /\ UNCHANGED <<kind, standing, captures, attempt, scheduled, warned, alert, sent, tries,
                   mixedUp>>

AlertNext ==
    \/ \E e \in Evaluators :
        \/ ReadEvidence(e) \/ SyncAlerts(e) \/ ListAlerts(e)
        \/ RecordUnavailable(e) \/ ClaimAlertDelivery(e)
        \/ (\E ok \in BOOLEAN : Deliver(e, ok))
        \/ (\E works \in BOOLEAN : RecordAlertDelivery(e, works))
    \/ (\E found \in {"fine", "low", "signed_out", "failed"} : 
          CaptureStored(found) \/ ScheduledRefresh(found))
    \/ AttemptRecorded \/ StandingChanges
    \/ SetThreshold \/ AcknowledgeAlert \/ AlertCrash \/ AlertClock

AlertSpec == AlertInit /\ [][AlertNext]_alertVars

-----------------------------------------------------------------------------

(* A user is notified of an opening of an alert at most once.                *)
(* alerts/service.go:271.                                                    *)
NoticeOnce == sent <= 1

(* Whoever evaluates, whatever crashes and whatever is not recorded, that is *)
(* so; unless the alert was resolved and opened again while an attempt was   *)
(* under way, and the outcome of that attempt was taken for the outcome of a *)
(* new one.  alerts/service.go:271.                                          *)
NotifiedOnce == "attempt" \notin mixedUp => NoticeOnce

(* Attempts at one opening are bounded, unless an evaluation that found      *)
(* notifications unavailable recorded that over a newer attempt.             *)
(* store/alerts.go:403.                                                      *)
TriesBounded == mixedUp = {} => tries <= DeliveryMaxAttempts

(* What the evidence calls for: nothing of a profile in quarantine; the last *)
(* capture that says something, a low reading only while its window lasts;   *)
(* the standing of a profile that is signed out; and as many failures in a   *)
(* row, be it of the last captures or of the attempts of the scheduler, so   *)
(* that a refresh a user asked for does not end these.                       *)
(* alerts/alerts.go:93, store/alerts.go:79.                                  *)
Tells(i) == captures[i].found # "failed"

LastToTell(i) ==
    IF \E j \in DOMAIN captures : Tells(j)
    THEN Tells(i) /\ \A j \in DOMAIN captures : Tells(j) => j <= i
    ELSE i = Len(captures)

LastFailed ==
    /\ Len(captures) >= RepeatedFailureCount
    /\ \A i \in 0..(RepeatedFailureCount - 1) : captures[Len(captures) - i].found = "failed"

CalledFor ==
    /\ standing # "quarantined"
    /\ \/ \E i \in DOMAIN captures :
             /\ LastToTell(i)
             /\ \/ kind = "capacity" /\ captures[i].found = "low" /\ warned /\ time < WindowEnd
                \/ kind = "reauthentication" /\ captures[i].found = "signed_out"
                \/ kind = "stale" /\ time > captures[i].at + StaleAfter
       \/ kind = "reauthentication" /\ standing = "needs_reauthentication"
       \/ kind = "failures" /\ (LastFailed \/ scheduled = RepeatedFailureCount)

(* Once an evaluation of the evidence there is has been written and none     *)
(* with older evidence after it, the alert is active exactly when that calls *)
(* for it; also when it was acknowledged.  store/alerts.go:156.              *)
AlertFollowsEvidence == known => (Active <=> CalledFor)

(* One notice for an opening, a bounded number of attempts at it, and an     *)
(* alert that says what the evidence says.  alerts/service.go:271,           *)
(* store/alerts.go:156.                                                      *)
AlertsTold == AlertTypeOK /\ NotifiedOnce /\ TriesBounded /\ AlertFollowsEvidence
=============================================================================

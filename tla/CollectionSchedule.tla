------------------------- MODULE CollectionSchedule -------------------------
(***************************************************************************)
(* When the enrolled service collects the usage of a profile.  A tick reads *)
(* the settings and the targets, and for a target that is due refreshes its *)
(* usage and records when the next attempt is to be made.  The schedules of *)
(* profiles do not depend on one another, so the module has one profile;    *)
(* the turns that profiles take in a tick are in CollectionTurns.           *)
(*                                                                         *)
(* While a tick runs the user may refresh the same profile, change the      *)
(* settings or start Codex, and the service may stop between any two steps. *)
(***************************************************************************)
EXTENDS Integers, FiniteSets

CONSTANTS
    Intervals,      \* intervals the settings may have
    Minimum,        \* the least interval a provider is asked at
    MaxBackoff,
    Lead,           \* how long before a reset its alert is due
    MaxJitter,
    Horizons,       \* how far ahead a provider reports a reset
    MaxSlow,        \* how long a tick may take
    MaxTime,
    Never

ASSUME ScheduleAssumption ==
    /\ Minimum \in Nat \ {0} /\ MaxBackoff \in Nat /\ Minimum <= MaxBackoff
    /\ Intervals \subseteq Nat /\ \A i \in Intervals : Minimum <= i
    /\ Lead \in Nat /\ MaxJitter \in Nat /\ MaxSlow \in Nat /\ MaxTime \in Nat
    /\ Horizons \subseteq Nat
    /\ Never \notin Int

VARIABLES
    clock,
    interval,       \* the interval for the activity there is, by the settings
    latest,         \* the newest snapshot: its capture, and the end of its quota window
    schedule,       \* the stored state of the schedule
    manual,         \* when the refresh a user asked for was captured, while it runs
    tick,           \* the tick that runs, and what it has read
    called,         \* HISTORY: when the scheduler last had the provider asked
    counted,        \* HISTORY: the time its schedule counts that call from
    unrecorded      \* HISTORY: whether that attempt has not been recorded

scheduleVars == <<clock, interval, latest, schedule, manual, tick, called, counted, unrecorded>>

Times == Nat \cup {Never}
Snapshots == [captured : Times, window : Times]
States == [last : Times, next : Times, failures : Nat, outcome : {"none", "succeeded", "failed"}]

NoTick == [pc |-> "idle", now |-> 0, interval |-> 0,
           latest |-> [captured |-> Never, window |-> Never],
           state |-> [last |-> Never, next |-> Never, failures |-> 0, outcome |-> "none"]]

ScheduleTypeOK ==
    /\ clock \in 0..MaxTime
    /\ interval \in Intervals
    /\ latest \in Snapshots /\ schedule \in States
    /\ schedule.outcome = "failed" <=> schedule.failures > 0
    /\ manual \in Times /\ called \in Times /\ counted \in Times /\ unrecorded \in BOOLEAN
    /\ tick.pc \in {"idle", "inspect", "collect", "joined", "record"}
    /\ tick.now <= clock /\ tick.latest \in Snapshots /\ tick.state \in States

ScheduleInit ==
    /\ clock = 0
    /\ interval \in Intervals
    /\ latest = NoTick.latest /\ schedule = NoTick.state
    /\ manual = Never /\ called = Never /\ counted = Never /\ unrecorded = FALSE
    /\ tick = NoTick

-----------------------------------------------------------------------------
(* When a target is due.                                                     *)

Least(S) == CHOOSE x \in S : \A y \in S : x <= y
Greatest(S) == CHOOSE x \in S : \A y \in S : y <= x

(* The back-off doubles with each failure in a row, up to its maximum.       *)
Backoff[failures \in Nat] ==
    IF failures <= 1 THEN Minimum ELSE Least({2 * Backoff[failures - 1], MaxBackoff})

(* The boundary of a quota window that the schedule heads for: some time     *)
(* before the reset, to raise its alert, and then the reset.                 *)
Boundary(t) ==
    LET alert == t.latest.window - Lead
    IN  IF alert > t.now \/ (alert = t.now /\ t.latest.captured < t.now)
        THEN alert ELSE t.latest.window

(* MUTANT: a boundary is not held to the floor. *)
DueWithoutFloor(t) ==
    IF t.latest.captured = Never THEN t.now
    ELSE LET periodic == t.latest.captured + t.interval
         IN  IF t.latest.window # Never /\ Boundary(t) > t.now /\ Boundary(t) < periodic
             THEN Boundary(t) ELSE periodic

DueByEvidence(t) ==
    IF t.latest.captured = Never THEN t.now
    ELSE LET periodic == t.latest.captured + t.interval
             wanted == IF t.latest.window # Never /\ Boundary(t) > t.now /\ Boundary(t) < periodic
                       THEN Boundary(t) ELSE periodic
         IN  Greatest({wanted, t.latest.captured + Minimum})

HeadsForReset(t) ==
    /\ t.latest.window # Never
    /\ t.state.next \in {t.latest.window, t.latest.window - Lead}

IsPeriodic(t) ==
    t.latest.window = Never \/ Boundary(t) <= t.now
        \/ Boundary(t) >= t.latest.captured + t.interval

(* The stored attempt stands when it heads for a reset, when it backs off,   *)
(* and when it is what the evidence gives, give or take the jitter.          *)
Due(t) ==
    LET due == DueByEvidence(t)
        stands == \/ HeadsForReset(t)
                  \/ t.state.outcome = "failed"
                  \/ t.latest.captured = Never
                  \/ IsPeriodic(t) /\ t.state.next \in due..(due + MaxJitter)
    IN  IF t.state.next # Never /\ stands THEN t.state.next ELSE due

-----------------------------------------------------------------------------
(* A tick.                                                                   *)

Goto(pc) == tick' = [tick EXCEPT !.pc = pc]

TickBegins ==
    /\ tick.pc = "idle"
    /\ tick' = [pc |-> "inspect", now |-> clock, interval |-> interval,
                latest |-> latest, state |-> schedule]
    /\ UNCHANGED <<clock, interval, latest, schedule, manual, called, counted, unrecorded>>

(* Other profiles may have used up the tick.                                 *)
NotInspected ==
    /\ tick.pc = "inspect"
    /\ tick' = NoTick
    /\ UNCHANGED <<clock, interval, latest, schedule, manual, called, counted, unrecorded>>

(* A target that is not due has its attempt stored, if that succeeds.        *)
NotDue ==
    /\ tick.pc = "inspect"
    /\ tick.now < Due(tick)
    /\ schedule' \in {schedule, [tick.state EXCEPT !.next = Due(tick)]}
    /\ tick' = NoTick
    /\ UNCHANGED <<clock, interval, latest, manual, called, counted, unrecorded>>

(* A due target is collected, or joins the refresh that is under way.        *)
Attempt ==
    /\ tick.pc = "inspect"
    /\ tick.now >= Due(tick)
    /\ Goto(IF manual = Never THEN "collect" ELSE "joined")
    /\ UNCHANGED <<clock, interval, latest, schedule, manual, called, counted, unrecorded>>

(* What a failed attempt records, and what a successful one does.            *)
AfterFailure(t, jitter) ==
    [last |-> t.now, failures |-> t.state.failures + 1, outcome |-> "failed",
     next |-> t.now + Backoff[t.state.failures + 1] + jitter]

AfterSuccess(t, snapshot, jitter) ==
    LET due == DueByEvidence([t EXCEPT !.latest = snapshot])
    IN  [last |-> t.now, failures |-> 0, outcome |-> "succeeded",
         next |-> IF due = snapshot.captured + t.interval THEN due + jitter ELSE due]

Jitters == 0..MaxJitter

(* The windows a provider can report at time t.                              *)
WindowsAt(t) == {t + h : h \in Horizons} \cup {Never}

(* The provider is asked, later in the tick than its start if other profiles *)
(* came first.  It answers, or it does not; a failure is stored as a         *)
(* snapshot with the observations there are, if it can be stored.  A success *)
(* is followed up from its capture, a failure from the start of the tick.    *)
Collect(ok) ==
    /\ tick.pc = "collect"
    /\ \E j \in Jitters :
          \/ /\ ok
             /\ \E w \in WindowsAt(clock) :
                  LET snapshot == [captured |-> clock, window |-> w]
                  IN  /\ latest' = snapshot
                      /\ tick' = [tick EXCEPT !.pc = "record", !.state = AfterSuccess(tick, snapshot, j)]
                      /\ counted' = clock
          \/ /\ ~ok
             /\ latest' \in {latest, [latest EXCEPT !.captured = clock]}
             /\ tick' = [tick EXCEPT !.pc = "record", !.state = AfterFailure(tick, j)]
             /\ counted' = tick.now
    /\ called' = clock /\ unrecorded' = TRUE
    /\ UNCHANGED <<clock, interval, schedule, manual>>

(* The state is stored, or the tick ends with an error.                      *)
RecordAttempt ==
    /\ tick.pc = "record"
    /\ \/ schedule' = tick.state /\ unrecorded' = FALSE
       \/ UNCHANGED <<schedule, unrecorded>>
    /\ tick' = NoTick
    /\ UNCHANGED <<clock, interval, latest, manual, called, counted>>

-----------------------------------------------------------------------------
(* What happens meanwhile.                                                   *)

ManualBegins ==
    /\ manual = Never /\ tick.pc # "collect"
    /\ manual' = clock
    /\ UNCHANGED <<clock, interval, latest, schedule, tick, called, counted, unrecorded>>

(* A refresh ends for those who joined it too.                               *)
ManualEnds ==
    /\ manual # Never
    /\ manual' = Never
    /\ \E j \in Jitters :
          \/ \E w \in WindowsAt(manual) :
                LET snapshot == [captured |-> manual, window |-> w]
                IN  /\ latest' = snapshot
                    /\ IF tick.pc = "joined"
                       THEN tick' = [tick EXCEPT !.pc = "record",
                                                 !.state = AfterSuccess(tick, snapshot, j)]
                       ELSE UNCHANGED tick
          \/ /\ latest' \in {latest, [latest EXCEPT !.captured = manual]}
             /\ IF tick.pc = "joined"
                THEN tick' = [tick EXCEPT !.pc = "record", !.state = AfterFailure(tick, j)]
                ELSE UNCHANGED tick
    /\ UNCHANGED <<clock, interval, schedule, called, counted, unrecorded>>

(* A launch starts or ends, or the settings change.                          *)
IntervalChanges ==
    /\ interval' \in Intervals
    /\ UNCHANGED <<clock, latest, schedule, manual, tick, called, counted, unrecorded>>

(* The service stops; what it had not stored is lost.                        *)
Restart ==
    /\ tick' = NoTick /\ manual' = Never
    /\ UNCHANGED <<clock, interval, latest, schedule, called, counted, unrecorded>>

ScheduleClock ==
    /\ clock < MaxTime
    /\ tick.pc = "idle" \/ clock < tick.now + MaxSlow
    /\ clock' = clock + 1
    /\ UNCHANGED <<interval, latest, schedule, manual, tick, called, counted, unrecorded>>

ScheduleNext ==
    \/ TickBegins \/ NotInspected \/ NotDue \/ Attempt
    \/ (\E ok \in BOOLEAN : Collect(ok)) \/ RecordAttempt
    \/ ManualBegins \/ ManualEnds \/ IntervalChanges
    \/ Restart \/ ScheduleClock

ScheduleSpec == ScheduleInit /\ [][ScheduleNext]_scheduleVars

-----------------------------------------------------------------------------

(* The back-off is a floor between two calls of the provider: the scheduler  *)
(* does not have it asked twice within the minimum, unless the record of the *)
(* last attempt was lost.  scheduler.go:156 and :162.                        *)
FloorKept ==
    tick.pc = "collect" /\ called # Never /\ ~unrecorded => clock >= called + Minimum

(* What the floor comes to in the code, whatever settings, launches, manual  *)
(* refreshes and restarts come between.  A profile that does not back off is *)
(* left alone for the minimum since the call.  One that backs off is since   *)
(* the start of the tick that made the call, so that the calls are less than *)
(* the minimum apart by up to the time that tick took.                       *)
(* scheduler.go:156 and :162.                                                *)
SpacingKept ==
    tick.pc = "collect" /\ called # Never /\ ~unrecorded =>
        /\ tick.now >= counted + Minimum
        /\ tick.state.outcome # "failed" => tick.now >= called + Minimum
        /\ clock + MaxSlow >= called + Minimum

(* A profile that failed is left alone for its back-off, also over a restart *)
(* and after a manual refresh.  scheduler.go:189.                            *)
BackoffKept ==
    tick.pc \in {"collect", "joined"} /\ tick.state.outcome = "failed"
        => tick.now >= tick.state.last + Backoff[tick.state.failures]

(* A target that a tick passes over is not overdue.  One that failed is when *)
(* the greatest back-off is over; one without evidence is at once; one that  *)
(* heads for a reset is when its evidence is older than every interval; and  *)
(* the others are by the settings and the activity of that tick.             *)
(* scheduler.go:156 and :180.                                                *)
OverdueAfter(t) == IF HeadsForReset(t) THEN Intervals ELSE {t.interval}

Overdue(t) ==
    \/ /\ t.state.outcome = "failed"
       /\ t.now >= t.state.last + MaxBackoff + MaxJitter
    \/ /\ t.state.outcome # "failed"
       /\ t.latest.captured # Never
             => \A i \in OverdueAfter(t) : t.now > t.latest.captured + i + MaxJitter

NoneOverdue == tick.pc = "inspect" /\ Overdue(tick) => tick.now >= Due(tick)

(* The provider is asked neither too often nor, once evidence is old, too    *)
(* late.  scheduler.go:156, :162, :180, :189.                                *)
ScheduleKept == ScheduleTypeOK /\ SpacingKept /\ BackoffKept /\ NoneOverdue
=============================================================================

------------------------------ MODULE Telemetry ------------------------------
(***************************************************************************)
(* Telemetry consent.  A user enables telemetry, revokes it or asks for a   *)
(* new installation identifier, under one lock; other parts of the service  *)
(* record events under the read lock.  One worker takes events and requests *)
(* for deletion from two bounded queues, and releases the lock while it     *)
(* asks the prerequisites and talks to the collector.                       *)
(*                                                                         *)
(* An identifier is a number; a new one is the next number.  What the       *)
(* prerequisites answer is any answer, each time they are asked.            *)
(***************************************************************************)
EXTENDS Integers, Sequences

CONSTANTS
    QueueCapacity,
    MaxConsents,        \* how often consent or the identifier changes
    NoItem

ASSUME TelemetryAssumption == QueueCapacity \in Nat \ {0} /\ MaxConsents \in Nat

VARIABLES
    consent,        \* whether it is given, and for which schema
    installation,   \* the identifier, 0 if there is none
    kept,           \* what the store has of both
    schema,         \* the consent schema of this version
    epoch,          \* how often consent or identifier changed since the start
    ready,          \* what the prerequisites answered last
    events,         \* the queue of events, each with the epoch it was recorded in
    deletions,      \* the queue of identifiers to delete
    worker,         \* what the worker is doing
    closed,
    withdrawn,      \* how often consent was taken away or an identifier replaced
    asked,          \* how often a user asked for a change
    shared          \* the last event sent, and whether it still was to be sent

telemetryVars == <<consent, installation, kept, schema, epoch, ready, events, deletions,
                   worker, closed, withdrawn, asked, shared>>

Consents == [enabled : BOOLEAN, schema : Nat]
NoConsent == [enabled |-> FALSE, schema |-> 0]
WorkerIdle == [pc |-> "idle", item |-> NoItem, ready |-> FALSE, cancelled |-> FALSE]

TelemetryTypeOK ==
    /\ consent \in Consents /\ installation \in Nat /\ schema \in 1..2
    /\ consent.enabled => installation # 0 /\ consent.schema \in 1..schema
    /\ ~consent.enabled => consent = NoConsent
    /\ kept = [consent |-> consent, installation |-> installation]
    /\ epoch \in Nat /\ ready \in BOOLEAN /\ closed \in BOOLEAN
    /\ withdrawn \in 0..asked /\ asked \in 0..MaxConsents
    /\ Len(events) <= QueueCapacity /\ Len(deletions) <= QueueCapacity
    /\ \A i \in DOMAIN deletions : deletions[i] \in 1..installation
    /\ worker.pc \in {"idle", "event", "deletion", "sending", "deleting", "ended"}
    /\ worker.pc = "ended" => closed
    /\ shared = NoItem \/ shared.allowed \in BOOLEAN

TelemetryInit ==
    /\ consent = NoConsent /\ installation = 0 /\ schema = 1
    /\ kept = [consent |-> NoConsent, installation |-> 0]
    /\ epoch = 0 /\ ready \in BOOLEAN
    /\ events = <<>> /\ deletions = <<>> /\ worker = WorkerIdle /\ closed = FALSE
    /\ withdrawn = 0 /\ asked = 0 /\ shared = NoItem

-----------------------------------------------------------------------------
(* What a user asks for.  Each is stored before anything else changes, and   *)
(* has no effect when that fails.                                            *)

Store(c, id) ==
    /\ ~closed /\ asked < MaxConsents
    /\ consent' = c /\ installation' = id
    /\ kept' = [consent |-> c, installation |-> id]
    /\ asked' = asked + 1 /\ epoch' = epoch + 1

(* The prerequisites were asked before the lock was taken.                   *)
Enable ==
    /\ Store([enabled |-> TRUE, schema |-> schema], IF installation = 0 THEN 1 ELSE installation)
    /\ ready' = TRUE
    /\ UNCHANGED <<schema, events, deletions, worker, closed, withdrawn, shared>>

(* Deletion is asked for if there is room in the queue.                      *)
QueueDeletion(id) ==
    IF id # 0 /\ ready /\ Len(deletions) < QueueCapacity
    THEN deletions' = Append(deletions, id) ELSE UNCHANGED deletions

CancelEvent ==
    worker' = IF worker.pc \in {"event", "sending"}
              THEN [worker EXCEPT !.cancelled = TRUE] ELSE worker

Revoke ==
    /\ Store(NoConsent, installation)
    /\ CancelEvent
    /\ QueueDeletion(installation)
    /\ withdrawn' = withdrawn + 1
    /\ UNCHANGED <<schema, ready, events, closed, shared>>

ResetInstallationID ==
    /\ Store(consent, installation + 1)
    /\ CancelEvent
    /\ QueueDeletion(installation)
    /\ withdrawn' = withdrawn + 1
    /\ UNCHANGED <<schema, ready, events, closed, shared>>

Status ==
    /\ ~closed
    /\ ready' \in BOOLEAN
    /\ UNCHANGED <<consent, installation, kept, schema, epoch, events, deletions, worker,
                   closed, withdrawn, asked, shared>>

(* MUTANT: a service that has been closed goes on recording. *)
MayRecordClosed == consent.enabled /\ consent.schema = schema /\ ready

MayRecord == ~closed /\ consent.enabled /\ consent.schema = schema /\ ready

(* An event is dropped when the lock is held, when telemetry is off or when  *)
(* the queue is full.                                                        *)
RecordEvent ==
    /\ MayRecord /\ Len(events) < QueueCapacity
    /\ events' = Append(events, [id |-> installation, epoch |-> epoch,
                                 withdrawn |-> withdrawn, schema |-> consent.schema])
    /\ UNCHANGED <<consent, installation, kept, schema, epoch, ready, deletions, worker,
                   closed, withdrawn, asked, shared>>

-----------------------------------------------------------------------------
(* The worker.                                                               *)

(* MUTANT: an event is not held to the consent it was recorded under. *)
StandsForAny(item) == consent.enabled /\ ready

Stands(item) == consent.enabled /\ item.epoch = epoch /\ ready

Working(pc, item) == [pc |-> pc, item |-> item, ready |-> FALSE, cancelled |-> FALSE]

(* Which queue is served first is not determined.                            *)
TakeEvent ==
    /\ worker.pc = "idle" /\ events # <<>>
    /\ events' = Tail(events)
    /\ worker' = IF Stands(Head(events)) THEN Working("event", Head(events)) ELSE WorkerIdle
    /\ UNCHANGED <<consent, installation, kept, schema, epoch, ready, deletions, closed,
                   withdrawn, asked, shared>>

TakeDeletion ==
    /\ worker.pc = "idle" /\ deletions # <<>>
    /\ deletions' = Tail(deletions)
    /\ worker' = IF ready THEN Working("deletion", Head(deletions)) ELSE WorkerIdle
    /\ UNCHANGED <<consent, installation, kept, schema, epoch, ready, events, closed,
                   withdrawn, asked, shared>>

AskPrerequisites ==
    /\ \E answer \in BOOLEAN :
        \/ /\ worker.pc = "event"
           /\ worker' = [worker EXCEPT !.pc = "sending", !.ready = answer]
        \/ /\ worker.pc = "deletion"
           /\ worker' = [worker EXCEPT !.pc = "deleting", !.ready = answer]
    /\ UNCHANGED <<consent, installation, kept, schema, epoch, ready, events, deletions,
                   closed, withdrawn, asked, shared>>

(* A cancelled attempt sends nothing.  The answer of before the attempt is   *)
(* kept after it, whatever the service has learned in between.               *)
SendEvent ==
    /\ worker.pc = "sending"
    /\ ready' = worker.ready
    /\ worker' = WorkerIdle
    /\ shared' = IF worker.ready /\ ~worker.cancelled
                 THEN [item |-> worker.item,
                       allowed |-> /\ consent.enabled
                                   /\ withdrawn = worker.item.withdrawn
                                   /\ installation = worker.item.id
                                   /\ worker.item.schema = schema]
                 ELSE shared
    /\ UNCHANGED <<consent, installation, kept, schema, epoch, events, deletions, closed,
                   withdrawn, asked>>

SendDeletion ==
    /\ worker.pc = "deleting"
    /\ ready' = worker.ready
    /\ worker' = WorkerIdle
    /\ UNCHANGED <<consent, installation, kept, schema, epoch, events, deletions, closed,
                   withdrawn, asked, shared>>

(* After the close the worker empties the queues and ends.                   *)
WorkerEnds ==
    /\ closed /\ worker.pc = "idle" /\ events = <<>> /\ deletions = <<>>
    /\ worker' = [WorkerIdle EXCEPT !.pc = "ended"]
    /\ UNCHANGED <<consent, installation, kept, schema, epoch, ready, events, deletions,
                   closed, withdrawn, asked, shared>>

-----------------------------------------------------------------------------

CloseTelemetry ==
    /\ ~closed /\ closed' = TRUE
    /\ UNCHANGED <<consent, installation, kept, schema, epoch, ready, events, deletions,
                   worker, withdrawn, asked, shared>>

(* The close was given up on: its deadline cancels what the worker is at.    *)
CloseGivesUp ==
    /\ closed /\ worker.pc \notin {"idle", "ended"}
    /\ worker' = [worker EXCEPT !.cancelled = TRUE]
    /\ UNCHANGED <<consent, installation, kept, schema, epoch, ready, events, deletions,
                   closed, withdrawn, asked, shared>>

(* The service starts, perhaps after a crash and perhaps in another version  *)
(* with another schema, with what was stored.                              *)
NewService ==
    /\ schema' \in schema..2
    /\ consent' = kept.consent /\ installation' = kept.installation
    /\ epoch' = 0 /\ ready' \in BOOLEAN
    /\ events' = <<>> /\ deletions' = <<>> /\ worker' = WorkerIdle /\ closed' = FALSE
    /\ UNCHANGED <<kept, withdrawn, asked, shared>>

TelemetryWork == TakeEvent \/ TakeDeletion \/ AskPrerequisites \/ SendEvent \/ SendDeletion
                    \/ WorkerEnds

TelemetryNext ==
    \/ Enable \/ Revoke \/ ResetInstallationID \/ Status \/ RecordEvent
    \/ TakeEvent \/ TakeDeletion \/ AskPrerequisites \/ SendEvent \/ SendDeletion \/ WorkerEnds
    \/ CloseTelemetry \/ CloseGivesUp \/ NewService

(* The worker runs on: every attempt has a deadline.                         *)
TelemetrySpec == TelemetryInit /\ [][TelemetryNext]_telemetryVars /\ WF_telemetryVars(TelemetryWork)

-----------------------------------------------------------------------------

(* What is sent was recorded under consent to the present schema, which has  *)
(* neither been revoked since, nor revoked and given again, and carries the  *)
(* identifier of the present installation.  telemetry/service.go:360.        *)
SentWithConsent == shared # NoItem => shared.allowed

(* A close ends the worker, with the queues empty, unless the service starts *)
(* anew.  telemetry/service.go:308.                                          *)
CloseEnds == closed ~> (worker.pc = "ended" \/ ~closed)

(* With the type of the state: telemetry/service.go:360.                     *)
ConsentKept == TelemetryTypeOK /\ SentWithConsent
=============================================================================

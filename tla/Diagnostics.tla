----------------------------- MODULE Diagnostics -----------------------------
(***************************************************************************)
(* Local diagnostics.  Errors of the service are counted in a bounded number *)
(* of buckets, one for each component, code and severity, for as many days   *)
(* as the settings say; a support bundle holds the settings and the buckets, *)
(* is previewed first, and leaves only with the digest of the last preview.  *)
(* Events are recorded in the order they reach the store, which is not       *)
(* always the order they happened in; previews, exports and changes of the   *)
(* settings run at the same time.                                            *)
(*                                                                         *)
(* A bundle stands for its own digest.                                       *)
(***************************************************************************)
EXTENDS Integers, FiniteSetsExt

CONSTANTS
    Buckets,            \* an aggregate's identifier, in the order of identifiers
    MaxAggregateCount,
    MaxOccurrenceCount,
    RetentionDays,      \* retentions the user chooses from
    LatestDay,          \* bound on the clock, in days
    Requesters,         \* requests for a preview and then an export
    MaxUpdates,         \* bound on the changes of the settings
    NoBucket, NoBundle

ASSUME DiagnosticsAssumption ==
    /\ Buckets \subseteq Nat
    /\ RetentionDays \subseteq Nat \ {0} /\ Max(RetentionDays) \in RetentionDays
    /\ MaxAggregateCount \in Nat \ {0} /\ MaxOccurrenceCount \in Nat \ {0}
    /\ LatestDay \in Nat /\ MaxUpdates \in Nat

VARIABLES
    diagnostics,    \* the settings: what severities to collect, and for how long
    aggregates,     \* the bucket rows
    admitted,       \* the days of the events that a row counts
    today,
    cached,         \* the preview that may be exported
    current,        \* whether no settings were written since it was cached
    asking,         \* how far each request has come, and what it holds
    updating,       \* changes of settings that are stored and not yet answered
    updates

diagnosticsVars ==
    <<diagnostics, aggregates, admitted, today, cached, current, asking, updating, updates>>

Severities == {"info", "warning", "error"}
Collections == {{}, {"error"}, {"warning", "error"}, Severities}
Severity(b) == <<"info", "warning", "error">>[(b % 3) + 1]
DiagnosticSettings == [collect : Collections, days : RetentionDays]
Includes(settings, b) == Severity(b) \in settings.collect

Days == 0..LatestDay
Row == [count : 1..MaxOccurrenceCount, first : Days, last : Days]
Rows == [Buckets -> Row \cup {NoBucket}]
Bundle == [settings : DiagnosticSettings, rows : Rows]
Unasked == [at |-> "idle", bundle |-> NoBundle]

Stored(rows) == {b \in Buckets : rows[b] # NoBucket}
Cutoff(settings) == today - settings.days
Since(rows, cutoff) ==
    [b \in Buckets |-> IF rows[b] # NoBucket /\ rows[b].last < cutoff THEN NoBucket ELSE rows[b]]

DiagnosticsTypeOK ==
    /\ diagnostics \in DiagnosticSettings /\ aggregates \in Rows /\ today \in Days
    /\ Cardinality(Stored(aggregates)) <= MaxAggregateCount
    /\ cached \in Bundle \cup {NoBundle} /\ current \in BOOLEAN /\ updates \in 0..MaxUpdates
    /\ \A q \in Requesters :
        asking[q].at \in {"idle", "listing", "confirming", "caching", "shown", "exported"}

DiagnosticsInit ==
    /\ diagnostics = [collect |-> Severities, days |-> Max(RetentionDays)]
    /\ aggregates = [b \in Buckets |-> NoBucket] /\ admitted = [b \in Buckets |-> {}]
    /\ today = 0 /\ cached = NoBundle /\ current = TRUE
    /\ asking = [q \in Requesters |-> Unasked] /\ updating = 0 /\ updates = 0

-----------------------------------------------------------------------------
(* Recording an event.                                                       *)

(* MUTANT: the newest event to arrive is taken for the newest to happen. *)
CountedAsLast(row, day) ==
    IF row = NoBucket
    THEN [count |-> 1, first |-> day, last |-> day]
    ELSE [count |-> Min({row.count + 1, MaxOccurrenceCount}), first |-> row.first, last |-> day]

Counted(row, day) ==
    IF row = NoBucket
    THEN [count |-> 1, first |-> day, last |-> day]
    ELSE [count |-> Min({row.count + 1, MaxOccurrenceCount}),
          first |-> Min({row.first, day}), last |-> Max({row.last, day})]

(* Rows by the time they were last seen, and then by identifier.             *)
NewerRow(rows, b, c) == rows[b].last > rows[c].last \/ (rows[b].last = rows[c].last /\ b < c)
Newest(rows) ==
    [b \in Buckets |->
        IF b \in Stored(rows)
            /\ Cardinality({c \in Stored(rows) \ {b} : NewerRow(rows, c, b)}) < MaxAggregateCount
        THEN rows[b] ELSE NoBucket]

Commit(rows) ==
    /\ aggregates' = rows
    /\ admitted' = [b \in Buckets |-> IF rows[b] = NoBucket THEN {} ELSE admitted[b]]

(* An event of bucket b that happened on `day`.                              *)
RecordDiagnostic(b, day) ==
    LET kept == Since(aggregates, Cutoff(diagnostics))
        counted == Newest([kept EXCEPT ![b] = Counted(@, day)])
    IN  /\ IF Includes(diagnostics, b) /\ day >= Cutoff(diagnostics)
           THEN /\ aggregates' = counted
                /\ admitted' = [c \in Buckets |->
                     IF counted[c] = NoBucket THEN {}
                     ELSE IF c # b THEN admitted[c]
                     ELSE {day} \cup (IF kept[b] = NoBucket THEN {} ELSE admitted[b])]
           ELSE Commit(kept)
        /\ UNCHANGED <<diagnostics, today, cached, current, asking, updating, updates>>

NextDay ==
    /\ today < LatestDay /\ today' = today + 1
    /\ UNCHANGED <<diagnostics, aggregates, admitted, cached, current, asking, updating, updates>>

-----------------------------------------------------------------------------
(* Changing the settings: the store first, then the preview is forgotten.    *)
SetDiagnosticSettings(settings) ==
    /\ updates < MaxUpdates /\ updates' = updates + 1 /\ updating' = updating + 1
    /\ diagnostics' = settings
    /\ Commit(Since(aggregates, Cutoff(settings)))
    /\ current' = FALSE
    /\ UNCHANGED <<today, cached, asking>>

ForgetPreview ==
    /\ updating > 0 /\ updating' = updating - 1
    /\ cached' = NoBundle
    /\ UNCHANGED <<diagnostics, aggregates, admitted, today, current, asking, updates>>

-----------------------------------------------------------------------------
(* Preview and export.  A request that was refused may start over.           *)

ReadSettings(q) ==
    /\ asking[q].at = "idle"
    /\ asking' = [asking EXCEPT ![q] =
            [at |-> "listing", bundle |-> [settings |-> diagnostics, rows |-> [b \in Buckets |-> NoBucket]]]]
    /\ UNCHANGED <<diagnostics, aggregates, admitted, today, cached, current, updating, updates>>

ListDiagnosticAggregates(q) ==
    /\ asking[q].at = "listing"
    /\ asking' = [asking EXCEPT ![q].at = "confirming",
                                  ![q].bundle.rows = Since(aggregates, Cutoff(diagnostics))]
    /\ UNCHANGED <<diagnostics, aggregates, admitted, today, cached, current, updating, updates>>

(* A preview over settings that changed meanwhile fails.                     *)
ConfirmSettings(q) ==
    /\ asking[q].at = "confirming"
    /\ asking' = [asking EXCEPT ![q] =
            IF @.bundle.settings = diagnostics THEN [@ EXCEPT !.at = "caching"] ELSE Unasked]
    /\ UNCHANGED <<diagnostics, aggregates, admitted, today, cached, current, updating, updates>>

CachePreview(q) ==
    /\ asking[q].at = "caching"
    /\ asking' = [asking EXCEPT ![q].at = "shown"]
    /\ cached' = asking[q].bundle /\ current' = TRUE
    /\ UNCHANGED <<diagnostics, aggregates, admitted, today, updating, updates>>

Confirmed(q) == cached # NoBundle /\ asking[q].bundle = cached

Export(q) ==
    /\ asking[q].at = "shown"
    /\ asking' = [asking EXCEPT ![q] =
            IF Confirmed(q) THEN [at |-> "exported", bundle |-> cached] ELSE Unasked]
    /\ UNCHANGED <<diagnostics, aggregates, admitted, today, cached, current, updating, updates>>

DiagnosticsNext ==
    \/ \E b \in Buckets, day \in {today - 1, today} \cap Days : RecordDiagnostic(b, day)
    \/ NextDay
    \/ \E settings \in DiagnosticSettings : SetDiagnosticSettings(settings)
    \/ ForgetPreview
    \/ \E q \in Requesters :
        ReadSettings(q) \/ ListDiagnosticAggregates(q) \/ ConfirmSettings(q) \/ CachePreview(q) \/ Export(q)

DiagnosticsSpec == DiagnosticsInit /\ [][DiagnosticsNext]_diagnosticsVars

-----------------------------------------------------------------------------
(* Whatever order events arrive in, a row spans the days of those it counts, *)
(* and counts no more than it was told of.  store/diagnostics.go:55.         *)
RowsSpanEvents ==
    \A b \in Stored(aggregates) :
        /\ aggregates[b].first = Min(admitted[b]) /\ aggregates[b].last = Max(admitted[b])

(* Once a change of the settings has been answered, no preview from before   *)
(* it can be exported any more.  diagnostics/service.go:220.                 *)
OldPreviewsGone == cached # NoBundle /\ ~current => updating > 0

(* What leaves is what the one who asks for it was shown, although previews  *)
(* of others replace the only one that is kept.  diagnostics/service.go:300. *)
ExportsWhatWasShown ==
    [][\A q \in Requesters : asking[q].at = "shown" /\ asking'[q].at = "exported" =>
            asking'[q].bundle = asking[q].bundle]_diagnosticsVars

(* A support bundle is what its requester reviewed, under settings that no   *)
(* answered change has replaced, and its rows tell the days of their events. *)
BundlesReviewed == [](DiagnosticsTypeOK /\ RowsSpanEvents /\ OldPreviewsGone) /\ ExportsWhatWasShown
=============================================================================

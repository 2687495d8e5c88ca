---------------------------- MODULE UsageHistory ----------------------------
(***************************************************************************)
(* The history of one profile and metric.  Readings are kept in detail      *)
(* until they are older than the user wants, and are then compacted: equal  *)
(* readings of one window, or of one day, become one aggregate.  What is    *)
(* left of old snapshots goes too.  The user may purge a span of time after *)
(* having been shown what that deletes.                                     *)
(*                                                                         *)
(* Every action is one transaction under the store's lock, which also       *)
(* stands for its failure: a transaction that fails changes nothing.        *)
(***************************************************************************)
EXTENDS Integers, FiniteSets

CONSTANTS
    HistoryValues,
    BucketLength,   \* of a window or a day
    MaxHistory,     \* the last time a reading is taken
    Batch,          \* how much a compaction does at a time
    Ages,           \* how old details may become; the user chooses
    NoConfirmation

ASSUME HistoryAssumption ==
    /\ BucketLength \in Nat \ {0} /\ MaxHistory \in Nat /\ Batch \in Nat \ {0} /\ Ages \subseteq Nat

VARIABLES
    today,
    age,            \* how old details may become
    details,        \* readings: value and time
    aggregates,     \* of equal readings: value, bucket, first and last time, and how many
    snapshots,      \* what is kept of the captures: their time, and whether they failed
    confirmed,      \* the confirmation a user was shown, and what it was shown for
    taken           \* the readings that were taken and not purged

historyVars == <<today, age, details, aggregates, snapshots, confirmed, taken>>

Days == 0..MaxHistory
History == [value : HistoryValues, at : Days]
Bucket(t) == t \div BucketLength

HistoryTypeOK ==
    /\ today \in Days /\ age \in Ages
    /\ details \subseteq History /\ taken \subseteq History /\ details \subseteq taken
    /\ \A g \in aggregates : g.samples > 0 /\ Bucket(g.first) = g.bucket /\ Bucket(g.last) = g.bucket
    /\ \A g, h \in aggregates : g.value = h.value /\ g.bucket = h.bucket => g = h
    /\ snapshots \subseteq [at : Days, failed : BOOLEAN]

HistoryInit ==
    /\ today = 0 /\ age \in Ages
    /\ details = {} /\ aggregates = {} /\ snapshots = {} /\ taken = {}
    /\ confirmed = NoConfirmation

-----------------------------------------------------------------------------

(* A capture stores a snapshot, with a reading unless it failed.             *)
Record(failed) ==
    /\ \A s \in snapshots : s.at < today
    /\ snapshots' = snapshots \cup {[at |-> today, failed |-> failed]}
    /\ \E v \in HistoryValues :
          LET reading == [value |-> v, at |-> today]
          IN  IF failed THEN UNCHANGED <<details, taken>>
              ELSE details' = details \cup {reading} /\ taken' = taken \cup {reading}
    /\ UNCHANGED <<today, age, aggregates, confirmed>>

(* The oldest readings that are due, as many as a batch has.                 *)
Before == today - age
Expired == {d \in details : d.at < Before}
DueBatch == {d \in Expired : Cardinality({e \in Expired : e.at < d.at}) < Batch}

Fold(g, equal) ==
    LET times == {d.at : d \in equal} \cup {g.first, g.last}
    IN  [g EXCEPT !.samples = @ + Cardinality(equal),
                  !.first = CHOOSE t \in times : \A u \in times : t <= u,
                  !.last = CHOOSE t \in times : \A u \in times : u <= t]

SameFact(d, value, bucket) == d.value = value /\ Bucket(d.at) = bucket

(* The aggregates with the readings of a batch in them.                      *)
Compacted(batch) ==
    LET facts == {<<d.value, Bucket(d.at)>> : d \in batch} \cup {<<g.value, g.bucket>> : g \in aggregates}
        Equal(f) == {d \in batch : SameFact(d, f[1], f[2])}
        Prior(f) == {g \in aggregates : g.value = f[1] /\ g.bucket = f[2]}
        Start(f) == IF Prior(f) # {} THEN CHOOSE g \in Prior(f) : TRUE
                    ELSE LET d == CHOOSE d \in Equal(f) : TRUE
                         IN  [value |-> f[1], bucket |-> f[2], first |-> d.at, last |-> d.at, samples |-> 0]
    IN  {Fold(Start(f), Equal(f)) : f \in facts}

(* MUTANT: everything that is due is deleted, not only what was compacted. *)
Remaining(batch) == details \ Expired

Left(batch) == details \ batch

(* The newest snapshot is kept, and the newest one that did not fail, which  *)
(* says whether the profile is signed in.                                    *)
Kept(set) ==
    {s \in set : \A o \in set : o.at <= s.at}
        \cup {s \in set : ~s.failed /\ \A o \in set : ~o.failed => o.at <= s.at}

Gone(batch) ==
    {s \in snapshots \ Kept(snapshots) :
        s.at < Before /\ \A d \in Left(batch) : d.at # s.at}

RetainHistory ==
    /\ DueBatch # {} \/ Gone({}) # {}
    /\ aggregates' = Compacted(DueBatch)
    /\ details' = Left(DueBatch)
    /\ \E some \in SUBSET Gone(DueBatch) :
          /\ Cardinality(some) = IF Cardinality(Gone(DueBatch)) < Batch THEN Cardinality(Gone(DueBatch)) ELSE Batch
          /\ snapshots' = snapshots \ some
    /\ UNCHANGED <<today, age, confirmed, taken>>

-----------------------------------------------------------------------------
(* Purge.                                                                    *)

(* What a purge of the times from..to-1 deletes: readings in it, snapshots   *)
(* in it that keep no other reading, and aggregates wholly in it.            *)
DetailsIn(from, to) == {d \in details : d.at \in from..(to - 1)}
SnapshotsIn(from, to) ==
    {s \in snapshots : s.at \in from..(to - 1) /\ \A d \in details \ DetailsIn(from, to) : d.at # s.at}
AggregatesIn(from, to) ==
    {g \in aggregates : g.bucket * BucketLength >= from /\ (g.bucket + 1) * BucketLength <= to}

Selected(from, to) ==
    [details |-> DetailsIn(from, to), snapshots |-> SnapshotsIn(from, to),
     aggregates |-> {<<g.value, g.bucket>> : g \in AggregatesIn(from, to)}]

Preview(from, to) ==
    /\ from < to /\ confirmed = NoConfirmation
    /\ confirmed' = [from |-> from, to |-> to, selected |-> Selected(from, to)]
    /\ UNCHANGED <<today, age, details, aggregates, snapshots, taken>>

Confirmed == confirmed.selected = Selected(confirmed.from, confirmed.to)

(* The confirmed purge, which is refused when it would delete anything else  *)
(* than what was shown.                                                      *)
Purge ==
    /\ confirmed # NoConfirmation
    /\ IF Confirmed
       THEN LET lost == AggregatesIn(confirmed.from, confirmed.to)
            IN  /\ details' = details \ DetailsIn(confirmed.from, confirmed.to)
                /\ snapshots' = snapshots \ SnapshotsIn(confirmed.from, confirmed.to)
                /\ aggregates' = aggregates \ lost
                /\ taken' = {d \in taken : /\ d \notin DetailsIn(confirmed.from, confirmed.to)
                                           /\ d \in details \/ \A g \in lost : d.value # g.value \/ Bucket(d.at) # g.bucket}
       ELSE UNCHANGED <<details, snapshots, aggregates, taken>>
    /\ confirmed' = NoConfirmation
    /\ UNCHANGED <<today, age>>

SetAge ==
    /\ age' \in Ages
    /\ UNCHANGED <<today, details, aggregates, snapshots, confirmed, taken>>

NextDay ==
    /\ today < MaxHistory
    /\ today' = today + 1
    /\ UNCHANGED <<age, details, aggregates, snapshots, confirmed, taken>>

HistoryNext ==
    \/ (\E failed \in BOOLEAN : Record(failed))
    \/ RetainHistory
    \/ (\E from, to \in 0..(MaxHistory + 1) : Preview(from, to))
    \/ Purge \/ SetAge \/ NextDay

HistorySpec == HistoryInit /\ [][HistoryNext]_historyVars

-----------------------------------------------------------------------------

(* Every reading that was taken and not purged is in the history once: in    *)
(* detail or counted in the aggregate of its value and bucket, and nothing   *)
(* else is.  retention.go:205.                                               *)
CountedOnce ==
    \A v \in HistoryValues : \A b \in {Bucket(t) : t \in Days} :
        LET compacted == {d \in taken \ details : d.value = v /\ Bucket(d.at) = b}
        IN  IF compacted = {} THEN \A g \in aggregates : g.value # v \/ g.bucket # b
            ELSE \E g \in aggregates : g.value = v /\ g.bucket = b /\ g.samples = Cardinality(compacted)

(* What a profile's last known evidence is does not change by compaction,    *)
(* however old it is and however many compactions it takes: the aggregate of *)
(* the last reading is the last one.  store/usage.go:332.                    *)
LastKnown(ds, gs) ==
    LET known == {<<d.value, Bucket(d.at), d.at>> : d \in ds} \cup {<<g.value, g.bucket, g.last>> : g \in gs}
    IN  {k \in known : \A o \in known : o[3] <= k[3]}

LastKnownStays ==
    [][RetainHistory => LastKnown(details', aggregates') = LastKnown(details, aggregates)]_historyVars

(* Whether a profile is signed in does not change by compaction, nor does    *)
(* its newest snapshot.  retention.go:214.                                   *)
Newest(set) == {s \in set : \A o \in set : o.at <= s.at}
StatusOf(set) == <<Newest(set), Newest({s \in set : ~s.failed})>>

StatusStays == [][RetainHistory => StatusOf(snapshots') = StatusOf(snapshots)]_historyVars

(* A purge deletes what its user was shown, and nothing else, whatever was   *)
(* collected, compacted or purged since.  purge.go:50.                       *)
PurgesWhatWasShown ==
    [][Purge =>
         /\ details \ details' \subseteq confirmed.selected.details
         /\ snapshots \ snapshots' \subseteq confirmed.selected.snapshots
         /\ \A g \in aggregates \ aggregates' :
                <<g.value, g.bucket>> \in confirmed.selected.aggregates]_historyVars

(* Readings are counted once; neither compaction nor purge changes what is   *)
(* known beyond what it is for.  retention.go:205, purge.go:50.              *)
HistoryKept ==
    /\ [](HistoryTypeOK /\ CountedOnce)
    /\ LastKnownStays /\ StatusStays /\ PurgesWhatWasShown
=============================================================================

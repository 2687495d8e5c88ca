---------------------------- MODULE UsageEvidence ----------------------------
(***************************************************************************)
(* What the captures of profiles over time come to when they are looked at: *)
(* the last evidence of every metric, the quota window it is about, how     *)
(* fresh it is, and the profile that is recommended for the next launch.    *)
(*                                                                         *)
(* Captures of a profile follow each other in time.  A capture has both     *)
(* metrics of the provider, only the first, or none because it failed or    *)
(* because the profile is signed out.  Codex may be upgraded, and evidence  *)
(* of the version before then stays beside that of the new one.             *)
(***************************************************************************)
EXTENDS Integers, FiniteSets

CONSTANTS
    RankedProfiles,
    Metrics,        \* of the provider, in the order of the registry
    First,          \* the metric every provider answer has
    Readings,       \* what a provider can report: used percentages, by metric
    Full,           \* 100 percent
    FreshLimit,
    WindowLength,
    MaxNow,
    Versions,       \* of Codex, numbers
    NoEvidence

ASSUME EvidenceAssumption ==
    /\ First \in Metrics /\ Readings \subseteq [Metrics -> Nat] /\ Full \in Nat
    /\ FreshLimit \in Nat /\ WindowLength \in Nat \ {0} /\ MaxNow \in Nat
    /\ Versions \subseteq Nat /\ 1 \in Versions
    /\ IsFiniteSet(Versions) /\ IsFiniteSet(RankedProfiles)
    /\ NoEvidence \notin [value : Nat, at : Nat]

VARIABLES
    now,
    version,        \* of Codex
    sharing,        \* whether the profiles have one login and one workspace
    last,           \* the last evidence, by profile, version and metric
    newest,         \* the newest snapshot of a profile: when, and the state of each metric
    signedOut       \* the profiles whose last decisive snapshot says so

evidenceVars == <<now, version, sharing, last, newest, signedOut>>

Outcomes == {"available", "unsupported", "failed", "reauthentication"}

EvidenceTypeOK ==
    /\ now \in 0..MaxNow /\ version \in Versions /\ sharing \in BOOLEAN
    /\ \A p \in RankedProfiles : \A v \in Versions : \A m \in Metrics :
          last[p][v][m] # NoEvidence => last[p][v][m].at <= newest[p].at
    /\ \A p \in RankedProfiles : newest[p].state \in [Metrics -> Outcomes]
    /\ signedOut \subseteq RankedProfiles

EvidenceInit ==
    /\ now = 0 /\ version = 1 /\ sharing \in BOOLEAN
    /\ last = [p \in RankedProfiles |-> [v \in Versions |-> [m \in Metrics |-> NoEvidence]]]
    /\ newest = [p \in RankedProfiles |-> [at |-> -1, state |-> [m \in Metrics |-> "failed"]]]
    /\ signedOut = {}

-----------------------------------------------------------------------------
(* A capture.                                                                *)

Window(t) == t \div WindowLength

NewestIs(p, state) == [at |-> now, state |-> state]

(* A failure says nothing of the login.                                       *)
SignedOutBy(p, others) ==
    IF others = "failed" THEN signedOut
    ELSE IF others = "reauthentication" THEN signedOut \cup {p}
    ELSE signedOut \ {p}

Capture(p, measured, others) ==
    /\ newest[p].at < now
    /\ \E value \in Readings :
          last' = [last EXCEPT ![p][version] = [m \in Metrics |->
                      IF m \in measured THEN [value |-> value[m], at |-> now] ELSE @[m]]]
    /\ newest' = [newest EXCEPT ![p] =
          NewestIs(p, [m \in Metrics |-> IF m \in measured THEN "available" ELSE others])]
    /\ signedOut' = SignedOutBy(p, others)
    /\ UNCHANGED <<now, version, sharing>>

CaptureAny(p) ==
    \/ Capture(p, Metrics, "unsupported")
    \/ Capture(p, {First}, "unsupported")
    \/ Capture(p, {}, "failed")
    \/ Capture(p, {}, "reauthentication")

Upgrade ==
    /\ version + 1 \in Versions
    /\ version' = version + 1
    /\ UNCHANGED <<now, sharing, last, newest, signedOut>>

TimePasses ==
    /\ now < MaxNow
    /\ now' = now + 1
    /\ UNCHANGED <<version, sharing, last, newest, signedOut>>

EvidenceNext ==
    \/ (\E p \in RankedProfiles : CaptureAny(p))
    \/ Upgrade \/ TimePasses

EvidenceSpec == EvidenceInit /\ [][EvidenceNext]_evidenceVars

-----------------------------------------------------------------------------
(* How evidence is looked at.                                                *)

Evidence(p, m) == {[value |-> last[p][v][m].value, at |-> last[p][v][m].at, version |-> v] :
                       v \in {u \in Versions : last[p][u][m] # NoEvidence}}

(* One window of a metric is current: the one that runs, or the latest.      *)
(* Evidence of other windows is history.                                     *)
CurrentWindow(p, m) ==
    LET running == {e \in Evidence(p, m) : Window(e.at) = Window(now)}
        among == IF running # {} THEN running ELSE Evidence(p, m)
    IN  Window((CHOOSE e \in among : \A o \in among : o.at <= e.at).at)

Current(p, m) == {e \in Evidence(p, m) : Window(e.at) = CurrentWindow(p, m)}

IsFresh(e) == now - e.at <= FreshLimit

(* What the dashboard says of a metric, by its current evidence.             *)
StateOf(state, current) ==
    IF state # "available" \/ current = {} THEN state
    ELSE IF Cardinality({e.value : e \in current}) > 1 THEN "contradictory"
    ELSE IF \E e \in current : IsFresh(e) THEN "available"
    ELSE "stale"

Availability(p, m) == StateOf(newest[p].state[m], Current(p, m))

(* The capacity a metric shows needs one current reading of it.              *)
CapacityOf(state, current) ==
    IF state = "contradictory" THEN state
    ELSE IF state \notin {"available", "stale"} \/ current = {} THEN "partial"
    ELSE IF Cardinality(current) > 1 THEN "contradictory"
    ELSE IF state = "stale" \/ \E e \in current : ~IsFresh(e) THEN "stale"
    ELSE IF \E e \in current : Window(e.at) # Window(now) THEN "incompatible"
    ELSE "fresh"

(* The capacity of a profile is what its metrics show, the worst of them     *)
(* first; the two that mean uncertainty are not told apart here.             *)
Capacity(p) ==
    LET Shown(m, current) == CapacityOf(StateOf(newest[p].state[m], current), current)
        shown == {Shown(m, Current(p, m)) : m \in Metrics}
    IN  IF shown \cap {"contradictory", "partial"} # {} THEN "uncertain"
        ELSE IF "stale" \in shown THEN "stale"
        ELSE IF "incompatible" \in shown THEN "uncertain"
        ELSE "fresh"

Reading(p, m) == CHOOSE e \in Current(p, m) : TRUE

-----------------------------------------------------------------------------
(* Ranking.                                                                  *)

(* A profile whose last decisive snapshot says it is signed out is not       *)
(* eligible.                                                                 *)
Eligible == RankedProfiles \ signedOut

(* MUTANT: one window decides. *)
FirstDecides(a, b) == a[First].value < b[First].value

(* A profile is better than another if it has used no more in any window and *)
(* less in one.                                                              *)
Dominates(a, b) ==
    /\ \A m \in Metrics : a[m].value <= b[m].value
    /\ \E m \in Metrics : a[m].value < b[m].value

(* Profiles of one login and workspace have one quota; evidence of another   *)
(* version of Codex is not compared.                                         *)
Incomparable(a, b) ==
    \E m \in Metrics : a[m].version # b[m].version \/ (sharing /\ a[m].value # b[m].value)

AllKnown(capacity) == \A p \in DOMAIN capacity : capacity[p] \in {"fresh", "stale"}

(* Nothing is recommended when something is uncertain, on a tie, and when    *)
(* the best one is used up.                                                  *)
Recommended ==
    LET capacity == [p \in Eligible |-> Capacity(p)]
        fresh == {p \in Eligible : capacity[p] = "fresh"}
        reading == [p \in fresh |-> [m \in Metrics |-> Reading(p, m)]]
        best == {p \in fresh : \A q \in fresh \ {p} : ~Dominates(reading[q], reading[p])}
    IN  IF /\ AllKnown(capacity)
           /\ \A p, q \in fresh : p = q \/ ~Incomparable(reading[p], reading[q])
           /\ Cardinality(best) = 1
           /\ \A p \in best : \A m \in Metrics : reading[p][m].value # Full
        THEN best ELSE {}

-----------------------------------------------------------------------------

(* A recommended profile was read, in both metrics, within the freshness     *)
(* limit and in the window that runs, and is not used up: by the last        *)
(* captures themselves, whatever the steps between made of them.             *)
(* ranking.go:31.                                                            *)
LatestValue(p, m) ==
    LET es == Evidence(p, m) IN CHOOSE e \in es : \A o \in es : o.at <= e.at

RecommendedIsKnown ==
    \A p \in Recommended : \A m \in Metrics :
        LET e == LatestValue(p, m)
        IN  /\ now - e.at <= FreshLimit /\ Window(e.at) = Window(now) /\ e.value # Full
            /\ e.at = newest[p].at

(* It is better than every other profile that could be launched: no worse in *)
(* any metric and better in one, unless the evidence of the other is older   *)
(* than the limit; and no capture of another has failed since.               *)
(* ranking.go:18.                                                            *)
RecommendedIsBest ==
    \A p \in Recommended : \A q \in Eligible \ {p} :
        /\ \A m \in Metrics : newest[q].state[m] = "available"
        /\ \/ \E m \in Metrics : now - LatestValue(q, m).at > FreshLimit
           \/ /\ \A m \in Metrics : LatestValue(p, m).value <= LatestValue(q, m).value
              /\ \E m \in Metrics : LatestValue(p, m).value < LatestValue(q, m).value

(* A change of the quota window, or of the window alone, is no contradiction:*)
(* evidence contradicts only evidence about the same window.                 *)
(* usage.go:570.                                                             *)
NoContradictionAcrossWindows ==
    \A p \in RankedProfiles : \A m \in Metrics :
        Availability(p, m) = "contradictory" =>
            \E e, o \in Evidence(p, m) : Window(e.at) = Window(o.at) /\ e.value # o.value

(* A recommendation stands on evidence that is known, fresh, of one window,  *)
(* and better than that of the others.  ranking.go:31.                       *)
RecommendationFounded ==
    /\ EvidenceTypeOK /\ RecommendedIsKnown /\ RecommendedIsBest
    /\ NoContradictionAcrossWindows
=============================================================================

--------------------------- MODULE CollectionTurns ---------------------------
(***************************************************************************)
(* The turns that profiles take in the ticks of the collection scheduler.   *)
(* A tick goes round the targets from where the last one stopped, until it  *)
(* has collected its share or has seen every one.  Whether a target is due  *)
(* is decided in CollectionSchedule and is any choice here.                 *)
(***************************************************************************)
EXTENDS Integers, FiniteSets, Sequences

CONSTANTS
    TurnProfiles,           \* a set of numbers, in the order of the aliases
    MaxCollectionsPerTick,
    MaxScheduleTargets,
    Wrap                    \* a common multiple of the numbers of targets there can be

ASSUME TurnAssumption ==
    /\ TurnProfiles \subseteq Nat /\ IsFiniteSet(TurnProfiles)
    /\ MaxCollectionsPerTick \in Nat \ {0} /\ MaxScheduleTargets \in Nat \ {0}
    /\ Wrap \in Nat \ {0} /\ \A n \in 1..Cardinality(TurnProfiles) : Wrap % n = 0

VARIABLES
    eligible,       \* the profiles that may be collected
    active,         \* those with a launch running
    cursor,         \* where the next tick starts; only its remainder matters
    round,          \* the tick that runs: its targets, and what it has done
    passed          \* the ticks in a row, of the same targets, that left a profile out

turnVars == <<eligible, active, cursor, round, passed>>

NoRound == [on |-> FALSE, targets |-> <<>>, start |-> 0, inspected |-> 0, collected |-> 0]

(* Profiles in use come first, then the aliases decide.                      *)
InOrder(set) ==
    CHOOSE s \in [1..Cardinality(set) -> set] : \A i, j \in DOMAIN s : i < j => s[i] < s[j]

Targets(set, inUse) == InOrder(set \cap inUse) \o InOrder(set \ inUse)

Position(r, k) == ((r.start + k) % Len(r.targets)) + 1
Seen(r) == {r.targets[Position(r, k)] : k \in 0..(r.inspected - 1)}
Limit(r) == IF Len(r.targets) < MaxScheduleTargets THEN Len(r.targets) ELSE MaxScheduleTargets

TurnsTypeOK ==
    /\ eligible \subseteq TurnProfiles /\ active \subseteq TurnProfiles
    /\ cursor \in 0..(Wrap - 1) /\ passed \in [TurnProfiles -> Nat]
    /\ round.inspected \in 0..Len(round.targets)
    /\ round.collected <= round.inspected
    /\ round.collected <= MaxCollectionsPerTick
    /\ round.on => round.targets # <<>>

TurnsInit ==
    /\ eligible \in SUBSET TurnProfiles /\ active \in SUBSET TurnProfiles
    /\ cursor = 0 /\ round = NoRound
    /\ passed = [p \in TurnProfiles |-> 0]

(* The tick reads the targets.  With none of them it is over at once, and    *)
(* also when reading fails.                                                  *)
RoundBegins ==
    /\ ~round.on /\ eligible # {}
    /\ LET targets == Targets(eligible, active)
       IN  round' = [on |-> TRUE, targets |-> targets, start |-> cursor % Len(targets),
                     inspected |-> 0, collected |-> 0]
    /\ UNCHANGED <<eligible, active, cursor, passed>>

(* The next target is inspected, and collected when it is due.               *)
Inspect(collects) ==
    /\ round.on /\ round.inspected < Limit(round)
    /\ round.collected < MaxCollectionsPerTick
    /\ round' = [round EXCEPT !.inspected = @ + 1, !.collected = @ + IF collects THEN 1 ELSE 0]
    /\ UNCHANGED <<eligible, active, cursor, passed>>

(* MUTANT: the next tick starts where this one did, after its collections. *)
Advanced(r) == cursor + r.collected

Advance(r) == cursor + r.inspected

Pass(p) ==
    IF p \in Seen(round) \/ p \notin eligible THEN 0 ELSE passed[p] + 1

(* The tick is over: it has seen every target, it has collected its share,   *)
(* or it could not store a state.                                            *)
RoundEnds ==
    /\ round.on
    /\ round.inspected > 0
    /\ cursor' = Advance(round) % Wrap
    /\ passed' = [p \in TurnProfiles |->
                    IF round.targets = Targets(eligible, active) THEN Pass(p) ELSE 0]
    /\ round' = NoRound
    /\ UNCHANGED <<eligible, active>>

(* A profile is added, removed or signed out, or a launch starts or ends.    *)
TargetsChange ==
    /\ \E p \in TurnProfiles :
          \/ eligible' \in {eligible \cup {p}, eligible \ {p}} /\ UNCHANGED active
          \/ active' \in {active \cup {p}, active \ {p}} /\ UNCHANGED eligible
    /\ passed' = [p \in TurnProfiles |-> 0]
    /\ UNCHANGED <<cursor, round>>

(* The service starts anew, with the cursor at the first target.             *)
TurnsRestart ==
    /\ cursor' = 0 /\ round' = NoRound
    /\ passed' = [p \in TurnProfiles |-> 0]
    /\ UNCHANGED <<eligible, active>>

TurnsNext ==
    \/ RoundBegins \/ (\E collects \in BOOLEAN : Inspect(collects)) \/ RoundEnds
    \/ TargetsChange \/ TurnsRestart

TurnsSpec == TurnsInit /\ [][TurnsNext]_turnVars

-----------------------------------------------------------------------------

(* While the targets stay the same no profile is left out of more ticks in a *)
(* row than there are other targets, though a tick may stop at the first one *)
(* it inspects, because it failed to store a state or because the first ones *)
(* are always due.  scheduler.go:134.                                        *)
TurnComes == \A p \in eligible : passed[p] < Cardinality(eligible)

(* With the type of the state: nobody is passed over for long.               *)
(* scheduler.go:134.                                                         *)
TurnsAreFair == TurnsTypeOK /\ TurnComes
=============================================================================

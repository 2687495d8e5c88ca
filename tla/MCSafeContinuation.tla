------------------------- MODULE MCSafeContinuation -------------------------
EXTENDS SafeContinuation, FiniteSets, TLC

Interchangeable == Permutations(Revisions) \cup Permutations(Handoffs)
                       \cup Permutations(Profiles) \cup Permutations(Checkpoints)

\* BOUNDS on what the leases are used for: one launch, or two, are ordinary and
\* come first; the others are handoffs and their retries.
OrdinaryUpTo(n) ==
    \A l \in Leases :
       l > n => launch[l].state \in {"unused", "deleted"} \/ launch[l].boot # None

OneCheckpoint == \E c \in Checkpoints : \A d \in Checkpoints \ {c} : checkpoint[d] = AbsentCheckpoint

OneJourney == Cardinality({h \in Handoffs : journey[h] # NoJourney}) <= 1

\* BOUND of the retries: the handoffs of one checkpoint follow one ordinary
\* launch and come one at a time.
Retries == OrdinaryUpTo(1) /\ OneCheckpoint /\ OneJourney

\* BOUNDS of the rivals: two journeys meet one ordinary launch, or one journey
\* of the only checkpoint meets two; checkpoints are not edited while a handoff
\* is under way and have one content; and nothing is deleted or expires, and
\* the system stays up.
ThreeRivals == OrdinaryUpTo(1) \/ (OrdinaryUpTo(2) /\ OneJourney /\ OneCheckpoint)

QuietCheckpoints == (\E h \in Handoffs : journey[h] # NoJourney) => op = NoOp

OneContent ==
    Cardinality({checkpoint[c].rev : c \in Checkpoints} \cup {launch[l].rev : l \in Leases}
                    \cup {journey[h].rev : h \in Handoffs} \cup {None}) <= 2

Uninterrupted == clock = 0 /\ boot = 0 /\ \A l \in Leases : launch[l].state # "deleted"

Rivals == ThreeRivals /\ QuietCheckpoints /\ OneContent /\ Uninterrupted

RetriesOrRivals == Retries \/ Rivals
=============================================================================

------------------------- MODULE MCProfileLifecycle -------------------------
EXTENDS ProfileLifecycle, TLC

Interchangeable ==
    Permutations(Requests) \cup Permutations(Leases)
        \cup Permutations(Established) \cup Permutations(Profiles \ Established)

\* BOUND: where two setups of a profile overlap there are no launches.
LaunchOrContest == contested = {} \/ \A l \in Leases : lease[l].state = "unused"
=============================================================================

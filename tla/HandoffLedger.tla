---------------------------- MODULE HandoffLedger ----------------------------
(***************************************************************************)
(* What Safe Continuation promises, without services, transactions or      *)
(* reports: a checkpoint is open, claimed by exactly one lease, or spent.  *)
(* A claim is either given back or delivered; what is spent stays spent,   *)
(* so at most one claim on a checkpoint is ever delivered, and a lease     *)
(* claims at most once.                                                    *)
(***************************************************************************)
CONSTANTS Checkpoints, Leases, NoLease

VARIABLES
    stage,      \* open, claimed or spent
    holder,     \* the lease that holds a claimed checkpoint
    issued      \* leases issued so far

ledgerVars == <<stage, holder, issued>>

LedgerInit ==
    /\ stage = [c \in Checkpoints |-> "open"]
    /\ holder = [c \in Checkpoints |-> NoLease]
    /\ issued = {}

\* A new lease that claims nothing (an ordinary launch).
Issue(l) ==
    /\ l \notin issued
    /\ issued' = issued \cup {l}
    /\ UNCHANGED <<stage, holder>>

Claim(c, l) ==
    /\ stage[c] = "open"
    /\ l \notin issued
    /\ stage' = [stage EXCEPT ![c] = "claimed"]
    /\ holder' = [holder EXCEPT ![c] = l]
    /\ issued' = issued \cup {l}

\* The claims on C are given back; the next claim is made by another lease.
Release(C) ==
    /\ \A c \in C : stage[c] = "claimed"
    /\ stage' = [c \in Checkpoints |-> IF c \in C THEN "open" ELSE stage[c]]
    /\ holder' = [c \in Checkpoints |-> IF c \in C THEN NoLease ELSE holder[c]]
    /\ UNCHANGED issued

\* The lease that holds c has started its process.
Deliver(c) ==
    /\ stage[c] = "claimed"
    /\ stage' = [stage EXCEPT ![c] = "spent"]
    /\ holder' = [holder EXCEPT ![c] = NoLease]
    /\ UNCHANGED issued

\* Checkpoints that nobody has claimed expire or are purged.
Retire(C) ==
    /\ \A c \in C : stage[c] # "claimed"
    /\ stage' = [c \in Checkpoints |-> IF c \in C THEN "spent" ELSE stage[c]]
    /\ UNCHANGED <<holder, issued>>

LedgerNext ==
    \/ \E l \in Leases : Issue(l)
    \/ \E c \in Checkpoints, l \in Leases : Claim(c, l)
    \/ \E C \in SUBSET Checkpoints : Release(C) \/ Retire(C)
    \/ \E c \in Checkpoints : Deliver(c)

LedgerSpec == LedgerInit /\ [][LedgerNext]_ledgerVars
=============================================================================

---------------------------- MODULE MCStateOwner ----------------------------
(***************************************************************************)
(* Who owns the state, the key it is sealed with, and what a start gives     *)
(* back of the handoffs of an earlier boot, in one run: `part` is the one    *)
(* that moves, and the others stay in one of their initial states.           *)
(*                                                                         *)
(* Three runs of the CLI, in casts that bring every two roles together that  *)
(* meet at the lock; who unlocks needs a passphrase.  Runs are               *)
(* interchangeable: one order of the roles stands for all.                   *)
(***************************************************************************)
EXTENDS StateOwner, VaultKeys

CONSTANTS Checkpoints, MaxLease, Profiles, Projects, Revisions, Handoffs, Retentions, MaxClock,
          MaxBoot

VARIABLES part, checkpoint, launch, clock, up, boot, alive, cli, report, op, journey

Handoff == INSTANCE SafeContinuation

handoffVars == <<checkpoint, launch, clock, up, boot, alive, cli, report, op, journey>>

Cast(first, second, third) == [p \in Proc |-> IF p = 1 THEN first ELSE IF p = 2 THEN second ELSE third]

PassphraseCasts ==
    { Cast("service", "enrolled", "unlock"),
      Cast("service", "unlock", "unlock"),
      Cast("enrolled", "command", "unlock"),
      Cast("service", "service", "recovery"),
      Cast("enrolled", "recovery", "status") }

KeychainCasts ==
    { Cast("enrolled", "enrolled", "status"),
      Cast("service", "command", "recovery"),
      Cast("enrolled", "recovery", "status") }

Casts == PassphraseCasts \cup KeychainCasts

OwnershipInit ==
    /\ Init /\ VaultInit /\ Handoff!Init
    /\ part \in {"owner", "keys", "handoff"}
    /\ IF part = "owner" THEN role \in IF mode = "passphrase" THEN PassphraseCasts ELSE KeychainCasts
       ELSE mode = "keychain" /\ role = Cast("service", "unlock", "unlock")
    /\ part # "keys" => keyring = "keychain"

OwnershipNext ==
    /\ UNCHANGED part
    /\ \/ part = "owner" /\ Next /\ UNCHANGED <<vaultVars, handoffVars>>
       \/ part = "keys" /\ VaultNext /\ UNCHANGED <<vars, handoffVars>>
       \/ part = "handoff" /\ Handoff!Next /\ UNCHANGED <<vars, vaultVars>>

\* A run of the CLI goes on, and a service that has stopped is started again.
OwnershipSpec ==
    /\ OwnershipInit /\ [][OwnershipNext]_<<part, vars, vaultVars, handoffVars>>
    /\ \A p \in Proc : WF_vars(part = "owner" /\ Progress(p))
    /\ Handoff!ServiceFairness

\* A claim left over from an earlier boot session is given back once the
\* service runs again, as SafeContinuation has it.  store/launches.go:321.
StaleClaimReleased == Handoff!StaleClaimReleased

\* BOUND: one launch is ordinary and comes first; the others are handoffs.
OneOrdinaryLaunch ==
    \A l \in 2..MaxLease : launch[l].state \in {"unused", "deleted"} \/ launch[l].boot # None
=============================================================================

--------------------------- MODULE Ownership_proofs ---------------------------
(***************************************************************************)
(* Who owns a state root, and the keys its database is sealed under.       *)
(***************************************************************************)
EXTENDS StateOwner, VaultKeys, FiniteSetTheorems, TLAPS

-----------------------------------------------------------------------------
(***************************************************************************)
(* One process has the database open, and what clients find leads to it:   *)
(* proved for any number of runs of the CLI, in any roles, with a crash    *)
(* between any two of their steps.                                         *)
(*                                                                         *)
(* The lock excludes only those that stand between Acquire and Release, or *)
(* in a probe.  So the invariant says where a process may stand when it    *)
(* holds the lock, has a store open, serves, or opens a store for another, *)
(* and what the descriptors, the lifecycle and the record of the           *)
(* passphrase are meanwhile.                                               *)
(***************************************************************************)

(* Who holds the lock is seen by where it stands.                            *)
LockIsHeld == \A p \in Proc : lock = p <=> pc[p] \in Holding

(* A process that has published its server may be asked until it is gone.    *)
Reachable(q) ==
    pc[q] \in {"serving", "closestore", "closeclient", "closemeta", "release", "exiting"}

(* A store is opened for its own run, or for a client that unlocks a         *)
(* passphrase service.                                                       *)
JobsHavePlaces ==
    \A p \in Proc :
        /\ job[p] # "none" =>
            \/ pc[p] = "opening" /\ peer[p] = p /\ job[p] \in OpenStages
            \/ /\ pc[p] \in {"calling", "done"} /\ role[p] = "unlock"
               /\ HasLifecycle(peer[p]) /\ Reachable(peer[p])
        /\ pc[p] = "opening" => job[p] # "none" /\ OpensItself(p)
        /\ pc[p] = "recover" => role[p] = "recovery"

(* One handler at a time opens a store.                                      *)
OneJob ==
    \A p, r \in Proc :
        peer[p] = peer[r] /\ job[p] \in OpenStages /\ job[r] \in OpenStages => p = r

ServerServes == \A p \in Proc : server[p] = "up" <=> pc[p] = "serving"

(* Where a store may be open.                                                *)
StoreHasPlace ==
    \A p \in Proc : store[p] =>
        \/ pc[p] \in {"opening", "recover", "publish", "serving", "closestore"}
        \/ pc[p] \in {"closeclient", "closemeta", "release", "exiting"} /\ role[p] \in Starters

(* What the descriptors name while their owner is at work.                   *)
DescriptorsMatch ==
    \A p \in Proc :
        /\ pc[p] = "writemeta" => client = None
        /\ pc[p] \in Working => meta = p /\ client \in {p, None}
        /\ pc[p] = "serving" => client = p

(* A passphrase service is locked until it serves; then, what it reports,    *)
(* installs and has open agree when nobody unlocks it.                       *)
Agreed(q) == (health[q] = "ready" <=> store[q]) /\ (operational[q] <=> store[q])

Early == {"idle", "discover", "probe", "read", "client", "acquire", "publish"} \cup Acquiring

LifecycleTold ==
    \A q \in Proc : HasLifecycle(q) =>
        /\ pc[q] \in Early => health[q] = "locked" /\ ~operational[q] /\ ~store[q]
        /\ pc[q] = "serving" /\ ~Unlocking(q) => Agreed(q)
        /\ pc[q] = "serving" /\ Unlocking(q) => health[q] # "ready" /\ ~operational[q]

ComposedIsOpen == \A p \in Proc : job[p] = "compose" => store[peer[p]]

(* The record of the passphrase comes before the database.                   *)
RecordComesFirst ==
    /\ \A p \in Proc : job[p] = "database" /\ mode = "passphrase" => vault \in Secrets
    /\ \A p \in Proc : job[p] = "write" => vault = "torn"
    /\ \A p, r \in Proc : job[p] = "write" /\ job[r] = "write" => p = r
    /\ DatabaseHasKey

OwnerInv ==
    /\ TypeOK /\ LockIsHeld /\ JobsHavePlaces /\ OneJob /\ ServerServes /\ StoreHasPlace
    /\ DescriptorsMatch /\ LifecycleTold /\ ComposedIsOpen /\ RecordComesFirst

-----------------------------------------------------------------------------

(* Vocabulary of the steps, expanded throughout.                            *)
USE DEF Places, Holding, Acquiring, Working, Closing, Roles, Starters, Probes,
        OpenStages, Jobs, Goto, Probe, Stage, files, process, service

(* Nobody holds the lock, nothing is open, and no record has been written.  *)
LEMMA OwnerInvHolds ==
  ASSUME NoneAssumption, RoleAssumption, Init
  PROVE  OwnerInv
BY DEF Init, NoneAssumption, RoleAssumption, OwnerInv, TypeOK, LockIsHeld,
   JobsHavePlaces, OneJob, ServerServes, StoreHasPlace, DescriptorsMatch,
   LifecycleTold, ComposedIsOpen, RecordComesFirst, HasLifecycle, OpensItself,
   Reachable, Unlocking, Agreed, Early, DatabaseHasKey

(* Whoever probes holds the lock, and nobody else can be at work meanwhile:  *)
(* the metadata it removes is of no owner.                                   *)
LEMMA DiscoveringKeeps ==
  ASSUME NoneAssumption, SecretAssumption, OwnerInv, NEW p \in Proc,
         Discovering(p)
  PROVE  OwnerInv'
<1>1. CASE ProbeFree(p)
  BY <1>1, SMTT(20) DEF ProbeFree, OwnerInv, TypeOK, LockIsHeld,
     JobsHavePlaces, OneJob, ServerServes, StoreHasPlace, DescriptorsMatch,
     LifecycleTold, ComposedIsOpen, RecordComesFirst, HasLifecycle, Reachable,
     Early, DatabaseHasKey
<1>2. CASE ProbeDone(p)
  BY <1>2, SMTT(20) DEF ProbeDone, Absent, OwnerInv, TypeOK, LockIsHeld,
     JobsHavePlaces, OneJob, ServerServes, StoreHasPlace, DescriptorsMatch,
     LifecycleTold, ComposedIsOpen, RecordComesFirst, HasLifecycle, Reachable,
     Early, DatabaseHasKey
<1>3. CASE ProbeHeld(p)
  BY <1>3, SMTT(20) DEF ProbeHeld, OwnerInv, TypeOK, LockIsHeld,
     JobsHavePlaces, OneJob, ServerServes, StoreHasPlace, DescriptorsMatch,
     LifecycleTold, ComposedIsOpen, RecordComesFirst, HasLifecycle,
     OpensItself, Reachable, Unlocking, Agreed, Early, DatabaseHasKey
<1>4. CASE ReadNothing(p)
  BY <1>4, SMTT(20) DEF ReadNothing, OwnerInv, TypeOK, LockIsHeld,
     JobsHavePlaces, OneJob, ServerServes, StoreHasPlace, DescriptorsMatch,
     LifecycleTold, ComposedIsOpen, RecordComesFirst, HasLifecycle, Reachable,
     Early, DatabaseHasKey
<1>5. CASE ReadOwner(p)
  BY <1>5, SMTT(20) DEF ReadOwner, OwnerInv, TypeOK, LockIsHeld,
     JobsHavePlaces, OneJob, ServerServes, StoreHasPlace, DescriptorsMatch,
     LifecycleTold, ComposedIsOpen, RecordComesFirst, HasLifecycle,
     OpensItself, Reachable, Unlocking, Agreed, Early, DatabaseHasKey
<1>6. CASE ReadClient(p)
  BY <1>6, SMTT(20) DEF ReadClient, OwnerInv, TypeOK, LockIsHeld,
     JobsHavePlaces, OneJob, ServerServes, StoreHasPlace, DescriptorsMatch,
     LifecycleTold, ComposedIsOpen, RecordComesFirst, HasLifecycle,
     OpensItself, Reachable, Unlocking, Agreed, Early, DatabaseHasKey,
     SecretAssumption
<1>. QED BY <1>1, <1>2, <1>3, <1>4, <1>5, <1>6 DEF Discovering

(* Taking the lock.  What a dead owner left is gone when the own metadata is *)
(* written.                                                                  *)
LEMMA OwningKeeps ==
  ASSUME NoneAssumption, SecretAssumption, OwnerInv, NEW p \in Proc,
         Owning(p)
  PROVE  OwnerInv'
<1>1. CASE Contended(p)
  BY <1>1, SMTT(20) DEF Contended, OwnerInv, TypeOK, LockIsHeld,
     JobsHavePlaces, OneJob, ServerServes, StoreHasPlace, DescriptorsMatch,
     LifecycleTold, ComposedIsOpen, RecordComesFirst, HasLifecycle,
     OpensItself, Reachable, Unlocking, Agreed, Early, DatabaseHasKey
<1>2. CASE Acquire(p)
  BY <1>2, SMTT(20) DEF Acquire, OwnerInv, TypeOK, LockIsHeld, JobsHavePlaces,
     OneJob, ServerServes, StoreHasPlace, DescriptorsMatch, LifecycleTold,
     ComposedIsOpen, RecordComesFirst, HasLifecycle, Reachable, Early,
     DatabaseHasKey
<1>3. CASE RemoveMeta(p)
  BY <1>3, SMTT(20) DEF RemoveMeta, OwnerInv, TypeOK, LockIsHeld,
     JobsHavePlaces, OneJob, ServerServes, StoreHasPlace, DescriptorsMatch,
     LifecycleTold, ComposedIsOpen, RecordComesFirst, HasLifecycle, Reachable,
     Early, DatabaseHasKey
<1>4. CASE RemoveClient(p)
  BY <1>4, SMTT(20) DEF RemoveClient, OwnerInv, TypeOK, LockIsHeld,
     JobsHavePlaces, OneJob, ServerServes, StoreHasPlace, DescriptorsMatch,
     LifecycleTold, ComposedIsOpen, RecordComesFirst, HasLifecycle, Reachable,
     Early, DatabaseHasKey
<1>5. CASE WriteMeta(p)
  BY <1>5, SMTT(20) DEF WriteMeta, OwnerInv, TypeOK, LockIsHeld,
     JobsHavePlaces, OneJob, ServerServes, StoreHasPlace, DescriptorsMatch,
     LifecycleTold, ComposedIsOpen, RecordComesFirst, HasLifecycle,
     OpensItself, Reachable, Early, DatabaseHasKey
<1>6. CASE AcquireFails(p)
  BY <1>6, SMTT(20) DEF AcquireFails, OwnerInv, TypeOK, LockIsHeld,
     JobsHavePlaces, OneJob, ServerServes, StoreHasPlace, DescriptorsMatch,
     LifecycleTold, ComposedIsOpen, RecordComesFirst, HasLifecycle, Reachable,
     Early, DatabaseHasKey
<1>7. CASE Recover(p)
  <2>1. store' \in [Proc -> BOOLEAN]
    BY <1>7, Zenon DEF Recover, OwnerInv, TypeOK
  <2>. QED BY <1>7, <2>1, SMTT(20) DEF Recover, OwnerInv, TypeOK, LockIsHeld,
     JobsHavePlaces, OneJob, ServerServes, StoreHasPlace, DescriptorsMatch,
     LifecycleTold, ComposedIsOpen, RecordComesFirst, HasLifecycle, Reachable,
     DatabaseHasKey
<1>. QED BY <1>1, <1>2, <1>3, <1>4, <1>5, <1>6, <1>7 DEF Owning

(* Opening a store, for the own run or for a client.                         *)
LEMMA OpeningKeeps ==
  ASSUME NoneAssumption, SecretAssumption, OwnerInv, NEW p \in Proc,
         Opening(p)
  PROVE  OwnerInv'
<1>1. CASE LookupVault(p)
  BY <1>1, SMTT(20) DEF LookupVault, OwnerInv, TypeOK, LockIsHeld,
     JobsHavePlaces, OneJob, ServerServes, StoreHasPlace, DescriptorsMatch,
     LifecycleTold, ComposedIsOpen, RecordComesFirst, HasLifecycle,
     OpensItself, Reachable, Unlocking, Agreed, DatabaseHasKey
<1>2. CASE CreateVault(p)
  BY <1>2, SMTT(20) DEF CreateVault, OwnerInv, TypeOK, LockIsHeld,
     JobsHavePlaces, OneJob, ServerServes, StoreHasPlace, DescriptorsMatch,
     LifecycleTold, ComposedIsOpen, RecordComesFirst, HasLifecycle,
     OpensItself, Reachable, Unlocking, Agreed, DatabaseHasKey
<1>3. CASE WriteVault(p)
  BY <1>3, SMTT(20) DEF WriteVault, OwnerInv, TypeOK, LockIsHeld,
     JobsHavePlaces, OneJob, ServerServes, StoreHasPlace, DescriptorsMatch,
     LifecycleTold, ComposedIsOpen, RecordComesFirst, HasLifecycle,
     OpensItself, Reachable, Unlocking, Agreed, DatabaseHasKey
<1>4. CASE OpenDatabase(p)
  <2>1. TypeOK'
    BY <1>4, SMTT(20) DEF OpenDatabase, OwnerInv, TypeOK
  <2>2. LockIsHeld'
    BY <1>4, SMTT(20) DEF OpenDatabase, OwnerInv, LockIsHeld
  <2>3. JobsHavePlaces'
    BY <1>4, SMTT(20) DEF OpenDatabase, OwnerInv, JobsHavePlaces,
       HasLifecycle, OpensItself, Reachable
  <2>4. OneJob'
    BY <1>4, SMTT(20) DEF OpenDatabase, OwnerInv, OneJob
  <2>5. ServerServes'
    BY <1>4, SMTT(20) DEF OpenDatabase, OwnerInv, ServerServes
  <2>6. StoreHasPlace'
    BY <1>4, SMTT(20) DEF OpenDatabase, OwnerInv, JobsHavePlaces,
       StoreHasPlace, HasLifecycle, Reachable
  <2>7. DescriptorsMatch'
    BY <1>4, SMTT(20) DEF OpenDatabase, OwnerInv, DescriptorsMatch
  <2>8. LifecycleTold'
    BY <1>4, SMTT(20) DEF OpenDatabase, OwnerInv, JobsHavePlaces,
       LifecycleTold, HasLifecycle, Reachable, Unlocking, Agreed, Early
  <2>9. ComposedIsOpen'
    BY <1>4, SMTT(20) DEF OpenDatabase, OwnerInv, TypeOK, ComposedIsOpen
  <2>10. RecordComesFirst'
    BY <1>4, SMTT(20) DEF OpenDatabase, OwnerInv, RecordComesFirst,
       DatabaseHasKey
  <2>. QED BY <2>1, <2>2, <2>3, <2>4, <2>5, <2>6, <2>7, <2>8, <2>9, <2>10 DEF OwnerInv
<1>5. CASE Compose(p)
  <2>1. TypeOK'
    BY <1>5, SMTT(20) DEF Compose, Activate, Answer, OwnerInv, TypeOK
  <2>2. LockIsHeld'
    BY <1>5, SMTT(20) DEF Compose, Self, Answer, OwnerInv, TypeOK, LockIsHeld,
       JobsHavePlaces, StoreHasPlace, ComposedIsOpen
  <2>3. JobsHavePlaces'
    BY <1>5, SMTT(20) DEF Compose, Self, Answer, OwnerInv, TypeOK,
       JobsHavePlaces, HasLifecycle, OpensItself, Reachable
  <2>4. OneJob'
    BY <1>5, SMTT(20) DEF Compose, OwnerInv, OneJob
  <2>5. ServerServes'
    BY <1>5, SMTT(20) DEF Compose, Answer, OwnerInv, TypeOK, JobsHavePlaces,
       ServerServes
  <2>6. StoreHasPlace'
    BY <1>5, SMTT(20) DEF Compose, Answer, OwnerInv, TypeOK, StoreHasPlace
  <2>7. DescriptorsMatch'
    BY <1>5, SMTT(20) DEF Compose, Self, Answer, OwnerInv, TypeOK,
       JobsHavePlaces, StoreHasPlace, DescriptorsMatch, ComposedIsOpen
  <2>8. LifecycleTold'
    BY <1>5, SMTT(20) DEF Compose, Activate, Self, Answer, OwnerInv, TypeOK,
       JobsHavePlaces, OneJob, LifecycleTold, ComposedIsOpen, HasLifecycle,
       OpensItself, Unlocking, Agreed
  <2>9. ComposedIsOpen'
    BY <1>5, SMTT(20) DEF Compose, OwnerInv, ComposedIsOpen
  <2>10. RecordComesFirst'
    BY <1>5, SMTT(20) DEF Compose, OwnerInv, RecordComesFirst, DatabaseHasKey
  <2>. QED BY <2>1, <2>2, <2>3, <2>4, <2>5, <2>6, <2>7, <2>8, <2>9, <2>10 DEF OwnerInv
<1>6. CASE OpenFails(p)
  <2>1. TypeOK'
    BY <1>6, SMTT(20) DEF OpenFails, Answer, RecordFailure, OwnerInv, TypeOK
  <2>2. LockIsHeld'
    BY <1>6, SMTT(20) DEF OpenFails, Self, Answer, OwnerInv, TypeOK,
       LockIsHeld, JobsHavePlaces, HasLifecycle
  <2>3. JobsHavePlaces'
    BY <1>6, SMTT(20) DEF OpenFails, Self, Answer, OwnerInv, TypeOK,
       JobsHavePlaces, HasLifecycle, OpensItself, Reachable
  <2>4. OneJob'
    BY <1>6, SMTT(20) DEF OpenFails, OwnerInv, OneJob
  <2>5. ServerServes'
    BY <1>6, SMTT(20) DEF OpenFails, Answer, OwnerInv, TypeOK, JobsHavePlaces,
       ServerServes
  <2>6. StoreHasPlace'
    BY <1>6, SMTT(20) DEF OpenFails, Self, Answer, OwnerInv, TypeOK,
       StoreHasPlace
  <2>7. DescriptorsMatch'
    BY <1>6, SMTT(20) DEF OpenFails, Answer, OwnerInv, TypeOK,
       DescriptorsMatch
  <2>8. LifecycleTold'
    BY <1>6, SMTT(20) DEF OpenFails, Answer, RecordFailure, OwnerInv, TypeOK,
       JobsHavePlaces, LifecycleTold, HasLifecycle, Reachable, Unlocking,
       Agreed, Early
  <2>9. ComposedIsOpen'
    BY <1>6, SMTT(20) DEF OpenFails, OwnerInv, TypeOK, OneJob, ComposedIsOpen
  <2>10. RecordComesFirst'
    BY <1>6, SMTT(20) DEF OpenFails, OwnerInv, TypeOK, RecordComesFirst,
       DatabaseHasKey
  <2>. QED BY <2>1, <2>2, <2>3, <2>4, <2>5, <2>6, <2>7, <2>8, <2>9, <2>10 DEF OwnerInv
<1>. QED BY <1>1, <1>2, <1>3, <1>4, <1>5, <1>6 DEF Opening

(* A request to unlock: one that finds the service locked finds nothing open *)
(* and nothing installed.                                                    *)
LEMMA CallingKeeps ==
  ASSUME NoneAssumption, SecretAssumption, OwnerInv, NEW p \in Proc,
         Calling(p)
  PROVE  OwnerInv'
<1>1. CASE CallUnlock(p)
  BY <1>1, SMTT(20) DEF CallUnlock, Unlocks, OwnerInv, TypeOK, LockIsHeld,
     JobsHavePlaces, OneJob, ServerServes, StoreHasPlace, DescriptorsMatch,
     LifecycleTold, ComposedIsOpen, RecordComesFirst, HasLifecycle, Reachable,
     Unlocking, Agreed, DatabaseHasKey
<1>2. CASE CallOther(p)
  BY <1>2, SMTT(20) DEF CallOther, OwnerInv, TypeOK, LockIsHeld,
     JobsHavePlaces, OneJob, ServerServes, StoreHasPlace, DescriptorsMatch,
     LifecycleTold, ComposedIsOpen, RecordComesFirst, HasLifecycle,
     OpensItself, Reachable, Unlocking, Agreed, Early, DatabaseHasKey
<1>3. CASE Unlock(p)
  <2>1. TypeOK'
    BY <1>3, SMTT(20) DEF Unlock, Answer, OwnerInv, TypeOK
  <2>2. LockIsHeld'
    BY <1>3, SMTT(20) DEF Unlock, Answer, OwnerInv, TypeOK, LockIsHeld
  <2>3. JobsHavePlaces'
    BY <1>3, SMTT(20) DEF Unlock, Answer, OwnerInv, TypeOK, JobsHavePlaces,
       HasLifecycle, OpensItself, Reachable
  <2>4. OneJob'
    BY <1>3, SMTT(20) DEF Unlock, OwnerInv, TypeOK, JobsHavePlaces, OneJob,
       HasLifecycle, OpensItself, Unlocking
  <2>5. ServerServes'
    BY <1>3, SMTT(20) DEF Unlock, Answer, OwnerInv, TypeOK, ServerServes
  <2>6. StoreHasPlace'
    BY <1>3, SMTT(20) DEF Unlock, Answer, OwnerInv, TypeOK, StoreHasPlace
  <2>7. DescriptorsMatch'
    BY <1>3, SMTT(20) DEF Unlock, Answer, OwnerInv, TypeOK, DescriptorsMatch
  <2>8. LifecycleTold'
    BY <1>3, SMTT(20) DEF Unlock, Answer, Unlocked, OwnerInv, TypeOK,
       JobsHavePlaces, LifecycleTold, HasLifecycle, Unlocking, Agreed
  <2>9. ComposedIsOpen'
    BY <1>3, SMTT(20) DEF Unlock, OwnerInv, TypeOK, ComposedIsOpen
  <2>10. RecordComesFirst'
    BY <1>3, SMTT(20) DEF Unlock, OwnerInv, TypeOK, RecordComesFirst,
       DatabaseHasKey
  <2>. QED BY <2>1, <2>2, <2>3, <2>4, <2>5, <2>6, <2>7, <2>8, <2>9, <2>10 DEF OwnerInv
<1>4. CASE UnlockCancelled(p)
  BY <1>4, SMTT(20) DEF UnlockCancelled, Answer, Unlocked, RecordFailure,
     OwnerInv, TypeOK, LockIsHeld, JobsHavePlaces, OneJob, ServerServes,
     StoreHasPlace, DescriptorsMatch, LifecycleTold, ComposedIsOpen,
     RecordComesFirst, HasLifecycle, OpensItself, Reachable, Unlocking,
     Agreed, DatabaseHasKey
<1>. QED BY <1>1, <1>2, <1>3, <1>4 DEF Calling

(* Serving and giving back.  Descriptors are removed under the lock, and     *)
(* only a service may release it with its store open.                        *)
LEMMA EndingKeeps ==
  ASSUME NoneAssumption, SecretAssumption, OwnerInv, NEW p \in Proc,
         Ending(p)
  PROVE  OwnerInv'
<1>1. CASE Publish(p)
  BY <1>1, SMTT(20) DEF Publish, Listen, OwnerInv, TypeOK, LockIsHeld,
     JobsHavePlaces, OneJob, ServerServes, StoreHasPlace, DescriptorsMatch,
     LifecycleTold, ComposedIsOpen, RecordComesFirst, HasLifecycle, Reachable,
     Agreed, Early, DatabaseHasKey
<1>2. CASE PublishFails(p)
  BY <1>2, SMTT(20) DEF PublishFails, Shut, OwnerInv, TypeOK, LockIsHeld,
     JobsHavePlaces, OneJob, ServerServes, StoreHasPlace, DescriptorsMatch,
     LifecycleTold, ComposedIsOpen, RecordComesFirst, HasLifecycle, Reachable,
     Early, DatabaseHasKey
<1>3. CASE CloseLifecycle(p)
  <2>1. store' \in [Proc -> BOOLEAN]
    BY <1>3, Zenon DEF CloseLifecycle, OwnerInv, TypeOK
  <2>2. /\ pc' = [pc EXCEPT ![p] = "closeclient"]
        /\ UNCHANGED <<mode, files, role, why, peer, job, server, health, operational>>
    BY <1>3 DEF CloseLifecycle
  <2>3. TypeOK'
    BY <2>1, <2>2, SMTT(20) DEF OwnerInv, TypeOK
  <2>4. OwnerInv' \/ ~TypeOK'
    BY <1>3, <2>1, <2>2, SMTT(20) DEF OwnerInv, CloseLifecycle, TypeOK,
       LockIsHeld, JobsHavePlaces, OneJob, ServerServes, StoreHasPlace,
       DescriptorsMatch, LifecycleTold, ComposedIsOpen, RecordComesFirst,
       HasLifecycle, Reachable, Unlocking, Early, DatabaseHasKey
  <2>. QED BY <2>3, <2>4
<1>4. CASE CloseStore(p)
  <2>1. store' \in [Proc -> BOOLEAN]
    BY <1>4, Zenon DEF CloseStore, OwnerInv, TypeOK
  <2>2. /\ pc' = [pc EXCEPT ![p] = "closeclient"]
        /\ UNCHANGED <<mode, files, role, why, peer, job, server, health, operational>>
    BY <1>4 DEF CloseStore
  <2>3. TypeOK'
    BY <2>1, <2>2, SMTT(20) DEF OwnerInv, TypeOK
  <2>4. OwnerInv' \/ ~TypeOK'
    BY <1>4, <2>1, <2>2, SMTT(20) DEF OwnerInv, CloseStore, TypeOK,
       LockIsHeld, JobsHavePlaces, OneJob, ServerServes, StoreHasPlace,
       DescriptorsMatch, LifecycleTold, ComposedIsOpen, RecordComesFirst,
       HasLifecycle, DatabaseHasKey
  <2>. QED BY <2>3, <2>4
<1>5. CASE CloseCommand(p)
  BY <1>5, SMTT(20) DEF CloseCommand, OwnerInv, TypeOK, LockIsHeld,
     JobsHavePlaces, OneJob, ServerServes, StoreHasPlace, DescriptorsMatch,
     LifecycleTold, ComposedIsOpen, RecordComesFirst, HasLifecycle, Reachable,
     DatabaseHasKey
<1>6. CASE CloseClient(p)
  BY <1>6, SMTT(20) DEF CloseClient, OwnerInv, TypeOK, LockIsHeld,
     JobsHavePlaces, OneJob, ServerServes, StoreHasPlace, DescriptorsMatch,
     LifecycleTold, ComposedIsOpen, RecordComesFirst, HasLifecycle, Reachable,
     Early, DatabaseHasKey
<1>7. CASE CloseMeta(p)
  BY <1>7, SMTT(20) DEF CloseMeta, OwnerInv, TypeOK, LockIsHeld,
     JobsHavePlaces, OneJob, ServerServes, StoreHasPlace, DescriptorsMatch,
     LifecycleTold, ComposedIsOpen, RecordComesFirst, HasLifecycle, Reachable,
     Early, DatabaseHasKey
<1>8. CASE Release(p)
  BY <1>8, SMTT(20) DEF Release, OwnerInv, TypeOK, LockIsHeld, JobsHavePlaces,
     OneJob, ServerServes, StoreHasPlace, DescriptorsMatch, LifecycleTold,
     ComposedIsOpen, RecordComesFirst, HasLifecycle, Reachable, Early,
     DatabaseHasKey
<1>9. CASE Exit(p)
  BY <1>9, SMTT(20) DEF Exit, Gone, OwnerInv, TypeOK, LockIsHeld,
     JobsHavePlaces, OneJob, ServerServes, StoreHasPlace, DescriptorsMatch,
     LifecycleTold, ComposedIsOpen, RecordComesFirst, HasLifecycle,
     OpensItself, Reachable, Unlocking, Agreed, Early, DatabaseHasKey
<1>. QED BY <1>1, <1>2, <1>3, <1>4, <1>5, <1>6, <1>7, <1>8, <1>9 DEF Ending

(* What users and the system do.                                             *)
LEMMA OthersKeep ==
  ASSUME NoneAssumption, SecretAssumption, OwnerInv, NEW p \in Proc,
         Start(p) \/ HangUp(p) \/ StopServing(p) \/ Crash(p)
  PROVE  OwnerInv'
<1>1. CASE Start(p)
  BY <1>1, SMTT(20) DEF Start, OwnerInv, TypeOK, LockIsHeld, JobsHavePlaces,
     OneJob, ServerServes, StoreHasPlace, DescriptorsMatch, LifecycleTold,
     ComposedIsOpen, RecordComesFirst, HasLifecycle, OpensItself, Reachable,
     Unlocking, Agreed, Early, DatabaseHasKey
<1>2. CASE HangUp(p)
  BY <1>2, SMTT(20) DEF HangUp, OwnerInv, TypeOK, LockIsHeld, JobsHavePlaces,
     OneJob, ServerServes, StoreHasPlace, DescriptorsMatch, LifecycleTold,
     ComposedIsOpen, RecordComesFirst, HasLifecycle, OpensItself, Reachable,
     Unlocking, Agreed, Early, DatabaseHasKey
<1>3. CASE StopServing(p)
  BY <1>3, SMTT(20) DEF StopServing, Shut, OwnerInv, TypeOK, LockIsHeld,
     JobsHavePlaces, OneJob, ServerServes, StoreHasPlace, DescriptorsMatch,
     LifecycleTold, ComposedIsOpen, RecordComesFirst, HasLifecycle, Reachable,
     Early, DatabaseHasKey
<1>4. CASE Crash(p)
  BY <1>4, SMTT(20) DEF Crash, Gone, OwnerInv, TypeOK, LockIsHeld,
     JobsHavePlaces, OneJob, ServerServes, StoreHasPlace, DescriptorsMatch,
     LifecycleTold, ComposedIsOpen, RecordComesFirst, HasLifecycle,
     OpensItself, Reachable, Unlocking, Agreed, Early, DatabaseHasKey
<1>. QED BY <1>1, <1>2, <1>3, <1>4

-----------------------------------------------------------------------------

LEMMA OwnerInvKept ==
  ASSUME NoneAssumption, SecretAssumption, OwnerInv, [Next]_vars
  PROVE  OwnerInv'
<1>1. CASE UNCHANGED vars
  BY <1>1, SMTT(30) DEF vars, OwnerInv, TypeOK, LockIsHeld, JobsHavePlaces,
     OneJob, ServerServes, StoreHasPlace, DescriptorsMatch, LifecycleTold,
     ComposedIsOpen, RecordComesFirst, HasLifecycle, OpensItself, Reachable,
     Unlocking, Agreed, Early, DatabaseHasKey
<1>2. ASSUME NEW p \in Proc,
             Progress(p) \/ Start(p) \/ HangUp(p) \/ StopServing(p) \/ Crash(p)
      PROVE  OwnerInv'
  <2>1. CASE Discovering(p)  BY <2>1, DiscoveringKeeps
  <2>2. CASE Owning(p)       BY <2>2, OwningKeeps
  <2>3. CASE Opening(p)      BY <2>3, OpeningKeeps
  <2>4. CASE Calling(p)      BY <2>4, CallingKeeps
  <2>5. CASE Ending(p)       BY <2>5, EndingKeeps
  <2>6. CASE Start(p) \/ HangUp(p) \/ StopServing(p) \/ Crash(p)
    BY <2>6, OthersKeep
  <2>. QED BY <1>2, <2>1, <2>2, <2>3, <2>4, <2>5, <2>6 DEF Progress
<1>. QED BY <1>1, <1>2 DEF Next

(* Where the lock is and where stores are, taken together.                   *)
LEMMA OwnerInvSuffices ==
  ASSUME OwnerInv
  PROVE  OneOwner
<1>1. OwnerHasStore      BY DEF OwnerInv, OwnerHasStore, LockIsHeld, StoreHasPlace
<1>2. DescriptorsNameOwner
  BY DEF OwnerInv, DescriptorsNameOwner, LockIsHeld, ServerServes, DescriptorsMatch
<1>3. HealthIsTrue
  BY DEF OwnerInv, HealthIsTrue, ServerServes, LifecycleTold, Agreed
<1>. QED BY <1>1, <1>2, <1>3 DEF OneOwner, OwnerInv, RecordComesFirst

(* One process has the database open, what clients find leads to it and      *)
(* tells the truth, and its database can be unlocked.  owner.go:69,          *)
(* owner.go:159, service_lifecycle.go:63.                                    *)
THEOREM OwnerIsUnique == Spec => []OneOwner
<1>1. Init => OwnerInv
  BY NoneAssumption, RoleAssumption, OwnerInvHolds
<1>2. OwnerInv /\ [Next]_vars => OwnerInv'
  BY NoneAssumption, SecretAssumption, OwnerInvKept
<1>3. OwnerInv => OneOwner
  BY OwnerInvSuffices
<1>. QED BY <1>1, <1>2, <1>3, PTL DEF Spec

(* Only the opening of a store writes to the record, and none does that has  *)
(* not found it missing or made it.                                          *)
LEMMA SealedNotReplaced ==
  ASSUME OwnerInv, [Next]_vars, vault \in Secrets
  PROVE  UNCHANGED vault
<1>1. vault # None /\ vault # "torn"
  BY NoneAssumption, SecretAssumption DEF NoneAssumption, SecretAssumption
<1>2. ASSUME NEW p \in Proc, Opening(p)
      PROVE  UNCHANGED vault
  BY <1>1, <1>2 DEF OwnerInv, RecordComesFirst, Opening, LookupVault, CreateVault,
     WriteVault, OpenDatabase, Compose, OpenFails
<1>3. ASSUME NEW p \in Proc, Discovering(p) \/ Owning(p)
      PROVE  UNCHANGED vault
  BY <1>3 DEF Discovering, ProbeFree, ProbeDone, ProbeHeld, ReadNothing, ReadOwner,
     ReadClient, Owning, Contended, Acquire, RemoveMeta, RemoveClient, WriteMeta,
     AcquireFails, Recover
<1>4. ASSUME NEW p \in Proc, Calling(p) \/ Ending(p)
      PROVE  UNCHANGED vault
  BY <1>4 DEF Calling, CallUnlock, CallOther, Unlock, UnlockCancelled, Ending, Publish,
     PublishFails, CloseLifecycle, CloseStore, CloseCommand, CloseClient, CloseMeta,
     Release, Exit, Gone
<1>5. ASSUME NEW p \in Proc, Start(p) \/ HangUp(p) \/ StopServing(p) \/ Crash(p)
      PROVE  UNCHANGED vault
  BY <1>5 DEF Start, HangUp, StopServing, Crash, Gone
<1>. QED BY <1>2, <1>3, <1>4, <1>5 DEF Next, Progress, vars

(* No process replaces the record another one sealed, even when both found   *)
(* none: who writes one has made it, and has it alone.  passphrase.go:243.   *)
THEOREM SealedStays == Spec => SealedOnce
<1>1. Init => OwnerInv
  BY NoneAssumption, RoleAssumption, OwnerInvHolds
<1>2. OwnerInv /\ [Next]_vars => OwnerInv'
  BY NoneAssumption, SecretAssumption, OwnerInvKept
<1>3. OwnerInv /\ [Next]_vars => [(vault \in Secrets) => UNCHANGED vault]_vars
  BY SealedNotReplaced
<1>. QED BY <1>1, <1>2, <1>3, PTL DEF Spec, SealedOnce

-----------------------------------------------------------------------------
(***************************************************************************)
(* Keys are kept, and never replaced behind the back of what they sealed:  *)
(* proved for any number of state roots, of keys and of deletions, on each *)
(* of the three platforms.  The invariant speaks of one root at a time, as *)
(* long as the keyring is not one that another root can overwrite.         *)
(***************************************************************************)

Running(r) == provider[r].at # "stopped"
Sealing(r) == provider[r].for = "seal"

(* What is known of every service, whatever else runs.                     *)
ServiceOK(r) ==
    /\ Running(r) => r \in started
    /\ provider[r].at = "stopped" => ~Sealing(r)
    /\ provider[r].at = "serving" \/ Sealing(r) => hasDatabase[r]
    /\ provider[r].at \notin {"stopped", "serving"} /\ ~Sealing(r) /\ provider[r].allowCreate
            => ~hasDatabase[r]
    /\ provider[r].at \in {"writing", "loaded"} => provider[r].key \in Generations
    /\ provider[r].at = "writing" => keyring = "dpapi" /\ Kept(r) = Torn

(* As long as no key was deleted: what a service serves under is kept.     *)
KeyThere(r) ==
    taken = 0 /\ (keyring # "secret-service" \/ Alone(r)) =>
        /\ \A e \in sealed[r] : Opens(r, e)
        /\ provider[r].at = "loaded" => Kept(r) = provider[r].key
        /\ provider[r].at = "serving" \/ Sealing(r) => Whole(Kept(r))

(* A root that nobody else interferes with knows of one key.               *)
KeyKnown(r) ==
    Alone(r) =>
        /\ provider[r].at = "missing" => Kept(r) = NoKey
        /\ provider[r].at = "loaded" /\ Whole(Kept(r)) => Kept(r) = provider[r].key

(* What has been sealed is sealed under that one, and no other is drawn: a *)
(* provider that still could, and has sealed, holds a key it does not      *)
(* remember drawing.                                                       *)
OneKey(r) ==
    Alone(r) /\ (keyring # "secret-service" \/ taken < 2) =>
        /\ \A e \in sealed[r], f \in sealed[r] : e = f
        /\ \A e \in sealed[r] :
              /\ Whole(Kept(r)) => e.generation = Kept(r)
              /\ provider[r].at = "loaded" => e.generation = provider[r].key
              /\ provider[r].at \notin {"missing", "writing"}
        /\ Running(r) /\ MayCreate(r) /\ (sealed[r] # {} \/ (provider[r].at = "loaded" /\ Sealing(r)))
              => keyring = "secret-service" /\ taken = 1 /\ Whole(Kept(r))

RootOK(r) == ServiceOK(r) /\ KeyThere(r) /\ KeyKnown(r) /\ OneKey(r)

IInv == VaultTypeOK /\ \A r \in Roots : RootOK(r)

-----------------------------------------------------------------------------
(* Types.                                                                  *)

Ats == {"stopped", "looking", "missing", "writing", "loaded", "serving"}
Providers == [at : Ats, for : {"start", "seal"}, allowCreate : BOOLEAN, initialized : BOOLEAN,
              key : Generations \cup {NoKey}]
Items == [KeyPlaces -> Generations \cup {NoKey, Torn}]

LEMMA Typed ==
  VaultTypeOK <=>
    /\ keyring \in {"keychain", "secret-service", "dpapi"}
    /\ item \in Items /\ drawn \in 0..MaxGeneration
    /\ hasDatabase \in [Roots -> BOOLEAN]
    /\ sealed \in [Roots -> SUBSET {Envelope(g) : g \in Generations}]
    /\ provider \in [Roots -> Providers]
    /\ started \subseteq Roots /\ taken \in 0..MaxTaken
    /\ \A r \in Roots : sealed[r] # {} => hasDatabase[r]
BY DEF VaultTypeOK, Items, Providers, Ats

LEMMA StoppedTyped ==
  /\ Stopped \in Providers /\ Stopped.at = "stopped" /\ Stopped.for = "start"
  /\ ~Stopped.allowCreate
BY DEF Stopped, Providers, Ats

LEMMA RecordsAreKeys ==
  ASSUME VaultAssumption, NEW v, Whole(v)
  PROVE  v \in Generations /\ v # NoKey /\ v # Torn
BY DEF VaultAssumption, Whole, Generations

LEMMA AbsentIsNotWhole ==
  ASSUME VaultAssumption
  PROVE  ~Whole(NoKey) /\ ~Whole(Torn) /\ NoKey \notin Generations
BY DEF VaultAssumption, Whole, Generations

LEMMA KeptTyped ==
  ASSUME VaultTypeOK, NEW r \in Roots
  PROVE  Place(r) \in KeyPlaces /\ Kept(r) \in Generations \cup {NoKey, Torn}
BY Typed DEF Place, KeyPlaces, Kept, Items

LEMMA NextKey ==
  ASSUME VaultTypeOK, VaultAssumption, drawn < MaxGeneration
  PROVE  drawn + 1 \in Generations /\ drawn + 1 \in 0..MaxGeneration
BY Typed DEF VaultAssumption, Generations

(* What is left as it was stays typed.                                     *)
LEMMA TypedStep ==
  ASSUME VaultTypeOK,
         UNCHANGED <<keyring, hasDatabase, sealed, started>>, taken' \in 0..MaxTaken,
         item' \in Items, drawn' \in 0..MaxGeneration, provider' \in [Roots -> Providers]
  PROVE  VaultTypeOK'
<1>1. (VaultTypeOK)' <=>
    /\ keyring' \in {"keychain", "secret-service", "dpapi"}
    /\ item' \in Items /\ drawn' \in 0..MaxGeneration
    /\ hasDatabase' \in [Roots -> BOOLEAN]
    /\ sealed' \in [Roots -> SUBSET {Envelope(g) : g \in Generations}]
    /\ provider' \in [Roots -> Providers]
    /\ started' \subseteq Roots /\ taken' \in 0..MaxTaken
    /\ \A r \in Roots : sealed'[r] # {} => hasDatabase'[r]
  BY DEF VaultTypeOK, Items, Providers, Ats
<1>2. /\ keyring' \in {"keychain", "secret-service", "dpapi"}
      /\ hasDatabase' \in [Roots -> BOOLEAN]
      /\ sealed' \in [Roots -> SUBSET {Envelope(g) : g \in Generations}]
      /\ started' \subseteq Roots
      /\ \A r \in Roots : sealed'[r] # {} => hasDatabase'[r]
  BY Typed
<1> QED BY <1>1, <1>2

-----------------------------------------------------------------------------
(* How a provider answers.                                                 *)

LEMMA ProviderMoved ==
  ASSUME NEW r \in Roots, NEW p \in Providers, provider \in [Roots -> Providers],
         provider' = [provider EXCEPT ![r] = p]
  PROVE  /\ provider' \in [Roots -> Providers] /\ provider'[r] = p
         /\ \A q \in Roots : q # r => provider'[q] = provider[q]
OBVIOUS

LEMMA AnsweredGives ==
  ASSUME VaultTypeOK, NEW r \in Roots, NEW g \in Generations, NEW remembers \in BOOLEAN,
         Answered(r, g, remembers)
  PROVE  /\ provider' \in [Roots -> Providers]
         /\ provider'[r].at = "loaded" /\ provider'[r].key = g
         /\ provider'[r].for = provider[r].for
         /\ provider'[r].allowCreate = provider[r].allowCreate
         /\ provider'[r].initialized = (provider[r].initialized \/ remembers)
         /\ \A q \in Roots : q # r => provider'[q] = provider[q]
<1> DEFINE answered == [provider[r] EXCEPT !.at = "loaded", !.key = g,
                                            !.initialized = @ \/ remembers]
<1>1. provider[r] \in Providers
  BY Typed
<1>2. /\ answered \in Providers /\ answered.at = "loaded" /\ answered.key = g
      /\ answered.for = provider[r].for /\ answered.allowCreate = provider[r].allowCreate
      /\ answered.initialized = (provider[r].initialized \/ remembers)
  BY <1>1 DEF Providers, Ats
<1>3. provider' = [provider EXCEPT ![r] = answered]
  BY <1>1, Typed DEF Answered, Providers
<1> HIDE DEF answered
<1> QED BY <1>2, <1>3, Typed, ProviderMoved

LEMMA RefusedGives ==
  ASSUME VaultTypeOK, NEW r \in Roots, Refused(r)
  PROVE  /\ provider' \in [Roots -> Providers]
         /\ ~Sealing(r) => provider'[r] = Stopped
         /\ Sealing(r) =>
               /\ provider'[r].at = "serving" /\ provider'[r].for = "seal"
               /\ provider'[r].allowCreate = provider[r].allowCreate
               /\ provider'[r].initialized = provider[r].initialized
         /\ \A q \in Roots : q # r => provider'[q] = provider[q]
BY Typed, StoppedTyped DEF Refused, Providers, Ats, Sealing

-----------------------------------------------------------------------------
(* A step of one root, seen by another one.                                *)

LEMMA Others ==
  ASSUME VaultAssumption, IInv, NEW r \in Roots, NEW q \in Roots, q # r,
         keyring' = keyring, taken' = taken, started \subseteq started',
         provider'[q] = provider[q], sealed'[q] = sealed[q], hasDatabase'[q] = hasDatabase[q],
         \/ item' = item
         \/ /\ r \in started /\ (keyring = "keychain" => Kept(r) = NoKey)
            /\ \E v : item' = [item EXCEPT ![Place(r)] = v]
  PROVE  RootOK(q)'
<1>1. RootOK(q) /\ VaultTypeOK
  BY DEF IInv
<1>2. Alone(q)' => Alone(q)
  BY DEF Alone
<1>3. Running(q)' = Running(q) /\ Sealing(q)' = Sealing(q) /\ MayCreate(q)' = MayCreate(q)
      /\ Place(q)' = Place(q)
  BY DEF Running, Sealing, MayCreate, Place
<1>4. CASE Kept(q)' = Kept(q)
  <2>1. \A e : Opens(q, e)' = Opens(q, e)
    BY <1>4 DEF Opens
  <2>2. ServiceOK(q)'
    BY <1>1, <1>3, <1>4 DEF RootOK, ServiceOK
  <2>3. KeyThere(q)'
    BY <1>1, <1>2, <1>3, <1>4, <2>1 DEF RootOK, KeyThere
  <2>4. KeyKnown(q)'
    BY <1>1, <1>2, <1>3, <1>4 DEF RootOK, KeyKnown
  <2>5. OneKey(q)'
    BY <1>1, <1>2, <1>3, <1>4 DEF RootOK, OneKey
  <2> QED BY <2>2, <2>3, <2>4, <2>5 DEF RootOK
<1>5. CASE Kept(q)' # Kept(q)
  <2>1. PICK v : r \in started /\ (keyring = "keychain" => Kept(r) = NoKey)
                 /\ item' = [item EXCEPT ![Place(r)] = v]
    BY <1>5, <1>3 DEF Kept
  <2>2. Place(q) = Place(r) /\ keyring # "dpapi"
    BY <1>3, <1>5, <2>1, <1>1, Typed, KeptTyped DEF Kept, Place, Items
  <2>3. ~Alone(q) /\ ~Alone(q)'
    BY <2>1, <2>2 DEF Alone
  <2>4. ServiceOK(q)'
    BY <1>1, <1>3, <2>2 DEF RootOK, ServiceOK
  <2>5. KeyThere(q)'
    <3>1. CASE keyring = "secret-service"
      BY <2>3, <3>1 DEF KeyThere
    <3>2. CASE keyring # "secret-service"
      <4>1. Kept(q) = NoKey
        BY <2>1, <2>2, <3>2, <1>1, Typed DEF Kept
      <4>2. ~Whole(Kept(q)) /\ Kept(q) \notin Generations
        BY <4>1, AbsentIsNotWhole
      <4>3. taken = 0 => /\ sealed[q] = {}
                         /\ provider[q].at \notin {"loaded", "serving"} /\ ~Sealing(q)
        BY <1>1, <3>2, <4>2 DEF RootOK, KeyThere, Opens, ServiceOK
      <4> QED BY <1>3, <4>3 DEF KeyThere
    <3> QED BY <3>1, <3>2
  <2>6. KeyKnown(q)' /\ OneKey(q)'
    BY <2>3 DEF KeyKnown, OneKey
  <2> QED BY <2>4, <2>5, <2>6 DEF RootOK
<1> QED BY <1>4, <1>5

(* What a step of one root does to the invariant of that root is all that  *)
(* is left to show.                                                        *)
LEMMA OwnRoot ==
  ASSUME VaultAssumption, IInv, NEW r \in Roots, Running(r),
         UNCHANGED <<keyring, taken, started>>,
         \A q \in Roots : q # r => /\ provider'[q] = provider[q]
                                   /\ sealed'[q] = sealed[q]
                                   /\ hasDatabase'[q] = hasDatabase[q],
         \/ item' = item
         \/ /\ keyring = "keychain" => Kept(r) = NoKey
            /\ \E v : item' = [item EXCEPT ![Place(r)] = v],
         VaultTypeOK', RootOK(r)'
  PROVE  IInv'
<1>1. r \in started
  BY DEF IInv, RootOK, ServiceOK
<1>2. ASSUME NEW q \in Roots, q # r
      PROVE  RootOK(q)'
  BY <1>1, <1>2, Others
<1> QED BY <1>2 DEF IInv

(* A step that leaves what is stored.                                      *)
StoredLeft == UNCHANGED <<keyring, hasDatabase, sealed, started, taken>>

LEMMA OwnProvider ==
  ASSUME VaultAssumption, IInv, NEW r \in Roots, Running(r), StoredLeft,
         provider' \in [Roots -> Providers],
         \A q \in Roots : q # r => provider'[q] = provider[q],
         \/ item' = item /\ drawn' = drawn
         \/ /\ keyring = "keychain" => Kept(r) = NoKey
            /\ \E v \in Generations \cup {NoKey, Torn} : item' = [item EXCEPT ![Place(r)] = v]
            /\ drawn' \in 0..MaxGeneration,
         RootOK(r)'
  PROVE  IInv'
<1>1. VaultTypeOK
  BY DEF IInv
<1>2. item \in Items /\ drawn \in 0..MaxGeneration /\ taken \in 0..MaxTaken
  BY <1>1, Typed
<1>3. item' \in Items /\ drawn' \in 0..MaxGeneration
  BY <1>2 DEF Items
<1>4. VaultTypeOK'
  BY <1>1, <1>2, <1>3, TypedStep DEF StoredLeft
<1> QED BY <1>4, OwnRoot DEF StoredLeft

LEMMA SameForOwn ==
  ASSUME NEW r \in Roots, StoredLeft
  PROVE  /\ Alone(r)' = Alone(r) /\ Place(r)' = Place(r)
         /\ sealed'[r] = sealed[r] /\ hasDatabase'[r] = hasDatabase[r]
         /\ keyring' = keyring /\ taken' = taken /\ started' = started
         /\ item' = item => Kept(r)' = Kept(r) /\ \A e : Opens(r, e)' = Opens(r, e)
BY DEF StoredLeft, Alone, Place, Kept, Opens

-----------------------------------------------------------------------------
(* Asking for the key.                                                     *)

(* A refused call.                                                         *)
LEMMA RefusedOK ==
  ASSUME IInv, NEW r \in Roots, Running(r), Refused(r), StoredLeft, item' = item
  PROVE  RootOK(r)'
<1>1. RootOK(r) /\ VaultTypeOK
  BY DEF IInv
<1>2. CASE ~Sealing(r)
  <2>1. provider'[r] = Stopped
    BY <1>1, <1>2, RefusedGives
  <2> QED BY <1>1, <2>1, StoppedTyped, SameForOwn
          DEF RootOK, ServiceOK, KeyThere, KeyKnown, OneKey, Running, Sealing
<1>3. CASE Sealing(r)
  <2>1. /\ provider'[r].at = "serving" /\ provider'[r].for = "seal"
        /\ provider'[r].allowCreate = provider[r].allowCreate
        /\ provider'[r].initialized = provider[r].initialized
    BY <1>1, <1>3, RefusedGives
  <2> QED BY <1>1, <1>3, <2>1, SameForOwn
          DEF RootOK, ServiceOK, KeyThere, KeyKnown, OneKey, Running, Sealing, MayCreate
<1> QED BY <1>2, <1>3

(* The key that is kept is the answer.                                     *)
LEMMA FoundOK ==
  ASSUME VaultAssumption, IInv, NEW r \in Roots, Running(r), Whole(Kept(r)),
         NEW remembers \in BOOLEAN, Answered(r, Kept(r), remembers),
         StoredLeft, item' = item, Alone(r) => remembers,
         provider[r].at \in {"looking", "missing"}
  PROVE  RootOK(r)'
<1>1. RootOK(r) /\ VaultTypeOK
  BY DEF IInv
<1>2. Kept(r) \in Generations
  BY RecordsAreKeys
<1>3. /\ provider'[r].at = "loaded" /\ provider'[r].key = Kept(r)
      /\ provider'[r].for = provider[r].for
      /\ provider'[r].allowCreate = provider[r].allowCreate
      /\ provider'[r].initialized = (provider[r].initialized \/ remembers)
  BY <1>1, <1>2, AnsweredGives
<1>4. ServiceOK(r)'
  BY <1>1, <1>2, <1>3, SameForOwn DEF RootOK, ServiceOK, Running, Sealing
<1>5. KeyThere(r)' /\ KeyKnown(r)'
  BY <1>1, <1>3, SameForOwn DEF RootOK, KeyThere, KeyKnown, Sealing
<1>6. OneKey(r)'
  <2>1. Alone(r) => ~MayCreate(r)'
    BY <1>3 DEF MayCreate
  <2> QED BY <1>1, <1>3, <2>1, SameForOwn DEF RootOK, OneKey
<1> QED BY <1>4, <1>5, <1>6 DEF RootOK

LEMMA LookupStep ==
  ASSUME VaultAssumption, IInv, NEW r \in Roots, Lookup(r)
  PROVE  IInv'
<1>1. Running(r) /\ StoredLeft /\ item' = item /\ drawn' = drawn /\ VaultTypeOK
      /\ provider[r].at = "looking" /\ RootOK(r)
  BY DEF Lookup, Running, StoredLeft, IInv
<1>2. CASE Whole(Kept(r))
  <2>0. Kept(r) # NoKey
    BY <1>2, RecordsAreKeys
  <2>1. Answered(r, Kept(r), TRUE)
    BY <1>2, <2>0 DEF Lookup
  <2>2. Kept(r) \in Generations
    BY <1>2, RecordsAreKeys
  <2>3. RootOK(r)'
    BY <1>1, <1>2, <2>1, FoundOK
  <2> QED BY <1>1, <2>1, <2>2, <2>3, AnsweredGives, OwnProvider
<1>3. CASE Kept(r) = NoKey /\ MayCreate(r)
  <2>1. provider' = [provider EXCEPT ![r].at = "missing"] /\ ~Whole(Kept(r))
    BY <1>3, AbsentIsNotWhole DEF Lookup
  <2>2. provider' \in [Roots -> Providers]
        /\ \A q \in Roots : q # r => provider'[q] = provider[q]
    BY <1>1, <2>1, Typed DEF Providers, Ats
  <2>3. /\ provider'[r].at = "missing" /\ provider'[r].for = provider[r].for
        /\ provider'[r].allowCreate = provider[r].allowCreate
        /\ provider'[r].initialized = provider[r].initialized
    BY <1>1, <2>1, Typed DEF Providers
  <2>4. RootOK(r)'
    BY <1>1, <1>3, <2>1, <2>3, SameForOwn
       DEF RootOK, ServiceOK, KeyThere, KeyKnown, OneKey, Running, Sealing, MayCreate
  <2> QED BY <1>1, <2>2, <2>4, OwnProvider
<1>4. CASE ~Whole(Kept(r)) /\ ~(Kept(r) = NoKey /\ MayCreate(r))
  <2>1. Refused(r)
    BY <1>4 DEF Lookup
  <2>2. RootOK(r)'
    BY <1>1, <2>1, RefusedOK
  <2> QED BY <1>1, <2>1, <2>2, RefusedGives, OwnProvider
<1> QED BY <1>2, <1>3, <1>4

LEMMA UnavailableStep ==
  ASSUME VaultAssumption, IInv, NEW r \in Roots, Unavailable(r)
  PROVE  IInv'
<1>1. Running(r) /\ StoredLeft /\ item' = item /\ drawn' = drawn /\ VaultTypeOK /\ Refused(r)
  BY DEF Unavailable, Running, StoredLeft, IInv
<1>2. RootOK(r)'
  BY <1>1, RefusedOK
<1> QED BY <1>1, <1>2, RefusedGives, OwnProvider

LEMMA EncryptStep ==
  ASSUME VaultAssumption, IInv, NEW r \in Roots, Encrypt(r)
  PROVE  IInv'
<1>1. Running(r) /\ StoredLeft /\ item' = item /\ drawn' = drawn /\ VaultTypeOK /\ RootOK(r)
      /\ provider[r].at = "serving"
  BY DEF Encrypt, Running, StoredLeft, IInv
<1>2. /\ provider' \in [Roots -> Providers]
      /\ \A q \in Roots : q # r => provider'[q] = provider[q]
      /\ provider'[r].at = "looking" /\ provider'[r].for = "seal"
      /\ provider'[r].allowCreate = provider[r].allowCreate
      /\ provider'[r].initialized = provider[r].initialized
  <2> DEFINE moved == [provider[r] EXCEPT !.at = "looking", !.for = "seal"]
  <2>1. provider[r] \in Providers
    BY <1>1, Typed
  <2>2. /\ moved \in Providers /\ moved.at = "looking" /\ moved.for = "seal"
        /\ moved.allowCreate = provider[r].allowCreate
        /\ moved.initialized = provider[r].initialized
    BY <1>1, <2>1 DEF Providers, Ats
  <2>3. provider' = [provider EXCEPT ![r] = moved]
    BY <1>1, <2>1, Typed DEF Encrypt, Providers
  <2> HIDE DEF moved
  <2> QED BY <1>1, <2>2, <2>3, Typed, ProviderMoved
<1>3. RootOK(r)'
  BY <1>1, <1>2, SameForOwn
     DEF RootOK, ServiceOK, KeyThere, KeyKnown, OneKey, Running, Sealing, MayCreate
<1> QED BY <1>1, <1>2, <1>3, OwnProvider

LEMMA VaultStopsStep ==
  ASSUME VaultAssumption, IInv, NEW r \in Roots, VaultStops(r)
  PROVE  IInv'
<1>1. Running(r) /\ StoredLeft /\ item' = item /\ drawn' = drawn /\ VaultTypeOK /\ RootOK(r)
  BY DEF VaultStops, Running, StoredLeft, IInv
<1>2. /\ provider' \in [Roots -> Providers] /\ provider'[r] = Stopped
      /\ \A q \in Roots : q # r => provider'[q] = provider[q]
  BY <1>1, Typed, StoppedTyped DEF VaultStops
<1>3. RootOK(r)'
  BY <1>1, <1>2, StoppedTyped, SameForOwn
     DEF RootOK, ServiceOK, KeyThere, KeyKnown, OneKey, Running, Sealing
<1> QED BY <1>1, <1>2, <1>3, OwnProvider

LEMMA VaultStartStep ==
  ASSUME VaultAssumption, IInv, NEW r \in Roots, VaultStart(r)
  PROVE  IInv'
<1>1. /\ UNCHANGED <<keyring, item, drawn, hasDatabase, sealed, taken>>
      /\ started' = started \cup {r} /\ provider[r].at = "stopped"
      /\ VaultTypeOK /\ RootOK(r)
  BY DEF VaultStart, IInv
<1>2. /\ provider' \in [Roots -> Providers]
      /\ \A q \in Roots : q # r => provider'[q] = provider[q]
      /\ provider'[r].at = "looking" /\ provider'[r].for = "start"
      /\ provider'[r].allowCreate = ~hasDatabase[r]
  BY <1>1, Typed, StoppedTyped DEF VaultStart, Stopped, Providers, Ats
<1>3. VaultTypeOK'
  BY <1>1, <1>2 DEF VaultTypeOK, Providers, Ats
<1>4. Alone(r)' => Alone(r)
  BY <1>1 DEF Alone
<1>5. Kept(r)' = Kept(r) /\ \A e : Opens(r, e)' = Opens(r, e)
  BY <1>1 DEF Kept, Place, Opens
<1>6. sealed[r] # {} => hasDatabase[r]
  BY <1>1, Typed
<1>7. RootOK(r)'
  <2>1. ServiceOK(r)'
    BY <1>1, <1>2 DEF ServiceOK, Running, Sealing
  <2>2. KeyThere(r)' /\ KeyKnown(r)'
    BY <1>1, <1>2, <1>4, <1>5 DEF RootOK, KeyThere, KeyKnown, Sealing
  <2>3. OneKey(r)'
    BY <1>1, <1>2, <1>4, <1>5, <1>6 DEF RootOK, OneKey, MayCreate, Sealing
  <2> QED BY <2>1, <2>2, <2>3 DEF RootOK
<1>8. ASSUME NEW q \in Roots, q # r
      PROVE  RootOK(q)'
  BY <1>1, <1>2, <1>8, Others
<1> QED BY <1>3, <1>7, <1>8 DEF IInv

-----------------------------------------------------------------------------
(* Drawing a key.                                                          *)

(* A key is drawn where there was none, or where this root alone draws.    *)
LEMMA DrawnOK ==
  ASSUME VaultAssumption, IInv, NEW r \in Roots, StoredLeft,
         provider[r].at = "missing", drawn < MaxGeneration, Drawn(r),
         NEW remembers \in BOOLEAN, Answered(r, drawn + 1, remembers),
         keyring # "secret-service" => Kept(r) = NoKey /\ remembers
  PROVE  IInv'
<1>1. RootOK(r) /\ VaultTypeOK /\ Running(r) /\ drawn + 1 \in Generations
      /\ drawn + 1 \in 0..MaxGeneration
  BY NextKey DEF IInv, Running
<1>2. /\ provider' \in [Roots -> Providers]
      /\ provider'[r].at = "loaded" /\ provider'[r].key = drawn + 1
      /\ provider'[r].for = provider[r].for
      /\ provider'[r].allowCreate = provider[r].allowCreate
      /\ provider'[r].initialized = (provider[r].initialized \/ remembers)
      /\ \A q \in Roots : q # r => provider'[q] = provider[q]
  BY <1>1, AnsweredGives
<1>3. item' = [item EXCEPT ![Place(r)] = drawn + 1] /\ drawn' = drawn + 1
  BY DEF Drawn
<1>4. Kept(r)' = drawn + 1 /\ Whole(Kept(r))'
  <2>1. Place(r) \in KeyPlaces /\ item \in Items
    BY <1>1, KeptTyped, Typed
  <2> QED BY <1>1, <1>3, <2>1, SameForOwn DEF Kept, Items, Whole
<1>5. /\ keyring # "secret-service" \/ Alone(r) => Kept(r) = NoKey
      /\ ~Whole(NoKey)
  BY <1>1, AbsentIsNotWhole DEF RootOK, KeyKnown
<1>6. ServiceOK(r)'
  BY <1>1, <1>2, SameForOwn DEF RootOK, ServiceOK, Running, Sealing
<1>7. KeyThere(r)'
  <2>1. (keyring # "secret-service" \/ Alone(r)) /\ taken = 0 => sealed[r] = {} /\ ~Sealing(r)
    BY <1>1, <1>5 DEF RootOK, KeyThere, Opens
  <2> QED BY <1>2, <1>4, <2>1, SameForOwn DEF KeyThere, Sealing
<1>8. KeyKnown(r)'
  BY <1>2, <1>4 DEF KeyKnown
<1>9. OneKey(r)'
  <2> SUFFICES ASSUME Alone(r), keyring # "secret-service" \/ taken < 2
               PROVE  OneKey(r)'
    BY SameForOwn DEF OneKey
  <2>1. sealed[r] = {}
    BY <1>1 DEF RootOK, OneKey
  <2>2. Running(r)' /\ MayCreate(r)' /\ Sealing(r)'
            => keyring = "secret-service" /\ taken = 1
    <3>1. MayCreate(r)' => keyring = "secret-service"
      BY <1>2 DEF MayCreate
    <3>2. Sealing(r)' => taken # 0
      BY <1>1, <1>2, <1>5 DEF RootOK, KeyThere, Sealing
    <3>3. taken \in Nat
      BY <1>1, Typed, VaultAssumption DEF VaultAssumption
    <3> QED BY <3>1, <3>2, <3>3
  <2> QED BY <1>4, <2>1, <2>2, SameForOwn DEF OneKey
<1>10. keyring = "keychain" => Kept(r) = NoKey
  OBVIOUS
<1> QED BY <1>1, <1>2, <1>3, <1>6, <1>7, <1>8, <1>9, <1>10, OwnProvider DEF RootOK

(* Somebody else drew one first.                                           *)
LEMMA LoadExistingStep ==
  ASSUME VaultAssumption, IInv, NEW r \in Roots, StoredLeft,
         provider[r].at = "missing", Kept(r) # NoKey, LoadExisting(r),
         UNCHANGED <<item, drawn>>
  PROVE  IInv'
<1>1. RootOK(r) /\ VaultTypeOK /\ Running(r) /\ ~Alone(r)
  BY DEF IInv, Running, RootOK, KeyKnown
<1>2. CASE Whole(Kept(r))
  <2>1. Answered(r, Kept(r), FALSE) /\ Kept(r) \in Generations
    BY <1>2, RecordsAreKeys DEF LoadExisting
  <2>2. RootOK(r)'
    BY <1>1, <1>2, <2>1, FoundOK
  <2> QED BY <1>1, <2>1, <2>2, AnsweredGives, OwnProvider
<1>3. CASE ~Whole(Kept(r))
  <2>1. Refused(r)
    BY <1>3 DEF LoadExisting
  <2>2. RootOK(r)'
    BY <1>1, <2>1, RefusedOK
  <2> QED BY <1>1, <2>1, <2>2, RefusedGives, OwnProvider
<1> QED BY <1>2, <1>3

LEMMA KeychainCreateStep ==
  ASSUME VaultAssumption, IInv, NEW r \in Roots, KeychainCreate(r)
  PROVE  IInv'
<1>1. StoredLeft /\ provider[r].at = "missing" /\ drawn < MaxGeneration
  BY DEF KeychainCreate, Drawing, StoredLeft
<1>2. CASE Kept(r) = NoKey /\ Drawn(r) /\ Answered(r, drawn + 1, TRUE)
  BY <1>1, <1>2, DrawnOK
<1>3. CASE Kept(r) # NoKey /\ LoadExisting(r) /\ UNCHANGED <<item, drawn>>
  BY <1>1, <1>3, LoadExistingStep
<1> QED BY <1>2, <1>3 DEF KeychainCreate

LEMMA SecretServiceCreateStep ==
  ASSUME VaultAssumption, IInv, NEW r \in Roots, SecretServiceCreate(r)
  PROVE  IInv'
<1>1. StoredLeft /\ provider[r].at = "missing" /\ drawn < MaxGeneration
      /\ keyring = "secret-service" /\ Drawn(r) /\ Answered(r, drawn + 1, FALSE)
  BY DEF SecretServiceCreate, Drawing, StoredLeft
<1> QED BY <1>1, DrawnOK

LEMMA DPAPICreateStep ==
  ASSUME VaultAssumption, IInv, NEW r \in Roots, DPAPICreate(r)
  PROVE  IInv'
<1>1. StoredLeft /\ provider[r].at = "missing" /\ drawn < MaxGeneration /\ keyring = "dpapi"
      /\ RootOK(r) /\ VaultTypeOK /\ Running(r)
  BY DEF DPAPICreate, Drawing, StoredLeft, IInv, Running
<1>2. CASE Kept(r) # NoKey /\ LoadExisting(r) /\ UNCHANGED <<item, drawn>>
  BY <1>1, <1>2, LoadExistingStep
<1>3. CASE /\ Kept(r) = NoKey
           /\ item' = [item EXCEPT ![Place(r)] = Torn] /\ drawn' = drawn + 1
           /\ provider' = [provider EXCEPT ![r].at = "writing", ![r].key = drawn + 1]
  <2>1. drawn + 1 \in Generations /\ drawn + 1 \in 0..MaxGeneration
    BY <1>1, NextKey
  <2>2. /\ provider' \in [Roots -> Providers]
        /\ \A q \in Roots : q # r => provider'[q] = provider[q]
        /\ provider'[r].at = "writing" /\ provider'[r].key = drawn + 1
        /\ provider'[r].for = provider[r].for
        /\ provider'[r].allowCreate = provider[r].allowCreate
        /\ provider'[r].initialized = provider[r].initialized
    BY <1>1, <1>3, <2>1, Typed DEF Providers, Ats
  <2>3. Kept(r)' = Torn /\ ~Whole(NoKey) /\ ~Whole(Torn)
    BY <1>1, <1>3, KeptTyped, Typed, SameForOwn, AbsentIsNotWhole DEF Kept, Items
  <2>4. ServiceOK(r)'
    BY <1>1, <2>1, <2>2, <2>3, SameForOwn DEF RootOK, ServiceOK, Running, Sealing
  <2>5. KeyThere(r)' /\ KeyKnown(r)'
    <3>1. taken = 0 => sealed[r] = {} /\ ~Sealing(r)
      BY <1>1, <1>3, <2>3 DEF RootOK, KeyThere, Opens
    <3> QED BY <1>1, <2>2, <3>1, SameForOwn DEF KeyThere, KeyKnown, Sealing
  <2>6. OneKey(r)'
    BY <1>1, <2>2, SameForOwn DEF RootOK, OneKey, Alone
  <2> QED BY <1>1, <1>3, <2>1, <2>2, <2>4, <2>5, <2>6, OwnProvider DEF RootOK
<1> QED BY <1>2, <1>3 DEF DPAPICreate

LEMMA DPAPIWrittenStep ==
  ASSUME VaultAssumption, IInv, NEW r \in Roots, DPAPIWritten(r)
  PROVE  IInv'
<1>1. StoredLeft /\ provider[r].at = "writing" /\ keyring = "dpapi" /\ Kept(r) = Torn
      /\ RootOK(r) /\ VaultTypeOK /\ Running(r) /\ provider[r].key \in Generations
      /\ ~Whole(Torn) /\ drawn' = drawn /\ Alone(r)
  BY AbsentIsNotWhole DEF DPAPIWritten, StoredLeft, IInv, Running, RootOK, ServiceOK, Alone
<1>2. Answered(r, provider[r].key, TRUE) /\ item' = [item EXCEPT ![Place(r)] = provider[r].key]
  BY DEF DPAPIWritten
<1>3. /\ provider' \in [Roots -> Providers]
      /\ provider'[r].at = "loaded" /\ provider'[r].key = provider[r].key
      /\ provider'[r].for = provider[r].for
      /\ provider'[r].allowCreate = provider[r].allowCreate
      /\ provider'[r].initialized = TRUE
      /\ \A q \in Roots : q # r => provider'[q] = provider[q]
  BY <1>1, <1>2, AnsweredGives
<1>4. Kept(r)' = provider[r].key
  BY <1>1, <1>2, KeptTyped, Typed, SameForOwn DEF Kept, Items
<1>5. ServiceOK(r)' /\ KeyKnown(r)'
  BY <1>1, <1>3, <1>4, SameForOwn DEF RootOK, ServiceOK, KeyKnown, Running, Sealing
<1>6. KeyThere(r)'
  <2>1. taken = 0 => sealed[r] = {} /\ ~Sealing(r)
    BY <1>1 DEF RootOK, KeyThere, Opens
  <2> QED BY <1>1, <1>3, <1>4, <2>1, SameForOwn DEF KeyThere, Sealing
<1>7. OneKey(r)'
  <2>1. sealed[r] = {}
    BY <1>1 DEF RootOK, OneKey
  <2>2. ~MayCreate(r)'
    BY <1>3 DEF MayCreate
  <2> QED BY <1>1, <2>1, <2>2, SameForOwn DEF OneKey
<1>8. drawn \in 0..MaxGeneration
  BY <1>1, Typed
<1> QED BY <1>1, <1>2, <1>3, <1>5, <1>6, <1>7, <1>8, OwnProvider DEF RootOK

LEMMA DPAPIWriteFailsStep ==
  ASSUME VaultAssumption, IInv, NEW r \in Roots, DPAPIWriteFails(r)
  PROVE  IInv'
<1>1. StoredLeft /\ provider[r].at = "writing" /\ keyring = "dpapi" /\ Kept(r) = Torn
      /\ RootOK(r) /\ VaultTypeOK /\ Running(r) /\ ~Whole(Torn) /\ drawn' = drawn /\ Alone(r)
      /\ Refused(r) /\ item' = [item EXCEPT ![Place(r)] = NoKey]
  BY AbsentIsNotWhole DEF DPAPIWriteFails, StoredLeft, IInv, Running, RootOK, ServiceOK, Alone
<1>2. provider' \in [Roots -> Providers] /\ \A q \in Roots : q # r => provider'[q] = provider[q]
  BY <1>1, RefusedGives
<1>3. sealed[r] = {}
  BY <1>1 DEF RootOK, OneKey
<1>4. RootOK(r)'
  <2>1. CASE ~Sealing(r)
    <3>1. provider'[r] = Stopped
      BY <1>1, <2>1, RefusedGives
    <3> QED BY <1>3, <3>1, StoppedTyped, SameForOwn, <1>1
            DEF RootOK, ServiceOK, KeyThere, KeyKnown, OneKey, Running, Sealing
  <2>2. CASE Sealing(r)
    <3>1. provider'[r].at = "serving"
      BY <1>1, <2>2, RefusedGives
    <3>2. taken # 0
      BY <1>1, <2>2 DEF RootOK, KeyThere
    <3> QED BY <1>1, <1>3, <2>2, <3>1, <3>2, SameForOwn
            DEF RootOK, ServiceOK, KeyThere, KeyKnown, OneKey, Running, Sealing
  <2> QED BY <2>1, <2>2
<1>5. drawn \in 0..MaxGeneration
  BY <1>1, Typed
<1> QED BY <1>1, <1>2, <1>4, <1>5, OwnProvider

-----------------------------------------------------------------------------
(* What the key is for.                                                    *)

LEMMA OpenWithVaultStep ==
  ASSUME VaultAssumption, IInv, NEW r \in Roots, OpenWithVault(r)
  PROVE  IInv'
<1>1. /\ UNCHANGED <<keyring, item, drawn, sealed, started, taken>>
      /\ provider[r].at = "loaded" /\ provider[r].for = "start"
      /\ hasDatabase' = [hasDatabase EXCEPT ![r] = TRUE]
      /\ VaultTypeOK /\ RootOK(r) /\ Running(r)
  BY DEF OpenWithVault, IInv, Running
<1>2. /\ provider' \in [Roots -> Providers]
      /\ \A q \in Roots : q # r => provider'[q] = provider[q]
      /\ provider'[r].at = "serving" /\ provider'[r].for = "start"
      /\ provider'[r].allowCreate = provider[r].allowCreate
      /\ provider'[r].initialized = provider[r].initialized
  <2> DEFINE moved == [provider[r] EXCEPT !.at = "serving", !.key = NoKey]
  <2>1. provider[r] \in Providers
    BY <1>1, Typed
  <2>2. /\ moved \in Providers /\ moved.at = "serving" /\ moved.for = "start"
        /\ moved.allowCreate = provider[r].allowCreate
        /\ moved.initialized = provider[r].initialized
    BY <1>1, <2>1 DEF Providers, Ats
  <2>3. provider' = [provider EXCEPT ![r] = moved]
    BY <1>1, <2>1, Typed DEF OpenWithVault, Providers
  <2> HIDE DEF moved
  <2> QED BY <1>1, <2>2, <2>3, Typed, ProviderMoved
<1>3. hasDatabase' \in [Roots -> BOOLEAN] /\ hasDatabase'[r]
      /\ \A q \in Roots : q # r => hasDatabase'[q] = hasDatabase[q]
  BY <1>1, Typed
<1>4. VaultTypeOK'
  BY <1>1, <1>2, <1>3 DEF VaultTypeOK, Providers, Ats
<1>5. Alone(r)' = Alone(r) /\ Kept(r)' = Kept(r) /\ \A e : Opens(r, e)' = Opens(r, e)
  BY <1>1 DEF Alone, Kept, Place, Opens
<1>6. RootOK(r)'
  <2>1. ServiceOK(r)'
    BY <1>1, <1>2, <1>3 DEF RootOK, ServiceOK, Running, Sealing
  <2>2. KeyThere(r)' /\ KeyKnown(r)'
    <3>1. provider[r].key \in Generations
      BY <1>1 DEF RootOK, ServiceOK
    <3> QED BY <1>1, <1>2, <1>5, <3>1 DEF RootOK, KeyThere, KeyKnown, Sealing, Whole
  <2>3. OneKey(r)'
    BY <1>1, <1>2, <1>5 DEF RootOK, OneKey, MayCreate, Running, Sealing
  <2> QED BY <2>1, <2>2, <2>3 DEF RootOK
<1> QED BY <1>1, <1>2, <1>3, <1>4, <1>6, OwnRoot

LEMMA SealStep ==
  ASSUME VaultAssumption, IInv, NEW r \in Roots, Seal(r)
  PROVE  IInv'
<1> DEFINE new == Envelope(provider[r].key)
<1>1. /\ UNCHANGED <<keyring, item, drawn, hasDatabase, started, taken>>
      /\ provider[r].at = "loaded" /\ provider[r].for = "seal"
      /\ sealed' = [sealed EXCEPT ![r] = @ \cup {new}]
      /\ VaultTypeOK /\ RootOK(r) /\ Running(r)
  BY DEF Seal, IInv, Running
<1>2. /\ provider' \in [Roots -> Providers]
      /\ \A q \in Roots : q # r => provider'[q] = provider[q]
      /\ provider'[r].at = "serving" /\ provider'[r].for = "seal"
      /\ provider'[r].allowCreate = provider[r].allowCreate
      /\ provider'[r].initialized = provider[r].initialized
  <2>1. provider' = [provider EXCEPT ![r].at = "serving", ![r].key = NoKey]
    BY DEF Seal
  <2> QED BY <1>1, <2>1, Typed DEF Providers, Ats
<1>3. provider[r].key \in Generations /\ hasDatabase[r]
  BY <1>1 DEF RootOK, ServiceOK, Sealing
<1>4. new \in {Envelope(g) : g \in Generations} /\ new.generation = provider[r].key
  BY <1>3 DEF Envelope
<1>5. /\ sealed' \in [Roots -> SUBSET {Envelope(g) : g \in Generations}]
      /\ sealed'[r] = sealed[r] \cup {new}
      /\ \A q \in Roots : q # r => sealed'[q] = sealed[q]
  <2>1. sealed \in [Roots -> SUBSET {Envelope(g) : g \in Generations}]
    BY <1>1, Typed
  <2> QED BY <1>1, <1>4, <2>1
<1>6. VaultTypeOK'
  <2>1. \A q \in Roots : sealed'[q] # {} => hasDatabase[q]
    BY <1>1, <1>3, <1>5, Typed
  <2> QED BY <1>1, <1>2, <1>5, <2>1 DEF VaultTypeOK, Providers, Ats
<1>7. Alone(r)' = Alone(r) /\ Kept(r)' = Kept(r) /\ \A e : Opens(r, e)' = Opens(r, e)
  BY <1>1 DEF Alone, Kept, Place, Opens
<1>8. RootOK(r)'
  <2>1. ServiceOK(r)'
    BY <1>1, <1>2, <1>3 DEF RootOK, ServiceOK, Running, Sealing
  <2>2. KeyThere(r)'
    <3>1. taken = 0 /\ (keyring # "secret-service" \/ Alone(r)) =>
             Kept(r) = provider[r].key /\ Whole(Kept(r)) /\ Opens(r, new)
      BY <1>1, <1>4 DEF RootOK, KeyThere, Sealing, Opens
    <3> QED BY <1>1, <1>2, <1>5, <1>7, <3>1 DEF RootOK, KeyThere, Sealing
  <2>3. KeyKnown(r)'
    BY <1>1, <1>2, <1>7 DEF RootOK, KeyKnown
  <2>4. OneKey(r)'
    <3> SUFFICES ASSUME Alone(r), keyring # "secret-service" \/ taken < 2
                 PROVE  OneKey(r)'
      BY <1>1, <1>7 DEF OneKey
    <3>1. \A e \in sealed[r] : e = new
      <4>1. \A e \in sealed[r] : e.generation = provider[r].key
        BY <1>1 DEF RootOK, OneKey
      <4>2. \A e \in sealed[r] : e \in {Envelope(g) : g \in Generations}
        BY <1>1, Typed
      <4> QED BY <4>1, <4>2 DEF Envelope
    <3>2. \A e \in sealed'[r] : e = new
      BY <1>5, <3>1
    <3>3. Whole(Kept(r)) => new.generation = Kept(r)
      BY <1>1, <1>4 DEF RootOK, KeyKnown
    <3>4. MayCreate(r) => keyring = "secret-service" /\ taken = 1 /\ Whole(Kept(r))
      BY <1>1 DEF RootOK, OneKey, Sealing
    <3> QED BY <1>1, <1>2, <1>7, <3>2, <3>3, <3>4 DEF OneKey, MayCreate
  <2> QED BY <2>1, <2>2, <2>3, <2>4 DEF RootOK
<1> QED BY <1>1, <1>2, <1>5, <1>6, <1>8, OwnRoot

-----------------------------------------------------------------------------
(* What happens to a service and its key.                                  *)

LEMMA TakeKeyStep ==
  ASSUME VaultAssumption, IInv, NEW l \in KeyPlaces, TakeKey(l)
  PROVE  IInv'
<1>1. /\ UNCHANGED <<keyring, drawn, hasDatabase, sealed, provider, started>>
      /\ taken < MaxTaken /\ taken' = taken + 1 /\ item' = [item EXCEPT ![l] = NoKey]
      /\ \A r \in Roots : Place(r) = l => provider[r].at # "writing"
      /\ VaultTypeOK /\ taken \in Nat /\ taken' # 0 /\ (taken' < 2 => taken = 0)
  BY Typed DEF TakeKey, IInv, VaultAssumption
<1>2. VaultTypeOK'
  <2>1. item' \in Items
    BY <1>1, Typed DEF Items
  <2>2. taken' \in 0..MaxTaken
    BY <1>1 DEF VaultAssumption
  <2> QED BY <1>1, <2>1, <2>2 DEF VaultTypeOK, Items
<1>3. ASSUME NEW r \in Roots
      PROVE  RootOK(r)'
  <2>1. RootOK(r) /\ Alone(r)' = Alone(r) /\ Place(r)' = Place(r) /\ Place(r) \in KeyPlaces
        /\ Running(r)' = Running(r) /\ Sealing(r)' = Sealing(r) /\ MayCreate(r)' = MayCreate(r)
    BY <1>1, KeptTyped DEF IInv, Alone, Place, Running, Sealing, MayCreate
  <2>2. Kept(r)' = NoKey \/ (Kept(r)' = Kept(r) /\ Place(r) # l)
    BY <1>1, <2>1, Typed DEF Kept, Items
  <2>3. ~Whole(NoKey)
    BY AbsentIsNotWhole
  <2>4. ServiceOK(r)'
    <3>1. provider[r].at = "writing" => Kept(r)' = Kept(r)
      BY <1>1, <2>1, Typed DEF Kept, Items
    <3> QED BY <1>1, <2>1, <3>1 DEF RootOK, ServiceOK
  <2>5. KeyThere(r)'
    BY <1>1 DEF KeyThere
  <2>6. KeyKnown(r)'
    BY <1>1, <2>1, <2>2, <2>3 DEF RootOK, KeyKnown
  <2>7. OneKey(r)'
    <3>1. taken' < 2 => taken = 0 /\ taken < 2
      BY <1>1
    <3>2. (keyring # "secret-service" \/ taken' < 2)
             => (keyring # "secret-service" \/ taken < 2)
                /\ ~(keyring = "secret-service" /\ taken = 1)
      BY <3>1
    <3> QED BY <1>1, <2>1, <2>2, <2>3, <3>2 DEF RootOK, OneKey
  <2> QED BY <2>4, <2>5, <2>6, <2>7 DEF RootOK
<1> QED BY <1>2, <1>3 DEF IInv

LEMMA DeleteDatabaseStep ==
  ASSUME VaultAssumption, IInv, NEW r \in Roots, DeleteDatabase(r)
  PROVE  IInv'
<1>1. /\ UNCHANGED <<keyring, item, drawn, provider, started, taken>>
      /\ provider[r].at = "stopped"
      /\ hasDatabase' = [hasDatabase EXCEPT ![r] = FALSE] /\ sealed' = [sealed EXCEPT ![r] = {}]
      /\ VaultTypeOK /\ RootOK(r)
  BY DEF DeleteDatabase, IInv
<1>2. /\ sealed'[r] = {} /\ ~hasDatabase'[r]
      /\ \A q \in Roots : q # r => sealed'[q] = sealed[q] /\ hasDatabase'[q] = hasDatabase[q]
      /\ sealed' \in [Roots -> SUBSET {Envelope(g) : g \in Generations}]
      /\ hasDatabase' \in [Roots -> BOOLEAN]
  BY <1>1, Typed
<1>3. VaultTypeOK'
  <2>1. \A q \in Roots : sealed'[q] # {} => hasDatabase'[q]
    BY <1>1, <1>2, Typed
  <2> QED BY <1>1, <1>2, <2>1 DEF VaultTypeOK
<1>4. RootOK(r)'
  BY <1>1, <1>2 DEF RootOK, ServiceOK, KeyThere, KeyKnown, OneKey, Running, Sealing
<1>5. ASSUME NEW q \in Roots, q # r
      PROVE  RootOK(q)'
  BY <1>1, <1>2, <1>5, Others
<1> QED BY <1>3, <1>4, <1>5 DEF IInv

-----------------------------------------------------------------------------
(* The invariant.                                                          *)

LEMMA InitOK ==
  ASSUME VaultAssumption, VaultInit
  PROVE  IInv
<1>1. VaultTypeOK
  BY Typed, StoppedTyped
     DEF VaultInit, VaultAssumption, Items, KeyPlaces
<1>2. ASSUME NEW r \in Roots
      PROVE  RootOK(r)
  <2>1. provider[r] = Stopped /\ sealed[r] = {}
    BY DEF VaultInit
  <2> QED BY <2>1, StoppedTyped
          DEF RootOK, ServiceOK, KeyThere, KeyKnown, OneKey, Running, Sealing
<1> QED BY <1>1, <1>2 DEF IInv

LEMMA StepOK ==
  ASSUME VaultAssumption, IInv, [VaultNext]_vaultVars
  PROVE  IInv'
<1>1. ASSUME NEW r \in Roots,
             \/ VaultStart(r) \/ Encrypt(r) \/ Lookup(r) \/ Unavailable(r)
             \/ KeychainCreate(r) \/ SecretServiceCreate(r)
             \/ DPAPICreate(r) \/ DPAPIWritten(r) \/ DPAPIWriteFails(r)
             \/ OpenWithVault(r) \/ Seal(r) \/ VaultStops(r) \/ DeleteDatabase(r)
      PROVE  IInv'
  BY <1>1, VaultStartStep, EncryptStep, LookupStep, UnavailableStep, KeychainCreateStep,
     SecretServiceCreateStep, DPAPICreateStep, DPAPIWrittenStep, DPAPIWriteFailsStep,
     OpenWithVaultStep, SealStep, VaultStopsStep, DeleteDatabaseStep
<1>2. ASSUME NEW l \in KeyPlaces, TakeKey(l)
      PROVE  IInv'
  BY <1>2, TakeKeyStep
<1>3. CASE UNCHANGED vaultVars
  BY <1>3 DEF vaultVars, IInv, VaultTypeOK, RootOK, ServiceOK, KeyThere, KeyKnown, OneKey,
              Running, Sealing, MayCreate, Alone, Kept, Place, Opens
<1> QED BY <1>1, <1>2, <1>3 DEF VaultNext

LEMMA InvariantGives ==
  ASSUME IInv
  PROVE  KeysKept
<1>1. SealedOpens
  BY DEF IInv, RootOK, KeyThere, SealedOpens
<1>2. FailsClosed
  <2> SUFFICES ASSUME keyring # "secret-service" \/ taken < 2, NEW r \in Roots, Alone(r)
               PROVE  Cardinality(sealed[r]) <= 1
    BY DEF FailsClosed
  <2>1. \A e \in sealed[r], f \in sealed[r] : e = f
    BY DEF IInv, RootOK, OneKey
  <2>2. CASE sealed[r] = {}
    BY <2>2, FS_EmptySet
  <2>3. CASE sealed[r] # {}
    <3>1. PICK e \in sealed[r] : TRUE
      BY <2>3
    <3>2. sealed[r] = {e}
      BY <2>1, <3>1
    <3> QED BY <3>2, FS_Singleton
  <2> QED BY <2>2, <2>3
<1> QED BY <1>1, <1>2 DEF KeysKept, IInv

(* Everything a state root has sealed can be opened as long as nobody      *)
(* deletes its key, and a lost key is never replaced behind the back of    *)
(* what it sealed, on every platform, for any number of roots, restarts    *)
(* and deletions: keychain.go:154, secretservice.go:145,                   *)
(* dpapi_windows.go:44.                                                    *)
THEOREM KeysAreKept == VaultSpec => []KeysKept
<1>1. VaultInit => IInv
  BY InitOK, VaultAssumption
<1>2. IInv /\ [VaultNext]_vaultVars => IInv'
  BY StepOK, VaultAssumption
<1>3. IInv => KeysKept
  BY InvariantGives
<1> QED BY <1>1, <1>2, <1>3, PTL DEF VaultSpec
=============================================================================

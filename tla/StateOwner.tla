----------------------------- MODULE StateOwner -----------------------------
(***************************************************************************)
(* The processes of one user that compete for the app-local state: every   *)
(* run of the CLI first probes the user's owner lock (Discover), then       *)
(* either calls the service it found or takes the lock itself (Acquire),    *)
(* opens the vault and the database, serves, and gives everything back.     *)
(* The lock is an advisory file lock that the operating system releases     *)
(* when its holder dies; the two descriptor files beside it are not.        *)
(*                                                                         *)
(* A passphrase service starts locked.  Its store is opened by a request   *)
(* handler, Unlock, that runs in the service for a `vault unlock` client   *)
(* and is serialized with the shutdown of the service by one mutex.         *)
(*                                                                         *)
(* The state root is the same for every process.                            *)
(***************************************************************************)
EXTENDS FiniteSets

CONSTANTS
    Proc,       \* runs of the CLI; each plays one role, once
    Secrets,    \* what a vault record can be sealed with
    Starting,   \* assignments of a role to each run
    None        \* no process, no file

ASSUME NoneAssumption == None \notin Proc /\ None \notin Secrets /\ None # "torn"
ASSUME SecretAssumption == "torn" \notin Secrets

VARIABLES
    mode,       \* "keychain" or "passphrase": the vault mode of this state
    lock,       \* holder of the owner lock
    meta,       \* process named by the owner metadata file
    client,     \* process named by the client descriptor
    vault,      \* the vault record: none, torn, or sealed with a secret
    database,   \* whether the database file exists and is not empty
    role,       \* role of each run
    pc,         \* where each run stands
    why,        \* which probe of the lock a run is making
    peer,       \* the process whose store a run opens or whose server it calls
    job,        \* how far a run has come in opening the peer's store
    server,     \* the HTTP server of a run: not listening, up or closed
    health,     \* the service state its lifecycle reports
    operational,\* whether its handlers have the workflows installed
    store       \* whether it has the database open

files == <<lock, meta, client, vault, database>>
process == <<role, pc, why, peer, job>>
service == <<server, health, operational, store>>
vars == <<mode, files, process, service>>

Roles == {"service", "enrolled", "command", "unlock", "status", "recovery"}
ASSUME RoleAssumption == Starting \subseteq [Proc -> Roles]

Starters == {"service", "enrolled"}
Probes == {"first", "retry", "client", "wait"}
OpenStages == {"vault", "create", "write", "database", "compose"}
Jobs == {"none", "queued"} \cup OpenStages

(* Between Acquire and Close, by place in the code.                         *)
Acquiring == {"cleanmeta", "cleanclient", "writemeta"}
Working == {"opening", "publish", "serving", "recover"}
Closing == {"closestore", "closeclient", "closemeta", "release"}
Holding == {"probe"} \cup Acquiring \cup Working \cup Closing
Places == Holding \cup {"idle", "discover", "read", "client", "acquire", "call",
                        "calling", "exiting", "done"}

TypeOK ==
    /\ mode \in {"keychain", "passphrase"}
    /\ lock \in Proc \cup {None}
    /\ meta \in Proc \cup {None}
    /\ client \in Proc \cup {None}
    /\ vault \in Secrets \cup {None, "torn"}
    /\ database \in BOOLEAN
    /\ role \in [Proc -> Roles]
    /\ pc \in [Proc -> Places]
    /\ why \in [Proc -> Probes]
    /\ peer \in [Proc -> Proc \cup {None}]
    /\ job \in [Proc -> Jobs]
    /\ server \in [Proc -> {"none", "up", "closed"}]
    /\ health \in [Proc -> {"locked", "ready", "recovery"}]
    /\ operational \in [Proc -> BOOLEAN]
    /\ store \in [Proc -> BOOLEAN]
    /\ \A p \in Proc :
          pc[p] \in {"call", "calling"} \/ job[p] # "none" => peer[p] \in Proc

Init ==
    /\ mode \in {"keychain", "passphrase"}
    /\ lock = None /\ meta = None /\ client = None
    /\ vault = None /\ database = FALSE
    /\ role \in Starting
    /\ pc = [p \in Proc |-> "idle"]
    /\ why = [p \in Proc |-> "first"]
    /\ peer = [p \in Proc |-> None]
    /\ job = [p \in Proc |-> "none"]
    /\ server = [p \in Proc |-> "none"]
    /\ health = [p \in Proc |-> "locked"]
    /\ operational = [p \in Proc |-> FALSE]
    /\ store = [p \in Proc |-> FALSE]

-----------------------------------------------------------------------------

(* A passphrase service serves locked and has a lifecycle that unlocks it.   *)
HasLifecycle(p) == role[p] \in Starters /\ mode = "passphrase"

(* Every other owner of a store opens it itself before it serves.            *)
OpensItself(p) == role[p] # "recovery" /\ ~HasLifecycle(p)

(* The mutex of a lifecycle is held while a handler opens its store.         *)
Unlocking(q) == \E p \in Proc \ {q} : peer[p] = q /\ job[p] \in OpenStages

Goto(p, place) == pc' = [pc EXCEPT ![p] = place]

Probe(p, reason) ==
    /\ Goto(p, "discover")
    /\ why' = [why EXCEPT ![p] = reason]

(* A run of the CLI begins.                                                  *)
Start(p) ==
    /\ pc[p] = "idle"
    /\ Probe(p, "first")
    /\ UNCHANGED <<mode, files, role, peer, job, service>>

-----------------------------------------------------------------------------
(* Discover: take the lock for a moment, or read who holds it.               *)

(* The lock is free: the probe holds it while it removes the metadata.       *)
ProbeFree(p) ==
    /\ pc[p] = "discover"
    /\ lock = None
    /\ lock' = p
    /\ Goto(p, "probe")
    /\ UNCHANGED <<mode, meta, client, vault, database, role, why, peer, job, service>>

(* What a caller of Discover does when no service is running.                *)
Absent(p) ==
    \/ why[p] = "wait" /\ Probe(p, "first")
    \/ /\ why[p] = "first" /\ role[p] \notin {"status", "unlock"}
       /\ Goto(p, "acquire") /\ UNCHANGED why
    \/ /\ why[p] = "client" /\ role[p] \in Starters
       /\ Probe(p, "client")
    \/ /\ why[p] # "wait" /\ (why[p] = "first" => role[p] \in {"status", "unlock"})
       /\ Goto(p, "done") /\ UNCHANGED why

ProbeDone(p) ==
    /\ pc[p] = "probe"
    /\ meta' = None
    /\ lock' = None
    /\ Absent(p)
    /\ UNCHANGED <<mode, client, vault, database, role, peer, job, service>>

(* The lock is held: what the metadata says is read afterwards.              *)
ProbeHeld(p) ==
    /\ pc[p] = "discover"
    /\ lock # None
    /\ Goto(p, "read")
    /\ UNCHANGED <<mode, files, role, why, peer, job, service>>

(* A held lock without metadata is an error; a waiting run tries again, and  *)
(* so does a run that wants to reuse the service, for two seconds.           *)
ReadNothing(p) ==
    /\ pc[p] = "read"
    /\ meta = None
    /\ \/ /\ why[p] = "wait" \/ (why[p] = "client" /\ role[p] \in Starters)
          /\ Probe(p, why[p])
       \/ why[p] # "wait" /\ Goto(p, "done") /\ UNCHANGED why
    /\ UNCHANGED <<mode, files, role, peer, job, service>>

(* A service is running: an enrolled one waits for its end, recovery is      *)
(* refused, every other run goes on to the client descriptor.                *)
ReadOwner(p) ==
    /\ pc[p] = "read"
    /\ meta # None
    /\ \/ /\ why[p] \in {"first", "retry"}
          /\ \/ role[p] = "enrolled" /\ Probe(p, "wait")
             \/ role[p] = "recovery" /\ Goto(p, "done") /\ UNCHANGED why
             \/ role[p] \notin {"enrolled", "recovery"} /\ Probe(p, "client")
       \/ why[p] = "client" /\ Goto(p, "client") /\ UNCHANGED why
       \/ why[p] = "wait" /\ \/ Probe(p, "wait")
                             \/ Goto(p, "done") /\ UNCHANGED why    \* signalled
    /\ UNCHANGED <<mode, files, role, peer, job, service>>

ReadClient(p) ==
    /\ pc[p] = "client"
    /\ \/ /\ client # None
          /\ peer' = [peer EXCEPT ![p] = client]
          /\ Goto(p, "call") /\ UNCHANGED why
       \/ /\ client = None /\ role[p] \in Starters
          /\ Probe(p, "client") /\ UNCHANGED peer
       \/ /\ client = None
          /\ Goto(p, "done") /\ UNCHANGED <<why, peer>>
    /\ UNCHANGED <<mode, files, role, job, service>>

-----------------------------------------------------------------------------
(* Acquire: lock, remove what a dead owner left, write the own metadata.     *)

Contended(p) ==
    /\ pc[p] = "acquire"
    /\ lock # None
    /\ \/ role[p] \in Starters /\ Probe(p, "retry")
       \/ role[p] \notin Starters /\ Goto(p, "done") /\ UNCHANGED why
    /\ UNCHANGED <<mode, files, role, peer, job, service>>

Acquire(p) ==
    /\ pc[p] = "acquire"
    /\ lock = None
    /\ lock' = p
    /\ Goto(p, "cleanmeta")
    /\ UNCHANGED <<mode, meta, client, vault, database, role, why, peer, job, service>>

RemoveMeta(p) ==
    /\ pc[p] = "cleanmeta"
    /\ meta' = None
    /\ Goto(p, "cleanclient")
    /\ UNCHANGED <<mode, lock, client, vault, database, role, why, peer, job, service>>

(* MUTANT: the client descriptor of a dead owner is left. *)
RemoveNoClient(p) ==
    /\ pc[p] = "cleanclient"
    /\ Goto(p, "writemeta")
    /\ UNCHANGED <<mode, files, role, why, peer, job, service>>

RemoveClient(p) ==
    /\ pc[p] = "cleanclient"
    /\ client' = None
    /\ Goto(p, "writemeta")
    /\ UNCHANGED <<mode, lock, meta, vault, database, role, why, peer, job, service>>

(* The owner descriptor is published; a locked service does not open its     *)
(* store, every other owner does so before it serves.                        *)
WriteMeta(p) ==
    /\ pc[p] = "writemeta"
    /\ meta' = p
    /\ \/ /\ role[p] = "recovery"
          /\ Goto(p, "recover") /\ UNCHANGED <<peer, job>>
       \/ /\ HasLifecycle(p)
          /\ Goto(p, "publish") /\ UNCHANGED <<peer, job>>
       \/ /\ OpensItself(p)
          /\ Goto(p, "opening")
          /\ peer' = [peer EXCEPT ![p] = p]
          /\ job' = [job EXCEPT ![p] = "vault"]
    /\ UNCHANGED <<mode, lock, client, vault, database, role, why, service>>

(* Each of these steps may fail; the lock is then released at once.          *)
AcquireFails(p) ==
    /\ pc[p] \in Acquiring
    /\ lock' = None
    /\ Goto(p, "done")
    /\ UNCHANGED <<mode, meta, client, vault, database, role, why, peer, job, service>>

(* A recovery command works on the database files and closes the owner.      *)
Recover(p) ==
    /\ pc[p] = "recover"
    /\ \/ ~store[p] /\ store' = [store EXCEPT ![p] = TRUE] /\ UNCHANGED pc
       \/ store[p] /\ store' = [store EXCEPT ![p] = FALSE] /\ Goto(p, "closeclient")
    /\ UNCHANGED <<mode, files, role, why, peer, job, server, health, operational>>

-----------------------------------------------------------------------------
(* Opening a store: of the own run, or of the peer that p asked to unlock.   *)

Self(p) == peer[p] = p

Stage(p, stage) == job' = [job EXCEPT ![p] = stage]

(* A passphrase record is created only while there is no database.           *)
AllowCreate == ~database

(* An existing record must yield to the passphrase.                          *)
LookupVault(p) ==
    /\ job[p] = "vault"
    /\ \/ mode = "keychain" /\ Stage(p, "database")
       \/ mode = "passphrase" /\ vault \in Secrets /\ Stage(p, "database")
       \/ mode = "passphrase" /\ vault = None /\ AllowCreate /\ Stage(p, "create")
    /\ UNCHANGED <<mode, files, role, pc, why, peer, service>>

(* The record is created exclusively: if another one appeared since, that    *)
(* one is opened.                                                            *)
CreateVault(p) ==
    /\ job[p] = "create"
    /\ \/ vault = None /\ vault' = "torn" /\ Stage(p, "write")
       \/ vault \in Secrets /\ Stage(p, "database") /\ UNCHANGED vault
    /\ UNCHANGED <<mode, lock, meta, client, database, role, pc, why, peer, service>>

WriteVault(p) ==
    /\ job[p] = "write"
    /\ vault' \in Secrets
    /\ Stage(p, "database")
    /\ UNCHANGED <<mode, lock, meta, client, database, role, pc, why, peer, service>>

OpenDatabase(p) ==
    /\ job[p] = "database"
    /\ database' = TRUE
    /\ store' = [store EXCEPT ![peer[p]] = TRUE]
    /\ Stage(p, "compose")
    /\ UNCHANGED <<mode, lock, meta, client, vault, role, pc, why, peer, server, health, operational>>

(* The client of a finished request has its answer.                          *)
Answer(p) == pc' = [pc EXCEPT ![p] = IF pc[p] = "calling" THEN "done" ELSE pc[p]]

(* The workflows are installed in the server of q, once.                     *)
Activate(q) == operational' = [operational EXCEPT ![q] = TRUE]

(* Compose the workflows and install them: a run for itself, a handler       *)
(* through Activate, after which the lifecycle reports ready.                *)
Compose(p) ==
    /\ job[p] = "compose"
    /\ Activate(peer[p])
    /\ Stage(p, "none")
    /\ \/ Self(p) /\ Goto(p, "publish") /\ UNCHANGED health
       \/ ~Self(p) /\ Answer(p) /\ health' = [health EXCEPT ![peer[p]] = "ready"]
    /\ UNCHANGED <<mode, files, role, why, peer, server, store>>

(* What the lifecycle reports after a failure: recovery for what is wrong    *)
(* with the database, locked for all else.                                   *)
RecordFailure(q, stage) ==
    \E state \in {"locked", "recovery"} :
        /\ state = "recovery" => stage = "database"
        /\ health' = [health EXCEPT ![q] = state]

(* MUTANT: the cleanup runs at every failure, whoever wrote the record. *)
OpenFailsRemoving(p) ==
    /\ job[p] \in OpenStages
    /\ vault' = None
    /\ store' = [store EXCEPT ![peer[p]] = FALSE]
    /\ Stage(p, "none")
    /\ \/ Self(p) /\ Goto(p, "closeclient") /\ UNCHANGED health
       \/ ~Self(p) /\ Answer(p) /\ RecordFailure(peer[p], job[p])
    /\ UNCHANGED <<mode, lock, meta, client, database, role, why, peer, server, operational>>

(* Any step of the opening may fail: a record half written is removed, an    *)
(* open store is closed, and the failure is what the lifecycle reports.      *)
OpenFails(p) ==
    /\ job[p] \in OpenStages
    /\ vault' = IF job[p] = "write" THEN None ELSE vault
    /\ store' = [store EXCEPT ![peer[p]] = FALSE]
    /\ Stage(p, "none")
    /\ \/ Self(p) /\ Goto(p, "closeclient") /\ UNCHANGED health
       \/ ~Self(p) /\ Answer(p) /\ RecordFailure(peer[p], job[p])
    /\ UNCHANGED <<mode, lock, meta, client, database, role, why, peer, server, operational>>

-----------------------------------------------------------------------------
(* A client and the service it calls.                                        *)

(* The unlock of a running service with a lifecycle becomes a request in     *)
(* that service.                                                             *)
Unlocks(p) == role[p] = "unlock" /\ server[peer[p]] = "up" /\ HasLifecycle(peer[p])

CallUnlock(p) ==
    /\ pc[p] = "call"
    /\ Unlocks(p)
    /\ Goto(p, "calling")
    /\ Stage(p, "queued")
    /\ UNCHANGED <<mode, files, role, why, peer, service>>

(* Every other call is answered or refused at once and changes nothing here. *)
CallOther(p) ==
    /\ pc[p] = "call"
    /\ ~Unlocks(p)
    /\ Goto(p, "done")
    /\ UNCHANGED <<mode, files, role, why, peer, job, service>>

(* The client goes away, or its connection is closed; the handler runs on.   *)
HangUp(p) ==
    /\ pc[p] = "calling"
    /\ Goto(p, "done")
    /\ UNCHANGED <<mode, files, role, why, peer, job, service>>

Unlocked(q) == store[q] /\ health[q] = "ready"

Unlock(p) ==
    /\ job[p] = "queued"
    /\ ~Unlocking(peer[p])
    /\ \/ Unlocked(peer[p]) /\ Answer(p) /\ Stage(p, "none")
       \/ ~Unlocked(peer[p]) /\ Stage(p, "vault") /\ UNCHANGED pc
    /\ UNCHANGED <<mode, files, role, why, peer, service>>

(* The request was cancelled with its connection, which the handler may or   *)
(* may not have noticed when it enters.                                      *)
UnlockCancelled(p) ==
    /\ job[p] = "queued"
    /\ ~Unlocking(peer[p])
    /\ pc[p] # "calling" \/ server[peer[p]] # "up"
    /\ ~Unlocked(peer[p])
    /\ RecordFailure(peer[p], "queued")
    /\ Answer(p) /\ Stage(p, "none")
    /\ UNCHANGED <<mode, files, role, why, peer, server, operational, store>>

-----------------------------------------------------------------------------
(* Serving and stopping.                                                     *)

Listen(p) == server' = [server EXCEPT ![p] = "up"]

Shut(p) == server' = [server EXCEPT ![p] = "closed"]

Publish(p) ==
    /\ pc[p] = "publish"
    /\ Listen(p)
    /\ client' = p
    /\ Goto(p, "serving")
    /\ UNCHANGED <<mode, lock, meta, vault, database, role, why, peer, job, health, operational, store>>

PublishFails(p) ==
    /\ pc[p] = "publish"
    /\ Shut(p)
    /\ Goto(p, "closestore")
    /\ UNCHANGED <<mode, files, role, why, peer, job, health, operational, store>>

(* A signal stops a service, the end of its own call a command, an error of  *)
(* the listener either.  Requests already accepted keep running.             *)
StopServing(p) ==
    /\ pc[p] = "serving"
    /\ Shut(p)
    /\ Goto(p, "closestore")
    /\ UNCHANGED <<mode, files, role, why, peer, job, health, operational, store>>

(* The lifecycle closes its store under its mutex.  Background work that     *)
(* fails to stop makes it leave the store open.                              *)
CloseLifecycle(p) ==
    /\ pc[p] = "closestore"
    /\ HasLifecycle(p)
    /\ ~Unlocking(p)
    /\ store' \in {store, [store EXCEPT ![p] = FALSE]}
    /\ Goto(p, "closeclient")
    /\ UNCHANGED <<mode, files, role, why, peer, job, server, health, operational>>

(* So does the owner of a store that was opened before serving.              *)
CloseStore(p) ==
    /\ pc[p] = "closestore"
    /\ role[p] \in Starters /\ ~HasLifecycle(p)
    /\ store' \in {store, [store EXCEPT ![p] = FALSE]}
    /\ Goto(p, "closeclient")
    /\ UNCHANGED <<mode, files, role, why, peer, job, server, health, operational>>

(* A command closes its store whatever else failed to close.                 *)
CloseCommand(p) ==
    /\ pc[p] = "closestore"
    /\ role[p] \notin Starters
    /\ store' = [store EXCEPT ![p] = FALSE]
    /\ Goto(p, "closeclient")
    /\ UNCHANGED <<mode, files, role, why, peer, job, server, health, operational>>

CloseClient(p) ==
    /\ pc[p] = "closeclient"
    /\ client' = None
    /\ Goto(p, "closemeta")
    /\ UNCHANGED <<mode, lock, meta, vault, database, role, why, peer, job, service>>

CloseMeta(p) ==
    /\ pc[p] = "closemeta"
    /\ meta' = None
    /\ Goto(p, "release")
    /\ UNCHANGED <<mode, lock, client, vault, database, role, why, peer, job, service>>

Release(p) ==
    /\ pc[p] = "release"
    /\ lock' = None
    /\ Goto(p, "exiting")
    /\ UNCHANGED <<mode, meta, client, vault, database, role, why, peer, job, service>>

(* The end of a process ends its handlers and closes its files, which        *)
(* releases the lock if it has it.  Descriptor files stay.                   *)
Gone(p) ==
    /\ lock' = IF lock = p THEN None ELSE lock
    /\ server' = [server EXCEPT ![p] = "closed"]
    /\ store' = [store EXCEPT ![p] = FALSE]
    /\ job' = [r \in Proc |-> IF peer[r] = p THEN "none" ELSE job[r]]
    /\ pc' = [r \in Proc |-> IF r = p \/ (peer[r] = p /\ pc[r] = "calling") THEN "done" ELSE pc[r]]
    /\ UNCHANGED <<mode, meta, client, vault, database, role, why, peer, health, operational>>

Exit(p) == pc[p] = "exiting" /\ Gone(p)

Crash(p) == pc[p] \notin {"idle", "done"} /\ Gone(p)

-----------------------------------------------------------------------------

Discovering(p) ==
    \/ ProbeFree(p) \/ ProbeDone(p) \/ ProbeHeld(p)
    \/ ReadNothing(p) \/ ReadOwner(p) \/ ReadClient(p)

Owning(p) ==
    \/ Contended(p) \/ Acquire(p) \/ RemoveMeta(p) \/ RemoveClient(p)
    \/ WriteMeta(p) \/ AcquireFails(p) \/ Recover(p)

Opening(p) ==
    \/ LookupVault(p) \/ CreateVault(p) \/ WriteVault(p)
    \/ OpenDatabase(p) \/ Compose(p) \/ OpenFails(p)

Calling(p) == CallUnlock(p) \/ CallOther(p) \/ Unlock(p) \/ UnlockCancelled(p)

Ending(p) ==
    \/ Publish(p) \/ PublishFails(p)
    \/ CloseLifecycle(p) \/ CloseStore(p) \/ CloseCommand(p)
    \/ CloseClient(p) \/ CloseMeta(p) \/ Release(p) \/ Exit(p)

(* What the program does by itself; users and the system do the rest.        *)
Progress(p) == Discovering(p) \/ Owning(p) \/ Opening(p) \/ Calling(p) \/ Ending(p)

Next == \E p \in Proc : Progress(p) \/ Start(p) \/ HangUp(p) \/ StopServing(p) \/ Crash(p)

Spec == Init /\ [][Next]_vars /\ \A p \in Proc : WF_vars(Progress(p))

-----------------------------------------------------------------------------

(* Only the holder of the owner lock has the database open.  The exception   *)
(* is a service that has released the lock and has not ended yet: an unlock  *)
(* may still run in it, or its store was left open by a failed shutdown.     *)
(* owner.go:69, service.go:833, service_lifecycle.go:63.                     *)
OwnerHasStore ==
    \A p \in Proc : store[p] => lock = p \/ (pc[p] = "exiting" /\ role[p] \in Starters)

(* A server answers only while its process holds the lock, and what clients  *)
(* find beside the lock names it: probes and starting rivals never remove or *)
(* replace the descriptors of a serving owner, and those of a dead one are   *)
(* gone before its successor serves.  owner.go:78, owner.go:159.             *)
DescriptorsNameOwner ==
    /\ \A p \in Proc : server[p] = "up" => lock = p /\ meta = p /\ client = p
    /\ \A p \in Proc : lock = p /\ pc[p] \in Working => meta = p /\ client \in {p, None}

(* What the lifecycle reports, what the handlers may use and what is open    *)
(* agree whenever no unlock is in progress.  service_lifecycle.go:63.        *)
HealthIsTrue ==
    \A q \in Proc :
        server[q] = "up" /\ HasLifecycle(q) /\ ~Unlocking(q) =>
            /\ health[q] = "ready" <=> store[q]
            /\ operational[q] <=> store[q]

(* A database of the passphrase mode can be unlocked: the vault record was   *)
(* written before it.  service_store_nonwindows.go:19, passphrase.go:199.    *)
DatabaseHasKey == database /\ mode = "passphrase" => vault \in Secrets

(* No process replaces the record another one sealed, even when both found   *)
(* none.  passphrase.go:243.                                                 *)
SealedOnce == [][(vault \in Secrets) => UNCHANGED vault]_vars

(* A stopping service ends, whatever unlock requests it still has.           *)
(* service_lifecycle.go:113.                                                 *)
StopCompletes == \A p \in Proc : pc[p] = "closestore" ~> pc[p] = "done"

(* An enrolled service that waits for another owner does not wait for ever   *)
(* once every other run has ended.  service.go:478.                          *)
EnrolledTakesOver ==
    \A p \in Proc :
        why[p] = "wait" /\ (\A q \in Proc \ {p} : pc[q] = "done")
            ~> why[p] # "wait" \/ pc[p] = "done"

(* Whoever comes and goes, one process has the database open, what clients   *)
(* find leads to it and tells the truth, and its database can be unlocked.   *)
(* owner.go:69, owner.go:159, service_lifecycle.go:63.                       *)
OneOwner == TypeOK /\ OwnerHasStore /\ DescriptorsNameOwner /\ HealthIsTrue /\ DatabaseHasKey

(* A stop ends, an enrolled service takes over from an owner that has gone,  *)
(* and on the way nobody replaces the sealed record of the passphrase.       *)
(* service_lifecycle.go:113, service.go:478, passphrase.go:243.              *)
OwnerSucceeds == SealedOnce /\ StopCompletes /\ EnrolledTakesOver
=============================================================================

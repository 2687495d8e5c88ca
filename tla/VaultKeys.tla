------------------------------ MODULE VaultKeys ------------------------------
(***************************************************************************)
(* The key that seals what a state root stores.  A service draws it at its   *)
(* first start, keeps it where its platform protects it, and asks for it     *)
(* again at every encryption and decryption.  On macOS and Linux it is one   *)
(* item of the user's keyring, whatever the state root; on Windows it is a   *)
(* file beside the database.  A service may stop at any point, the user may  *)
(* delete the key or the database, and services of different state roots        *)
(* may start together.                                                       *)
(*                                                                         *)
(* A key and its generation are drawn together and stand for each other, and *)
(* so a sealed field is known by the generation its envelope names.  One     *)
(* service at a time runs over a state root: that is StateOwner.             *)
(***************************************************************************)
EXTENDS Integers, FiniteSets

CONSTANTS
    Roots,              \* state roots of one user
    MaxGeneration,      \* bound on the keys drawn
    MaxTaken,           \* bound on the deletions of a key
    User,               \* the place in the keyring of the user
    NoKey,              \* nothing is kept
    Torn                \* a key file that was never written to its end

ASSUME VaultAssumption ==
    /\ MaxGeneration \in Nat \ {0} /\ MaxTaken \in Nat
    /\ {NoKey, Torn} \cap (1..MaxGeneration) = {}

VARIABLES
    keyring,        \* what protects keys here: "keychain", "secret-service" or "dpapi"
    item,           \* what is kept at each place
    drawn,          \* how many keys have been drawn
    hasDatabase,    \* whether the root has a database that is not empty
    sealed,         \* the envelopes in its database
    provider,       \* its service and the key provider of that service
    started,        \* the roots a service was ever started over
    taken           \* how often a key was deleted

vaultVars == <<keyring, item, drawn, hasDatabase, sealed, provider, started, taken>>

Generations == 1..MaxGeneration
Envelope(g) == [generation |-> g]

(* The item of a keyring has attributes without the state root; the          *)
(* protected file is in it.                                                  *)
KeyPlaces == Roots \cup {User}
Place(r) == IF keyring = "dpapi" THEN r ELSE User
Kept(r) == item[Place(r)]

(* A record that decodes: it is there, and complete.                         *)
Whole(record) == record \in Generations

Stopped == [at |-> "stopped", for |-> "start", allowCreate |-> FALSE, initialized |-> FALSE, key |-> NoKey]

VaultTypeOK ==
    /\ keyring \in {"keychain", "secret-service", "dpapi"}
    /\ item \in [KeyPlaces -> Generations \cup {NoKey, Torn}] /\ drawn \in 0..MaxGeneration
    /\ hasDatabase \in [Roots -> BOOLEAN] /\ sealed \in [Roots -> SUBSET {Envelope(g) : g \in Generations}]
    /\ provider \in [Roots -> [at : {"stopped", "looking", "missing", "writing", "loaded", "serving"},
                            for : {"start", "seal"}, allowCreate : BOOLEAN, initialized : BOOLEAN,
                            key : Generations \cup {NoKey}]]
    /\ started \subseteq Roots /\ taken \in 0..MaxTaken
    /\ \A r \in Roots : sealed[r] # {} => hasDatabase[r]

VaultInit ==
    /\ keyring \in {"keychain", "secret-service", "dpapi"}
    /\ item = [l \in KeyPlaces |-> NoKey] /\ drawn = 0
    /\ hasDatabase = [r \in Roots |-> FALSE] /\ sealed = [r \in Roots |-> {}]
    /\ provider = [r \in Roots |-> Stopped]
    /\ started = {} /\ taken = 0

-----------------------------------------------------------------------------
(* Asking for the key.                                                       *)

(* A new provider may draw a key only over a state root without database.    *)
VaultStart(r) ==
    /\ provider[r].at = "stopped"
    /\ provider' = [provider EXCEPT ![r] = [Stopped EXCEPT !.at = "looking", !.allowCreate = ~hasDatabase[r]]]
    /\ started' = started \cup {r}
    /\ UNCHANGED <<keyring, item, drawn, hasDatabase, sealed, taken>>

Encrypt(r) ==
    /\ provider[r].at = "serving"
    /\ provider' = [provider EXCEPT ![r].at = "looking", ![r].for = "seal"]
    /\ UNCHANGED <<keyring, item, drawn, hasDatabase, sealed, started, taken>>

(* The provider answers with key g, and remembers that there is one.         *)
Answered(r, g, remembers) ==
    provider' = [provider EXCEPT ![r].at = "loaded", ![r].key = g,
                           ![r].initialized = @ \/ remembers]

(* A failed call stops a service that starts; a serving one goes on.         *)
Refused(r) ==
    provider' = [provider EXCEPT ![r] = IF @.for = "start" THEN Stopped ELSE [@ EXCEPT !.at = "serving", !.key = NoKey]]

LoadExisting(r) ==
    IF Whole(Kept(r)) THEN Answered(r, Kept(r), FALSE) ELSE Refused(r)

(* MUTANT: a key may be drawn whenever none is found. *)
CreateAlways(r) == ~provider[r].initialized

MayCreate(r) == provider[r].allowCreate /\ ~provider[r].initialized

Lookup(r) ==
    /\ provider[r].at = "looking"
    /\ CASE Whole(Kept(r)) -> Answered(r, Kept(r), TRUE)
         [] Kept(r) = NoKey /\ MayCreate(r) -> provider' = [provider EXCEPT ![r].at = "missing"]
         [] OTHER -> Refused(r)
    /\ UNCHANGED <<keyring, item, drawn, hasDatabase, sealed, started, taken>>

(* The keyring is locked, denies access or does not answer.                  *)
Unavailable(r) ==
    /\ provider[r].at \in {"looking", "missing"}
    /\ Refused(r)
    /\ UNCHANGED <<keyring, item, drawn, hasDatabase, sealed, started, taken>>

-----------------------------------------------------------------------------
(* Drawing a key, in the three ways of the platforms.                        *)

Drawing(r, kind) == keyring = kind /\ provider[r].at = "missing" /\ drawn < MaxGeneration

Drawn(r) ==
    /\ item' = [item EXCEPT ![Place(r)] = drawn + 1]
    /\ drawn' = drawn + 1

(* The keychain refuses a second item: the first one's key is taken.         *)
KeychainCreate(r) ==
    /\ Drawing(r, "keychain")
    /\ \/ Kept(r) = NoKey /\ Drawn(r) /\ Answered(r, drawn + 1, TRUE)
       \/ Kept(r) # NoKey /\ LoadExisting(r) /\ UNCHANGED <<item, drawn>>
    /\ UNCHANGED <<keyring, hasDatabase, sealed, started, taken>>

(* secret-tool replaces an item that has the same attributes, and the        *)
(* provider does not note that it has drawn a key.                           *)
SecretServiceCreate(r) ==
    /\ Drawing(r, "secret-service")
    /\ Drawn(r) /\ Answered(r, drawn + 1, FALSE)
    /\ UNCHANGED <<keyring, hasDatabase, sealed, started, taken>>

(* The file is created first, and must not exist, and written afterwards.    *)
DPAPICreate(r) ==
    /\ Drawing(r, "dpapi")
    /\ \/ /\ Kept(r) = NoKey
          /\ item' = [item EXCEPT ![Place(r)] = Torn] /\ drawn' = drawn + 1
          /\ provider' = [provider EXCEPT ![r].at = "writing", ![r].key = drawn + 1]
       \/ Kept(r) # NoKey /\ LoadExisting(r) /\ UNCHANGED <<item, drawn>>
    /\ UNCHANGED <<keyring, hasDatabase, sealed, started, taken>>

DPAPIWritten(r) ==
    /\ provider[r].at = "writing"
    /\ item' = [item EXCEPT ![Place(r)] = provider[r].key]
    /\ Answered(r, provider[r].key, TRUE)
    /\ UNCHANGED <<keyring, drawn, hasDatabase, sealed, started, taken>>

DPAPIWriteFails(r) ==
    /\ provider[r].at = "writing"
    /\ item' = [item EXCEPT ![Place(r)] = NoKey]
    /\ Refused(r)
    /\ UNCHANGED <<keyring, drawn, hasDatabase, sealed, started, taken>>

-----------------------------------------------------------------------------
(* What the key is for.                                                      *)

OpenWithVault(r) ==
    /\ provider[r].at = "loaded" /\ provider[r].for = "start"
    /\ provider' = [provider EXCEPT ![r].at = "serving", ![r].key = NoKey]
    /\ hasDatabase' = [hasDatabase EXCEPT ![r] = TRUE]
    /\ UNCHANGED <<keyring, item, drawn, sealed, started, taken>>

Seal(r) ==
    /\ provider[r].at = "loaded" /\ provider[r].for = "seal"
    /\ provider' = [provider EXCEPT ![r].at = "serving", ![r].key = NoKey]
    /\ sealed' = [sealed EXCEPT ![r] = @ \cup {Envelope(provider[r].key)}]
    /\ UNCHANGED <<keyring, item, drawn, hasDatabase, started, taken>>

(* Decryption asks for the key in the same way, and accepts an envelope of   *)
(* its own generation only.                                                  *)
Opens(r, e) == Whole(Kept(r)) /\ e.generation = Kept(r)

-----------------------------------------------------------------------------
(* What happens to a service and its key.                                    *)

VaultStops(r) ==
    /\ provider[r].at # "stopped"
    /\ provider' = [provider EXCEPT ![r] = Stopped]
    /\ UNCHANGED <<keyring, item, drawn, hasDatabase, sealed, started, taken>>

TakeKey(l) ==
    /\ taken < MaxTaken /\ item[l] # NoKey
    /\ \A r \in Roots : Place(r) = l => provider[r].at # "writing"
    /\ item' = [item EXCEPT ![l] = NoKey] /\ taken' = taken + 1
    /\ UNCHANGED <<keyring, drawn, hasDatabase, sealed, provider, started>>

DeleteDatabase(r) ==
    /\ provider[r].at = "stopped" /\ hasDatabase[r]
    /\ hasDatabase' = [hasDatabase EXCEPT ![r] = FALSE] /\ sealed' = [sealed EXCEPT ![r] = {}]
    /\ UNCHANGED <<keyring, item, drawn, provider, started, taken>>

VaultNext ==
    \/ \E r \in Roots :
        \/ VaultStart(r) \/ Encrypt(r) \/ Lookup(r) \/ Unavailable(r)
        \/ KeychainCreate(r) \/ SecretServiceCreate(r)
        \/ DPAPICreate(r) \/ DPAPIWritten(r) \/ DPAPIWriteFails(r)
        \/ OpenWithVault(r) \/ Seal(r) \/ VaultStops(r) \/ DeleteDatabase(r)
    \/ \E l \in KeyPlaces : TakeKey(l)

VaultSpec == VaultInit /\ [][VaultNext]_vaultVars

-----------------------------------------------------------------------------
(* Whether no other root can have touched the key of r.                      *)
Alone(r) == keyring = "dpapi" \/ started \subseteq {r}

(* As long as nobody deletes a key, everything a root has sealed can be      *)
(* opened, across every restart and crash, and also when two roots start for *)
(* the first time together.  secret-tool gives no such promise to two roots. *)
SealedOpens ==
    taken = 0 => \A r \in Roots : keyring # "secret-service" \/ Alone(r) =>
        \A e \in sealed[r] : Opens(r, e)

(* A state root that holds sealed fields never gets a second key, even when  *)
(* its own has been deleted: it fails closed.  A Secret Service provider     *)
(* that has drawn its key forgets that, and a second deletion in the same    *)
(* process makes it draw another.                                            *)
FailsClosed ==
    keyring # "secret-service" \/ taken < 2 => \A r \in Roots : Alone(r) => Cardinality(sealed[r]) <= 1

(* What a service stores stays readable under the key its platform keeps,    *)
(* and a lost key is never replaced behind the back of what it has sealed.   *)
KeysKept == VaultTypeOK /\ SealedOpens /\ FailsClosed

=============================================================================

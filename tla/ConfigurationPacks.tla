-------------------------- MODULE ConfigurationPacks --------------------------
(***************************************************************************)
(* Shared Configuration Packs: the versions of a pack, which of them a       *)
(* profile is assigned, the profile's own overrides, and the operations of   *)
(* the service that preview, project and promote them.                       *)
(*                                                                         *)
(* The service runs one of these operations at a time, but each looks the    *)
(* alias up in the store several times, and renames, removals, launches and  *)
(* imports do not wait for it.  A version is one content here; the files of  *)
(* a home and how a projection moves them are in module Projection.          *)
(***************************************************************************)
EXTENDS Integers, FiniteSets

CONSTANTS
    Profiles, Aliases,
    Versions,       \* of one pack
    PackFiles,      \* what a version or an override may hold
    None, Local, NoOperation, NoReview,
    MaxOperations,  \* how often the service's lock is taken
    MaxChanges      \* how many steps the others take

ASSUME PacksAssumption ==
    /\ MaxOperations \in Nat /\ MaxChanges \in Nat
    /\ None \notin PackFiles \cup Versions \cup Aliases \cup Profiles
    /\ None \notin [state : {"draft", "approved"}, files : PackFiles]

VARIABLES
    packs,          \* version -> its state and files, or None
    assigned,       \* profile -> version or None
    overrides,      \* profile -> content or None
    alias,          \* profile -> alias, None once the profile is purged
    quarantined,    \* profiles that are being removed or are quarantined
    launched,       \* profiles with a pending or running launch
    home,           \* profile -> the file in its home: Local, None or a projection
    operation,      \* the operation that holds the service's lock
    review,         \* the preview the user has seen last
    operations, changes

packVars == <<packs, assigned, overrides>>
profileVars == <<alias, quarantined, launched>>
configurationVars == <<packs, assigned, overrides, alias, quarantined, launched, home,
                       operation, review, operations, changes>>

Packs == [state : {"draft", "approved"}, files : PackFiles]
Kinds == {"assign", "override", "preview", "project", "apply",
          "preview_promotion", "promote", "promote_reviewed"}

Versioned == {"assign", "preview_promotion", "promote", "promote_reviewed"}

(* What a projection put into a home: which version, which overrides, and    *)
(* the files that came of them.                                              *)
Projections == [version : Versions, override : PackFiles \cup {None}, files : PackFiles]

ConfigurationTypeOK ==
    /\ packs \in [Versions -> Packs \cup {None}]
    /\ assigned \in [Profiles -> Versions \cup {None}]
    /\ overrides \in [Profiles -> PackFiles \cup {None}]
    /\ alias \in [Profiles -> Aliases \cup {None}]
    /\ \A p, q \in Profiles : alias[p] = alias[q] /\ alias[p] # None => p = q
    /\ quarantined \subseteq Profiles /\ launched \subseteq Profiles \ quarantined
    /\ home \in [Profiles -> Projections \cup {None, Local}]
    /\ \A p \in Profiles : assigned[p] # None => packs[assigned[p]] \in [state : {"approved"}, files : PackFiles]
    /\ operation # NoOperation =>
        /\ operation.kind \in Kinds /\ operation.alias \in Aliases
        /\ operation.pc \in {"assignment", "overrides", "target", "store", "again", "write"}

(* A version is approved and assigned; each profile has overrides or not.    *)
ConfigurationInit ==
    /\ \E v \in Versions, f \in PackFiles :
        /\ packs = [w \in Versions |-> IF w = v THEN [state |-> "approved", files |-> f] ELSE None]
        /\ assigned = [p \in Profiles |-> v]
    /\ overrides \in [Profiles -> PackFiles \cup {None}]
    /\ alias \in {a \in [Profiles -> Aliases] : \A p, q \in Profiles : a[p] = a[q] => p = q}
    /\ quarantined = {} /\ launched = {}
    /\ home = [p \in Profiles |-> None]
    /\ operation = NoOperation /\ review = NoReview
    /\ operations = 0 /\ changes = 0

-----------------------------------------------------------------------------

Approved(v) == packs[v] # None /\ packs[v].state = "approved"

(* The profile an alias leads to; none for a profile that is being removed.  *)
Found(a) == {p \in Profiles \ quarantined : alias[p] = a}

(* MUTANT: an import replaces a version of the same name. *)
AnyVersion(v) == TRUE

Unused(v) == packs[v] = None

(* An operation waits for the lock of the service and takes it.              *)
StartOperation(kind, a) ==
    /\ operation = NoOperation /\ operations < MaxOperations
    /\ \E v \in IF kind \in Versioned THEN Versions ELSE {None},
          f \in IF kind = "override" THEN PackFiles ELSE {None} :
        /\ kind = "assign" => Approved(v)
        /\ kind \in {"apply", "promote_reviewed"} => review # NoReview /\ review.kind = kind /\ review.alias = a
        /\ operation' = [kind |-> kind, alias |-> a, version |-> v, files |-> f,
                         pc |-> IF kind = "assign" THEN "target" ELSE "assignment"]
    /\ operations' = operations + 1
    /\ UNCHANGED <<packVars, profileVars, home, review, changes>>

(* The operation ends with an error and changes nothing: what it looked for  *)
(* is not there, the files do not fit together, the store or the home fails. *)
FailOperation ==
    /\ operation # NoOperation /\ operation' = NoOperation
    /\ UNCHANGED <<packVars, profileVars, home, review, operations, changes>>

(* The assignment of the profile the alias leads to, and the approved        *)
(* version it names, whose files stay as they are.                           *)
ReadAssignment ==
    /\ operation # NoOperation /\ operation.pc = "assignment"
    /\ \E p \in Found(operation.alias) :
        /\ assigned[p] # None /\ Approved(assigned[p])
        /\ operation' = [kind |-> operation.kind, alias |-> operation.alias,
                         version |-> operation.version, files |-> operation.files, pc |-> "overrides",
                         assignment |-> [profile |-> p, alias |-> operation.alias, version |-> assigned[p]]]
    /\ UNCHANGED <<packVars, profileVars, home, review, operations, changes>>

Merged(v, override) == IF override = None THEN packs[v].files ELSE override

NextStep(kind) ==
    CASE kind \in {"override", "preview"} -> "target"
      [] kind \in {"project", "apply", "preview_promotion", "promote_reviewed"} -> "write"
      [] kind = "promote" -> "again"

ReadOverrides ==
    /\ operation # NoOperation /\ operation.pc = "overrides"
    /\ \E p \in Found(operation.alias) :
        operation' = [pc |-> NextStep(operation.kind), kind |-> operation.kind, alias |-> operation.alias,
                      version |-> operation.version, files |-> operation.files,
                      assignment |-> operation.assignment, owner |-> p, override |-> overrides[p],
                      merged |-> Merged(operation.assignment.version, overrides[p])]
    /\ UNCHANGED <<packVars, profileVars, home, review, operations, changes>>

(* A promotion that was not previewed reads the overrides a second time.     *)
ReadOverridesAgain ==
    /\ operation # NoOperation /\ operation.pc = "again"
    /\ \E p \in Found(operation.alias) :
        operation' = [operation EXCEPT !.pc = "write",
                                       !.merged = Merged(operation.assignment.version, overrides[p])]
    /\ UNCHANGED <<packVars, profileVars, home, review, operations, changes>>

(* The store looks the alias up before it takes its lock to write.           *)
ReadTarget ==
    /\ operation # NoOperation /\ operation.pc = "target" /\ operation.kind \in {"assign", "override"}
    /\ \E p \in Found(operation.alias) :
        operation' = [kind |-> operation.kind, alias |-> operation.alias, version |-> operation.version,
                      files |-> operation.files, pc |-> "store", target |-> p]
    /\ UNCHANGED <<packVars, profileVars, home, review, operations, changes>>

Assign ==
    /\ operation # NoOperation /\ operation.pc = "store" /\ operation.kind = "assign"
    /\ Approved(operation.version) /\ alias[operation.target] # None
    /\ assigned' = [assigned EXCEPT ![operation.target] = operation.version]
    /\ operation' = NoOperation
    /\ UNCHANGED <<packs, overrides, profileVars, home, review, operations, changes>>

SetOverride ==
    /\ operation # NoOperation /\ operation.pc = "store" /\ operation.kind = "override"
    /\ alias[operation.target] # None
    /\ overrides' = [overrides EXCEPT ![operation.target] = operation.files]
    /\ operation' = NoOperation
    /\ UNCHANGED <<packs, assigned, profileVars, home, review, operations, changes>>

-----------------------------------------------------------------------------

(* A local change stays where it is: that is the conflict.                   *)
Conflict(p) == home[p] = Local

ProjectionDigest(a, p, merged) ==
    [assignment |-> a, target |-> p, merged |-> merged, conflict |-> Conflict(p)]

PromotionDigest(a, to, merged) ==
    [assignment |-> a, to |-> to, from |-> packs[a.version].files, merged |-> merged]

Preview ==
    /\ operation # NoOperation /\ operation.pc = "target" /\ operation.kind = "preview"
    /\ \E p \in Found(operation.alias) :
        review' = [kind |-> "apply", alias |-> operation.alias, to |-> None,
                   home |-> p, shown |-> operation.merged, conflict |-> Conflict(p),
                   digest |-> ProjectionDigest(operation.assignment, p, operation.merged)]
    /\ operation' = NoOperation
    /\ UNCHANGED <<packVars, profileVars, home, operations, changes>>

PreviewPromotion ==
    /\ operation # NoOperation /\ operation.pc = "write" /\ operation.kind = "preview_promotion"
    /\ operation.version # operation.assignment.version
    /\ review' = [kind |-> "promote_reviewed", alias |-> operation.alias, to |-> operation.version,
                  home |-> operation.owner, shown |-> operation.merged, conflict |-> FALSE,
                  digest |-> PromotionDigest(operation.assignment, operation.version, operation.merged)]
    /\ operation' = NoOperation
    /\ UNCHANGED <<packVars, profileVars, home, operations, changes>>

(* MUTANT: a launch of the profile is not asked for. *)
Present(p) == TRUE

Stopped(p) == p \notin launched

(* Everything the projection decides on is read under the store's lock, and  *)
(* the files are written before it is released.                              *)
Projected(p) ==
    /\ Stopped(p)
    /\ home' = IF Conflict(p) THEN home
               ELSE [home EXCEPT ![p] = [version |-> operation.assignment.version,
                                         override |-> operation.override, files |-> operation.merged]]

Project ==
    /\ operation # NoOperation /\ operation.pc = "write" /\ operation.kind = "project"
    /\ \E p \in Found(operation.alias) : Projected(p)
    /\ operation' = NoOperation
    /\ UNCHANGED <<packVars, profileVars, review, operations, changes>>

ApplyReviewed ==
    /\ operation # NoOperation /\ operation.pc = "write" /\ operation.kind = "apply" /\ review # NoReview
    /\ \E p \in Found(operation.alias) :
        /\ ProjectionDigest(operation.assignment, p, operation.merged) = review.digest
        /\ Projected(p)
    /\ operation' = NoOperation
    /\ UNCHANGED <<packVars, profileVars, review, operations, changes>>

(* Under the store's lock: the new version is approved at once.              *)
Promoted ==
    /\ operation.version # operation.assignment.version
    /\ Approved(operation.assignment.version) /\ Unused(operation.version)
    /\ packs' = [packs EXCEPT ![operation.version] = [state |-> "approved", files |-> operation.merged]]

Promote ==
    /\ operation # NoOperation /\ operation.pc = "write" /\ operation.kind = "promote"
    /\ Promoted
    /\ operation' = NoOperation
    /\ UNCHANGED <<assigned, overrides, profileVars, home, review, operations, changes>>

PromoteReviewed ==
    /\ operation # NoOperation /\ operation.pc = "write" /\ operation.kind = "promote_reviewed"
    /\ review # NoReview
    /\ PromotionDigest(operation.assignment, operation.version, operation.merged) = review.digest
    /\ Promoted
    /\ operation' = NoOperation
    /\ UNCHANGED <<assigned, overrides, profileVars, home, review, operations, changes>>

-----------------------------------------------------------------------------

Change == changes < MaxChanges /\ changes' = changes + 1

CreateDraft(v, f) ==
    /\ Change /\ Unused(v)
    /\ packs' = [packs EXCEPT ![v] = [state |-> "draft", files |-> f]]
    /\ UNCHANGED <<assigned, overrides, profileVars, home, operation, review, operations>>

Approve(v) ==
    /\ Change /\ packs[v] # None /\ packs[v].state = "draft"
    /\ packs' = [packs EXCEPT ![v].state = "approved"]
    /\ UNCHANGED <<assigned, overrides, profileVars, home, operation, review, operations>>

(* A version that is there, whatever is in it, is skipped.                   *)
ImportPack(v, f) ==
    /\ Change /\ Unused(v)
    /\ packs' = [packs EXCEPT ![v] = [state |-> "approved", files |-> f]]
    /\ UNCHANGED <<assigned, overrides, profileVars, home, operation, review, operations>>

Rename(p, a) ==
    /\ Change /\ p \notin quarantined /\ alias[p] # None
    /\ \A q \in Profiles : alias[q] # a
    /\ alias' = [alias EXCEPT ![p] = a]
    /\ UNCHANGED <<packVars, quarantined, launched, home, operation, review, operations>>

RemoveProfile(p) ==
    /\ Change /\ alias[p] # None /\ p \notin quarantined \cup launched
    /\ quarantined' = quarantined \cup {p}
    /\ UNCHANGED <<packVars, alias, launched, home, operation, review, operations>>

RestoreProfile(p) ==
    /\ Change /\ p \in quarantined
    /\ quarantined' = quarantined \ {p}
    /\ UNCHANGED <<packVars, alias, launched, home, operation, review, operations>>

(* The rows and the home of a quarantined profile are deleted.               *)
PurgeProfile(p) ==
    /\ Change /\ p \in quarantined
    /\ quarantined' = quarantined \ {p}
    /\ alias' = [alias EXCEPT ![p] = None]
    /\ assigned' = [assigned EXCEPT ![p] = None]
    /\ overrides' = [overrides EXCEPT ![p] = None]
    /\ home' = [home EXCEPT ![p] = None]
    /\ UNCHANGED <<packs, launched, operation, review, operations>>

Launch(p) ==
    /\ Change /\ p \notin quarantined \cup launched /\ alias[p] # None
    /\ launched' = launched \cup {p}
    /\ UNCHANGED <<packVars, alias, quarantined, home, operation, review, operations>>

EndLaunch(p) ==
    /\ p \in launched
    /\ launched' = launched \ {p}
    /\ UNCHANGED <<packVars, alias, quarantined, home, operation, review, operations, changes>>

(* The file is written or deleted by whoever works in the home.              *)
ChangeLocally(p) ==
    /\ Change /\ alias[p] # None
    /\ \E file \in {Local, None} \ {home[p]} : home' = [home EXCEPT ![p] = file]
    /\ UNCHANGED <<packVars, alias, quarantined, launched, operation, review, operations>>

ConfigurationNext ==
    \/ \E kind \in Kinds, a \in Aliases : StartOperation(kind, a)
    \/ FailOperation
    \/ ReadAssignment \/ ReadOverrides \/ ReadOverridesAgain \/ ReadTarget
    \/ Assign \/ SetOverride \/ Preview \/ PreviewPromotion
    \/ Project \/ ApplyReviewed \/ Promote \/ PromoteReviewed
    \/ \E v \in Versions, f \in PackFiles : CreateDraft(v, f) \/ ImportPack(v, f)
    \/ \E v \in Versions : Approve(v)
    \/ \E p \in Profiles, a \in Aliases : Rename(p, a)
    \/ \E p \in Profiles :
        \/ RemoveProfile(p) \/ RestoreProfile(p) \/ PurgeProfile(p)
        \/ Launch(p) \/ EndLaunch(p) \/ ChangeLocally(p)

ConfigurationSpec == ConfigurationInit /\ [][ConfigurationNext]_configurationVars

-----------------------------------------------------------------------------

Written(p) == home'[p] # home[p] /\ home'[p] \notin {None, Local}

(* A projection or promotion that was reviewed writes what was reviewed, into *)
(* the home it was reviewed for and only where the review said it would, and  *)
(* publishes it under the name it was reviewed for.  configpack.go:451, 544.  *)
ReviewIsApplied ==
    [][(operation # NoOperation /\ operation' = NoOperation)
        => /\ \A p \in Profiles : (operation.kind = "apply" /\ Written(p)) =>
                p = review.home /\ home'[p].files = review.shown /\ ~review.conflict
           /\ \A v \in Versions : (operation.kind = "promote_reviewed" /\ packs'[v] # packs[v]) =>
                v = review.to /\ packs'[v].files = review.shown
      ]_configurationVars

(* No projection reaches the home of a profile that is launched, or that has  *)
(* been removed since the operation looked its alias up.                      *)
(* store/configuration_packs.go:382.                                          *)
HomeAtRest ==
    [][\A p \in Profiles : Written(p) => p \notin launched \cup quarantined]_configurationVars

(* Both: a projection is of what was reviewed, into a home at rest.           *)
(* configpack.go:451.                                                         *)
ProjectionReviewed == ReviewIsApplied /\ HomeAtRest

(* What was projected can be made again from the version it names, however    *)
(* long ago that was: no version is ever replaced or withdrawn by an import,  *)
(* a draft or a promotion.  store/configuration_packs.go:183.                 *)
ProjectionsReproducible ==
    \A p \in Profiles : home[p] \notin {None, Local} =>
        Approved(home[p].version) /\ home[p].files = Merged(home[p].version, home[p].override)

(* With the type of the state.  store/configuration_packs.go:183.             *)
PacksKept == ConfigurationTypeOK /\ ProjectionsReproducible
=============================================================================

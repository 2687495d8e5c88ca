-------------------------- MODULE ConfigurationImport --------------------------
(***************************************************************************)
(* The import of a portable configuration.  A preview compares the bundle    *)
(* with what an export of this store would hold and lists the conflicts; the *)
(* user answers each; the import compares again in its own transaction and   *)
(* goes ahead only when nothing it compared has changed.                     *)
(*                                                                         *)
(* A bundle has at most one entry of each kind here.  An export leaves out   *)
(* quarantined profiles and their thresholds, drafts of packs, and project   *)
(* aliases that two projects could claim.                                    *)
(***************************************************************************)
EXTENDS Integers, FiniteSets

CONSTANTS
    Values,             \* of an entry: a display name, percentages, files, an alias
    BundleValues,       \* those a bundle may bring
    Missing, NoImport,
    MaxLocalChanges

ASSUME ImportAssumption == MaxLocalChanges \in Nat /\ Missing \notin Values /\ BundleValues \subseteq Values

Entries == {"profile", "threshold", "pack", "project", "preferences"}

VARIABLES
    local,          \* entry -> what the store holds
    hidden,         \* entries that are there and no export shows
    import,         \* the preview the user has answered
    localChanges

importVars == <<local, hidden, import, localChanges>>

Configurations == [Entries -> Values \cup {Missing}]

(* A threshold names a profile of its bundle; preferences are always there.  *)
Bundles == {b \in [Entries -> BundleValues \cup {Missing}] :
                b["preferences"] # Missing /\ (b["threshold"] # Missing => b["profile"] # Missing)}

ImportTypeOK ==
    /\ local \in Configurations /\ hidden \subseteq {e \in Entries \ {"preferences"} : local[e] # Missing}
    /\ local["preferences"] # Missing
    /\ local["threshold"] # Missing => local["profile"] # Missing
    /\ local["threshold"] # Missing => ("threshold" \in hidden <=> "profile" \in hidden)
    /\ localChanges \in 0..MaxLocalChanges
    /\ import # NoImport => import.bundle \in Bundles

ImportInit ==
    /\ local \in Configurations
    /\ local["preferences"] # Missing /\ (local["threshold"] # Missing => local["profile"] # Missing)
    /\ hidden = {} /\ import = NoImport /\ localChanges = 0

-----------------------------------------------------------------------------

exportConfiguration == [e \in Entries |-> IF e \in hidden THEN Missing ELSE local[e]]

(* What an answer may be.  A quarantined profile and a project that is not   *)
(* there, or not the only one, are skipped; a version of a pack stays.       *)
Resolutions(b, e) ==
    CASE e = "profile" /\ e \in hidden -> {"skip"}
      [] e = "project" /\ exportConfiguration[e] = Missing -> {"skip"}
      [] e = "pack" -> {"skip", "keep_local"}
      [] OTHER -> {"keep_local", "use_imported"}

Conflicting(b) ==
    {e \in Entries : /\ b[e] # Missing
                     /\ \/ e = "profile" /\ e \in hidden
                        \/ e = "project" /\ exportConfiguration[e] = Missing
                        \/ exportConfiguration[e] \notin {Missing, b[e]}}

(* MUTANT: the digest is that of the bundle and the conflicts alone. *)
DigestOfConflicts(b) ==
    [bundle |-> b, shown |-> b, conflicts |-> [e \in Conflicting(b) |-> Resolutions(b, e)]]

ConfirmationDigest(b) ==
    [bundle |-> b, shown |-> exportConfiguration, conflicts |-> [e \in Conflicting(b) |-> Resolutions(b, e)]]

(* Answers chosen at the preview: they matter only once they are sent.       *)
PreviewImport(b) ==
    /\ import = NoImport
    /\ \E answers \in [Conflicting(b) -> {"skip", "keep_local", "use_imported"}] :
        /\ \A e \in Conflicting(b) : answers[e] \in Resolutions(b, e)
        /\ import' = [bundle |-> b, digest |-> ConfirmationDigest(b), answers |-> answers,
                      seen |-> exportConfiguration]
    /\ UNCHANGED <<local, hidden, localChanges>>

(* Entries that were in conflict are taken when the user said so; the        *)
(* thresholds of a profile that is skipped are skipped with it.              *)
Wanted(e) ==
    /\ e \in DOMAIN import.answers => import.answers[e] = "use_imported"
    /\ e = "threshold" /\ "profile" \in DOMAIN import.answers => import.answers["profile"] # "skip"

(* A version of a pack that is there stays as it is, a draft too.            *)
Taken(e) ==
    import.bundle[e] # Missing /\ Wanted(e) /\ (e = "pack" => local[e] = Missing)

(* The user starts over, with this bundle or another one.                    *)
DropImport ==
    /\ import # NoImport /\ import' = NoImport
    /\ UNCHANGED <<local, hidden, localChanges>>

(* One transaction of the store, under its lock.                             *)
ApplyImport ==
    /\ import # NoImport
    /\ ConfirmationDigest(import.bundle) = import.digest
    /\ local' = [e \in Entries |-> IF Taken(e) THEN import.bundle[e] ELSE local[e]]
    /\ UNCHANGED <<hidden, import, localChanges>>

-----------------------------------------------------------------------------

LocalChange == localChanges < MaxLocalChanges /\ localChanges' = localChanges + 1 /\ UNCHANGED import

(* A profile is set up or renamed, a threshold or the preferences are set, a *)
(* draft is created, a project is seen or gets another alias.                *)
SetLocally(e, value) ==
    /\ LocalChange
    /\ value # local[e]
    /\ e = "pack" => local[e] = Missing
    /\ e = "threshold" => local["profile"] # Missing
    /\ e \in {"profile", "threshold"} => "profile" \notin hidden
    /\ e = "project" => e \notin hidden
    /\ local' = [local EXCEPT ![e] = value]
    /\ hidden' = IF e = "pack" THEN hidden \cup {e} ELSE hidden

ApproveDraft ==
    /\ LocalChange /\ "pack" \in hidden
    /\ hidden' = hidden \ {"pack"} /\ UNCHANGED local

SecondProject ==
    /\ LocalChange /\ local["project"] # Missing /\ "project" \notin hidden
    /\ hidden' = hidden \cup {"project"} /\ UNCHANGED local

Quarantine ==
    /\ LocalChange /\ local["profile"] # Missing /\ "profile" \notin hidden
    /\ hidden' = hidden \cup {e \in {"profile", "threshold"} : local[e] # Missing}
    /\ UNCHANGED local

Restore ==
    /\ LocalChange /\ "profile" \in hidden
    /\ hidden' = hidden \ {"profile", "threshold"} /\ UNCHANGED local

OfProfile == {"profile", "threshold"}

(* Its rows are deleted and its alias is free again.                         *)
Purge ==
    /\ LocalChange /\ "profile" \in hidden
    /\ local' = [e \in Entries |-> IF e \in OfProfile THEN Missing ELSE local[e]]
    /\ hidden' = hidden \ OfProfile

ImportNext ==
    \/ \E b \in Bundles : PreviewImport(b)
    \/ ApplyImport \/ DropImport
    \/ \E e \in Entries, value \in Values : SetLocally(e, value)
    \/ ApproveDraft \/ SecondProject \/ Quarantine \/ Restore \/ Purge

ImportSpec == ImportInit /\ [][ImportNext]_importVars

-----------------------------------------------------------------------------

(* An import overwrites an entry only when the user was shown the value that  *)
(* it overwrites, and said to take the other; everything else it changes was  *)
(* not there, neither at the preview nor now.                                 *)
(* store/configuration_bundle.go:247.                                         *)
OverwritesOnlySeen ==
    [][ApplyImport =>
        \A e \in Entries : local'[e] # local[e] =>
            /\ import.seen[e] = local[e]
            /\ local[e] # Missing => e \in DOMAIN import.answers /\ import.answers[e] = "use_imported"
      ]_importVars

(* An import never touches what its preview could not show: a quarantined    *)
(* profile and its thresholds, a draft, a project alias that is ambiguous.   *)
(* store/configuration_bundle.go:167.                                        *)
HiddenUntouched ==
    [][ApplyImport => \A e \in hidden : local'[e] = local[e]]_importVars

(* An import does what its preview showed.                                   *)
(* store/configuration_bundle.go:231.                                        *)
ImportReviewed == []ImportTypeOK /\ OverwritesOnlySeen /\ HiddenUntouched
=============================================================================

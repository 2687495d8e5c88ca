-------------------------- MODULE MCServiceRequests --------------------------
(***************************************************************************)
(* What the service does at the request of its user, in one run: the        *)
(* sessions of the dashboard, the enrollment, configuration packs, their     *)
(* projection and their import, support bundles, and the store with its      *)
(* backups.  `part` is the one that moves, and the others stay in one of     *)
(* their initial states.                                                     *)
(*                                                                         *)
(* Parts that never meet draw on the same model values, so that there are    *)
(* few permutations to take; a profile and its first alias are the same one. *)
(***************************************************************************)
EXTENDS Sessions, Enrollment, Projection, ConfigurationPacks, ConfigurationImport,
        Diagnostics, StoreRecovery, TLC

VARIABLE part

Files == <<"AGENTS.md", "config.toml">>

RequestsInit ==
    /\ SessionInit /\ EnrollmentInit /\ ProjectionInit /\ ConfigurationInit /\ ImportInit
    /\ DiagnosticsInit /\ Init
    /\ part \in {"sessions", "enrollment", "projection", "packs", "import", "diagnostics",
                "recovery"}
    /\ part # "sessions" => operational
    /\ part # "enrollment" => platform = "linux"
    /\ part # "projection" => \A p \in PathSet : homeFiles[p] = Absent /\ tracked[p] = Absent
    /\ part = "projection" => \A p \in PathSet \ {Paths[1]} : tracked[p] = Absent
    /\ alias = [p \in Profiles |-> p]
    /\ Cardinality({p \in Profiles : overrides[p] # None}) <= (IF part = "packs" THEN 1 ELSE 0)
    /\ \A e \in Entries : local[e] \in IF e = "preferences" THEN {1}
                                      ELSE IF part = "import" THEN {Missing, 1} ELSE {Missing}
    /\ part # "recovery" => active = NoFile

RequestsNext ==
    /\ UNCHANGED part
    /\ \/ /\ part = "sessions" /\ SessionNext
          /\ UNCHANGED <<enrollmentVars, projectionVars, configurationVars, importVars,
                         diagnosticsVars, vars>>
       \/ /\ part = "enrollment" /\ EnrollmentNext
          /\ UNCHANGED <<sessionVars, projectionVars, configurationVars, importVars,
                         diagnosticsVars, vars>>
       \/ /\ part = "projection" /\ ProjectionNext
          /\ UNCHANGED <<sessionVars, enrollmentVars, configurationVars, importVars,
                         diagnosticsVars, vars>>
       \/ /\ part = "packs" /\ ConfigurationNext
          /\ UNCHANGED <<sessionVars, enrollmentVars, projectionVars, importVars,
                         diagnosticsVars, vars>>
       \/ /\ part = "import" /\ ImportNext
          /\ UNCHANGED <<sessionVars, enrollmentVars, projectionVars, configurationVars,
                         diagnosticsVars, vars>>
       \/ /\ part = "diagnostics" /\ DiagnosticsNext
          /\ UNCHANGED <<sessionVars, enrollmentVars, projectionVars, configurationVars,
                         importVars, vars>>
       \/ /\ part = "recovery" /\ Next
          /\ UNCHANGED <<sessionVars, enrollmentVars, projectionVars, configurationVars,
                         importVars, diagnosticsVars>>

\* BOUND: with two sessions there is one request at a time.
OneBrowses == Cardinality(DOMAIN origin) > 1 => \E r \in Slot : request[r].stage = "idle"

\* BOUND: bundles are asked for twice at once on the first day only.
OneAsks == today > 0 => \E q \in Requesters : asking[q].at \in {"idle", "exported"}

Symmetry ==
    Permutations(Profiles) \cup Permutations(Versions) \cup Permutations(PackFiles)
=============================================================================

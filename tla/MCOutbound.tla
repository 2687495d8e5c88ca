------------------------------ MODULE MCOutbound ------------------------------
(***************************************************************************)
(* What the service asks of others, in one run: the usage of a profile of    *)
(* Codex, the newest version of a source of releases, and telemetry to its   *)
(* receiver.  They share nothing: `part` is the one that moves.  A profile   *)
(* and the alias it has at first are the same model value.                   *)
(***************************************************************************)
EXTENDS UsageRefresh, UpdateChecks, Telemetry

VARIABLE part

Number(v) == [number |-> TRUE, value |-> v]
Name(v) == [number |-> FALSE, value |-> v]
PreRelease(p) == [core |-> <<1, 0, 0>>, pre |-> p]

\* 1.0.0-alpha, -alpha.2, -alpha.11, -alpha.beta, two builds of 1.0.0, 1.10.0-1
Releases ==
    << PreRelease(<<Name(1)>>), PreRelease(<<Name(1), Number(2)>>), PreRelease(<<Name(1), Number(11)>>),
       PreRelease(<<Name(1), Name(2)>>), PreRelease(<<>>), PreRelease(<<>>),
       [core |-> <<1, 10, 0>>, pre |-> <<Number(1)>>] >>

outboundVars == <<part, refreshVars, updateVars, telemetryVars>>

Init ==
    /\ RefreshInit /\ UpdateInit /\ TelemetryInit
    /\ part \in {"refresh", "updates", "telemetry"}
    /\ \A a \in Aliases : named[a] \in IF part = "refresh" THEN {a, None} ELSE {None}
    /\ part # "telemetry" => ready
    /\ part # "updates" => running = [place |-> 1, build |-> 1]

Next ==
    /\ UNCHANGED part
    /\ \/ part = "refresh" /\ RefreshNext /\ UNCHANGED <<updateVars, telemetryVars>>
       \/ part = "updates" /\ UpdateNext /\ UNCHANGED <<refreshVars, telemetryVars>>
       \/ part = "telemetry" /\ TelemetryNext /\ UNCHANGED <<refreshVars, updateVars>>

Spec == Init /\ [][Next]_outboundVars /\ RefreshFairness /\ WF_telemetryVars(TelemetryWork)
=============================================================================

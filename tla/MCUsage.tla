------------------------------- MODULE MCUsage -------------------------------
(***************************************************************************)
(* The parts of the usage component that meet only in the rows the store    *)
(* keeps for each of them, in one run: `part` is the one that moves, and    *)
(* the others stay in one of their initial states.                          *)
(***************************************************************************)
EXTENDS CollectionTurns, CollectionSchedule, UsageEvidence, UsageHistory, Alerts, TLC

VARIABLE part

Percentages ==
    {r \in [Metrics -> 0..2] :
        <<r["primary"], r["secondary"]>> \in {<<0, 1>>, <<1, 0>>, <<1, 2>>}}

Init ==
    /\ TurnsInit /\ ScheduleInit /\ EvidenceInit /\ HistoryInit /\ AlertInit
    /\ part \in {"turns", "schedule", "evidence", "history", "alerts"}
    /\ part # "turns" => eligible = {} /\ active = {}
    /\ part # "schedule" => interval = Minimum
    /\ part # "evidence" => ~sharing
    /\ part # "alerts" => kind = "stale"

Next ==
    /\ UNCHANGED part
    /\ \/ part = "turns" /\ TurnsNext
            /\ UNCHANGED <<scheduleVars, evidenceVars, historyVars, alertVars>>
       \/ part = "schedule" /\ ScheduleNext
            /\ UNCHANGED <<turnVars, evidenceVars, historyVars, alertVars>>
       \/ part = "evidence" /\ EvidenceNext
            /\ UNCHANGED <<turnVars, scheduleVars, historyVars, alertVars>>
       \/ part = "history" /\ HistoryNext
            /\ UNCHANGED <<turnVars, scheduleVars, evidenceVars, alertVars>>
       \/ part = "alerts" /\ AlertNext
            /\ UNCHANGED <<turnVars, scheduleVars, evidenceVars, historyVars>>

Delivering == \E e \in Evaluators : evaluator[e].pc \in {"due", "deliver", "record"}

\* BOUNDS: an alert that was opened again has one capture behind it, a profile
\* is in quarantine where captures alone open its alert, and the scheduler does
\* not refresh while a notice is being delivered; at the last time there is,
\* nobody refreshes by hand.
FewReasons ==
    /\ alert # NoAlert /\ alert.opening > 1 => Len(captures) <= 1
    /\ standing = "quarantined" => kind \in {"capacity", "stale"}
    /\ attempt = "none" \/ ~Delivering
    /\ clock < MaxTime \/ manual = Never

\* The profiles to recommend, and those who evaluate alerts.
Symmetry == Permutations(RankedProfiles) \cup Permutations(Evaluators)
=============================================================================

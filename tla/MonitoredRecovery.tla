-------------------------- MODULE MonitoredRecovery --------------------------
(***************************************************************************)
(* The recovery gate fed by the monitor: evaluate reads the evidence file  *)
(* the monitor keeps replacing, and goes on only when its state is one of  *)
(* ACTIONABLE_STATES. The age of the evidence is not looked at.            *)
(***************************************************************************)
EXTENDS RecoveryGate, Monitor

VARIABLE
    basis    \* per process: the tags of the snapshot its evaluation read

watchVars == <<vars, monitorVars, basis>>

WatchInit == Init /\ MonitorInit /\ basis = [p \in Process |-> {}]

ACTIONABLE_STATES == {"actionable_failure", "operator_required"}

\* evaluate on actionable evidence. On any other it records "suppressed" and
\* changes nothing.
EvaluateEvidence(p) ==
    /\ ReadEvidence \in ACTIONABLE_STATES
    /\ evaluate(p)
    /\ basis' = [basis EXCEPT ![p] = evidence.notes]
    /\ UNCHANGED monitorVars

\* Every later step works with what evaluate read; a process that is through
\* forgets it.
GateStep ==
    /\ Tick \/ \E p \in Process : Proceed(p) \/ Crash(p)
    /\ basis' = [p \in Process |-> IF pc'[p] = "idle" THEN {} ELSE basis[p]]
    /\ UNCHANGED monitorVars

WatchNext ==
    \/ \E p \in Process : EvaluateEvidence(p)
    \/ GateStep
    \/ MonitorNext /\ UNCHANGED <<vars, basis>>

WatchSpec == WatchInit /\ [][WatchNext]_watchVars

(* Fairness: the processes as in LiveSpec, and the monitor's loop goes on. *)
WatchLiveSpec ==
    /\ WatchSpec
    /\ \A p \in Process : WF_vars(Proceed(p))
    /\ WF_monitorVars(MonitorLoop)

-----------------------------------------------------------------------------
(* Properties.                                                             *)

\* Whoever holds the gate acts on a snapshot in which every endpoint answered,
\* and which has a failed attempt or nothing that may merely be late: "healthy
\* or unknown monitor results never acquire the recovery lock", however the
\* evidence changes between the evaluation and the recovery.
RecoveryIsWarranted ==
    \A p \in Process : pc[p] # "idle" =>
        /\ "failure" \in basis[p] /\ "unknown" \notin basis[p]
        /\ "actionable_failure" \in basis[p] \/ "stale_data" \notin basis[p]
==============================================================================

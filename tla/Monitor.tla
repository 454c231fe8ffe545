------------------------------- MODULE Monitor -------------------------------
(***************************************************************************)
(* The operational monitor (scripts/monitor.py --loop): one check after    *)
(* the other against a system that changes meanwhile, one verdict for the  *)
(* snapshot, and the evidence file the recovery gate reads. A condition    *)
(* the checks look for is a member of `faults`; ages and thresholds are    *)
(* abstracted to "stale or not". Of a snapshot only the tags the verdict   *)
(* depends on are kept: "failure" (the list of failures is not empty) and  *)
(* the states of its signals. The event log is written and never read: it  *)
(* is left out.                                                            *)
(***************************************************************************)
EXTENDS Naturals, Sequences, FiniteSets

CONSTANTS
    Fault,        \* the conditions that may come and go
    MaxFaults,    \* bound: conditions present at one time
    MaxChanges,   \* bound: changes of the system
    MaxRestarts   \* bound: write errors and restarts of the monitor

\* Conditions the checks can tell apart. "ledger_*" is the candidate ledger of
\* the latest full success: every row blocked or failed, or one published;
\* otherwise it is empty, pending or unreadable.
KnownFault ==
    {"live_unreachable", "live_refused", "ready_unreachable", "ready_refused",
     "status_down", "no_success", "success_stale", "attempt_failed",
     "heartbeat_stale", "backup_stale", "disk_full", "cert_expiring",
     "cert_unreadable", "reports_stale", "ledger_blocked", "ledger_published"}

ASSUME MonitorAssumption ==
    /\ Fault \subseteq KnownFault
    /\ {MaxFaults, MaxChanges, MaxRestarts} \subseteq Nat

VARIABLES
    faults,
    changes, restarts,
    step,       \* 0: asleep; 1..: the check that comes next; then the writing
    notes,      \* failures, signals and local variables of this snapshot
    steady,     \* history: faults present during the whole snapshot
    scratch,    \* the .tmp file
    evidence    \* the evidence file

monitorVars == <<faults, changes, restarts, step, notes, steady, scratch, evidence>>

-----------------------------------------------------------------------------
\* The order of the checks in collect_snapshot; "local_files" stands for the four
\* that ask no service, the last three are the requests of
\* _collect_freshness_signals.
Order == <<"public_liveness", "private_readiness", "run_status",
           "local_files", "newest_report", "full_success_run", "ledger">>
Collected == Len(Order) + 1
Opened == Len(Order) + 2
Written == Len(Order) + 3

State == {"unknown", "actionable_failure", "stale_data", "operator_required", "degraded"}
Tag == State \cup {"failure", "old_reports", "run_known", "published"}

NoFile == [kind |-> "none", notes |-> {}]
Partial == [kind |-> "partial", notes |-> {}]
Whole(n) == [kind |-> "whole", notes |-> n]
File == {NoFile, Partial} \cup {Whole(n) : n \in SUBSET Tag}

MonitorTypeOK ==
    /\ faults \subseteq Fault /\ changes \in 0..MaxChanges
    /\ restarts \in 0..MaxRestarts
    /\ step \in 0..Written /\ notes \subseteq Tag /\ steady \subseteq Fault
    /\ scratch \in File /\ evidence \in File

Few == {f \in SUBSET Fault : Cardinality(f) <= MaxFaults}

MonitorInit ==
    /\ faults \in Few /\ changes = 0 /\ restarts = 0 /\ step = 0 /\ notes = {} /\ steady = {}
    /\ scratch = NoFile /\ evidence = NoFile

-----------------------------------------------------------------------------
\* A failure with one signal of the given state, when the condition holds.
Raised(f, state) == IF f \in faults THEN {"failure", state} ELSE {}

\* An endpoint that must answer 200: no answer leaves its state unknown, any
\* other answer is for the operator.
Endpoint(unreachable, refused) ==
    IF unreachable \in faults THEN {"failure", "unknown"}
    ELSE Raised(refused, "operator_required")

\* The run-status answer: the latest full success and the latest attempt are
\* judged each on its own, and neither without an answer.
RunStatus ==
    IF "status_down" \in faults THEN {"failure", "unknown"}
    ELSE (IF faults \cap {"no_success", "success_stale"} # {}
            THEN {"failure", "stale_data"} ELSE {})
         \cup Raised("attempt_failed", "actionable_failure")

\* The age of the heartbeat file and of the backup's metadata, and the disk.
Heartbeat == Raised("heartbeat_stale", "stale_data")
Backup == Raised("backup_stale", "operator_required")
Disk == Raised("disk_full", "operator_required")

\* Mutant: the expiry is signalled like a degradation, without a failure.
Certificate_Silent ==
    IF "cert_unreadable" \in faults THEN {"failure", "operator_required"}
    ELSE IF "cert_expiring" \in faults THEN {"degraded"} ELSE {}

\* A certificate near its end is a failure without a signal.
Certificate ==
    IF "cert_unreadable" \in faults THEN {"failure", "operator_required"}
    ELSE IF "cert_expiring" \in faults THEN {"failure"} ELSE {}

\* The verdict on publication: a fresh report, or rows that say why not.
Publication ==
    CASE "old_reports" \notin notes -> {}
      [] "run_known" \in notes /\ "ledger_blocked" \in faults -> {"degraded"}
      [] "run_known" \in notes /\ "ledger_published" \in faults -> {"published"}
      [] OTHER -> {"failure", "stale_data"}

\* What a check adds to the snapshot.
Check(c) ==
    CASE c = "public_liveness" -> Endpoint("live_unreachable", "live_refused")
      [] c = "private_readiness" -> Endpoint("ready_unreachable", "ready_refused")
      [] c = "run_status" -> RunStatus
      [] c = "local_files" -> Heartbeat \cup Backup \cup Disk \cup Certificate
      [] c = "newest_report" ->
            IF faults \cap {"reports_stale", "live_unreachable"} # {}
              THEN {"old_reports"} ELSE {}
      [] c = "full_success_run" ->
            IF faults \cap {"status_down", "no_success"} = {} THEN {"run_known"} ELSE {}
      [] c = "ledger" -> Publication

\* Mutant: an actionable failure is reported even if an endpoint is silent.
Verdict_ActionableFirst(n) ==
    IF "failure" \notin n THEN "healthy"
    ELSE IF "actionable_failure" \in n THEN "actionable_failure"
    ELSE IF "unknown" \in n THEN "unknown"
    ELSE IF "stale_data" \in n THEN "stale_data"
    ELSE "operator_required"

\* Mutant: stale data hides a failed attempt.
Verdict_StaleFirst(n) ==
    IF "failure" \notin n THEN "healthy"
    ELSE IF "unknown" \in n THEN "unknown"
    ELSE IF "stale_data" \in n THEN "stale_data"
    ELSE IF "actionable_failure" \in n THEN "actionable_failure"
    ELSE "operator_required"

\* The state of a snapshot, of the first kind of signal it has.
Verdict(n) ==
    IF "failure" \notin n THEN "healthy"
    ELSE IF "unknown" \in n THEN "unknown"
    ELSE IF "actionable_failure" \in n THEN "actionable_failure"
    ELSE IF "stale_data" \in n THEN "stale_data"
    ELSE "operator_required"

-----------------------------------------------------------------------------
collect_snapshot ==
    /\ step = 0
    /\ step' = 1 /\ notes' = {} /\ steady' = faults
    /\ UNCHANGED <<faults, changes, restarts, scratch, evidence>>

RunCheck ==
    /\ step \in DOMAIN Order
    /\ notes' = notes \cup Check(Order[step])
    /\ step' = step + 1
    /\ UNCHANGED <<faults, changes, restarts, steady, scratch, evidence>>

\* _persist_snapshot: write_text empties the temporary file and fills it, then
\* replace puts it in the place of the evidence.
OpenScratch ==
    /\ step = Collected
    /\ scratch' = Partial
    /\ step' = Opened
    /\ UNCHANGED <<faults, changes, restarts, notes, steady, evidence>>

WriteScratch ==
    /\ step = Opened
    /\ scratch' = Whole(notes)
    /\ step' = Written
    /\ UNCHANGED <<faults, changes, restarts, notes, steady, evidence>>

ReplaceEvidence ==
    /\ step = Written
    /\ evidence' = scratch /\ scratch' = NoFile
    /\ step' = 0 /\ notes' = {} /\ steady' = {}
    /\ UNCHANGED <<faults, changes, restarts>>

\* An OSError of a write is printed and the loop goes on; a restart of the
\* container begins it again. The files stay as they are.
Interrupted ==
    /\ step # 0 /\ restarts < MaxRestarts
    /\ restarts' = restarts + 1
    /\ step' = 0 /\ notes' = {} /\ steady' = {}
    /\ UNCHANGED <<faults, changes, scratch, evidence>>

\* The system the monitor looks at: one condition begins or ends.
SystemChanges ==
    /\ changes < MaxChanges
    /\ changes' = changes + 1
    /\ \E f \in Fault :
          /\ faults' = IF f \in faults THEN faults \ {f} ELSE faults \cup {f}
          /\ Cardinality(faults') <= MaxFaults
    /\ steady' = steady \cap faults'
    /\ UNCHANGED <<restarts, step, notes, scratch, evidence>>

\* What the loop does by itself.
MonitorLoop ==
    collect_snapshot \/ RunCheck \/ OpenScratch \/ WriteScratch \/ ReplaceEvidence

MonitorNext == MonitorLoop \/ Interrupted \/ SystemChanges

\* What RecoveryGate.evaluate finds: a file it cannot parse says nothing.
ReadEvidence ==
    IF evidence.kind = "whole" THEN Verdict(evidence.notes) ELSE "unknown"

-----------------------------------------------------------------------------
(* Properties.                                                             *)

\* The evidence file, once there, is at every instant a whole snapshot,
\* whatever interrupts the monitor while it writes the next one.
EvidenceIsWhole == evidence.kind # "partial"

\* A fault that was there from the first check of a snapshot to the last makes
\* it unhealthy. The only exception is the one the code means: no fresh report
\* while the ledger of the latest run accounts for its candidates.
PersistentFaultSeen ==
    step = Collected /\ Verdict(notes) = "healthy" =>
        steady \ {"ledger_blocked", "ledger_published"} \subseteq
            IF notes \cap {"degraded", "published"} # {} THEN {"reports_stale"} ELSE {}

\* The faults that each of the first four checks turns into a failure.
Failing ==
    <<{"live_unreachable", "live_refused"}, {"ready_unreachable", "ready_refused"},
      {"status_down", "no_success", "success_stale", "attempt_failed"},
      {"heartbeat_stale", "backup_stale", "disk_full", "cert_expiring", "cert_unreadable"}>>

\* In the middle of a snapshot: what lasted so far is still there, the checks
\* behind have noted it, and old reports are accounted for in the end.
LastingNoted ==
    /\ steady \subseteq faults
    /\ \A i \in 1..4 : i < step /\ steady \cap Failing[i] # {} => "failure" \in notes
    /\ step \in 6..Collected /\ "reports_stale" \in steady => "old_reports" \in notes
    /\ step = Collected /\ "old_reports" \in notes => notes \cap {"failure", "degraded", "published"} # {}

\* What replace is about to install is a complete file.
WrittenIsWhole == step = Written => scratch.kind = "whole"

\* The monitor's snapshots miss no lasting fault and its file is always whole.
MonitorInv ==
    /\ MonitorTypeOK /\ EvidenceIsWhole /\ PersistentFaultSeen
    /\ LastingNoted /\ WrittenIsWhole

\* A failed ingestion attempt that stays the latest one, with every endpoint
\* answering, is in the end what the evidence says, whatever else is wrong.
FailureIsReported ==
    <>[](/\ "attempt_failed" \in faults
         /\ faults \cap {"live_unreachable", "ready_unreachable", "status_down"} = {})
    => <>[](ReadEvidence = "actionable_failure")
==============================================================================

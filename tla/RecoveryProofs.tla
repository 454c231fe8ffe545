--------------------------- MODULE RecoveryProofs ---------------------------
(***************************************************************************)
(* Proofs about RecoveryGate, Monitor and MonitoredRecovery, for any       *)
(* number of callers and scripts, any cooldown and any faults, and         *)
(* processes that may die at any step: first the gate by itself; then that *)
(* the gate fed by the monitor is the gate; that the monitor's snapshots   *)
(* miss no lasting fault and its file is always whole; and that whoever is *)
(* past the evaluation has a reason for it.                                *)
(***************************************************************************)
EXTENDS MonitoredRecovery, TLAPS

\* The initial state satisfies the invariant: no directory, no process at work.
LEMMA RecoveryInit == Init => RecoveryInv
  <1> SUFFICES ASSUME Init PROVE RecoveryInv
    OBVIOUS
  <1>1. TypeOK
    <2>1. locked \in BOOLEAN /\ orphaned \in BOOLEAN
      BY DEF Init
    <2>2. /\ clock \in 1..MaxClock /\ open \in 0..1
          /\ state \in 0..MaxClock
      BY RecoveryAssumption DEF Init
    <2>3. pc \in [Process -> {"idle", "checked"} \cup Holding]
      BY DEF Init
    <2>4. now \in [Process -> 0..MaxClock]
      BY RecoveryAssumption DEF Init
    <2> QED
      BY <2>1, <2>2, <2>3, <2>4 DEF TypeOK
  <1>2. \A p \in Process : pc[p] \notin Holding
    BY DEF Init, Holding
  <1>3. HolderAudit /\ OneRecovery
    BY <1>2 DEF HolderAudit, OneRecovery, Holding
  <1>4. FreeGateIsAudited
    BY DEF Init, FreeGateIsAudited
  <1> QED
    BY <1>1, <1>3, <1>4 DEF RecoveryInv

\* A step of evaluate or complete, of main, of the clock, or a death, keeps the
\* types.
LEMMA TypeStep ==
    ASSUME RecoveryInv, [Next]_vars
    PROVE  TypeOK'
  <1> USE RecoveryAssumption DEF RecoveryInv, TypeOK, Holding, Goto
  <1>1. CASE Tick
    BY <1>1 DEF Tick
  <1>2. ASSUME NEW p \in Process, evaluate(p) PROVE TypeOK'
    <2>1. GateTime(p) \subseteq 0..MaxClock
      BY DEF GateTime
    <2> QED
      BY <1>2, <2>1 DEF evaluate
  <1>3. ASSUME NEW p \in Process, Proceed(p) PROVE TypeOK'
    <2>1. CASE LockBusy(p)
      BY <2>1 DEF LockBusy
    <2>2. CASE LockAcquired(p)
      BY <2>2 DEF LockAcquired
    <2>3. CASE TruncateState(p)
      BY <2>3 DEF TruncateState
    <2>4. CASE WriteState(p)
      BY <2>4 DEF WriteState
    <2>5. CASE AuditAttempt(p)
      <3>1. open = 0
        BY <2>5 DEF AuditAttempt, HolderAudit
      <3> QED
        BY <2>5, <3>1 DEF AuditAttempt
    <2>6. CASE complete(p)
      <3>1. open = 1
        BY <2>6 DEF complete, HolderAudit
      <3> QED
        BY <2>6, <3>1 DEF complete
    <2>7. CASE RemoveLock(p)
      BY <2>7 DEF RemoveLock
    <2>8. CASE main(p)
      BY <2>8 DEF main
    <2> QED
      BY <1>3, <2>1, <2>2, <2>3, <2>4, <2>5, <2>6, <2>7, <2>8 DEF Proceed
  <1>4. ASSUME NEW p \in Process, Crash(p) PROVE TypeOK'
    BY <1>4 DEF Crash
  <1>5. CASE UNCHANGED vars
    BY <1>5 DEF vars
  <1> QED
    BY <1>1, <1>2, <1>3, <1>4, <1>5 DEF Next

\* Only mkdir makes a holder, and it fails while the directory exists; the
\* holder alone removes the directory.
LEMMA OneRecoveryStep ==
    ASSUME RecoveryInv, [Next]_vars
    PROVE  OneRecovery'
  <1> USE RecoveryAssumption DEF RecoveryInv, TypeOK, OneRecovery, Holding, Goto
  <1>1. CASE Tick
    BY <1>1 DEF Tick
  <1>2. ASSUME NEW p \in Process, evaluate(p) PROVE OneRecovery'
    BY <1>2 DEF evaluate
  <1>3. ASSUME NEW p \in Process, Proceed(p) PROVE OneRecovery'
    <2>1. CASE LockBusy(p)
      BY <2>1 DEF LockBusy
    <2>2. CASE LockAcquired(p)
      BY <2>2 DEF LockAcquired
    <2>3. CASE TruncateState(p)
      BY <2>3 DEF TruncateState
    <2>4. CASE WriteState(p)
      BY <2>4 DEF WriteState
    <2>5. CASE AuditAttempt(p)
      BY <2>5 DEF AuditAttempt
    <2>6. CASE complete(p)
      BY <2>6 DEF complete
    <2>7. CASE RemoveLock(p)
      BY <2>7 DEF RemoveLock
    <2>8. CASE main(p)
      BY <2>8 DEF main
    <2> QED
      BY <1>3, <2>1, <2>2, <2>3, <2>4, <2>5, <2>6, <2>7, <2>8 DEF Proceed
  <1>4. ASSUME NEW p \in Process, Crash(p) PROVE OneRecovery'
    BY <1>4 DEF Crash
  <1>5. CASE UNCHANGED vars
    BY <1>5 DEF vars
  <1> QED
    BY <1>1, <1>2, <1>3, <1>4, <1>5 DEF Next

\* The audit file is open exactly while the holder works: a record is appended
\* only by the holder, and a death leaves the directory behind.
LEMMA AuditStep ==
    ASSUME RecoveryInv, [Next]_vars
    PROVE  (HolderAudit /\ FreeGateIsAudited)'
  <1> USE RecoveryAssumption DEF RecoveryInv, TypeOK, OneRecovery, HolderAudit,
          FreeGateIsAudited, Holding, Goto
  <1>1. CASE Tick
    BY <1>1 DEF Tick
  <1>2. ASSUME NEW p \in Process, evaluate(p)
        PROVE  (HolderAudit /\ FreeGateIsAudited)'
    BY <1>2 DEF evaluate
  <1>3. ASSUME NEW p \in Process, Proceed(p)
        PROVE  (HolderAudit /\ FreeGateIsAudited)'
    <2>1. CASE LockBusy(p)
      BY <2>1 DEF LockBusy
    <2>2. CASE LockAcquired(p)
      BY <2>2 DEF LockAcquired
    <2>3. CASE TruncateState(p)
      BY <2>3 DEF TruncateState
    <2>4. CASE WriteState(p)
      BY <2>4 DEF WriteState
    <2>5. CASE AuditAttempt(p)
      BY <2>5 DEF AuditAttempt
    <2>6. CASE complete(p)
      BY <2>6 DEF complete
    <2>7. CASE RemoveLock(p)
      BY <2>7 DEF RemoveLock
    <2>8. CASE main(p)
      BY <2>8 DEF main
    <2> QED
      BY <1>3, <2>1, <2>2, <2>3, <2>4, <2>5, <2>6, <2>7, <2>8 DEF Proceed
  <1>4. ASSUME NEW p \in Process, Crash(p)
        PROVE  (HolderAudit /\ FreeGateIsAudited)'
    BY <1>4 DEF Crash
  <1>5. CASE UNCHANGED vars
    BY <1>5 DEF vars
  <1> QED
    BY <1>1, <1>2, <1>3, <1>4, <1>5 DEF Next

\* RecoveryInv holds in every state of evaluate, complete and main, whatever
\* the processes do and whenever they die.
THEOREM RecoveryInvariant == Spec => []RecoveryInv
  <1>1. Init => RecoveryInv
    BY RecoveryInit
  <1>2. RecoveryInv /\ [Next]_vars => RecoveryInv'
    BY TypeStep, OneRecoveryStep, AuditStep DEF RecoveryInv
  <1> QED
    BY <1>1, <1>2, PTL DEF Spec

\* evaluate admits one recovery at a time.
THEOREM RecoveriesExclude == Spec => []OneRecovery
  <1>1. RecoveryInv => OneRecovery
    BY DEF RecoveryInv
  <1> QED
    BY <1>1, RecoveryInvariant, PTL

\* Whenever evaluate can take the lock, every attempt has been completed in the
\* audit file.
THEOREM FreeGateHasClosedAudit == Spec => []FreeGateIsAudited
  <1>1. RecoveryInv => FreeGateIsAudited
    BY DEF RecoveryInv
  <1> QED
    BY <1>1, RecoveryInvariant, PTL
-----------------------------------------------------------------------------
(* The gate fed by the monitor.                                            *)

\* Every step of the composition is a step of the gate or leaves it alone, so
\* evaluate, complete and the rest behave as they do without a monitor.
THEOREM WatchImplementsGate == WatchSpec => Spec
  <1>1. WatchInit => Init
    BY DEF WatchInit
  <1>2. [WatchNext]_watchVars => [Next]_vars
    <2> SUFFICES ASSUME [WatchNext]_watchVars PROVE [Next]_vars
      OBVIOUS
    <2>1. ASSUME NEW p \in Process, EvaluateEvidence(p) PROVE Next
      BY <2>1 DEF EvaluateEvidence, Next
    <2>2. CASE GateStep
      BY <2>2 DEF GateStep, Next
    <2>3. CASE MonitorNext /\ UNCHANGED <<vars, basis>>
      BY <2>3
    <2>4. CASE UNCHANGED watchVars
      BY <2>4 DEF watchVars
    <2> QED
      BY <2>1, <2>2, <2>3, <2>4 DEF WatchNext
  <1> QED
    BY <1>1, <1>2, PTL DEF WatchSpec, Spec

\* One recovery at a time, also when the evidence changes under the processes
\* that evaluate it.
THEOREM WatchedRecoveriesExclude == WatchSpec => []OneRecovery
  BY WatchImplementsGate, RecoveriesExclude, PTL

-----------------------------------------------------------------------------
(* The monitor.                                                            *)

\* The places of a snapshot, as numbers.
LEMMA Places ==
    /\ DOMAIN Order = 1..7 /\ Collected = 8 /\ Opened = 9 /\ Written = 10
    /\ Order[1] = "public_liveness" /\ Order[2] = "private_readiness" /\ Order[3] = "run_status"
    /\ Order[4] = "local_files" /\ Order[5] = "newest_report" /\ Order[6] = "full_success_run"
    /\ Order[7] = "ledger"
  BY DEF Order, Collected, Opened, Written

\* A check adds tags, and the checks that can fail do so on each of their faults.
LEMMA CheckNotes ==
    /\ \A i \in 1..7 : Check(Order[i]) \subseteq Tag
    /\ \A i \in 1..4 : faults \cap Failing[i] # {} => "failure" \in Check(Order[i])
    /\ "reports_stale" \in faults => "old_reports" \in Check(Order[5])
    /\ "old_reports" \in notes => Check(Order[7]) \cap {"failure", "degraded", "published"} # {}
    /\ "old_reports" \notin Check(Order[7])
  <1>1. Check(Order[1]) \subseteq Tag /\ (faults \cap Failing[1] # {} => "failure" \in Check(Order[1]))
    BY Places DEF Check, Endpoint, Raised, Failing, Tag, State
  <1>2. Check(Order[2]) \subseteq Tag /\ (faults \cap Failing[2] # {} => "failure" \in Check(Order[2]))
    BY Places DEF Check, Endpoint, Raised, Failing, Tag, State
  <1>3. Check(Order[3]) \subseteq Tag /\ (faults \cap Failing[3] # {} => "failure" \in Check(Order[3]))
    BY Places DEF Check, RunStatus, Raised, Failing, Tag, State
  <1>4. Check(Order[4]) \subseteq Tag /\ (faults \cap Failing[4] # {} => "failure" \in Check(Order[4]))
    BY Places DEF Check, Heartbeat, Backup, Disk, Certificate, Raised, Failing, Tag, State
  <1>5. Check(Order[5]) \subseteq Tag /\ ("reports_stale" \in faults => "old_reports" \in Check(Order[5]))
    BY Places DEF Check, Tag
  <1>6. Check(Order[6]) \subseteq Tag
    BY Places DEF Check, Tag
  <1>7. /\ Check(Order[7]) \subseteq Tag /\ "old_reports" \notin Check(Order[7])
        /\ "old_reports" \in notes => Check(Order[7]) \cap {"failure", "degraded", "published"} # {}
    BY Places DEF Check, Publication, Tag, State
  <1> QED
    BY <1>1, <1>2, <1>3, <1>4, <1>5, <1>6, <1>7

\* What the parts about a snapshot under way say when it is complete.
LEMMA LastingIsSeen == MonitorTypeOK /\ LastingNoted => PersistentFaultSeen
  <1> SUFFICES ASSUME MonitorTypeOK, LastingNoted, step = Collected, Verdict(notes) = "healthy",
                      NEW f \in steady \ {"ledger_blocked", "ledger_published"}
               PROVE  f = "reports_stale" /\ notes \cap {"degraded", "published"} # {}
    BY DEF PersistentFaultSeen
  <1>1. "failure" \notin notes /\ step = 8
    BY Places DEF Verdict
  <1>2. \A i \in 1..4 : f \notin Failing[i]
    BY <1>1 DEF LastingNoted
  <1>3. f \in KnownFault
    BY MonitorAssumption DEF MonitorTypeOK
  <1>4. f = "reports_stale"
    BY <1>2, <1>3 DEF Failing, KnownFault
  <1> QED
    BY <1>1, <1>4, Places DEF LastingNoted

\* Every step of the composition preserves what a snapshot under way knows.
LEMMA MonitorStep == MonitorInv /\ [WatchNext]_watchVars => MonitorInv'
  <1> SUFFICES ASSUME MonitorInv, [WatchNext]_watchVars PROVE MonitorInv'
    OBVIOUS
  <1> USE Places
  <1>1. MonitorTypeOK /\ EvidenceIsWhole /\ LastingNoted /\ WrittenIsWhole
    BY DEF MonitorInv
  <1>2. NoFile \in File /\ Partial \in File /\ \A n \in SUBSET Tag : Whole(n) \in File
    BY DEF File
  <1>3. /\ changes \in 0..MaxChanges /\ restarts \in 0..MaxRestarts /\ step \in 0..10
        /\ MaxChanges \in Nat /\ MaxRestarts \in Nat
    BY <1>1, MonitorAssumption DEF MonitorTypeOK
  <1> DEFINE Good == MonitorTypeOK /\ EvidenceIsWhole /\ LastingNoted /\ WrittenIsWhole
  <1> SUFFICES Good'
    <2>1. ASSUME Good' PROVE PersistentFaultSeen'
      BY <2>1, LastingIsSeen, PTL
    <2> QED
      BY <2>1 DEF MonitorInv
  <1>4. CASE UNCHANGED monitorVars
    BY <1>1, <1>4 DEF monitorVars, MonitorTypeOK, EvidenceIsWhole, LastingNoted, WrittenIsWhole
  <1>5. CASE collect_snapshot
    <2>1. MonitorTypeOK'
      BY <1>1, <1>5 DEF collect_snapshot, MonitorTypeOK
    <2> QED
      BY <1>1, <1>5, <2>1 DEF collect_snapshot, EvidenceIsWhole, LastingNoted, WrittenIsWhole
  <1>6. CASE RunCheck
    <2>1. step \in 1..7 /\ step' = step + 1 /\ notes' = notes \cup Check(Order[step])
          /\ UNCHANGED <<faults, changes, restarts, steady, scratch, evidence>>
      BY <1>6 DEF RunCheck
    <2>2. MonitorTypeOK'
      BY <1>1, <2>1, CheckNotes DEF MonitorTypeOK
    <2>3. steady' \subseteq faults'
      BY <1>1, <2>1 DEF LastingNoted
    <2>4. ASSUME NEW i \in 1..4, i < step', steady' \cap Failing[i] # {} PROVE "failure" \in notes'
      <3>1. CASE i < step
        BY <1>1, <2>1, <2>4, <3>1 DEF LastingNoted
      <3>2. CASE i = step
        BY <2>1, <2>3, <2>4, <3>2, CheckNotes
      <3> QED
        BY <2>1, <2>4, <3>1, <3>2
    <2>5. step' \in 6..8 /\ "reports_stale" \in steady' => "old_reports" \in notes'
      <3>1. CASE step = 5
        BY <2>1, <2>3, <3>1, CheckNotes
      <3>2. CASE step # 5
        BY <1>1, <2>1, <3>2 DEF LastingNoted
      <3> QED
        BY <3>1, <3>2
    <2>6. step' = 8 /\ "old_reports" \in notes' => notes' \cap {"failure", "degraded", "published"} # {}
      <3> SUFFICES ASSUME step' = 8, "old_reports" \in notes'
                   PROVE  notes' \cap {"failure", "degraded", "published"} # {}
        OBVIOUS
      <3>1. step = 7
        BY <2>1
      <3>2. "old_reports" \in notes
        BY <2>1, <3>1, CheckNotes
      <3> QED
        BY <2>1, <3>1, <3>2, CheckNotes
    <2>7. EvidenceIsWhole' /\ WrittenIsWhole'
      BY <1>1, <2>1 DEF EvidenceIsWhole, WrittenIsWhole
    <2> QED
      BY <2>2, <2>3, <2>4, <2>5, <2>6, <2>7 DEF LastingNoted
  <1>7. CASE OpenScratch
    <2>1. MonitorTypeOK'
      BY <1>1, <1>2, <1>7 DEF OpenScratch, MonitorTypeOK
    <2> QED
      BY <1>1, <1>7, <2>1 DEF OpenScratch, EvidenceIsWhole, LastingNoted, WrittenIsWhole
  <1>8. CASE WriteScratch
    <2>1. MonitorTypeOK'
      BY <1>1, <1>2, <1>8 DEF WriteScratch, MonitorTypeOK
    <2>2. scratch'.kind = "whole"
      BY <1>8 DEF WriteScratch, Whole
    <2> QED
      BY <1>1, <1>8, <2>1, <2>2 DEF WriteScratch, EvidenceIsWhole, LastingNoted, WrittenIsWhole
  <1>9. CASE ReplaceEvidence
    <2>1. MonitorTypeOK'
      BY <1>1, <1>2, <1>9 DEF ReplaceEvidence, MonitorTypeOK
    <2> QED
      BY <1>1, <1>9, <2>1 DEF ReplaceEvidence, EvidenceIsWhole, LastingNoted, WrittenIsWhole
  <1>10. CASE Interrupted
    <2>1. MonitorTypeOK'
      BY <1>1, <1>3, <1>10 DEF Interrupted, MonitorTypeOK
    <2> QED
      BY <1>1, <1>10, <2>1 DEF Interrupted, EvidenceIsWhole, LastingNoted, WrittenIsWhole
  <1>11. CASE SystemChanges
    <2>1. PICK f \in Fault : faults' = IF f \in faults THEN faults \ {f} ELSE faults \cup {f}
      BY <1>11 DEF SystemChanges
    <2>2. /\ changes < MaxChanges /\ changes' = changes + 1 /\ steady' = steady \cap faults'
          /\ UNCHANGED <<restarts, step, notes, scratch, evidence>>
      BY <1>11 DEF SystemChanges
    <2>3. MonitorTypeOK'
      <3>1. faults' \subseteq Fault /\ steady' \subseteq Fault /\ changes' \in 0..MaxChanges
        BY <1>1, <1>3, <2>1, <2>2 DEF MonitorTypeOK
      <3> QED
        BY <1>1, <2>2, <3>1 DEF MonitorTypeOK
    <2>4. LastingNoted'
      BY <1>1, <2>2 DEF LastingNoted
    <2> QED
      BY <1>1, <2>2, <2>3, <2>4 DEF EvidenceIsWhole, WrittenIsWhole
  <1> QED
    BY <1>4, <1>5, <1>6, <1>7, <1>8, <1>9, <1>10, <1>11
    DEF WatchNext, EvaluateEvidence, GateStep, MonitorNext, MonitorLoop, watchVars

\* A fault that lasts from the first check of a snapshot to the last one is in its
\* verdict, whichever faults come and go between the checks; and _persist_snapshot
\* never leaves the evidence file empty or half written, whatever interrupts it.
THEOREM MonitorInvariant == WatchSpec => []MonitorInv
  <1>1. WatchInit => MonitorInv
    <2> SUFFICES ASSUME WatchInit PROVE MonitorInv
      OBVIOUS
    <2>1. MonitorTypeOK
      BY MonitorAssumption, Places DEF WatchInit, MonitorInit, MonitorTypeOK, Few, File
    <2>2. EvidenceIsWhole /\ WrittenIsWhole /\ LastingNoted
      BY Places DEF WatchInit, MonitorInit, EvidenceIsWhole, WrittenIsWhole, LastingNoted, NoFile
    <2> QED
      BY <2>1, <2>2, LastingIsSeen DEF MonitorInv
  <1> QED
    BY <1>1, MonitorStep, PTL DEF WatchSpec

\* The evidence file is never seen empty or half written: _persist_snapshot
\* fills the temporary file before replace puts it in place.
THEOREM EvidenceStaysWhole == WatchSpec => []EvidenceIsWhole
  <1>1. MonitorInv => EvidenceIsWhole
    BY DEF MonitorInv
  <1> QED
    BY <1>1, MonitorInvariant, PTL

-----------------------------------------------------------------------------
\* A snapshot whose state is in ACTIONABLE_STATES has a failure, every endpoint
\* answered in it, and stale data alone did not make it.
LEMMA ActionableEvidence ==
    ASSUME ReadEvidence \in ACTIONABLE_STATES
    PROVE  /\ "failure" \in evidence.notes /\ "unknown" \notin evidence.notes
           /\ "actionable_failure" \in evidence.notes \/ "stale_data" \notin evidence.notes
  BY DEF ReadEvidence, Verdict, ACTIONABLE_STATES

\* Nobody is past the evaluation of the gate without evidence that warrants a
\* recovery: evaluate reads the file once, and the process keeps what it read.
THEOREM RecoveriesAreWarranted == WatchSpec => []RecoveryIsWarranted
  <1> DEFINE HasBasis == DOMAIN basis = Process
  <1> DEFINE Inv == RecoveryIsWarranted /\ HasBasis
  <1>1. WatchInit => Inv
    BY DEF WatchInit, Init, RecoveryIsWarranted
  <1>2. TypeOK /\ Inv /\ [WatchNext]_watchVars => Inv'
    <2> SUFFICES ASSUME TypeOK, Inv, [WatchNext]_watchVars PROVE Inv'
      OBVIOUS
    <2>0. pc \in [Process -> {"idle", "checked"} \cup Holding]
      BY DEF TypeOK
    <2>1. ASSUME NEW p \in Process, EvaluateEvidence(p) PROVE Inv'
      <3>1. ReadEvidence \in ACTIONABLE_STATES
        BY <2>1 DEF EvaluateEvidence
      <3>2. basis' = [basis EXCEPT ![p] = evidence.notes]
        BY <2>1 DEF EvaluateEvidence
      <3>3. \A q \in Process : q # p => pc'[q] = pc[q]
        BY <2>0, <2>1 DEF EvaluateEvidence, evaluate, Goto
      <3>4. \A q \in Process \ {p} : basis'[q] = basis[q]
        BY <3>2
      <3>5. basis'[p] = evidence.notes
        BY <3>2
      <3> QED
        BY <3>1, <3>2, <3>3, <3>4, <3>5, ActionableEvidence DEF RecoveryIsWarranted
    <2>2. CASE GateStep
      <3>1. basis' = [p \in Process |-> IF pc'[p] = "idle" THEN {} ELSE basis[p]]
        BY <2>2 DEF GateStep
      <3>2. \A q \in Process : pc'[q] # "idle" => pc[q] # "idle"
        <4>1. CASE Tick
          BY <4>1 DEF Tick
        <4>2. ASSUME NEW p \in Process, Proceed(p) \/ Crash(p)
              PROVE  \A q \in Process : pc'[q] # "idle" => pc[q] # "idle"
          <5>1. pc[p] # "idle"
            BY <4>2 DEF Proceed, Crash, LockBusy, LockAcquired, TruncateState, WriteState,
                        AuditAttempt, complete, RemoveLock, main
          <5>2. \E s : pc' = [pc EXCEPT ![p] = s]
            BY <4>2 DEF Proceed, Crash, LockBusy, LockAcquired, TruncateState, WriteState,
                        AuditAttempt, complete, RemoveLock, main, Goto
          <5> QED
            BY <2>0, <5>1, <5>2
        <4> QED
          BY <2>2, <4>1, <4>2 DEF GateStep
      <3> QED
        BY <3>1, <3>2 DEF RecoveryIsWarranted
    <2>3. CASE UNCHANGED <<vars, basis>>
      BY <2>3 DEF RecoveryIsWarranted, vars
    <2>4. CASE UNCHANGED watchVars
      BY <2>4 DEF RecoveryIsWarranted, watchVars, vars
    <2> QED
      BY <2>1, <2>2, <2>3, <2>4 DEF WatchNext
  <1>3. RecoveryInv => TypeOK
    BY DEF RecoveryInv
  <1> QED
    BY <1>1, <1>2, <1>3, WatchImplementsGate, RecoveryInvariant, PTL DEF WatchSpec
=============================================================================

---------------------------- MODULE RecoveryGate ----------------------------
(***************************************************************************)
(* The evidence gate of the recovery jobs (scripts/recovery_gate.py): a    *)
(* lock directory, a state file with the time of the last attempt and an   *)
(* audit file, shared by processes that evaluate the gate, recover and     *)
(* complete. Nothing but the directory is atomic: the cooldown is read     *)
(* before the lock is taken, and the state file is truncated before it is  *)
(* written.                                                                *)
(***************************************************************************)
EXTENDS Naturals

CONSTANTS
    Caller,      \* processes that use the class: evaluate, work, complete
    Script,      \* processes that run main(): evaluate and exit
    Cooldown,
    MaxClock     \* bound: the clock stops here

Process == Caller \cup Script

ASSUME RecoveryAssumption ==
    /\ Caller \cap Script = {}
    /\ Cooldown \in Nat /\ MaxClock \in Nat \ {0}

VARIABLES
    clock,
    locked,    \* recovery.lock exists
    state,     \* last_attempt_at of recovery-state.json; 0: missing or unreadable
    open,      \* audit: "attempted" records without a "completed" one
    pc, now,   \* per process: where it is, the now its gate was built with
    orphaned   \* history: a holder died or exited without complete

vars == <<clock, locked, state, open, pc, now, orphaned>>

\* The steps between mkdir and rmdir.
Holding == {"locked", "truncated", "written", "working", "releasing"}

TypeOK ==
    /\ clock \in 1..MaxClock /\ locked \in BOOLEAN /\ orphaned \in BOOLEAN
    /\ state \in 0..MaxClock
    /\ open \in 0..1
    /\ pc \in [Process -> {"idle", "checked"} \cup Holding]
    /\ now \in [Process -> 0..MaxClock]

Init ==
    /\ clock = 1 /\ locked = FALSE /\ state = 0 /\ open = 0
    /\ orphaned = FALSE
    /\ pc = [p \in Process |-> "idle"]
    /\ now = [p \in Process |-> 0]

Goto(p, step) == pc' = [pc EXCEPT ![p] = step]

-----------------------------------------------------------------------------
\* The cooldown has passed for a gate built at t; a state file that cannot be
\* read counts as no attempt.
Elapsed(t) == state = 0 \/ t >= state + Cooldown

\* The times a process may ask for: it builds a new gate, or a caller uses the
\* one of its previous evaluation again.
GateTime(p) == {clock} \cup IF p \in Caller THEN {now[p]} \ {0} ELSE {}

\* evaluate, up to the cooldown check, with actionable evidence. Any other
\* evidence and a running cooldown only add a "suppressed" record.
evaluate(p) ==
    /\ pc[p] = "idle"
    /\ \E t \in GateTime(p) :
          /\ Elapsed(t)
          /\ now' = [now EXCEPT ![p] = t]
    /\ Goto(p, "checked")
    /\ UNCHANGED <<clock, locked, state, open, orphaned>>

LockBusy(p) ==
    /\ pc[p] = "checked" /\ locked
    /\ Goto(p, "idle")
    /\ UNCHANGED <<clock, locked, state, open, now, orphaned>>

\* Mutant: an existing directory is accepted.
LockAcquired_Existing(p) ==
    /\ pc[p] = "checked"
    /\ locked' = TRUE
    /\ Goto(p, "locked")
    /\ UNCHANGED <<clock, state, open, now, orphaned>>

LockAcquired(p) ==
    /\ pc[p] = "checked" /\ ~locked
    /\ locked' = TRUE
    /\ Goto(p, "locked")
    /\ UNCHANGED <<clock, state, open, now, orphaned>>

\* write_text opens the file, which empties it, and then writes.
TruncateState(p) ==
    /\ pc[p] = "locked"
    /\ state' = 0
    /\ Goto(p, "truncated")
    /\ UNCHANGED <<clock, locked, open, now, orphaned>>

WriteState(p) ==
    /\ pc[p] = "truncated"
    /\ state' = now[p]
    /\ Goto(p, "written")
    /\ UNCHANGED <<clock, locked, open, now, orphaned>>

\* The "attempted" record; the decision is allowed.
AuditAttempt(p) ==
    /\ pc[p] = "written"
    /\ open' = open + 1
    /\ Goto(p, "working")
    /\ UNCHANGED <<clock, locked, state, now, orphaned>>

\* The "completed" record, then rmdir.
complete(p) ==
    /\ p \in Caller /\ pc[p] = "working"
    /\ open' = open - 1
    /\ Goto(p, "releasing")
    /\ UNCHANGED <<clock, locked, state, now, orphaned>>

\* Mutant: the directory stays.
RemoveLock_Never(p) ==
    /\ pc[p] = "releasing"
    /\ Goto(p, "idle")
    /\ UNCHANGED <<clock, locked, state, open, now, orphaned>>

RemoveLock(p) ==
    /\ pc[p] = "releasing"
    /\ locked' = FALSE
    /\ Goto(p, "idle")
    /\ UNCHANGED <<clock, state, open, now, orphaned>>

\* main prints the decision and exits. The event id complete asks for is gone
\* with the process.
main(p) ==
    /\ p \in Script /\ pc[p] = "working"
    /\ Goto(p, "idle")
    /\ now' = [now EXCEPT ![p] = 0]
    /\ orphaned' = TRUE
    /\ UNCHANGED <<clock, locked, state, open>>

Crash(p) ==
    /\ pc[p] # "idle"
    /\ Goto(p, "idle")
    /\ now' = [now EXCEPT ![p] = 0]
    /\ orphaned' = (orphaned \/ pc[p] \in Holding)
    /\ UNCHANGED <<clock, locked, state, open>>

Tick ==
    /\ clock < MaxClock
    /\ clock' = clock + 1
    /\ UNCHANGED <<locked, state, open, pc, now, orphaned>>

\* What a process does by itself once it has begun.
Proceed(p) ==
    \/ LockBusy(p) \/ LockAcquired(p) \/ TruncateState(p) \/ WriteState(p)
    \/ AuditAttempt(p) \/ complete(p) \/ RemoveLock(p) \/ main(p)

Next == Tick \/ \E p \in Process : evaluate(p) \/ Proceed(p) \/ Crash(p)

Spec == Init /\ [][Next]_vars

(* Fairness: a process that has begun goes on, and a caller completes, as the *)
(* script asks of it. Nobody has to evaluate, die or let time pass.           *)
LiveSpec == Spec /\ \A p \in Process : WF_vars(Proceed(p))

-----------------------------------------------------------------------------
(* Properties.                                                             *)

\* At most one process is between evaluate's mkdir and complete's rmdir, and
\* none while the directory is missing: one recovery at a time.
OneRecovery ==
    \A p, q \in Process : pc[p] \in Holding /\ pc[q] \in Holding => p = q /\ locked

\* While the gate is free, every attempted recovery has its completed record:
\* an incident that is still open in the audit file keeps the gate closed.
FreeGateIsAudited == ~locked => open = 0

\* What each step of the holder knows of the audit file: with OneRecovery it is
\* what makes FreeGateIsAudited inductive.
HolderAudit ==
    \A p \in Process :
        /\ pc[p] = "working" => open = 1
        /\ pc[p] \in Holding \ {"working"} => open = 0

\* The inductive invariant of the proofs.
RecoveryInv == TypeOK /\ OneRecovery /\ HolderAudit /\ FreeGateIsAudited

\* A gate that was acquired is free again at some time, unless a holder ended
\* without complete: the directory has no owner and no expiry.
GateReopens == locked ~> ~locked \/ orphaned
=============================================================================

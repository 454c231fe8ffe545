SPECIFICATION WatchLiveSpec
CONSTANTS
    p1 = p1
    p2 = p2
    m1 = m1
    Caller = {p1}
    Script = {m1}
    Cooldown = 1
    MaxClock = 2
    Fault = {"live_unreachable", "attempt_failed", "heartbeat_stale",
             "cert_expiring", "reports_stale", "ledger_blocked"}
    MaxFaults = 2
    MaxChanges = 1
    MaxRestarts = 1
INVARIANTS
    RecoveryInv
    
    RecoveryIsWarranted
PROPERTIES
    
    FailureIsReported
\* A dead holder or the script leaves the gate closed for good.
CHECK_DEADLOCK FALSE

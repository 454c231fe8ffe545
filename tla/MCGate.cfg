SPECIFICATION ProviderSpec
CONSTANTS
    c1 = c1
    c2 = c2
    Cve = {c1, c2}
    RetryAfter = {2}
    RetryDate = {1}
    MaxRetries = 1
    Backoff <- MCBackoff
    MaxDelay = 2
    DefaultCooldown = 6
    MinInterval = 2
    Ttl = 2
    StaleFor = 2
    MaxLag = 1
    MaxFailures = 2
    MaxClock = 9
INVARIANTS
    GateInv
PROPERTIES
    CooldownNearlyRespected
\* The clock stops at MaxClock, the requests at MaxFailures.
CHECK_DEADLOCK FALSE

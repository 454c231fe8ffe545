SPECIFICATION LiveSpec
CONSTANTS
    a = a
    b = b
    c0 = c0
    c1 = c1
    s1 = s1
    k1 = k1
    t1 = t1
    NoWorker = NoWorker
    NoContent = NoContent
    Empty = {c0}
    Scheduler = {s1}
    Cli = {}
    Trigger = {t1}
    Source = {a, b}
    Disabled = {b}
    Content = {c0, c1}
    Bearing = {c1}
    Initial = c0
    MaxDay = 2
    MaxFailures = 1
    Faults = {"persist", "enrich"}
INVARIANTS
    TriggerReportIsDurable
PROPERTIES
    LockReleased
    TriggerSettles
    ScheduledDayPersisted

SPECIFICATION Spec
CONSTANTS
    a = a
    b = b
    c0 = c0
    c1 = c1
    s1 = s1
    k1 = k1
    t1 = t1
    NoWorker = NoWorker
    NoContent = NoContent
    Empty = {}
    Scheduler = {s1}
    Cli = {k1}
    Trigger = {}
    Source = {a}
    Disabled = {}
    Content = {c0, c1}
    Bearing = {c1}
    Initial = c0
    MaxDay = 1
    MaxFailures = 1
    Faults = {"conn", "persist", "enrich", "crash"}
INVARIANTS
    PipelineInv
    
PROPERTIES
    ImplementsLedger

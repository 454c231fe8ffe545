CONSTANTS
    r1 = r1
    r2 = r2
    r3 = r3
    c1 = c1
    c2 = c2
    a = a
    b = b
    None = None
    Report = {r1, r2, r3}
    Content = {c1, c2}
    Cve = {1, 2}
    CvePage = 1
    Query <- MCQuery
    Entity = {a, b}
    Hidden = {b}
    Severity <- MCSeverity
    Finding <- MCFinding
    Mentions <- MCMentions
    Relation <- MCRelation
    PageSize = 2
    Limit = 2
    MaxWrites = 4
SPECIFICATION Spec
INVARIANTS
    
    WorstKept
    
CHECK_DEADLOCK FALSE

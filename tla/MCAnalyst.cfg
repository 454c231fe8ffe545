SPECIFICATION Spec
CONSTANTS
    None = None
    Analyst = {"x", "y", "z"}
    MaxVersions = 2
    Named <- MCNamed
    MaxSeq = 2
    Run = {"r", "s"}
    Event = {"e", "f"}
    Known = {"r"}
    Request <- MCRequest
    Entry = {1, 2, 3, 4, 6}
    Kind <- MCKind
    Ends <- MCEnds
    Query <- MCQuery
    Writes <- MCWrites
    Writer = {"v", "w"}
    Limit = 1
    Scenes <- MCScenes
    MaxClock = 3
INVARIANTS
    PagesInv
    DeskInv
PROPERTIES
    WalkEnds
CHECK_DEADLOCK FALSE

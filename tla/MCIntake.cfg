CONSTANTS
    s1 = s1
    s2 = s2
    c1 = c1
    c2 = c2
    None = None
    Source = {s1, s2}
    Config = {c1, c2}
    Enabled = {c1}
    Settings <- MCSettings
    Registry <- MCRegistry
    Body <- MCBody
    Offers <- MCOffers
    Layout <- MCLayout
    Entries <- MCEntries
    Landing <- MCLanding
    Label = {"x", "y"}
    Text <- MCText
    TooLong = {"long"}
    Matches <- MCMatches
    Normal <- MCNormal
    Suppressed = {"i"}
    MaxRetries = 1
    MaxConcurrency = 1
SPECIFICATION Spec
INVARIANTS
    IntakeInv
    
    RememberedIsStored
    ObservationsOfText
PROPERTIES
    RunEnds
CHECK_DEADLOCK FALSE

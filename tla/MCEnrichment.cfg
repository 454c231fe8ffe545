CONSTANTS
    Cve = {"c1", "c2"}
    Providers <- MCProviders
    Fields <- MCFields
    Payload = {1, 2}
    Content <- MCContent
    Claims <- MCClaims
    Selected <- MCSelected
    Cap = 2
    Ttl = 2
    StaleFor = 1
    MaxClock = 3
    None = None
SPECIFICATION Spec
INVARIANTS
    StageInv
    NoSilentShortfall
PROPERTIES
    RefinesHistory
    StageEnds
CHECK_DEADLOCK FALSE

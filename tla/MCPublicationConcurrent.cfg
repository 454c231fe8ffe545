SPECIFICATION ArtifactSpec
CONSTANTS
    r1 = r1
    v1 = v1
    v2 = v2
    v3 = v3
    good = good
    rough = rough
    x = x
    y = y
    NoVersion = NoVersion
    Report = {r1}
    Version = {v1, v2, v3}
    ReportOf <- OneReport
    Content = {good, rough}
    Supported <- Accepts
    Client = {x, y}
    MaxClock = 3
    Evidence = {1, 2}
    Document = {1}
    DocumentOf <- OneDocument
    BundleOf <- Bundles
INVARIANTS
    PublicationInv
    TextHasItsRows
    ApprovedIsBacked
PROPERTIES
    
    RepeatAddsNothing

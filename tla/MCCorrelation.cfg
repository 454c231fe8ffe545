SPECIFICATION Spec
CONSTANTS
    None = None
    Entity <- Entities
    Subject = {"a"}
    Versions <- MCVersions
    ExactRule <- Rules
    Lead <- Leads
    Base <- MCBase
    Window = 2
    Worker = {w1, w2}
    Submission <- MCSubmission
    Tracks <- MCTracks
    EpssDelta = 10
    CvssDelta = 10
INVARIANTS
    CorrelationInv
    AttributionHasEvidence
    KevNeverMissed
PROPERTIES
    RepeatChangesNothing
CHECK_DEADLOCK FALSE

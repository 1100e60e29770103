SPECIFICATION MCSpec
CONSTANTS
    Worsening = 2
    Recovery = 3
    IncidentPersistence = 2
    IncidentRecovery = 3
    Minutes <- MCMinutes
    MaxMinutes = 6
    None = None
    clipA = clipA
    clipB = clipB
    idA = idA
    idB = idB
INVARIANTS
    MovesAreEarned
    EvidenceMoves
    EpisodesExact
    ContinuityHolds
    MinutesDecideAlike
    SpeedsAreMeasured
    TrainingIsFair
    ProductionIsEarned
    FeedbackIsResolved
CHECK_DEADLOCK FALSE

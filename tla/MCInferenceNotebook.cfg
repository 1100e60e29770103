SPECIFICATION Spec
CONSTANTS
    pilot = pilot
    candidate = candidate
    Models = {pilot, candidate}
    Candidates = {candidate}
    Configs <- MCConfigs
    MaxRuns = 2
    MaxAttempts = 2
    MaxSessions = 2
    MaxPackages = 1
    Null = Null
INVARIANTS
    ReviewsAreTraceable
    AuditsAreTrue

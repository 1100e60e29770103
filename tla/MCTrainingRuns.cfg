SPECIFICATION Spec
CONSTANTS
    ana = ana
    ben = ben
    workspaceA = workspaceA
    workspaceB = workspaceB
    drive = drive
    Nobody = Nobody
    Publishers = {ana, ben}
    Directories = {workspaceA, workspaceB, drive}
    Drive = drive
    WorkspaceOf <- MCWorkspaceOf
    States <- MCStates
    TestPercent = 20
    ValidationPercent = 20
    Shuffled <- MCShuffled
    Reviews <- MCReviews
    Configs <- MCConfigs
    MaxRuns = 3
    MaxTroubles = 1
INVARIANTS
    BundlesAreSafe
    ComparisonsAreFair
    RolesAreKept
    DriveIsAudited
SYMMETRY Alike
CONSTRAINT Bounded
CHECK_DEADLOCK FALSE

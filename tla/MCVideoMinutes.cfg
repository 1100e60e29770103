SPECIFICATION VideoSpec
CONSTANTS
    MaxDistance = 5
    MaxLost = 1
    HistoryLen = 3
    MinTrackLength = 2
    NoiseFloor = 1
    SlowestSpeed = 1
    FastestSpeed = 5
    StationaryMax = 1
    NearZeroMax = 2
    EntryFrames = 2
    ExitFrames = 2
    ExitSpeed = 1
    RateFrames = 7
    RateMinutes = 3
    FramesPerMinute = 2
    MaxFrames = 6
    Kinds = {"car", "bus"}
    Profiles = {"north", "south", "unfit"}
    Fitting = {"north", "south"}
    Scenes <- MCScenes
    Plans <- MCPlans
INVARIANTS
    VehiclesCountOnce
    ViewsStayApart
    MotionIsOwn
CHECK_DEADLOCK FALSE

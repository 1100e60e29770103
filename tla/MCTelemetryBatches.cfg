SPECIFICATION FairSpec
CONSTANTS
    p1 = p1
    p2 = p2
    r1 = r1
    r2 = r2
    clipA = clipA
    clipB = clipB
    bundle = bundle
    x = x
    y = y
    MaxGap = 90
    ClipOrder <- MCOrder
    Clients = {p1, p2}
    RunsOf <- MCRunsOf
    FramesOf <- MCFramesOf
    Revision = bundle
    RawValues = {x, y}
    ClassifiedValues = {x}
    BatchSize = 2
    MaxRows = 3
    FaultPoints <- MCFaults
    MaxFaults = 1
    Null = Null
INVARIANTS
    RowsAreAccounted
    AnswersAreStored
PROPERTIES
    CallsEnd
CHECK_DEADLOCK FALSE

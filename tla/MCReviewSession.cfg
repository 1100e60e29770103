SPECIFICATION FairSpec
CONSTANTS
    d1 = d1
    d2 = d2
    d3 = d3
    f1 = f1
    Own <- MCOwn
    Foreign <- MCForeign
    Rows = 2
    MaxFaults = 2
    MaxEdits = 1
    Null = Null
INVARIANTS
    OneDecisionPerRow
PROPERTIES
    ExportIsFaithful
    ConfirmationsHold
    AdvancesOnce
    BlockedSessionIsInert
    DecisionsResolve

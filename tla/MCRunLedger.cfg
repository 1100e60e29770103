SPECIFICATION Spec
CONSTANTS
    reviewer = reviewer
    analyst = analyst
    r1 = r1
    r2 = r2
    r3 = r3
    app = app
    m1 = m1
    Users = {reviewer, analyst}
    PackageUsers = {reviewer}
    Grants <- MCGrants
    RunIds = {r1, r2, r3}
    Apps = {app}
    Revisions = {m1}
    Contents = {c1, c2}
    Errors = {}
    Openings <- MCOpenings
    MaxRows = 1
    Null = Null
INVARIANTS
    TypeOK
    ReceiptsAreGrounded
    ReconciliationsHold
PROPERTIES
    LedgerStands

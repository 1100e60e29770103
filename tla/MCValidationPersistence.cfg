SPECIFICATION Spec
CONSTANTS
    alice = alice
    bob = bob
    reviewer = reviewer
    colleague = colleague
    notebook = notebook
    v1 = v1
    v2 = v2
    p1 = p1
    free = free
    congested = congested
    Clients = {alice, bob}
    Users = {reviewer}
    Trainers = {}
    UserOf <- MCOneReviewer
    Apps = {notebook}
    AppOf <- MCOneApp
    Validations = {v1, v2}
    Predictions = {p1}
    Labels = {free, congested}
    Decisions <- MCDecisions
    FaultPoints <- MCAnyFault
    MaxFaults = 2
    Null = Null
INVARIANTS
    RepliesAreKept
    EvidenceIsWhole

SPECIFICATION FairSpec
CONSTANTS
    v1 = v1
    v2 = v2
    v3 = v3
    p1 = p1
    p2 = p2
    Transactions = {t1, t2, t3}
    Validations = {v1, v2, v3}
    Predictions = {p1, p2}
    Decisions <- MCDecisions
    Null = Null
INVARIANTS
    LocksSuffice
PROPERTIES
    HistoryRefined
    TransactionsEnd

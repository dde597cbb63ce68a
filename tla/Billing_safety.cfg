CONSTANTS
    u1 = u1
    u2 = u2
    ghost = ghost
    k1 = k1
    k2 = k2
    Users = {u1, u2}
    Sessions = {s1, s2, s3}
    Requests <- MCRequests
    MaxCredits = 3
    MaxRows = 3
    NoRow = NoRow
    NoKey = NoKey
    BlankKey = BlankKey
    NoRequest = NoRequest
SPECIFICATION BillingSpec
SYMMETRY SessionSymmetry
INVARIANTS TypeOK LedgerExplainsBalance KeysPostedOnce NoLostUpdate FlushedCanCommit
PROPERTY ImplementsLedger

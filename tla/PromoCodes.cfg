CONSTANTS
    u1 = u1
    u2 = u2
    ghost = ghost
    c1 = c1
    c2 = c2
    Users = {u1, u2}
    Sessions = {s1, s2}
    Codes = {c1, c2}
    NewCodes <- MCNewCodes
    MaxTime = 2
    GrantKey <- MCGrantKey
    Requests <- CollidingRequests
    MaxCredits = 3
    MaxRows = 2
    NoRow = NoRow
    NoKey = NoKey
    BlankKey = BlankKey
    NoRequest = NoRequest
    NoCode = NoCode
SPECIFICATION PromoSpec
SYMMETRY SessionSymmetry
INVARIANTS PromoTypeOK CountMatches GrantsMatchRedemptions
PROPERTY RedeemedWhileActive

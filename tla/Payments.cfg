CONSTANTS
    u1 = u1
    u2 = u2
    ghost = ghost
    p1 = p1
    p2 = p2
    k1 = k1
    Users = {u1, u2}
    Sessions = {s1, s2}
    PaymentIds = {p1, p2}
    Packs = {1, 2}
    PaymentKey <- MCPaymentKey
    Requests <- CollidingRequests
    MaxCredits = 3
    MaxRows = 2
    NoRow = NoRow
    NoKey = NoKey
    BlankKey = BlankKey
    NoRequest = NoRequest
    NoPayment = NoPayment
SPECIFICATION PaymentsSpec
SYMMETRY SessionSymmetry
INVARIANTS PaymentsTypeOK ConfirmsAlone CreditedOnce CreditedUnlessKeyTaken

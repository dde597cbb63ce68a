CONSTANTS
    u1 = u1
    t1 = t1
    p1 = p1
    h1 = h1
    h2 = h2
    Users = {u1}
    Requests <- MCRequests
    Tasks = {t1}
    Payments = {p1}
    Owner <- MCOwner
    Price = 1
    Credits = 2
    Reward = 1
    MaxCredits = 4
    MaxRows = 2
    Viewer = u1
    Threads = {h1, h2}
    Status <- MCStatus
    NoRow = NoRow
    NoKey = NoKey
    Nothing = Nothing
SPECIFICATION ReportsSpec
INVARIANTS ReportsTypeOK SucceededHasCost FiguresAgree PageExplained ScrapeIsConsistent

CONSTANTS
    u1 = u1
    u2 = u2
    ghost = ghost
    k1 = k1
    Users = {u1}
    Sessions = {s1, s2}
    Tasks = {t1}
    Owner <- MCOwner
    Price = 1
    DebitKey <- MCDebitKey
    Requests <- MCRequests
    Faults = {"broker"}
    MaxCopies = 1
    MaxCredits = 2
    MaxRows = 3
    NoRow = NoRow
    NoKey = NoKey
    BlankKey = BlankKey
    NoRequest = NoRequest
    NoTask = NoTask
SPECIFICATION PredictionsSpec
INVARIANTS QueuedIsEnqueued

CONSTANTS
    ann = ann
    root = root
    late = late
    Accounts = {ann, root, late}
    Role <- MCRole
    Registered <- MCRegistered
    Earlier <- MCEarlier
    MaxRows = 2
    MaxClicks = 5
    MaxElsewhere = 1
    None = None
SPECIFICATION DashboardSpec
INVARIANTS DashboardTypeOK KeptIsOwn TopUpsAddUp
PROPERTY ClickKeepsItsWord
CHECK_DEADLOCK FALSE

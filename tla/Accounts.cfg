CONSTANTS
    boss = boss
    root = root
    demo = demo
    Emails = {boss, root, demo}
    Founders = {boss}
    LocalAdmin = root
    DemoUsers <- MCDemoUsers
    Settings <- MCSettings
    Names = {FALSE}
    Sessions = {s1, s2}
    NoAccount = NoAccount
    NoCall = NoCall
    NoRole = NoRole
SPECIFICATION FairAccountsSpec
INVARIANTS AccountsTypeOK FlushedRoleIsFree
PROPERTIES ImplementsDirectory BlockedStaysBlocked LastAdminBlockedByBlocked BlockedFallsSilent

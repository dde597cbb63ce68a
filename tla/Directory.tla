------------------------------ MODULE Directory ------------------------------
(***************************************************************************)
(* What the users package and its admin endpoint promise about accounts:   *)
(* an e-mail address is registered once and for good, only a start-up with *)
(* local accounts appoints an administrator, and an account is blocked only *)
(* where some other account is an administrator.  There are no sessions,   *)
(* stale reads or failures here: module Accounts implements this one.      *)
(***************************************************************************)
EXTENDS FiniteSets

CONSTANTS
    Emails,        \* normalized e-mail addresses
    Founders,      \* administrators inserted by hand before the service runs
    StartUpAdmins, \* accounts that a start-up makes administrators
    StartUpUsers   \* accounts that a start-up makes ordinary users

VARIABLES
    registered,    \* addresses that have an account
    blocked,       \* registered addresses whose account is not active
    admins         \* registered addresses whose account has role admin

directoryVars == <<registered, blocked, admins>>

-----------------------------------------------------------------------------

DirectoryInit ==
    /\ registered = Founders
    /\ blocked = {}
    /\ admins = Founders

Register(e) ==
    /\ e \notin registered
    /\ registered' = registered \cup {e}
    /\ UNCHANGED <<blocked, admins>>

Block(e) ==
    /\ e \in registered
    /\ admins \ {e} # {}
    /\ blocked' = blocked \cup {e}
    /\ UNCHANGED <<registered, admins>>

Unblock(e) ==
    /\ e \in blocked
    /\ admins # {}
    /\ blocked' = blocked \ {e}
    /\ UNCHANGED <<registered, admins>>

\* One transaction of a start-up.  An account that is blocked while it runs
\* may stay blocked.
Restore(group, role) ==
    /\ registered' = registered \cup group
    /\ blocked' \in {blocked \ unblocked : unblocked \in SUBSET group}
    /\ admins' = IF role = "admin" THEN admins \cup group ELSE admins

DirectoryNext ==
    \/ \E e \in Emails : Register(e) \/ Block(e) \/ Unblock(e)
    \/ Restore(StartUpAdmins, "admin")
    \/ Restore(StartUpUsers, "user")

DirectorySpec == DirectoryInit /\ [][DirectoryNext]_directoryVars

=============================================================================

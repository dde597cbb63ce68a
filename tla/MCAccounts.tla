----------------------------- MODULE MCAccounts -----------------------------
(***************************************************************************)
(* An instance of Accounts for TLC: an administrator from before, the      *)
(* local administrator and one of the demo users, all of which visitors    *)
(* may also try to register, and a local environment.                      *)
(***************************************************************************)
EXTENDS Accounts

CONSTANTS boss, root, demo

MCDemoUsers == <<demo>>

MCSettings == [env |-> "local", bootstrap |-> TRUE, debug |-> FALSE, defaultSecret |-> TRUE]

=============================================================================

---------------------------- MODULE MCDashboard ----------------------------
(***************************************************************************)
(* An instance of Dashboard for TLC: a user and an admin who share a tab,  *)
(* and a user who registers while it is open.                              *)
(***************************************************************************)
EXTENDS Dashboard

CONSTANTS ann, root, late

MCRole == [e \in Accounts |-> IF e = root THEN "admin" ELSE "user"]
MCRegistered == <<ann, root>>

\* One row in each table that a choice or a list is made from.
MCEarlier == [tasks  |-> <<[owner |-> ann, pending |-> TRUE]>>,
              models |-> <<[owner |-> ann, live |-> TRUE]>>,
              codes  |-> <<[active |-> TRUE, by |-> {}]>>]

=============================================================================

---------------------------- MODULE MCPredictions ----------------------------
(***************************************************************************)
(* Instances of Predictions for TLC: tasks of one user, whose balance an   *)
(* admin fills and drains, and as many sessions as the question needs.     *)
(***************************************************************************)
EXTENDS Predictions, TLC

CONSTANTS u1, u2, ghost, k1

MCOwner == [t \in Tasks |-> u1]

MCDebitKey(t) == <<"prediction", t>>

Adjusts(u, direction, n) ==
    [user |-> u, type |-> "adjustment", direction |-> direction, amount |-> n,
     key |-> NoKey, source |-> "none"]

\* Every charge; credits for a prediction or two, a debit, a mistyped user.
MCRequests ==
    {[user |-> u1, type |-> "prediction_debit", direction |-> "debit",
      amount |-> Price, key |-> MCDebitKey(t), source |-> t] : t \in Tasks}
    \cup {Adjusts(u1, "credit", 2), Adjusts(u1, "debit", 1),
          Adjusts(ghost, "credit", 1)}

\* Without the mistyped user, and with a key that meets itself on two balances.
KeyedRequests ==
    {r \in MCRequests : r.user \in Users}
    \cup {[Adjusts(u, "credit", 1) EXCEPT !.key = k1] : u \in {u1, u2}}

SessionSymmetry == Permutations(Sessions)

=============================================================================

------------------------------ MODULE MCBilling ------------------------------
(***************************************************************************)
(* Instances of Billing for TLC.  The requests are representatives of what *)
(* the callers send: adjustments with and without a key, a key two users   *)
(* share, an empty key, a user without an account, a prediction's debit.   *)
(***************************************************************************)
EXTENDS Billing, TLC

CONSTANTS u1, u2,   \* users
          ghost,    \* the id of no user
          k1, k2    \* idempotency keys

NoSource == "none"

Adjust(u, direction, n, k) ==
    [user |-> u, type |-> "adjustment", direction |-> direction, amount |-> n,
     key |-> k, source |-> NoSource]

Debit(u, n, k) ==
    [user |-> u, type |-> "prediction_debit", direction |-> "debit",
     amount |-> n, key |-> k, source |-> k]

\* Two keyed credits that compete for k1 on different balances, an admin debit
\* that can overdraw, a prediction debit, a repeatable blank key, no user.
MCRequests ==
    {Adjust(u1, "credit", 2, k1), Adjust(u2, "credit", 1, k1),
     Adjust(u1, "debit", 1, NoKey), Debit(u1, 2, k2),
     Adjust(u1, "credit", 1, BlankKey), Adjust(ghost, "credit", 1, NoKey)}

SessionSymmetry == Permutations(Sessions)

=============================================================================

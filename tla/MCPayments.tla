----------------------------- MODULE MCPayments -----------------------------
(***************************************************************************)
(* Instances of Payments for TLC.  An idempotency key of a payment is a    *)
(* pair; admins use keys of their own or, in the colliding instance, the   *)
(* key of a payment.                                                       *)
(***************************************************************************)
EXTENDS Payments, TLC

CONSTANTS u1, u2, ghost, p1, p2, k1

MCPaymentKey(p) == <<"payment", p>>

AdminAdjusts(u, direction, n, k) ==
    [user |-> u, type |-> "adjustment", direction |-> direction, amount |-> n,
     key |-> k, source |-> "none"]

\* An admin who debits without a key, credits with key k1, mistypes a user.
MCRequests ==
    {[user |-> u, type |-> "payment_credit", direction |-> "credit",
      amount |-> n, key |-> MCPaymentKey(p), source |-> p] :
          u \in Users, p \in PaymentIds, n \in Packs}
    \cup {AdminAdjusts(u1, "debit", 1, NoKey),
          AdminAdjusts(u2, "credit", 1, k1),
          AdminAdjusts(ghost, "credit", 1, NoKey)}

\* An admin whose credit carries the key of payment p1.
CollidingRequests ==
    MCRequests \cup {AdminAdjusts(u2, "credit", 1, MCPaymentKey(p1))}

SessionSymmetry == Permutations(Sessions)

=============================================================================

---------------------------- MODULE MCPromoCodes ----------------------------
(***************************************************************************)
(* Instances of PromoCodes for TLC: a code for one user, a code for both,  *)
(* one that is created inactive, two users and an admin.                   *)
(***************************************************************************)
EXTENDS PromoCodes, TLC

CONSTANTS u1, u2, ghost, c1, c2

NewRow(n, limit, active, from, to) ==
    [credits |-> n, limit |-> limit, count |-> 0, active |-> active,
     starts |-> from, expires |-> to]

MCNewCodes == {NewRow(1, 1, TRUE, 0, 2), NewRow(2, 2, TRUE, 1, 2),
               NewRow(1, 2, FALSE, 0, 1)}

MCGrantKey(u, c) == <<"promo", u, c>>

AdminAdjusts(u, direction, n, k) ==
    [user |-> u, type |-> "adjustment", direction |-> direction, amount |-> n,
     key |-> k, source |-> "none"]

\* Every grant, an admin debit without a key, and an admin who mistypes a user.
MCRequests ==
    {[user |-> u, type |-> "promo_credit", direction |-> "credit",
      amount |-> n.credits, key |-> MCGrantKey(u, c), source |-> <<u, c>>] :
          u \in Users, c \in Codes, n \in NewCodes}
    \cup {AdminAdjusts(u1, "debit", 1, NoKey),
          AdminAdjusts(ghost, "credit", 1, NoKey)}

\* Also an admin credit that carries the key of a grant.
CollidingRequests ==
    MCRequests \cup {AdminAdjusts(u2, "credit", 1, MCGrantKey(u1, c1))}

SessionSymmetry == Permutations(Sessions)

=============================================================================

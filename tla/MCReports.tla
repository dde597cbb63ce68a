------------------------------ MODULE MCReports ------------------------------
(***************************************************************************)
(* An instance of Reports for TLC: a user with a prediction, a payment and *)
(* a promo code, whose balance an admin also fills and drains, and two     *)
(* answers of the API, one of them an error.                               *)
(***************************************************************************)
EXTENDS Reports, TLC

CONSTANTS u1, t1, p1, h1, h2

MCOwner == [x \in Tasks \cup Payments |-> u1]

MCStatus == (h1 :> 200) @@ (h2 :> 500)

Adjusts(u, direction) ==
    [user |-> u, type |-> "adjustment", direction |-> direction, amount |-> 1,
     key |-> NoKey, source |-> "none"]

MCRequests ==
    {Charge(t) : t \in Tasks} \cup {Purchase(p) : p \in Payments}
    \cup {Grant(u) : u \in Users}
    \cup {Adjusts(u1, "credit"), Adjusts(u1, "debit")}

=============================================================================

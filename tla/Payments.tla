------------------------------ MODULE Payments ------------------------------
(***************************************************************************)
(* app.payments on top of app.billing: mock payments that are created      *)
(* pending and confirmed by their owner.  A confirmation locks the payment *)
(* row, marks it succeeded and credits the balance in one transaction, so  *)
(* its first step here starts a billing call and its last step commits     *)
(* both.  Admin adjustments run beside it in other sessions.               *)
(***************************************************************************)
EXTENDS Billing

CONSTANTS
    PaymentIds,      \* ids of the rows of table payments
    Packs,           \* the credits a client may buy at once
    PaymentKey(_),   \* the string "payment:{id}:credit"
    NoPayment        \* no such row; a session that confirms no payment

VARIABLES
    payment,         \* payment[p]: the committed row p, or NoPayment
    confirming       \* confirming[s]: the payment that s holds FOR UPDATE

paymentVars == <<payment, confirming>>
paymentsVars == <<billingVars, paymentVars>>

\* What confirm_mock_payment asks of credit_user_balance.
Purchase(u, p, n) ==
    [user |-> u, type |-> "payment_credit", direction |-> "credit",
     amount |-> n, key |-> PaymentKey(p), source |-> p]

Adjustments == {r \in Requests : r.type = "adjustment"}

Payment == [owner: Users, credits: Packs, status: {"pending", "succeeded"}]

ASSUME PaymentsAssumption ==
    /\ Packs \subseteq Nat \ {0}
    /\ \A u \in Users, p \in PaymentIds, n \in Packs :
           Purchase(u, p, n) \in Requests
    /\ NoPayment \notin PaymentIds
    /\ NoPayment \notin Payment
    /\ \A p, q \in PaymentIds : PaymentKey(p) = PaymentKey(q) => p = q

-----------------------------------------------------------------------------

PaymentsInit ==
    /\ BillingInit
    /\ payment = [p \in PaymentIds |-> NoPayment]
    /\ confirming = [s \in Sessions |-> NoPayment]

CreateAsNew(u, p, n) ==
    /\ payment[p] = NoPayment
    /\ payment' = [payment EXCEPT
           ![p] = [owner |-> u, credits |-> n, status |-> "new"]]
    /\ UNCHANGED <<billingVars, confirming>>
CreatePayment(u, p, n) ==
    /\ payment[p] = NoPayment
    /\ payment' = [payment EXCEPT
           ![p] = [owner |-> u, credits |-> n, status |-> "pending"]]
    /\ UNCHANGED <<billingVars, confirming>>

PaymentUnlocked(p) == TRUE
PaymentLockFree(p) == \A s \in Sessions : confirming[s] # p

\* get_owned_payment: another user's payment is not found.
AnyUsers(u, p) == payment[p] # NoPayment
OwnedBy(u, p) == payment[p] # NoPayment /\ payment[p].owner = u

\* User u confirms: the payment row is locked and read.  Nothing changes when
\* it has already succeeded, so that return of the handler is no step here.
ConfirmPayment(s, u, p) ==
    /\ OwnedBy(u, p)
    /\ PaymentLockFree(p)
    /\ payment[p].status # "succeeded"
    /\ Begin(s, Purchase(u, p, payment[p].credits))
    /\ confirming' = [confirming EXCEPT ![s] = p]
    /\ UNCHANGED payment

\* The commit of a confirmation: the status goes with whatever the billing call
\* did, a new ledger row or (CommitExisting) the row that has the key.
MarkSucceeded(s) ==
    /\ confirming[s] # NoPayment
    /\ Commit(s) \/ CommitExisting(s)
    /\ payment' = [payment EXCEPT ![confirming[s]].status = "succeeded"]
    /\ confirming' = [confirming EXCEPT ![s] = NoPayment]

\* An error or a crash: the payment row is unlocked as it was.
AbandonSucceeded(s) ==
    /\ confirming[s] # NoPayment
    /\ Fail(s) \/ Crash(s)
    /\ payment' = [payment EXCEPT ![confirming[s]].status = "succeeded"]
    /\ confirming' = [confirming EXCEPT ![s] = NoPayment]
AbandonConfirm(s) ==
    /\ confirming[s] # NoPayment
    /\ Fail(s) \/ Crash(s)
    /\ confirming' = [confirming EXCEPT ![s] = NoPayment]
    /\ UNCHANGED payment

\* create_adjustment, in a session that confirms nothing.
Adjust(s) ==
    /\ confirming[s] = NoPayment
    /\ \/ \E r \in Adjustments : Begin(s, r)
       \/ Fail(s) \/ Crash(s) \/ Commit(s) \/ CommitExisting(s)
    /\ UNCHANGED paymentVars

PaymentsNext ==
    \/ \E u \in Users, p \in PaymentIds, n \in Packs : CreatePayment(u, p, n)
    \/ \E s \in Sessions :
           \/ \E u \in Users, p \in PaymentIds : ConfirmPayment(s, u, p)
           \/ MarkSucceeded(s)
           \/ AbandonConfirm(s)
           \/ Adjust(s)
           \/ Statement(s) /\ UNCHANGED paymentVars

PaymentsSpec == PaymentsInit /\ [][PaymentsNext]_paymentsVars

-----------------------------------------------------------------------------

PaymentsTypeOK ==
    /\ payment \in [PaymentIds -> Payment \cup {NoPayment}]
    /\ confirming \in [Sessions -> PaymentIds \cup {NoPayment}]

\* FOR UPDATE in get_owned_payment: whoever confirms a payment is alone, and
\* credits what the row still says.  Only confirmations ask for such credits.
ConfirmsAlone ==
    \A s \in Sessions :
        IF confirming[s] = NoPayment
        THEN req[s] = NoRequest \/ req[s] \in Adjustments
        ELSE LET p == confirming[s] IN
             /\ pc[s] # "idle"
             /\ payment[p] # NoPayment
             /\ payment[p].status = "pending"
             /\ req[s] = Purchase(payment[p].owner, p, payment[p].credits)
             /\ \A t \in Sessions \ {s} : confirming[t] # p

\* The ledger row says that it credits payment p.
Pays(row, p) == row.type = "payment_credit" /\ row.source = p

\* docs/payments.md: repeated confirmation does not credit twice.  The rows of a
\* payment are at most one, which is in the ledger of its owner, over its
\* credits, and there only once the payment has succeeded.
CreditedOnce ==
    \A p \in PaymentIds, u \in Users : \A i \in DOMAIN ledger[u] :
        Pays(ledger[u][i], p) =>
            /\ payment[p] # NoPayment
            /\ payment[p] = [owner |-> u, credits |-> ledger[u][i].amount,
                             status |-> "succeeded"]
            /\ \A v \in Users : \A j \in DOMAIN ledger[v] :
                   Pays(ledger[v][j], p) => v = u /\ j = i

\* docs/payments.md, line 11: "Successful confirmation creates one
\* `payment_credit` billing transaction."
ConfirmationIsCredited ==
    \A p \in PaymentIds :
        payment[p] # NoPayment /\ payment[p].status = "succeeded" =>
            \E i \in DOMAIN ledger[payment[p].owner] :
                Pays(ledger[payment[p].owner][i], p)

\* A confirmation takes any row with the key of its payment for its own, so what
\* does hold, through all failures of the billing call, is this: a succeeded
\* payment is credited unless an adjustment has taken its key.
CreditedUnlessKeyTaken ==
    \A p \in PaymentIds :
        payment[p] # NoPayment /\ payment[p].status = "succeeded" =>
            \/ \E i \in DOMAIN ledger[payment[p].owner] :
                   Pays(ledger[payment[p].owner][i], p)
            \/ \E u \in Users : \E i \in DOMAIN ledger[u] :
                   /\ ledger[u][i].key = PaymentKey(p)
                   /\ ledger[u][i].type = "adjustment"

=============================================================================

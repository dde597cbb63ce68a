--------------------------- MODULE PaymentsProofs ---------------------------
(***************************************************************************)
(* Theorems about Payments: it implements Billing, so that every theorem   *)
(* of BillingProofs holds of it, and the payment row lock together with    *)
(* the single commit makes a payment credit its owner exactly once.        *)
(***************************************************************************)
EXTENDS Payments, BillingProofs

\* What the steps of a confirmation rely on.
ConfirmInv == IInv /\ PaymentsTypeOK /\ ConfirmsAlone

-----------------------------------------------------------------------------

\* A payment that is marked succeeded is still a payment of the same owner.
LEMMA MarkedPayment ==
  ASSUME ConfirmInv, NEW s \in Sessions, MarkSucceeded(s)
  PROVE  LET p == confirming[s] IN
         /\ p \in PaymentIds /\ payment[p] \in Payment
         /\ payment'[p] = [owner |-> payment[p].owner,
                           credits |-> payment[p].credits,
                           status |-> "succeeded"]
         /\ payment'[p] \in Payment
         /\ \A q \in PaymentIds \ {p} : payment'[q] = payment[q]
  BY DEF ConfirmInv, PaymentsTypeOK, ConfirmsAlone, MarkSucceeded, Payment

\* Every step of Payments is a step of Billing, or none.
LEMMA PaymentsStepBills ==
  ASSUME ConfirmInv, [PaymentsNext]_paymentsVars
  PROVE  [BillingNext]_billingVars
  <1>1. ASSUME NEW s \in Sessions, NEW u \in Users, NEW p \in PaymentIds,
               ConfirmPayment(s, u, p)
        PROVE  BillingNext
    <2>1. payment[p] \in Payment
      BY <1>1 DEF ConfirmPayment, OwnedBy, ConfirmInv, PaymentsTypeOK
    <2>2. Purchase(u, p, payment[p].credits) \in Requests
      BY <2>1, PaymentsAssumption DEF Payment
    <2> QED
      BY <1>1, <2>2 DEF ConfirmPayment, BillingNext
  <1> QED
    BY <1>1 DEF PaymentsNext, paymentsVars, CreatePayment, MarkSucceeded,
                AbandonConfirm, Adjust, Adjustments, BillingNext, Progress

\* Every step keeps the payment rows and the sessions' claims in their types.
LEMMA PaymentsTypeStep ==
  ASSUME ConfirmInv, [PaymentsNext]_paymentsVars
  PROVE  PaymentsTypeOK'
  <1> USE PaymentsAssumption DEF PaymentsTypeOK
  <1>1. PaymentsTypeOK
    BY DEF ConfirmInv
  <1>2. CASE UNCHANGED paymentVars
    BY <1>1, <1>2 DEF paymentVars
  <1>3. ASSUME NEW u \in Users, NEW p \in PaymentIds, NEW n \in Packs,
               CreatePayment(u, p, n)
        PROVE  PaymentsTypeOK'
    BY <1>1, <1>3 DEF CreatePayment, Payment
  <1>4. ASSUME NEW s \in Sessions, NEW u \in Users, NEW p \in PaymentIds,
               ConfirmPayment(s, u, p)
        PROVE  PaymentsTypeOK'
    BY <1>1, <1>4 DEF ConfirmPayment
  <1>5. ASSUME NEW s \in Sessions, MarkSucceeded(s)
        PROVE  PaymentsTypeOK'
    BY <1>1, <1>5, MarkedPayment DEF MarkSucceeded
  <1>6. ASSUME NEW s \in Sessions, AbandonConfirm(s)
        PROVE  PaymentsTypeOK'
    BY <1>1, <1>6 DEF AbandonConfirm
  <1> QED
    BY <1>2, <1>3, <1>4, <1>5, <1>6
       DEF PaymentsNext, paymentsVars, paymentVars, Adjust

-----------------------------------------------------------------------------

\* Every step keeps the payment row lock exclusive and the credit that is being
\* posted equal to what the locked row says.
LEMMA ConfirmsStep ==
  ASSUME ConfirmInv, [PaymentsNext]_paymentsVars
  PROVE  ConfirmsAlone'
  <1> DEFINE
        Claim(t) ==
            /\ confirming[t] = NoPayment =>
                   req[t] = NoRequest \/ req[t] \in Adjustments
            /\ confirming[t] # NoPayment =>
                   LET p == confirming[t] IN
                   /\ pc[t] # "idle"
                   /\ payment[p] # NoPayment
                   /\ payment[p].status = "pending"
                   /\ req[t] = Purchase(payment[p].owner, p, payment[p].credits)
                   /\ \A q \in Sessions \ {t} : confirming[q] # p
  <1>1. TypeOK /\ PaymentsTypeOK /\ \A t \in Sessions : Claim(t)
    BY DEF ConfirmInv, IInv, ConfirmsAlone
  <1> SUFFICES ASSUME NEW t \in Sessions PROVE Claim(t)'
    BY DEF ConfirmsAlone
  <1>2. CASE UNCHANGED paymentsVars
    BY <1>1, <1>2 DEF paymentsVars, paymentVars, billingVars, Purchase,
                      Adjustments
  <1>3. ASSUME NEW u \in Users, NEW p \in PaymentIds, NEW n \in Packs,
               CreatePayment(u, p, n)
        PROVE  Claim(t)'
    <2>1. /\ UNCHANGED <<pc, req, confirming>>
          /\ \A q \in PaymentIds : q # p => payment'[q] = payment[q]
          /\ payment[p] = NoPayment
      BY <1>1, <1>3 DEF CreatePayment, billingVars, PaymentsTypeOK
    <2> QED
      BY <1>1, <2>1 DEF PaymentsTypeOK, Purchase, Adjustments
  <1>4. ASSUME NEW s \in Sessions, NEW u \in Users, NEW p \in PaymentIds,
               ConfirmPayment(s, u, p)
        PROVE  Claim(t)'
    <2>1. /\ payment[p] \in Payment /\ payment[p].owner = u
          /\ payment[p].status = "pending"
          /\ \A q \in Sessions : confirming[q] # p
          /\ UNCHANGED payment
      BY <1>1, <1>4 DEF ConfirmPayment, OwnedBy, PaymentLockFree,
                        PaymentsTypeOK, Payment
    <2>2. /\ confirming'[s] = p
          /\ req'[s] = Purchase(u, p, payment[p].credits)
          /\ pc'[s] = "lookup"
          /\ \A q \in Sessions \ {s} : /\ confirming'[q] = confirming[q]
                                       /\ pc'[q] = pc[q] /\ req'[q] = req[q]
      BY <1>1, <1>4 DEF ConfirmPayment, Begin, TypeOK, PaymentsTypeOK
    <2>3. CASE t = s
      BY <2>1, <2>2, <2>3, PaymentsAssumption DEF Payment
    <2>4. CASE t # s
      BY <1>1, <2>1, <2>2, <2>4 DEF Purchase, Adjustments
    <2> QED
      BY <2>3, <2>4
  <1>5. ASSUME NEW s \in Sessions,
               MarkSucceeded(s) \/ AbandonConfirm(s)
        PROVE  Claim(t)'
    <2>1. /\ confirming[s] \in PaymentIds
          /\ confirming'[s] = NoPayment /\ pc'[s] = "idle"
          /\ req'[s] = NoRequest
          /\ \A q \in Sessions \ {s} : /\ confirming'[q] = confirming[q]
                                       /\ pc'[q] = pc[q] /\ req'[q] = req[q]
          /\ \A q \in PaymentIds \ {confirming[s]} : payment'[q] = payment[q]
      BY <1>1, <1>5, CallEnds, MarkedPayment
         DEF MarkSucceeded, AbandonConfirm, TypeOK, PaymentsTypeOK
    <2>2. CASE t = s
      BY <2>1, <2>2
    <2>3. CASE t # s
      <3>1. CASE confirming[t] = NoPayment
        BY <1>1, <2>1, <2>3, <3>1 DEF Adjustments
      <3>2. CASE confirming[t] # NoPayment
        <4>1. PICK p \in PaymentIds : p = confirming[t] /\ p # confirming[s]
          BY <1>1, <2>1, <2>3, <3>2 DEF PaymentsTypeOK
        <4>2. payment'[p] = payment[p] /\ confirming'[t] = p
          BY <2>1, <2>3, <4>1
        <4>3. \A q \in Sessions \ {t} : confirming'[q] # p
          BY <1>1, <2>1, <3>2, <4>1, PaymentsAssumption
        <4> QED
          BY <1>1, <2>1, <2>3, <3>2, <4>1, <4>2, <4>3, PaymentsAssumption
             DEF Purchase
      <3> QED
        BY <3>1, <3>2
    <2> QED
      BY <2>2, <2>3
  <1>6. ASSUME NEW s \in Sessions, Adjust(s)
        PROVE  Claim(t)'
    <2>1. /\ req'[s] = NoRequest \/ req'[s] \in Adjustments
          /\ \A q \in Sessions \ {s} : pc'[q] = pc[q] /\ req'[q] = req[q]
      BY <1>1, <1>6, CallEnds DEF Adjust, Begin, TypeOK
    <2>2. confirming[s] = NoPayment /\ UNCHANGED <<payment, confirming>>
      BY <1>6 DEF Adjust, paymentVars
    <2> QED
      BY <1>1, <2>1, <2>2 DEF Purchase, Adjustments
  <1>7. ASSUME NEW s \in Sessions, Statement(s), UNCHANGED paymentVars
        PROVE  Claim(t)'
    BY <1>1, <1>7, CallContinues DEF paymentVars, Purchase, Adjustments
  <1> QED
    BY <1>2, <1>3, <1>4, <1>5, <1>6, <1>7 DEF PaymentsNext

\* The three parts of ConfirmInv hold in every reachable state.
THEOREM ConfirmInvariant == PaymentsSpec => []ConfirmInv
  <1>1. PaymentsInit => ConfirmInv
    BY InitIInv, PaymentsAssumption
       DEF PaymentsInit, BillingInit, ConfirmInv, PaymentsTypeOK, ConfirmsAlone
  <1>2. ConfirmInv /\ [PaymentsNext]_paymentsVars => ConfirmInv'
    BY PaymentsStepBills, PaymentsTypeStep, ConfirmsStep, IInvStep DEF ConfirmInv
  <1> QED
    BY <1>1, <1>2, PTL DEF PaymentsSpec

\* get_owned_payment(lock=True): one session at a time confirms a payment.
THEOREM PaymentLocked == PaymentsSpec => []ConfirmsAlone
  BY ConfirmInvariant, PTL DEF ConfirmInv

\* The payment rows and locks stay in their types.
THEOREM PaymentsTypeCorrect == PaymentsSpec => []PaymentsTypeOK
  BY ConfirmInvariant, PTL DEF ConfirmInv

\* Payments and adjustments use the billing service as Billing describes: all
\* that is proved of BillingSpec holds of PaymentsSpec.
THEOREM PaymentsImplementBilling == PaymentsSpec => BillingSpec
  <1>1. PaymentsInit => BillingInit
    BY DEF PaymentsInit
  <1> QED
    BY <1>1, PaymentsStepBills, ConfirmInvariant, PTL DEF PaymentsSpec, BillingSpec

-----------------------------------------------------------------------------

\* The row that a session's commit appends pays for the payment it confirms, if
\* it confirms one, and for none otherwise.
LEMMA RowPays ==
  ASSUME ConfirmInv, NEW s \in Sessions, pc[s] # "idle"
  PROVE  LET row == CL!RowFor(req[s], After(s)) IN
         /\ row.key = req[s].key
         /\ confirming[s] = NoPayment => \A p \in PaymentIds : ~Pays(row, p)
         /\ confirming[s] # NoPayment =>
                /\ confirming[s] \in PaymentIds
                /\ payment[confirming[s]] \in Payment
                /\ payment[confirming[s]].status = "pending"
                /\ req[s].user = payment[confirming[s]].owner
                /\ req[s].key = PaymentKey(confirming[s])
                /\ row.amount = payment[confirming[s]].credits
                /\ \A p \in PaymentIds : Pays(row, p) <=> p = confirming[s]
  BY DEF ConfirmInv, IInv, TypeOK, PaymentsTypeOK, ConfirmsAlone, Adjustments,
         CL!RowFor, Pays, Purchase

\* The four kinds of steps that the ledger rows of payments tell apart.
LEMMA PaymentSteps ==
  ASSUME ConfirmInv, [PaymentsNext]_paymentsVars
  PROVE  \/ /\ ledger' = ledger
            /\ \A p \in PaymentIds : payment[p] # NoPayment => payment'[p] = payment[p]
            /\ \A p \in PaymentIds : payment[p] = NoPayment /\ payment'[p] # NoPayment
                   => payment'[p].status = "pending"
         \/ \E s \in Sessions : MarkSucceeded(s) /\ CommitExisting(s) /\ ledger' = ledger
         \/ \E s \in Sessions : MarkSucceeded(s) /\ Commit(s)
         \/ \E s \in Sessions : Adjust(s) /\ Commit(s)
  <1>1. TypeOK /\ PaymentsTypeOK
    BY DEF ConfirmInv, IInv
  <1>2. CASE UNCHANGED paymentsVars
    BY <1>2 DEF paymentsVars, paymentVars, billingVars
  <1>3. ASSUME NEW u \in Users, NEW p \in PaymentIds, NEW n \in Packs,
               CreatePayment(u, p, n)
        PROVE  /\ ledger' = ledger
               /\ \A q \in PaymentIds : payment[q] # NoPayment => payment'[q] = payment[q]
               /\ \A q \in PaymentIds : payment[q] = NoPayment /\ payment'[q] # NoPayment
                      => payment'[q].status = "pending"
    BY <1>1, <1>3 DEF CreatePayment, billingVars, PaymentsTypeOK
  <1>4. ASSUME NEW s \in Sessions, NEW u \in Users, NEW p \in PaymentIds,
               ConfirmPayment(s, u, p)
        PROVE  ledger' = ledger /\ payment' = payment
    BY <1>4 DEF ConfirmPayment, Begin
  <1>5. ASSUME NEW s \in Sessions, MarkSucceeded(s)
        PROVE  Commit(s) \/ (CommitExisting(s) /\ ledger' = ledger)
    BY <1>5 DEF MarkSucceeded, CommitExisting, Rollback
  <1>6. ASSUME NEW s \in Sessions, AbandonConfirm(s)
        PROVE  ledger' = ledger /\ payment' = payment
    BY <1>6, CallEnds DEF AbandonConfirm, Fail, Crash, TargetNotFound,
       BalanceConflict, KeyConflict, Overflow, CloseRefused, Rollback
  <1>7. ASSUME NEW s \in Sessions, Adjust(s)
        PROVE  Commit(s) \/ (ledger' = ledger /\ payment' = payment)
    BY <1>7, CallEnds DEF Adjust, Begin, paymentVars
  <1>8. ASSUME NEW s \in Sessions, Statement(s), UNCHANGED paymentVars
        PROVE  ledger' = ledger /\ payment' = payment
    BY <1>1, <1>8, CallContinues DEF paymentVars
  <1> QED
    BY <1>2, <1>3, <1>4, <1>5, <1>6, <1>7, <1>8 DEF PaymentsNext

\* Every step keeps the credits of a payment at most one: the one commit that
\* writes a row of p holds the lock of p, which was pending until then.
LEMMA CreditedOnceStep ==
  ASSUME ConfirmInv, CreditedOnce, [PaymentsNext]_paymentsVars
  PROVE  CreditedOnce'
  <1>1. CASE /\ ledger' = ledger
             /\ \A p \in PaymentIds : payment[p] # NoPayment => payment'[p] = payment[p]
    BY <1>1 DEF CreditedOnce
  <1>2. ASSUME NEW s \in Sessions, MarkSucceeded(s), pc[s] # "idle"
        PROVE  \A p \in PaymentIds, u \in Users : \A i \in DOMAIN ledger[u] :
                   Pays(ledger[u][i], p) =>
                       p # confirming[s] /\ payment'[p] = payment[p]
    <2>1. /\ confirming[s] \in PaymentIds
          /\ payment[confirming[s]] # NoPayment
          /\ payment[confirming[s]].status = "pending"
      BY <1>2, MarkedPayment, RowPays, PaymentsAssumption DEF MarkSucceeded
    <2>2. ASSUME NEW p \in PaymentIds, NEW u \in Users, NEW i \in DOMAIN ledger[u],
                 Pays(ledger[u][i], p)
          PROVE  payment[p].status = "succeeded"
      <3>1. payment[p] = [owner |-> u, credits |-> ledger[u][i].amount,
                          status |-> "succeeded"]
        BY <2>2 DEF CreditedOnce
      <3> QED
        BY <3>1
    <2>3. \A p \in PaymentIds : p # confirming[s] => payment'[p] = payment[p]
      BY <1>2, MarkedPayment
    <2> QED
      BY <2>1, <2>2, <2>3
  <1>3. ASSUME NEW s \in Sessions, MarkSucceeded(s), CommitExisting(s),
               ledger' = ledger
        PROVE  CreditedOnce'
    BY <1>2, <1>3 DEF CreditedOnce, CommitExisting
  <1>4. ASSUME NEW s \in Sessions, Commit(s), MarkSucceeded(s) \/ Adjust(s)
        PROVE  CreditedOnce'
    <2> SUFFICES ASSUME NEW p \in PaymentIds, NEW u \in Users,
                        NEW i \in DOMAIN ledger'[u], Pays(ledger'[u][i], p)
                 PROVE  /\ payment'[p] # NoPayment
                        /\ payment'[p] = [owner |-> u,
                                          credits |-> ledger'[u][i].amount,
                                          status |-> "succeeded"]
                        /\ \A v \in Users : \A j \in DOMAIN ledger'[v] :
                               Pays(ledger'[v][j], p) => v = u /\ j = i
      BY DEF CreditedOnce, Pays
    <2> DEFINE row == CL!RowFor(req[s], After(s))
               Old(w, n) == n \in DOMAIN ledger[w] /\ ledger'[w][n] = ledger[w][n]
               New(w, n) == /\ w = req[s].user /\ n = Len(ledger[w]) + 1
                            /\ ledger'[w][n] = row
    <2>1. TypeOK /\ pc[s] # "idle"
      BY <1>4 DEF ConfirmInv, IInv, Commit
    <2>2. \A w \in Users : \A n \in DOMAIN ledger'[w] : Old(w, n) \/ New(w, n)
      BY <1>4, <2>1, RowsAfterCommit
    <2>3. CASE confirming[s] = p
      <3>1. MarkSucceeded(s)
        BY <1>4, <2>3, PaymentsAssumption DEF Adjust
      <3>2. \A w \in Users : \A n \in DOMAIN ledger[w] : ~Pays(ledger[w][n], p)
        BY <1>2, <2>1, <2>3, <3>1
      <3>3. \A w \in Users : \A n \in DOMAIN ledger'[w] :
                Pays(ledger'[w][n], p) => New(w, n)
        BY <2>2, <3>2
      <3>4. /\ payment'[p] = [owner |-> payment[p].owner,
                              credits |-> payment[p].credits,
                              status |-> "succeeded"]
            /\ payment'[p] # NoPayment
        BY <2>3, <3>1, MarkedPayment, PaymentsAssumption
      <3>5. req[s].user = payment[p].owner /\ row.amount = payment[p].credits
        BY <2>1, <2>3, RowPays, PaymentsAssumption
      <3> QED
        BY <3>3, <3>4, <3>5
    <2>4. CASE confirming[s] # p
      <3>1. ~Pays(row, p)
        BY <2>1, <2>4, RowPays
      <3>2. \A w \in Users : \A n \in DOMAIN ledger'[w] :
                Pays(ledger'[w][n], p) => Old(w, n)
        BY <2>2, <3>1
      <3>3. payment'[p] = payment[p]
        BY <1>2, <1>4, <2>1, <3>2 DEF Adjust, paymentVars
      <3> QED
        BY <3>2, <3>3 DEF CreditedOnce
    <2> QED
      BY <2>3, <2>4
  <1> QED
    BY <1>1, <1>3, <1>4, PaymentSteps

\* A payment is credited at most once, to its owner, and only if it succeeded.
THEOREM PaymentCreditedOnce == PaymentsSpec => []CreditedOnce
  <1>1. PaymentsInit => CreditedOnce
    <2> SUFFICES ASSUME PaymentsInit, NEW u \in Users
                 PROVE  DOMAIN ledger[u] = {}
      BY DEF CreditedOnce
    <2>1. ledger[u] = <<>>
      BY DEF PaymentsInit, BillingInit, CL!LedgerInit
    <2> QED
      BY <2>1
  <1> QED
    BY <1>1, CreditedOnceStep, ConfirmInvariant, PTL DEF PaymentsSpec

-----------------------------------------------------------------------------

\* An adjustment has taken the key of payment p: the row says so, and one of the
\* requests asked for it.
Took(row, p) ==
    row.type = "adjustment" /\ \E r \in Adjustments : r.key = PaymentKey(p)

\* Whatever has the key of a payment in the ledger pays for it or took it.
KeysExplained ==
    \A p \in PaymentIds, u \in Users : \A i \in DOMAIN ledger[u] :
        ledger[u][i].key = PaymentKey(p) =>
            Pays(ledger[u][i], p) \/ Took(ledger[u][i], p)

CreditInv ==
    /\ ConfirmInv
    /\ CreditedOnce
    /\ ExistingPosted
    /\ KeysExplained
    /\ CreditedUnlessKeyTaken

\* Every step keeps the keys in the ledger explained.
LEMMA KeysExplainedStep ==
  ASSUME CreditInv, [PaymentsNext]_paymentsVars
  PROVE  KeysExplained'
  <1>1. ConfirmInv /\ KeysExplained /\ TypeOK /\ ConfirmsAlone /\ PaymentsTypeOK
    BY DEF CreditInv, ConfirmInv, IInv
  <1>2. CASE ledger' = ledger
    BY <1>1, <1>2 DEF KeysExplained
  <1>3. ASSUME NEW s \in Sessions, Commit(s)
        PROVE  KeysExplained'
    <2> SUFFICES ASSUME NEW p \in PaymentIds, NEW u \in Users,
                        NEW i \in DOMAIN ledger'[u],
                        ledger'[u][i].key = PaymentKey(p)
                 PROVE  Pays(ledger'[u][i], p) \/ Took(ledger'[u][i], p)
      BY DEF KeysExplained, Pays, Took
    <2>1. \/ i \in DOMAIN ledger[u] /\ ledger'[u][i] = ledger[u][i]
          \/ ledger'[u][i] = CL!RowFor(req[s], After(s))
      BY <1>1, <1>3, RowsAfterCommit
    <2>2. pc[s] # "idle" /\ req[s] # NoRequest
      BY <1>1, <1>3 DEF Commit, TypeOK
    <2>3. ASSUME req[s].key = PaymentKey(p)
          PROVE  LET row == CL!RowFor(req[s], After(s)) IN
                 Pays(row, p) \/ Took(row, p)
      <3>1. CASE confirming[s] = NoPayment
        <4>1. req[s] \in Adjustments
          BY <1>1, <2>2, <3>1 DEF ConfirmsAlone
        <4> QED
          BY <2>3, <4>1 DEF Adjustments, Took, CL!RowFor
      <3>2. CASE confirming[s] # NoPayment
        <4>1. /\ confirming[s] \in PaymentIds
              /\ req[s].key = PaymentKey(confirming[s])
              /\ Pays(CL!RowFor(req[s], After(s)), confirming[s])
          BY <1>1, <2>2, <3>2, RowPays
        <4>2. confirming[s] = p
          BY <2>3, <4>1, PaymentsAssumption
        <4> QED
          BY <4>1, <4>2
      <3> QED
        BY <3>1, <3>2
    <2>4. CL!RowFor(req[s], After(s)).key = req[s].key
      BY DEF CL!RowFor
    <2> QED
      BY <1>1, <2>1, <2>3, <2>4 DEF KeysExplained
  <1> QED
    BY <1>1, <1>2, <1>3, PaymentSteps

\* Every step keeps succeeded payments credited, or their keys taken.  The row
\* that a confirmation finds is not of its own payment, which is pending.
LEMMA CreditedStep ==
  ASSUME CreditInv, [PaymentsNext]_paymentsVars
  PROVE  CreditedUnlessKeyTaken'
  <1> DEFINE Paid(p) == \E i \in DOMAIN ledger[payment[p].owner] :
                            Pays(ledger[payment[p].owner][i], p)
             Taken(p) == \E u \in Users : \E i \in DOMAIN ledger[u] :
                             /\ ledger[u][i].key = PaymentKey(p)
                             /\ ledger[u][i].type = "adjustment"
             Owed(p) == payment[p] # NoPayment /\ payment[p].status = "succeeded"
  <1>1. /\ ConfirmInv /\ TypeOK /\ PaymentsTypeOK
        /\ \A p \in PaymentIds : Owed(p) => Paid(p) \/ Taken(p)
    BY DEF CreditInv, ConfirmInv, IInv, CreditedUnlessKeyTaken
  <1> SUFFICES ASSUME NEW p \in PaymentIds, Owed(p)' PROVE Paid(p)' \/ Taken(p)'
    BY DEF CreditedUnlessKeyTaken
  <1>2. CASE /\ ledger' = ledger
             /\ payment[p] # NoPayment => payment'[p] = payment[p]
             /\ payment[p] = NoPayment /\ payment'[p] # NoPayment
                    => payment'[p].status = "pending"
    BY <1>1, <1>2 DEF Pays
  <1>3. ASSUME NEW s \in Sessions, MarkSucceeded(s), CommitExisting(s), ledger' = ledger
        PROVE  Paid(p)' \/ Taken(p)'
    <2>1. /\ pc[s] = "existing" /\ confirming[s] \in PaymentIds
          /\ payment[confirming[s]].status = "pending"
          /\ req[s].key = PaymentKey(confirming[s])
      BY <1>1, <1>3, RowPays DEF MarkSucceeded, CommitExisting
    <2>2. CASE confirming[s] = p
      <3>1. CL!Posted(PaymentKey(p))
        BY <2>1, <2>2 DEF CreditInv, ExistingPosted
      <3>2. PICK u \in Users : \E i \in DOMAIN ledger[u] :
                                   ledger[u][i].key = PaymentKey(p)
        BY <3>1 DEF CL!Posted
      <3>3. PICK i \in DOMAIN ledger[u] : ledger[u][i].key = PaymentKey(p)
        BY <3>2
      <3>4. CASE Pays(ledger[u][i], p)
        <4>1. payment[p] = [owner |-> u, credits |-> ledger[u][i].amount,
                            status |-> "succeeded"]
          BY <3>4 DEF CreditInv, CreditedOnce
        <4> QED
          BY <2>1, <2>2, <4>1
      <3>5. CASE Took(ledger[u][i], p)
        BY <1>3, <3>3, <3>5 DEF Took
      <3> QED
        BY <3>3, <3>4, <3>5 DEF CreditInv, KeysExplained
    <2>3. CASE confirming[s] # p
      <3>1. payment'[p] = payment[p]
        BY <1>1, <1>3, <2>3, MarkedPayment
      <3> QED
        BY <1>1, <1>3, <3>1 DEF Pays
    <2> QED
      BY <2>2, <2>3
  <1>4. ASSUME NEW s \in Sessions, Commit(s), MarkSucceeded(s) \/ Adjust(s)
        PROVE  Paid(p)' \/ Taken(p)'
    <2>1. /\ pc[s] # "idle" /\ req[s].user \in Users
      BY <1>1, <1>4 DEF Commit, TypeOK
    <2>2. /\ \A u \in Users : \A i \in DOMAIN ledger[u] :
                 i \in DOMAIN ledger'[u] /\ ledger'[u][i] = ledger[u][i]
          /\ \E i \in DOMAIN ledger'[req[s].user] :
                 ledger'[req[s].user][i] = CL!RowFor(req[s], After(s))
      BY <1>1, <1>4, <2>1, RowsKept
    <2>3. CASE MarkSucceeded(s) /\ confirming[s] = p
      <3>1. payment'[p].owner = req[s].user
        BY <1>1, <2>1, <2>3, MarkedPayment, RowPays DEF MarkSucceeded
      <3>2. Pays(CL!RowFor(req[s], After(s)), p)
        BY <1>1, <2>1, <2>3, RowPays DEF MarkSucceeded
      <3> QED
        BY <2>2, <3>1, <3>2 DEF Pays
    <2>4. CASE ~(MarkSucceeded(s) /\ confirming[s] = p)
      <3>1. payment'[p] = payment[p]
        <4>1. CASE MarkSucceeded(s)
          BY <1>1, <2>4, <4>1, MarkedPayment
        <4>2. CASE Adjust(s)
          BY <4>2 DEF Adjust, paymentVars
        <4> QED
          BY <1>4, <4>1, <4>2
      <3>2. Owed(p) /\ payment[p].owner \in Users
        BY <1>1, <3>1 DEF PaymentsTypeOK, Payment
      <3>3. CASE Paid(p)
        BY <2>2, <3>1, <3>2, <3>3 DEF Pays
      <3>4. CASE Taken(p)
        BY <2>2, <3>4
      <3> QED
        BY <1>1, <3>2, <3>3, <3>4
    <2> QED
      BY <2>3, <2>4
  <1> QED
    BY <1>1, <1>2, <1>3, <1>4, PaymentSteps

\* The invariant that the last two theorems share.
THEOREM CreditInvariant == PaymentsSpec => []CreditInv
  <1>1. PaymentsInit => CreditInv
    <2> SUFFICES ASSUME PaymentsInit PROVE CreditInv
      OBVIOUS
    <2>1. /\ BillingInit /\ payment = [p \in PaymentIds |-> NoPayment]
          /\ confirming = [s \in Sessions |-> NoPayment]
          /\ \A u \in Users : ledger[u] = <<>>
          /\ \A s \in Sessions : pc[s] = "idle" /\ req[s] = NoRequest
      BY DEF PaymentsInit, BillingInit, CL!LedgerInit
    <2>2. ASSUME NEW u \in Users PROVE DOMAIN ledger[u] = {}
      <3>1. ledger[u] = <<>>
        BY <2>1
      <3> QED
        BY <3>1
    <2>3. ConfirmInv
      BY <2>1, InitIInv, PaymentsAssumption
         DEF ConfirmInv, PaymentsTypeOK, ConfirmsAlone
    <2>4. CreditedOnce /\ KeysExplained
      BY <2>2 DEF CreditedOnce, KeysExplained
    <2>5. ExistingPosted
      BY <2>1 DEF ExistingPosted
    <2>6. CreditedUnlessKeyTaken
      BY <2>1 DEF CreditedUnlessKeyTaken
    <2> QED
      BY <2>3, <2>4, <2>5, <2>6 DEF CreditInv
  <1>2. CreditInv /\ [PaymentsNext]_paymentsVars => CreditInv'
    <2> SUFFICES ASSUME CreditInv, [PaymentsNext]_paymentsVars PROVE CreditInv'
      OBVIOUS
    <2>1. ConfirmInv /\ CreditedOnce /\ ExistingPosted /\ IInv /\ TypeOK
      BY DEF CreditInv, ConfirmInv, IInv
    <2>2. ConfirmInv'
      BY <2>1, PaymentsStepBills, PaymentsTypeStep, ConfirmsStep, IInvStep
         DEF ConfirmInv
    <2>3. ExistingPosted'
      BY <2>1, PaymentsStepBills, ExistingStep
    <2> QED
      BY <2>1, <2>2, <2>3, CreditedOnceStep, KeysExplainedStep, CreditedStep
         DEF CreditInv
  <1> QED
    BY <1>1, <1>2, PTL DEF PaymentsSpec

\* A succeeded payment is credited unless an adjustment has taken its key.
THEOREM PaymentCreditedUnlessKeyTaken == PaymentsSpec => []CreditedUnlessKeyTaken
  BY CreditInvariant, PTL DEF CreditInv

\* No adjustment carries the key of a payment.
KeysReserved == \A r \in Adjustments, p \in PaymentIds : r.key # PaymentKey(p)

\* docs/payments.md, line 11, holds for every instance in which adjustments
\* keep off the keys of payments: a succeeded payment has been credited.
THEOREM PaymentCredited ==
  ASSUME KeysReserved
  PROVE  PaymentsSpec => []ConfirmationIsCredited
  <1>1. CreditInv => ConfirmationIsCredited
    <2> SUFFICES ASSUME CreditInv, NEW p \in PaymentIds,
                        payment[p] # NoPayment, payment[p].status = "succeeded",
                        NEW u \in Users, NEW i \in DOMAIN ledger[u],
                        ledger[u][i].key = PaymentKey(p),
                        ledger[u][i].type = "adjustment"
                 PROVE  FALSE
      BY DEF CreditInv, CreditedUnlessKeyTaken, ConfirmationIsCredited
    <2>1. Pays(ledger[u][i], p) \/ Took(ledger[u][i], p)
      BY DEF CreditInv, KeysExplained
    <2> QED
      BY <2>1 DEF Pays, Took, KeysReserved
  <1> QED
    BY <1>1, CreditInvariant, PTL

=============================================================================

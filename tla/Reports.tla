------------------------------- MODULE Reports -------------------------------
(***************************************************************************)
(* What is read: the listings of a user's page, the admin's summary and    *)
(* list of predictions, and the scrape of /metrics with its in-process     *)
(* registry.  A report is several queries, each of which sees what is      *)
(* committed when it runs (READ COMMITTED, or one request per query), and  *)
(* the rest of the service commits in between.  So the figures of one      *)
(* report belong to different moments, and whether they agree depends on   *)
(* the order of the queries.                                               *)
(*                                                                         *)
(* The writers are the commits that modules Payments, PromoCodes and       *)
(* Predictions leave in the tables; the ledger is module CreditLedger.     *)
(* Figures that are counted alone (users, models, promo codes) are left    *)
(* out, and so are the lists that one query fills.                         *)
(***************************************************************************)
EXTENDS CreditLedger, FiniteSets, Functions

CONSTANTS
    Tasks,      \* ids of the rows of prediction_tasks
    Payments,   \* ids of the rows of payments
    Owner,      \* the user of a task or payment
    Price,      \* settings.prediction_price_credits
    Credits,    \* credits_purchased of every payment
    Reward,     \* credits of the promo code
    MaxRows,    \* bound of the model: ledger rows of a user
    Viewer,     \* the user who looks at the page
    Threads,    \* requests that the API process answers, each in its thread
    Status,     \* Status[h]: the status code of the answer to h
    Nothing     \* no such row; no report under way

VARIABLES
    task,       \* task[t]: the status of row t, or Nothing
    payment,    \* payment[p]: the status of row p, or Nothing
    redeemed,   \* users who have redeemed the promo code
    report,     \* the report under way, or Nothing
    got,        \* its figures so far, by the name of the query
    thread,     \* thread[h]: how far h is in record_http_request
    requests,   \* _request_counts by status code
    errors      \* _error_counts by status code

tables == <<balance, ledger, task, payment, redeemed>>
registry == <<thread, requests, errors>>
reportsVars == <<tables, registry, report, got>>

Charge(t) ==
    [user |-> Owner[t], type |-> "prediction_debit", direction |-> "debit",
     amount |-> Price, key |-> <<"prediction", t>>, source |-> t]
Purchase(p) ==
    [user |-> Owner[p], type |-> "payment_credit", direction |-> "credit",
     amount |-> Credits, key |-> <<"payment", p>>, source |-> p]
Grant(u) ==
    [user |-> u, type |-> "promo_credit", direction |-> "credit",
     amount |-> Reward, key |-> <<"promo", u>>, source |-> u]

Adjustments == {r \in Requests : r.type = "adjustment"}

ASSUME ReportsAssumption ==
    /\ \A S \in {Users, Tasks, Payments, Threads} : IsFiniteSet(S)
    /\ MaxCredits \in Nat
    /\ NoRow \notin Int
    /\ {Price, Credits, Reward} \subseteq Nat \ {0}
    /\ \A r \in Adjustments : r.direction \in Directions /\ r.amount \in Nat \ {0}
    /\ \A t \in Tasks : Charge(t) \in Requests /\ Charge(t).key # NoKey
    /\ \A p \in Payments : Purchase(p) \in Requests /\ Purchase(p).key # NoKey
    /\ \A u \in Users : Grant(u) \in Requests /\ Grant(u).key # NoKey
    /\ Viewer \in Users
    /\ \A h \in Threads : Status[h] \in 100..599
    /\ Nothing \notin {"queued", "running", "succeeded", "failed", "pending"}
    /\ Nothing \notin {"summary", "predictions", "detail", "scrape", "page"}

Codes == {Status[h] : h \in Threads}

-----------------------------------------------------------------------------

ReportsInit ==
    /\ LedgerInit
    /\ task = [t \in Tasks |-> Nothing]
    /\ payment = [p \in Payments |-> Nothing]
    /\ redeemed = {}
    /\ report = Nothing
    /\ got = <<>>
    /\ thread = [h \in Threads |-> "serving"]
    /\ requests = [c \in Codes |-> 0]
    /\ errors = [c \in Codes |-> 0]

\* The billing service returns the row that has the key, if there is one.
PostOnce(r) == IF Posted(r.key) THEN UNCHANGED ledgerVars ELSE Post(r)

SetTask(t, from, to) ==
    /\ task[t] \in from
    /\ task' = [task EXCEPT ![t] = to]
    /\ UNCHANGED <<payment, redeemed>>

CreateTask(t) == SetTask(t, {Nothing}, "queued") /\ UNCHANGED ledgerVars

\* A message that is delivered again runs a finished task again.
RunTask(t) == SetTask(t, {"queued", "succeeded", "failed"}, "running") /\ UNCHANGED ledgerVars

\* The run that is last has its way, whatever another one has committed.
SucceedTask(t) == SetTask(t, {"running", "failed"}, "succeeded") /\ PostOnce(Charge(t))
FailTask(t) == SetTask(t, {"running", "succeeded"}, "failed") /\ UNCHANGED ledgerVars

CreatePayment(p) ==
    /\ payment[p] = Nothing
    /\ payment' = [payment EXCEPT ![p] = "pending"]
    /\ UNCHANGED <<ledgerVars, task, redeemed>>

ConfirmPayment(p) ==
    /\ payment[p] = "pending"
    /\ payment' = [payment EXCEPT ![p] = "succeeded"]
    /\ PostOnce(Purchase(p))
    /\ UNCHANGED <<task, redeemed>>

Redeem(u) ==
    /\ u \notin redeemed
    /\ redeemed' = redeemed \cup {u}
    /\ PostOnce(Grant(u))
    /\ UNCHANGED <<task, payment>>

Adjust(r) ==
    /\ Len(ledger[r.user]) < MaxRows
    /\ Post(r)
    /\ UNCHANGED <<task, payment, redeemed>>

\* A refused debit leaves an empty balance to a user who had none.
OpenBalance(u) == Open(u) /\ UNCHANGED <<task, payment, redeemed>>

Write ==
    /\ \/ \E t \in Tasks : CreateTask(t) \/ RunTask(t) \/ SucceedTask(t) \/ FailTask(t)
       \/ \E p \in Payments : CreatePayment(p) \/ ConfirmPayment(p)
       \/ \E u \in Users : Redeem(u) \/ OpenBalance(u)
       \/ \E r \in Adjustments : Adjust(r)
    /\ UNCHANGED <<registry, report, got>>

-----------------------------------------------------------------------------

\* MetricsRegistry: its lock is held from the first update to the last.
Unlocked == TRUE
LockIsFree == \A h \in Threads : thread[h] # "counted"

\* The middleware counts an answer when it is complete ...
CountRequest(h) ==
    /\ thread[h] = "serving"
    /\ LockIsFree
    /\ requests' = [requests EXCEPT ![Status[h]] = @ + 1]
    /\ thread' = [thread EXCEPT ![h] = "counted"]
    /\ UNCHANGED <<tables, report, got, errors>>

\* ... then, under the same lock, whether it was an error.
CountAgain(h) ==
    /\ thread[h] = "counted"
    /\ errors' = [errors EXCEPT ![Status[h]] = IF Status[h] >= 400 THEN @ + 1 ELSE @]
    /\ thread' = [thread EXCEPT ![h] = "serving"]
    /\ UNCHANGED <<tables, report, got, requests>>
CountError(h) ==
    /\ thread[h] = "counted"
    /\ errors' = [errors EXCEPT ![Status[h]] = IF Status[h] >= 400 THEN @ + 1 ELSE @]
    /\ thread' = [thread EXCEPT ![h] = "done"]
    /\ UNCHANGED <<tables, report, got, requests>>

-----------------------------------------------------------------------------

\* What a query finds in the ledger.
RowIds == UNION {{<<u, i>> : i \in DOMAIN ledger[u]} : u \in Users}
RowAt(id) == ledger[id[1]][id[2]]
RowsWith(column, value) == {id \in RowIds : RowAt(id)[column] = value}
Amount(ids) == SumFunctionOnSet([id \in RowIds |-> RowAt(id).amount], ids)

TasksWith(status) == Cardinality({t \in Tasks : task[t] = status})
PaymentsWith(status) == Cardinality({p \in Payments : payment[p] = status})

\* _prediction_costs_by_id.
Cost(t) == Amount(RowsWith("type", "prediction_debit") \cap RowsWith("source", t))

\* The answer to each query, at the moment it runs: of the admin's summary,
SummaryFigures ==
    [tasks_total        |-> Cardinality({t \in Tasks : task[t] # Nothing}),
     tasks_succeeded    |-> TasksWith("succeeded"),
     tasks_failed       |-> TasksWith("failed"),
     debited            |-> Amount(RowsWith("direction", "debit")),
     credited           |-> Amount(RowsWith("direction", "credit")),
     purchased          |-> Credits * PaymentsWith("succeeded"),
     payments_total     |-> Cardinality({p \in Payments : payment[p] # Nothing}),
     payments_succeeded |-> PaymentsWith("succeeded"),
     redemptions_total  |-> Cardinality(redeemed)]

\* of the admin's list of predictions,
PredictionList == [tasks |-> task, costs |-> [t \in Tasks |-> Cost(t)]]

\* of the admin's look at one account,
UserDetail ==
    [user_available    |-> Available(Viewer),
     user_predictions  |-> Cardinality({t \in Tasks : Owner[t] = Viewer /\ task[t] # Nothing}),
     user_payments     |-> Cardinality({p \in Payments : Owner[p] = Viewer /\ payment[p] # Nothing}),
     user_transactions |-> Len(ledger[Viewer])]

\* of the scrape,
HttpFigures == [requests |-> requests, errors |-> errors]
TaskFigures == [x \in {"queued", "running", "succeeded", "failed"} |-> TasksWith(x)]
BillingFigures ==
    [available    |-> SumFunction([u \in Users |-> Available(u)]),
     transactions |-> [x \in Types |-> Cardinality(RowsWith("type", x))]]
DomainFigures ==
    [payments    |-> [x \in {"pending", "succeeded"} |-> PaymentsWith(x)],
     redemptions |-> Cardinality(redeemed)]
Scrape ==
    [http |-> HttpFigures, task_statuses |-> TaskFigures,
     available |-> BillingFigures.available, transactions |-> BillingFigures.transactions,
     payment_statuses |-> DomainFigures.payments, redemptions |-> DomainFigures.redemptions]

\* and of the requests of a user's page.
OwnBalance == Available(Viewer)
OwnTransactions == ledger[Viewer]
OwnPayments == [p \in {x \in Payments : Owner[x] = Viewer} |-> payment[p]]
OwnPredictions == [t \in {x \in Tasks : Owner[x] = Viewer} |-> task[t]]
OwnRedemptions == redeemed \cap {Viewer}
Page ==
    [own_balance |-> OwnBalance, own_transactions |-> OwnTransactions,
     own_payments |-> OwnPayments, own_predictions |-> OwnPredictions,
     own_redemptions |-> OwnRedemptions]

\* What is committed now, to the report that asks.
Answer ==
    CASE report = "summary" -> SummaryFigures
      [] report = "predictions" -> PredictionList
      [] report = "detail" -> UserDetail
      [] report = "scrape" -> Scrape
      [] report = "page" -> Page

\* get_dashboard_summary.
CreditedFirst ==
    <<"tasks_total", "tasks_succeeded", "tasks_failed", "credited", "debited",
      "purchased", "payments_total", "payments_succeeded", "redemptions_total">>
SummaryQueries ==
    <<"tasks_total", "tasks_succeeded", "tasks_failed", "debited", "credited",
      "purchased", "payments_total", "payments_succeeded", "redemptions_total">>

\* list_predictions of the admin.
CostsFirst == <<"costs", "tasks">>
PredictionListQueries == <<"tasks", "costs">>

\* get_user_detail: the balance is a lazy load.
UserDetailQueries ==
    <<"user_available", "user_predictions", "user_payments", "user_transactions">>

\* _load_dashboard_data of the dashboard: one request for each.
TransactionsFirst ==
    <<"own_transactions", "own_balance", "own_payments", "own_predictions", "own_redemptions">>
PageQueries ==
    <<"own_balance", "own_transactions", "own_payments", "own_predictions", "own_redemptions">>

\* render_prometheus_metrics.
BillingBeforeTasks ==
    <<"http", "available", "transactions", "task_statuses", "payment_statuses",
      "redemptions">>
ScrapeQueries ==
    <<"http", "task_statuses", "available", "transactions", "payment_statuses",
      "redemptions">>

Queries == [summary |-> SummaryQueries, predictions |-> PredictionListQueries,
            detail |-> UserDetailQueries, page |-> PageQueries, scrape |-> ScrapeQueries]

Complete == report # Nothing /\ Cardinality(DOMAIN got) = Len(Queries[report])

BeginReport(kind) ==
    /\ report = Nothing
    /\ report' = kind
    /\ UNCHANGED <<tables, registry, got>>

NextQuery == Queries[report][Cardinality(DOMAIN got) + 1]

\* get_balance answers 404 to a user without a balance row: no page.
BalanceMissing == ~Complete /\ NextQuery = "own_balance" /\ balance[Viewer] = NoRow

\* snapshot copies the counters under the lock.
MayAsk == NextQuery = "http" => LockIsFree

\* A query sees what is committed when it runs.
Ask ==
    /\ report # Nothing /\ ~Complete
    /\ ~BalanceMissing
    /\ MayAsk
    /\ got' = [q \in DOMAIN got \cup {NextQuery} |->
                  IF q = NextQuery THEN Answer[q] ELSE got[q]]
    /\ UNCHANGED <<tables, registry, report>>

EndReport ==
    /\ report # Nothing
    /\ Complete \/ BalanceMissing
    /\ report' = Nothing
    /\ got' = <<>>
    /\ UNCHANGED <<tables, registry>>

\* summarize_transactions and build_dashboard_metrics, from the answers of a
\* page.
ShownRows(column, value) ==
    {i \in DOMAIN got.own_transactions : got.own_transactions[i][column] = value}
ShownAmount(rows) ==
    SumFunctionOnSet([i \in DOMAIN got.own_transactions |-> got.own_transactions[i].amount],
                     rows)
PageFigures ==
    [credits_added       |-> ShownAmount(ShownRows("direction", "credit")),
     credits_spent       |-> ShownAmount(ShownRows("direction", "debit")),
     payment_credits     |-> ShownAmount(ShownRows("type", "payment_credit")),
     promo_credits       |-> ShownAmount(ShownRows("type", "promo_credit")),
     successful_payments |-> Cardinality({p \in DOMAIN got.own_payments :
                                              got.own_payments[p] = "succeeded"}),
     promo_redemptions   |-> Cardinality(got.own_redemptions)]

ReportsNext ==
    \/ Write
    \/ \E h \in Threads : CountRequest(h) \/ CountError(h)
    \/ \E kind \in DOMAIN Queries : BeginReport(kind)
    \/ Ask
    \/ EndReport

ReportsSpec == ReportsInit /\ [][ReportsNext]_reportsVars

-----------------------------------------------------------------------------

\* Rows, counters and the figures that a report has so far have their types.
ReportsTypeOK ==
    /\ balance \in [Users -> 0..MaxCredits \cup {NoRow}]
    /\ task \in [Tasks -> {"queued", "running", "succeeded", "failed", Nothing}]
    /\ payment \in [Payments -> {"pending", "succeeded", Nothing}]
    /\ redeemed \subseteq Users
    /\ thread \in [Threads -> {"serving", "counted", "done"}]
    /\ requests \in [Codes -> 0..Cardinality(Threads)]
    /\ errors \in [Codes -> 0..Cardinality(Threads)]
    /\ report \in DOMAIN Queries \cup {Nothing}
    /\ IF report = Nothing
       THEN got = <<>>
       ELSE \E n \in 0..Len(Queries[report]) :
                DOMAIN got = {Queries[report][i] : i \in 1..n}

Shown(kind) == report = kind /\ Complete

\* The admin's list never shows a succeeded prediction as free: its cost is
\* asked for after its status, and the two are committed together.
SucceededHasCost ==
    Shown("predictions") =>
        \A t \in Tasks : got.tasks[t] = "succeeded" => got.costs[t] = Price

\* The numbers of rows in a report agree though they are of different moments:
\* an account with credits is shown with transactions; in a scrape there is a
\* debit for every succeeded prediction, and a succeeded payment and a
\* redemption for every credit that comes from one.
CountsAgree ==
    /\ Shown("detail") => (got.user_available # 0 => got.user_transactions # 0)
    /\ Shown("scrape") =>
           /\ got.task_statuses["succeeded"] <= got.transactions["prediction_debit"]
           /\ got.transactions["payment_credit"] <= got.payment_statuses["succeeded"]
           /\ got.transactions["promo_credit"] <= got.redemptions

\* So do the sums of credits: in the summary the debits cover the succeeded
\* predictions and are covered by the credits; on the cards of a user's page the
\* credits from payments and promo codes are covered by the succeeded payments
\* and the redemptions, and what was spent by what was added.
SumsAgree ==
    /\ Shown("summary") =>
           /\ Price * got.tasks_succeeded <= got.debited
           /\ got.debited <= got.credited
    /\ Shown("page") =>
           /\ PageFigures.payment_credits <= Credits * PageFigures.successful_payments
           /\ PageFigures.promo_credits <= Reward * PageFigures.promo_redemptions
           /\ PageFigures.credits_spent <= PageFigures.credits_added

\* The figures of a report agree, numbers and sums, though each query is
\* answered at its own moment.
FiguresAgree == CountsAgree /\ SumsAgree

\* A user's page explains itself: the balance is the result of a row that is
\* shown, and each row's payment, prediction or redemption is shown as well.
PageExplained ==
    Shown("page") =>
        LET rows == {got.own_transactions[i] : i \in DOMAIN got.own_transactions} IN
        /\ got.own_balance \in {0} \cup {r.after : r \in rows}
        /\ \A r \in rows :
               /\ r.type = "payment_credit" => got.own_payments[r.source] = "succeeded"
               /\ r.type = "prediction_debit" => got.own_predictions[r.source] # Nothing
               /\ r.type = "promo_credit" => Viewer \in got.own_redemptions

\* A scrape sees every answer in both counters or in none, although other
\* threads are counting theirs.
ScrapeIsConsistent ==
    Shown("scrape") =>
        \A c \in Codes :
            got.http.errors[c] = IF c >= 400 THEN got.http.requests[c] ELSE 0

=============================================================================

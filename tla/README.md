# Verification of the ML Prediction Service

TLA+ modules, TLC runs and TLAPS proofs about the service in `src/`: a FastAPI
back end over PostgreSQL (SQLAlchemy), Celery workers behind Redis, and a
Streamlit client.  The back end sells predictions for credits, so the project
starts where a mistake costs money: the balance and its ledger, and the three
components that change them.  The accounts, the model files, the reports and the
client follow.

All paths below are relative to the repository.

## 1. The system

| Component | State it keeps | Operations that change it | Talks to |
| --- | --- | --- | --- |
| `app.billing` | `credit_balances`, `billing_transactions` | credit, debit, admin adjustment | called by payments, promo codes, predictions |
| `app.payments` | `payments` | create, confirm | billing, in one transaction |
| `app.promo_codes` | `promo_codes`, `promo_redemptions` | create, deactivate, redeem | billing, in one transaction |
| `app.predictions` | `prediction_tasks`, messages in Redis | create and enqueue, execute | billing, Celery, model files |
| `app.ml` | `ml_models`, files | upload, validate | file system; read by predictions |
| `app.admin` | account status, model status, files | block a user, delete a model, many reads | all tables |
| `app.users`, `app.auth` | `users`, `roles`; tokens carry no server state | register, local accounts of a start-up, profile, log in | billing (the empty balance) |
| `app.dashboard` | Streamlit session state of each tab | every button and select box: log in and out, top up, predict, upload, and the admin's pages | the REST API only |
| `app.monitoring` | counters behind one lock | count an answer, scrape | every request, all tables |
| `app.core`, `app.db`, `app.api` | settings, engine, sessions | none at run time; `validate_security_settings` at start-up | all |

How they interact.  A request handler or a worker run is one database session
(`db/session.py`: no autoflush, nothing expires on commit) and normally one
transaction; PostgreSQL runs at READ COMMITTED.  Components meet in shared rows:
the balance row of a user, a payment or promo code row, a prediction task that
the API handler and a worker both write.  The API reaches workers only through a
message in Redis.  Locks are always taken in the order payment or promo code,
balance, prediction task.

What is hard, and where it is hard:

- read-modify-write of balances and promo counters in Python, guarded by
  `SELECT ... FOR UPDATE` (`billing/service.py:91`, `promo_codes/service.py:165`);
- an idempotency key that is looked up *before* the balance is locked, so that
  the unique index has the last word (`billing/service.py:87`);
- a billing call in the middle of a larger transaction, failing in one of five
  ways or crashing (`payments/service.py:80`, `promo_codes/service.py:165`);
- credits that are checked when a task is queued and debited when it has run
  (`predictions/router.py:113`, `predictions/service.py:96`);
- three commits and one message in no common transaction
  (`predictions/router.py:135-143`, `predictions/service.py:86,108`), messages
  that are lost or delivered again, workers that end in between;
- files and rows that change in different orders on upload and deletion
  (`ml/router.py`, `admin/router.py:597-603`);
- roles and addresses that are looked up and then inserted, by registrations and
  by start-ups (`users/service.py:36,64,132`), and rows that are written back
  long after they were read (`users/service.py:185`);
- accounts that are checked when a request starts and blocked while it runs
  (`auth/dependencies.py:42`), also by each other (`admin/router.py:518`);
- reports of several queries over tables that change in between
  (`admin/router.py:260,627`, `dashboard/main.py:819`), and two counters that a
  scrape reads while threads count (`monitoring/metrics.py:43`);
- a script that a click can cut off at any statement, between the two calls of a
  top-up (`dashboard/main.py:1437`) or the keys of a log-out (`:1370-1378`), and
  that answers a click with what the page says *now* (`:2203,2390`).

`PROJECT.json` lists each of these hazards at its line with the properties that
cover it.

What makes each component correct:

- billing: a user's ledger rows add up to the balance; a key is posted once;
  nobody overwrites a balance read by another session; every call ends.
- payments: a payment is credited at most once, to its owner, over its credits,
  exactly when it succeeds.
- promo codes: the counter is the number of redemptions and within the limit; one
  credit for each redemption and the other way round; none for inactive codes.
- predictions: a task is charged at most once, and exactly when it succeeds; a
  final status stays; every task gets one.
- ML models: an `uploaded` row has its validated file; no file without a row.
- users: an address is registered once and for good; only a start-up with local
  accounts appoints an administrator; a stale write does not undo a block.  That
  an active administrator always remains is *not* so: the code keeps an admin from
  blocking himself, but two admins can block each other.  What holds is that the
  last one is only blocked by a request of an admin who was blocked while it ran.
- reports and metrics: figures of different moments agree where a reader would
  add them up, and a scrape sees an answer in both counters or in neither.
- dashboard: a tab keeps what its account owns; one click, one top-up; a click
  does what its button said, to the row that was chosen.

## 2. Modules

| Module | Models | Built on |
| --- | --- | --- |
| `CreditLedger` | the promise of billing: balances and ledgers without sessions | - |
| `Billing` | billing calls, statement by statement, in concurrent sessions | refines `CreditLedger` |
| `BillingProofs` | theorems about `Billing` | `Billing` |
| `Payments` | payments, and adjustments beside them | extends `Billing` |
| `PaymentsProofs` | theorems about `Payments` | `Payments`, `BillingProofs` |
| `PromoCodes` | promo codes, a clock, and adjustments beside them | extends `Billing` |
| `PromoCodesProofs` | theorems about `PromoCodes` | `PromoCodes`, `BillingProofs` |
| `Predictions` | API handler, broker, workers, and adjustments beside them | extends `Billing` |
| `PredictionsProofs` | theorems about `Predictions` | `Predictions`, `BillingProofs` |
| `ModelStore` | model files and their rows: upload, deletion, use | - |
| `ModelStoreProofs` | theorems about `ModelStore` | `ModelStore` |
| `Directory` | the promise of users: who is registered, blocked, administrator | - |
| `Accounts` | registrations, profiles, status changes and start-ups in concurrent sessions | refines `Directory` |
| `AccountsProofs` | theorems about `Accounts` | `Accounts` |
| `Reports` | reports of several queries, and the metrics registry, beside writers | extends `CreditLedger` |
| `ReportsProofs` | theorems about `Reports` | `Reports` |
| `Dashboard` | one browser tab: script runs, clicks, session state, API calls | - |
| `DashboardProofs` | theorems about `Dashboard` | `Dashboard` |
| `MC...` | instances for TLC | each its module |

### CreditLedger

State: `balance[u]` (or `NoRow`) and `ledger[u]`, the rows of each user in order.
Two actions: `Open` creates an empty balance, `Post` changes one balance and
appends its row.  This is what `docs/billing.md` and `docs/database.md` describe.

### Billing

`balance` and `ledger` are what is committed.  A session `s` has `pc[s]`, its next
statement, `req[s]`, the arguments of its call, and `seen[s]`, the balance it read
under the lock.  What is not committed is a function of these: a session at
`flushed` has updated the balance to `After(s)` and inserted a ledger row that no
one else sees.

| Action | Code |
| --- | --- |
| `Begin` | a caller enters `credit_user_balance` or `debit_user_balance` |
| `GetExistingTransaction` | the search by key; NULL and empty keys are skipped, only committed rows are seen |
| `LockBalance` | `SELECT ... FOR UPDATE`; waits for a holder, sees no uncommitted row |
| `CreateBalance`, `TargetNotFound`, `BalanceConflict` | the fallback `INSERT`, no such user, somebody was first |
| `PostTransaction`, `KeyConflict`, `Overflow` | the flush: it waits for a key in flight, fails for a posted key or a value that does not fit |
| `Refuse`, `CloseRefused`, `CommitRefused` | `InsufficientCreditsError`; the admin handler rolls back, the worker commits |
| `Commit`, `CommitExisting` | the caller's commit |
| `Crash` | rollback at any point |

Retries need no action of their own: a client that repeats a call begins again,
with the same key or without.

### Payments, PromoCodes

The row lock that a handler takes first (`confirming`, `redeeming`) lasts as long
as its session, so locking, checking and entering the billing call are one step,
and what is flushed before the billing call becomes visible in the step that
commits.  That step is one with the billing `Commit` or `CommitExisting`; every
error and crash abandons both.  A refused request changes nothing and is no step.
`redeeming` also keeps the counter that was read, because the code writes that
value plus one.  Admin adjustments run beside, so that their keys and balances
interfere.  The title of a ledger row, currencies, cents and the `mock_` provider
id are left out: nothing reads them.

### Predictions

`task[t]` is the committed row (status, whether there is a result, whether the
Celery id is stored), `api[t]` the progress of the handler that creates it,
`copies[t]` the messages in the broker and `working[s]` the run of a worker
session: its task, its stage and the row it last read.  SQLAlchemy updates only
columns that differ from what was read, which `WriteChanged` models; that is what
lets the handler store its Celery id while a worker finishes the task.  Model
execution is a choice between `ModelFails` and `ModelSucceeds`.  Celery runs with
its defaults (`core/celery_app.py`): a message is acknowledged when a worker
starts it.  `Faults` says what an instance allows: `api` (a handler ends early),
`broker` (a message cannot be sent), `worker` (a worker ends in a run),
`redelivery` (the visibility timeout puts a waiting message in the queue again).

### ModelStore

`file[m]` is what lies under the path of an upload, `row[m]` its committed status.
`upload[m]`, `deletion[d]` and `run[r]` say how far `create_model`, `delete_model`
and a prediction are, each between two steps that others can see: file opened,
file written, row committed, file unlinked.  Every upload has a file name of its
own (a UUID), so uploads meet only deletions and predictions.  An `except` block
that unlinks may itself fail (`Discard`, `InsertFails`), and a commit that raises
may have happened.  `Faults` are `process`, `database` and `disk`.  The last stages
say how a request ended: an upload has `failed` with its file removed, or `kept` it
because the unlink failed, or `crashed`; a deletion has `ended` before its unlink or
was `cut` between that and its commit.

### Directory, Accounts

`roles` and `account[e]` are the committed rows, of an address `e`.  A session has
its next statement `pc[s]`, its call, the rows it has `read` and the role it has
flushed without committing it, `newRole[s]`.  That role is the one flush that
comes before the commit (`ensure_role`), so another session that needs the role
does not see it, waits at its own flush (`RoleInFlight`) and then fails with an
`IntegrityError` (`RoleConflict`) or, after a rollback, succeeds.  As in
`Predictions` a commit writes the columns that differ from those read
(`WriteColumns`): a profile update leaves `is_active` alone.

| Action | Code |
| --- | --- |
| `RegisterUser`, `FindEmail`, `CommitUser`, `DuplicateUser` | `create_user`: the check for the address, the insert, the unique index |
| `FindRole`, `FlushRole`, `RoleConflict` | `ensure_role`, in a registration or a start-up |
| `StartUp`, `LoadLocalAccount`, `CommitLocalAccounts` | `lifespan`: the transaction of the local admin, then that of the demo users |
| `UpdateMe`, `SaveProfile` | `PATCH /users/me` |
| `UpdateUserStatus`, `LoadTarget`, `SaveStatus` | `PATCH /admin/users/{user_id}/status`; nobody blocks himself |
| `Abort` | the process or the connection ends |

`Begin` reads the account of the token with the conditions of `get_current_user`.
`Directory` has no sessions: `Register`, `Block`, `Unblock` and `Restore`, the last
being one transaction of a start-up.  The mapping reads `registered`, `blocked` and
`admins` off the committed rows; every statement before a commit is a stutter.

### Reports

`report` is the report under way and `got` its figures so far, by query.  `Ask` runs
the next query of `Queries[report]` against what is committed at that moment, and
the writers, the commits of the other modules on top of `CreditLedger`, go on in
between.  The kinds are the admin's `summary`, list of `predictions` and user
`detail`, a user's `page` (one request per list, put together by the dashboard) and
the `scrape` of `/metrics`.  The registry is `thread[h]`, how far an answer is in
`record_http_request`, and two counters; `counted` is the time between the two
updates, during which the lock is held.

### Dashboard

Streamlit runs `main` from the top for every click.  A click waits (`waiting`) until
`Begin` starts its run, which cuts off one that is still going: between any two
steps, because an API call or an access to `st` is a step.  `run` holds what was
clicked and the page it was clicked on (`from`), `pc` is the next statement, `state`
the keys of `st.session_state` that outlive a run, `screen` what is drawn.  A
button fires if the new run draws one of the same identity (`Fires`).  A select box
changes on the screen at the click and is sent with it (`Click`); it keeps its value
while its options are the same (`Choice`, `Drawn`).  Each API call is
carried out and answered, carried out and not answered (`NoAnswer`), or refused.
`Elsewhere` is what other clients and the workers do to the same tables (they
register, block and unblock, upload, delete models, create, deactivate and redeem
codes, finish tasks), and the expiry of the token.  `topUps`, `thanks` and `cutOff` are
history: clicks on the top-up button, messages that thank for one, and whether a
log-out was cut off, since a reload or a complete log-out.

## 3. Runs

| Run | Checks | Distinct states |
| --- | --- | --- |
| `billing_safety` | types, `LedgerExplainsBalance`, `KeysPostedOnce`, `NoLostUpdate`, `FlushedCanCommit`, and that Billing implements `CreditLedger` | 117 000 |
| `payments` | types, `ConfirmsAlone`, `CreditedOnce`, `CreditedUnlessKeyTaken` | 192 000 |
| `promo_codes` | types, `CountMatches`, `GrantsMatchRedemptions`, `RedeemedWhileActive` | 430 000 |
| `predictions_single` | types, `OutcomeAgrees`, `OutcomeIsFinal`, without redelivery but with every other fault | 127 000 |
| `predictions_redelivery` | `ChargedOnce`, `SucceededIsCharged`, `TasksFinish`, `CallsEnd`, with two deliveries and a key in flight on two balances | 162 000 |
| `predictions_failed_charged` | finds `FailedIsNotCharged` violated by a redelivery | - |
| `predictions_queued_lost` | finds `QueuedIsEnqueued` violated when the broker refuses | - |
| `predictions_worker_lost` | finds `TasksFinish` violated when a worker ends | - |
| `model_store` | types, `UploadedHasFile`, `NoFileLeftBehind`, `MissingFileExplained`, under all faults | 64 000 |
| `accounts` | types, `FlushedRoleIsFree`, that Accounts implements `Directory`, `BlockedStaysBlocked`, `LastAdminBlockedByBlocked`, `BlockedFallsSilent` under strong fairness | 223 000 |
| `reports` | types, `SucceededHasCost`, `FiguresAgree`, `PageExplained`, `ScrapeIsConsistent` | 1 804 000 |
| `dashboard` | types, `KeptIsOwn`, `TopUpsAddUp`, `ClickKeepsItsWord` | 2 075 000 |

Every property of a passing run has a mutant in `PROJECT.json`: a definition with
a bug that someone could write, under which TLC finds that property violated.  The
mutated forms stand before the definitions they would replace.

Bounds.  `Billing` runs with three sessions (a holder, a waiter and one that slips
in between), two users, `MaxCredits = 3` in place of the integer limit, so that
both zero and overflow are reached, and `MaxRows = 3`.  `MaxRows` stops new calls
on a long ledger and nothing else: rows only matter through the last balance and
the set of keys.  The requests are chosen to collide: one key on two users, keyed
and unkeyed, blank key, no user, a prediction's debit.  `Payments` and
`PromoCodes` need two sessions and two rows to have both a race for one row and
for one balance; the clock of `PromoCodes` runs through before, within and after
the validity windows.  `Predictions` has two tasks of one user that compete for
the same credits when messages come once.  With redelivery it has one task with
two deliveries, so that two workers run it at once, and admins who post one key on
the balances of two users, so that a call waits for a key while others wait for
its balance.  `ModelStore` has two models, so that requests can mix them up, and two
deletions that may be of one model.  `Accounts` has an administrator from before,
the local administrator and a demo user, all of which visitors may try to
register, and two sessions: every race in the code is one of two.  `Reports` has
one user, task and payment: what a report can get wrong is one commit between two
of its queries, or several in a row.  Two threads, one with an error, count
answers.  `Dashboard` has a user and an admin who share a tab, a user who registers
while it is open, five clicks (log in, act, log out, log in as another, act), one
event elsewhere and at most two rows in the tables.

Deadlock is checked except in `model_store`, whose requests happen once and then
all have ended, and in `dashboard`, whose clicks are bounded: a tab without
another click has nothing to do.  Symmetry is used on sessions, and on models and
requests in `ModelStore`, and not in runs with liveness.

Fairness.  A session's statements are strongly fair: the process executes its
next statement, and PostgreSQL serves the waiters of a row, or of a value that a
unique index holds, in the order they came, so a statement that is enabled again
and again happens.  Nothing makes a client begin a call, an admin adjust or block,
a message come twice or a process crash.  For predictions, weak fairness of the
handler after the task is stored, and strong fairness of taking a message: the
worker pool returns to the queue.  For accounts, strong fairness of `Continue(s)`,
the statements of a handler that runs.

## 4. Findings

Three statements of the documentation are not what the code does:

1. `docs/billing.md:11`, "A failed prediction does not debit credits": a second
   delivery runs a succeeded task again (`predictions/service.py:84`), and when
   that run fails the task is `failed` and charged.
2. `docs/predictions.md:35`, `queued` means "API accepted the request and
   enqueued worker execution": the row is committed before the message is sent
   and stays when sending fails (`predictions/router.py:135-141`).
3. `docs/predictions.md:12`, "The task becomes `succeeded` ... or `failed`": not
   when the worker ends in the run, whose message was acknowledged at its start.

Some properties are weaker than a reader may expect, because the code does less:

- `CreditedUnlessKeyTaken`.  An admin adjustment may carry any idempotency key; if
  it is `payment:<id>:credit`, the confirmation takes that row for its own
  (`billing/service.py:87-89`) and credits nothing, where `docs/payments.md:11` says
  that a successful confirmation creates a `payment_credit` row.  The theorem
  `PaymentCredited` says when it does.
- `LastAdminBlockedByBlocked`.  Two admins who block each other at once both
  succeed, and no request can undo it; a start-up with local accounts can.
- `FlushedRoleIsFree`.  The commit of a role is safe, its flush is not: of two
  first registrations one may get an unhandled `IntegrityError`, status 500.
- `ClickKeepsItsWord`.  The select boxes of users and models have no key; when the
  list has changed since the page was drawn they are new ones and stand at the first
  option, and the click hits that row (`dashboard/main.py:2390`).  The property says
  exactly that: the row chosen, or the first one when the list has changed, and
  always what the button said.
- `KeptIsOwn`.  A click between the keys of a log-out leaves the predictions
  of one account for the next, until a reload or a complete log-out.  Success
  messages outlive a log-out in any case.
- `TopUpsAddUp`.  A confirmation whose answer is lost is reported as a failed
  top-up, though it is credited; a user who clicks again buys again.
- A tab whose token has expired, or whose account was blocked, shows an error
  without a log-out button (`LoadUser`); reloading the page helps.

## 5. Proofs

`BillingProofs` proves for all users, sessions, requests and limits
(`BillingAssumption` is all that is assumed: positive amounts, the two
directions and four types, and distinct special values):

- `InductiveInvariant`: `IInv`, the conjunction of the type invariant and the four
  safety invariants.  None is inductive alone.  That the ledger explains the
  balance at a commit needs that the value read is still current
  (`NoLostUpdate`), that keys are unique needs that a flushed key is free
  (`FlushedCanCommit`), and that in turn needs the waiting for keys in flight.
- `TypeCorrect`, `LocksProtectBalances`, `FlushedCommits`, `LedgerCorrect`,
  `KeysIdempotent`: its parts.
- `WaitsAlwaysEnd`: no circle of waits among any number of sessions.  What a session
  waits for can go on, or is a balance whose holder waits for a key, and then the
  holder of that key can.  `CanGoOn` spells out when a statement is possible.
- `Refinement`: `BillingSpec => CL!LedgerSpec`.  A `Commit` is a `Post`, a
  `CommitRefused` with a new balance row an `Open`, everything else a stutter.

The lemmas have one step for each action; `CallEnds`, `CallContinues`,
`RowsAfterCommit` and `RowsKept` say once what a step does to sessions and rows.

`PaymentsProofs` (with `PaymentsAssumption`: positive credits, keys of payments
are distinct):

- `PaymentsImplementBilling`: `PaymentsSpec => BillingSpec`, so that all of the
  above holds for payments too.
- `PaymentLocked`: whoever confirms is alone with a pending payment and credits
  what its row says.
- `PaymentCreditedOnce`, `PaymentCreditedUnlessKeyTaken`: from the lock and the
  step of the commit.  The second needs `KeysExplained`, that what has a payment's
  key in the ledger pays for it or is an adjustment, because a confirmation that
  finds its key posted trusts it.
- `PaymentCredited`: the sentence of `docs/payments.md:11` for every instance in
  which no adjustment uses the key of a payment.

`ModelStoreProofs` (any models, requests and faults): `StoreInv` adds to the types
and the three invariants what the stage of an upload says of its file and row
(`UploadStands`), because nobody but the upload can have touched them before the
commit, and that a request that has begun names a model.  An `uploaded` row lacks its
file exactly when the file was removed first (`RemovedFirst`): by an upload that
fails after its commit, or by a deletion that does not reach its own.  `OfferedHasFile`,
`NothingLeftBehind` and `MissingExplained` are its parts.

`AccountsProofs` (`AccountsAssumption`: the accounts of a start-up are distinct from
each other and its demo users are no founders): `AccountsInv` says what a session
may still believe of the rows that it has read: they exist, and who was an
administrator is one (`ReadsStand`).  From it:

- `FlushedRoleStaysFree`: a flushed role is nobody else's until its session ends.
- `BlockedIsNotUndone`: a commit writes only columns that differ from those read,
  so that a profile update never writes back an old `is_active`.
- `LastAdminIsNotBlockedByActive`.
- `AccountsImplementDirectory`: `AccountsSpec => ImplementsDirectory`.  One lemma for
  each kind of commit says which action of `Directory` it shows as; every other
  statement is a stutter.

`PredictionsProofs` (`PredictionsAssumption`: keys of debits are distinct and not blank):

- `PredictionsImplementBilling`: `PredictionsSpec => BillingSpec`.
- `PredictionChargedOnce`: at most one debit for each task, for any number of
  deliveries, crashes and adjustments: rows that charge for a task have its key
  (`ChargeRows`), and keys are unique.
- `PredictionChargedUnlessKeyTaken`: what can be said of every instance.
  `PredictionCharged` is `SucceededIsCharged` for those in which no adjustment
  carries the key of a debit (`DebitKeysReserved`).
- `FinalStaysFinal`, `OutcomesAgree` for instances without redelivery
  (`DeliveredOnce`).  Their invariant says that one run at a time is on its way to
  the outcome of a task, and what handler and worker have read of the row.

`PromoCodesProofs` (`PromoAssumption`: keys of grants are distinct):

- `PromoCodesImplementBilling`: `PromoSpec => BillingSpec`.
- `CounterCounts`, `CommittedWhileActive`: a session that redeems holds on to what it
  has validated (`Holding`): it has the code to itself, and the counter that it
  read and will write plus one is the committed one.
- `RedemptionsCredited`: needs that what has the key of a grant in the ledger is that
  grant or an adjustment (`GrantKeysExplained`).
- `RedemptionCredited`: the sentence of `docs/promo-codes.md` for instances in
  which no adjustment carries the key of a grant (`GrantKeysReserved`).

`ReportsProofs` (`ReportsAssumption`: users, tasks, payments and threads are finitely
many, and what the writers post has its types and a key): `ReportsInv` is about the
tables: rows are backed by what they are for, keys are unique, the last row says
the balance, and the counters of the registry are the numbers of the threads that
have got so far.

- `ScrapeConsistent`: with the lock free, no answer is in one counter only.
- `PageExplains`, `SucceededShownWithCost`, `CountsAlwaysAgree`, `SumsAlwaysAgree` (the
  two halves of `FiguresAlwaysAgree`): each figure is bounded by the tables until
  the figure that bounds it is asked for, and by that figure from then on; the
  tables only grow.  This is why the order of the queries matters, and it is the
  shape of `PageInv`, `CostInv`, `DetailInv`, `ScrapeCounts`, `SummaryInv` and
  `CardsInv`.  All but `PageExplains` assume `DebitKeysReserved`.
- That debits are covered by credits comes from `Balanced`: what any group of users
  was credited is what it was debited and what it has.  The lemmas about sums over
  finite sets are proved by taking a smallest set for which they fail.

`DashboardProofs` (`DashboardAssumption`: roles, distinct rows at the start, and
`None` is no account or row): `TabInv` holds of every state of a tab.  It says what
is drawn and clicked (`TabOK`: a screen is of the account logged in, a click was
made on a page that has the button), where the script is (`PlaceOK`: the payment
that it confirms is pending and the account's), how the page under way compares
with the page that was clicked (`LoadedOK`), and that nobody logs in or out from
somebody else's screen (`InAndOut`).  From it:

- `ClicksKeepTheirWord`: by `LoadedOK`, the choice of the new run is that of the click,
  or the first row when the options have changed.
- `KeptAlwaysOwn`: `KeptInv` says the same in a log-out, which removes the token first,
  so that what is left then is nobody's.
- `TopUpsAlwaysAddUp`: `TopUpsInv` counts, beside the payments there are, those that
  clicks are still to make (`Due`): a waiting click and the run.

Where a theorem has a hypothesis (`DebitKeysReserved`, `GrantKeysReserved`,
`DeliveredOnce`, or that no adjustment has a payment's key), the code does not
ensure it: section 4 says what happens without it.  The runs that check the
property are instances in which the hypothesis holds; `payments` and `promo_codes`,
whose properties allow for it, have an adjustment that takes such a key.

Only model-checked: liveness (`CallsEnd`, `TasksFinish`, `BlockedFallsSilent`), which
is out of reach of the prover.  `CallsEnd` is checked with two sessions, where a call
waits for a balance or for a key; the chain of three, a waiter, a holder that waits
and the session that has flushed the key, is what `WaitsAlwaysEnd` is about.  Every invariant, every action property and both
refinements that a passing run checks are theorems.

## 6. Not modelled

- Formats: response schemas, ordering, pagination, charts, parsing of CSV files,
  filters and confirmation boxes of the dashboard.
- Listings of a single query, the admin's feed of events, activity, log files and
  settings, the service probe and the health endpoints: they read once, or nothing
  that the service changes.
- Signing of tokens and hashing of passwords: no state on the server.
- The Celery result backend: nothing reads it.
- Migrations: one, which creates the schema of `db/models.py` before the service
  runs.
- Deadlock detection of PostgreSQL: the lock order is the same everywhere, so
  no cycle of waits arises (`WaitsAlwaysEnd` and `CallsEnd` cover keys and balances).

Four differences to the code are deliberate.  Users have or lack a balance row
at the start: registration always creates one, but the fallback of
`get_credit_balance` exists for databases where it is missing.  Users are
never deleted, as no operation of the service does that.  In `Dashboard` the pages
that only read are represented by one, "AdminOverview".  And when a form fails, the
buttons drawn below it in that run stay on the screen as they were.

## 7. Plan

Done: all components that change state, the reports that read several tables, and
the proofs of section 5.  Next:

1. One module that composes the front ends over one `Billing`, to replace the
   adjustments that stand for "everybody else" in each of them.  Payments,
   promo codes and predictions meet only in keys and balances, which the
   theorems about `Billing` and the `...Explained` invariants already separate.
2. That a key names one purpose, from the way the code forms it (`payment:`,
   `prediction:`, `promo:`), in place of the assumptions that say so.

Every module keeps parameters as CONSTANTS with a named assumption, one action for
each operation, and invariants as conjunctions of named parts, and none uses
RECURSIVE, so that each can be proved about.

----------------------------- MODULE Predictions -----------------------------
(***************************************************************************)
(* app.predictions with app.billing, Celery and Redis.  The API checks the *)
(* balance, stores a task and hands its id to the broker; a worker process *)
(* executes the model and finishes the task, and charges for it, in one    *)
(* transaction.  Admin adjustments change the balances meanwhile.          *)
(*                                                                         *)
(* SQLAlchemy writes only the columns whose value differs from the one the *)
(* session has read, so a session keeps what it read (base) until it       *)
(* commits.  Faults says which faults an instance allows.                  *)
(***************************************************************************)
EXTENDS Billing

CONSTANTS
    Tasks,        \* ids of the rows of prediction_tasks
    Owner,        \* Owner[t]: the user whose request t is
    Price,        \* settings.prediction_price_credits
    DebitKey(_),  \* the string "prediction:{id}:debit"
    Faults,       \* the faults that may happen, see FaultKinds
    MaxCopies,    \* bound of the model: copies of a message ever delivered
    NoTask        \* no such row; a session that is no worker's

VARIABLES
    task,         \* task[t]: the committed row t, or NoTask
    api,          \* api[t]: what the request that creates t has done
    copies,       \* copies[t]: messages for t in the broker
    sent,         \* sent[t]: messages for t so far, redelivered ones included
    working       \* working[s]: the worker's run in session s, or NoTask

predictionVars == <<task, api, copies, sent, working>>
predictionsVars == <<billingVars, predictionVars>>

\* "api" a request handler ends early, "broker" a message cannot be sent,
\* "worker" a worker process ends, "redelivery" a message is delivered again.
FaultKinds == {"api", "broker", "worker", "redelivery"}

Charge(t) ==
    [user |-> Owner[t], type |-> "prediction_debit", direction |-> "debit",
     amount |-> Price, key |-> DebitKey(t), source |-> t]

Statuses == {"queued", "running", "succeeded", "failed"}
TaskRow == [status: Statuses, result: BOOLEAN, celery: BOOLEAN]
Terminal == {"succeeded", "failed"}

\* What a worker session works on, how far it is, and the row it last read.
WorkerStages == {"loaded", "marked", "executing", "charging"}
Run == [task: Tasks, stage: WorkerStages, base: TaskRow]

ASSUME PredictionsAssumption ==
    /\ Owner \in [Tasks -> Users]
    /\ Price \in Nat \ {0}
    /\ \A t \in Tasks : Charge(t) \in Requests
    /\ \A t \in Tasks : DebitKey(t) \notin {NoKey, BlankKey}
    /\ \A t, v \in Tasks : DebitKey(t) = DebitKey(v) => t = v
    /\ Faults \subseteq FaultKinds
    /\ MaxCopies \in Nat \ {0}
    /\ NoTask \notin TaskRow
    /\ NoTask \notin Run

-----------------------------------------------------------------------------

Stored(t) == task[t] # NoTask

\* A worker that has flushed its result holds the task row until it commits.
TaskLockFree(t) ==
    \A s \in Sessions :
        working[s] # NoTask /\ pc[s] = "flushed" => working[s].task # t

\* What a flush leaves in a row: the columns whose value is not the one read.
WriteChanged(row, base, new) ==
    [c \in DOMAIN row |-> IF new[c] # base[c] THEN new[c] ELSE row[c]]

\* What the worker of s writes when the run ends with this outcome.
FinishUnclosed(s, status, result) ==
    LET w == working[s] IN
    /\ task' = [task EXCEPT ![w.task] = WriteChanged(@, w.base,
           [w.base EXCEPT !.status = status, !.result = result])]
    /\ UNCHANGED <<api, copies, sent, working>>
Finish(s, status, result) ==
    LET w == working[s] IN
    /\ task' = [task EXCEPT ![w.task] = WriteChanged(@, w.base,
           [w.base EXCEPT !.status = status, !.result = result])]
    /\ working' = [working EXCEPT ![s] = NoTask]
    /\ UNCHANGED <<api, copies, sent>>

-----------------------------------------------------------------------------

PredictionsInit ==
    /\ BillingInit
    /\ task = [t \in Tasks |-> NoTask]
    /\ api = [t \in Tasks |-> "none"]
    /\ copies = [t \in Tasks |-> 0]
    /\ sent = [t \in Tasks |-> 0]
    /\ working = [s \in Sessions |-> NoTask]

Api(t, from, to) ==
    /\ api[t] = from
    /\ api' = [api EXCEPT ![t] = to]

\* require_sufficient_credits reads the balance without a lock.  A request that
\* is refused here, or before for its model or its rows, stores nothing.
CheckCredits(t) ==
    /\ Api(t, "none", "checked")
    /\ CL!Available(Owner[t]) >= Price
    /\ UNCHANGED <<billingVars, task, copies, sent, working>>

StoreTask(t) ==
    /\ Api(t, "checked", "stored")
    /\ task' = [task EXCEPT
           ![t] = [status |-> "queued", result |-> FALSE, celery |-> FALSE]]
    /\ UNCHANGED <<billingVars, copies, sent, working>>

\* apply_async, after the task row is committed.
EnqueueElsewhere(t) ==
    /\ Api(t, "stored", "published")
    /\ sent' = [sent EXCEPT ![t] = 1]
    /\ UNCHANGED <<billingVars, task, copies, working>>
Enqueue(t) ==
    /\ Api(t, "stored", "published")
    /\ copies' = [copies EXCEPT ![t] = 1]
    /\ sent' = [sent EXCEPT ![t] = 1]
    /\ UNCHANGED <<billingVars, task, working>>

\* The handler commits celery_task_id, and only that column.
SaveWholeRow(t) ==
    /\ Api(t, "published", "done")
    /\ TaskLockFree(t)
    /\ task' = [task EXCEPT
           ![t] = [status |-> "queued", result |-> FALSE, celery |-> TRUE]]
    /\ UNCHANGED <<billingVars, copies, sent, working>>
SaveCeleryId(t) ==
    /\ Api(t, "published", "done")
    /\ TaskLockFree(t)
    /\ task' = [task EXCEPT ![t].celery = TRUE]
    /\ UNCHANGED <<billingVars, copies, sent, working>>

\* The broker refuses the message: the handler answers 500, the row stays.
EnqueueFails(t) ==
    /\ "broker" \in Faults
    /\ Api(t, "stored", "done")
    /\ UNCHANGED <<billingVars, task, copies, sent, working>>

\* The API process or its database connection ends.
ApiCrash(t) ==
    /\ "api" \in Faults
    /\ \E stage \in {"checked", "stored", "published"} : Api(t, stage, "done")
    /\ UNCHANGED <<billingVars, task, copies, sent, working>>

\* A message that no worker has started outlives the visibility timeout.
Redeliver(t) ==
    /\ "redelivery" \in Faults
    /\ copies[t] > 0
    /\ sent[t] < MaxCopies
    /\ copies' = [copies EXCEPT ![t] = @ + 1]
    /\ sent' = [sent EXCEPT ![t] = @ + 1]
    /\ UNCHANGED <<billingVars, task, api, working>>

-----------------------------------------------------------------------------

\* A worker takes a message, which Celery acknowledges before the task runs,
\* and execute_prediction_task reads the row.
LoadTask(s, t) ==
    /\ pc[s] = "idle"
    /\ working[s] = NoTask
    /\ copies[t] > 0
    /\ copies' = [copies EXCEPT ![t] = @ - 1]
    /\ working' = [working EXCEPT
           ![s] = [task |-> t, stage |-> "loaded", base |-> task[t]]]
    /\ UNCHANGED <<billingVars, task, api, sent>>

\* It commits status running, whatever the status was.
MarkRunning(s) ==
    LET w == working[s] IN
    /\ w # NoTask
    /\ w.stage = "loaded"
    /\ TaskLockFree(w.task)
    /\ task' = [task EXCEPT ![w.task] =
           WriteChanged(@, w.base, [w.base EXCEPT !.status = "running"])]
    /\ working' = [working EXCEPT ![s].stage = "marked"]
    /\ UNCHANGED <<billingVars, api, copies, sent>>

\* session.refresh: from here on the row as read now is the base.
RefreshTask(s) ==
    LET w == working[s] IN
    /\ w # NoTask
    /\ w.stage = "marked"
    /\ working' = [working EXCEPT
           ![s] = [task |-> w.task, stage |-> "executing", base |-> task[w.task]]]
    /\ UNCHANGED <<billingVars, task, api, copies, sent>>

\* The artifact cannot be loaded, or predict raises: committed as failed.
ModelFails(s) ==
    /\ working[s] # NoTask
    /\ working[s].stage = "executing"
    /\ TaskLockFree(working[s].task)
    /\ Finish(s, "failed", FALSE)
    /\ UNCHANGED billingVars

\* predict returns: debit_prediction_success is called with the result at hand.
ModelSucceeds(s) ==
    /\ working[s] # NoTask
    /\ working[s].stage = "executing"
    /\ Begin(s, Charge(working[s].task))
    /\ working' = [working EXCEPT ![s].stage = "charging"]
    /\ UNCHANGED <<task, api, copies, sent>>

\* The second commit of execute_prediction_task: result, status and debit.  If
\* the key had been charged before (CommitExisting), result and status only.
CommitSucceeded(s) ==
    /\ working[s] # NoTask
    /\ Commit(s) \/ CommitExisting(s)
    /\ Finish(s, "succeeded", TRUE)

\* InsufficientCreditsError is caught: the task is committed as failed.
DeliverUnpaid(s) ==
    /\ working[s] # NoTask
    /\ CommitRefused(s)
    /\ Finish(s, "succeeded", TRUE)
RetryInsufficient(s) ==
    /\ working[s] # NoTask
    /\ pc[s] = "refused"
    /\ Goto(s, "lock")
    /\ UNCHANGED <<seen, predictionVars>>
CommitInsufficient(s) ==
    /\ working[s] # NoTask
    /\ CommitRefused(s)
    /\ Finish(s, "failed", FALSE)

\* Any other error of the debit ends the session at its last commit: the row
\* stays as it was, its message is gone.
AbandonRun(s) ==
    /\ working[s] # NoTask
    /\ Fail(s)
    /\ working' = [working EXCEPT ![s] = NoTask]
    /\ UNCHANGED <<task, api, copies, sent>>

WorkerCrash(s) ==
    /\ "worker" \in Faults
    /\ working[s] # NoTask
    /\ Rollback(s)
    /\ working' = [working EXCEPT ![s] = NoTask]
    /\ UNCHANGED <<task, api, copies, sent>>

\* create_adjustment, in a session that is no worker's.
AdminBegins(s) ==
    /\ working[s] = NoTask
    /\ \E r \in Requests : r.type = "adjustment" /\ Begin(s, r)
    /\ UNCHANGED predictionVars

AdminCrash(s) ==
    /\ "api" \in Faults
    /\ working[s] = NoTask
    /\ Crash(s)
    /\ UNCHANGED predictionVars

AdminEnds(s) ==
    /\ working[s] = NoTask
    /\ Fail(s) \/ Commit(s) \/ CommitExisting(s)
    /\ UNCHANGED predictionVars

-----------------------------------------------------------------------------

ApiStep(t) == CheckCredits(t) \/ StoreTask(t) \/ Enqueue(t) \/ SaveCeleryId(t)

TakeMessage(t) == \E s \in Sessions : LoadTask(s, t)

\* What a session does once a worker's run or an adjustment has begun in it.
SessionStep(s) ==
    \/ MarkRunning(s)
    \/ RefreshTask(s)
    \/ ModelFails(s)
    \/ ModelSucceeds(s)
    \/ CommitSucceeded(s)
    \/ CommitInsufficient(s)
    \/ AbandonRun(s)
    \/ AdminEnds(s)
    \/ Statement(s) /\ UNCHANGED predictionVars

PredictionsNext ==
    \/ \E t \in Tasks :
           \/ ApiStep(t)
           \/ TakeMessage(t)
           \/ EnqueueFails(t)
           \/ ApiCrash(t)
           \/ Redeliver(t)
    \/ \E s \in Sessions :
           \/ SessionStep(s)
           \/ AdminBegins(s)
           \/ AdminCrash(s)
           \/ WorkerCrash(s)

PredictionsSpec == PredictionsInit /\ [][PredictionsNext]_predictionsVars

\* Request handlers go on, predict returns, PostgreSQL serves every waiting
\* session, and worker processes come back to the queue for its messages.
FairPredictionsSpec ==
    /\ PredictionsSpec
    /\ \A t \in Tasks : WF_predictionsVars(Stored(t) /\ ApiStep(t))
    /\ \A t \in Tasks : SF_predictionsVars(TakeMessage(t))
    /\ \A s \in Sessions : SF_predictionsVars(SessionStep(s))

-----------------------------------------------------------------------------

PredictionsTypeOK ==
    /\ task \in [Tasks -> TaskRow \cup {NoTask}]
    /\ api \in [Tasks -> {"none", "checked", "stored", "published", "done"}]
    /\ copies \in [Tasks -> 0..MaxCopies]
    /\ sent \in [Tasks -> 0..MaxCopies]
    /\ working \in [Sessions -> Run \cup {NoTask}]
    /\ \A s \in Sessions :
           IF working[s] # NoTask /\ working[s].stage = "charging"
           THEN req[s] = Charge(working[s].task)
           ELSE req[s] # NoRequest =>
                    working[s] = NoTask /\ req[s].type = "adjustment"

\* The ledger row says that it charges for task t.
Charges(row, t) == row.type = "prediction_debit" /\ row.source = t

Charged(t) ==
    \E i \in DOMAIN ledger[Owner[t]] : Charges(ledger[Owner[t]][i], t)

\* docs/database.md: workers "retry ... prediction finalization safely".  However
\* often a message is delivered, its task is charged once, to its owner.
ChargedOnce ==
    \A t \in Tasks, u \in Users : \A i \in DOMAIN ledger[u] :
        Charges(ledger[u][i], t) =>
            /\ u = Owner[t] /\ ledger[u][i].amount = Price
            /\ \A j \in DOMAIN ledger[u] : Charges(ledger[u][j], t) => j = i

\* docs/billing.md: a successful prediction creates a prediction_debit row, even
\* when workers run the same task at the same time.
SucceededIsCharged ==
    \A t \in Tasks : Stored(t) /\ task[t].status = "succeeded" => Charged(t)

\* When every message is delivered at most once, the status, the stored result
\* and the charge of a task agree at every moment, whoever crashes.
OutcomeAgrees ==
    \A t \in Tasks :
        /\ Charged(t) => Stored(t)
        /\ Stored(t) =>
               /\ Charged(t) <=> task[t].status = "succeeded"
               /\ task[t].result <=> task[t].status = "succeeded"

\* Then too, a final status and its result are final: neither a worker nor the
\* API handler that is still storing the Celery id goes back on them.
OutcomeIsFinal ==
    [][\A t \in Tasks :
           Stored(t) /\ task[t].status \in Terminal =>
               /\ task'[t].status = task[t].status
               /\ task'[t].result = task[t].result]_predictionsVars

\* docs/billing.md, line 11: "A failed prediction does not debit credits."
FailedIsNotCharged ==
    \A t \in Tasks : Stored(t) /\ task[t].status = "failed" => ~Charged(t)

\* docs/predictions.md, line 35, says that `queued` means "API accepted the
\* request and enqueued worker execution": once the handler is done, a message
\* for the task is waiting or a worker has taken it.
QueuedIsEnqueued ==
    \A t \in Tasks :
        Stored(t) /\ task[t].status = "queued" /\ api[t] = "done" =>
            \/ copies[t] > 0
            \/ \E s \in Sessions : working[s] # NoTask /\ working[s].task = t

\* docs/predictions.md, line 12: "The task becomes `succeeded` with a result
\* payload or `failed` with an error."
TasksFinish ==
    \A t \in Tasks : Stored(t) ~> Stored(t) /\ task[t].status \in Terminal

=============================================================================

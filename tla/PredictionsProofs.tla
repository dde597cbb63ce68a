-------------------------- MODULE PredictionsProofs --------------------------
(***************************************************************************)
(* Theorems about Predictions: it implements Billing, so that every        *)
(* theorem of BillingProofs holds of it; however often a message is        *)
(* delivered, a task is charged once; and if every message is delivered at *)
(* most once, then the status, the result and the charge of a task agree   *)
(* and a final status is final, whoever crashes.                           *)
(***************************************************************************)
EXTENDS Predictions, BillingProofs

-----------------------------------------------------------------------------

\* What a flush leaves in a task row, column by column.
LEMMA WrittenTask ==
  ASSUME NEW row \in TaskRow, NEW base \in TaskRow, NEW new \in TaskRow,
         NEW w, w = WriteChanged(row, base, new)
  PROVE  /\ w \in TaskRow
         /\ w.status = IF new.status # base.status THEN new.status ELSE row.status
         /\ w.result = IF new.result # base.result THEN new.result ELSE row.result
  <1>1. DOMAIN row = {"status", "result", "celery"}
    BY DEF TaskRow
  <1>2. w = [c \in {"status", "result", "celery"} |->
                IF new[c] # base[c] THEN new[c] ELSE row[c]]
    BY <1>1 DEF WriteChanged
  <1>3. /\ w.status = IF new.status # base.status THEN new.status ELSE row.status
        /\ w.result = IF new.result # base.result THEN new.result ELSE row.result
        /\ w.celery = IF new.celery # base.celery THEN new.celery ELSE row.celery
    BY <1>2
  <1>4. /\ w.status \in Statuses /\ w.result \in BOOLEAN /\ w.celery \in BOOLEAN
    BY <1>3 DEF TaskRow
  <1>5. w \in TaskRow
    BY <1>2, <1>4 DEF TaskRow
  <1> QED
    BY <1>3, <1>5

-----------------------------------------------------------------------------

\* What exists: messages and runs are of stored tasks, and no more messages wait
\* than were sent.  An idle session has read no balance.
RunsStored ==
    /\ \A t \in Tasks :
           /\ copies[t] <= sent[t]
           /\ sent[t] > 0 \/ api[t] \in {"stored", "published"} => Stored(t)
    /\ \A s \in Sessions :
           /\ working[s] # NoTask => Stored(working[s].task)
           /\ pc[s] = "idle" => seen[s] = 0

RunsInv == IInv /\ PredictionsTypeOK /\ RunsStored

\* A worker's run, and what its session does for it.
LEMMA Running ==
  ASSUME RunsInv, NEW s \in Sessions, working[s] # NoTask
  PROVE  /\ working[s] \in Run /\ working[s].task \in Tasks
         /\ working[s].base \in TaskRow /\ task[working[s].task] \in TaskRow
         /\ IF working[s].stage = "charging"
            THEN req[s] = Charge(working[s].task) /\ pc[s] # "idle"
            ELSE req[s] = NoRequest /\ pc[s] = "idle"
  BY PredictionsAssumption, BillingAssumption
     DEF RunsInv, PredictionsTypeOK, RunsStored, Run, Stored, IInv, TypeOK

\* The first write of a worker.
LEMMA Marked ==
  ASSUME RunsInv, NEW s \in Sessions, MarkRunning(s)
  PROVE  LET t == working[s].task
             b == working[s].base.status IN
         /\ t \in Tasks /\ task[t] \in TaskRow /\ task'[t] \in TaskRow
         /\ \A v \in Tasks \ {t} : task'[v] = task[v]
         /\ task'[t].status = IF b # "running" THEN "running" ELSE task[t].status
         /\ task'[t].result = task[t].result
         /\ task' \in [Tasks -> TaskRow \cup {NoTask}]
  <1> DEFINE t    == working[s].task
             base == working[s].base
             new  == [base EXCEPT !.status = "running"]
             w    == WriteChanged(task[t], base, new)
  <1>1. t \in Tasks /\ base \in TaskRow /\ task[t] \in TaskRow
    BY Running DEF MarkRunning
  <1>2. new \in TaskRow /\ new.status = "running" /\ new.result = base.result
    BY <1>1 DEF TaskRow, Statuses
  <1>3. /\ w \in TaskRow
        /\ w.status = IF base.status # "running" THEN "running" ELSE task[t].status
        /\ w.result = task[t].result
    <2> HIDE DEF new, base, t
    <2>1. w = WriteChanged(task[t], base, new)
      OBVIOUS
    <2> HIDE DEF w
    <2> QED
      BY <1>1, <1>2, <2>1, WrittenTask
  <1>4. task' = [task EXCEPT ![t] = w]
    BY DEF MarkRunning
  <1>5. task \in [Tasks -> TaskRow \cup {NoTask}]
    BY DEF RunsInv, PredictionsTypeOK
  <1> HIDE DEF w, t, base
  <1>6. /\ t \in Tasks /\ task[t] \in TaskRow /\ task'[t] \in TaskRow
        /\ \A v \in Tasks \ {t} : task'[v] = task[v]
        /\ task'[t].status = IF base.status # "running" THEN "running" ELSE task[t].status
        /\ task'[t].result = task[t].result
        /\ task' \in [Tasks -> TaskRow \cup {NoTask}]
    BY <1>1, <1>3, <1>4, <1>5
  <1> QED
    BY <1>6 DEF t, base

\* Its last one.
LEMMA Finished ==
  ASSUME RunsInv, NEW s \in Sessions, working[s] # NoTask,
         NEW status \in Statuses, NEW result \in BOOLEAN, Finish(s, status, result)
  PROVE  LET t == working[s].task
             b == working[s].base IN
         /\ t \in Tasks /\ task[t] \in TaskRow /\ task'[t] \in TaskRow
         /\ \A v \in Tasks \ {t} : task'[v] = task[v]
         /\ task'[t].status = IF status # b.status THEN status ELSE task[t].status
         /\ task'[t].result = IF result # b.result THEN result ELSE task[t].result
         /\ task' \in [Tasks -> TaskRow \cup {NoTask}]
         /\ working' = [working EXCEPT ![s] = NoTask]
         /\ UNCHANGED <<api, copies, sent>>
  <1> DEFINE t    == working[s].task
             base == working[s].base
             new  == [base EXCEPT !.status = status, !.result = result]
             w    == WriteChanged(task[t], base, new)
  <1>1. t \in Tasks /\ base \in TaskRow /\ task[t] \in TaskRow
    BY Running
  <1>2. new \in TaskRow /\ new.status = status /\ new.result = result
    <2> HIDE DEF base
    <2> QED
      BY <1>1 DEF TaskRow
  <1>3. /\ w \in TaskRow
        /\ w.status = IF status # base.status THEN status ELSE task[t].status
        /\ w.result = IF result # base.result THEN result ELSE task[t].result
    <2> HIDE DEF new, base, t
    <2>1. w = WriteChanged(task[t], base, new)
      OBVIOUS
    <2> HIDE DEF w
    <2> QED
      BY <1>1, <1>2, <2>1, WrittenTask
  <1>4. task' = [task EXCEPT ![t] = w]
    BY DEF Finish
  <1>5. task \in [Tasks -> TaskRow \cup {NoTask}]
    BY DEF RunsInv, PredictionsTypeOK
  <1> HIDE DEF w, t, base
  <1>6. /\ t \in Tasks /\ task[t] \in TaskRow /\ task'[t] \in TaskRow
        /\ \A v \in Tasks \ {t} : task'[v] = task[v]
        /\ task'[t].status = IF status # base.status THEN status ELSE task[t].status
        /\ task'[t].result = IF result # base.result THEN result ELSE task[t].result
        /\ task' \in [Tasks -> TaskRow \cup {NoTask}]
    BY <1>1, <1>3, <1>4, <1>5
  <1> QED
    BY <1>6 DEF t, base, Finish

-----------------------------------------------------------------------------

\* However a billing call ends, its session is idle then.
LEMMA CallCloses ==
  ASSUME NEW s \in Sessions,
         \/ Commit(s) \/ CommitExisting(s) \/ CommitRefused(s)
         \/ Fail(s) \/ Crash(s) \/ Rollback(s)
  PROVE  Close(s)
  BY DEF Commit, CommitExisting, CommitRefused, Fail, Crash, TargetNotFound,
         BalanceConflict, KeyConflict, Overflow, CloseRefused, Rollback

\* Every step of Predictions is a step of Billing, or none.
LEMMA PredictionsStepBills ==
  ASSUME RunsInv, [PredictionsNext]_predictionsVars
  PROVE  [BillingNext]_billingVars
  <1>1. ASSUME NEW s \in Sessions, ModelSucceeds(s)
        PROVE  BillingNext
    <2>1. Charge(working[s].task) \in Requests
      BY <1>1, Running, PredictionsAssumption DEF ModelSucceeds
    <2> QED
      BY <1>1, <2>1 DEF ModelSucceeds, BillingNext
  <1>2. ASSUME NEW s \in Sessions, AdminBegins(s)
        PROVE  BillingNext
    BY <1>2 DEF AdminBegins, BillingNext
  <1>3. ASSUME NEW s \in Sessions, WorkerCrash(s)
        PROVE  [BillingNext]_billingVars
    <2>1. CASE pc[s] = "idle"
      <3>1. req[s] = NoRequest /\ seen[s] = 0 /\ TypeOK
        BY <2>1 DEF RunsInv, RunsStored, IInv, TypeOK
      <3>2. pc' = pc /\ req' = req /\ seen' = seen /\ UNCHANGED <<balance, ledger>>
        BY <1>3, <2>1, <3>1 DEF WorkerCrash, Rollback, Close, TypeOK
      <3> QED
        BY <3>2 DEF billingVars
    <2>2. CASE pc[s] # "idle"
      BY <1>3, <2>2 DEF WorkerCrash, Crash, BillingNext
    <2> QED
      BY <2>1, <2>2
  <1>4. ASSUME NEW t \in Tasks,
               \/ ApiStep(t) \/ TakeMessage(t) \/ EnqueueFails(t)
               \/ ApiCrash(t) \/ Redeliver(t)
        PROVE  UNCHANGED billingVars
    BY <1>4 DEF ApiStep, CheckCredits, StoreTask, Enqueue, SaveCeleryId, TakeMessage,
                LoadTask, EnqueueFails, ApiCrash, Redeliver
  <1>5. ASSUME NEW s \in Sessions, SessionStep(s) \/ AdminCrash(s), ~ModelSucceeds(s)
        PROVE  [BillingNext]_billingVars
    BY <1>5 DEF SessionStep, MarkRunning, RefreshTask, ModelFails, CommitSucceeded,
                CommitInsufficient, AbandonRun, AdminEnds, AdminCrash, BillingNext,
                Progress
  <1> QED
    BY <1>1, <1>2, <1>3, <1>4, <1>5
       DEF PredictionsNext, predictionsVars, billingVars

-----------------------------------------------------------------------------

\* A session's part of the invariant.
SessionSound(s) ==
    /\ IF working[s] # NoTask /\ working[s].stage = "charging"
       THEN req[s] = Charge(working[s].task)
       ELSE req[s] # NoRequest => working[s] = NoTask /\ req[s].type = "adjustment"
    /\ working[s] # NoTask => Stored(working[s].task)
    /\ pc[s] = "idle" => seen[s] = 0

\* The parts of the invariant that are about sessions.
LEMMA SessionsSound ==
  ASSUME RunsInv
  PROVE  /\ \A s \in Sessions : SessionSound(s)
         /\ TypeOK
         /\ working \in [Sessions -> Run \cup {NoTask}]
  BY DEF RunsInv, PredictionsTypeOK, RunsStored, SessionSound, IInv

\* A run that ends with its billing call leaves every session sound.
LEMMA RunEnds ==
  ASSUME RunsInv, NEW s \in Sessions, Close(s) \/ UNCHANGED billingVars,
         pc'[s] = "idle", working' = [working EXCEPT ![s] = NoTask],
         \A t \in Tasks : Stored(t) => Stored(t)'
  PROVE  /\ working' \in [Sessions -> Run \cup {NoTask}]
         /\ \A q \in Sessions : SessionSound(q)'
  <1> USE SessionsSound
  <1>1. working' \in [Sessions -> Run \cup {NoTask}]
    OBVIOUS
  <1>2. SessionSound(s)'
    BY DEF SessionSound, Close, billingVars, TypeOK
  <1>3. ASSUME NEW q \in Sessions \ {s}
        PROVE  SessionSound(q)'
    <2>1. /\ pc'[q] = pc[q] /\ req'[q] = req[q] /\ seen'[q] = seen[q]
          /\ working'[q] = working[q]
      BY DEF Close, billingVars, TypeOK
    <2>2. working[q] # NoTask => working[q].task \in Tasks
      BY DEF Run
    <2> QED
      BY <2>1, <2>2 DEF SessionSound, Charge
  <1> QED
    BY <1>1, <1>2, <1>3

\* The tasks' part of the invariant.
TasksSound ==
    /\ task \in [Tasks -> TaskRow \cup {NoTask}]
    /\ api \in [Tasks -> {"none", "checked", "stored", "published", "done"}]
    /\ copies \in [Tasks -> 0..MaxCopies]
    /\ sent \in [Tasks -> 0..MaxCopies]
    /\ \A t \in Tasks :
           /\ copies[t] <= sent[t]
           /\ sent[t] > 0 \/ api[t] \in {"stored", "published"} => Stored(t)

\* The two parts make up the invariant.
LEMMA Parts ==
  IInv => (RunsInv <=> /\ TasksSound
                       /\ working \in [Sessions -> Run \cup {NoTask}]
                       /\ \A s \in Sessions : SessionSound(s))
  <1>1. TasksSound /\ working \in [Sessions -> Run \cup {NoTask}]
        /\ (\A s \in Sessions : SessionSound(s))
        <=> PredictionsTypeOK /\ RunsStored
    BY DEF TasksSound, SessionSound, PredictionsTypeOK, RunsStored
  <1> QED
    BY <1>1 DEF RunsInv

\* Steps of the API and the broker keep the rows stored and the runs as they are.
LEMMA ApiSteps ==
  ASSUME RunsInv, NEW t \in Tasks,
         ApiStep(t) \/ EnqueueFails(t) \/ ApiCrash(t) \/ Redeliver(t)
  PROVE  /\ TasksSound'
         /\ UNCHANGED billingVars /\ working' = working
         /\ \A v \in Tasks : Stored(v) => Stored(v)'
  <1> USE PredictionsAssumption DEF Api
  <1>0. TasksSound
    BY Parts DEF RunsInv
  <1>1. CASE CheckCredits(t) \/ EnqueueFails(t) \/ ApiCrash(t)
    BY <1>0, <1>1 DEF TasksSound, CheckCredits, EnqueueFails, ApiCrash, Stored
  <1>2. CASE StoreTask(t)
    <2> DEFINE r == [status |-> "queued", result |-> FALSE, celery |-> FALSE]
    <2>1. r \in TaskRow
      BY DEF TaskRow, Statuses
    <2>2. task' = [task EXCEPT ![t] = r] /\ api' = [api EXCEPT ![t] = "stored"]
          /\ UNCHANGED <<billingVars, copies, sent, working>>
      BY <1>2 DEF StoreTask
    <2> HIDE DEF r
    <2> QED
      BY <1>0, <2>1, <2>2 DEF TasksSound, Stored
  <1>3. CASE Enqueue(t) \/ Redeliver(t)
    BY <1>0, <1>3 DEF TasksSound, Enqueue, Redeliver, Stored
  <1>4. CASE SaveCeleryId(t)
    <2> DEFINE r == [task[t] EXCEPT !.celery = TRUE]
    <2>1. task[t] \in TaskRow
      BY <1>0, <1>4 DEF SaveCeleryId, TasksSound, Stored
    <2>2. r \in TaskRow
      BY <2>1 DEF TaskRow
    <2>3. task' = [task EXCEPT ![t] = r] /\ api' = [api EXCEPT ![t] = "done"]
          /\ UNCHANGED <<billingVars, copies, sent, working>>
      BY <1>4 DEF SaveCeleryId
    <2> HIDE DEF r
    <2> QED
      BY <1>0, <2>2, <2>3 DEF TasksSound, Stored
  <1> QED
    BY <1>1, <1>2, <1>3, <1>4 DEF ApiStep

\* So do a worker's writes.
LEMMA WritesSound ==
  ASSUME RunsInv, NEW t \in Tasks, task[t] \in TaskRow, task'[t] \in TaskRow,
         \A v \in Tasks \ {t} : task'[v] = task[v],
         task' \in [Tasks -> TaskRow \cup {NoTask}],
         UNCHANGED <<api, copies, sent>>
  PROVE  TasksSound' /\ \A v \in Tasks : Stored(v) => Stored(v)'
  <1>1. TasksSound
    BY Parts DEF RunsInv
  <1>2. task'[t] # NoTask
    BY PredictionsAssumption
  <1> QED
    BY <1>1, <1>2 DEF TasksSound, Stored

\* A step that leaves the tasks alone.
LEMMA TasksKept ==
  ASSUME RunsInv, UNCHANGED <<task, api, copies, sent>>
  PROVE  TasksSound' /\ \A v \in Tasks : Stored(v) => Stored(v)'
  <1>1. TasksSound
    BY Parts DEF RunsInv
  <1> QED
    BY <1>1 DEF TasksSound, Stored

\* A step of one session, seen from the others.
LEMMA OthersSound ==
  ASSUME RunsInv, NEW s \in Sessions, SessionSound(s)',
         \A v \in Tasks : Stored(v) => Stored(v)',
         \A q \in Sessions \ {s} :
             /\ pc'[q] = pc[q] /\ req'[q] = req[q] /\ seen'[q] = seen[q]
             /\ working'[q] = working[q]
  PROVE  \A q \in Sessions : SessionSound(q)'
  <1> SUFFICES ASSUME NEW q \in Sessions \ {s} PROVE SessionSound(q)'
    OBVIOUS
  <1>1. SessionSound(q) /\ (working[q] # NoTask => working[q].task \in Tasks)
    BY SessionsSound DEF Run
  <1> QED
    BY <1>1 DEF SessionSound, Charge

\* Every step keeps the invariant of the runs.
LEMMA RunsStep ==
  ASSUME RunsInv, [PredictionsNext]_predictionsVars
  PROVE  RunsInv'
  <1>1. IInv /\ IInv' /\ TypeOK
    BY PredictionsStepBills, IInvStep DEF RunsInv, IInv
  <1>2. /\ working \in [Sessions -> Run \cup {NoTask}]
        /\ \A s \in Sessions : SessionSound(s)
    BY SessionsSound
  <1> SUFFICES /\ TasksSound'
               /\ working' \in [Sessions -> Run \cup {NoTask}]
               /\ \A s \in Sessions : SessionSound(s)'
    BY <1>1 DEF RunsInv, TasksSound, SessionSound, PredictionsTypeOK, RunsStored
  <1> DEFINE Goal == /\ TasksSound'
                     /\ working' \in [Sessions -> Run \cup {NoTask}]
                     /\ \A s \in Sessions : SessionSound(s)'
  <1>3. CASE UNCHANGED predictionsVars
    BY <1>2, <1>3, TasksKept
       DEF predictionsVars, predictionVars, billingVars, SessionSound, Charge, Stored
  <1>4. ASSUME NEW t \in Tasks,
               ApiStep(t) \/ EnqueueFails(t) \/ ApiCrash(t) \/ Redeliver(t)
        PROVE  Goal
    <2>1. /\ TasksSound' /\ UNCHANGED billingVars /\ working' = working
          /\ \A v \in Tasks : Stored(v) => Stored(v)'
      BY <1>4, ApiSteps
    <2>2. \A s \in Sessions : working[s] # NoTask => working[s].task \in Tasks
      BY <1>2 DEF Run
    <2> QED
      BY <1>2, <2>1, <2>2 DEF SessionSound, billingVars, Charge
  <1>5. ASSUME NEW t \in Tasks, NEW s \in Sessions, LoadTask(s, t)
        PROVE  Goal
    <2> DEFINE r == [task |-> t, stage |-> "loaded", base |-> task[t]]
    <2>1. /\ pc[s] = "idle" /\ working[s] = NoTask /\ copies[t] > 0
          /\ copies' = [copies EXCEPT ![t] = copies[t] - 1]
          /\ working' = [working EXCEPT ![s] = r]
          /\ UNCHANGED <<billingVars, task, api, sent>>
      BY <1>5 DEF LoadTask
    <2>2. TasksSound
      BY <1>1, Parts DEF RunsInv
    <2>3. Stored(t) /\ task[t] \in TaskRow
      <3>1. copies[t] \in Nat /\ sent[t] \in Nat
        BY <2>2, PredictionsAssumption DEF TasksSound
      <3> QED
        BY <2>1, <2>2, <3>1 DEF TasksSound, Stored
    <2>4. r \in Run /\ r.task = t /\ r.stage = "loaded"
      BY <2>3 DEF Run, WorkerStages
    <2> HIDE DEF r
    <2>5. TasksSound'
      BY <2>1, <2>2, PredictionsAssumption DEF TasksSound, Stored
    <2>6. req[s] = NoRequest
      BY <1>1, <2>1 DEF TypeOK
    <2>7. SessionSound(s)'
      BY <1>2, <2>1, <2>3, <2>4, <2>6 DEF SessionSound, billingVars, Stored
    <2> QED
      BY <1>2, <2>1, <2>4, <2>5, <2>7, OthersSound DEF billingVars, Stored
  <1>6. ASSUME NEW s \in Sessions, MarkRunning(s)
        PROVE  Goal
    <2> DEFINE r == [working[s] EXCEPT !.stage = "marked"]
    <2>1. /\ working[s] \in Run /\ working[s].stage = "loaded"
          /\ req[s] = NoRequest /\ pc[s] = "idle"
      BY <1>6, Running DEF MarkRunning
    <2>2. /\ working' = [working EXCEPT ![s] = r]
          /\ UNCHANGED <<billingVars, api, copies, sent>>
      BY <1>6 DEF MarkRunning
    <2>3. r \in Run /\ r.stage = "marked" /\ r.task = working[s].task
      BY <2>1 DEF Run, WorkerStages
    <2> HIDE DEF r
    <2>4. TasksSound' /\ \A v \in Tasks : Stored(v) => Stored(v)'
      BY <1>6, <2>2, Marked, WritesSound
    <2>5. SessionSound(s)'
      <3>1. working'[s] = r /\ pc'[s] = "idle" /\ req'[s] = NoRequest /\ seen'[s] = 0
        BY <1>2, <2>1, <2>2 DEF SessionSound, billingVars
      <3>2. task'[r.task] # NoTask
        BY <1>2, <2>1, <2>3, <2>4, PredictionsAssumption DEF SessionSound, Run, Stored
      <3> QED
        BY <2>3, <3>1, <3>2 DEF SessionSound, Stored
    <2> QED
      BY <1>2, <2>2, <2>3, <2>4, <2>5, OthersSound DEF billingVars
  <1>7. ASSUME NEW s \in Sessions, RefreshTask(s)
        PROVE  Goal
    <2> DEFINE r == [task |-> working[s].task, stage |-> "executing",
                     base |-> task[working[s].task]]
    <2>1. /\ working[s] \in Run /\ task[working[s].task] \in TaskRow
          /\ req[s] = NoRequest /\ pc[s] = "idle" /\ working[s].stage = "marked"
      BY <1>7, Running DEF RefreshTask
    <2>2. /\ working' = [working EXCEPT ![s] = r]
          /\ UNCHANGED <<billingVars, task, api, copies, sent>>
      BY <1>2, <1>7, <2>1 DEF RefreshTask, Run
    <2>3. r \in Run /\ r.stage = "executing" /\ r.task = working[s].task
      BY <2>1 DEF Run, WorkerStages
    <2> HIDE DEF r
    <2>4. TasksSound' /\ \A v \in Tasks : Stored(v) => Stored(v)'
      BY <2>2, TasksKept
    <2>5. SessionSound(s)'
      <3>1. working'[s] = r /\ pc'[s] = "idle" /\ req'[s] = NoRequest /\ seen'[s] = 0
        BY <1>2, <2>1, <2>2 DEF SessionSound, billingVars
      <3>2. task'[r.task] # NoTask
        BY <1>2, <2>1, <2>3, <2>4, PredictionsAssumption DEF SessionSound, Run, Stored
      <3> QED
        BY <2>3, <3>1, <3>2 DEF SessionSound, Stored
    <2> QED
      BY <1>2, <2>2, <2>3, <2>4, <2>5, OthersSound DEF billingVars
  <1>8. ASSUME NEW s \in Sessions, ModelSucceeds(s)
        PROVE  Goal
    <2> DEFINE r == [working[s] EXCEPT !.stage = "charging"]
    <2>1. working[s] \in Run /\ working[s].task \in Tasks
      BY <1>8, Running DEF ModelSucceeds
    <2>2. /\ working' = [working EXCEPT ![s] = r] /\ Begin(s, Charge(working[s].task))
          /\ UNCHANGED <<task, api, copies, sent>>
      BY <1>8 DEF ModelSucceeds
    <2>3. r \in Run /\ r.stage = "charging" /\ r.task = working[s].task
      BY <2>1 DEF Run, WorkerStages
    <2> HIDE DEF r
    <2>4. /\ pc'[s] = "lookup" /\ req'[s] = Charge(working[s].task)
          /\ \A q \in Sessions \ {s} : pc'[q] = pc[q] /\ req'[q] = req[q]
          /\ seen' = seen
      BY <1>1, <2>2 DEF Begin, TypeOK
    <2>5. TasksSound' /\ \A v \in Tasks : Stored(v) => Stored(v)'
      BY <2>2, TasksKept
    <2>6. r # NoTask /\ Stored(working[s].task)'
      BY <1>2, <1>8, <2>1, <2>3, <2>5, PredictionsAssumption
         DEF SessionSound, ModelSucceeds
    <2>7. SessionSound(s)'
      BY <1>2, <2>2, <2>3, <2>4, <2>6 DEF SessionSound, Charge
    <2> QED
      BY <1>2, <2>2, <2>3, <2>4, <2>5, <2>7, OthersSound
  <1>9. ASSUME NEW s \in Sessions, NEW status \in Statuses, NEW result \in BOOLEAN,
               working[s] # NoTask, Finish(s, status, result),
               Close(s) \/ UNCHANGED billingVars, pc'[s] = "idle"
        PROVE  Goal
    <2>1. /\ TasksSound' /\ \A v \in Tasks : Stored(v) => Stored(v)'
          /\ working' = [working EXCEPT ![s] = NoTask]
      BY <1>9, Finished, WritesSound
    <2> QED
      BY <1>9, <2>1, RunEnds
  <1>10. ASSUME NEW s \in Sessions, AbandonRun(s) \/ WorkerCrash(s)
         PROVE  Goal
    <2>1. /\ Close(s) /\ working' = [working EXCEPT ![s] = NoTask]
          /\ UNCHANGED <<task, api, copies, sent>>
      BY <1>10, CallCloses DEF AbandonRun, WorkerCrash
    <2> QED
      BY <1>1, <2>1, TasksKept, RunEnds DEF Close, TypeOK
  <1>11. ASSUME NEW s \in Sessions, AdminCrash(s) \/ AdminEnds(s)
         PROVE  Goal
    <2>1. Close(s) /\ UNCHANGED predictionVars /\ working[s] = NoTask
      BY <1>11, CallCloses DEF AdminCrash, AdminEnds
    <2>2. working' = [working EXCEPT ![s] = NoTask]
      BY <1>2, <2>1 DEF predictionVars
    <2> QED
      BY <1>1, <2>1, <2>2, TasksKept, RunEnds DEF Close, TypeOK, predictionVars
  <1>12. ASSUME NEW s \in Sessions, AdminBegins(s)
         PROVE  Goal
    <2>1. PICK r \in Requests : r.type = "adjustment" /\ Begin(s, r)
      BY <1>12 DEF AdminBegins
    <2>2. /\ pc'[s] = "lookup" /\ req'[s] = r
          /\ \A q \in Sessions \ {s} : pc'[q] = pc[q] /\ req'[q] = req[q]
          /\ seen' = seen /\ working[s] = NoTask /\ UNCHANGED predictionVars
      BY <1>1, <1>12, <2>1 DEF Begin, TypeOK, AdminBegins
    <2>3. TasksSound' /\ \A v \in Tasks : Stored(v) => Stored(v)'
      BY <2>2, TasksKept DEF predictionVars
    <2>4. SessionSound(s)'
      BY <2>1, <2>2 DEF SessionSound, predictionVars
    <2> QED
      BY <1>2, <2>2, <2>3, <2>4, OthersSound DEF predictionVars
  <1>13. ASSUME NEW s \in Sessions, Statement(s), UNCHANGED predictionVars
         PROVE  Goal
    <2>1. /\ pc'[s] # "idle" /\ req' = req
          /\ \A q \in Sessions \ {s} : pc'[q] = pc[q] /\ seen'[q] = seen[q]
      BY <1>1, <1>13, CallContinues
         DEF Statement, GetExistingTransaction, LockBalance, CreateBalance,
             PostTransaction, Refuse, Goto, TypeOK
    <2>2. TasksSound' /\ \A v \in Tasks : Stored(v) => Stored(v)'
      BY <1>13, TasksKept DEF predictionVars
    <2>3. SessionSound(s)'
      BY <1>2, <1>13, <2>1, <2>2 DEF SessionSound, predictionVars, Charge, Stored
    <2> QED
      BY <1>2, <1>13, <2>1, <2>2, <2>3, OthersSound DEF predictionVars
  <1>14. ASSUME NEW s \in Sessions,
                ModelFails(s) \/ CommitSucceeded(s) \/ CommitInsufficient(s)
         PROVE  Goal
    <2>1. /\ working[s] # NoTask
          /\ \E status \in Statuses, result \in BOOLEAN : Finish(s, status, result)
          /\ Close(s) \/ (UNCHANGED billingVars /\ pc[s] = "idle")
      BY <1>14, CallCloses, Running
         DEF ModelFails, CommitSucceeded, CommitInsufficient, Statuses
    <2>2. pc'[s] = "idle"
      BY <1>1, <2>1 DEF Close, TypeOK, billingVars
    <2> QED
      BY <1>9, <2>1, <2>2
  <1> QED
    BY <1>3, <1>4, <1>5, <1>6, <1>7, <1>8, <1>10, <1>11, <1>12, <1>13, <1>14
       DEF PredictionsNext, SessionStep, TakeMessage

-----------------------------------------------------------------------------

\* The parts of RunsInv hold in every reachable state.
THEOREM RunsInvariant == PredictionsSpec => []RunsInv
  <1>1. PredictionsInit => RunsInv
    <2> SUFFICES ASSUME PredictionsInit PROVE RunsInv
      OBVIOUS
    <2>1. /\ BillingInit
          /\ task = [t \in Tasks |-> NoTask] /\ api = [t \in Tasks |-> "none"]
          /\ copies = [t \in Tasks |-> 0] /\ sent = [t \in Tasks |-> 0]
          /\ working = [s \in Sessions |-> NoTask]
          /\ \A s \in Sessions : req[s] = NoRequest /\ seen[s] = 0
      BY DEF PredictionsInit, BillingInit
    <2>2. IInv
      BY <2>1, InitIInv
    <2>3. PredictionsTypeOK
      BY <2>1, PredictionsAssumption DEF PredictionsTypeOK
    <2>4. RunsStored
      BY <2>1 DEF RunsStored
    <2> QED
      BY <2>2, <2>3, <2>4 DEF RunsInv
  <1>2. RunsInv /\ [PredictionsNext]_predictionsVars => RunsInv'
    BY RunsStep
  <1> QED
    BY <1>1, <1>2, PTL DEF PredictionsSpec

\* The rows of the tasks, the messages and the runs have their types, and a
\* session that bills does so for the run that it works on.
THEOREM PredictionsTypeCorrect == PredictionsSpec => []PredictionsTypeOK
  BY RunsInvariant, PTL DEF RunsInv

\* API, workers and admins use the billing service as Billing describes, so that
\* every theorem about BillingSpec holds of PredictionsSpec.
THEOREM PredictionsImplementBilling == PredictionsSpec => BillingSpec
  <1>1. PredictionsInit => BillingInit
    BY DEF PredictionsInit
  <1> QED
    BY <1>1, PredictionsStepBills, RunsInvariant, PTL DEF PredictionsSpec, BillingSpec

-----------------------------------------------------------------------------

\* The row that a commit appends charges for the task that its session works on,
\* or is an adjustment.
LEMMA RowCharges ==
  ASSUME RunsInv, NEW s \in Sessions, pc[s] # "idle", NEW row,
         row = CL!RowFor(req[s], After(s))
  PROVE  /\ row.key = req[s].key
         /\ working[s] = NoTask =>
                /\ row.type = "adjustment" /\ req[s] \in Requests
                /\ req[s].type = "adjustment"
                /\ \A v \in Tasks : ~Charges(row, v)
         /\ working[s] # NoTask =>
                /\ working[s].task \in Tasks
                /\ req[s].user = Owner[working[s].task]
                /\ row.amount = Price /\ row.key = DebitKey(working[s].task)
                /\ Charges(row, working[s].task)
                /\ \A v \in Tasks : Charges(row, v) => v = working[s].task
  <1>1. row.key = req[s].key /\ row.type = req[s].type /\ row.source = req[s].source
        /\ row.amount = req[s].amount
    BY DEF CL!RowFor
  <1>2. TypeOK /\ PredictionsTypeOK /\ req[s] # NoRequest /\ req[s] \in Requests
    BY DEF RunsInv, IInv, TypeOK
  <1>3. CASE working[s] = NoTask
    BY <1>1, <1>2, <1>3 DEF PredictionsTypeOK, Charges
  <1>4. CASE working[s] # NoTask
    <2>1. req[s] = Charge(working[s].task) /\ working[s].task \in Tasks
      BY <1>2, <1>4 DEF PredictionsTypeOK, Run
    <2> QED
      BY <1>1, <1>4, <2>1 DEF Charge, Charges
  <1> QED
    BY <1>3, <1>4, <1>1

\* Whatever ends a run as succeeded leaves the other tasks alone.
LEMMA Succeeds ==
  ASSUME RunsInv, NEW s \in Sessions, CommitSucceeded(s)
  PROVE  /\ working[s].task \in Tasks
         /\ \A v \in Tasks \ {working[s].task} : task'[v] = task[v]
         /\ Commit(s) \/ (CommitExisting(s) /\ ledger' = ledger)
  <1>1. working[s] # NoTask /\ Finish(s, "succeeded", TRUE)
        /\ "succeeded" \in Statuses /\ TRUE \in BOOLEAN
    BY DEF CommitSucceeded, Statuses
  <1>2. working[s].task \in Tasks
        /\ \A v \in Tasks \ {working[s].task} : task'[v] = task[v]
    BY <1>1, Finished
  <1>3. Commit(s) \/ (CommitExisting(s) /\ ledger' = ledger)
    BY DEF CommitSucceeded, CommitExisting, Rollback
  <1> QED
    BY <1>2, <1>3

\* A task was succeeded before the step.
WasSucceeded ==
    \A t \in Tasks : task'[t] # NoTask /\ task'[t].status = "succeeded" =>
                         Stored(t) /\ task[t].status = "succeeded"

\* The kinds of steps that charges and succeeded tasks tell apart.
LEMMA PredictionSteps ==
  ASSUME RunsInv, [PredictionsNext]_predictionsVars
  PROVE  \/ ledger' = ledger /\ WasSucceeded
         \/ \E s \in Sessions : CommitSucceeded(s)
         \/ \E s \in Sessions : AdminEnds(s) /\ Commit(s)
  <1>1. RunsInv /\ PredictionsTypeOK /\ TypeOK
    BY DEF RunsInv, IInv
  <1>2. CASE UNCHANGED <<ledger, task>>
    BY <1>2 DEF WasSucceeded, Stored
  <1>3. ASSUME NEW t \in Tasks, StoreTask(t) \/ SaveCeleryId(t)
        PROVE  ledger' = ledger /\ WasSucceeded
    <2>1. CASE StoreTask(t)
      <3> DEFINE r == [status |-> "queued", result |-> FALSE, celery |-> FALSE]
      <3>1. task' = [task EXCEPT ![t] = r] /\ r.status # "succeeded" /\ ledger' = ledger
        BY <2>1 DEF StoreTask, billingVars
      <3> HIDE DEF r
      <3> QED
        BY <1>1, <3>1 DEF WasSucceeded, Stored, PredictionsTypeOK
    <2>2. CASE SaveCeleryId(t)
      <3> DEFINE r == [task[t] EXCEPT !.celery = TRUE]
      <3>1. task[t] \in TaskRow
        BY <1>1, <2>2 DEF SaveCeleryId, Api, RunsInv, RunsStored, PredictionsTypeOK, Stored
      <3>2. task' = [task EXCEPT ![t] = r] /\ ledger' = ledger
        BY <2>2 DEF SaveCeleryId, billingVars
      <3>3. r.status = task[t].status
        BY <3>1 DEF TaskRow
      <3> HIDE DEF r
      <3> QED
        BY <1>1, <3>1, <3>2, <3>3, PredictionsAssumption
           DEF WasSucceeded, Stored, PredictionsTypeOK
    <2> QED
      BY <1>3, <2>1, <2>2
  <1>4. ASSUME NEW s \in Sessions, MarkRunning(s)
        PROVE  ledger' = ledger /\ WasSucceeded
    <2> DEFINE t == working[s].task
    <2>1. /\ t \in Tasks /\ task[t] \in TaskRow
          /\ \A v \in Tasks \ {t} : task'[v] = task[v]
          /\ task'[t].status \in {"running", task[t].status}
      BY <1>1, <1>4, Marked
    <2> HIDE DEF t
    <2> QED
      BY <1>4, <2>1, PredictionsAssumption
         DEF MarkRunning, billingVars, WasSucceeded, Stored
  <1>5. ASSUME NEW s \in Sessions, ModelFails(s) \/ CommitInsufficient(s)
        PROVE  ledger' = ledger /\ WasSucceeded
    <2> DEFINE t == working[s].task
    <2>1. /\ working[s] # NoTask /\ Finish(s, "failed", FALSE) /\ ledger' = ledger
          /\ "failed" \in Statuses /\ FALSE \in BOOLEAN
      BY <1>5 DEF ModelFails, CommitInsufficient, CommitRefused, billingVars, Statuses
    <2>2. /\ t \in Tasks /\ task[t] \in TaskRow
          /\ \A v \in Tasks \ {t} : task'[v] = task[v]
          /\ task'[t].status \in {"failed", task[t].status}
      BY <1>1, <2>1, Finished
    <2> HIDE DEF t
    <2> QED
      BY <2>1, <2>2, PredictionsAssumption DEF WasSucceeded, Stored
  <1>6. ASSUME NEW t \in Tasks,
               \/ CheckCredits(t) \/ Enqueue(t) \/ TakeMessage(t) \/ EnqueueFails(t)
               \/ ApiCrash(t) \/ Redeliver(t)
        PROVE  UNCHANGED <<ledger, task>>
    BY <1>6 DEF CheckCredits, Enqueue, TakeMessage, LoadTask, EnqueueFails, ApiCrash,
                Redeliver, billingVars
  <1>7. ASSUME NEW s \in Sessions,
               \/ RefreshTask(s) \/ ModelSucceeds(s) \/ AbandonRun(s) \/ AdminBegins(s)
               \/ AdminCrash(s) \/ WorkerCrash(s)
               \/ (AdminEnds(s) /\ ~Commit(s))
               \/ (Statement(s) /\ UNCHANGED predictionVars)
        PROVE  UNCHANGED <<ledger, task>>
    BY <1>1, <1>7, CallEnds, CallContinues
       DEF RefreshTask, ModelSucceeds, AbandonRun, AdminBegins, AdminCrash, WorkerCrash,
           AdminEnds, Begin, Rollback, Fail, Commit, TargetNotFound, BalanceConflict,
           KeyConflict, Overflow, CloseRefused, CommitExisting, Crash,
           billingVars, predictionVars
  <1> QED
    BY <1>2, <1>3, <1>4, <1>5, <1>6, <1>7
       DEF PredictionsNext, ApiStep, SessionStep, predictionsVars, predictionVars,
           billingVars

-----------------------------------------------------------------------------

\* A row that says it charges for a task is the owner's debit for it.
ChargeRows ==
    \A t \in Tasks, u \in Users : \A i \in DOMAIN ledger[u] :
        Charges(ledger[u][i], t) =>
            /\ u = Owner[t] /\ ledger[u][i].amount = Price
            /\ ledger[u][i].key = DebitKey(t)

\* An adjustment has taken the key of task t: some request asked for it.
TookDebitKey(row, t) ==
    /\ row.type = "adjustment"
    /\ \E r \in Requests : r.type = "adjustment" /\ r.key = DebitKey(t)

KeyTaken(t) ==
    \E u \in Users : \E i \in DOMAIN ledger[u] :
        ledger[u][i].key = DebitKey(t) /\ TookDebitKey(ledger[u][i], t)

\* Whatever has the key of a task in the ledger charges for it or took it.
DebitKeysExplained ==
    \A t \in Tasks, u \in Users : \A i \in DOMAIN ledger[u] :
        ledger[u][i].key = DebitKey(t) =>
            Charges(ledger[u][i], t) \/ TookDebitKey(ledger[u][i], t)

\* A worker that finds the key delivers without a charge of its own.
ChargedUnlessKeyTaken ==
    \A t \in Tasks :
        Stored(t) /\ task[t].status = "succeeded" => Charged(t) \/ KeyTaken(t)

ChargeInv ==
    /\ RunsInv
    /\ ExistingPosted
    /\ ChargeRows
    /\ DebitKeysExplained
    /\ ChargedUnlessKeyTaken

\* The rows of a ledger are of users, and the rows of a task are its owner's.
LEMMA OwnersKnown ==
  ASSUME NEW t \in Tasks
  PROVE  Owner[t] \in Users
  BY PredictionsAssumption

\* The new rows of a step are those of one commit.
LEMMA ChargeRowsStep ==
  ASSUME ChargeInv, [PredictionsNext]_predictionsVars
  PROVE  ChargeRows' /\ DebitKeysExplained'
  <1>1. RunsInv /\ TypeOK /\ ChargeRows /\ DebitKeysExplained
    BY DEF ChargeInv, RunsInv, IInv
  <1>2. CASE ledger' = ledger
    BY <1>1, <1>2 DEF ChargeRows, DebitKeysExplained, Charges, TookDebitKey
  <1>3. ASSUME NEW s \in Sessions, Commit(s)
        PROVE  ChargeRows' /\ DebitKeysExplained'
    <2>1. pc[s] # "idle" /\ req[s].user \in Users
      BY <1>1, <1>3 DEF Commit, TypeOK
    <2>2. ASSUME NEW u \in Users, NEW i \in DOMAIN ledger'[u], NEW t \in Tasks
          PROVE  /\ Charges(ledger'[u][i], t) =>
                        /\ u = Owner[t] /\ ledger'[u][i].amount = Price
                        /\ ledger'[u][i].key = DebitKey(t)
                 /\ ledger'[u][i].key = DebitKey(t) =>
                        Charges(ledger'[u][i], t) \/ TookDebitKey(ledger'[u][i], t)
      <3>1. CASE i \in DOMAIN ledger[u] /\ ledger'[u][i] = ledger[u][i]
        BY <1>1, <3>1 DEF ChargeRows, DebitKeysExplained, Charges, TookDebitKey
      <3>2. CASE u = req[s].user /\ ledger'[u][i] = CL!RowFor(req[s], After(s))
        <4> DEFINE row == ledger'[u][i]
        <4>1. row = CL!RowFor(req[s], After(s))
          BY <3>2
        <4> HIDE DEF row
        <4>2. CASE working[s] = NoTask
          <5>1. /\ row.type = "adjustment" /\ req[s] \in Requests
                /\ req[s].type = "adjustment" /\ ~Charges(row, t) /\ row.key = req[s].key
            BY <1>1, <2>1, <4>1, <4>2, RowCharges
          <5>2. row.key = DebitKey(t) => TookDebitKey(row, t)
            BY <5>1 DEF TookDebitKey
          <5> QED
            BY <5>1, <5>2 DEF row
        <4>3. CASE working[s] # NoTask
          <5>1. /\ working[s].task \in Tasks /\ u = Owner[working[s].task]
                /\ row.amount = Price /\ row.key = DebitKey(working[s].task)
                /\ Charges(row, working[s].task)
                /\ Charges(row, t) => t = working[s].task
            BY <1>1, <2>1, <3>2, <4>1, <4>3, RowCharges
          <5>2. row.key = DebitKey(t) => t = working[s].task
            BY <5>1, PredictionsAssumption
          <5> QED
            BY <5>1, <5>2 DEF row
        <4> QED
          BY <4>2, <4>3
      <3> QED
        BY <1>1, <1>3, <3>1, <3>2, RowsAfterCommit
    <2> QED
      BY <2>2 DEF ChargeRows, DebitKeysExplained, Charges, TookDebitKey
  <1>4. ledger' = ledger \/ \E s \in Sessions : Commit(s)
    BY <1>1, PredictionSteps, Succeeds
  <1> QED
    BY <1>2, <1>3, <1>4

\* What is charged, or whose key is taken, stays so.
LEMMA ChargesKept ==
  ASSUME RunsInv, NEW t \in Tasks,
         ledger' = ledger \/ \E s \in Sessions : Commit(s)
  PROVE  (Charged(t) => Charged(t)') /\ (KeyTaken(t) => KeyTaken(t)')
  <1>1. CASE ledger' = ledger
    BY <1>1 DEF Charged, KeyTaken, Charges, TookDebitKey
  <1>2. ASSUME NEW s \in Sessions, Commit(s)
        PROVE  (Charged(t) => Charged(t)') /\ (KeyTaken(t) => KeyTaken(t)')
    <2>1. TypeOK /\ req[s].user \in Users
      BY <1>2 DEF RunsInv, IInv, Commit, TypeOK
    <2>2. \A u \in Users : \A i \in DOMAIN ledger[u] :
              i \in DOMAIN ledger'[u] /\ ledger'[u][i] = ledger[u][i]
      BY <1>2, <2>1, RowsKept
    <2>3. Charged(t) => Charged(t)'
      BY <2>2, OwnersKnown DEF Charged, Charges
    <2>4. KeyTaken(t) => KeyTaken(t)'
      BY <2>2 DEF KeyTaken, TookDebitKey
    <2> QED
      BY <2>3, <2>4
  <1> QED
    BY <1>1, <1>2

\* A run that ends as succeeded leaves its task charged: by this commit, or by
\* whoever posted the key that it found.
LEMMA SucceedsCharged ==
  ASSUME ChargeInv, NEW s \in Sessions, CommitSucceeded(s),
         NEW t \in Tasks, t = working[s].task
  PROVE  Charged(t)' \/ KeyTaken(t)'
  <1>1. /\ RunsInv /\ TypeOK /\ working[s] # NoTask /\ t \in Tasks
        /\ Commit(s) \/ (CommitExisting(s) /\ ledger' = ledger)
    BY Succeeds DEF ChargeInv, RunsInv, IInv, CommitSucceeded
  <1>2. CASE Commit(s)
    <2>1. pc[s] # "idle" /\ req[s].user \in Users
      BY <1>1, <1>2 DEF Commit, TypeOK
    <2>2. /\ req[s].user = Owner[t]
          /\ Charges(CL!RowFor(req[s], After(s)), t)
      BY <1>1, <2>1, RowCharges
    <2>3. PICK i \in DOMAIN ledger'[req[s].user] :
              ledger'[req[s].user][i] = CL!RowFor(req[s], After(s))
      BY <1>1, <1>2, <2>1, RowsKept
    <2>4. \E j \in DOMAIN ledger'[Owner[t]] : Charges(ledger'[Owner[t]][j], t)
      BY <2>2, <2>3
    <2> QED
      BY <2>4 DEF Charged, Charges
  <1>3. CASE CommitExisting(s) /\ ledger' = ledger
    <2>1. pc[s] = "existing" /\ req[s].key = DebitKey(t)
      BY <1>1, <1>3, Running DEF CommitExisting, Charge, PredictionsTypeOK, RunsInv,
                                  IInv, TypeOK
    <2>2. CL!Posted(DebitKey(t))
      BY <2>1 DEF ChargeInv, ExistingPosted
    <2>3. PICK u \in Users : \E i \in DOMAIN ledger[u] : ledger[u][i].key = DebitKey(t)
      BY <2>2 DEF CL!Posted
    <2>4. PICK i \in DOMAIN ledger[u] : ledger[u][i].key = DebitKey(t)
      BY <2>3
    <2>5. Charges(ledger[u][i], t) \/ TookDebitKey(ledger[u][i], t)
      BY <1>1, <2>4 DEF ChargeInv, DebitKeysExplained
    <2>6. Charged(t) \/ KeyTaken(t)
      BY <1>1, <2>4, <2>5 DEF ChargeInv, ChargeRows, Charged, KeyTaken
    <2> QED
      BY <1>1, <1>3, <2>6, ChargesKept
  <1> QED
    BY <1>1, <1>2, <1>3

\* Every step keeps the succeeded tasks charged.
LEMMA ChargedStep ==
  ASSUME ChargeInv, [PredictionsNext]_predictionsVars
  PROVE  ChargedUnlessKeyTaken'
  <1>1. RunsInv /\ ChargedUnlessKeyTaken
    BY DEF ChargeInv
  <1> SUFFICES ASSUME NEW t \in Tasks, task'[t] # NoTask,
                      task'[t].status = "succeeded"
               PROVE  Charged(t)' \/ KeyTaken(t)'
    BY DEF ChargedUnlessKeyTaken, Stored
  <1>2. ASSUME Stored(t), task[t].status = "succeeded",
               ledger' = ledger \/ \E s \in Sessions : Commit(s)
        PROVE  Charged(t)' \/ KeyTaken(t)'
    BY <1>1, <1>2, ChargesKept DEF ChargedUnlessKeyTaken
  <1>3. CASE ledger' = ledger /\ WasSucceeded
    BY <1>2, <1>3 DEF WasSucceeded
  <1>4. ASSUME NEW s \in Sessions, CommitSucceeded(s)
        PROVE  Charged(t)' \/ KeyTaken(t)'
    <2>1. CASE t = working[s].task
      BY <1>4, <2>1, SucceedsCharged
    <2>2. CASE t # working[s].task
      <3>1. task'[t] = task[t] /\ (ledger' = ledger \/ Commit(s))
        BY <1>1, <1>4, <2>2, Succeeds
      <3> QED
        BY <1>2, <3>1 DEF Stored
    <2> QED
      BY <2>1, <2>2
  <1>5. ASSUME NEW s \in Sessions, AdminEnds(s), Commit(s)
        PROVE  Charged(t)' \/ KeyTaken(t)'
    <2>1. task' = task
      BY <1>5 DEF AdminEnds, predictionVars
    <2> QED
      BY <1>2, <1>5, <2>1 DEF Stored
  <1> QED
    BY <1>1, <1>3, <1>4, <1>5, PredictionSteps

\* ChargeInv holds in every reachable state.
THEOREM ChargeInvariant == PredictionsSpec => []ChargeInv
  <1>1. PredictionsInit /\ RunsInv => ChargeInv
    <2> SUFFICES ASSUME PredictionsInit, RunsInv PROVE ChargeInv
      OBVIOUS
    <2>1. /\ task = [t \in Tasks |-> NoTask]
          /\ \A s \in Sessions : pc[s] = "idle"
          /\ \A u \in Users : ledger[u] = <<>>
      BY DEF PredictionsInit, BillingInit, CL!LedgerInit
    <2>2. \A u \in Users : DOMAIN ledger[u] = {}
      <3> TAKE u \in Users
      <3>1. ledger[u] = <<>>
        BY <2>1
      <3> QED
        BY <3>1
    <2>3. ExistingPosted
      BY <2>1 DEF ExistingPosted
    <2>4. ChargeRows /\ DebitKeysExplained
      BY <2>2 DEF ChargeRows, DebitKeysExplained
    <2>5. ChargedUnlessKeyTaken
      BY <2>1 DEF ChargedUnlessKeyTaken, Stored
    <2> QED
      BY <2>3, <2>4, <2>5 DEF ChargeInv
  <1>2. ChargeInv /\ RunsInv /\ [PredictionsNext]_predictionsVars /\ RunsInv'
            => ChargeInv'
    <2> SUFFICES ASSUME ChargeInv, [PredictionsNext]_predictionsVars, RunsInv'
                 PROVE  ChargeInv'
      BY PTL
    <2>1. RunsInv /\ TypeOK /\ ExistingPosted
      BY DEF ChargeInv, RunsInv, IInv
    <2>2. ExistingPosted'
      BY <2>1, PredictionsStepBills, ExistingStep
    <2> QED
      BY <2>2, ChargeRowsStep, ChargedStep DEF ChargeInv
  <1> QED
    BY <1>1, <1>2, RunsInvariant, PTL DEF PredictionsSpec

\* However often a message is delivered and workers crash between the charge and
\* the final status, a task is charged once, to its owner, at the price.
THEOREM PredictionChargedOnce == PredictionsSpec => []ChargedOnce
  <1>1. ChargeInv => ChargedOnce
    <2> SUFFICES ASSUME ChargeInv, NEW t \in Tasks, NEW u \in Users,
                        NEW i \in DOMAIN ledger[u], Charges(ledger[u][i], t)
                 PROVE  /\ u = Owner[t] /\ ledger[u][i].amount = Price
                        /\ \A j \in DOMAIN ledger[u] :
                               Charges(ledger[u][j], t) => j = i
      BY DEF ChargedOnce
    <2>1. /\ ChargeRows /\ CL!KeysPostedOnce
      BY DEF ChargeInv, RunsInv, IInv, KeysPostedOnce
    <2>2. u = Owner[t] /\ ledger[u][i].amount = Price
      BY <2>1 DEF ChargeRows
    <2>3. \A j \in DOMAIN ledger[u] :
              Charges(ledger[u][j], t) => ledger[u][j].key = DebitKey(t)
      BY <2>1 DEF ChargeRows
    <2>4. DebitKey(t) # NoKey
      BY PredictionsAssumption
    <2> QED
      BY <2>1, <2>2, <2>3, <2>4 DEF CL!KeysPostedOnce
  <1> QED
    BY <1>1, ChargeInvariant, PTL

\* A succeeded task is charged unless an adjustment has taken its key.
THEOREM PredictionChargedUnlessKeyTaken == PredictionsSpec => []ChargedUnlessKeyTaken
  BY ChargeInvariant, PTL DEF ChargeInv

\* No adjustment carries the key of a task.
DebitKeysReserved ==
    \A r \in Requests, t \in Tasks : r.type = "adjustment" => r.key # DebitKey(t)

\* docs/billing.md holds for every instance in which adjustments keep off the
\* keys of tasks: a successful prediction has its prediction_debit row.
THEOREM PredictionCharged ==
  ASSUME DebitKeysReserved
  PROVE  PredictionsSpec => []SucceededIsCharged
  <1>1. ChargeInv => SucceededIsCharged
    BY DEF ChargeInv, ChargedUnlessKeyTaken, SucceededIsCharged, KeyTaken,
           TookDebitKey, DebitKeysReserved
  <1> QED
    BY <1>1, ChargeInvariant, PTL

-----------------------------------------------------------------------------

\* No message is delivered twice.
DeliveredOnce == "redelivery" \notin Faults

Works(s, t) == working[s] # NoTask /\ working[s].task = t

\* Then one run at a time is on its way to a task's outcome: the API that has not
\* sent the message, the message, or one worker; what the worker has read of
\* status and result is what the row still says, and the result is there exactly
\* when the run has succeeded.
OneRun(t) ==
    /\ api[t] \in {"none", "checked"} => ~Stored(t)
    /\ api[t] \in {"none", "checked", "stored"} =>
           copies[t] = 0 /\ \A s \in Sessions : ~Works(s, t)
    /\ api[t] = "stored" => task[t].status = "queued"
    /\ copies[t] \in {0, 1}
    /\ copies[t] = 1 =>
           task[t].status = "queued" /\ \A s \in Sessions : ~Works(s, t)
    /\ \A s, q \in Sessions : Works(s, t) /\ Works(q, t) => s = q
    /\ \A s \in Sessions : Works(s, t) =>
           /\ working[s].stage = "loaded" =>
                  task[t].status = "queued" /\ working[s].base.status = "queued"
           /\ working[s].stage = "marked" => task[t].status = "running"
           /\ working[s].stage \in {"executing", "charging"} =>
                  /\ task[t].status = "running"
                  /\ working[s].base.status = "running"
                  /\ working[s].base.result = FALSE
    /\ Stored(t) => (task[t].result <=> task[t].status = "succeeded")

OneRunInv == RunsInv /\ \A t \in Tasks : OneRun(t)

\* A step keeps this of a task that it does not touch, of whose runs it ends some
\* or lets one go on to the charge.
LEMMA OneRunKept ==
  ASSUME NEW t \in Tasks, OneRun(t),
         task'[t] = task[t], api'[t] = api[t], copies'[t] = copies[t],
         \A s \in Sessions : working'[s] # NoTask /\ working'[s].task = t =>
             /\ Works(s, t) /\ working'[s].base = working[s].base
             /\ \/ working'[s].stage = working[s].stage
                \/ working[s].stage = "executing" /\ working'[s].stage = "charging"
  PROVE  OneRun(t)'
  BY DEF OneRun, Works, Stored

\* A worker's write keeps it of every other task.
LEMMA OthersKept ==
  ASSUME OneRunInv, NEW s \in Sessions, NEW t \in Tasks, Works(s, t),
         \A q \in Sessions \ {s} : working'[q] = working[q],
         working'[s] # NoTask => working'[s].task = t,
         \A v \in Tasks \ {t} :
             task'[v] = task[v] /\ api'[v] = api[v] /\ copies'[v] = copies[v]
  PROVE  \A v \in Tasks \ {t} : OneRun(v)'
  <1> SUFFICES ASSUME NEW v \in Tasks \ {t} PROVE OneRun(v)'
    OBVIOUS
  <1>1. \A q \in Sessions : working'[q] # NoTask /\ working'[q].task = v =>
            working'[q] = working[q] /\ Works(q, v)
    BY DEF Works
  <1> QED
    BY <1>1, OneRunKept DEF OneRunInv

\* Steps of the API.
LEMMA OneRunApi ==
  ASSUME DeliveredOnce, OneRunInv, NEW t \in Tasks,
         ApiStep(t) \/ EnqueueFails(t) \/ ApiCrash(t) \/ Redeliver(t),
         NEW v \in Tasks
  PROVE  OneRun(v)'
  <1>1. /\ OneRun(v) /\ OneRun(t) /\ PredictionsTypeOK /\ RunsStored
    BY DEF OneRunInv, RunsInv
  <1>2. working' = working
    BY ApiSteps DEF OneRunInv
  <1> USE DEF Api, PredictionsTypeOK
  <1>3. CASE v # t
    <2>1. task'[v] = task[v] /\ api'[v] = api[v] /\ copies'[v] = copies[v]
      BY <1>1, <1>3 DEF ApiStep, CheckCredits, StoreTask, Enqueue, SaveCeleryId,
                        EnqueueFails, ApiCrash, Redeliver
    <2> QED
      BY <1>1, <1>2, <2>1, OneRunKept DEF Works
  <1>4. CASE v = t
    <2>1. CASE CheckCredits(t)
      BY <1>1, <1>2, <1>4, <2>1 DEF CheckCredits, OneRun, Works, Stored
    <2>2. CASE StoreTask(t)
      <3> DEFINE r == [status |-> "queued", result |-> FALSE, celery |-> FALSE]
      <3>1. /\ api[t] = "checked" /\ api'[t] = "stored" /\ copies' = copies
            /\ task'[t] = r /\ r.status = "queued" /\ r.result = FALSE
        BY <1>1, <2>2 DEF StoreTask
      <3> HIDE DEF r
      <3> QED
        BY <1>1, <1>2, <1>4, <3>1 DEF OneRun, Works, Stored
    <2>3. CASE Enqueue(t)
      BY <1>1, <1>2, <1>4, <2>3 DEF Enqueue, OneRun, Works, Stored
    <2>4. CASE SaveCeleryId(t)
      <3> DEFINE r == [task[t] EXCEPT !.celery = TRUE]
      <3>1. task[t] \in TaskRow /\ Stored(t)
        BY <1>1, <2>4 DEF SaveCeleryId, RunsStored, Stored
      <3>2. /\ task'[t] = r /\ copies' = copies
            /\ api[t] = "published" /\ api'[t] = "done"
        BY <1>1, <2>4 DEF SaveCeleryId
      <3>3. r.status = task[t].status /\ r.result = task[t].result
        BY <3>1 DEF TaskRow
      <3> HIDE DEF r
      <3> QED
        BY <1>1, <1>2, <1>4, <3>1, <3>2, <3>3 DEF OneRun, Works, Stored
    <2>5. CASE EnqueueFails(t) \/ ApiCrash(t)
      BY <1>1, <1>2, <1>4, <2>5 DEF EnqueueFails, ApiCrash, OneRun, Works, Stored
    <2>6. CASE Redeliver(t)
      BY <2>6 DEF Redeliver, DeliveredOnce
    <2> QED
      BY <2>1, <2>2, <2>3, <2>4, <2>5, <2>6 DEF ApiStep
  <1> QED
    BY <1>3, <1>4

\* Steps of a worker that write the row or read it.
LEMMA OneRunWorker ==
  ASSUME OneRunInv, NEW s \in Sessions,
         \/ \E x \in Tasks : LoadTask(s, x)
         \/ MarkRunning(s) \/ RefreshTask(s),
         NEW v \in Tasks
  PROVE  OneRun(v)'
  <1>1. /\ OneRun(v) /\ PredictionsTypeOK /\ RunsStored /\ RunsInv
    BY DEF OneRunInv, RunsInv
  <1> USE DEF PredictionsTypeOK
  <1>2. ASSUME NEW t \in Tasks, LoadTask(s, t)
        PROVE  OneRun(v)'
    <2> DEFINE r == [task |-> t, stage |-> "loaded", base |-> task[t]]
    <2>1. /\ working[s] = NoTask /\ copies[t] > 0 /\ OneRun(t)
          /\ copies' = [copies EXCEPT ![t] = copies[t] - 1]
          /\ working' = [working EXCEPT ![s] = r]
          /\ UNCHANGED <<task, api>>
          /\ r.task = t /\ r.stage = "loaded" /\ r.base = task[t]
      BY <1>2 DEF LoadTask, OneRunInv
    <2> HIDE DEF r
    <2>2. working'[s] = r /\ \A q \in Sessions \ {s} : working'[q] = working[q]
      BY <1>1, <2>1
    <2>3. CASE v # t
      <3>1. copies'[v] = copies[v]
        BY <1>1, <2>1, <2>3
      <3> QED
        BY <1>1, <2>1, <2>2, <2>3, <3>1, OneRunKept DEF Works
    <2>4. CASE v = t
      <3>1. copies[t] = 1 /\ copies'[t] = 0
        BY <1>1, <2>1 DEF OneRun
      <3> QED
        BY <1>1, <2>1, <2>2, <2>4, <3>1 DEF OneRun, Works, Stored
    <2> QED
      BY <2>3, <2>4
  <1>3. CASE MarkRunning(s)
    <2> DEFINE t == working[s].task
               r == [working[s] EXCEPT !.stage = "marked"]
    <2>1. /\ working[s] \in Run /\ working[s] # NoTask /\ working[s].stage = "loaded"
          /\ t \in Tasks
      BY <1>1, <1>3, Running DEF MarkRunning
    <2>2. /\ working' = [working EXCEPT ![s] = r]
          /\ UNCHANGED <<api, copies>>
      BY <1>3 DEF MarkRunning
    <2>3. r.stage = "marked" /\ r.task = t
      BY <2>1 DEF Run
    <2>4. /\ task[t] \in TaskRow /\ task'[t] \in TaskRow
          /\ \A x \in Tasks \ {t} : task'[x] = task[x]
          /\ task'[t].status = IF working[s].base.status # "running"
                               THEN "running" ELSE task[t].status
          /\ task'[t].result = task[t].result
      BY <1>1, <1>3, Marked
    <2> HIDE DEF r, t
    <2>5. working'[s] = r /\ \A q \in Sessions \ {s} : working'[q] = working[q]
      BY <1>1, <2>2
    <2>6. Works(s, t) /\ OneRun(t)
      BY <2>1 DEF Works, OneRunInv, t
    <2>7. CASE v # t
      BY <2>1, <2>2, <2>3, <2>4, <2>5, <2>6, <2>7, OthersKept
    <2>8. CASE v = t
      <3>1. task'[t].status = "running" /\ task[t].status = "queued"
        BY <2>1, <2>4, <2>6 DEF OneRun
      <3> QED
        BY <2>1, <2>2, <2>3, <2>4, <2>5, <2>6, <2>8, <3>1, PredictionsAssumption
           DEF OneRun, Works, Stored
    <2> QED
      BY <2>7, <2>8
  <1>4. CASE RefreshTask(s)
    <2> DEFINE t == working[s].task
               r == [task |-> t, stage |-> "executing", base |-> task[t]]
    <2>1. /\ working[s] \in Run /\ working[s] # NoTask /\ working[s].stage = "marked"
          /\ t \in Tasks /\ task[t] \in TaskRow
      BY <1>1, <1>4, Running DEF RefreshTask
    <2>2. /\ working' = [working EXCEPT ![s] = r]
          /\ UNCHANGED <<task, api, copies>>
      BY <1>4 DEF RefreshTask
    <2>3. r.stage = "executing" /\ r.task = t /\ r.base = task[t]
      OBVIOUS
    <2> HIDE DEF r, t
    <2>4. working'[s] = r /\ \A q \in Sessions \ {s} : working'[q] = working[q]
      BY <1>1, <2>2
    <2>5. Works(s, t) /\ OneRun(t)
      BY <2>1 DEF Works, OneRunInv, t
    <2>6. CASE v # t
      BY <2>1, <2>2, <2>3, <2>4, <2>5, <2>6, OthersKept
    <2>7. CASE v = t
      <3>1. task[t].status = "running" /\ task[t].result = FALSE /\ Stored(t)
        BY <2>1, <2>5, PredictionsAssumption DEF OneRun, Stored, TaskRow
      <3> QED
        BY <2>1, <2>2, <2>3, <2>4, <2>5, <2>7, <3>1 DEF OneRun, Works, Stored
    <2> QED
      BY <2>6, <2>7
  <1> QED
    BY <1>2, <1>3, <1>4

\* The last write of a worker: the row was running, and so the worker read it.
LEMMA LastWrite ==
  ASSUME OneRunInv, NEW s \in Sessions, working[s] # NoTask,
         working[s].stage \in {"executing", "charging"},
         NEW status \in Terminal, NEW result \in BOOLEAN,
         result <=> status = "succeeded", Finish(s, status, result)
  PROVE  /\ task[working[s].task].status = "running"
         /\ task'[working[s].task].status = status
         /\ \A v \in Tasks : OneRun(v)'
  <1> DEFINE t == working[s].task
  <1>1. status \in Statuses /\ status # "running"
    BY DEF Terminal, Statuses
  <1>2. /\ t \in Tasks /\ task[t] \in TaskRow /\ task'[t] \in TaskRow
        /\ \A v \in Tasks \ {t} : task'[v] = task[v]
        /\ task'[t].status = IF status # working[s].base.status THEN status
                             ELSE task[t].status
        /\ task'[t].result = IF result # working[s].base.result THEN result
                             ELSE task[t].result
        /\ working' = [working EXCEPT ![s] = NoTask]
        /\ UNCHANGED <<api, copies, sent>>
    BY <1>1, Finished DEF OneRunInv
  <1>3. Works(s, t) /\ OneRun(t)
    BY <1>2 DEF Works, OneRunInv
  <1> HIDE DEF t
  <1>4. working'[s] = NoTask /\ \A q \in Sessions \ {s} : working'[q] = working[q]
    BY <1>2 DEF OneRunInv, RunsInv, PredictionsTypeOK
  <1>5. /\ task[t].status = "running" /\ working[s].base.status = "running"
        /\ working[s].base.result = FALSE
    BY <1>3 DEF OneRun
  <1>6. task'[t].status = status
    BY <1>1, <1>2, <1>5
  <1>7. task'[t].result <=> status = "succeeded"
    <2>1. task[t].result \in BOOLEAN /\ ~task[t].result
      BY <1>2, <1>3, <1>5, PredictionsAssumption DEF OneRun, Stored, TaskRow
    <2>2. CASE result = FALSE
      <3>1. task'[t].result = task[t].result
        BY <1>2, <1>5, <2>2
      <3> QED
        BY <2>1, <2>2, <3>1
    <2>3. CASE result = TRUE
      <3>1. task'[t].result = TRUE
        BY <1>2, <1>5, <2>3
      <3> QED
        BY <2>3, <3>1
    <2> QED
      BY <2>2, <2>3
  <1>8. \A v \in Tasks \ {t} : OneRun(v)'
    BY <1>2, <1>3, <1>4, OthersKept
  <1>9. ASSUME NEW v \in Tasks, v = t
        PROVE  OneRun(v)'
    <2>1. \A q \in Sessions : working'[q] = NoTask \/ working'[q].task # v
      BY <1>3, <1>4, <1>9 DEF OneRun, Works
    <2>2. copies'[v] = copies[v] /\ api'[v] = api[v] /\ copies[v] = 0
      BY <1>2, <1>3, <1>9 DEF OneRun, Works
    <2>3. api[v] \notin {"none", "checked", "stored"}
      BY <1>3, <1>9 DEF OneRun
    <2> QED
      BY <1>6, <1>7, <1>9, <2>1, <2>2, <2>3 DEF OneRun, Works, Stored
  <1>10. \A v \in Tasks : OneRun(v)'
    BY <1>8, <1>9
  <1> QED
    BY <1>5, <1>6, <1>10 DEF t

\* A step that finishes a task.
Finishes(s) == ModelFails(s) \/ CommitSucceeded(s) \/ CommitInsufficient(s)

\* It finishes a task that is running, and no other.
LEMMA FinishesRun ==
  ASSUME OneRunInv, NEW s \in Sessions, Finishes(s)
  PROVE  /\ working[s].task \in Tasks
         /\ task[working[s].task].status = "running"
         /\ CommitSucceeded(s) => task'[working[s].task].status = "succeeded"
         /\ task'[working[s].task] \in TaskRow
         /\ \A v \in Tasks \ {working[s].task} : task'[v] = task[v]
         /\ \A v \in Tasks : OneRun(v)'
  <1>1. working[s] # NoTask /\ working[s].stage \in {"executing", "charging"}
    <2>1. CASE ModelFails(s)
      BY <2>1 DEF ModelFails
    <2>2. CASE CommitSucceeded(s) \/ CommitInsufficient(s)
      <3>1. working[s] # NoTask /\ pc[s] # "idle"
        BY <2>2 DEF CommitSucceeded, CommitInsufficient, CommitRefused, Commit,
                    CommitExisting
      <3> QED
        BY <3>1, Running DEF OneRunInv
    <2> QED
      BY <2>1, <2>2 DEF Finishes
  <1>2. ASSUME CommitSucceeded(s)
        PROVE  Finish(s, "succeeded", TRUE) /\ "succeeded" \in Terminal
    BY <1>2 DEF CommitSucceeded, Terminal
  <1>3. ASSUME ~CommitSucceeded(s)
        PROVE  Finish(s, "failed", FALSE) /\ "failed" \in Terminal
    BY <1>3 DEF Finishes, ModelFails, CommitInsufficient, Terminal
  <1>4. CASE CommitSucceeded(s)
    <2>1. /\ working[s].task \in Tasks /\ task'[working[s].task] \in TaskRow
          /\ \A v \in Tasks \ {working[s].task} : task'[v] = task[v]
      BY <1>1, <1>2, <1>4, Finished DEF OneRunInv, Statuses
    <2> QED
      BY <1>1, <1>2, <1>4, <2>1, LastWrite
  <1>5. CASE ~CommitSucceeded(s)
    <2>1. /\ working[s].task \in Tasks /\ task'[working[s].task] \in TaskRow
          /\ \A v \in Tasks \ {working[s].task} : task'[v] = task[v]
      BY <1>1, <1>3, <1>5, Finished DEF OneRunInv, Statuses
    <2> QED
      BY <1>1, <1>3, <1>5, <2>1, LastWrite
  <1> QED
    BY <1>4, <1>5

\* The steps that leave the tasks and the messages alone.
LEMMA OneRunElsewhere ==
  ASSUME OneRunInv, NEW s \in Sessions,
         \/ ModelSucceeds(s) \/ AbandonRun(s) \/ WorkerCrash(s)
         \/ AdminBegins(s) \/ AdminCrash(s) \/ AdminEnds(s)
         \/ (Statement(s) /\ UNCHANGED predictionVars)
  PROVE  UNCHANGED <<task, api, copies>> /\ \A v \in Tasks : OneRun(v)'
  <1>1. UNCHANGED <<task, api, copies>>
    BY DEF ModelSucceeds, AbandonRun, WorkerCrash, AdminBegins, AdminCrash, AdminEnds,
           predictionVars
  <1>2. \A q \in Sessions : working'[q] # NoTask =>
            /\ working[q] # NoTask /\ working'[q].task = working[q].task
            /\ working'[q].base = working[q].base
            /\ \/ working'[q].stage = working[q].stage
               \/ working[q].stage = "executing" /\ working'[q].stage = "charging"
    <2>1. PredictionsTypeOK
      BY DEF OneRunInv, RunsInv
    <2>2. CASE ModelSucceeds(s)
      <3> DEFINE r == [working[s] EXCEPT !.stage = "charging"]
      <3>1. working[s] \in Run /\ working[s].stage = "executing" /\ working[s] # NoTask
        BY <2>2, Running DEF ModelSucceeds, OneRunInv
      <3>2. r.task = working[s].task /\ r.base = working[s].base /\ r.stage = "charging"
        BY <3>1 DEF Run
      <3>3. working' = [working EXCEPT ![s] = r]
        BY <2>2 DEF ModelSucceeds
      <3> HIDE DEF r
      <3> QED
        BY <2>1, <3>1, <3>2, <3>3 DEF PredictionsTypeOK
    <2>3. CASE ~ModelSucceeds(s)
      <3>1. working' = working \/ working' = [working EXCEPT ![s] = NoTask]
        BY <2>3 DEF AbandonRun, WorkerCrash, AdminBegins, AdminCrash, AdminEnds,
                    predictionVars
      <3> QED
        BY <2>1, <3>1 DEF PredictionsTypeOK
    <2> QED
      BY <2>2, <2>3
  <1> QED
    BY <1>1, <1>2, OneRunKept DEF OneRunInv, Works

\* Every step keeps one run per task.
LEMMA OneRunStep ==
  ASSUME DeliveredOnce, OneRunInv, [PredictionsNext]_predictionsVars
  PROVE  OneRunInv'
  <1>1. RunsInv'
    BY RunsStep DEF OneRunInv
  <1>2. ASSUME NEW v \in Tasks PROVE OneRun(v)'
    <2>1. CASE UNCHANGED predictionsVars
      BY <2>1, OneRunKept DEF predictionsVars, predictionVars, OneRunInv, Works
    <2>2. ASSUME NEW t \in Tasks,
                 ApiStep(t) \/ EnqueueFails(t) \/ ApiCrash(t) \/ Redeliver(t)
          PROVE  OneRun(v)'
      BY <2>2, OneRunApi
    <2>3. ASSUME NEW s \in Sessions,
                 (\E t \in Tasks : LoadTask(s, t)) \/ MarkRunning(s) \/ RefreshTask(s)
          PROVE  OneRun(v)'
      BY <2>3, OneRunWorker
    <2>4. ASSUME NEW s \in Sessions, Finishes(s)
          PROVE  OneRun(v)'
      BY <2>4, FinishesRun
    <2>5. ASSUME NEW s \in Sessions,
                 \/ ModelSucceeds(s) \/ AbandonRun(s) \/ WorkerCrash(s)
                 \/ AdminBegins(s) \/ AdminCrash(s) \/ AdminEnds(s)
                 \/ (Statement(s) /\ UNCHANGED predictionVars)
          PROVE  OneRun(v)'
      BY <2>5, OneRunElsewhere
    <2> QED
      BY <2>1, <2>2, <2>3, <2>4, <2>5
         DEF PredictionsNext, SessionStep, TakeMessage, Finishes
  <1> QED
    BY <1>1, <1>2 DEF OneRunInv

-----------------------------------------------------------------------------

\* Before the first request there is no task.
LEMMA OneRunInit == PredictionsInit /\ RunsInv => OneRunInv
  <1> SUFFICES ASSUME PredictionsInit, RunsInv, NEW t \in Tasks PROVE OneRun(t)
    BY DEF OneRunInv
  <1>1. /\ task[t] = NoTask /\ api[t] = "none" /\ copies[t] = 0
        /\ \A s \in Sessions : working[s] = NoTask
    BY DEF PredictionsInit
  <1> QED
    BY <1>1 DEF OneRun, Works, Stored

\* One run per task, in every reachable state.
LEMMA OneRunInvariant ==
  ASSUME DeliveredOnce
  PROVE  PredictionsSpec => []OneRunInv
  <1>1. OneRunInv /\ [PredictionsNext]_predictionsVars => OneRunInv'
    BY OneRunStep
  <1> QED
    BY <1>1, OneRunInit, RunsInvariant, PTL DEF PredictionsSpec

\* A task whose status is final keeps its row, its status and its result.
LEMMA FinalKept ==
  ASSUME DeliveredOnce, OneRunInv, [PredictionsNext]_predictionsVars, NEW t \in Tasks,
         Stored(t), task[t].status \in Terminal
  PROVE  /\ task'[t] # NoTask
         /\ task'[t].status = task[t].status
         /\ task'[t].result = task[t].result
  <1> USE DEF Stored
  <1>1. /\ RunsInv /\ PredictionsTypeOK /\ OneRun(t)
        /\ task[t].status \notin {"queued", "running"}
    BY DEF OneRunInv, RunsInv, Terminal
  <1>2. ASSUME NEW v \in Tasks,
               ApiStep(v) \/ EnqueueFails(v) \/ ApiCrash(v) \/ Redeliver(v)
        PROVE  /\ task'[t] # NoTask
               /\ task'[t].status = task[t].status
               /\ task'[t].result = task[t].result
    <2>1. CASE StoreTask(v)
      <3>1. v # t
        BY <1>1, <2>1 DEF OneRun, StoreTask, Api
      <3>2. task'[t] = task[t]
        BY <1>1, <2>1, <3>1 DEF StoreTask, PredictionsTypeOK
      <3> QED
        BY <3>2
    <2>2. CASE SaveCeleryId(v)
      <3> DEFINE r == [task[v] EXCEPT !.celery = TRUE]
      <3>1. task[v] \in TaskRow
        BY <1>1, <2>2 DEF SaveCeleryId, Api, RunsInv, RunsStored, PredictionsTypeOK,
                          Stored
      <3>2. task' = [task EXCEPT ![v] = r]
        BY <2>2 DEF SaveCeleryId
      <3>3. r.status = task[v].status /\ r.result = task[v].result /\ r \in TaskRow
        BY <3>1 DEF TaskRow
      <3> HIDE DEF r
      <3> QED
        BY <1>1, <3>2, <3>3, PredictionsAssumption DEF PredictionsTypeOK
    <2>3. CASE ~StoreTask(v) /\ ~SaveCeleryId(v)
      <3>1. task' = task
        BY <1>2, <2>3 DEF ApiStep, CheckCredits, Enqueue, EnqueueFails, ApiCrash,
                          Redeliver
      <3> QED
        BY <3>1
    <2> QED
      BY <2>1, <2>2, <2>3
  <1>3. ASSUME NEW s \in Sessions, Finishes(s) \/ MarkRunning(s)
        PROVE  task'[t] = task[t]
    <2>1. CASE Finishes(s)
      BY <1>1, <2>1, FinishesRun
    <2>2. CASE MarkRunning(s)
      <3>1. /\ working[s] # NoTask /\ working[s].stage = "loaded"
            /\ \A v \in Tasks \ {working[s].task} : task'[v] = task[v]
        BY <1>1, <2>2, Marked DEF MarkRunning
      <3>2. working[s].task # t
        BY <1>1, <3>1 DEF OneRun, Works
      <3> QED
        BY <3>1, <3>2
    <2> QED
      BY <1>3, <2>1, <2>2
  <1>4. ASSUME NEW s \in Sessions,
               \/ (\E x \in Tasks : LoadTask(s, x)) \/ RefreshTask(s)
               \/ ModelSucceeds(s) \/ AbandonRun(s) \/ WorkerCrash(s)
               \/ AdminBegins(s) \/ AdminCrash(s) \/ AdminEnds(s)
               \/ (Statement(s) /\ UNCHANGED predictionVars)
        PROVE  task' = task
    BY <1>4 DEF LoadTask, RefreshTask, ModelSucceeds, AbandonRun, WorkerCrash,
                AdminBegins, AdminCrash, AdminEnds, predictionVars
  <1>5. UNCHANGED predictionsVars => task' = task
    BY DEF predictionsVars, predictionVars
  <1>6. CASE task' = task
    BY <1>6
  <1>7. CASE task'[t] = task[t]
    BY <1>7
  <1> QED
    BY <1>2, <1>3, <1>4, <1>5, <1>6, <1>7
       DEF PredictionsNext, SessionStep, TakeMessage, Finishes

\* If no message is delivered twice, a final status and its result are final: no
\* worker and no API handler that still has to store the Celery id goes back.
THEOREM FinalStaysFinal ==
  ASSUME DeliveredOnce
  PROVE  PredictionsSpec => OutcomeIsFinal
  <1> DEFINE A == \A t \in Tasks :
                      Stored(t) /\ task[t].status \in Terminal =>
                          /\ task'[t].status = task[t].status
                          /\ task'[t].result = task[t].result
  <1>1. OneRunInv /\ [PredictionsNext]_predictionsVars => [A]_predictionsVars
    BY FinalKept
  <1> QED
    BY <1>1, OneRunInvariant, PTL DEF PredictionsSpec, OutcomeIsFinal

-----------------------------------------------------------------------------

\* What is charged has succeeded.
ChargedSucceeded ==
    \A t \in Tasks : Charged(t) => Stored(t) /\ task[t].status = "succeeded"

\* A commit charges for no other task than that of its session's run.
LEMMA ChargedBy ==
  ASSUME RunsInv, NEW s \in Sessions, Commit(s), NEW t \in Tasks, Charged(t)'
  PROVE  Charged(t) \/ (working[s] # NoTask /\ working[s].task = t)
  <1>1. TypeOK /\ pc[s] # "idle"
    BY DEF RunsInv, IInv, Commit
  <1>2. Owner[t] \in Users
    BY OwnersKnown
  <1>3. PICK i \in DOMAIN ledger'[Owner[t]] : Charges(ledger'[Owner[t]][i], t)
    BY DEF Charged
  <1>4. CASE i \in DOMAIN ledger[Owner[t]]
             /\ ledger'[Owner[t]][i] = ledger[Owner[t]][i]
    BY <1>3, <1>4 DEF Charged
  <1>5. CASE ledger'[Owner[t]][i] = CL!RowFor(req[s], After(s))
    BY <1>1, <1>3, <1>5, RowCharges
  <1> QED
    BY <1>1, <1>2, <1>4, <1>5, RowsAfterCommit

\* Every step keeps that what is charged has succeeded: the commit that charges
\* writes the status, and a final status is final.
LEMMA ChargedSucceededStep ==
  ASSUME DeliveredOnce, OneRunInv, ChargedSucceeded, [PredictionsNext]_predictionsVars
  PROVE  ChargedSucceeded'
  <1> SUFFICES ASSUME NEW t \in Tasks, Charged(t)'
               PROVE  task'[t] # NoTask /\ task'[t].status = "succeeded"
    BY DEF ChargedSucceeded, Stored
  <1>1. RunsInv
    BY DEF OneRunInv
  <1>2. ASSUME Charged(t)
        PROVE  task'[t] # NoTask /\ task'[t].status = "succeeded"
    BY <1>2, FinalKept DEF ChargedSucceeded, Terminal
  <1>3. CASE ledger' = ledger
    <2>1. Charged(t)
      BY <1>3 DEF Charged, Charges
    <2> QED
      BY <1>2, <2>1
  <1>4. ASSUME NEW s \in Sessions, CommitSucceeded(s), Commit(s)
        PROVE  task'[t] # NoTask /\ task'[t].status = "succeeded"
    <2>1. CASE working[s].task = t
      BY <1>4, <2>1, FinishesRun, PredictionsAssumption DEF Finishes
    <2>2. CASE working[s].task # t
      BY <1>1, <1>2, <1>4, <2>2, ChargedBy
    <2> QED
      BY <2>1, <2>2
  <1>5. ASSUME NEW s \in Sessions, AdminEnds(s), Commit(s)
        PROVE  task'[t] # NoTask /\ task'[t].status = "succeeded"
    BY <1>1, <1>2, <1>5, ChargedBy DEF AdminEnds
  <1> QED
    BY <1>1, <1>3, <1>4, <1>5, PredictionSteps, Succeeds

\* If no message is delivered twice and adjustments keep off the keys of tasks,
\* then at every moment, whoever crashes, a task is charged exactly if its status
\* is succeeded, and exactly then its result is stored.
THEOREM OutcomesAgree ==
  ASSUME DeliveredOnce, DebitKeysReserved
  PROVE  PredictionsSpec => []OutcomeAgrees
  <1>1. PredictionsInit => ChargedSucceeded
    <2> SUFFICES ASSUME PredictionsInit, NEW t \in Tasks PROVE ~Charged(t)
      BY DEF ChargedSucceeded
    <2>1. ledger[Owner[t]] = <<>>
      BY OwnersKnown DEF PredictionsInit, BillingInit, CL!LedgerInit
    <2>2. DOMAIN ledger[Owner[t]] = {}
      BY <2>1
    <2> QED
      BY <2>2 DEF Charged
  <1>2. OneRunInv /\ ChargedSucceeded /\ [PredictionsNext]_predictionsVars
            => ChargedSucceeded'
    BY ChargedSucceededStep
  <1>3. OneRunInv /\ ChargedSucceeded /\ SucceededIsCharged => OutcomeAgrees
    BY DEF OneRunInv, OneRun, ChargedSucceeded, SucceededIsCharged, OutcomeAgrees
  <1> QED
    BY <1>1, <1>2, <1>3, OneRunInvariant, PredictionCharged, PTL DEF PredictionsSpec

=============================================================================

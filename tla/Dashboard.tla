------------------------------ MODULE Dashboard ------------------------------
(***************************************************************************)
(* app.dashboard.main: one browser tab of the Streamlit dashboard, as a    *)
(* client of the API.                                                      *)
(*                                                                         *)
(* Streamlit runs the whole script for every click and keeps               *)
(* st.session_state between the runs.  A click during a run is a request   *)
(* to start anew: the run ends at its next access to st, wherever that is, *)
(* but an API call that was sent has its effect.  A button fires when the  *)
(* new run draws a button of the same identity (its label, unless it has a *)
(* key); a selectbox keeps its value while its options are the same.       *)
(*                                                                         *)
(* An API call is a step: it is refused, or it is carried out and its      *)
(* answer arrives or is lost.  How the seven answers of a user's page fit  *)
(* together is module Reports; texts, charts and tables are left out, as   *)
(* are the pages that only read (Admin overview stands for them).          *)
(***************************************************************************)
EXTENDS Integers, Sequences, FiniteSets, Functions

CONSTANTS
    Accounts,      \* rows of table users, registered or not
    Role,          \* Role[e]: "user" or "admin"
    Registered,    \* the accounts there are at first, the newest first
    Earlier,       \* the other rows there are at first, by table
    MaxRows,       \* bound of the model: rows of the other tables
    MaxClicks,     \* bound of the model: clicks in the tab
    MaxElsewhere,  \* bound of the model: what happens outside the tab
    None           \* a missing key of session_state, no choice, no click

VARIABLES
    accounts,      \* the registered accounts, the newest first
    active,        \* the accounts with is_active
    payments,      \* payments[p]: owner and status
    tasks,         \* tasks[t]: owner of a prediction, and whether it is pending
    models,        \* models[m]: owner, and whether it is not deleted
    codes,         \* codes[c]: is_active, and the accounts that have redeemed it
    adjusted,      \* adjusted[e]: manual adjustments of e's balance
    state,         \* st.session_state
    expired,       \* the bearer token has expired
    screen,        \* what the tab shows
    waiting,       \* a click that has not started its run, or None
    pc,            \* the next statement of the running script
    run,           \* what it was started by, and its local variables
    clicks, elsewhere,      \* for the bounds
    topUps, thanks, cutOff  \* history: see TopUpsAddUp and KeptIsOwn

server == <<accounts, active, payments, tasks, models, codes, adjusted>>
dashboardVars == <<server, state, expired, screen, waiting, pc, run,
                   clicks, elsewhere, topUps, thanks, cutOff>>

\* USER_PAGES and ADMIN_PAGES.
Pages == [user |-> <<"Overview", "Predictions", "MyModels", "Balance">>,
          admin |-> <<"AdminOverview", "Users", "Models", "Transactions", "PromoCodes">>]

ASSUME DashboardAssumption ==
    /\ Role \in [Accounts -> {"user", "admin"}]
    /\ Registered \in Seq(Accounts) /\ IsInjective(Registered)
    /\ Earlier.tasks \in Seq([owner: Range(Registered), pending: BOOLEAN])
    /\ Earlier.models \in Seq([owner: Range(Registered), live: BOOLEAN])
    /\ Earlier.codes \in Seq([active: BOOLEAN, by: SUBSET Range(Registered)])
    /\ {MaxRows, MaxClicks, MaxElsewhere} \subseteq Nat
    /\ None \notin Accounts \cup Nat

-----------------------------------------------------------------------------

Me == state.token
MyPages == Range(Pages[Role[Me]])

\* get_current_user: the token is valid and its account is active.
Authorized == Me \in active /\ ~expired

\* A list of rows: the i-th is the one that i - 1 of them are newer than.
NewestFirst(ids) ==
    [i \in 1..Cardinality(ids) |->
        CHOOSE x \in ids : Cardinality({y \in ids : y > x}) = i - 1]

\* What the selectbox of a page offers; on My models, what has a button.  The
\* label of a promo code has the number of its redemptions in it.
Options(page) ==
    CASE page \in {"Users", "Transactions"} -> accounts
      [] page = "Models" -> NewestFirst({m \in DOMAIN models : models[m].live})
      [] page \in {"Predictions", "MyModels"} ->
             NewestFirst({m \in DOMAIN models : models[m].owner = Me})
      [] page = "PromoCodes" ->
             LET on == NewestFirst({c \in DOMAIN codes : codes[c].active})
             IN [i \in DOMAIN on |-> <<on[i], Cardinality(codes[on[i]].by)>>]
      [] OTHER -> <<>>

\* The option that a selectbox is created with.
Preselected(page, options) ==
    IF options = <<>> THEN None
    ELSE IF page = "Predictions" /\ state.model \in Range(options)
         THEN state.model
         ELSE Head(options)

\* Its value in this run: another list of options makes it another selectbox.
ChoiceByPage(page, options) ==
    IF run.from.page # page THEN Preselected(page, options) ELSE run.from.choice
Choice(page, options) ==
    IF run.from.page # page \/ run.from.options # options
    THEN Preselected(page, options)
    ELSE run.from.choice

Blank(who, page) ==
    [who |-> who, page |-> page, options |-> <<>>, choice |-> None, label |-> None, rows |-> {}]

\* The success messages that a page pops when it is drawn.
Messages(page) ==
    CASE page = "Predictions" -> {"predicted"}
      [] page = "MyModels" -> {"uploaded"}
      [] page = "Balance" -> {"toppedUp", "redeemed"}
      [] page = "PromoCodes" -> {"code"}
      [] OTHER -> {}

\* The buttons of a page, with what each of them is about.
If(condition, set) == IF condition THEN set ELSE {}
PageButtons(s) ==
    CASE s.page = "Predictions" ->
             If(s.options # <<>>, {<<"predict", None>>})
             \cup If(state.result # None /\ state.result.pending, {<<"refreshResult", None>>})
             \cup If(state.detail # None, {<<"refreshDetail", None>>, <<"close", None>>})
             \cup {"open"} \X s.rows
      [] s.page = "MyModels" -> {<<"upload", None>>} \cup {"use"} \X Range(s.options)
      [] s.page = "Balance" -> {<<"topUp", None>>, <<"redeem", None>>}
      [] s.page = "Users" -> {<<s.label, None>>}
      [] s.page = "Models" -> If(s.options # <<>>, {<<"delete", None>>})
      [] s.page = "Transactions" -> If(s.options # <<>>, {<<"adjust", None>>})
      [] s.page = "PromoCodes" ->
             {<<"create", None>>} \cup If(s.options # <<>>, {<<"deactivate", None>>})
      [] OTHER -> {}

\* A selectbox of its own reruns the script, one in a form is sent with it.
Reruns == {"Predictions", "Users", "Models"}
InForm == {"adjust", "deactivate"}

Buttons ==
    CASE screen.page = "Login" -> {"logIn"} \X Accounts
      [] screen.page = "Error" -> {}
      [] OTHER ->
             {<<"logOut", None>>}
             \cup {"go"} \X Range(Pages[Role[screen.who]])
             \cup If(screen.page \in Reruns,
                     {"choose"} \X (Range(screen.options) \ {screen.choice}))
             \cup PageButtons(screen)

NewRun(on, arg, from) ==
    [on |-> on, arg |-> arg, from |-> from, next |-> Blank(None, "Login"), row |-> None]
NoRun == NewRun("nothing", None, Blank(None, "Login"))

\* st.session_state of a tab that has just been opened.
NewSession ==
    [token |-> None, result |-> None, detail |-> None, model |-> None,
     page |-> [r \in DOMAIN Pages |-> Head(Pages[r])], messages |-> {}]

-----------------------------------------------------------------------------

DashboardInit ==
    /\ accounts = Registered
    /\ active = Range(Registered)
    /\ payments = <<>>
    /\ tasks = Earlier.tasks /\ models = Earlier.models /\ codes = Earlier.codes
    /\ adjusted = [e \in Accounts |-> 0]
    /\ state = NewSession
    /\ expired = FALSE
    /\ screen = Blank(None, "Login")
    /\ waiting = None
    /\ pc = "idle"
    /\ run = NoRun
    /\ clicks = 0 /\ elsewhere = 0
    /\ topUps = [e \in Accounts |-> 0]
    /\ thanks = [e \in Accounts |-> 0]
    /\ cutOff = FALSE

\* What the selectbox of the page may show when b is clicked: a choice is made
\* in it at once, one in a form some time before the button.
ChoicesAt(b) ==
    CASE b[1] = "choose" -> {b[2]}
      [] b[1] \in InForm -> Range(screen.options)
      [] OTHER -> {screen.choice}

\* A click is sent with what is on the screen.
Click ==
    /\ waiting = None
    /\ clicks < MaxClicks
    /\ clicks' = clicks + 1
    /\ \E b \in Buttons :
           /\ \E x \in ChoicesAt(b) : screen' = [screen EXCEPT !.choice = x]
           /\ waiting' = NewRun(b[1], b[2], screen')
           /\ topUps' = IF b[1] = "topUp" THEN [topUps EXCEPT ![screen.who] = @ + 1] ELSE topUps
    /\ UNCHANGED <<server, state, expired, pc, run, elsewhere, thanks, cutOff>>

\* The next run begins, between two statements of the one that is running.
Begin ==
    /\ waiting # None
    /\ pc' = "start"
    /\ run' = waiting
    /\ waiting' = None
    /\ cutOff' = (cutOff \/ pc = "logOut")
    /\ UNCHANGED <<server, state, expired, screen, clicks, elsewhere, topUps, thanks>>

\* The browser opens the page anew: State is held in its session only.
Reload ==
    /\ waiting = None
    /\ clicks < MaxClicks
    /\ clicks' = clicks + 1
    /\ state' = NewSession
    /\ screen' = Blank(None, "Login")
    /\ pc' = "start" /\ run' = NoRun
    /\ cutOff' = FALSE
    /\ UNCHANGED <<server, expired, waiting, elsewhere, topUps, thanks>>

-----------------------------------------------------------------------------
(* The statements of the script.                                           *)

\* What none of them changes.
others == <<waiting, clicks, elsewhere, topUps>>

\* st.rerun: the click has fired and does not fire again.
RerunClick == pc' = "start" /\ run' = NewRun(run.on, run.arg, screen)
Rerun == pc' = "start" /\ run' = NewRun("nothing", None, screen)

\* The run ends, with an error message when a call was refused or not answered.
Stop == pc' = "idle" /\ run' = NoRun
StopWith(page) == Stop /\ screen' = Blank(Me, page)

\* main without a token: the log-in form and its button.
LogIn ==
    /\ pc = "start" /\ Me = None
    /\ screen' = Blank(None, "Login")
    /\ \/ /\ run.on = "logIn" /\ run.arg \in active
          /\ state' = [state EXCEPT !.token = run.arg]
          /\ expired' = FALSE
          /\ Rerun
       \/ Stop /\ UNCHANGED <<state, expired>>
    /\ UNCHANGED <<server, others, cutOff, thanks>>

\* main with a token: GET /users/me tells the workspace.  Without an answer
\* nothing but an error is drawn, and the token stays.
LoadUser ==
    /\ pc = "start" /\ Me # None
    /\ \/ Authorized /\ pc' = "sidebar" /\ UNCHANGED <<run, screen>>
       \/ StopWith("Error")
    /\ UNCHANGED <<server, others, cutOff, state, expired, thanks>>

\* The keys that a log-out removes, in this order.
OnlyToken == <<"token">>
LogOutKeys == <<"token", "result", "detail", "model">>

Sidebar ==
    /\ pc = "sidebar"
    /\ CASE run.on = "go" /\ run.arg \in MyPages ->
                state' = [state EXCEPT !.page[Role[Me]] = run.arg] /\ Rerun
         [] run.on = "logOut" ->
                pc' = "logOut" /\ run' = [run EXCEPT !.row = 1] /\ UNCHANGED state
         [] OTHER -> pc' = "load" /\ UNCHANGED <<run, state>>
    /\ UNCHANGED <<server, others, cutOff, screen, expired, thanks>>

LogOut ==
    /\ pc = "logOut"
    /\ IF run.row > Len(LogOutKeys)
       THEN Rerun /\ cutOff' = FALSE /\ UNCHANGED state
       ELSE /\ state' = [state EXCEPT ![LogOutKeys[run.row]] = None]
            /\ run' = [run EXCEPT !.row = @ + 1]
            /\ UNCHANGED <<pc, cutOff>>
    /\ UNCHANGED <<server, others, screen, expired, thanks>>

\* The lists of the page.  When they fail the sidebar is all there is.
LoadPage ==
    /\ pc = "load"
    /\ \/ /\ Authorized
          /\ LET page == state.page[Role[Me]]
                 options == Options(page)
             IN /\ run' = [run EXCEPT !.next =
                      [who |-> Me, page |-> page, options |-> options,
                       choice |-> Choice(page, options), label |-> None,
                       rows |-> If(page = "Predictions",
                                   {t \in DOMAIN tasks : tasks[t].owner = Me})]]
                /\ pc' = IF page = "Users" THEN "detail" ELSE "draw"
          /\ UNCHANGED screen
       \/ StopWith("Sidebar")
    /\ UNCHANGED <<server, others, cutOff, state, expired, thanks>>

\* The button on the page Users says what it does to the account chosen.
LoadDetail ==
    /\ pc = "detail"
    /\ \/ /\ Authorized
          /\ run' = [run EXCEPT !.next.label =
                 IF run.next.choice \in active THEN "block" ELSE "unblock"]
          /\ pc' = "draw"
          /\ UNCHANGED screen
       \/ StopWith("Sidebar")
    /\ UNCHANGED <<server, others, cutOff, state, expired, thanks>>

\* The page is drawn and its messages are shown; a button of it that was
\* clicked fires, and what it does comes next.
FiresByPlace(s) ==
    IF run.on \in {"block", "unblock"} THEN s.page = "Users"
    ELSE <<run.on, run.arg>> \in PageButtons(s)
Fires(s) == <<run.on, run.arg>> \in PageButtons(s)

\* A selectbox that is drawn again shows what it shows already.
Drawn(s) ==
    IF s.page = screen.page /\ s.options = screen.options
    THEN [s EXCEPT !.choice = screen.choice]
    ELSE s

Draw ==
    /\ pc = "draw"
    /\ screen' = Drawn(run.next)
    /\ state' = [state EXCEPT !.messages = @ \ Messages(run.next.page)]
    /\ IF Fires(run.next) THEN pc' = "act" /\ UNCHANGED run ELSE Stop
    /\ UNCHANGED <<server, others, cutOff, expired, thanks>>

-----------------------------------------------------------------------------
(* What the buttons do.                                                    *)

Acts(on) == pc = "act" /\ run.on = on
Target == run.next.choice

\* A call that is carried out, and changes nothing of the server but this; then
\* the script goes on, or it has no answer and stops.
Sends(on) == Acts(on) /\ Authorized
NoAnswer == Stop /\ UNCHANGED <<state, thanks>>
Thank(message) ==
    /\ state' = [state EXCEPT !.messages = @ \cup {message}]
    /\ Rerun
    /\ UNCHANGED thanks
Idle == <<others, cutOff, screen, expired>>

\* Any call can be refused, and a form that is incomplete is not sent.
Refused ==
    /\ pc \in {"act", "confirm", "wait"}
    /\ run.on \notin {"use", "close"}
    /\ NoAnswer
    /\ UNCHANGED <<server, Idle>>

\* A top-up is two calls: the payment is created ...
CreatePayment ==
    /\ Sends("topUp")
    /\ Len(payments) < MaxRows
    /\ payments' = Append(payments, [owner |-> Me, status |-> "pending"])
    /\ \/ /\ pc' = "confirm"
          /\ run' = [run EXCEPT !.row = Len(payments')]
          /\ UNCHANGED <<state, thanks>>
       \/ NoAnswer
    /\ UNCHANGED <<accounts, active, tasks, models, codes, adjusted, Idle>>

\* ... and confirmed.
ConfirmPayment ==
    /\ pc = "confirm" /\ Authorized
    /\ payments' = [payments EXCEPT ![run.row].status = "succeeded"]
    /\ \/ /\ state' = [state EXCEPT !.messages = @ \cup {"toppedUp"}]
          /\ thanks' = [thanks EXCEPT ![Me] = @ + 1]
          /\ Rerun
       \/ NoAnswer
    /\ UNCHANGED <<accounts, active, tasks, models, codes, adjusted, Idle>>

RedeemCode ==
    /\ Sends("redeem")
    /\ \E c \in DOMAIN codes :
           /\ codes[c].active /\ Me \notin codes[c].by
           /\ codes' = [codes EXCEPT ![c].by = @ \cup {Me}]
    /\ Thank("redeemed") \/ NoAnswer
    /\ UNCHANGED <<accounts, active, payments, tasks, models, adjusted, Idle>>

CreatePrediction ==
    /\ Sends("predict")
    /\ Len(tasks) < MaxRows
    /\ models[Target].live
    /\ tasks' = Append(tasks, [owner |-> Me, pending |-> TRUE])
    /\ \/ /\ pc' = "wait"
          /\ run' = [run EXCEPT !.row = Len(tasks')]
          /\ UNCHANGED <<state, thanks>>
       \/ NoAnswer
    /\ UNCHANGED <<accounts, active, payments, models, codes, adjusted, Idle>>

\* _get_prediction, for the owner.
Seen(t) == [task |-> t, pending |-> tasks[t].pending]
Reads(t) == Authorized /\ tasks[t].owner = Me

\* _wait_for_prediction_result ends with what the last poll has read.
AwaitResult ==
    /\ pc = "wait" /\ Reads(run.row)
    /\ state' = [state EXCEPT !.result = Seen(run.row), !.messages = @ \cup {"predicted"}]
    /\ Rerun
    /\ UNCHANGED <<server, Idle, thanks>>

\* A prediction is read again, opened, or closed.
Shows(key, t) ==
    /\ Reads(t)
    /\ state' = [state EXCEPT ![key] = Seen(t)]
ShowPrediction ==
    /\ \/ Acts("refreshResult") /\ Shows("result", state.result.task)
       \/ Acts("refreshDetail") /\ Shows("detail", state.detail.task)
       \/ Acts("open") /\ Shows("detail", run.arg)
       \/ Acts("close") /\ state' = [state EXCEPT !.detail = None]
    /\ Rerun
    /\ UNCHANGED <<server, Idle, thanks>>

UploadModel ==
    /\ Sends("upload")
    /\ Len(models) < MaxRows
    /\ models' = Append(models, [owner |-> Me, live |-> TRUE])
    /\ Thank("uploaded") \/ NoAnswer
    /\ UNCHANGED <<accounts, active, payments, tasks, codes, adjusted, Idle>>

\* _navigate_user, with the model for the next prediction.
UseModel ==
    /\ Acts("use")
    /\ state' = [state EXCEPT !.page["user"] = "Predictions", !.model = run.arg]
    /\ Rerun
    /\ UNCHANGED <<server, Idle, thanks>>

\* The admin's calls.  Nobody takes the account away from himself.
UpdateStatus ==
    /\ \/ Sends("block") \/ Sends("unblock")
    /\ IF run.next.label = "block"
       THEN Target # Me /\ active' = active \ {Target}
       ELSE active' = active \cup {Target}
    /\ (Rerun /\ UNCHANGED <<state, thanks>>) \/ NoAnswer
    /\ UNCHANGED <<accounts, payments, tasks, models, codes, adjusted, Idle>>

DeleteModel ==
    /\ Sends("delete")
    /\ models' = [models EXCEPT ![Target].live = FALSE]
    /\ (Rerun /\ UNCHANGED <<state, thanks>>) \/ NoAnswer
    /\ UNCHANGED <<accounts, active, payments, tasks, codes, adjusted, Idle>>

AdjustBalance ==
    /\ Sends("adjust")
    /\ adjusted' = [adjusted EXCEPT ![Target] = @ + 1]
    /\ (Rerun /\ UNCHANGED <<state, thanks>>) \/ NoAnswer
    /\ UNCHANGED <<accounts, active, payments, tasks, models, codes, Idle>>

UpdateCodes ==
    /\ \/ /\ Sends("create")
          /\ Len(codes) < MaxRows
          /\ codes' = Append(codes, [active |-> TRUE, by |-> {}])
       \/ /\ Sends("deactivate")
          /\ codes' = [codes EXCEPT ![Target[1]].active = FALSE]
    /\ Thank("code") \/ NoAnswer
    /\ UNCHANGED <<accounts, active, payments, tasks, models, adjusted, Idle>>

Script ==
    \/ LogIn \/ LoadUser \/ Sidebar \/ LogOut \/ LoadPage \/ LoadDetail \/ Draw
    \/ Refused
    \/ CreatePayment \/ ConfirmPayment \/ RedeemCode
    \/ CreatePrediction \/ AwaitResult \/ ShowPrediction
    \/ UploadModel \/ UseModel
    \/ UpdateStatus \/ DeleteModel \/ AdjustBalance \/ UpdateCodes

-----------------------------------------------------------------------------

\* What others do to the same tables, through the API, and what time does.
OthersRegister ==
    /\ \E e \in Accounts \ Range(accounts) :
           /\ accounts' = <<e>> \o accounts
           /\ active' = active \cup {e}
    /\ UNCHANGED <<payments, tasks, models, codes, adjusted, expired>>

OthersUpdateStatus ==
    /\ \E e \in Range(accounts) : active' \in {active \ {e}, active \cup {e}}
    /\ UNCHANGED <<accounts, payments, tasks, models, codes, adjusted, expired>>

WorkersFinish ==
    /\ \E t \in DOMAIN tasks : tasks' = [tasks EXCEPT ![t].pending = FALSE]
    /\ UNCHANGED <<accounts, active, payments, models, codes, adjusted, expired>>

OthersUpload ==
    /\ Len(models) < MaxRows
    /\ \E e \in Range(accounts) : models' = Append(models, [owner |-> e, live |-> TRUE])
    /\ UNCHANGED <<accounts, active, payments, tasks, codes, adjusted, expired>>

OthersDeleteModel ==
    /\ \E m \in DOMAIN models : models' = [models EXCEPT ![m].live = FALSE]
    /\ UNCHANGED <<accounts, active, payments, tasks, codes, adjusted, expired>>

OthersCreateCode ==
    /\ Len(codes) < MaxRows
    /\ codes' = Append(codes, [active |-> TRUE, by |-> {}])
    /\ UNCHANGED <<accounts, active, payments, tasks, models, adjusted, expired>>

OthersDeactivateCode ==
    /\ \E c \in DOMAIN codes : codes' = [codes EXCEPT ![c].active = FALSE]
    /\ UNCHANGED <<accounts, active, payments, tasks, models, adjusted, expired>>

OthersRedeem ==
    /\ \E c \in DOMAIN codes, e \in Range(accounts) :
           codes[c].active /\ codes' = [codes EXCEPT ![c].by = @ \cup {e}]
    /\ UNCHANGED <<accounts, active, payments, tasks, models, adjusted, expired>>

TokenExpires ==
    /\ Me # None
    /\ expired' = TRUE
    /\ UNCHANGED server

Elsewhere ==
    /\ elsewhere < MaxElsewhere
    /\ elsewhere' = elsewhere + 1
    /\ \/ OthersRegister \/ OthersUpdateStatus
       \/ WorkersFinish
       \/ OthersUpload \/ OthersDeleteModel
       \/ OthersCreateCode \/ OthersDeactivateCode \/ OthersRedeem
       \/ TokenExpires
    /\ UNCHANGED <<state, screen, waiting, pc, run, clicks, topUps, thanks, cutOff>>

DashboardNext == Click \/ Begin \/ Reload \/ Script \/ Elsewhere

DashboardSpec == DashboardInit /\ [][DashboardNext]_dashboardVars

-----------------------------------------------------------------------------

Results == [task: DOMAIN tasks, pending: BOOLEAN] \cup {None}

\* Every part has its type; what the tab keeps or shows of predictions and
\* models are rows that exist, and a selectbox shows one of its options.
DashboardTypeOK ==
    /\ Range(accounts) \subseteq Accounts /\ active \subseteq Range(accounts)
    /\ payments \in Seq([owner: Accounts, status: {"pending", "succeeded"}])
    /\ state.token \in Accounts \cup {None}
    /\ {state.result, state.detail} \subseteq Results
    /\ state.model \in DOMAIN models \cup {None}
    /\ \A r \in DOMAIN Pages : state.page[r] \in Range(Pages[r])
    /\ \A s \in {screen, run.next} :
           /\ IF s.options = <<>> THEN s.choice = None ELSE s.choice \in Range(s.options)
           /\ s.rows \subseteq DOMAIN tasks
    /\ pc \in {"idle", "start", "sidebar", "logOut", "load", "detail", "draw", "act",
               "confirm", "wait"}

\* What the tab keeps is of the account that is logged in, and nothing is kept
\* when there is none, so that nobody is shown the prediction of the account
\* before.  That is so unless a click has cut a log-out off between its keys, and
\* until a reload or a log-out that is not cut off.
KeptIsOwn ==
    ~cutOff /\ pc # "logOut" =>
        /\ \A r \in {state.result, state.detail} \ {None} : tasks[r.task].owner = Me
        /\ state.model # None => models[state.model].owner = Me

Count(e, wanted) == Cardinality({p \in DOMAIN payments :
                                     payments[p].owner = e /\ payments[p].status \in wanted})

\* A top-up is thanked for only if it has succeeded, and a click tops up the
\* account on whose page it was made, once at most: reruns, clicks that cut a
\* run off and lost answers do not repeat it.
TopUpsAddUp ==
    \A e \in Accounts :
        /\ thanks[e] <= Count(e, {"succeeded"})
        /\ Count(e, {"pending", "succeeded"}) <= topUps[e]

\* A step of the script does what the button that was clicked says, to the row
\* that was chosen or, when the list of rows is not that of the page that was
\* clicked, to its first row.  So a click on an old page may hit another row, but a
\* block never turns into its opposite.
ClickKeepsItsWord ==
    [][pc = "act" /\ pc' # "act" =>
           LET hit(x) == x = IF run.from.options = run.next.options
                             THEN run.from.choice
                             ELSE Head(run.next.options) IN
           /\ \A e \in active \ active' : run.on = "block" /\ hit(e)
           /\ \A e \in active' \ active : run.on = "unblock" /\ hit(e)
           /\ \A e \in Accounts : adjusted[e] # adjusted'[e] => run.on = "adjust" /\ hit(e)
           /\ \A m \in DOMAIN models :
                  models[m].live /\ ~models'[m].live => run.on = "delete" /\ hit(m)]_dashboardVars

=============================================================================

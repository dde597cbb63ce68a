-------------------------- MODULE DashboardProofs ---------------------------
(***************************************************************************)
(* Theorems about Dashboard: what the tab keeps is of the account that is  *)
(* logged in, a top-up is made once a click at most, and a step of the     *)
(* script does what the button says that was clicked.                      *)
(***************************************************************************)
EXTENDS Dashboard, FiniteSetTheorems, SequenceTheorems, TLAPS

-----------------------------------------------------------------------------
(* Lists.                                                                  *)

\* NewestFirst lists exactly the rows it is given: the number of newer rows
\* is another one for each of them, so that each place of the list is taken.
LEMMA NewestFirstIs ==
  ASSUME NEW ids \in SUBSET Nat, IsFiniteSet(ids)
  PROVE  /\ NewestFirst(ids) \in Seq(ids)
         /\ DOMAIN NewestFirst(ids) = 1..Cardinality(ids)
  <1> DEFINE n == Cardinality(ids)
             newer(x) == {y \in ids : y > x}
             rank == [x \in ids |-> Cardinality(newer(x)) + 1]
  <1>1. n \in Nat
    BY FS_CardinalityType
  <1>2. \A x \in ids : rank[x] \in 1..n
    <2> TAKE x \in ids
    <2>1. newer(x) \in SUBSET ids /\ newer(x) # ids
      OBVIOUS
    <2> HIDE DEF newer
    <2>2. IsFiniteSet(newer(x)) /\ Cardinality(newer(x)) <= n /\ Cardinality(newer(x)) # n
      BY <2>1, FS_Subset
    <2>3. Cardinality(newer(x)) \in Nat
      BY <2>2, FS_CardinalityType
    <2> QED
      BY <1>1, <2>2, <2>3
  <1>3. \A x, y \in ids : x # y => rank[x] # rank[y]
    <2>1. \A x, y \in ids : x > y => rank[x] < rank[y]
      <3> SUFFICES ASSUME NEW x \in ids, NEW y \in ids, x > y
                   PROVE  rank[x] < rank[y]
        OBVIOUS
      <3>a. newer(x) \subseteq newer(y) /\ newer(y) \in SUBSET ids
        <4>1. \A z \in ids : z > x => z > y
          OBVIOUS
        <4> QED
          BY ONLY <4>1
      <3>b. x \in newer(y) /\ x \notin newer(x)
        OBVIOUS
      <3> HIDE DEF newer
      <3>1. newer(x) \in SUBSET newer(y) /\ newer(x) # newer(y) /\ newer(y) \in SUBSET ids
        BY <3>a, <3>b
      <3>2. IsFiniteSet(newer(y))
        BY <3>1, FS_Subset
      <3>3. IsFiniteSet(newer(x)) /\ Cardinality(newer(x)) <= Cardinality(newer(y))
            /\ Cardinality(newer(x)) # Cardinality(newer(y))
        BY <3>1, <3>2, FS_Subset
      <3>4. Cardinality(newer(x)) \in Nat /\ Cardinality(newer(y)) \in Nat
        BY <3>2, <3>3, FS_CardinalityType
      <3> QED
        BY <3>3, <3>4
    <2> HIDE DEF rank
    <2>2. \A x, y \in ids : x # y => (x > y \/ y > x)
      OBVIOUS
    <2>3. \A x \in ids : rank[x] \in Int
      BY <1>1, <1>2
    <2> QED
      BY <2>1, <2>2, <2>3
  <1>4. rank \in Injection(ids, 1..n)
    <2>1. rank \in [ids -> 1..n]
      BY <1>2
    <2> HIDE DEF rank
    <2> QED
      BY <1>3, <2>1 DEF Injection, IsInjective
  <1>5. IsFiniteSet(1..n) /\ Cardinality(1..n) = n
    BY <1>1, FS_Interval
  <1>6. rank \in Surjection(ids, 1..n)
    <2> HIDE DEF rank
    <2> QED
      BY <1>4, <1>5, FS_Injection
  <1>7. \A i \in 1..n : \E x \in ids : Cardinality({y \in ids : y > x}) = i - 1
    <2> TAKE i \in 1..n
    <2>1. PICK x \in ids : rank[x] = i
      BY <1>6 DEF Surjection
    <2>2. Cardinality(newer(x)) + 1 = i
      BY <2>1
    <2>3. Cardinality(newer(x)) \in Nat
      BY FS_Subset, FS_CardinalityType
    <2>4. Cardinality(newer(x)) = i - 1
      BY <1>1, <2>2, <2>3
    <2> QED
      BY <2>4
  <1>8. \A i \in 1..n : (CHOOSE x \in ids : Cardinality({y \in ids : y > x}) = i - 1) \in ids
    BY <1>7
  <1>9. NewestFirst(ids) = [i \in 1..n |->
            CHOOSE x \in ids : Cardinality({y \in ids : y > x}) = i - 1]
    BY DEF NewestFirst
  <1> DEFINE chosen(i) == CHOOSE x \in ids : Cardinality({y \in ids : y > x}) = i - 1
  <1>10. \A i \in 1..n : chosen(i) \in ids
    BY <1>8
  <1>11. NewestFirst(ids) = [i \in 1..n |-> chosen(i)]
    BY <1>9
  <1> HIDE DEF chosen, n
  <1>12. NewestFirst(ids) \in Seq(ids)
    BY <1>1, <1>10, <1>11, IsASeq
  <1> QED
    BY <1>11, <1>12 DEF n

-----------------------------------------------------------------------------
(* What a tab always is.                                                   *)

\* The parts of the tab are records of these fields.
IsScreen(s) ==
    s = [who |-> s.who, page |-> s.page, options |-> s.options, choice |-> s.choice,
         label |-> s.label, rows |-> s.rows]
IsRun(r) ==
    r = [on |-> r.on, arg |-> r.arg, from |-> r.from, next |-> r.next, row |-> r.row]

\* The tables.
ServerOK ==
    /\ accounts \in Seq(Accounts) /\ active \subseteq Range(accounts)
    /\ payments \in Seq([owner: Accounts, status: {"pending", "succeeded"}])
    /\ tasks \in Seq([owner: Accounts, pending: BOOLEAN])
    /\ models \in Seq([owner: Accounts, live: BOOLEAN])
    /\ codes \in Seq([active: BOOLEAN, by: SUBSET Accounts])
    /\ adjusted \in [Accounts -> Nat]
    /\ topUps \in [Accounts -> Nat] /\ thanks \in [Accounts -> Nat]

\* What the tab keeps: of predictions that are stored, and of models on file.
KeepsOK(s, stored, files) ==
    /\ s = [token |-> s.token, result |-> s.result, detail |-> s.detail, model |-> s.model,
            page |-> s.page, messages |-> s.messages]
    /\ s.token \in Accounts \cup {None}
    /\ {s.result, s.detail} \subseteq [task: stored, pending: BOOLEAN] \cup {None}
    /\ s.model \in files \cup {None}
    /\ DOMAIN s.page = DOMAIN Pages
    /\ \A r \in DOMAIN Pages : s.page[r] \in Range(Pages[r])

StateOK == KeepsOK(state, DOMAIN tasks, DOMAIN models)

\* A screen, or one that is being drawn, that lists predictions of stored.
ScreenOK(s, stored) ==
    /\ IsScreen(s)
    /\ IF s.options = <<>> THEN s.choice = None ELSE s.choice \in Range(s.options)
    /\ s.rows \subseteq stored

\* A screen that was drawn is of the account that is logged in, while one is,
\* unless it is the log-in form.
DrawnOK(s, stored, me) ==
    /\ ScreenOK(s, stored)
    /\ s.who = None <=> s.page = "Login"
    /\ s.page = "Users" => s.label \in {"block", "unblock"}
    /\ me # None => s.who \in {me, None}

\* A click was made on a page that has what was clicked.
ClickOK(r, stored, me) ==
    /\ IsRun(r)
    /\ DrawnOK(r.from, stored, me) /\ ScreenOK(r.next, stored)
    /\ r.on = "logIn" => r.from.page = "Login"
    /\ r.on \in {"logOut", "topUp"} => r.from.page # "Login"
    /\ r.on \in {"block", "unblock"} => r.from.page = "Users"
    /\ r.on = "delete" => r.from.page = "Models"
    /\ r.on = "adjust" => r.from.page = "Transactions"

TabOK ==
    /\ DrawnOK(screen, DOMAIN tasks, Me)
    /\ ClickOK(run, DOMAIN tasks, Me)
    /\ waiting # None => ClickOK(waiting, DOMAIN tasks, Me)

\* Where the script is.
PlaceOK ==
    /\ pc \in {"idle", "start", "sidebar", "logOut", "load", "detail", "draw", "act",
               "confirm", "wait"}
    /\ pc \notin {"idle", "start", "logOut"} => Me # None
    /\ pc = "logOut" =>
           /\ run.on = "logOut" /\ run.row \in 1..5
           /\ \A i \in 1..(run.row - 1) : state[LogOutKeys[i]] = None
    /\ pc = "confirm" =>
           /\ run.row \in DOMAIN payments
           /\ payments[run.row] = [owner |-> Me, status |-> "pending"]
    /\ pc = "wait" => run.row \in DOMAIN tasks

\* The choice on a page, compared with the page that was clicked: a prediction's
\* may also be the model that the tab keeps.
ChosenOK(s, from) ==
    from.page = s.page /\ s.page # "Predictions" /\ s.options # <<>> =>
        s.choice = IF from.options = s.options THEN from.choice ELSE Head(s.options)

\* What the page under way has loaded.
LoadedOK ==
    /\ pc \in {"detail", "draw", "act"} =>
           LET s == run.next IN
           /\ s.who = Me /\ s.page # "Login"
           /\ s.page = "MyModels" =>
                  Range(s.options) \subseteq {m \in DOMAIN models : models[m].owner = Me}
           /\ s.page = "Users" =>
                  s.options # <<>> /\ Range(s.options) \subseteq Range(accounts)
           /\ ChosenOK(s, run.from)
    /\ pc \in {"draw", "act"} /\ run.next.page = "Users" => run.next.label \in {"block", "unblock"}
    /\ pc = "act" => Fires(run.next)

\* Nobody logs in or out from a screen of somebody else.
InAndOut ==
    /\ Me = None =>
           /\ run.on = "logIn" => screen.who = None
           /\ run.on = "logIn" /\ waiting # None => waiting.from.who = None
           /\ waiting # None /\ waiting.on = "logIn" => screen.who = None
    /\ Me # None =>
           /\ run.on = "logOut" => screen.who # None
           /\ run.on = "logOut" /\ waiting # None => waiting.on # "logIn"
           /\ waiting # None /\ waiting.on = "logOut" => screen.who # None

TabInv == ServerOK /\ StateOK /\ TabOK /\ PlaceOK /\ LoadedOK /\ InAndOut

\* While a log-out is under way, what the tab keeps is of the account as long
\* as the account itself has not been removed.
KeptInv ==
    ~cutOff /\ (pc = "logOut" => Me # None) =>
        /\ \A r \in {state.result, state.detail} \ {None} : tasks[r.task].owner = Me
        /\ state.model # None => models[state.model].owner = Me

\* The payments that clicks are still to make.
Due(e) ==
    (IF waiting # None /\ waiting.on = "topUp" /\ waiting.from.who = e THEN 1 ELSE 0)
    + (IF run.on = "topUp" /\ pc # "confirm" /\ run.from.who = e THEN 1 ELSE 0)

TopUpsInv ==
    \A e \in Accounts :
        /\ thanks[e] <= Count(e, {"succeeded"})
        /\ Count(e, {"pending", "succeeded"}) + Due(e) <= topUps[e]

-----------------------------------------------------------------------------
(* Facts about the parts.                                                  *)

\* The elements of a list, and its first.
LEMMA Elements ==
  ASSUME NEW S, NEW s \in Seq(S)
  PROVE  /\ DOMAIN s = 1..Len(s) /\ Len(s) \in Nat /\ Range(s) \subseteq S
         /\ s # <<>> => Head(s) \in Range(s)
         /\ \A i \in DOMAIN s : s[i] \in S
  <1>1. DOMAIN s = 1..Len(s) /\ Len(s) \in Nat /\ \A i \in DOMAIN s : s[i] \in S
    OBVIOUS
  <1>2. Range(s) \subseteq S
    BY <1>1 DEF Range
  <1>3. ASSUME s # <<>>
        PROVE  Head(s) \in Range(s)
    <2>1. Len(s) # 0
      BY <1>3
    <2>2. 1 \in DOMAIN s /\ Head(s) = s[1]
      BY <1>1, <2>1
    <2> QED
      BY <2>2 DEF Range
  <1> QED
    BY <1>1, <1>2, <1>3

\* The pages of a role: the first is one of them, the log-in form is not.
LEMMA PagesOfUser ==
  ASSUME NEW p, p = <<"Overview", "Predictions", "MyModels", "Balance">>
  PROVE  Head(p) \in Range(p) /\ "Login" \notin Range(p) /\ "Predictions" \in Range(p)
  <1> DEFINE names == {"Overview", "Predictions", "MyModels", "Balance"}
  <1>1. p \in Seq(names)
    OBVIOUS
  <1>2. p # <<>>
    OBVIOUS
  <1>3. "Login" \notin names
    OBVIOUS
  <1>4. 2 \in DOMAIN p /\ p[2] = "Predictions"
    OBVIOUS
  <1>5. "Predictions" \in Range(p)
    BY ONLY <1>4 DEF Range
  <1> QED
    BY ONLY <1>1, <1>2, <1>3, <1>5, Elements

\* An admin's list of pages has a first page and no log-in.
LEMMA PagesOfAdmin ==
  ASSUME NEW p, p = <<"AdminOverview", "Users", "Models", "Transactions", "PromoCodes">>
  PROVE  Head(p) \in Range(p) /\ "Login" \notin Range(p)
  <1> DEFINE names == {"AdminOverview", "Users", "Models", "Transactions", "PromoCodes"}
  <1>1. p \in Seq(names)
    OBVIOUS
  <1>2. p # <<>>
    OBVIOUS
  <1>3. "Login" \notin names
    OBVIOUS
  <1> QED
    BY ONLY <1>1, <1>2, <1>3, Elements

\* None and the pages.
LEMMA Constants ==
  /\ None \notin Accounts /\ None \notin Nat
  /\ DOMAIN Pages = {"user", "admin"}
  /\ \A r \in DOMAIN Pages : Head(Pages[r]) \in Range(Pages[r]) /\ "Login" \notin Range(Pages[r])
  /\ Role \in [Accounts -> DOMAIN Pages]
  /\ "Predictions" \in Range(Pages["user"])
  <1>1. DOMAIN Pages = {"user", "admin"}
    BY DEF Pages
  <1>2. /\ Pages["user"] = <<"Overview", "Predictions", "MyModels", "Balance">>
        /\ Pages["admin"] = <<"AdminOverview", "Users", "Models", "Transactions", "PromoCodes">>
    BY DEF Pages
  <1>3. \A r \in DOMAIN Pages : Head(Pages[r]) \in Range(Pages[r]) /\ "Login" \notin Range(Pages[r])
    BY ONLY <1>1, <1>2, PagesOfUser, PagesOfAdmin
  <1>4. "Predictions" \in Range(Pages["user"])
    BY ONLY <1>2, PagesOfUser
  <1> QED
    BY <1>1, <1>3, <1>4, DashboardAssumption DEF DashboardAssumption

\* A list of some things is a list of more things.
LEMMA SeqOfMore ==
  ASSUME NEW S, NEW R, S \subseteq R, NEW s \in Seq(S)
  PROVE  s \in Seq(R)
  OBVIOUS

\* A row is replaced, if there is one, and a row is added.
LEMMA Replaced ==
  ASSUME NEW S, NEW s \in Seq(S), NEW i, NEW e, i \in DOMAIN s => e \in S,
         NEW r, r = [s EXCEPT ![i] = e]
  PROVE  /\ r \in Seq(S) /\ DOMAIN r = DOMAIN s
         /\ \A j \in DOMAIN s : r[j] = IF j = i THEN e ELSE s[j]
  <1>1. CASE i \in DOMAIN s
    <2>1. i \in 1..Len(s) /\ DOMAIN s = 1..Len(s) /\ e \in S
      BY <1>1
    <2>2. r \in Seq(S)
      BY <2>1, ExceptSeq
    <2> QED
      BY <2>2
  <1>2. CASE i \notin DOMAIN s
    <2>1. DOMAIN r = DOMAIN s /\ \A j \in DOMAIN s : r[j] = s[j]
      BY <1>2
    <2>2. s = [j \in DOMAIN s |-> s[j]]
      OBVIOUS
    <2>3. r = [j \in DOMAIN s |-> IF j = i THEN e ELSE s[j]]
      OBVIOUS
    <2>4. r = s
      BY <1>2, <2>2, <2>3
    <2> QED
      BY <1>2, <2>4
  <1> QED
    BY <1>1, <1>2

\* What appending a row to a table changes, and what it leaves alone.
LEMMA Added ==
  ASSUME NEW S, NEW s \in Seq(S), NEW e \in S, NEW r, r = Append(s, e)
  PROVE  /\ r \in Seq(S) /\ Len(r) = Len(s) + 1 /\ Len(r) \in Nat
         /\ DOMAIN s \subseteq DOMAIN r /\ DOMAIN r = DOMAIN s \cup {Len(s) + 1}
         /\ \A j \in DOMAIN s : r[j] = s[j]
         /\ Len(s) + 1 \in DOMAIN r /\ Len(s) + 1 \notin DOMAIN s /\ r[Len(s) + 1] = e
  <1>1. /\ r \in Seq(S) /\ Len(r) = Len(s) + 1
        /\ \A j \in 1..Len(s) : r[j] = s[j]
        /\ r[Len(s) + 1] = e
    BY AppendProperties
  <1>2. /\ DOMAIN s = 1..Len(s) /\ Len(s) \in Nat /\ DOMAIN r = 1..Len(r)
    BY <1>1
  <1> QED
    BY <1>1, <1>2

\* What was drawn or clicked stays so while rows are added and somebody who is
\* logged in stays logged in or logs out.
LEMMA ScreenKept ==
  ASSUME NEW s, NEW before, NEW after, ScreenOK(s, before), before \subseteq after
  PROVE  ScreenOK(s, after)
  BY DEF ScreenOK

\* A screen stays right while tables grow and the tab logs out.
LEMMA DrawnKept ==
  ASSUME NEW s, NEW before, NEW after, before \subseteq after,
         NEW was, NEW is, DrawnOK(s, before, was), is \in {was, None} \/ s.who = None
  PROVE  DrawnOK(s, after, is)
  BY ScreenKept DEF DrawnOK

\* So does a click, with the screen that it was made on and the page it got.
LEMMA ClickKept ==
  ASSUME NEW r, NEW before, NEW after, before \subseteq after,
         NEW was, NEW is, ClickOK(r, before, was), is \in {was, None} \/ r.from.who = None
  PROVE  ClickOK(r, after, is)
  BY ScreenKept, DrawnKept DEF ClickOK

\* A screen with nothing but the log-in form or an error message.
LEMMA BlankOK ==
  ASSUME NEW who, NEW page, NEW stored, NEW me,
         who = None <=> page = "Login", page # "Users", me # None => who \in {me, None}
  PROVE  /\ DrawnOK(Blank(who, page), stored, me)
         /\ Blank(who, page).who = who /\ Blank(who, page).page = page
  BY DEF ScreenOK, Blank, IsScreen, DrawnOK

\* A run that no click has started.
LEMMA NewRunOK ==
  ASSUME NEW on, NEW arg, NEW from, NEW r, r = NewRun(on, arg, from)
  PROVE  /\ IsRun(r) /\ r.on = on /\ r.arg = arg /\ r.from = from
         /\ r.next = Blank(None, "Login") /\ r.row = None
  BY DEF NewRun, IsRun

\* A run that a button of no effect starts is right if the screen is.
LEMMA RerunOK ==
  ASSUME NEW from, NEW stored, NEW me, DrawnOK(from, stored, me)
  PROVE  ClickOK(NewRun("nothing", None, from), stored, me)
  <1> DEFINE r == NewRun("nothing", None, from)
  <1>1. IsRun(r) /\ r.on = "nothing" /\ r.from = from /\ r.next = Blank(None, "Login")
    BY NewRunOK
  <1>2. ScreenOK(r.next, stored)
    BY <1>1, BlankOK DEF DrawnOK
  <1> HIDE DEF r
  <1>3. ClickOK(r, stored, me)
    BY <1>1, <1>2 DEF ClickOK
  <1> QED
    BY <1>3 DEF r

\* The run of an empty tab is right for whoever is logged in.
LEMMA NoRunOK ==
  ASSUME NEW stored, NEW me
  PROVE  ClickOK(NoRun, stored, me)
  BY BlankOK, RerunOK DEF NoRun

-----------------------------------------------------------------------------
(* The tables.                                                             *)

\* Who is authorized is a registered account.
LEMMA Registration ==
  ASSUME ServerOK, Authorized
  PROVE  Me \in Accounts /\ Me # None /\ Me \in Range(accounts) /\ accounts # <<>>
  <1>1. Me \in Range(accounts) /\ accounts \in Seq(Accounts)
    BY DEF ServerOK, Authorized
  <1>2. Me \in Accounts
    BY <1>1, Elements
  <1>3. DOMAIN accounts # {}
    BY <1>1 DEF Range
  <1>4. DOMAIN accounts = 1..Len(accounts)
    BY <1>1
  <1>5. accounts # <<>>
    BY <1>3, <1>4
  <1> QED
    BY <1>1, <1>2, <1>5, Constants

\* Rows are never removed, and stay those of their owner.
Grow ==
    /\ Range(accounts) \subseteq Range(accounts')
    /\ DOMAIN payments \subseteq DOMAIN payments'
    /\ DOMAIN tasks \subseteq DOMAIN tasks'
    /\ \A t \in DOMAIN tasks : tasks'[t].owner = tasks[t].owner
    /\ DOMAIN models \subseteq DOMAIN models'
    /\ \A m \in DOMAIN models : models'[m].owner = models[m].owner

\* Each table by itself: what a step may do to it.
LEMMA AccountsStep ==
  ASSUME ServerOK, NEW e \in Accounts, accounts' = <<e>> \o accounts
  PROVE  /\ accounts' \in Seq(Accounts)
         /\ Range(accounts) \subseteq Range(accounts') /\ e \in Range(accounts')
  <1>1. accounts \in Seq(Accounts) /\ <<e>> \in Seq(Accounts) /\ Len(<<e>>) = 1
    BY DEF ServerOK
  <1>2. /\ accounts' \in Seq(Accounts) /\ Len(accounts') = 1 + Len(accounts)
        /\ \A i \in 1..(1 + Len(accounts)) :
               accounts'[i] = IF i <= 1 THEN <<e>>[i] ELSE accounts[i - 1]
    BY <1>1, ConcatProperties
  <1>3. Len(accounts) \in Nat /\ DOMAIN accounts = 1..Len(accounts)
        /\ DOMAIN accounts' = 1..(1 + Len(accounts))
    BY <1>1, <1>2
  <1>4. accounts'[1] = e /\ 1 \in DOMAIN accounts'
    BY <1>2, <1>3
  <1>5. ASSUME NEW i \in DOMAIN accounts
        PROVE  i + 1 \in DOMAIN accounts' /\ accounts'[i + 1] = accounts[i]
    BY <1>2, <1>3
  <1>6. \A x \in Range(accounts) : x \in Range(accounts')
    <2> TAKE x \in Range(accounts)
    <2>1. PICK i \in DOMAIN accounts : x = accounts[i]
      BY DEF Range
    <2> QED
      BY <1>5, <2>1 DEF Range
  <1>7. e \in Range(accounts')
    BY <1>4 DEF Range
  <1> QED
    BY <1>2, <1>6, <1>7

\* Payments are added and confirmed and stay in their table.
LEMMA PaymentsStep ==
  ASSUME ServerOK, NEW p, NEW e \in Accounts,
         \/ payments' = Append(payments, [owner |-> e, status |-> "pending"])
         \/ payments' = [payments EXCEPT ![p].status = "succeeded"]
  PROVE  /\ payments' \in Seq([owner: Accounts, status: {"pending", "succeeded"}])
         /\ DOMAIN payments \subseteq DOMAIN payments'
  <1> DEFINE S == [owner: Accounts, status: {"pending", "succeeded"}]
  <1>1. payments \in Seq(S)
    BY DEF ServerOK
  <1>0. \A x \in DOMAIN payments : payments[x] \in S
    <2> HIDE DEF S
    <2> QED
      BY <1>1, Elements
  <1>2. CASE payments' = Append(payments, [owner |-> e, status |-> "pending"])
    <2>1. [owner |-> e, status |-> "pending"] \in S
      OBVIOUS
    <2> HIDE DEF S
    <2>2. payments' \in Seq(S) /\ DOMAIN payments \subseteq DOMAIN payments'
      BY <1>1, <1>2, <2>1, Added
    <2> QED
      BY <2>2 DEF S
  <1>3. CASE payments' = [payments EXCEPT ![p].status = "succeeded"]
    <2> DEFINE row == [payments[p] EXCEPT !.status = "succeeded"]
    <2>1. p \in DOMAIN payments => row \in S
      BY <1>0
    <2>2. payments' = [payments EXCEPT ![p] = row]
      BY <1>3
    <2> HIDE DEF S, row
    <2>3. payments' \in Seq(S) /\ DOMAIN payments' = DOMAIN payments
      BY <1>1, <2>1, <2>2, Replaced
    <2> QED
      BY <2>3 DEF S
  <1> QED
    BY <1>2, <1>3

\* Predictions are added and finish; none of them changes hands.
LEMMA TasksStep ==
  ASSUME ServerOK, NEW t, NEW e \in Accounts,
         \/ tasks' = Append(tasks, [owner |-> e, pending |-> TRUE])
         \/ tasks' = [tasks EXCEPT ![t].pending = FALSE]
  PROVE  /\ tasks' \in Seq([owner: Accounts, pending: BOOLEAN])
         /\ DOMAIN tasks \subseteq DOMAIN tasks'
         /\ \A u \in DOMAIN tasks : tasks'[u].owner = tasks[u].owner
  <1> DEFINE S == [owner: Accounts, pending: BOOLEAN]
  <1>1. tasks \in Seq(S)
    BY DEF ServerOK
  <1>0. \A x \in DOMAIN tasks : tasks[x] \in S
    <2> HIDE DEF S
    <2> QED
      BY <1>1, Elements
  <1>2. CASE tasks' = Append(tasks, [owner |-> e, pending |-> TRUE])
    <2>1. [owner |-> e, pending |-> TRUE] \in S
      OBVIOUS
    <2> HIDE DEF S
    <2>2. /\ tasks' \in Seq(S) /\ DOMAIN tasks \subseteq DOMAIN tasks'
          /\ \A u \in DOMAIN tasks : tasks'[u] = tasks[u]
      BY <1>1, <1>2, <2>1, Added
    <2> QED
      BY <2>2 DEF S
  <1>3. CASE tasks' = [tasks EXCEPT ![t].pending = FALSE]
    <2> DEFINE row == [tasks[t] EXCEPT !.pending = FALSE]
    <2>1. t \in DOMAIN tasks => row \in S /\ row.owner = tasks[t].owner
      BY <1>0
    <2>2. tasks' = [tasks EXCEPT ![t] = row]
      BY <1>3
    <2> HIDE DEF S, row
    <2>3. /\ tasks' \in Seq(S) /\ DOMAIN tasks' = DOMAIN tasks
          /\ \A u \in DOMAIN tasks : tasks'[u] = IF u = t THEN row ELSE tasks[u]
      BY <1>1, <2>1, <2>2, Replaced
    <2> QED
      BY <2>1, <2>3 DEF S
  <1> QED
    BY <1>2, <1>3

\* Models are added and deleted; none changes hands, one dies at a time.
LEMMA ModelsStep ==
  ASSUME ServerOK, NEW m, NEW e \in Accounts,
         \/ models' = Append(models, [owner |-> e, live |-> TRUE])
         \/ models' = [models EXCEPT ![m].live = FALSE]
  PROVE  /\ models' \in Seq([owner: Accounts, live: BOOLEAN])
         /\ DOMAIN models \subseteq DOMAIN models'
         /\ \A u \in DOMAIN models : /\ models'[u].owner = models[u].owner
                                     /\ models'[u].live # models[u].live =>
                                            models' # Append(models, [owner |-> e, live |-> TRUE]) /\ u = m
  <1> DEFINE S == [owner: Accounts, live: BOOLEAN]
             new == [owner |-> e, live |-> TRUE]
             row == [models[m] EXCEPT !.live = FALSE]
  <1>1. models \in Seq(S)
    BY DEF ServerOK
  <1>0. \A x \in DOMAIN models : models[x] \in S
    <2> HIDE DEF S
    <2> QED
      BY <1>1, Elements
  <1>2. CASE models' = Append(models, new)
    <2>1. new \in S
      OBVIOUS
    <2> HIDE DEF S, new
    <2>2. /\ models' \in Seq(S) /\ DOMAIN models \subseteq DOMAIN models'
          /\ \A u \in DOMAIN models : models'[u] = models[u]
      BY <1>1, <1>2, <2>1, Added
    <2> QED
      BY <2>2 DEF S
  <1>3. CASE models' = [models EXCEPT ![m].live = FALSE]
    <2>1. m \in DOMAIN models => row \in S /\ row.owner = models[m].owner
      BY <1>0
    <2>2. models' = [models EXCEPT ![m] = row]
      BY <1>3
    <2>4. Append(models, new) # models'
      <3>1. new \in S
        OBVIOUS
      <3>2. DOMAIN models' = DOMAIN models
        BY <2>2
      <3> HIDE DEF S, new
      <3>3. DOMAIN Append(models, new) # DOMAIN models
        BY <1>1, <3>1, Added
      <3> QED
        BY <3>2, <3>3
    <2> HIDE DEF S, row
    <2>3. /\ models' \in Seq(S) /\ DOMAIN models' = DOMAIN models
          /\ \A u \in DOMAIN models : models'[u] = IF u = m THEN row ELSE models[u]
      BY <1>1, <2>1, <2>2, Replaced
    <2> QED
      BY <2>1, <2>3, <2>4 DEF S
  <1> QED
    BY <1>2, <1>3

\* Promo codes are added, switched off and redeemed.
LEMMA CodesStep ==
  ASSUME ServerOK, NEW c, NEW e,
         \/ codes' = Append(codes, [active |-> TRUE, by |-> {}])
         \/ codes' = [codes EXCEPT ![c].active = FALSE]
         \/ e \in Accounts /\ codes' = [codes EXCEPT ![c].by = @ \cup {e}]
  PROVE  codes' \in Seq([active: BOOLEAN, by: SUBSET Accounts])
  <1> DEFINE S == [active: BOOLEAN, by: SUBSET Accounts]
  <1>1. codes \in Seq(S)
    BY DEF ServerOK
  <1>0. \A x \in DOMAIN codes : codes[x] \in S
    <2> HIDE DEF S
    <2> QED
      BY <1>1, Elements
  <1>2. CASE codes' = Append(codes, [active |-> TRUE, by |-> {}])
    <2>1. [active |-> TRUE, by |-> {}] \in S
      OBVIOUS
    <2> HIDE DEF S
    <2>2. codes' \in Seq(S)
      BY <1>1, <1>2, <2>1, Added
    <2> QED
      BY <2>2 DEF S
  <1>3. ASSUME NEW row, c \in DOMAIN codes => row \in S, codes' = [codes EXCEPT ![c] = row]
        PROVE  codes' \in Seq(S)
    <2> HIDE DEF S
    <2> QED
      BY <1>1, <1>3, Replaced
  <1>4. CASE codes' = [codes EXCEPT ![c].active = FALSE]
    <2> DEFINE row == [codes[c] EXCEPT !.active = FALSE]
    <2>1. c \in DOMAIN codes => row \in S
      BY <1>0
    <2>2. codes' = [codes EXCEPT ![c] = row]
      BY <1>4
    <2> HIDE DEF row
    <2> QED
      BY <1>3, <2>1, <2>2
  <1>5. CASE e \in Accounts /\ codes' = [codes EXCEPT ![c].by = @ \cup {e}]
    <2> DEFINE row == [codes[c] EXCEPT !.by = @ \cup {e}]
    <2>1. c \in DOMAIN codes => row \in S
      BY <1>0, <1>5
    <2>2. codes' = [codes EXCEPT ![c] = row]
      BY <1>5
    <2> HIDE DEF row
    <2> QED
      BY <1>3, <2>1, <2>2
  <1> QED
    BY <1>2, <1>4, <1>5

-----------------------------------------------------------------------------
(* Pages and their buttons.                                                *)

\* Which page has a button, and what there is to press it for.
LEMMA ButtonFacts ==
  ASSUME NEW s, s.page = "Users" => s.label \in {"block", "unblock"},
         NEW on, NEW arg, <<on, arg>> \in PageButtons(s)
  PROVE  /\ on \in {"block", "unblock"} => s.page = "Users" /\ s.label = on
         /\ on = "use" => s.page = "MyModels" /\ arg \in Range(s.options)
         /\ on = "open" => arg \in s.rows
         /\ on = "refreshResult" => state.result # None
         /\ on = "refreshDetail" => state.detail # None
         /\ on = "delete" => s.page = "Models" /\ s.options # <<>>
         /\ on = "adjust" => s.page = "Transactions" /\ s.options # <<>>
         /\ on \in {"topUp", "redeem"} => s.page = "Balance"
         /\ on \notin {"logIn", "logOut", "go", "choose", "nothing"}
  <1>1. CASE s.page = "Predictions"
    <2>1. \/ <<on, arg>> = <<"predict", None>>
          \/ <<on, arg>> = <<"refreshResult", None>> /\ state.result # None
          \/ <<on, arg>> \in {<<"refreshDetail", None>>, <<"close", None>>}
             /\ state.detail # None
          \/ <<on, arg>> \in {"open"} \X s.rows
      BY <1>1 DEF PageButtons, If
    <2>2. \/ on = "predict"
          \/ on = "refreshResult" /\ state.result # None
          \/ on \in {"refreshDetail", "close"} /\ state.detail # None
          \/ on = "open" /\ arg \in s.rows
      BY <2>1
    <2> QED
      BY <2>2
  <1>2. CASE s.page = "MyModels"
    <2>1. <<on, arg>> \in {<<"upload", None>>} \cup {"use"} \X Range(s.options)
      BY <1>2 DEF PageButtons
    <2>2. on = "upload" \/ (on = "use" /\ arg \in Range(s.options))
      BY <2>1
    <2> QED
      BY <1>2, <2>2
  <1>3. CASE s.page = "Balance"
    <2>1. on \in {"topUp", "redeem"}
      BY <1>3 DEF PageButtons
    <2> QED
      BY <1>3, <2>1
  <1>4. CASE s.page = "Users"
    <2>1. on = s.label
      BY <1>4 DEF PageButtons
    <2> QED
      BY <1>4, <2>1
  <1>5. CASE s.page = "Models"
    <2>1. on = "delete" /\ s.options # <<>>
      BY <1>5 DEF PageButtons, If
    <2> QED
      BY <1>5, <2>1
  <1>6. CASE s.page = "Transactions"
    <2>1. on = "adjust" /\ s.options # <<>>
      BY <1>6 DEF PageButtons, If
    <2> QED
      BY <1>6, <2>1
  <1>7. CASE s.page = "PromoCodes"
    <2>1. on \in {"create", "deactivate"}
      BY <1>7 DEF PageButtons, If
    <2> QED
      BY <2>1
  <1>8. CASE s.page \notin {"Predictions", "MyModels", "Balance", "Users", "Models",
                            "Transactions", "PromoCodes"}
    <2>1. PageButtons(s) = {}
      BY <1>8 DEF PageButtons
    <2> QED
      BY <2>1
  <1> QED
    BY <1>1, <1>2, <1>3, <1>4, <1>5, <1>6, <1>7, <1>8

\* What any button of the tab was drawn on.
LEMMA ClickedFacts ==
  ASSUME TabOK, NEW b \in Buttons
  PROVE  /\ b = <<b[1], b[2]>>
         /\ b[1] = "logIn" => screen.page = "Login"
         /\ b[1] \in {"logOut", "topUp"} => screen.page # "Login"
         /\ b[1] \in {"block", "unblock"} => screen.page = "Users"
         /\ b[1] = "delete" => screen.page = "Models"
         /\ b[1] = "adjust" => screen.page = "Transactions" /\ screen.options # <<>>
         /\ b[1] = "choose" => b[2] \in Range(screen.options)
  <1>0. screen.page = "Users" => screen.label \in {"block", "unblock"}
    BY DEF TabOK, DrawnOK
  <1>1. CASE screen.page = "Login"
    <2>1. b \in {"logIn"} \X Accounts
      BY <1>1 DEF Buttons
    <2>2. b = <<b[1], b[2]>> /\ b[1] = "logIn"
      BY <2>1
    <2> QED
      BY <1>1, <2>2
  <1>2. CASE screen.page = "Error"
    <2>1. Buttons = {}
      BY <1>2 DEF Buttons
    <2> QED
      BY <2>1
  <1>3. CASE screen.page \notin {"Login", "Error"}
    <2>1. \/ b = <<"logOut", None>>
          \/ b \in {"go"} \X Range(Pages[Role[screen.who]])
          \/ b \in {"choose"} \X (Range(screen.options) \ {screen.choice})
          \/ b \in PageButtons(screen)
      BY <1>3 DEF Buttons, If
    <2>2. CASE b = <<"logOut", None>>
      BY <1>3, <2>2
    <2>3. CASE b \in {"go"} \X Range(Pages[Role[screen.who]])
      <3>1. b = <<b[1], b[2]>> /\ b[1] = "go"
        BY <2>3
      <3> QED
        BY <3>1
    <2>4. CASE b \in {"choose"} \X (Range(screen.options) \ {screen.choice})
      <3>1. b = <<b[1], b[2]>> /\ b[1] = "choose" /\ b[2] \in Range(screen.options)
        BY <2>4
      <3> QED
        BY <3>1
    <2>5. CASE b \in PageButtons(screen)
      <3>1. b = <<b[1], b[2]>>
        BY <2>5 DEF PageButtons, If
      <3>2. <<b[1], b[2]>> \in PageButtons(screen)
        BY <2>5, <3>1
      <3>3. /\ b[1] \in {"block", "unblock"} => screen.page = "Users"
            /\ b[1] = "delete" => screen.page = "Models"
            /\ b[1] = "adjust" => screen.page = "Transactions" /\ screen.options # <<>>
            /\ b[1] \notin {"logIn", "logOut", "choose"}
        BY <1>0, <3>2, ButtonFacts
      <3> QED
        BY <1>3, <3>1, <3>3
    <2> QED
      BY <2>1, <2>2, <2>3, <2>4, <2>5
  <1> QED
    BY <1>1, <1>2, <1>3

\* The button that fires in an acting script.
LEMMA Acting ==
  ASSUME TabInv, pc = "act"
  PROVE  LET s == run.next IN
         /\ s.page = "Users" => s.label \in {"block", "unblock"}
         /\ run.on \in {"block", "unblock"} => s.page = "Users" /\ s.label = run.on
         /\ run.on = "use" => s.page = "MyModels" /\ run.arg \in Range(s.options)
         /\ run.on = "open" => run.arg \in s.rows
         /\ run.on = "refreshResult" => state.result # None
         /\ run.on = "refreshDetail" => state.detail # None
         /\ run.on = "delete" => s.page = "Models" /\ s.options # <<>>
         /\ run.on = "adjust" => s.page = "Transactions" /\ s.options # <<>>
         /\ run.on \notin {"logIn", "logOut", "go", "choose", "nothing"}
         /\ IF s.options = <<>> THEN s.choice = None ELSE s.choice \in Range(s.options)
         /\ s.who = Me /\ Me # None
         /\ ChosenOK(s, run.from)
  <1> DEFINE s == run.next
  <1>1. s.page = "Users" => s.label \in {"block", "unblock"}
    BY DEF TabInv, LoadedOK
  <1>2. <<run.on, run.arg>> \in PageButtons(s)
    BY DEF TabInv, LoadedOK, Fires
  <1>3. IF s.options = <<>> THEN s.choice = None ELSE s.choice \in Range(s.options)
    BY DEF TabInv, TabOK, ClickOK, ScreenOK
  <1>4. s.who = Me /\ Me # None
    BY DEF TabInv, LoadedOK, PlaceOK
  <1>5. ChosenOK(s, run.from)
    BY DEF TabInv, LoadedOK
  <1> HIDE DEF s
  <1>6. /\ run.on \in {"block", "unblock"} => s.page = "Users" /\ s.label = run.on
        /\ run.on = "use" => s.page = "MyModels" /\ run.arg \in Range(s.options)
        /\ run.on = "open" => run.arg \in s.rows
        /\ run.on = "refreshResult" => state.result # None
        /\ run.on = "refreshDetail" => state.detail # None
        /\ run.on = "delete" => s.page = "Models" /\ s.options # <<>>
        /\ run.on = "adjust" => s.page = "Transactions" /\ s.options # <<>>
        /\ run.on \notin {"logIn", "logOut", "go", "choose", "nothing"}
    BY ONLY <1>1, <1>2, ButtonFacts
  <1> QED
    BY ONLY <1>1, <1>3, <1>4, <1>5, <1>6 DEF s

-----------------------------------------------------------------------------
(* The tables are well-formed after every step, and have grown.            *)

\* A counter of accounts goes up by one.
LEMMA CountedUp ==
  ASSUME NEW f \in [Accounts -> Nat], NEW x, NEW g, g = [f EXCEPT ![x] = @ + 1]
  PROVE  /\ g \in [Accounts -> Nat]
         /\ \A e \in Accounts : g[e] = IF e = x THEN f[e] + 1 ELSE f[e]
  <1>1. \A e \in Accounts : f[e] + 1 \in Nat
    OBVIOUS
  <1> QED
    BY <1>1

\* A step that leaves the tables alone.
LEMMA SameServer ==
  ASSUME ServerOK, UNCHANGED <<server, topUps, thanks>>
  PROVE  ServerOK' /\ Grow
  BY DEF ServerOK, Grow, server

\* The account at which a button of an admin's page is aimed.
LEMMA TargetRegistered ==
  ASSUME TabInv, pc = "act", run.on \in {"block", "unblock"}
  PROVE  Target \in Range(accounts)
  <1>1. run.next.page = "Users"
    BY Acting
  <1>2. run.next.options # <<>> /\ Range(run.next.options) \subseteq Range(accounts)
    BY <1>1 DEF TabInv, LoadedOK
  <1>3. run.next.choice \in Range(run.next.options)
    BY <1>2, Acting
  <1> QED
    BY <1>2, <1>3 DEF Target

\* So do the steps that others take.
LEMMA ElsewhereStep ==
  ASSUME ServerOK, Elsewhere
  PROVE  ServerOK' /\ Grow
  <1>1. UNCHANGED <<topUps, thanks>>
    BY DEF Elsewhere
  <1>2. Range(accounts) \subseteq Accounts
    BY Elements DEF ServerOK
  <1>3. CASE OthersRegister
    <2>1. PICK e \in Accounts : /\ accounts' = <<e>> \o accounts
                                /\ active' = active \cup {e}
      BY <1>3 DEF OthersRegister
    <2>2. UNCHANGED <<payments, tasks, models, codes, adjusted>>
      BY <1>3 DEF OthersRegister
    <2>3. /\ accounts' \in Seq(Accounts)
          /\ Range(accounts) \subseteq Range(accounts') /\ e \in Range(accounts')
      BY <2>1, AccountsStep
    <2>4. active' \subseteq Range(accounts')
      BY <2>1, <2>3 DEF ServerOK
    <2> QED
      BY <1>1, <2>2, <2>3, <2>4 DEF ServerOK, Grow
  <1>4. CASE OthersUpdateStatus
    <2>1. /\ active' \subseteq Range(accounts)
          /\ UNCHANGED <<accounts, payments, tasks, models, codes, adjusted>>
      BY <1>4 DEF OthersUpdateStatus, ServerOK
    <2> QED
      BY <1>1, <2>1 DEF ServerOK, Grow
  <1>5. CASE WorkersFinish
    <2>1. PICK t \in DOMAIN tasks : tasks' = [tasks EXCEPT ![t].pending = FALSE]
      BY <1>5 DEF WorkersFinish
    <2>2. tasks[t] \in [owner: Accounts, pending: BOOLEAN]
      BY Elements DEF ServerOK
    <2>3. tasks[t].owner \in Accounts
      BY <2>2
    <2>4. UNCHANGED <<accounts, active, payments, models, codes, adjusted>>
      BY <1>5 DEF WorkersFinish
    <2> QED
      BY <1>1, <2>1, <2>3, <2>4, TasksStep DEF ServerOK, Grow
  <1>6. CASE OthersUpload
    <2>1. PICK e \in Accounts : models' = Append(models, [owner |-> e, live |-> TRUE])
      BY <1>2, <1>6 DEF OthersUpload
    <2>2. UNCHANGED <<accounts, active, payments, tasks, codes, adjusted>>
      BY <1>6 DEF OthersUpload
    <2> QED
      BY <1>1, <2>1, <2>2, ModelsStep DEF ServerOK, Grow
  <1>7. CASE OthersDeleteModel
    <2>1. PICK m \in DOMAIN models : models' = [models EXCEPT ![m].live = FALSE]
      BY <1>7 DEF OthersDeleteModel
    <2>2. models[m] \in [owner: Accounts, live: BOOLEAN]
      BY Elements DEF ServerOK
    <2>3. models[m].owner \in Accounts
      BY <2>2
    <2>4. UNCHANGED <<accounts, active, payments, tasks, codes, adjusted>>
      BY <1>7 DEF OthersDeleteModel
    <2> QED
      BY <1>1, <2>1, <2>3, <2>4, ModelsStep DEF ServerOK, Grow
  <1>8. CASE OthersCreateCode \/ OthersDeactivateCode \/ OthersRedeem
    <2>1. UNCHANGED <<accounts, active, payments, tasks, models, adjusted>>
      BY <1>8 DEF OthersCreateCode, OthersDeactivateCode, OthersRedeem
    <2> SUFFICES codes' \in Seq([active: BOOLEAN, by: SUBSET Accounts])
      BY <1>1, <2>1 DEF ServerOK, Grow
    <2>2. CASE OthersCreateCode
      BY <2>2, CodesStep DEF OthersCreateCode
    <2>3. CASE OthersDeactivateCode
      <3>1. PICK c : codes' = [codes EXCEPT ![c].active = FALSE]
        BY <2>3 DEF OthersDeactivateCode
      <3> QED
        BY <3>1, CodesStep
    <2>4. CASE OthersRedeem
      <3>1. PICK c, e : e \in Accounts /\ codes' = [codes EXCEPT ![c].by = @ \cup {e}]
        BY <1>2, <2>4 DEF OthersRedeem
      <3> QED
        BY <3>1, CodesStep
    <2> QED
      BY <1>8, <2>2, <2>3, <2>4
  <1>9. CASE TokenExpires
    BY <1>1, <1>9, SameServer DEF TokenExpires
  <1> QED
    BY <1>3, <1>4, <1>5, <1>6, <1>7, <1>8, <1>9 DEF Elsewhere

\* What others do touches no payment and nothing of the tab.
LEMMA ElsewhereLeaves ==
  ASSUME Elsewhere
  PROVE  UNCHANGED <<payments, state, screen, waiting, pc, run, clicks, topUps, thanks, cutOff>>
  BY DEF Elsewhere, OthersRegister, OthersUpdateStatus, WorkersFinish, OthersUpload,
     OthersDeleteModel, OthersCreateCode, OthersDeactivateCode, OthersRedeem, TokenExpires, server

\* Whatever happens, the tables keep their types and lose no row.
LEMMA ServerStep ==
  ASSUME TabInv, [DashboardNext]_dashboardVars
  PROVE  ServerOK' /\ Grow
  <1> ServerOK
    BY DEF TabInv
  <1>1. CASE UNCHANGED dashboardVars
    BY <1>1, SameServer DEF dashboardVars
  <1>2. CASE Click
    <2>1. UNCHANGED <<server, thanks>>
      BY <1>2 DEF Click
    <2>2. topUps' \in [Accounts -> Nat]
      <3>1. topUps' = [topUps EXCEPT ![screen.who] = @ + 1] \/ topUps' = topUps
        BY <1>2 DEF Click
      <3> QED
        BY <3>1, CountedUp DEF ServerOK
    <2> QED
      BY <2>1, <2>2 DEF ServerOK, Grow, server
  <1>3. CASE Begin
    BY <1>3, SameServer DEF Begin
  <1>4. CASE Reload
    BY <1>4, SameServer DEF Reload
  <1>5. CASE LogIn \/ LoadUser \/ Sidebar \/ LogOut \/ LoadPage \/ LoadDetail \/ Draw
    <2>1. UNCHANGED <<server, topUps, thanks>>
      BY <1>5 DEF LogIn, LoadUser, Sidebar, LogOut, LoadPage, LoadDetail, Draw, others
    <2> QED
      BY <2>1, SameServer
  <1>6. CASE Refused \/ AwaitResult \/ ShowPrediction \/ UseModel
    <2>1. UNCHANGED <<server, topUps, thanks>>
      BY <1>6 DEF Refused, AwaitResult, ShowPrediction, UseModel, Idle, others, NoAnswer
    <2> QED
      BY <2>1, SameServer
  <1>7. CASE CreatePayment
    <2>1. Me \in Accounts
      BY <1>7, Registration DEF CreatePayment, Sends
    <2>2. payments' = Append(payments, [owner |-> Me, status |-> "pending"])
      BY <1>7 DEF CreatePayment
    <2>3. UNCHANGED <<accounts, active, tasks, models, codes, adjusted, topUps, thanks>>
      BY <1>7 DEF CreatePayment, Idle, others, NoAnswer
    <2> QED
      BY <2>1, <2>2, <2>3, PaymentsStep DEF ServerOK, Grow
  <1>8. CASE ConfirmPayment
    <2>1. Me \in Accounts
      BY <1>8, Registration DEF ConfirmPayment
    <2>2. payments' = [payments EXCEPT ![run.row].status = "succeeded"]
      BY <1>8 DEF ConfirmPayment
    <2>3. UNCHANGED <<accounts, active, tasks, models, codes, adjusted, topUps>>
      BY <1>8 DEF ConfirmPayment, Idle, others
    <2>4. thanks' \in [Accounts -> Nat]
      <3>1. thanks' = [thanks EXCEPT ![Me] = @ + 1] \/ thanks' = thanks
        BY <1>8 DEF ConfirmPayment, NoAnswer
      <3> QED
        BY <3>1, CountedUp DEF ServerOK
    <2> QED
      BY <2>1, <2>2, <2>3, <2>4, PaymentsStep DEF ServerOK, Grow
  <1>9. CASE RedeemCode
    <2>1. Me \in Accounts
      BY <1>9, Registration DEF RedeemCode, Sends
    <2>2. \E c \in DOMAIN codes : codes' = [codes EXCEPT ![c].by = @ \cup {Me}]
      BY <1>9 DEF RedeemCode
    <2>3. UNCHANGED <<accounts, active, payments, tasks, models, adjusted, topUps, thanks>>
      BY <1>9 DEF RedeemCode, Idle, others, NoAnswer, Thank
    <2> QED
      BY <2>1, <2>2, <2>3, CodesStep DEF ServerOK, Grow
  <1>10. CASE CreatePrediction
    <2>1. Me \in Accounts
      BY <1>10, Registration DEF CreatePrediction, Sends
    <2>2. tasks' = Append(tasks, [owner |-> Me, pending |-> TRUE])
      BY <1>10 DEF CreatePrediction
    <2>3. UNCHANGED <<accounts, active, payments, models, codes, adjusted, topUps, thanks>>
      BY <1>10 DEF CreatePrediction, Idle, others, NoAnswer
    <2> QED
      BY <2>1, <2>2, <2>3, TasksStep DEF ServerOK, Grow
  <1>11. CASE UploadModel
    <2>1. Me \in Accounts
      BY <1>11, Registration DEF UploadModel, Sends
    <2>2. models' = Append(models, [owner |-> Me, live |-> TRUE])
      BY <1>11 DEF UploadModel
    <2>3. UNCHANGED <<accounts, active, payments, tasks, codes, adjusted, topUps, thanks>>
      BY <1>11 DEF UploadModel, Idle, others, NoAnswer, Thank
    <2> QED
      BY <2>1, <2>2, <2>3, ModelsStep DEF ServerOK, Grow
  <1>12. CASE UpdateStatus
    <2>1. Target \in Range(accounts)
      BY <1>12, TargetRegistered DEF UpdateStatus, Sends, Acts
    <2>2. active' \subseteq Range(accounts)
      BY <1>12, <2>1 DEF UpdateStatus, ServerOK
    <2>3. UNCHANGED <<accounts, payments, tasks, models, codes, adjusted, topUps, thanks>>
      BY <1>12 DEF UpdateStatus, Idle, others, NoAnswer
    <2> QED
      BY <2>2, <2>3 DEF ServerOK, Grow
  <1>13. CASE DeleteModel
    <2>1. Me \in Accounts
      BY <1>13, Registration DEF DeleteModel, Sends
    <2>2. models' = [models EXCEPT ![Target].live = FALSE]
      BY <1>13 DEF DeleteModel
    <2>3. UNCHANGED <<accounts, active, payments, tasks, codes, adjusted, topUps, thanks>>
      BY <1>13 DEF DeleteModel, Idle, others, NoAnswer
    <2> QED
      BY <2>1, <2>2, <2>3, ModelsStep DEF ServerOK, Grow
  <1>14. CASE AdjustBalance
    <2>1. adjusted' \in [Accounts -> Nat]
      <3>1. adjusted' = [adjusted EXCEPT ![Target] = @ + 1]
        BY <1>14 DEF AdjustBalance
      <3> QED
        BY <3>1, CountedUp DEF ServerOK
    <2>2. UNCHANGED <<accounts, active, payments, tasks, models, codes, topUps, thanks>>
      BY <1>14 DEF AdjustBalance, Idle, others, NoAnswer
    <2> QED
      BY <2>1, <2>2 DEF ServerOK, Grow
  <1>15. CASE UpdateCodes
    <2>1. Me \in Accounts
      BY <1>15, Registration DEF UpdateCodes, Sends
    <2>2. \/ codes' = Append(codes, [active |-> TRUE, by |-> {}])
          \/ codes' = [codes EXCEPT ![Target[1]].active = FALSE]
      BY <1>15 DEF UpdateCodes
    <2>3. UNCHANGED <<accounts, active, payments, tasks, models, adjusted, topUps, thanks>>
      BY <1>15 DEF UpdateCodes, Idle, others, NoAnswer, Thank
    <2> QED
      BY <2>1, <2>2, <2>3, CodesStep DEF ServerOK, Grow
  <1>16. CASE Elsewhere
    BY <1>16, ElsewhereStep
  <1> QED
    BY <1>1, <1>2, <1>3, <1>4, <1>5, <1>6, <1>7, <1>8, <1>9, <1>10, <1>11, <1>12, <1>13,
       <1>14, <1>15, <1>16 DEF DashboardNext, Script

-----------------------------------------------------------------------------
(* What the tab keeps is well-formed after every step.                     *)

LEMMA KeepsKept ==
  ASSUME NEW s, NEW stored, NEW files, KeepsOK(s, stored, files),
         NEW more, stored \subseteq more, NEW on, files \subseteq on
  PROVE  KeepsOK(s, more, on)
  <1>1. [task: stored, pending: BOOLEAN] \subseteq [task: more, pending: BOOLEAN]
    OBVIOUS
  <1> QED
    BY <1>1 DEF KeepsOK

\* One field is set.
LEMMA FieldSet ==
  ASSUME NEW s, NEW stored, NEW files, KeepsOK(s, stored, files),
         NEW x, NEW r
  PROVE  /\ r = [s EXCEPT !.token = x] /\ x \in Accounts \cup {None} =>
                KeepsOK(r, stored, files) /\ r.token = x /\ r.result = s.result
                /\ r.detail = s.detail /\ r.model = s.model
         /\ r = [s EXCEPT !.result = x] /\ x \in [task: stored, pending: BOOLEAN] \cup {None} =>
                KeepsOK(r, stored, files) /\ r.token = s.token /\ r.result = x
                /\ r.detail = s.detail /\ r.model = s.model
         /\ r = [s EXCEPT !.detail = x] /\ x \in [task: stored, pending: BOOLEAN] \cup {None} =>
                KeepsOK(r, stored, files) /\ r.token = s.token /\ r.result = s.result
                /\ r.detail = x /\ r.model = s.model
         /\ r = [s EXCEPT !.model = x] /\ x \in files \cup {None} =>
                KeepsOK(r, stored, files) /\ r.token = s.token /\ r.result = s.result
                /\ r.detail = s.detail /\ r.model = x
         /\ r = [s EXCEPT !.messages = x] =>
                KeepsOK(r, stored, files) /\ r.token = s.token /\ r.result = s.result
                /\ r.detail = s.detail /\ r.model = s.model
         /\ r = [s EXCEPT !.page = x] /\ DOMAIN x = DOMAIN Pages
            /\ (\A role \in DOMAIN Pages : x[role] \in Range(Pages[role])) =>
                KeepsOK(r, stored, files) /\ r.token = s.token /\ r.result = s.result
                /\ r.detail = s.detail /\ r.model = s.model
  <1>1. s = [token |-> s.token, result |-> s.result, detail |-> s.detail, model |-> s.model,
             page |-> s.page, messages |-> s.messages]
    BY DEF KeepsOK
  <1>2. /\ s.token \in Accounts \cup {None}
        /\ s.result \in [task: stored, pending: BOOLEAN] \cup {None}
        /\ s.detail \in [task: stored, pending: BOOLEAN] \cup {None}
        /\ s.model \in files \cup {None}
        /\ DOMAIN s.page = DOMAIN Pages
        /\ \A role \in DOMAIN Pages : s.page[role] \in Range(Pages[role])
    BY DEF KeepsOK
  <1> DEFINE K == [task: stored, pending: BOOLEAN] \cup {None}
             P(page) == DOMAIN page = DOMAIN Pages
                        /\ \A role \in DOMAIN Pages : page[role] \in Range(Pages[role])
  <1>3. ASSUME NEW a \in Accounts \cup {None}, NEW b \in K, NEW c \in K, NEW d \in files \cup {None},
               NEW e, P(e), NEW f,
               r = [token |-> a, result |-> b, detail |-> c, model |-> d, page |-> e, messages |-> f]
        PROVE  KeepsOK(r, stored, files) /\ r.token = a /\ r.result = b
               /\ r.detail = c /\ r.model = d
    BY <1>3 DEF KeepsOK
  <1> HIDE DEF K
  <1>4. s.result \in K /\ s.detail \in K /\ P(s.page)
    BY <1>2 DEF K
  <1> HIDE DEF P
  <1>5. r = [s EXCEPT !.token = x] =>
           r = [token |-> x, result |-> s.result, detail |-> s.detail, model |-> s.model,
                page |-> s.page, messages |-> s.messages]
    BY <1>1
  <1>6. r = [s EXCEPT !.result = x] =>
           r = [token |-> s.token, result |-> x, detail |-> s.detail, model |-> s.model,
                page |-> s.page, messages |-> s.messages]
    BY <1>1
  <1>7. r = [s EXCEPT !.detail = x] =>
           r = [token |-> s.token, result |-> s.result, detail |-> x, model |-> s.model,
                page |-> s.page, messages |-> s.messages]
    BY <1>1
  <1>8. r = [s EXCEPT !.model = x] =>
           r = [token |-> s.token, result |-> s.result, detail |-> s.detail, model |-> x,
                page |-> s.page, messages |-> s.messages]
    BY <1>1
  <1>9. r = [s EXCEPT !.messages = x] =>
           r = [token |-> s.token, result |-> s.result, detail |-> s.detail, model |-> s.model,
                page |-> s.page, messages |-> x]
    BY <1>1
  <1>10. r = [s EXCEPT !.page = x] =>
           r = [token |-> s.token, result |-> s.result, detail |-> s.detail, model |-> s.model,
                page |-> x, messages |-> s.messages]
    BY <1>1
  <1>11. /\ r = [s EXCEPT !.token = x] /\ x \in Accounts \cup {None} =>
                KeepsOK(r, stored, files) /\ r.token = x /\ r.result = s.result
                /\ r.detail = s.detail /\ r.model = s.model
         /\ r = [s EXCEPT !.result = x] /\ x \in K =>
                KeepsOK(r, stored, files) /\ r.token = s.token /\ r.result = x
                /\ r.detail = s.detail /\ r.model = s.model
         /\ r = [s EXCEPT !.detail = x] /\ x \in K =>
                KeepsOK(r, stored, files) /\ r.token = s.token /\ r.result = s.result
                /\ r.detail = x /\ r.model = s.model
         /\ r = [s EXCEPT !.model = x] /\ x \in files \cup {None} =>
                KeepsOK(r, stored, files) /\ r.token = s.token /\ r.result = s.result
                /\ r.detail = s.detail /\ r.model = x
         /\ r = [s EXCEPT !.messages = x] =>
                KeepsOK(r, stored, files) /\ r.token = s.token /\ r.result = s.result
                /\ r.detail = s.detail /\ r.model = s.model
         /\ r = [s EXCEPT !.page = x] /\ P(x) =>
                KeepsOK(r, stored, files) /\ r.token = s.token /\ r.result = s.result
                /\ r.detail = s.detail /\ r.model = s.model
    BY ONLY <1>2, <1>3, <1>4, <1>5, <1>6, <1>7, <1>8, <1>9, <1>10
  <1> QED
    BY <1>11 DEF K, P

\* A prediction as the API tells it.
LEMMA SeenOK ==
  ASSUME ServerOK, NEW t \in DOMAIN tasks
  PROVE  Seen(t) \in [task: DOMAIN tasks, pending: BOOLEAN]
  <1>1. tasks[t] \in [owner: Accounts, pending: BOOLEAN]
    BY Elements DEF ServerOK
  <1> QED
    BY <1>1 DEF Seen

\* What each statement that writes st.session_state makes of it.
LEMMA StateWrites ==
  ASSUME TabInv
  PROVE  /\ LogIn => state' = state \/ (run.arg \in active /\ state' = [state EXCEPT !.token = run.arg])
         /\ Sidebar => state' = state \/ \E r : state' = [state EXCEPT !.page = r]
                                    /\ DOMAIN r = DOMAIN Pages
                                    /\ \A role \in DOMAIN Pages : r[role] \in Range(Pages[role])
         /\ LogOut => state' = state \/ \E key \in {"token", "result", "detail", "model"} :
                                            /\ state' = [state EXCEPT ![key] = None]
                                            /\ key # "token" => Me = None
         /\ Draw \/ ConfirmPayment \/ RedeemCode \/ UploadModel \/ UpdateCodes =>
                state' = state \/ \E m : state' = [state EXCEPT !.messages = m]
         /\ AwaitResult => \E m, r : /\ Reads(run.row) /\ run.row \in DOMAIN tasks
                                     /\ r = [state EXCEPT !.result = Seen(run.row)]
                                     /\ state' = [r EXCEPT !.messages = m]
         /\ ShowPrediction =>
                \/ state' = [state EXCEPT !.detail = None]
                \/ \E key \in {"result", "detail"}, t \in DOMAIN tasks :
                       Reads(t) /\ state' = [state EXCEPT ![key] = Seen(t)]
         /\ UseModel => \E p, r : /\ DOMAIN p = DOMAIN Pages
                                  /\ \A role \in DOMAIN Pages : p[role] \in Range(Pages[role])
                                  /\ run.arg \in DOMAIN models /\ models[run.arg].owner = Me
                                  /\ r = [state EXCEPT !.page = p]
                                  /\ state' = [r EXCEPT !.model = run.arg]
  <1>1. LogIn => state' = state \/ (run.arg \in active /\ state' = [state EXCEPT !.token = run.arg])
    BY DEF LogIn
  <1>2. ASSUME Sidebar
        PROVE  state' = state \/ \E r : /\ state' = [state EXCEPT !.page = r]
                                    /\ DOMAIN r = DOMAIN Pages
                                    /\ \A role \in DOMAIN Pages : r[role] \in Range(Pages[role])
    <2>1. CASE run.on = "go" /\ run.arg \in MyPages
      <3> DEFINE r == [state.page EXCEPT ![Role[Me]] = run.arg]
      <3>1. state' = [state EXCEPT !.page = r]
        BY <1>2, <2>1 DEF Sidebar
      <3>2. /\ DOMAIN state.page = DOMAIN Pages
            /\ \A role \in DOMAIN Pages : state.page[role] \in Range(Pages[role])
        BY DEF TabInv, StateOK, KeepsOK
      <3>3. run.arg \in Range(Pages[Role[Me]])
        BY <2>1 DEF MyPages
      <3>4. DOMAIN r = DOMAIN Pages /\ \A role \in DOMAIN Pages : r[role] \in Range(Pages[role])
        BY <3>2, <3>3
      <3> QED
        BY <3>1, <3>4
    <2>2. CASE ~(run.on = "go" /\ run.arg \in MyPages)
      BY <1>2, <2>2 DEF Sidebar
    <2> QED
      BY <2>1, <2>2
  <1>3. ASSUME LogOut
        PROVE  state' = state \/ \E key \in {"token", "result", "detail", "model"} :
                                     /\ state' = [state EXCEPT ![key] = None]
                                     /\ key # "token" => Me = None
    <2>1. /\ run.row \in 1..5
          /\ \A i \in 1..(run.row - 1) : state[LogOutKeys[i]] = None
      BY <1>3 DEF TabInv, PlaceOK, LogOut
    <2>2. Len(LogOutKeys) = 4 /\ LogOutKeys[1] = "token" /\ LogOutKeys[2] = "result"
          /\ LogOutKeys[3] = "detail" /\ LogOutKeys[4] = "model"
      BY DEF LogOutKeys
    <2>3. CASE run.row = 5
      BY <1>3, <2>2, <2>3 DEF LogOut
    <2>4. CASE run.row \in 1..4
      <3>1. state' = [state EXCEPT ![LogOutKeys[run.row]] = None]
        BY <1>3, <2>2, <2>4 DEF LogOut
      <3>2. LogOutKeys[run.row] \in {"token", "result", "detail", "model"}
        BY <2>2, <2>4
      <3>3. run.row # 1 => state["token"] = None
        BY <2>1, <2>2, <2>4
      <3>4. LogOutKeys[run.row] # "token" => Me = None
        BY <2>2, <3>3 DEF Me
      <3> QED
        BY <3>1, <3>2, <3>4
    <2> QED
      BY <2>1, <2>3, <2>4
  <1>4. Draw \/ ConfirmPayment \/ RedeemCode \/ UploadModel \/ UpdateCodes =>
            state' = state \/ \E m : state' = [state EXCEPT !.messages = m]
    BY DEF Draw, ConfirmPayment, RedeemCode, UploadModel, UpdateCodes, Thank, NoAnswer
  <1>5. ASSUME AwaitResult
        PROVE  \E m, r : /\ Reads(run.row) /\ run.row \in DOMAIN tasks
                         /\ r = [state EXCEPT !.result = Seen(run.row)]
                         /\ state' = [r EXCEPT !.messages = m]
    <2>1. Reads(run.row) /\ run.row \in DOMAIN tasks
      BY <1>5 DEF AwaitResult, TabInv, PlaceOK
    <2>2. state' = [[state EXCEPT !.result = Seen(run.row)]
                       EXCEPT !.messages = state.messages \cup {"predicted"}]
      <3>1. state' = [state EXCEPT !.result = Seen(run.row), !.messages = @ \cup {"predicted"}]
        BY <1>5 DEF AwaitResult
      <3>2. state = [token |-> state.token, result |-> state.result, detail |-> state.detail,
                     model |-> state.model, page |-> state.page, messages |-> state.messages]
        BY DEF TabInv, StateOK, KeepsOK
      <3> QED
        BY <3>1, <3>2
    <2> QED
      BY <2>1, <2>2
  <1>6. ASSUME ShowPrediction
        PROVE  \/ state' = [state EXCEPT !.detail = None]
               \/ \E key \in {"result", "detail"}, t \in DOMAIN tasks :
                       Reads(t) /\ state' = [state EXCEPT ![key] = Seen(t)]
    <2>1. \A r \in {state.result, state.detail} \ {None} : r.task \in DOMAIN tasks
      BY DEF TabInv, StateOK, KeepsOK
    <2>2. CASE Acts("refreshResult") /\ Shows("result", state.result.task)
      <3>1. state.result # None
        BY <2>2, Acting DEF Acts
      <3> QED
        BY <2>1, <2>2, <3>1 DEF Shows
    <2>3. CASE Acts("refreshDetail") /\ Shows("detail", state.detail.task)
      <3>1. state.detail # None
        BY <2>3, Acting DEF Acts
      <3> QED
        BY <2>1, <2>3, <3>1 DEF Shows
    <2>4. CASE Acts("open") /\ Shows("detail", run.arg)
      <3>1. run.arg \in run.next.rows
        BY <2>4, Acting DEF Acts
      <3>2. run.next.rows \subseteq DOMAIN tasks
        BY DEF TabInv, TabOK, ClickOK, ScreenOK
      <3> QED
        BY <2>4, <3>1, <3>2 DEF Shows
    <2> QED
      BY <1>6, <2>2, <2>3, <2>4 DEF ShowPrediction
  <1>7. ASSUME UseModel
        PROVE  \E p, r : /\ DOMAIN p = DOMAIN Pages
                         /\ \A role \in DOMAIN Pages : p[role] \in Range(Pages[role])
                         /\ run.arg \in DOMAIN models /\ models[run.arg].owner = Me
                         /\ r = [state EXCEPT !.page = p]
                         /\ state' = [r EXCEPT !.model = run.arg]
    <2> DEFINE p == [state.page EXCEPT !["user"] = "Predictions"]
    <2>1. pc = "act" /\ run.on = "use"
      BY <1>7 DEF UseModel, Acts
    <2>2. run.next.page = "MyModels" /\ run.arg \in Range(run.next.options)
      BY <2>1, Acting
    <2>3. run.arg \in DOMAIN models /\ models[run.arg].owner = Me
      BY <2>1, <2>2 DEF TabInv, LoadedOK
    <2>4. state' = [[state EXCEPT !.page = p] EXCEPT !.model = run.arg]
      <3>1. state' = [state EXCEPT !.page["user"] = "Predictions", !.model = run.arg]
        BY <1>7 DEF UseModel
      <3>2. state = [token |-> state.token, result |-> state.result, detail |-> state.detail,
                     model |-> state.model, page |-> state.page, messages |-> state.messages]
        BY DEF TabInv, StateOK, KeepsOK
      <3> QED
        BY <3>1, <3>2
    <2>5. DOMAIN p = DOMAIN Pages /\ \A role \in DOMAIN Pages : p[role] \in Range(Pages[role])
      <3>1. /\ DOMAIN state.page = DOMAIN Pages
            /\ \A role \in DOMAIN Pages : state.page[role] \in Range(Pages[role])
        BY DEF TabInv, StateOK, KeepsOK
      <3> QED
        BY <3>1, Constants
    <2> QED
      BY <2>3, <2>4, <2>5
  <1> QED
    BY <1>1, <1>2, <1>3, <1>4, <1>5, <1>6, <1>7

\* How the parts of st.session_state change: a prediction or a model that a
\* step puts there is of the account that is logged in.
Moves ==
    /\ \/ state'.result \in {state.result, None}
       \/ Me' = Me /\ \E t \in DOMAIN tasks : tasks[t].owner = Me /\ state'.result = Seen(t)
    /\ \/ state'.detail \in {state.detail, None}
       \/ Me' = Me /\ \E t \in DOMAIN tasks : tasks[t].owner = Me /\ state'.detail = Seen(t)
    /\ \/ state'.model \in {state.model, None}
       \/ /\ Me' = Me /\ state'.model \in DOMAIN models
          /\ models[state'.model].owner = Me

\* What a step does to the session state: what is kept stays of its type,
\* and the account changes only in a log-in, a log-out or a reload.
LEMMA StateStep ==
  ASSUME TabInv, [DashboardNext]_dashboardVars
  PROVE  /\ KeepsOK(state', DOMAIN tasks', DOMAIN models') /\ Moves
         /\ \/ Me' = Me
            \/ Me' = None /\ (Reload \/ LogOut)
            \/ LogIn /\ Me = None /\ Me' = run.arg /\ Me' \in Accounts
  <1> DEFINE T == DOMAIN tasks
             F == DOMAIN models
             Same == /\ state'.result = state.result /\ state'.detail = state.detail
                     /\ state'.model = state.model
             Goal == /\ KeepsOK(state', T, F) /\ Moves
                     /\ \/ Me' = Me
                        \/ Me' = None /\ (Reload \/ LogOut)
                        \/ LogIn /\ Me = None /\ Me' = run.arg /\ Me' \in Accounts
  <1>a. DOMAIN tasks \subseteq DOMAIN tasks' /\ DOMAIN models \subseteq DOMAIN models'
    BY ServerStep DEF Grow
  <1> SUFFICES Goal
    <2>1. KeepsOK(state', T, F) => KeepsOK(state', DOMAIN tasks', DOMAIN models')
      BY <1>a, KeepsKept
    <2> QED
      BY <2>1
  <1>0. KeepsOK(state, T, F)
    BY DEF TabInv, StateOK
  <1>1. ASSUME state' = state
        PROVE  Goal
    BY <1>0, <1>1 DEF Moves, Me
  <1>2. CASE LogIn
    <2>1. CASE run.arg \in active /\ state' = [state EXCEPT !.token = run.arg]
      <3>1. run.arg \in Accounts
        <4>1. active \subseteq Range(accounts) /\ accounts \in Seq(Accounts)
          BY DEF TabInv, ServerOK
        <4> QED
          BY <2>1, <4>1, Elements
      <3>2. KeepsOK(state', T, F) /\ state'.token = run.arg /\ Same
        BY <1>0, <2>1, <3>1, FieldSet
      <3>3. Me = None
        BY <1>2 DEF LogIn
      <3> QED
        BY <1>2, <3>1, <3>2, <3>3 DEF Moves, Me
    <2> QED
      BY <1>1, <1>2, <2>1, StateWrites
  <1>3. CASE Sidebar
    <2>1. CASE state' # state
      <3>1. PICK r : /\ state' = [state EXCEPT !.page = r]
                     /\ DOMAIN r = DOMAIN Pages
                     /\ \A role \in DOMAIN Pages : r[role] \in Range(Pages[role])
        BY <1>3, <2>1, StateWrites
      <3>2. KeepsOK(state', T, F) /\ state'.token = state.token /\ Same
        BY <1>0, <3>1, FieldSet
      <3> QED
        BY <3>2 DEF Moves, Me
    <2> QED
      BY <1>1, <2>1
  <1>4. CASE LogOut
    <2>1. CASE state' # state
      <3>1. PICK key \in {"token", "result", "detail", "model"} :
                   state' = [state EXCEPT ![key] = None]
        BY <1>4, <2>1, StateWrites
      <3>2. /\ KeepsOK(state', T, F) /\ state'.token \in {state.token, None}
            /\ state'.result \in {state.result, None} /\ state'.detail \in {state.detail, None}
            /\ state'.model \in {state.model, None}
        <4>1. CASE state' = [state EXCEPT !.token = None]
          BY <1>0, <4>1, FieldSet
        <4>2. CASE state' = [state EXCEPT !.result = None]
          BY <1>0, <4>2, FieldSet
        <4>3. CASE state' = [state EXCEPT !.detail = None]
          BY <1>0, <4>3, FieldSet
        <4>4. CASE state' = [state EXCEPT !.model = None]
          BY <1>0, <4>4, FieldSet
        <4> QED
          BY <3>1, <4>1, <4>2, <4>3, <4>4
      <3> QED
        BY <1>4, <3>2 DEF Moves, Me
    <2> QED
      BY <1>1, <2>1
  <1>5. CASE Draw \/ ConfirmPayment \/ RedeemCode \/ UploadModel \/ UpdateCodes
    <2>1. CASE state' # state
      <3>1. PICK m : state' = [state EXCEPT !.messages = m]
        BY <1>5, <2>1, StateWrites
      <3>2. KeepsOK(state', T, F) /\ state'.token = state.token /\ Same
        BY <1>0, <3>1, FieldSet
      <3> QED
        BY <3>2 DEF Moves, Me
    <2> QED
      BY <1>1, <2>1
  <1>6. CASE AwaitResult
    <2>1. PICK m, r : /\ Reads(run.row) /\ run.row \in DOMAIN tasks
                      /\ r = [state EXCEPT !.result = Seen(run.row)]
                      /\ state' = [r EXCEPT !.messages = m]
      BY <1>6, StateWrites
    <2>2. Seen(run.row) \in [task: T, pending: BOOLEAN]
      BY <2>1, SeenOK DEF TabInv
    <2>3. KeepsOK(state', T, F) /\ state'.token = state.token /\ state'.result = Seen(run.row)
          /\ state'.detail = state.detail /\ state'.model = state.model
      <3>1. r = [state EXCEPT !.result = Seen(run.row)]
        BY <2>1
      <3>2. state' = [r EXCEPT !.messages = m]
        BY <2>1
      <3>3. Seen(run.row) \in [task: T, pending: BOOLEAN] \cup {None}
        BY <2>2
      <3>4. KeepsOK(r, T, F) /\ r.token = state.token /\ r.result = Seen(run.row)
            /\ r.detail = state.detail /\ r.model = state.model
        BY ONLY <1>0, <3>1, <3>3, FieldSet
      <3>5. KeepsOK(r, T, F)
        BY <3>4
      <3>6. KeepsOK(state', T, F) /\ state'.token = r.token /\ state'.result = r.result
            /\ state'.detail = r.detail /\ state'.model = r.model
        BY ONLY <3>2, <3>5, FieldSet
      <3> QED
        BY <3>4, <3>6
    <2> QED
      BY <2>1, <2>3 DEF Moves, Me, Reads
  <1>7. CASE ShowPrediction
    <2>1. CASE state' = [state EXCEPT !.detail = None]
      <3>1. KeepsOK(state', T, F) /\ state'.token = state.token /\ state'.result = state.result
            /\ state'.detail = None /\ state'.model = state.model
        BY <1>0, <2>1, FieldSet
      <3> QED
        BY <3>1 DEF Moves, Me
    <2>2. ASSUME NEW t \in DOMAIN tasks, Reads(t), state' = [state EXCEPT !.result = Seen(t)]
          PROVE  Goal
      <3>1. Seen(t) \in [task: T, pending: BOOLEAN]
        BY SeenOK DEF TabInv
      <3>2. KeepsOK(state', T, F) /\ state'.token = state.token /\ state'.result = Seen(t)
            /\ state'.detail = state.detail /\ state'.model = state.model
        BY <1>0, <2>2, <3>1, FieldSet
      <3> QED
        BY <2>2, <3>2 DEF Moves, Me, Reads
    <2>3. ASSUME NEW t \in DOMAIN tasks, Reads(t), state' = [state EXCEPT !.detail = Seen(t)]
          PROVE  Goal
      <3>1. Seen(t) \in [task: T, pending: BOOLEAN]
        BY SeenOK DEF TabInv
      <3>2. KeepsOK(state', T, F) /\ state'.token = state.token /\ state'.result = state.result
            /\ state'.detail = Seen(t) /\ state'.model = state.model
        BY <1>0, <2>3, <3>1, FieldSet
      <3> QED
        BY <2>3, <3>2 DEF Moves, Me, Reads
    <2>4. \/ state' = [state EXCEPT !.detail = None]
          \/ \E t \in DOMAIN tasks : Reads(t) /\ state' = [state EXCEPT !.result = Seen(t)]
          \/ \E t \in DOMAIN tasks : Reads(t) /\ state' = [state EXCEPT !.detail = Seen(t)]
      BY <1>7, StateWrites
    <2> HIDE DEF Goal
    <2> QED
      BY <2>1, <2>2, <2>3, <2>4
  <1>8. CASE UseModel
    <2>1. PICK p, r : /\ DOMAIN p = DOMAIN Pages
                      /\ \A role \in DOMAIN Pages : p[role] \in Range(Pages[role])
                      /\ run.arg \in DOMAIN models /\ models[run.arg].owner = Me
                      /\ r = [state EXCEPT !.page = p]
                      /\ state' = [r EXCEPT !.model = run.arg]
      BY <1>8, StateWrites
    <2>2. KeepsOK(state', T, F) /\ state'.token = state.token /\ state'.result = state.result
          /\ state'.detail = state.detail /\ state'.model = run.arg
      <3>1. r = [state EXCEPT !.page = p]
        BY <2>1
      <3>2. DOMAIN p = DOMAIN Pages /\ \A role \in DOMAIN Pages : p[role] \in Range(Pages[role])
        BY <2>1
      <3>3. run.arg \in F \cup {None}
        BY <2>1
      <3>4. KeepsOK(r, T, F) /\ r.token = state.token /\ r.result = state.result
            /\ r.detail = state.detail /\ r.model = state.model
        BY ONLY <1>0, <3>1, <3>2, FieldSet
      <3>5. KeepsOK(r, T, F)
        BY <3>4
      <3>6. state' = [r EXCEPT !.model = run.arg]
        BY <2>1
      <3>7. KeepsOK(state', T, F) /\ state'.token = r.token /\ state'.result = r.result
            /\ state'.detail = r.detail /\ state'.model = run.arg
        BY ONLY <3>3, <3>5, <3>6, FieldSet
      <3> QED
        BY <3>4, <3>7
    <2> QED
      BY <2>1, <2>2 DEF Moves, Me
  <1>9. CASE Reload
    <2>1. state' = NewSession
      BY <1>9 DEF Reload
    <2>2. KeepsOK(NewSession, T, F) /\ NewSession.token = None /\ NewSession.result = None
          /\ NewSession.detail = None /\ NewSession.model = None
      BY Constants DEF KeepsOK, NewSession
    <2> QED
      BY <1>9, <2>1, <2>2 DEF Moves, Me
  <1>10. CASE UNCHANGED dashboardVars \/ Click \/ Begin \/ Elsewhere \/ LoadUser \/ LoadPage
              \/ LoadDetail \/ Refused \/ CreatePayment \/ CreatePrediction \/ UpdateStatus
              \/ DeleteModel \/ AdjustBalance
    <2>1. state' = state
      BY <1>10 DEF dashboardVars, Click, Begin, Elsewhere, LoadUser, LoadPage, LoadDetail, Refused,
         CreatePayment, CreatePrediction, UpdateStatus, DeleteModel, AdjustBalance, NoAnswer
    <2> QED
      BY <1>1, <2>1
  <1> HIDE DEF Goal
  <1> QED
    BY <1>1, <1>2, <1>3, <1>4, <1>5, <1>6, <1>7, <1>8, <1>9, <1>10 DEF DashboardNext, Script

-----------------------------------------------------------------------------
(* Selectboxes.                                                            *)

\* The rows of a table that are listed.
LEMMA Listed ==
  ASSUME NEW S, NEW s \in Seq(S), NEW ids \in SUBSET DOMAIN s
  PROVE  NewestFirst(ids) \in Seq(ids)
  <1>1. DOMAIN s = 1..Len(s) /\ Len(s) \in Nat
    OBVIOUS
  <1>2. IsFiniteSet(1..Len(s))
    BY <1>1, FS_Interval
  <1>3. ids \in SUBSET Nat /\ IsFiniteSet(ids)
    BY <1>1, <1>2, FS_Subset
  <1> QED
    BY <1>3, NewestFirstIs

\* What a page offers: My models those of the account only.
LEMMA OptionsOK ==
  ASSUME ServerOK, NEW page
  PROVE  /\ \E S : Options(page) \in Seq(S)
         /\ page = "Users" => Options(page) = accounts
         /\ page = "MyModels" =>
                Range(Options(page)) \subseteq {m \in DOMAIN models : models[m].owner = Me}
  <1>1. CASE page \in {"Users", "Transactions"}
    <2>1. Options(page) = accounts
      BY <1>1 DEF Options
    <2> QED
      BY <1>1, <2>1 DEF ServerOK
  <1>2. CASE page = "Models"
    <2> DEFINE ids == {m \in DOMAIN models : models[m].live}
    <2>1. Options(page) = NewestFirst(ids)
      BY <1>2 DEF Options
    <2>2. models \in Seq([owner: Accounts, live: BOOLEAN])
      BY DEF ServerOK
    <2>3. ids \in SUBSET DOMAIN models
      OBVIOUS
    <2> HIDE DEF ids
    <2>4. Options(page) \in Seq(ids)
      BY <2>1, <2>2, <2>3, Listed
    <2> QED
      BY <1>2, <2>4
  <1>3. CASE page \in {"Predictions", "MyModels"}
    <2> DEFINE ids == {m \in DOMAIN models : models[m].owner = Me}
    <2>1. Options(page) = NewestFirst(ids)
      BY <1>3 DEF Options
    <2>2. models \in Seq([owner: Accounts, live: BOOLEAN])
      BY DEF ServerOK
    <2>3. ids \in SUBSET DOMAIN models
      OBVIOUS
    <2>4. Options(page) \in Seq(ids) /\ Range(Options(page)) \subseteq ids
      <3> HIDE DEF ids
      <3>1. Options(page) \in Seq(ids)
        BY <2>1, <2>2, <2>3, Listed
      <3> QED
        BY <3>1, Elements
    <2>5. \E S : Options(page) \in Seq(S)
      <3> HIDE DEF ids
      <3> QED
        BY <2>4
    <2> QED
      BY <1>3, <2>4, <2>5
  <1>4. CASE page = "PromoCodes"
    <2> DEFINE ids == {c \in DOMAIN codes : codes[c].active}
               on == NewestFirst(ids)
               option(i) == <<on[i], Cardinality(codes[on[i]].by)>>
               labels == {option(i) : i \in DOMAIN on}
    <2>1. Options(page) = [i \in DOMAIN on |-> option(i)]
      BY <1>4 DEF Options
    <2>2. codes \in Seq([active: BOOLEAN, by: SUBSET Accounts])
      BY DEF ServerOK
    <2>3. ids \in SUBSET DOMAIN codes
      OBVIOUS
    <2> HIDE DEF ids
    <2>4. on \in Seq(ids)
      BY <2>2, <2>3, Listed
    <2> HIDE DEF on, option
    <2>5. DOMAIN on = 1..Len(on) /\ Len(on) \in Nat
      BY <2>4
    <2>6. \A i \in 1..Len(on) : option(i) \in labels
      BY <2>5
    <2> HIDE DEF labels
    <2>7. [i \in 1..Len(on) |-> option(i)] \in Seq(labels)
      BY <2>5, <2>6, IsASeq
    <2>8. Options(page) \in Seq(labels)
      BY <2>1, <2>5, <2>7
    <2> QED
      BY <1>4, <2>8
  <1>5. CASE page \notin {"Users", "Transactions", "Models", "Predictions", "MyModels", "PromoCodes"}
    <2>1. Options(page) = <<>>
      BY <1>5 DEF Options
    <2>2. <<>> \in Seq({})
      OBVIOUS
    <2> QED
      BY <1>5, <2>1, <2>2
  <1> QED
    BY <1>1, <1>2, <1>3, <1>4, <1>5

\* The choice is one of the options: that of the page that was clicked when the
\* options are the same, or else the first but for predictions.
LEMMA ChoiceOK ==
  ASSUME TabInv, NEW page, NEW options, options = Options(page)
  PROVE  /\ IF options = <<>> THEN Choice(page, options) = None
            ELSE Choice(page, options) \in Range(options)
         /\ run.from.page = page /\ page # "Predictions" /\ options # <<>> =>
                Choice(page, options) = IF run.from.options = options THEN run.from.choice
                                        ELSE Head(options)
  <1>1. options # <<>> => Head(options) \in Range(options)
    <2>1. PICK S : options \in Seq(S)
      BY OptionsOK DEF TabInv
    <2> QED
      BY <2>1, Elements
  <1>2. CASE run.from.page # page \/ run.from.options # options
    <2>1. Choice(page, options) = Preselected(page, options)
      BY <1>2 DEF Choice
    <2> QED
      BY <1>1, <1>2, <2>1 DEF Preselected
  <1>3. CASE run.from.page = page /\ run.from.options = options
    <2>1. Choice(page, options) = run.from.choice
      BY <1>3 DEF Choice
    <2>2. IF options = <<>> THEN run.from.choice = None ELSE run.from.choice \in Range(options)
      BY <1>3 DEF TabInv, TabOK, ClickOK, DrawnOK, ScreenOK
    <2> QED
      BY <1>3, <2>1, <2>2
  <1> QED
    BY <1>2, <1>3

-----------------------------------------------------------------------------
(* What was drawn and clicked, after every step.                           *)

\* A page is drawn as it was loaded, but for the choice of a selectbox that is on
\* the screen already.
LEMMA DrawnAsLoaded ==
  ASSUME NEW s, NEW stored, NEW was, ScreenOK(s, stored), DrawnOK(screen, stored, was)
  PROVE  /\ ScreenOK(Drawn(s), stored)
         /\ Drawn(s).who = s.who /\ Drawn(s).page = s.page /\ Drawn(s).label = s.label
  <1>1. CASE s.page = screen.page /\ s.options = screen.options
    <2> DEFINE d == [s EXCEPT !.choice = screen.choice]
    <2>1. /\ IsScreen(d) /\ d.who = s.who /\ d.page = s.page /\ d.options = s.options
          /\ d.choice = screen.choice /\ d.label = s.label /\ d.rows = s.rows
      BY DEF ScreenOK, IsScreen
    <2>2. Drawn(s) = d
      BY <1>1 DEF Drawn
    <2> HIDE DEF d
    <2> QED
      BY <1>1, <2>1, <2>2 DEF ScreenOK, DrawnOK
  <1>2. CASE ~(s.page = screen.page /\ s.options = screen.options)
    BY <1>2 DEF Drawn
  <1> QED
    BY <1>1, <1>2

\* What a step of the script makes of the screen and of its own variables.
LEMMA ScriptForms ==
  ASSUME TabInv, Script
  PROVE  /\ waiting' = waiting
         /\ \/ screen' = screen
            \/ screen' = Blank(None, "Login") /\ Me = None
            \/ Me # None /\ screen' \in {Blank(Me, "Error"), Blank(Me, "Sidebar")}
            \/ Draw /\ screen' = Drawn(run.next)
         /\ \/ run' \in {run, NoRun, NewRun("nothing", None, screen)}
            \/ \E row : run' = [run EXCEPT !.row = row]
            \/ \E s : /\ run' = [run EXCEPT !.next = s]
                      /\ LoadPage /\ pc' \in {"detail", "draw"}
            \/ \E l \in {"block", "unblock"} : /\ run' = [run EXCEPT !.next.label = l]
                                               /\ LoadDetail /\ pc' = "draw"
  <1>1. CASE LogIn
    BY <1>1 DEF LogIn, Rerun, Stop, others
  <1>2. CASE LoadUser
    BY <1>2 DEF LoadUser, StopWith, Stop, others
  <1>3. CASE Sidebar
    BY <1>3 DEF Sidebar, Rerun, others
  <1>4. CASE LogOut
    BY <1>4 DEF LogOut, Rerun, others
  <1>5. CASE LoadPage
    <2>1. Me # None
      BY <1>5 DEF LoadPage, TabInv, PlaceOK
    <2>2. waiting' = waiting
      BY <1>5 DEF LoadPage, others
    <2>3. CASE StopWith("Sidebar")
      BY <2>1, <2>2, <2>3 DEF StopWith, Stop
    <2>4. CASE ~StopWith("Sidebar")
      <3>1. screen' = screen
        BY <1>5, <2>4 DEF LoadPage
      <3>2. \E s : run' = [run EXCEPT !.next = s]
        BY <1>5, <2>4 DEF LoadPage
      <3>3. pc' \in {"detail", "draw"}
        BY <1>5, <2>4 DEF LoadPage
      <3> QED
        BY <1>5, <2>2, <3>1, <3>2, <3>3
    <2> QED
      BY <2>3, <2>4
  <1>6. CASE LoadDetail
    <2>1. Me # None
      BY <1>6 DEF LoadDetail, TabInv, PlaceOK
    <2>2. waiting' = waiting
      BY <1>6 DEF LoadDetail, others
    <2>3. CASE StopWith("Sidebar")
      BY <2>1, <2>2, <2>3 DEF StopWith, Stop
    <2>4. CASE ~StopWith("Sidebar")
      <3> DEFINE l == IF run.next.choice \in active THEN "block" ELSE "unblock"
      <3>1. screen' = screen /\ pc' = "draw"
        BY <1>6, <2>4 DEF LoadDetail
      <3>2. run' = [run EXCEPT !.next.label = l]
        BY <1>6, <2>4 DEF LoadDetail
      <3>3. l \in {"block", "unblock"}
        OBVIOUS
      <3> QED
        BY <1>6, <2>2, <3>1, <3>2, <3>3
    <2> QED
      BY <2>3, <2>4
  <1>7. CASE Draw
    BY <1>7 DEF Draw, Stop, others
  <1>8. CASE Refused \/ AwaitResult \/ ShowPrediction \/ UseModel
    BY <1>8 DEF Refused, AwaitResult, ShowPrediction, UseModel, NoAnswer, Stop, Rerun, Idle, others
  <1>9. CASE CreatePayment \/ ConfirmPayment \/ CreatePrediction
    BY <1>9 DEF CreatePayment, ConfirmPayment, CreatePrediction, NoAnswer, Stop, Rerun, Idle, others
  <1>10. CASE RedeemCode \/ UploadModel \/ UpdateCodes
    BY <1>10 DEF RedeemCode, UploadModel, UpdateCodes, Thank, NoAnswer, Stop, Rerun, Idle, others
  <1>11. CASE UpdateStatus \/ DeleteModel \/ AdjustBalance
    BY <1>11 DEF UpdateStatus, DeleteModel, AdjustBalance, NoAnswer, Stop, Rerun, Idle, others
  <1> QED
    BY <1>1, <1>2, <1>3, <1>4, <1>5, <1>6, <1>7, <1>8, <1>9, <1>10, <1>11 DEF Script

\* Who was on the screen when somebody logs in.
LEMMA LogsIn ==
  ASSUME TabInv, LogIn, Me' # Me
  PROVE  /\ screen.who = None /\ (waiting # None => waiting.from.who = None)
         /\ screen' = Blank(None, "Login") /\ run' = NewRun("nothing", None, screen)
         /\ waiting' = waiting
  <1>1. run.on = "logIn" /\ Rerun
    BY DEF LogIn, Me
  <1> QED
    BY <1>1 DEF LogIn, Rerun, TabInv, InAndOut, others

\* What a page loads is well-formed.
LEMMA PageLoaded ==
  ASSUME TabInv, LoadPage, pc' \in {"detail", "draw"}
  PROVE  LET s == run'.next IN
         /\ run' = [run EXCEPT !.next = s] /\ ScreenOK(s, DOMAIN tasks)
         /\ s.who = Me /\ Me # None /\ s.page = state.page[Role[Me]] /\ s.page # "Login"
         /\ s.options = Options(s.page) /\ s.choice = Choice(s.page, s.options)
         /\ pc' = IF s.page = "Users" THEN "detail" ELSE "draw"
         /\ Authorized
  <1> DEFINE page == state.page[Role[Me]]
             options == Options(page)
             s == [who |-> Me, page |-> page, options |-> options,
                   choice |-> Choice(page, options), label |-> None,
                   rows |-> If(page = "Predictions", {t \in DOMAIN tasks : tasks[t].owner = Me})]
  <1>1. run' = [run EXCEPT !.next = s] /\ Authorized
        /\ pc' = IF page = "Users" THEN "detail" ELSE "draw"
    BY DEF LoadPage, StopWith, Stop
  <1>2. IsRun(run)
    BY DEF TabInv, TabOK, ClickOK
  <1>3. run'.next = s
    BY <1>1, <1>2 DEF IsRun
  <1>4. Me \in Accounts /\ Me # None
    BY <1>1, Registration DEF TabInv
  <1>5. page # "Login"
    <2>1. Role[Me] \in DOMAIN Pages
      BY <1>4, Constants
    <2>2. page \in Range(Pages[Role[Me]])
      BY <2>1 DEF TabInv, StateOK, KeepsOK
    <2> QED
      BY <2>1, <2>2, Constants
  <1>6. IF options = <<>> THEN Choice(page, options) = None ELSE Choice(page, options) \in Range(options)
    BY ChoiceOK
  <1> HIDE DEF page, options
  <1>7. ScreenOK(s, DOMAIN tasks)
    BY <1>6 DEF ScreenOK, IsScreen, If
  <1>8. s.who = Me /\ s.page = page /\ s.options = options /\ s.choice = Choice(page, options)
    OBVIOUS
  <1>9. options = Options(page) /\ page = state.page[Role[Me]]
    BY DEF page, options
  <1> HIDE DEF s
  <1> QED
    BY <1>1, <1>3, <1>4, <1>5, <1>7, <1>8, <1>9

\* What a page says of the account that was chosen.
LEMMA DetailLoaded ==
  ASSUME TabInv, LoadDetail, pc' = "draw"
  PROVE  LET s == run'.next IN
         /\ run' = [run EXCEPT !.next = s] /\ ScreenOK(s, DOMAIN tasks)
         /\ s.who = run.next.who /\ s.page = run.next.page /\ s.options = run.next.options
         /\ s.choice = run.next.choice /\ s.label \in {"block", "unblock"}
  <1> DEFINE l == IF run.next.choice \in active THEN "block" ELSE "unblock"
             s == [run.next EXCEPT !.label = l]
  <1>1. run' = [run EXCEPT !.next.label = l]
    BY DEF LoadDetail, StopWith, Stop
  <1>2. IsRun(run) /\ ScreenOK(run.next, DOMAIN tasks)
    BY DEF TabInv, TabOK, ClickOK
  <1>3. l \in {"block", "unblock"}
    OBVIOUS
  <1> HIDE DEF l
  <1>4. run' = [run EXCEPT !.next = s]
    BY <1>1
  <1>5. run'.next = s
    BY <1>2, <1>4 DEF IsRun
  <1>6. /\ s.who = run.next.who /\ s.page = run.next.page /\ s.options = run.next.options
        /\ s.choice = run.next.choice /\ s.label = l /\ s.rows = run.next.rows
        /\ IsScreen(s)
    BY <1>2 DEF ScreenOK, IsScreen
  <1>7. ScreenOK(s, DOMAIN tasks)
    BY <1>2, <1>6 DEF ScreenOK
  <1> HIDE DEF s
  <1> QED
    BY <1>3, <1>4, <1>5, <1>6, <1>7

\* The variables of the run are written one at a time.
LEMMA RunWritten ==
  ASSUME NEW r, NEW stored, NEW me, ClickOK(r, stored, me), NEW x, NEW q
  PROVE  /\ q = [r EXCEPT !.row = x] =>
                ClickOK(q, stored, me) /\ q.on = r.on /\ q.arg = r.arg /\ q.from = r.from
                /\ q.next = r.next /\ q.row = x
         /\ q = [r EXCEPT !.next = x] /\ ScreenOK(x, stored) =>
                ClickOK(q, stored, me) /\ q.on = r.on /\ q.arg = r.arg /\ q.from = r.from
                /\ q.next = x /\ q.row = r.row
  <1>1. IsRun(r)
    BY DEF ClickOK
  <1>2. ASSUME q = [r EXCEPT !.row = x]
        PROVE  ClickOK(q, stored, me) /\ q.on = r.on /\ q.arg = r.arg /\ q.from = r.from
               /\ q.next = r.next /\ q.row = x
    <2>1. IsRun(q) /\ q.on = r.on /\ q.arg = r.arg /\ q.from = r.from
          /\ q.next = r.next /\ q.row = x
      BY <1>1, <1>2 DEF IsRun
    <2> QED
      BY <2>1 DEF ClickOK
  <1>3. ASSUME q = [r EXCEPT !.next = x], ScreenOK(x, stored)
        PROVE  ClickOK(q, stored, me) /\ q.on = r.on /\ q.arg = r.arg /\ q.from = r.from
               /\ q.next = x /\ q.row = r.row
    <2>1. IsRun(q) /\ q.on = r.on /\ q.arg = r.arg /\ q.from = r.from
          /\ q.next = x /\ q.row = r.row
      BY <1>1, <1>3 DEF IsRun
    <2> QED
      BY <1>3, <2>1 DEF ClickOK
  <1> QED
    BY <1>2, <1>3

\* A click, as it waits.
LEMMA Clicked ==
  ASSUME TabInv, Click
  PROVE  /\ ClickOK(waiting', DOMAIN tasks, Me) /\ DrawnOK(screen', DOMAIN tasks, Me)
         /\ waiting'.on = "logIn" => screen.page = "Login"
         /\ waiting'.on = "logOut" => screen.page # "Login"
         /\ waiting'.from.who = screen.who /\ screen'.who = screen.who
         /\ waiting = None
         /\ topUps' = IF waiting'.on = "topUp" THEN [topUps EXCEPT ![screen.who] = @ + 1]
                      ELSE topUps
  <1>1. PICK b \in Buttons :
            /\ \E x \in ChoicesAt(b) : screen' = [screen EXCEPT !.choice = x]
            /\ waiting' = NewRun(b[1], b[2], screen')
            /\ topUps' = IF b[1] = "topUp" THEN [topUps EXCEPT ![screen.who] = @ + 1] ELSE topUps
    BY DEF Click
  <1>2. PICK x \in ChoicesAt(b) : screen' = [screen EXCEPT !.choice = x]
    BY <1>1
  <1> DEFINE s == [screen EXCEPT !.choice = x]
  <1>3. DrawnOK(screen, DOMAIN tasks, Me)
    BY DEF TabInv, TabOK
  <1>4. IF screen.options = <<>> THEN screen.choice = None ELSE screen.choice \in Range(screen.options)
    BY <1>3 DEF DrawnOK, ScreenOK
  <1>5. Range(<<>>) = {}
    <2>1. DOMAIN <<>> = {}
      OBVIOUS
    <2> QED
      BY <2>1 DEF Range
  <1>6. IF screen.options = <<>> THEN x = None ELSE x \in Range(screen.options)
    <2>1. b[1] = "choose" => b[2] \in Range(screen.options)
      BY ClickedFacts DEF TabInv
    <2>2. b[1] \in InForm => screen.options # <<>>
      BY <1>1, <1>3, <1>5, <1>2 DEF InForm, ChoicesAt
    <2> QED
      BY <1>2, <1>4, <1>5, <2>1, <2>2 DEF ChoicesAt
  <1>7. /\ s.who = screen.who /\ s.page = screen.page /\ s.options = screen.options
        /\ s.choice = x /\ s.label = screen.label /\ s.rows = screen.rows /\ IsScreen(s)
    BY <1>3 DEF DrawnOK, ScreenOK, IsScreen
  <1> HIDE DEF s
  <1>8. DrawnOK(s, DOMAIN tasks, Me)
    BY <1>3, <1>6, <1>7 DEF DrawnOK, ScreenOK
  <1>9. /\ IsRun(waiting') /\ waiting'.on = b[1] /\ waiting'.arg = b[2] /\ waiting'.from = s
        /\ waiting'.next = Blank(None, "Login")
    <2>1. waiting' = NewRun(b[1], b[2], s)
      BY <1>1, <1>2 DEF s
    <2> QED
      BY ONLY <2>1, NewRunOK
  <1>10. ScreenOK(waiting'.next, DOMAIN tasks)
    <2>1. DrawnOK(Blank(None, "Login"), DOMAIN tasks, None)
      BY BlankOK
    <2> QED
      BY <1>9, <2>1 DEF DrawnOK
  <1>11. /\ b[1] = "logIn" => s.page = "Login"
         /\ b[1] \in {"logOut", "topUp"} => s.page # "Login"
         /\ b[1] \in {"block", "unblock"} => s.page = "Users"
         /\ b[1] = "delete" => s.page = "Models"
         /\ b[1] = "adjust" => s.page = "Transactions"
    BY <1>7, ClickedFacts DEF TabInv
  <1>12. ClickOK(waiting', DOMAIN tasks, Me)
    BY <1>8, <1>9, <1>10, <1>11 DEF ClickOK
  <1>13. waiting = None
    BY DEF Click
  <1>14. screen' = s
    BY <1>2 DEF s
  <1> QED
    BY <1>1, <1>7, <1>8, <1>9, <1>11, <1>12, <1>13, <1>14

\* The screen, the run and the waiting click stay of the account logged in.
LEMMA TabStep ==
  ASSUME TabInv, [DashboardNext]_dashboardVars
  PROVE  TabOK'
  <1> DEFINE T == DOMAIN tasks
  <1>1. /\ DrawnOK(screen, T, Me) /\ ClickOK(run, T, Me)
        /\ waiting # None => ClickOK(waiting, T, Me)
    BY DEF TabInv, TabOK
  <1>2. T \subseteq T'
    BY ServerStep DEF Grow
  <1> SUFFICES /\ DrawnOK(screen', T, Me') /\ ClickOK(run', T, Me')
               /\ waiting' # None => ClickOK(waiting', T, Me')
    BY <1>2, DrawnKept, ClickKept DEF TabOK
  <1>3. CASE UNCHANGED dashboardVars
    BY <1>1, <1>3 DEF dashboardVars, Me
  <1>4. CASE Click
    <2>1. UNCHANGED <<run, state>>
      BY <1>4 DEF Click
    <2> QED
      BY <1>1, <1>4, <2>1, Clicked DEF Me
  <1>5. CASE Begin
    BY <1>1, <1>5 DEF Begin, Me
  <1>6. CASE Reload
    <2>1. screen' = Blank(None, "Login") /\ run' = NoRun /\ waiting' = None /\ Me' = None
      BY <1>6 DEF Reload, NewSession, Me
    <2>2. DrawnOK(Blank(None, "Login"), T, None)
      BY BlankOK
    <2> QED
      BY <2>1, <2>2, NoRunOK
  <1>7. CASE LogIn /\ Me' # Me
    <2>1. /\ screen.who = None /\ (waiting # None => waiting.from.who = None)
          /\ screen' = Blank(None, "Login") /\ run' = NewRun("nothing", None, screen)
          /\ waiting' = waiting
      BY <1>7, LogsIn
    <2>2. DrawnOK(Blank(None, "Login"), T, Me')
      BY BlankOK
    <2>3. DrawnOK(screen, T, Me')
      BY <1>1, <2>1, DrawnKept
    <2>4. ClickOK(run', T, Me')
      BY <2>1, <2>3, RerunOK
    <2>5. waiting # None => ClickOK(waiting, T, Me')
      BY <1>1, <2>1, ClickKept
    <2> QED
      BY <2>1, <2>2, <2>4, <2>5
  <1>8. CASE Script /\ ~(LogIn /\ Me' # Me)
    <2>1. Me' \in {Me, None}
      BY <1>8, StateStep
    <2>2. /\ DrawnOK(screen, T, Me') /\ ClickOK(run, T, Me')
          /\ waiting # None => ClickOK(waiting, T, Me')
      BY <1>1, <2>1, DrawnKept, ClickKept
    <2>3. waiting' # None => ClickOK(waiting', T, Me')
      BY <1>8, <2>2, ScriptForms
    <2>4. DrawnOK(screen', T, Me')
      <3>1. CASE screen' = screen
        BY <2>2, <3>1
      <3>2. CASE screen' = Blank(None, "Login")
        BY <3>2, BlankOK
      <3>3. CASE Me # None /\ screen' \in {Blank(Me, "Error"), Blank(Me, "Sidebar")}
        BY <2>1, <3>3, BlankOK
      <3>4. CASE Draw /\ screen' = Drawn(run.next)
        <4>1. pc = "draw"
          BY <3>4 DEF Draw
        <4>2. /\ run.next.who = Me /\ run.next.page # "Login" /\ Me # None
              /\ run.next.page = "Users" => run.next.label \in {"block", "unblock"}
          BY <4>1 DEF TabInv, LoadedOK, PlaceOK
        <4>3. ScreenOK(run.next, T)
          BY <1>1 DEF ClickOK
        <4>4. DrawnOK(Drawn(run.next), T, Me')
          BY <1>1, <2>1, <4>2, <4>3, DrawnAsLoaded DEF DrawnOK
        <4> QED
          BY <3>4, <4>4
      <3> QED
        BY <1>8, <3>1, <3>2, <3>3, <3>4, ScriptForms
    <2>5. ClickOK(run', T, Me')
      <3>1. CASE run' \in {run, NoRun, NewRun("nothing", None, screen)}
        BY <2>2, <3>1, NoRunOK, RerunOK
      <3>2. CASE \E row : run' = [run EXCEPT !.row = row]
        <4>1. PICK row : run' = [run EXCEPT !.row = row]
          BY <3>2
        <4>2. ClickOK(run, T, Me')
          BY <2>2
        <4> QED
          BY ONLY <4>1, <4>2, RunWritten
      <3>3. CASE LoadPage /\ pc' \in {"detail", "draw"}
        <4>1. run' = [run EXCEPT !.next = run'.next] /\ ScreenOK(run'.next, T)
          BY <3>3, PageLoaded
        <4>2. ClickOK(run, T, Me')
          BY <2>2
        <4> QED
          BY ONLY <4>1, <4>2, RunWritten
      <3>4. CASE LoadDetail /\ pc' = "draw"
        <4>1. run' = [run EXCEPT !.next = run'.next] /\ ScreenOK(run'.next, T)
          BY <3>4, DetailLoaded
        <4>2. ClickOK(run, T, Me')
          BY <2>2
        <4> QED
          BY ONLY <4>1, <4>2, RunWritten
      <3> QED
        BY <1>8, <3>1, <3>2, <3>3, <3>4, ScriptForms
    <2> QED
      BY <2>3, <2>4, <2>5
  <1>9. CASE Elsewhere
    BY <1>1, <1>9, ElsewhereLeaves DEF Me
  <1> QED
    BY <1>3, <1>4, <1>5, <1>6, <1>7, <1>8, <1>9 DEF DashboardNext

-----------------------------------------------------------------------------
(* Where the script is, after every step.                                  *)

LEMMA PlaceStep ==
  ASSUME TabInv, [DashboardNext]_dashboardVars
  PROVE  PlaceOK'
  <1> DEFINE Places == {"idle", "start", "sidebar", "logOut", "load", "detail", "draw", "act",
                        "confirm", "wait"}
  <1>1. PlaceOK /\ ServerOK
    BY DEF TabInv
  <1>2. CASE UNCHANGED dashboardVars
    BY <1>1, <1>2 DEF PlaceOK, dashboardVars, server, Me
  <1>3. CASE Click
    BY <1>1, <1>3 DEF PlaceOK, Click, server, Me
  <1>4. CASE pc' \in {"idle", "start"}
    BY <1>4 DEF PlaceOK
  <1>5. CASE Elsewhere
    <2>1. UNCHANGED <<state, pc, run, payments>>
      BY <1>5, ElsewhereLeaves
    <2>2. DOMAIN tasks \subseteq DOMAIN tasks'
      BY ServerStep DEF Grow
    <2> QED
      BY <1>1, <2>1, <2>2 DEF PlaceOK, Me
  <1>6. CASE LoadUser \/ LoadPage \/ LoadDetail \/ Draw
    <2>1. Me' = Me /\ Me # None
      <3>1. pc # "logOut" /\ Me # None
        BY <1>1, <1>6 DEF LoadUser, LoadPage, LoadDetail, Draw, PlaceOK
      <3>2. pc' # "start"
        BY <1>6 DEF LoadUser, LoadPage, LoadDetail, Draw, StopWith, Stop
      <3>3. ~Reload /\ ~LogOut /\ ~LogIn
        BY <3>1, <3>2 DEF Reload, LogOut, LogIn
      <3> QED
        BY <3>1, <3>3, StateStep
    <2>2. pc' \in {"idle", "sidebar", "detail", "draw", "act"}
      BY <1>6 DEF LoadUser, LoadPage, LoadDetail, Draw, StopWith, Stop
    <2> QED
      BY <2>1, <2>2 DEF PlaceOK
  <1>7. CASE Sidebar /\ pc' \notin {"idle", "start"}
    <2>1. state' = state /\ Me # None
      BY <1>1, <1>7 DEF Sidebar, Rerun, PlaceOK
    <2>2. CASE pc' = "load"
      BY <2>1, <2>2 DEF PlaceOK, Me
    <2>3. CASE pc' = "logOut"
      <3>1. run.on = "logOut" /\ run' = [run EXCEPT !.row = 1]
        BY <1>7, <2>3 DEF Sidebar, Rerun
      <3>2. IsRun(run)
        BY DEF TabInv, TabOK, ClickOK
      <3>3. run'.on = "logOut" /\ run'.row = 1
        BY <3>1, <3>2 DEF IsRun
      <3>4. \A i \in 1..(run'.row - 1) : state'[LogOutKeys[i]] = None
        BY <3>3
      <3> QED
        BY <2>3, <3>3, <3>4 DEF PlaceOK
    <2> QED
      BY <1>7, <2>2, <2>3 DEF Sidebar, Rerun
  <1>8. CASE LogOut /\ pc' # "start"
    <2>1. /\ pc = "logOut" /\ pc' = "logOut" /\ ~(run.row > Len(LogOutKeys))
          /\ state' = [state EXCEPT ![LogOutKeys[run.row]] = None]
          /\ run' = [run EXCEPT !.row = @ + 1]
      BY <1>8 DEF LogOut, Rerun
    <2>2. /\ run.on = "logOut" /\ run.row \in 1..5
          /\ \A i \in 1..(run.row - 1) : state[LogOutKeys[i]] = None
      BY <1>1, <2>1 DEF PlaceOK
    <2>3. Len(LogOutKeys) = 4 /\ LogOutKeys[1] = "token" /\ LogOutKeys[2] = "result"
          /\ LogOutKeys[3] = "detail" /\ LogOutKeys[4] = "model"
      BY DEF LogOutKeys
    <2>4. run.row \in 1..4
      BY <2>1, <2>2, <2>3
    <2>5. IsRun(run)
      BY DEF TabInv, TabOK, ClickOK
    <2>6. run'.on = "logOut" /\ run'.row = run.row + 1
      BY <2>1, <2>2, <2>5 DEF IsRun
    <2>7. DOMAIN state = {"token", "result", "detail", "model", "page", "messages"}
      BY DEF TabInv, StateOK, KeepsOK
    <2>8. LogOutKeys[run.row] \in DOMAIN state
      BY <2>3, <2>4, <2>7
    <2>9. ASSUME NEW i \in 1..run.row
          PROVE  state'[LogOutKeys[i]] = None
      <3>1. LogOutKeys[i] \in DOMAIN state
        BY <2>3, <2>4, <2>7
      <3>2. CASE i = run.row
        BY <2>1, <2>8, <3>2
      <3>3. CASE i \in 1..(run.row - 1)
        BY <2>1, <2>2, <3>1, <3>3
      <3> QED
        BY <2>4, <3>2, <3>3
    <2>10. run'.row \in 1..5 /\ run'.row - 1 = run.row
      BY <2>4, <2>6
    <2> QED
      BY <2>1, <2>6, <2>9, <2>10 DEF PlaceOK
  <1>9. CASE CreatePayment /\ pc' # "idle"
    <2>1. /\ payments' = Append(payments, [owner |-> Me, status |-> "pending"])
          /\ pc' = "confirm" /\ run' = [run EXCEPT !.row = Len(payments')]
          /\ state' = state /\ Authorized
      BY <1>9 DEF CreatePayment, NoAnswer, Stop, Sends
    <2>2. Me \in Accounts /\ Me # None
      BY <1>1, <2>1, Registration
    <2>3. run'.row = Len(payments')
      BY <2>1 DEF TabInv, TabOK, ClickOK, IsRun
    <2>4. /\ Len(payments') = Len(payments) + 1 /\ Len(payments') \in DOMAIN payments'
          /\ payments'[Len(payments')] = [owner |-> Me, status |-> "pending"]
      <3>1. payments \in Seq([owner: Accounts, status: {"pending", "succeeded"}])
        BY <1>1 DEF ServerOK
      <3>2. [owner |-> Me, status |-> "pending"] \in [owner: Accounts, status: {"pending", "succeeded"}]
        BY <2>2
      <3> QED
        BY <2>1, <3>1, <3>2, Added
    <2> QED
      BY <2>1, <2>2, <2>3, <2>4 DEF PlaceOK, Me
  <1>10. CASE CreatePrediction /\ pc' # "idle"
    <2>1. /\ tasks' = Append(tasks, [owner |-> Me, pending |-> TRUE])
          /\ pc' = "wait" /\ run' = [run EXCEPT !.row = Len(tasks')]
          /\ state' = state /\ Authorized
      BY <1>10 DEF CreatePrediction, NoAnswer, Stop, Sends
    <2>2. Me \in Accounts /\ Me # None
      BY <1>1, <2>1, Registration
    <2>3. run'.row = Len(tasks')
      BY <2>1 DEF TabInv, TabOK, ClickOK, IsRun
    <2>4. Len(tasks') \in DOMAIN tasks'
      <3>1. tasks \in Seq([owner: Accounts, pending: BOOLEAN])
        BY <1>1 DEF ServerOK
      <3>2. [owner |-> Me, pending |-> TRUE] \in [owner: Accounts, pending: BOOLEAN]
        BY <2>2
      <3> QED
        BY <2>1, <3>1, <3>2, Added
    <2> QED
      BY <2>1, <2>2, <2>3, <2>4 DEF PlaceOK, Me
  <1>11. CASE Begin \/ Reload
    <2>1. pc' = "start"
      BY <1>11 DEF Begin, Reload
    <2> QED
      BY <1>4, <2>1
  <1>12. CASE LogIn \/ Refused \/ AwaitResult \/ ShowPrediction \/ UseModel \/ ConfirmPayment
    <2>1. pc' \in {"idle", "start"}
      BY <1>12 DEF LogIn, Refused, AwaitResult, ShowPrediction, UseModel, ConfirmPayment, NoAnswer,
         Stop, Rerun
    <2> QED
      BY <1>4, <2>1
  <1>13. CASE RedeemCode \/ UploadModel \/ UpdateCodes \/ UpdateStatus \/ DeleteModel \/ AdjustBalance
    <2>1. pc' \in {"idle", "start"}
      BY <1>13 DEF RedeemCode, UploadModel, UpdateCodes, UpdateStatus, DeleteModel, AdjustBalance,
         Thank, NoAnswer, Stop, Rerun
    <2> QED
      BY <1>4, <2>1
  <1> QED
    BY <1>2, <1>3, <1>4, <1>5, <1>6, <1>7, <1>8, <1>9, <1>10, <1>11, <1>12, <1>13
       DEF DashboardNext, Script

-----------------------------------------------------------------------------
(* The page under way, after every step.                                   *)

\* LoadedOK is about a screen, a run that has clicked and the tables.
LEMMA LoadedKept ==
  ASSUME TabInv, [DashboardNext]_dashboardVars, run' = run, Me' = Me,
         pc \in {"detail", "draw", "act"},
         pc' \in {pc, "act"}, pc' = "act" /\ pc # "act" => pc = "draw",
         pc' = "act" => Fires(run.next)'
  PROVE  LoadedOK'
  <1> DEFINE s == run.next
  <1>1. /\ Range(accounts) \subseteq Range(accounts')
        /\ {m \in DOMAIN models : models[m].owner = Me} \subseteq
               {m \in DOMAIN models' : models'[m].owner = Me'}
    BY ServerStep DEF Grow
  <1>2. /\ s.who = Me /\ s.page # "Login"
        /\ s.page = "MyModels" =>
               Range(s.options) \subseteq {m \in DOMAIN models : models[m].owner = Me}
        /\ s.page = "Users" => s.options # <<>> /\ Range(s.options) \subseteq Range(accounts)
        /\ ChosenOK(s, run.from)
    BY DEF TabInv, LoadedOK
  <1>3. pc \in {"draw", "act"} /\ s.page = "Users" => s.label \in {"block", "unblock"}
    BY DEF TabInv, LoadedOK
  <1>4. s' = s
    OBVIOUS
  <1> HIDE DEF s
  <1>5. /\ s'.page = "MyModels" =>
               Range(s'.options) \subseteq {m \in DOMAIN models' : models'[m].owner = Me'}
        /\ s'.page = "Users" => s'.options # <<>> /\ Range(s'.options) \subseteq Range(accounts')
    BY <1>1, <1>2, <1>4
  <1>6. s' = run'.next
    BY DEF s
  <1> QED
    BY <1>2, <1>3, <1>4, <1>5, <1>6 DEF LoadedOK

\* What a run has loaded stays true until the run uses it.
LEMMA LoadedStep ==
  ASSUME TabInv, [DashboardNext]_dashboardVars
  PROVE  LoadedOK'
  <1>1. CASE pc' \notin {"detail", "draw", "act"}
    BY <1>1 DEF LoadedOK
  <1>2. CASE UNCHANGED <<run, state, pc>> /\ pc \in {"detail", "draw", "act"}
    <2>1. pc' = "act" => Fires(run.next)'
      <3>1. pc = "act" => Fires(run.next)
        BY DEF TabInv, LoadedOK
      <3>2. pc = "act" => <<run'.on, run'.arg>> \in PageButtons(run.next)'
        BY <1>2, <3>1 DEF Fires, PageButtons
      <3> QED
        BY <1>2, <3>2 DEF Fires
    <2> QED
      BY <1>2, <2>1, LoadedKept DEF Me
  <1>3. CASE LoadPage /\ pc' \in {"detail", "draw"}
    <2> DEFINE s == run'.next
    <2>1. /\ run' = [run EXCEPT !.next = s] /\ s.who = Me /\ s.page # "Login"
          /\ s.options = Options(s.page) /\ s.choice = Choice(s.page, s.options)
          /\ pc' = IF s.page = "Users" THEN "detail" ELSE "draw"
          /\ Authorized
      BY <1>3, PageLoaded
    <2>2. UNCHANGED <<accounts, models, state>>
      BY <1>3 DEF LoadPage, server
    <2>3. accounts # <<>>
      BY <2>1, Registration DEF TabInv
    <2>4. run'.from = run.from
      <3>1. ClickOK(run, DOMAIN tasks, Me) /\ ScreenOK(s, DOMAIN tasks)
        BY <1>3, PageLoaded DEF TabInv, TabOK
      <3>2. run' = [run EXCEPT !.next = s]
        BY <2>1
      <3> HIDE DEF s
      <3> QED
        BY ONLY <3>1, <3>2, RunWritten
    <2> HIDE DEF s
    <2>5. /\ s.page = "Users" => s.options = accounts
          /\ s.page = "MyModels" =>
                 Range(s.options) \subseteq {m \in DOMAIN models : models[m].owner = Me}
      BY <2>1, OptionsOK DEF TabInv
    <2>6. ChosenOK(s, run.from)
      BY <2>1, ChoiceOK DEF ChosenOK
    <2>7. Me' = Me
      BY <2>2 DEF Me
    <2>8. /\ s.page = "MyModels" =>
                 Range(s.options) \subseteq {m \in DOMAIN models' : models'[m].owner = Me'}
          /\ s.page = "Users" => s.options # <<>> /\ Range(s.options) \subseteq Range(accounts')
      BY <2>2, <2>3, <2>5, <2>7
    <2>9. s = run'.next
      BY DEF s
    <2> QED
      BY <1>3, <2>1, <2>4, <2>6, <2>7, <2>8, <2>9 DEF LoadedOK
  <1>4. CASE LoadDetail /\ pc' = "draw"
    <2> DEFINE s == run'.next
    <2>1. /\ run' = [run EXCEPT !.next = s] /\ ScreenOK(s, DOMAIN tasks)
          /\ s.who = run.next.who /\ s.page = run.next.page /\ s.options = run.next.options
          /\ s.choice = run.next.choice /\ s.label \in {"block", "unblock"}
      BY <1>4, DetailLoaded
    <2>2. UNCHANGED <<accounts, models, state>> /\ pc = "detail"
      BY <1>4 DEF LoadDetail, server
    <2>3. run'.from = run.from
      <3>1. ClickOK(run, DOMAIN tasks, Me)
        BY DEF TabInv, TabOK
      <3>2. run' = [run EXCEPT !.next = s] /\ ScreenOK(s, DOMAIN tasks)
        BY <2>1
      <3> HIDE DEF s
      <3> QED
        BY ONLY <3>1, <3>2, RunWritten
    <2>4. s = run'.next
      OBVIOUS
    <2> HIDE DEF s
    <2>5. /\ s.who = Me /\ s.page # "Login"
          /\ s.page = "MyModels" =>
                 Range(s.options) \subseteq {m \in DOMAIN models : models[m].owner = Me}
          /\ s.page = "Users" => s.options # <<>> /\ Range(s.options) \subseteq Range(accounts)
          /\ ChosenOK(s, run.from)
      BY <2>1, <2>2 DEF TabInv, LoadedOK, ChosenOK
    <2>6. Me' = Me
      BY <2>2 DEF Me
    <2>7. {m \in DOMAIN models : models[m].owner = Me} = {m \in DOMAIN models : models[m].owner = Me}'
      BY <2>2, <2>6
    <2> QED
      BY <1>4, <2>1, <2>2, <2>3, <2>4, <2>5, <2>6, <2>7 DEF LoadedOK
  <1>5. CASE Draw /\ pc' = "act"
    <2>1. pc = "draw" /\ run' = run /\ Fires(run.next)
      BY <1>5 DEF Draw, Stop
    <2>2. state' = [state EXCEPT !.messages = @ \ Messages(run.next.page)]
      BY <1>5 DEF Draw
    <2>3. state'.result = state.result /\ state'.detail = state.detail /\ Me' = Me
      BY <2>2 DEF TabInv, StateOK, KeepsOK, Me
    <2>4. PageButtons(run.next)' = PageButtons(run.next)
      BY <2>1, <2>3 DEF PageButtons
    <2>5. Fires(run.next)'
      BY <2>1, <2>4 DEF Fires
    <2> QED
      BY <1>5, <2>1, <2>3, <2>5, LoadedKept
  <1>6. CASE Click \/ Elsewhere \/ UNCHANGED dashboardVars
    <2>1. UNCHANGED <<run, state, pc>>
      BY <1>6 DEF Click, Elsewhere, dashboardVars
    <2> QED
      BY <1>1, <1>2, <2>1
  <1>7. CASE Begin \/ Reload
    <2>1. pc' = "start"
      BY <1>7 DEF Begin, Reload
    <2> QED
      BY <1>1, <2>1
  <1>8. CASE LogIn \/ LoadUser \/ Sidebar \/ LogOut \/ Refused \/ CreatePayment \/ ConfirmPayment
             \/ RedeemCode \/ CreatePrediction
    <2>1. pc' \in {"idle", "start", "sidebar", "logOut", "load", "confirm", "wait"}
      BY <1>8 DEF LogIn, LoadUser, Sidebar, LogOut, Refused, CreatePayment, ConfirmPayment,
         RedeemCode, CreatePrediction, StopWith, Thank, NoAnswer, Stop, Rerun
    <2> QED
      BY <1>1, <2>1
  <1>9. CASE AwaitResult \/ ShowPrediction \/ UploadModel \/ UseModel \/ UpdateStatus
             \/ DeleteModel \/ AdjustBalance \/ UpdateCodes
    <2>1. pc' \in {"idle", "start"}
      BY <1>9 DEF AwaitResult, ShowPrediction, UploadModel, UseModel, UpdateStatus,
         DeleteModel, AdjustBalance, UpdateCodes, Thank, NoAnswer, Stop, Rerun
    <2> QED
      BY <1>1, <2>1
  <1>10. LoadPage => pc' \in {"detail", "draw", "idle"}
    BY DEF LoadPage, StopWith, Stop
  <1>11. LoadDetail => pc' \in {"draw", "idle"}
    BY DEF LoadDetail, StopWith, Stop
  <1>12. Draw => pc' \in {"act", "idle"}
    BY DEF Draw, Stop
  <1> QED
    BY <1>1, <1>3, <1>4, <1>5, <1>6, <1>7, <1>8, <1>9, <1>10, <1>11, <1>12 DEF DashboardNext, Script

-----------------------------------------------------------------------------
(* Logging in and out, after every step.                                   *)

\* A run goes on, with the click that started it, or there is none.
LEMMA RunFollows ==
  ASSUME TabInv, Script
  PROVE  run'.on = "nothing" \/ (run'.on = run.on /\ run'.from = run.from)
  <1>1. ClickOK(run, DOMAIN tasks, Me)
    BY DEF TabInv, TabOK
  <1>2. CASE run' \in {run, NoRun, NewRun("nothing", None, screen)}
    BY <1>2, NewRunOK DEF NoRun
  <1>3. CASE \E row : run' = [run EXCEPT !.row = row]
    <2>1. PICK row : run' = [run EXCEPT !.row = row]
      BY <1>3
    <2> QED
      BY ONLY <1>1, <2>1, RunWritten
  <1>4. CASE LoadPage /\ pc' \in {"detail", "draw"}
    <2>1. run' = [run EXCEPT !.next = run'.next] /\ ScreenOK(run'.next, DOMAIN tasks)
      BY <1>4, PageLoaded
    <2> QED
      BY ONLY <1>1, <2>1, RunWritten
  <1>5. CASE LoadDetail /\ pc' = "draw"
    <2>1. run' = [run EXCEPT !.next = run'.next] /\ ScreenOK(run'.next, DOMAIN tasks)
      BY <1>5, DetailLoaded
    <2> QED
      BY ONLY <1>1, <2>1, RunWritten
  <1> QED
    BY <1>2, <1>3, <1>4, <1>5, ScriptForms

\* A step of the script by which nobody logs in or out.
LEMMA SameAccount ==
  ASSUME TabInv, Script, Me' = Me
  PROVE  InAndOut'
  <1>1. waiting' = waiting
    BY ScriptForms
  <1>2. run'.on \in {run.on, "nothing"}
    BY RunFollows
  <1>3. \/ screen'.who = screen.who
        \/ screen'.who = None /\ Me = None
        \/ screen'.who = Me /\ Me # None
    <2>1. CASE screen' = Blank(None, "Login") /\ Me = None
      BY <2>1 DEF Blank
    <2>3. CASE Me # None /\ screen' \in {Blank(Me, "Error"), Blank(Me, "Sidebar")}
      BY <2>3 DEF Blank
    <2>2. CASE Draw /\ screen' = Drawn(run.next)
      <3>1. run.next.who = Me /\ Me # None
        BY <2>2 DEF Draw, TabInv, LoadedOK, PlaceOK
      <3>2. Drawn(run.next).who = run.next.who
        BY DrawnAsLoaded DEF TabInv, TabOK, ClickOK
      <3> QED
        BY <2>2, <3>1, <3>2
    <2> QED
      BY <2>1, <2>2, <2>3, ScriptForms
  <1> QED
    BY <1>1, <1>2, <1>3 DEF TabInv, InAndOut

\* A click to log in is made without an account and one to log out with one.
LEMMA InAndOutStep ==
  ASSUME TabInv, [DashboardNext]_dashboardVars
  PROVE  InAndOut'
  <1>1. InAndOut /\ DrawnOK(screen, DOMAIN tasks, Me)
        /\ (waiting # None => ClickOK(waiting, DOMAIN tasks, Me))
    BY DEF TabInv, TabOK
  <1>2. screen.who = None <=> screen.page = "Login"
    BY <1>1 DEF DrawnOK
  <1>3. CASE Click
    <2>1. UNCHANGED <<run, state>>
      BY <1>3 DEF Click
    <2>2. /\ waiting'.on = "logIn" => screen.page = "Login"
          /\ waiting'.on = "logOut" => screen.page # "Login"
          /\ waiting'.from.who = screen.who /\ screen'.who = screen.who /\ waiting = None
      BY <1>3, Clicked
    <2> QED
      BY <1>1, <1>2, <2>1, <2>2 DEF InAndOut, Me
  <1>4. CASE Begin
    BY <1>1, <1>4 DEF Begin, InAndOut, Me
  <1>5. CASE Reload
    <2>1. run'.on = "nothing" /\ waiting' = None
      BY <1>5, NewRunOK DEF Reload, NoRun
    <2> QED
      BY <2>1 DEF InAndOut
  <1>6. CASE Script /\ Me' = Me
    BY <1>6, SameAccount
  <1>7. CASE LogIn /\ Me' # Me
    <2>1. /\ waiting # None => waiting.from.who = None
          /\ run' = NewRun("nothing", None, screen) /\ waiting' = waiting
      BY <1>7, LogsIn
    <2>2. run'.on = "nothing"
      BY <2>1, NewRunOK
    <2>3. Me' # None
      BY <1>7, StateStep, Constants DEF LogIn, Reload
    <2>4. waiting # None => waiting.on # "logOut"
      BY <1>1, <2>1 DEF ClickOK, DrawnOK
    <2> QED
      BY <2>1, <2>2, <2>3, <2>4 DEF InAndOut
  <1>8. CASE LogOut /\ Me' # Me
    <2>1. Me' = None /\ Me # None
      <3>1. pc = "logOut"
        BY <1>8 DEF LogOut
      <3> QED
        BY <1>8, <3>1, StateStep DEF LogIn
    <2>2. run.on = "logOut" /\ waiting' = waiting
      BY <1>8 DEF LogOut, TabInv, PlaceOK, others
    <2>3. run'.on \in {"logOut", "nothing"}
      <3>1. run' = NewRun("nothing", None, screen) \/ \E row : run' = [run EXCEPT !.row = row]
        BY <1>8 DEF LogOut, Rerun
      <3>2. ClickOK(run, DOMAIN tasks, Me)
        BY DEF TabInv, TabOK
      <3>3. ASSUME NEW row, run' = [run EXCEPT !.row = row]
            PROVE  run'.on = run.on
        BY ONLY <3>2, <3>3, RunWritten
      <3> QED
        BY <2>2, <3>1, <3>3, NewRunOK
    <2>4. waiting # None => waiting.on # "logIn"
      BY <1>1, <2>1, <2>2 DEF InAndOut
    <2> QED
      BY <2>1, <2>2, <2>3, <2>4 DEF InAndOut
  <1>9. CASE Elsewhere \/ UNCHANGED dashboardVars
    <2>1. UNCHANGED <<state, run, waiting, screen>>
      BY <1>9 DEF Elsewhere, dashboardVars
    <2> QED
      BY <1>1, <2>1 DEF InAndOut, Me
  <1> QED
    BY <1>3, <1>4, <1>5, <1>6, <1>7, <1>8, <1>9, StateStep DEF DashboardNext

-----------------------------------------------------------------------------
(* The tab.                                                                *)

LEMMA TabInit == DashboardInit => TabInv
  <1> SUFFICES ASSUME DashboardInit
               PROVE  TabInv
    OBVIOUS
  <1>1. ServerOK
    <2>2. Registered \in Seq(Accounts) /\ Range(Registered) \subseteq Accounts
      BY DashboardAssumption, Elements DEF DashboardAssumption
    <2> DEFINE Tasks(E) == [owner: E, pending: BOOLEAN]
               Models(E) == [owner: E, live: BOOLEAN]
               Codes(E) == [active: BOOLEAN, by: SUBSET E]
    <2>3. /\ Tasks(Range(Registered)) \subseteq Tasks(Accounts)
          /\ Models(Range(Registered)) \subseteq Models(Accounts)
          /\ Codes(Range(Registered)) \subseteq Codes(Accounts)
      BY <2>2
    <2>4. /\ Earlier.tasks \in Seq(Tasks(Range(Registered)))
          /\ Earlier.models \in Seq(Models(Range(Registered)))
          /\ Earlier.codes \in Seq(Codes(Range(Registered)))
      BY DashboardAssumption DEF DashboardAssumption
    <2>5. /\ Earlier.tasks \in Seq(Tasks(Accounts))
          /\ Earlier.models \in Seq(Models(Accounts))
          /\ Earlier.codes \in Seq(Codes(Accounts))
      <3> HIDE DEF Tasks, Models, Codes
      <3> QED
        BY ONLY <2>3, <2>4, SeqOfMore
    <2>6. /\ Earlier.tasks \in Seq([owner: Accounts, pending: BOOLEAN])
          /\ Earlier.models \in Seq([owner: Accounts, live: BOOLEAN])
          /\ Earlier.codes \in Seq([active: BOOLEAN, by: SUBSET Accounts])
      BY ONLY <2>5
    <2>7. payments \in Seq([owner: Accounts, status: {"pending", "succeeded"}])
      BY DEF DashboardInit
    <2>8. adjusted \in [Accounts -> Nat] /\ topUps \in [Accounts -> Nat] /\ thanks \in [Accounts -> Nat]
      BY DEF DashboardInit
    <2> QED
      BY <2>2, <2>6, <2>7, <2>8 DEF DashboardInit, ServerOK
  <1>2. state = NewSession /\ Me = None
    BY DEF DashboardInit, NewSession, Me
  <1>3. StateOK
    BY <1>2, Constants DEF StateOK, KeepsOK, NewSession
  <1>4. screen = Blank(None, "Login") /\ waiting = None /\ pc = "idle" /\ run = NoRun
    BY DEF DashboardInit
  <1>5. DrawnOK(screen, DOMAIN tasks, Me) /\ screen.who = None
    BY <1>2, <1>4, BlankOK
  <1>6. TabOK
    BY <1>4, <1>5, NoRunOK DEF TabOK
  <1>7. run.on = "nothing"
    BY <1>4, NewRunOK DEF NoRun
  <1> QED
    BY <1>1, <1>2, <1>3, <1>4, <1>5, <1>6, <1>7 DEF TabInv, PlaceOK, LoadedOK, InAndOut

\* Every step of the tab keeps the invariant.
LEMMA TabNext ==
  ASSUME TabInv, [DashboardNext]_dashboardVars
  PROVE  TabInv'
  <1>1. ServerOK' /\ KeepsOK(state', DOMAIN tasks', DOMAIN models')
    BY ServerStep, StateStep
  <1>2. TabOK' /\ PlaceOK' /\ LoadedOK' /\ InAndOut'
    BY TabStep, PlaceStep, LoadedStep, InAndOutStep
  <1> QED
    BY <1>1, <1>2 DEF TabInv, StateOK

\* What a tab always is, in every state of the dashboard.
THEOREM TabInvariant == DashboardSpec => []TabInv
  <1>1. DashboardInit => TabInv
    BY TabInit
  <1>2. TabInv /\ [DashboardNext]_dashboardVars => TabInv'
    BY TabNext
  <1> QED
    BY <1>1, <1>2, PTL DEF DashboardSpec

\* Every part of the tab has its type; what the tab keeps or shows of
\* predictions and models are rows that exist, and a selectbox shows one of
\* its options.
THEOREM DashboardTypeCorrect == DashboardSpec => []DashboardTypeOK
  <1>1. TabInv => DashboardTypeOK
    <2> SUFFICES ASSUME TabInv
                 PROVE  DashboardTypeOK
      OBVIOUS
    <2>1. Range(accounts) \subseteq Accounts
      BY Elements DEF TabInv, ServerOK
    <2>2. active \subseteq Range(accounts)
          /\ payments \in Seq([owner: Accounts, status: {"pending", "succeeded"}])
      BY DEF TabInv, ServerOK
    <2>3. /\ state.token \in Accounts \cup {None}
          /\ {state.result, state.detail} \subseteq Results
          /\ state.model \in DOMAIN models \cup {None}
          /\ \A r \in DOMAIN Pages : state.page[r] \in Range(Pages[r])
      BY DEF TabInv, StateOK, KeepsOK, Results
    <2>4. \A s \in {screen, run.next} : ScreenOK(s, DOMAIN tasks)
      BY DEF TabInv, TabOK, DrawnOK, ClickOK
    <2> QED
      BY <2>1, <2>2, <2>3, <2>4 DEF DashboardTypeOK, ScreenOK, TabInv, PlaceOK
  <1> QED
    BY <1>1, TabInvariant, PTL

-----------------------------------------------------------------------------
(* A click keeps its word.                                                 *)

\* Which statements of the script touch accounts, balances and models.
LEMMA Touches ==
  ASSUME TabInv, [DashboardNext]_dashboardVars, pc = "act", pc' # "act"
  PROVE  /\ UpdateStatus \/ active' = active
         /\ AdjustBalance \/ adjusted' = adjusted
         /\ DeleteModel \/ UploadModel \/ models' = models
  <1>1. ~Click /\ ~Elsewhere /\ ~UNCHANGED dashboardVars
    BY DEF Click, Elsewhere, dashboardVars
  <1>2. ASSUME UNCHANGED server
        PROVE  active' = active /\ adjusted' = adjusted /\ models' = models
    BY <1>2 DEF server
  <1>3. CASE Begin \/ Reload \/ LogIn \/ LoadUser \/ Sidebar \/ LogOut \/ LoadPage \/ LoadDetail \/ Draw
    BY <1>2, <1>3 DEF Begin, Reload, LogIn, LoadUser, Sidebar, LogOut, LoadPage, LoadDetail, Draw
  <1>4. CASE Refused \/ AwaitResult \/ ShowPrediction \/ UseModel
    BY <1>2, <1>4 DEF Refused, AwaitResult, ShowPrediction, UseModel
  <1>5. CASE CreatePayment \/ ConfirmPayment \/ RedeemCode \/ CreatePrediction \/ UpdateCodes
    BY <1>5 DEF CreatePayment, ConfirmPayment, RedeemCode, CreatePrediction, UpdateCodes
  <1>6. CASE UploadModel \/ UpdateStatus \/ DeleteModel \/ AdjustBalance
    BY <1>6 DEF UploadModel, UpdateStatus, DeleteModel, AdjustBalance
  <1> QED
    BY <1>1, <1>3, <1>4, <1>5, <1>6 DEF DashboardNext, Script

\* A run that acts does what its button says, to the row that was chosen or, when
\* the options have changed since the page was drawn, to the first.
LEMMA KeepsItsWord ==
  ASSUME TabInv, [DashboardNext]_dashboardVars, pc = "act", pc' # "act"
  PROVE  LET hit(x) == x = IF run.from.options = run.next.options
                           THEN run.from.choice ELSE Head(run.next.options) IN
         /\ \A e \in active \ active' : run.on = "block" /\ hit(e)
         /\ \A e \in active' \ active : run.on = "unblock" /\ hit(e)
         /\ \A e \in Accounts : adjusted[e] # adjusted'[e] => run.on = "adjust" /\ hit(e)
         /\ \A m \in DOMAIN models :
                models[m].live /\ ~models'[m].live => run.on = "delete" /\ hit(m)
  <1> DEFINE hit(x) == x = IF run.from.options = run.next.options
                          THEN run.from.choice ELSE Head(run.next.options)
  <1>1. ASSUME run.on \in {"block", "unblock", "delete", "adjust"}
        PROVE  hit(Target)
    <2>1. /\ run.on \in {"block", "unblock"} => run.from.page = "Users"
          /\ run.on = "delete" => run.from.page = "Models"
          /\ run.on = "adjust" => run.from.page = "Transactions"
      BY DEF TabInv, TabOK, ClickOK
    <2>2. /\ run.on \in {"block", "unblock"} => run.next.page = "Users"
          /\ run.on = "delete" => run.next.page = "Models"
          /\ run.on = "adjust" => run.next.page = "Transactions"
          /\ ChosenOK(run.next, run.from)
          /\ run.on \in {"delete", "adjust"} => run.next.options # <<>>
      BY Acting
    <2>3. run.next.page = "Users" => run.next.options # <<>>
      BY DEF TabInv, LoadedOK
    <2> QED
      BY <1>1, <2>1, <2>2, <2>3 DEF Target, ChosenOK
  <1>2. /\ \A e \in active \ active' : run.on = "block" /\ hit(e)
        /\ \A e \in active' \ active : run.on = "unblock" /\ hit(e)
    <2>1. CASE UpdateStatus
      <3>1. run.on \in {"block", "unblock"} /\ pc = "act"
        BY <2>1 DEF UpdateStatus, Sends, Acts
      <3>2. run.next.label = run.on
        BY <3>1, Acting
      <3>3. hit(Target)
        BY <1>1, <3>1
      <3>4. CASE run.on = "block"
        <4>1. active' = active \ {Target}
          BY <2>1, <3>2, <3>4 DEF UpdateStatus
        <4> QED
          BY <3>3, <3>4, <4>1
      <3>5. CASE run.on = "unblock"
        <4>1. active' = active \cup {Target}
          BY <2>1, <3>2, <3>5 DEF UpdateStatus
        <4> QED
          BY <3>3, <3>5, <4>1
      <3> QED
        BY <3>1, <3>4, <3>5
    <2>2. CASE active' = active
      BY <2>2
    <2> QED
      BY <2>1, <2>2, Touches
  <1>3. \A e \in Accounts : adjusted[e] # adjusted'[e] => run.on = "adjust" /\ hit(e)
    <2>1. CASE AdjustBalance
      <3>1. run.on = "adjust" /\ adjusted' = [adjusted EXCEPT ![Target] = @ + 1]
        BY <2>1 DEF AdjustBalance, Sends, Acts
      <3>2. hit(Target)
        BY <1>1, <3>1
      <3>3. \A e \in Accounts : adjusted'[e] = IF e = Target THEN adjusted[e] + 1 ELSE adjusted[e]
        BY <3>1, CountedUp DEF TabInv, ServerOK
      <3> QED
        BY <3>1, <3>2, <3>3
    <2>2. CASE adjusted' = adjusted
      BY <2>2
    <2> QED
      BY <2>1, <2>2, Touches
  <1>4. \A m \in DOMAIN models :
            models[m].live /\ ~models'[m].live => run.on = "delete" /\ hit(m)
    <2>0. ServerOK
      BY DEF TabInv
    <2>1. CASE DeleteModel
      <3>1. run.on = "delete" /\ models' = [models EXCEPT ![Target].live = FALSE] /\ Authorized
        BY <2>1 DEF DeleteModel, Sends, Acts
      <3>2. hit(Target)
        BY <1>1, <3>1
      <3>3. Me \in Accounts
        BY <2>0, <3>1, Registration
      <3>4. \A m \in DOMAIN models : models'[m].live # models[m].live => m = Target
        BY <2>0, <3>1, <3>3, ModelsStep
      <3> QED
        BY <3>1, <3>2, <3>4
    <2>2. CASE UploadModel
      <3>1. models' = Append(models, [owner |-> Me, live |-> TRUE]) /\ Authorized
        BY <2>2 DEF UploadModel, Sends
      <3>2. Me \in Accounts
        BY <2>0, <3>1, Registration
      <3>3. \A m \in DOMAIN models : models'[m].live = models[m].live
        BY <2>0, <3>1, <3>2, ModelsStep
      <3> QED
        BY <3>3
    <2>3. CASE models' = models
      BY <2>3
    <2> QED
      BY <2>1, <2>2, <2>3, Touches
  <1> QED
    BY <1>2, <1>3, <1>4

\* A step of the script does what the button that was clicked says, and to the
\* row that was chosen or, when the list of rows is not that of the page that was
\* clicked, to its first row.
THEOREM ClicksKeepTheirWord == DashboardSpec => ClickKeepsItsWord
  <1>1. TabInv /\ [DashboardNext]_dashboardVars =>
            [pc = "act" /\ pc' # "act" =>
                 LET hit(x) == x = IF run.from.options = run.next.options
                                   THEN run.from.choice ELSE Head(run.next.options) IN
                 /\ \A e \in active \ active' : run.on = "block" /\ hit(e)
                 /\ \A e \in active' \ active : run.on = "unblock" /\ hit(e)
                 /\ \A e \in Accounts : adjusted[e] # adjusted'[e] => run.on = "adjust" /\ hit(e)
                 /\ \A m \in DOMAIN models :
                        models[m].live /\ ~models'[m].live => run.on = "delete" /\ hit(m)]_dashboardVars
    BY KeepsItsWord
  <1> QED
    BY <1>1, TabInvariant, PTL DEF DashboardSpec, ClickKeepsItsWord

-----------------------------------------------------------------------------
(* What the tab keeps is of the account that is logged in.                 *)

Own == /\ \A r \in {state.result, state.detail} \ {None} : tasks[r.task].owner = Me
       /\ state.model # None => models[state.model].owner = Me

\* While nobody logs in or out.
LEMMA OwnKept ==
  ASSUME TabInv, [DashboardNext]_dashboardVars, Own, Me' = Me
  PROVE  Own'
  <1>1. /\ DOMAIN tasks \subseteq DOMAIN tasks'
        /\ \A t \in DOMAIN tasks : tasks'[t].owner = tasks[t].owner
        /\ DOMAIN models \subseteq DOMAIN models'
        /\ \A m \in DOMAIN models : models'[m].owner = models[m].owner
    BY ServerStep DEF Grow
  <1>2. Moves
    BY StateStep
  <1>3. /\ \A r \in {state.result, state.detail} \ {None} : r.task \in DOMAIN tasks
        /\ state.model # None => state.model \in DOMAIN models
    BY DEF TabInv, StateOK, KeepsOK
  <1>4. \A t \in DOMAIN tasks : Seen(t).task = t
    BY DEF Seen
  <1>5. state'.result # None => tasks'[state'.result.task].owner = Me'
    <2>1. CASE state'.result = state.result
      BY <1>1, <1>3, <2>1 DEF Own
    <2>2. CASE \E t \in DOMAIN tasks : tasks[t].owner = Me /\ state'.result = Seen(t)
      BY <1>1, <1>4, <2>2
    <2> QED
      BY <1>2, <2>1, <2>2 DEF Moves
  <1>6. state'.detail # None => tasks'[state'.detail.task].owner = Me'
    <2>1. CASE state'.detail = state.detail
      BY <1>1, <1>3, <2>1 DEF Own
    <2>2. CASE \E t \in DOMAIN tasks : tasks[t].owner = Me /\ state'.detail = Seen(t)
      BY <1>1, <1>4, <2>2
    <2> QED
      BY <1>2, <2>1, <2>2 DEF Moves
  <1>7. state'.model # None => models'[state'.model].owner = Me'
    <2>1. CASE state'.model = state.model
      BY <1>1, <1>3, <2>1 DEF Own
    <2>2. CASE state'.model \in DOMAIN models /\ models[state'.model].owner = Me
      BY <1>1, <2>2
    <2> QED
      BY <1>2, <2>1, <2>2 DEF Moves
  <1> QED
    BY <1>5, <1>6, <1>7 DEF Own

\* When nobody is logged in, nothing is somebody's own.
LEMMA OwnNothing ==
  ASSUME TabInv, Own, Me = None
  PROVE  state.result = None /\ state.detail = None /\ state.model = None
  <1>1. /\ tasks \in Seq([owner: Accounts, pending: BOOLEAN])
        /\ models \in Seq([owner: Accounts, live: BOOLEAN])
    BY DEF TabInv, ServerOK
  <1>2. \A t \in DOMAIN tasks : tasks[t].owner \in Accounts
    <2>1. \A t \in DOMAIN tasks : tasks[t] \in [owner: Accounts, pending: BOOLEAN]
      BY <1>1, Elements
    <2> QED
      BY <2>1
  <1>3. \A m \in DOMAIN models : models[m].owner \in Accounts
    <2>1. \A m \in DOMAIN models : models[m] \in [owner: Accounts, live: BOOLEAN]
      BY <1>1, Elements
    <2> QED
      BY <2>1
  <1>4. /\ \A r \in {state.result, state.detail} \ {None} : r.task \in DOMAIN tasks
        /\ state.model # None => state.model \in DOMAIN models
    BY DEF TabInv, StateOK, KeepsOK
  <1> QED
    BY <1>2, <1>3, <1>4, Constants DEF Own

\* What the tab keeps stays of the account, unless a log-out is cut off.
LEMMA KeptStep ==
  ASSUME TabInv, KeptInv, [DashboardNext]_dashboardVars
  PROVE  KeptInv'
  <1> SUFFICES ASSUME ~cutOff', pc' = "logOut" => Me' # None
               PROVE  Own'
    BY DEF KeptInv, Own
  <1>0. ~cutOff /\ (pc = "logOut" => Me # None) => Own
    BY DEF KeptInv, Own
  <1>1. CASE Reload
    <2>1. state' = NewSession
      BY <1>1 DEF Reload
    <2>2. state'.result = None /\ state'.detail = None /\ state'.model = None
      BY <2>1 DEF NewSession
    <2> QED
      BY <2>2 DEF Own
  <1>2. CASE Begin
    <2>1. ~cutOff /\ pc # "logOut" /\ Me' = Me
      BY <1>2 DEF Begin, Me
    <2> QED
      BY <1>0, <2>1, OwnKept
  <1>3. CASE LogOut
    <2>1. /\ run.row \in 1..5 /\ pc = "logOut"
          /\ \A i \in 1..(run.row - 1) : state[LogOutKeys[i]] = None
      BY <1>3 DEF TabInv, PlaceOK, LogOut
    <2>2. Len(LogOutKeys) = 4 /\ LogOutKeys[1] = "token" /\ LogOutKeys[2] = "result"
          /\ LogOutKeys[3] = "detail" /\ LogOutKeys[4] = "model"
      BY DEF LogOutKeys
    <2>3. CASE run.row = 5
      <3>1. state' = state
        BY <1>3, <2>2, <2>3 DEF LogOut
      <3>2. state["result"] = None /\ state["detail"] = None /\ state["model"] = None
        BY <2>1, <2>2, <2>3
      <3>3. state'.result = None /\ state'.detail = None /\ state'.model = None
        BY <3>1, <3>2
      <3> QED
        BY <3>3 DEF Own
    <2>4. CASE run.row \in 1..4
      <3>1. pc' = "logOut" /\ state' = [state EXCEPT ![LogOutKeys[run.row]] = None]
        BY <1>3, <2>1, <2>2, <2>4 DEF LogOut
      <3>2. CASE run.row = 1
        <4>1. state' = [state EXCEPT !.token = None]
          BY <2>2, <3>1, <3>2
        <4>2. state'.token = None
          BY <4>1, FieldSet DEF TabInv, StateOK
        <4> QED
          BY <3>1, <4>2 DEF Me
      <3>3. CASE run.row # 1
        <4>1. state["token"] = None
          BY <2>1, <2>2, <2>4, <3>3
        <4>2. Me = None
          BY <4>1 DEF Me
        <4>3. Me' = None
          BY <2>1, <4>2, StateStep DEF LogIn
        <4> QED
          BY <3>1, <4>3
      <3> QED
        BY <3>2, <3>3
    <2> QED
      BY <2>1, <2>3, <2>4
  <1>4. CASE LogIn
    <2>1. cutOff' = cutOff /\ pc = "start" /\ Me = None
      BY <1>4 DEF LogIn, others
    <2>2. Own
      BY <1>0, <2>1
    <2>3. state.result = None /\ state.detail = None /\ state.model = None
      BY <2>1, <2>2, OwnNothing
    <2>4. state' = state \/ state' = [state EXCEPT !.token = run.arg]
      BY <1>4, StateWrites
    <2>5. state'.result = None /\ state'.detail = None /\ state'.model = None
      BY <2>3, <2>4 DEF TabInv, StateOK, KeepsOK
    <2> QED
      BY <2>5 DEF Own
  <1>5. CASE Script /\ ~LogIn /\ ~LogOut /\ ~Reload
    <2>1. Me' = Me
      BY <1>5, StateStep
    <2>2. pc # "logOut"
      <3>1. CASE LoadUser \/ Sidebar \/ LoadPage \/ LoadDetail \/ Draw \/ Refused
        BY <3>1 DEF LoadUser, Sidebar, LoadPage, LoadDetail, Draw, Refused
      <3>2. CASE CreatePayment \/ ConfirmPayment \/ RedeemCode \/ CreatePrediction \/ AwaitResult
                 \/ ShowPrediction \/ UploadModel \/ UseModel
        BY <3>2 DEF CreatePayment, ConfirmPayment, RedeemCode, CreatePrediction, AwaitResult,
           ShowPrediction, UploadModel, UseModel, Sends, Acts
      <3>3. CASE UpdateStatus \/ DeleteModel \/ AdjustBalance \/ UpdateCodes
        BY <3>3 DEF UpdateStatus, DeleteModel, AdjustBalance, UpdateCodes, Sends, Acts
      <3> QED
        BY <1>5, <3>1, <3>2, <3>3 DEF Script
    <2>3. cutOff' = cutOff
      <3>1. CASE LoadUser \/ Sidebar \/ LoadPage \/ LoadDetail \/ Draw
        BY <3>1 DEF LoadUser, Sidebar, LoadPage, LoadDetail, Draw, others
      <3>2. CASE Refused \/ CreatePayment \/ ConfirmPayment \/ RedeemCode \/ CreatePrediction
                 \/ AwaitResult \/ ShowPrediction \/ UploadModel \/ UseModel
        BY <3>2 DEF Refused, CreatePayment, ConfirmPayment, RedeemCode, CreatePrediction, AwaitResult,
           ShowPrediction, UploadModel, UseModel, Idle, others
      <3>3. CASE UpdateStatus \/ DeleteModel \/ AdjustBalance \/ UpdateCodes
        BY <3>3 DEF UpdateStatus, DeleteModel, AdjustBalance, UpdateCodes, Idle, others
      <3> QED
        BY <1>5, <3>1, <3>2, <3>3 DEF Script
    <2> QED
      BY <1>0, <2>1, <2>2, <2>3, OwnKept
  <1>6. CASE Click \/ Elsewhere \/ UNCHANGED dashboardVars
    <2>1. UNCHANGED <<cutOff, pc, state>>
      BY <1>6 DEF Click, Elsewhere, dashboardVars
    <2>2. Me' = Me
      BY <2>1 DEF Me
    <2> QED
      BY <1>0, <2>1, <2>2, OwnKept
  <1> QED
    BY <1>1, <1>2, <1>3, <1>4, <1>5, <1>6 DEF DashboardNext

\* What the tab keeps is of the account that is logged in, so that nobody is
\* shown the prediction of the account before, unless a click has cut a
\* log-out off between the keys it removes.
THEOREM KeptAlwaysOwn == DashboardSpec => []KeptIsOwn
  <1>1. DashboardInit => KeptInv
    <2>1. DashboardInit => state.result = None /\ state.detail = None /\ state.model = None
      BY DEF DashboardInit, NewSession
    <2> QED
      BY <2>1 DEF KeptInv
  <1>2. TabInv /\ KeptInv /\ [DashboardNext]_dashboardVars => KeptInv'
    BY KeptStep
  <1>3. KeptInv => KeptIsOwn
    BY DEF KeptInv, KeptIsOwn
  <1> QED
    BY <1>1, <1>2, <1>3, TabInvariant, PTL DEF DashboardSpec

-----------------------------------------------------------------------------
(* Top-ups.                                                                *)

\* Payments are counted.
LEMMA CountOK ==
  ASSUME ServerOK, NEW e, NEW wanted
  PROVE  /\ IsFiniteSet({p \in DOMAIN payments :
                             payments[p].owner = e /\ payments[p].status \in wanted})
         /\ Count(e, wanted) \in Nat
  <1> DEFINE of == {p \in DOMAIN payments :
                        payments[p].owner = e /\ payments[p].status \in wanted}
  <1>1. DOMAIN payments = 1..Len(payments) /\ Len(payments) \in Nat
    BY DEF ServerOK
  <1>2. IsFiniteSet(1..Len(payments))
    BY <1>1, FS_Interval
  <1>3. of \in SUBSET (1..Len(payments))
    BY <1>1
  <1>4. Count(e, wanted) = Cardinality(of)
    BY DEF Count
  <1> HIDE DEF of
  <1>5. IsFiniteSet(of) /\ Cardinality(of) \in Nat
    BY <1>2, <1>3, FS_Subset, FS_CardinalityType
  <1> QED
    BY <1>4, <1>5 DEF of

\* A payment is created: it counts as pending.
LEMMA CreatedCounts ==
  ASSUME ServerOK, Me \in Accounts, NEW e, NEW wanted,
         payments' = Append(payments, [owner |-> Me, status |-> "pending"])
  PROVE  Count(e, wanted)' =
             IF e = Me /\ "pending" \in wanted THEN Count(e, wanted) + 1 ELSE Count(e, wanted)
  <1> DEFINE of == {p \in DOMAIN payments :
                        payments[p].owner = e /\ payments[p].status \in wanted}
             after == {p \in DOMAIN payments' :
                        payments'[p].owner = e /\ payments'[p].status \in wanted}
             n == Len(payments) + 1
             S == [owner: Accounts, status: {"pending", "succeeded"}]
             new == [owner |-> Me, status |-> "pending"]
  <1>1. payments \in Seq(S) /\ new \in S
    BY DEF ServerOK
  <1>2. /\ DOMAIN payments' = DOMAIN payments \cup {n} /\ n \notin DOMAIN payments
        /\ \A p \in DOMAIN payments : payments'[p] = payments[p]
        /\ payments'[n] = new
    <2> HIDE DEF S, new
    <2>1. payments' = Append(payments, new)
      BY DEF new
    <2> QED
      BY <1>1, <2>1, Added
  <1>3. after = IF e = Me /\ "pending" \in wanted THEN of \cup {n} ELSE of
    BY <1>2
  <1>4. n \notin of
    BY <1>2
  <1>5. Count(e, wanted) = Cardinality(of) /\ Count(e, wanted)' = Cardinality(after)
    BY DEF Count
  <1>6. IsFiniteSet(of)
    BY CountOK
  <1> HIDE DEF of, after, n
  <1>7. Cardinality(of \cup {n}) = Cardinality(of) + 1
    BY <1>4, <1>6, FS_AddElement
  <1> QED
    BY <1>3, <1>5, <1>7

\* A payment is confirmed: it counts as succeeded.
LEMMA ConfirmedCounts ==
  ASSUME ServerOK, NEW e, NEW q \in DOMAIN payments, payments[q].owner = Me,
         payments[q].status = "pending",
         payments' = [payments EXCEPT ![q].status = "succeeded"]
  PROVE  /\ Count(e, {"pending", "succeeded"})' = Count(e, {"pending", "succeeded"})
         /\ Count(e, {"succeeded"})' =
                IF e = Me THEN Count(e, {"succeeded"}) + 1 ELSE Count(e, {"succeeded"})
  <1> DEFINE S == [owner: Accounts, status: {"pending", "succeeded"}]
             row == [payments[q] EXCEPT !.status = "succeeded"]
             of(wanted) == {p \in DOMAIN payments :
                                payments[p].owner = e /\ payments[p].status \in wanted}
             after(wanted) == {p \in DOMAIN payments' :
                                payments'[p].owner = e /\ payments'[p].status \in wanted}
             both == {"pending", "succeeded"}
  <1>1. payments \in Seq(S)
    BY DEF ServerOK
  <1>2. payments[q] \in S
    <2> HIDE DEF S
    <2> QED
      BY <1>1, Elements
  <1>3. row \in S /\ row.owner = payments[q].owner /\ row.status = "succeeded"
    BY <1>2
  <1>4. /\ DOMAIN payments' = DOMAIN payments
        /\ \A p \in DOMAIN payments : payments'[p] = IF p = q THEN row ELSE payments[p]
    <2>1. payments' = [payments EXCEPT ![q] = row]
      OBVIOUS
    <2> HIDE DEF S, row
    <2> QED
      BY <1>1, <1>3, <2>1, Replaced
  <1> HIDE DEF row, S
  <1>5. after(both) = of(both)
    BY <1>3, <1>4
  <1>6. after({"succeeded"}) = IF e = Me THEN of({"succeeded"}) \cup {q} ELSE of({"succeeded"})
    BY <1>3, <1>4
  <1>7. q \notin of({"succeeded"})
    OBVIOUS
  <1>8. /\ Count(e, both) = Cardinality(of(both)) /\ Count(e, both)' = Cardinality(after(both))
        /\ Count(e, {"succeeded"}) = Cardinality(of({"succeeded"}))
        /\ Count(e, {"succeeded"})' = Cardinality(after({"succeeded"}))
    BY DEF Count
  <1>9. IsFiniteSet(of({"succeeded"}))
    BY CountOK
  <1> HIDE DEF of, after
  <1>10. Cardinality(of({"succeeded"}) \cup {q}) = Cardinality(of({"succeeded"})) + 1
    BY <1>7, <1>9, FS_AddElement
  <1> QED
    BY <1>5, <1>6, <1>8, <1>10

\* Every step keeps payments and thanks within the clicks on top-up.
LEMMA TopUpsStep ==
  ASSUME TabInv, TopUpsInv, [DashboardNext]_dashboardVars
  PROVE  TopUpsInv'
  <1> DEFINE both == {"pending", "succeeded"}
  <1> SUFFICES ASSUME NEW e \in Accounts
               PROVE  /\ thanks'[e] <= Count(e, {"succeeded"})'
                      /\ Count(e, both)' + Due(e)' <= topUps'[e]
    BY DEF TopUpsInv
  <1>0. ServerOK /\ ServerOK'
    BY ServerStep DEF TabInv
  <1>1. /\ Count(e, {"succeeded"}) \in Nat /\ Count(e, both) \in Nat
        /\ topUps[e] \in Nat /\ thanks[e] \in Nat
    BY <1>0, CountOK DEF ServerOK
  <1>2. /\ thanks[e] <= Count(e, {"succeeded"})
        /\ Count(e, both) + Due(e) <= topUps[e]
    BY DEF TopUpsInv
  <1> DEFINE first == waiting # None /\ waiting.on = "topUp" /\ waiting.from.who = e
             second == run.on = "topUp" /\ pc # "confirm" /\ run.from.who = e
             first2 == waiting' # None /\ waiting'.on = "topUp" /\ waiting'.from.who = e
             second2 == run'.on = "topUp" /\ pc' # "confirm" /\ run'.from.who = e
  <1>3. /\ Due(e) = (IF first THEN 1 ELSE 0) + (IF second THEN 1 ELSE 0)
        /\ Due(e)' = (IF first2 THEN 1 ELSE 0) + (IF second2 THEN 1 ELSE 0)
    BY DEF Due
  <1>4. ASSUME payments' = payments
        PROVE  /\ Count(e, {"succeeded"})' = Count(e, {"succeeded"})
               /\ Count(e, both)' = Count(e, both)
    BY <1>4 DEF Count
  <1>5. CASE UNCHANGED <<payments, thanks, topUps>> /\ (first2 => first) /\ (second2 => second)
    <2> HIDE DEF first, second, first2, second2
    <2> QED
      BY <1>1, <1>2, <1>3, <1>4, <1>5
  <1>6. CASE Click
    <2>1. UNCHANGED <<payments, thanks, run, pc>>
      BY <1>6 DEF Click, server
    <2>2. /\ waiting'.from.who = screen.who /\ waiting = None
          /\ topUps' = IF waiting'.on = "topUp" THEN [topUps EXCEPT ![screen.who] = @ + 1]
                       ELSE topUps
      BY <1>6, Clicked
    <2>3. ~first /\ (second2 <=> second)
      BY <2>1, <2>2
    <2>4. topUps'[e] = IF waiting'.on = "topUp" /\ screen.who = e THEN topUps[e] + 1 ELSE topUps[e]
      BY <1>0, <2>2, CountedUp DEF ServerOK
    <2>5. first2 => waiting'.on = "topUp" /\ screen.who = e
      BY <2>2
    <2>6. topUps'[e] >= topUps[e] + (IF first2 THEN 1 ELSE 0)
      BY <1>1, <2>4, <2>5
    <2>7. topUps'[e] \in Nat
      BY <1>0 DEF ServerOK
    <2> HIDE DEF first, second, first2, second2
    <2> QED
      BY <1>1, <1>2, <1>3, <1>4, <2>1, <2>3, <2>6, <2>7
  <1>7. CASE Begin
    <2>1. UNCHANGED <<payments, thanks, topUps>> /\ ~first2 /\ (second2 => first)
      BY <1>7 DEF Begin, server
    <2> HIDE DEF first, second, first2, second2
    <2> QED
      BY <1>1, <1>2, <1>3, <1>4, <2>1
  <1>8. CASE Reload
    <2>1. UNCHANGED <<payments, thanks, topUps, waiting>> /\ run' = NoRun
      BY <1>8 DEF Reload, server
    <2>2. run'.on = "nothing"
      BY <2>1, NewRunOK DEF NoRun
    <2> QED
      BY <1>5, <2>1, <2>2
  <1>9. CASE Elsewhere \/ UNCHANGED dashboardVars
    <2>1. UNCHANGED <<payments, thanks, topUps, waiting, run, pc>>
      BY <1>9, ElsewhereLeaves DEF dashboardVars, server
    <2> QED
      BY <1>5, <2>1
  <1>10. CASE CreatePayment
    <2>1. /\ pc = "act" /\ run.on = "topUp" /\ Authorized
          /\ payments' = Append(payments, [owner |-> Me, status |-> "pending"])
          /\ UNCHANGED <<thanks, topUps, waiting>>
          /\ pc' = "confirm" \/ run' = NoRun
      BY <1>10 DEF CreatePayment, Sends, Acts, NoAnswer, Stop, Idle, others
    <2>2. Me \in Accounts /\ Me # None
      BY <1>0, <2>1, Registration
    <2>3. run.from.who = Me
      BY <2>1, <2>2 DEF TabInv, TabOK, ClickOK, DrawnOK
    <2>4. /\ Count(e, {"succeeded"})' = Count(e, {"succeeded"})
          /\ Count(e, both)' = IF e = Me THEN Count(e, both) + 1 ELSE Count(e, both)
      BY <1>0, <2>1, <2>2, CreatedCounts
    <2>5. (second <=> e = Me) /\ (first2 <=> first) /\ ~second2
      BY <2>1, <2>3, NewRunOK DEF NoRun
    <2> HIDE DEF first, second, first2, second2
    <2> QED
      BY <1>1, <1>2, <1>3, <2>1, <2>4, <2>5
  <1>11. CASE ConfirmPayment
    <2>1. /\ pc = "confirm" /\ Authorized
          /\ payments' = [payments EXCEPT ![run.row].status = "succeeded"]
          /\ UNCHANGED <<topUps, waiting>>
          /\ thanks' = [thanks EXCEPT ![Me] = @ + 1] \/ thanks' = thanks
          /\ run' = NoRun \/ run' = NewRun("nothing", None, screen)
      BY <1>11 DEF ConfirmPayment, NoAnswer, Stop, Rerun, Idle, others
    <2>2. /\ run.row \in DOMAIN payments /\ payments[run.row].owner = Me
          /\ payments[run.row].status = "pending"
      BY <2>1 DEF TabInv, PlaceOK
    <2>3. /\ Count(e, both)' = Count(e, both)
          /\ Count(e, {"succeeded"})' =
                IF e = Me THEN Count(e, {"succeeded"}) + 1 ELSE Count(e, {"succeeded"})
      BY <1>0, <2>1, <2>2, ConfirmedCounts
    <2>4. thanks'[e] = thanks[e] \/ (e = Me /\ thanks'[e] = thanks[e] + 1)
      BY <1>0, <2>1, CountedUp DEF ServerOK
    <2>5. (first2 <=> first) /\ ~second2
      BY <2>1, NewRunOK DEF NoRun
    <2> HIDE DEF first, second, first2, second2
    <2> QED
      BY <1>1, <1>2, <1>3, <2>1, <2>3, <2>4, <2>5
  <1>12. CASE Script /\ ~CreatePayment /\ ~ConfirmPayment
    <2>1. UNCHANGED <<payments, thanks, topUps>>
      <3>1. CASE LogIn \/ LoadUser \/ Sidebar \/ LogOut \/ LoadPage \/ LoadDetail \/ Draw
        BY <3>1 DEF LogIn, LoadUser, Sidebar, LogOut, LoadPage, LoadDetail, Draw, others, server
      <3>2. CASE Refused \/ RedeemCode \/ CreatePrediction \/ AwaitResult \/ ShowPrediction
        BY <3>2 DEF Refused, RedeemCode, CreatePrediction, AwaitResult, ShowPrediction, Thank,
           NoAnswer, Idle, others, server
      <3>3. CASE UploadModel \/ UseModel \/ UpdateStatus \/ DeleteModel \/ AdjustBalance \/ UpdateCodes
        BY <3>3 DEF UploadModel, UseModel, UpdateStatus, DeleteModel, AdjustBalance, UpdateCodes,
           Thank, NoAnswer, Idle, others, server
      <3> QED
        BY <1>12, <3>1, <3>2, <3>3 DEF Script
    <2>2. pc # "confirm" \/ run'.on = "nothing"
      <3>1. CASE LogIn \/ LoadUser \/ Sidebar \/ LogOut \/ LoadPage \/ LoadDetail \/ Draw
        BY <3>1 DEF LogIn, LoadUser, Sidebar, LogOut, LoadPage, LoadDetail, Draw
      <3>2. CASE RedeemCode \/ CreatePrediction \/ AwaitResult \/ ShowPrediction
        BY <3>2 DEF RedeemCode, CreatePrediction, AwaitResult, ShowPrediction, Sends, Acts
      <3>3. CASE UploadModel \/ UseModel \/ UpdateStatus \/ DeleteModel \/ AdjustBalance \/ UpdateCodes
        BY <3>3 DEF UploadModel, UseModel, UpdateStatus, DeleteModel, AdjustBalance, UpdateCodes,
           Sends, Acts
      <3>4. CASE Refused
        BY <3>4, NewRunOK DEF Refused, NoAnswer, Stop, NoRun
      <3> QED
        BY <1>12, <3>1, <3>2, <3>3, <3>4 DEF Script
    <2>3. waiting' = waiting /\ (run'.on = "nothing" \/ (run'.on = run.on /\ run'.from = run.from))
      BY <1>12, ScriptForms, RunFollows
    <2> QED
      BY <1>5, <2>1, <2>2, <2>3
  <1> QED
    BY <1>6, <1>7, <1>8, <1>9, <1>10, <1>11, <1>12 DEF DashboardNext

\* A top-up is thanked for only if it has succeeded, and a click tops up the
\* account on whose page it was made, once at most: reruns, clicks that cut a
\* run off and lost answers do not repeat it.
THEOREM TopUpsAlwaysAddUp == DashboardSpec => []TopUpsAddUp
  <1>1. DashboardInit => TopUpsInv
    <2> SUFFICES ASSUME DashboardInit, NEW e \in Accounts
                 PROVE  /\ thanks[e] <= Count(e, {"succeeded"})
                        /\ Count(e, {"pending", "succeeded"}) + Due(e) <= topUps[e]
      BY DEF TopUpsInv
    <2>1. payments = <<>> /\ thanks[e] = 0 /\ topUps[e] = 0 /\ waiting = None /\ run = NoRun
      BY DEF DashboardInit
    <2>2. DOMAIN payments = {}
      BY <2>1
    <2>3. \A wanted : Count(e, wanted) = Cardinality({})
      BY <2>2 DEF Count
    <2>4. Cardinality({}) = 0
      BY FS_EmptySet
    <2>5. Due(e) = 0
      BY <2>1, NewRunOK DEF NoRun, Due
    <2> QED
      BY <2>1, <2>3, <2>4, <2>5
  <1>2. TabInv /\ TopUpsInv /\ [DashboardNext]_dashboardVars => TopUpsInv'
    BY TopUpsStep
  <1>3. TabInv /\ TopUpsInv => TopUpsAddUp
    <2> SUFFICES ASSUME TabInv, TopUpsInv, NEW e \in Accounts
                 PROVE  /\ thanks[e] <= Count(e, {"succeeded"})
                        /\ Count(e, {"pending", "succeeded"}) <= topUps[e]
      BY DEF TopUpsAddUp
    <2>1. Count(e, {"pending", "succeeded"}) \in Nat /\ topUps[e] \in Nat
      BY CountOK DEF TabInv, ServerOK
    <2>2. Due(e) \in Nat
      BY DEF Due
    <2>3. /\ thanks[e] <= Count(e, {"succeeded"})
          /\ Count(e, {"pending", "succeeded"}) + Due(e) <= topUps[e]
      BY DEF TopUpsInv
    <2> QED
      BY <2>1, <2>2, <2>3
  <1> QED
    BY <1>1, <1>2, <1>3, TabInvariant, PTL DEF DashboardSpec

=============================================================================

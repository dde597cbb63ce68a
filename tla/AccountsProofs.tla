--------------------------- MODULE AccountsProofs ---------------------------
(***************************************************************************)
(* Theorems about Accounts, for any addresses, sessions and settings: its  *)
(* type invariant with the foreign key of roles, the role that is flushed  *)
(* early, what may unblock an account or block the last administrator, and *)
(* that Accounts implements Directory.  All of them rest on what a session *)
(* may still believe of the rows it read a while ago: they exist, and who  *)
(* was an administrator is one.                                            *)
(***************************************************************************)
EXTENDS Accounts, TLAPS

-----------------------------------------------------------------------------

\* The two transactions of a start-up.
LEMMA Jobs ==
  /\ DOMAIN StartUpJobs = {1, 2} /\ Len(StartUpJobs) = 2
  /\ StartUpJobs[1] = [role |-> "admin", emails |-> <<LocalAdmin>>]
  /\ StartUpJobs[2] = [role |-> "user", emails |-> DemoUsers]
  /\ Len(DemoUsers) \in Nat \ {0}
  /\ \A j \in {1, 2} :
         /\ StartUpJobs[j].role \in RoleNames
         /\ StartUpJobs[j].emails \in Seq(Emails)
         /\ Len(StartUpJobs[j].emails) \in 1..Len(DemoUsers)
         /\ Range(StartUpJobs[j].emails) \subseteq Emails
  /\ Range(StartUpJobs[1].emails) = {LocalAdmin}
  <1>1. DemoUsers \in Seq(Emails) /\ DemoUsers # <<>> /\ LocalAdmin \in Emails
    BY AccountsAssumption
  <1>2. Len(DemoUsers) \in Nat \ {0}
    BY <1>1
  <1>3. /\ DOMAIN StartUpJobs = {1, 2} /\ Len(StartUpJobs) = 2
        /\ StartUpJobs[1] = [role |-> "admin", emails |-> <<LocalAdmin>>]
        /\ StartUpJobs[2] = [role |-> "user", emails |-> DemoUsers]
    BY DEF StartUpJobs
  <1>4. \A x \in Seq(Emails) : Range(x) \subseteq Emails
    BY DEF Range
  <1>5. /\ <<LocalAdmin>> \in Seq(Emails) /\ Len(<<LocalAdmin>>) = 1
        /\ Range(<<LocalAdmin>>) = {LocalAdmin}
    BY <1>1 DEF Range
  <1>6. \A j \in {1, 2} :
            /\ StartUpJobs[j].role \in RoleNames
            /\ StartUpJobs[j].emails \in Seq(Emails)
            /\ Len(StartUpJobs[j].emails) \in 1..Len(DemoUsers)
    <2> TAKE j \in {1, 2}
    <2>1. CASE j = 1
      <3>1. StartUpJobs[j].role = "admin" /\ StartUpJobs[j].emails = <<LocalAdmin>>
        BY <1>3, <2>1
      <3> QED
        BY <1>2, <1>5, <3>1 DEF RoleNames
    <2>2. CASE j = 2
      <3>1. StartUpJobs[j].role = "user" /\ StartUpJobs[j].emails = DemoUsers
        BY <1>3, <2>2
      <3> QED
        BY <1>1, <1>2, <3>1 DEF RoleNames
    <2> QED
      BY <2>1, <2>2
  <1>7. \A j \in {1, 2} : Range(StartUpJobs[j].emails) \subseteq Emails
    BY <1>4, <1>6
  <1>8. Range(StartUpJobs[1].emails) = {LocalAdmin}
    BY <1>3, <1>5
  <1> QED
    BY <1>2, <1>3, <1>6, <1>7, <1>8

\* What a flush leaves in a row, column by column.
LEMMA WrittenRow ==
  ASSUME NEW row \in Row, NEW base \in Row, NEW new \in Row,
         NEW w, w = WriteColumns(row, base, new)
  PROVE  /\ w \in Row
         /\ w.role = IF new.role # base.role THEN new.role ELSE row.role
         /\ w.active = IF new.active # base.active THEN new.active ELSE row.active
         /\ w.named = IF new.named # base.named THEN new.named ELSE row.named
  <1>1. DOMAIN row = {"role", "active", "named"}
    BY DEF Row
  <1>2. w = [c \in {"role", "active", "named"} |->
                IF new[c] # base[c] THEN new[c] ELSE row[c]]
    BY <1>1 DEF WriteColumns
  <1>3. /\ w.role = IF new.role # base.role THEN new.role ELSE row.role
        /\ w.active = IF new.active # base.active THEN new.active ELSE row.active
        /\ w.named = IF new.named # base.named THEN new.named ELSE row.named
    BY <1>2
  <1>4. /\ w.role \in RoleNames /\ w.active \in BOOLEAN /\ w.named \in BOOLEAN
    BY <1>3 DEF Row
  <1>5. w \in Row
    BY <1>2, <1>4 DEF Row
  <1> QED
    BY <1>3, <1>5

-----------------------------------------------------------------------------

\* How far session s is, what it was called for, and what it has found out.
SessionStands(s) ==
    /\ pc[s] = "idle" <=> call[s] = NoCall
    /\ pc[s] = "lookup" => call[s].op = "register"
    /\ pc[s] \in {"role", "addrole"} => call[s].op \in {"register", "startup"}
    /\ pc[s] = "load" => call[s].op = "startup"
    /\ pc[s] \in {"role", "addrole", "load"} /\ call[s].op = "startup" =>
           call[s].done < Len(Job(s).emails)
    /\ pc[s] = "target" => call[s].op = "status"
    /\ pc[s] # "idle" =>
           /\ call[s].op = "startup" => LocalAdminEnabled
           /\ call[s].op \in {"register", "startup"} /\ pc[s] \in {"load", "write"} =>
                  RoleOf(s) \in RolesWith(s)
           /\ call[s].op = "profile" => read[s][call[s].email] # NoAccount
           /\ call[s].op = "status" =>
                  /\ Exists(call[s].by) /\ account[call[s].by].role = "admin"
                  /\ pc[s] = "write" =>
                         read[s][call[s].email] # NoAccount /\ ~BlocksSelf(s)

\* Rows are not deleted, and an administrator stays one.
ReadsStand ==
    \A s \in Sessions, e \in Emails :
        read[s][e] # NoAccount =>
            Exists(e) /\ (read[s][e].role = "admin" => account[e].role = "admin")

\* The administrators are the founders and the one of the start-ups.
AdminsAppointed ==
    \A e \in Emails :
        Exists(e) /\ account[e].role = "admin" => e \in Founders \cup {LocalAdmin}

AccountsInv ==
    /\ AccountsTypeOK
    /\ FlushedRoleIsFree
    /\ \A s \in Sessions : SessionStands(s)
    /\ ReadsStand
    /\ AdminsAppointed

\* The initial states satisfy the inductive invariant.
LEMMA AccountsInitInv == AccountsInit => AccountsInv
  <1> SUFFICES ASSUME AccountsInit PROVE AccountsInv
    OBVIOUS
  <1> USE AccountsAssumption DEF AccountsInit
  <1>1. \A e \in Emails : account[e] \in Row \cup {NoAccount}
    BY DEF Row, RoleNames
  <1>2. AccountsTypeOK
    BY <1>1 DEF AccountsTypeOK, Exists, NothingRead, RoleNames
  <1>3. FlushedRoleIsFree
    BY DEF FlushedRoleIsFree
  <1>4. \A s \in Sessions : SessionStands(s)
    BY DEF SessionStands
  <1>5. ReadsStand /\ AdminsAppointed
    BY DEF ReadsStand, AdminsAppointed, NothingRead, Exists
  <1> QED
    BY <1>2, <1>3, <1>4, <1>5 DEF AccountsInv

-----------------------------------------------------------------------------

\* The steps of a session that commit nothing, and those that do.
Writing(s) ==
    CommitUser(s) \/ CommitLocalAccounts(s) \/ SaveProfile(s) \/ SaveStatus(s)

Reading(s) ==
    \/ Begin(s) \/ FindEmail(s) \/ FindRole(s) \/ FlushRole(s) \/ RoleConflict(s)
    \/ DuplicateUser(s) \/ LoadLocalAccount(s) \/ LoadTarget(s) \/ Abort(s)

\* Every step is one of them, and touches no other session.
LEMMA Steps ==
  ASSUME AccountsNext
  PROVE  \E s \in Sessions : Reading(s) \/ Writing(s)
  BY DEF AccountsNext, Continue, Reading, Writing

\* No step touches another session, and one that only reads no row.
LEMMA Frame ==
  ASSUME AccountsTypeOK, NEW s \in Sessions, Reading(s) \/ Writing(s)
  PROVE  /\ \A t \in Sessions \ {s} :
                /\ pc'[t] = pc[t] /\ call'[t] = call[t]
                /\ read'[t] = read[t] /\ newRole'[t] = newRole[t]
         /\ Reading(s) => UNCHANGED <<roles, account>>
  <1> USE DEF AccountsTypeOK, Serve, Goto, Refuse, EndSession
  <1>1. CASE Begin(s)
    BY <1>1 DEF Begin, StartUp, RegisterUser, UpdateMe, UpdateUserStatus
  <1>2. CASE Reading(s) /\ ~Begin(s)
    BY <1>2 DEF Reading, FindEmail, FindRole, FlushRole, RoleConflict,
                DuplicateUser, LoadLocalAccount, LoadTarget, Abort
  <1>3. CASE Writing(s)
    <2>1. \A t \in Sessions \ {s} :
              /\ pc'[t] = pc[t] /\ call'[t] = call[t]
              /\ read'[t] = read[t] /\ newRole'[t] = newRole[t]
      BY <1>3 DEF Writing, CommitUser, CommitLocalAccounts, SaveProfile, SaveStatus
    <2>2. Reading(s) => UNCHANGED <<roles, account>>
      BY <1>1, <1>2
    <2> QED
      BY <2>1, <2>2
  <1> QED
    BY <1>1, <1>2, <1>3

-----------------------------------------------------------------------------

\* The parameters of a call.
LEMMA CallFields ==
  ASSUME NEW c \in Calls
  PROVE  /\ c.op \in {"register", "profile", "status", "startup"}
         /\ c.op # "startup" => c.email \in Emails /\ c.flag \in BOOLEAN
         /\ c.op = "status" => c.by \in Emails
         /\ c.op = "startup" => c.job \in {1, 2} /\ c.done \in 0..Len(DemoUsers)
  BY Jobs DEF Calls

\* A session that is under way has a call.
LEMMA Called ==
  ASSUME AccountsInv, NEW s \in Sessions, pc[s] # "idle"
  PROVE  call[s] \in Calls /\ SessionStands(s)
  BY DEF AccountsInv, AccountsTypeOK, SessionStands

\* create_user inserts an active account where there was none.
LEMMA UserCommitted ==
  ASSUME AccountsInv, NEW s \in Sessions, CommitUser(s)
  PROVE  /\ call[s].email \in Emails
         /\ account[call[s].email] = NoAccount
         /\ account' = [account EXCEPT ![call[s].email] =
                [role |-> "user", active |-> TRUE, named |-> call[s].flag]]
         /\ [role |-> "user", active |-> TRUE, named |-> call[s].flag] \in Row
         /\ roles' = RolesWith(s) /\ "user" \in roles'
  <1>1. call[s] \in Calls /\ SessionStands(s) /\ call[s].op = "register"
        /\ pc[s] = "write"
    BY Called DEF CommitUser
  <1>2. call[s].email \in Emails /\ call[s].flag \in BOOLEAN
    BY <1>1, CallFields
  <1>3. RoleOf(s) = "user" /\ RoleOf(s) \in RolesWith(s)
    BY <1>1 DEF SessionStands, RoleOf
  <1>4. account[call[s].email] = NoAccount
    BY <1>1 DEF CommitUser, EmailUnique, Exists
  <1>5. [role |-> "user", active |-> TRUE, named |-> call[s].flag] \in Row
    BY <1>2 DEF Row, RoleNames
  <1> QED
    BY <1>2, <1>3, <1>4, <1>5 DEF CommitUser

\* update_me leaves role and activity as they are, whatever it has read.
LEMMA ProfileSaved ==
  ASSUME AccountsInv, NEW s \in Sessions, SaveProfile(s)
  PROVE  LET e == call[s].email IN
         /\ e \in Emails /\ Exists(e) /\ account[e] \in Row
         /\ \A x \in Emails \ {e} : account'[x] = account[x]
         /\ account'[e] \in Row
         /\ account'[e].role = account[e].role
         /\ account'[e].active = account[e].active
         /\ account' \in [Emails -> Row \cup {NoAccount}]
         /\ roles' = roles
  <1> DEFINE e    == call[s].email
             base == read[s][e]
             new  == [base EXCEPT !.named = call[s].flag]
             w    == WriteColumns(account[e], base, new)
  <1>1. call[s] \in Calls /\ SessionStands(s) /\ call[s].op = "profile"
        /\ pc[s] = "write"
    BY Called DEF SaveProfile
  <1>2. e \in Emails /\ call[s].flag \in BOOLEAN
    BY <1>1, CallFields
  <1>3. base # NoAccount /\ Exists(e)
    BY <1>1, <1>2 DEF SessionStands, AccountsInv, ReadsStand
  <1>4. account[e] \in Row /\ base \in Row
    BY <1>2, <1>3 DEF AccountsInv, AccountsTypeOK, Exists
  <1>5. new \in Row /\ new.role = base.role /\ new.active = base.active
    BY <1>2, <1>4 DEF Row
  <1>6. w \in Row /\ w.role = account[e].role /\ w.active = account[e].active
    <2> HIDE DEF new, base, e
    <2>1. w = WriteColumns(account[e], base, new)
      OBVIOUS
    <2> HIDE DEF w
    <2> QED
      BY <1>4, <1>5, <2>1, WrittenRow
  <1>7. account' = [account EXCEPT ![e] = w] /\ roles' = roles
    BY DEF SaveProfile
  <1>8. account \in [Emails -> Row \cup {NoAccount}]
    BY DEF AccountsInv, AccountsTypeOK
  <1> HIDE DEF w, e
  <1>9. /\ e \in Emails /\ Exists(e) /\ account[e] \in Row
        /\ \A x \in Emails \ {e} : account'[x] = account[x]
        /\ account'[e] \in Row
        /\ account'[e].role = account[e].role
        /\ account'[e].active = account[e].active
        /\ account' \in [Emails -> Row \cup {NoAccount}]
        /\ roles' = roles
    BY <1>2, <1>3, <1>4, <1>6, <1>7, <1>8
  <1> QED
    BY <1>9 DEF e

\* The account switch of an administrator changes activity only, and only as it
\* was told.
LEMMA StatusSaved ==
  ASSUME AccountsInv, NEW s \in Sessions, SaveStatus(s)
  PROVE  LET e == call[s].email IN
         /\ e \in Emails /\ Exists(e) /\ account[e] \in Row
         /\ call[s].by \in Emails /\ Exists(call[s].by)
         /\ account[call[s].by].role = "admin"
         /\ e = call[s].by => call[s].flag
         /\ \A x \in Emails \ {e} : account'[x] = account[x]
         /\ account'[e] \in Row
         /\ account'[e].role = account[e].role
         /\ account'[e].active \in {account[e].active, call[s].flag}
         /\ account' \in [Emails -> Row \cup {NoAccount}]
         /\ roles' = roles
  <1> DEFINE e    == call[s].email
             base == read[s][e]
             new  == [base EXCEPT !.active = call[s].flag]
             w    == WriteColumns(account[e], base, new)
  <1>1. call[s] \in Calls /\ SessionStands(s) /\ call[s].op = "status"
        /\ pc[s] = "write"
    BY Called DEF SaveStatus
  <1>2. e \in Emails /\ call[s].flag \in BOOLEAN /\ call[s].by \in Emails
    BY <1>1, CallFields
  <1>3. base # NoAccount /\ Exists(e)
    BY <1>1, <1>2 DEF SessionStands, AccountsInv, ReadsStand
  <1>4. account[e] \in Row /\ base \in Row
    BY <1>2, <1>3 DEF AccountsInv, AccountsTypeOK, Exists
  <1>5. new \in Row /\ new.role = base.role /\ new.active = call[s].flag
    BY <1>2, <1>4 DEF Row
  <1>6. /\ w \in Row /\ w.role = account[e].role
        /\ w.active \in {account[e].active, call[s].flag}
    <2> HIDE DEF new, base, e
    <2>1. w = WriteColumns(account[e], base, new)
      OBVIOUS
    <2> HIDE DEF w
    <2> QED
      BY <1>4, <1>5, <2>1, WrittenRow
  <1>7. account' = [account EXCEPT ![e] = w] /\ roles' = roles
    BY DEF SaveStatus
  <1>8. account \in [Emails -> Row \cup {NoAccount}]
    BY DEF AccountsInv, AccountsTypeOK
  <1>9. /\ Exists(call[s].by) /\ account[call[s].by].role = "admin"
        /\ e = call[s].by => call[s].flag
    BY <1>1, <1>2 DEF SessionStands, BlocksSelf
  <1> HIDE DEF w, e
  <1>10. /\ e \in Emails /\ Exists(e) /\ account[e] \in Row
         /\ \A x \in Emails \ {e} : account'[x] = account[x]
         /\ account'[e] \in Row
         /\ account'[e].role = account[e].role
         /\ account'[e].active \in {account[e].active, call[s].flag}
         /\ account' \in [Emails -> Row \cup {NoAccount}]
         /\ roles' = roles
    BY <1>2, <1>3, <1>4, <1>6, <1>7, <1>8
  <1> QED
    BY <1>2, <1>9, <1>10 DEF e

\* A start-up gives each account of its transaction the transaction's role, and
\* activity changes only to active: an administrator is never demoted.
LEMMA LocalAccountsCommitted ==
  ASSUME AccountsInv, NEW s \in Sessions, CommitLocalAccounts(s)
  PROVE  LET group == Range(Job(s).emails) IN
         /\ LocalAdminEnabled /\ call[s].job \in {1, 2} /\ group \subseteq Emails
         /\ Job(s).role \in RoleNames
         /\ account' \in [Emails -> Row \cup {NoAccount}]
         /\ \A e \in Emails \ group : account'[e] = account[e]
         /\ \A e \in group :
                /\ account'[e] \in Row
                /\ account'[e].role = Job(s).role
                /\ Exists(e) /\ account[e].role = "admin" => Job(s).role = "admin"
                /\ Exists(e) /\ account[e].active => account'[e].active
                /\ ~Exists(e) => account'[e].active
         /\ roles' = RolesWith(s) /\ Job(s).role \in roles'
  <1> DEFINE group == Range(Job(s).emails)
             new   == [role |-> Job(s).role, active |-> TRUE, named |-> TRUE]
  <1>1. call[s] \in Calls /\ SessionStands(s) /\ call[s].op = "startup"
        /\ pc[s] = "write"
    BY Called DEF CommitLocalAccounts
  <1>2. call[s].job \in {1, 2}
    BY <1>1, CallFields
  <1>3. group \subseteq Emails /\ Job(s).role \in RoleNames
    BY <1>2, Jobs DEF Job
  <1>4. /\ new \in Row /\ new.role = Job(s).role /\ new.active = TRUE
    BY <1>3 DEF Row
  <1>5. LocalAdminEnabled /\ RoleOf(s) = Job(s).role /\ RoleOf(s) \in RolesWith(s)
    BY <1>1 DEF SessionStands, RoleOf
  <1>6. \A e \in group : Exists(e) /\ account[e].role = "admin" => Job(s).role = "admin"
    <2>1. CASE call[s].job = 1
      BY <2>1, Jobs DEF Job
    <2>2. CASE call[s].job = 2
      <3>1. group = Range(DemoUsers)
        BY <2>2, Jobs DEF Job
      <3> QED
        BY <1>3, <3>1, AccountsAssumption DEF AccountsInv, AdminsAppointed
    <2> QED
      BY <1>2, <2>1, <2>2
  <1>7. ASSUME NEW e \in group
        PROVE  /\ Restored(s, e) \in Row
               /\ Restored(s, e).role = Job(s).role
               /\ Exists(e) /\ account[e].active => Restored(s, e).active
               /\ ~Exists(e) => Restored(s, e).active
    <2> HIDE DEF new, group
    <2>1. CASE read[s][e] = NoAccount
      <3>1. Restored(s, e) = new
        BY <2>1 DEF Restored, new
      <3> QED
        BY <1>4, <3>1
    <2>2. CASE read[s][e] # NoAccount
      <3>1. e \in Emails /\ Exists(e)
            /\ (read[s][e].role = "admin" => account[e].role = "admin")
        BY <1>3, <2>2 DEF AccountsInv, ReadsStand
      <3>2. account[e] \in Row /\ read[s][e] \in Row
        BY <2>2, <3>1 DEF AccountsInv, AccountsTypeOK, Exists
      <3>3. Restored(s, e) = WriteColumns(account[e], read[s][e], new)
        BY <2>2 DEF Restored, new
      <3> DEFINE w == Restored(s, e)
      <3>4. w = WriteColumns(account[e], read[s][e], new)
        BY <3>3
      <3> HIDE DEF w
      <3>5. /\ w \in Row
            /\ w.role = IF Job(s).role # read[s][e].role THEN Job(s).role
                        ELSE account[e].role
            /\ w.active = TRUE \/ w.active = account[e].active
        <4>1. /\ w \in Row
              /\ w.role = IF new.role # read[s][e].role THEN new.role
                          ELSE account[e].role
              /\ w.active = IF new.active # read[s][e].active THEN new.active
                            ELSE account[e].active
          BY <1>4, <3>2, <3>4, WrittenRow
        <4>2. w.active = new.active \/ w.active = account[e].active
          BY <4>1
        <4> QED
          BY <1>4, <4>1, <4>2
      <3>6. /\ read[s][e].role \in {"user", "admin"} /\ account[e].role \in {"user", "admin"}
            /\ Job(s).role \in {"user", "admin"}
        BY <1>3, <3>2 DEF Row, RoleNames
      <3>7. w.role = Job(s).role
        <4>1. account[e].role = "admin" => Job(s).role = "admin"
          BY <1>6, <3>1
        <4> QED
          BY <3>1, <3>5, <3>6, <4>1
      <3>8. account[e].active => w.active
        BY <3>5
      <3> QED
        BY <3>1, <3>5, <3>7, <3>8 DEF w
    <2> QED
      BY <2>1, <2>2
  <1>8. account' = [e \in Emails |-> IF e \in group THEN Restored(s, e) ELSE account[e]]
    BY DEF CommitLocalAccounts
  <1>9. account \in [Emails -> Row \cup {NoAccount}] /\ roles' = RolesWith(s)
    BY DEF AccountsInv, AccountsTypeOK, CommitLocalAccounts
  <1> HIDE DEF group
  <1>10. /\ account' \in [Emails -> Row \cup {NoAccount}]
         /\ \A e \in Emails \ group : account'[e] = account[e]
         /\ \A e \in group : account'[e] = Restored(s, e)
    BY <1>3, <1>7, <1>8, <1>9
  <1>11. \A e \in group :
             /\ account'[e] \in Row
             /\ account'[e].role = Job(s).role
             /\ Exists(e) /\ account[e].active => account'[e].active
             /\ ~Exists(e) => account'[e].active
    BY <1>7, <1>10
  <1> QED
    BY <1>2, <1>3, <1>5, <1>6, <1>9, <1>10, <1>11 DEF group

-----------------------------------------------------------------------------

\* Accounts are for ever, administrators too, and so are the roles; whoever is
\* an administrator was one or is appointed by a start-up.
LEMMA RowsGoOn ==
  ASSUME AccountsInv, NEW s \in Sessions, Reading(s) \/ Writing(s)
  PROVE  /\ account' \in [Emails -> Row \cup {NoAccount}]
         /\ roles \subseteq roles' /\ roles' \subseteq RoleNames
         /\ roles' \in {roles, RolesWith(s)}
         /\ \A e \in Emails :
                /\ Exists(e) => /\ account'[e] # NoAccount
                                /\ account[e].role = "admin" => account'[e].role = "admin"
                /\ account'[e] # NoAccount =>
                       /\ account'[e].role \in roles'
                       /\ account'[e].role = "admin" => e \in Founders \cup {LocalAdmin}
  <1> USE AccountsAssumption
  <1>1. /\ account \in [Emails -> Row \cup {NoAccount}]
        /\ roles \subseteq RoleNames /\ newRole[s] \in RoleNames \cup {NoRole}
        /\ \A e \in Emails : Exists(e) =>
               /\ account[e].role \in roles
               /\ account[e].role = "admin" => e \in Founders \cup {LocalAdmin}
    BY DEF AccountsInv, AccountsTypeOK, AdminsAppointed
  <1>2. roles \subseteq RolesWith(s) /\ RolesWith(s) \subseteq RoleNames
    BY <1>1 DEF RolesWith
  <1>3. CASE Reading(s)
    <2>1. UNCHANGED <<roles, account>>
      BY <1>3, Frame DEF AccountsInv
    <2> QED
      BY <1>1, <2>1 DEF Exists
  <1>4. CASE CommitUser(s)
    <2> DEFINE e == call[s].email
               r == [role |-> "user", active |-> TRUE, named |-> call[s].flag]
    <2>1. /\ e \in Emails /\ account[e] = NoAccount
          /\ account' = [account EXCEPT ![e] = r] /\ r \in Row /\ r.role = "user"
          /\ roles' = RolesWith(s) /\ "user" \in roles'
      BY <1>4, UserCommitted
    <2> HIDE DEF e, r
    <2> QED
      BY <1>1, <1>2, <2>1 DEF Exists
  <1>5. CASE SaveProfile(s)
    BY <1>1, <1>2, <1>5, ProfileSaved DEF Exists
  <1>6. CASE SaveStatus(s)
    BY <1>1, <1>2, <1>6, StatusSaved DEF Exists
  <1>7. CASE CommitLocalAccounts(s)
    <2> DEFINE group == Range(Job(s).emails)
    <2>1. /\ call[s].job \in {1, 2} /\ group \subseteq Emails
          /\ account' \in [Emails -> Row \cup {NoAccount}]
          /\ roles' = RolesWith(s) /\ Job(s).role \in roles'
          /\ \A e \in Emails \ group : account'[e] = account[e]
          /\ \A e \in group :
                 /\ account'[e] \in Row /\ account'[e].role = Job(s).role
                 /\ Exists(e) /\ account[e].role = "admin" => Job(s).role = "admin"
      BY <1>7, LocalAccountsCommitted
    <2>2. Job(s).role = "admin" => group = {LocalAdmin}
      BY <2>1, Jobs DEF Job
    <2> HIDE DEF group
    <2> QED
      BY <1>1, <1>2, <2>1, <2>2 DEF Exists
  <1> QED
    BY <1>3, <1>4, <1>5, <1>6, <1>7 DEF Writing

-----------------------------------------------------------------------------

\* What the step of a session leaves in the session's own variables.
Leaves(s) ==
    /\ pc' \in [Sessions -> {"idle", "lookup", "role", "addrole", "load", "target", "write"}]
    /\ call' \in [Sessions -> Calls \cup {NoCall}]
    /\ read' \in [Sessions -> [Emails -> Row \cup {NoAccount}]]
    /\ newRole' \in [Sessions -> RoleNames \cup {NoRole}]
    /\ \A e \in Emails : read'[s][e] \in {read[s][e], account[e], NoAccount}
    /\ SessionStands(s)'

\* A session that has ended holds nothing.
LEMMA Ended ==
  ASSUME AccountsInv, NEW s \in Sessions, EndSession(s)
  PROVE  Leaves(s) /\ newRole'[s] = NoRole
  BY DEF AccountsInv, AccountsTypeOK, EndSession, Leaves, SessionStands, NothingRead

\* A request begins with a row that exists, an account switch with an active
\* administrator.
LEMMA Begun ==
  ASSUME AccountsInv, NEW s \in Sessions, Begin(s)
  PROVE  Leaves(s) /\ newRole' = newRole
  <1> USE AccountsAssumption DEF AccountsInv, AccountsTypeOK, Serve
  <1>0. NothingRead \in [Emails -> Row \cup {NoAccount}]
        /\ \A e \in Emails : NothingRead[e] = NoAccount
    BY DEF NothingRead
  <1>1. CASE StartUp(s)
    <2> DEFINE c == [op |-> "startup", job |-> 1, done |-> 0]
    <2>1. c \in Calls /\ c.op = "startup" /\ c.done < Len(StartUpJobs[c.job].emails)
      <3>1. 1 \in DOMAIN StartUpJobs /\ 0 \in 0..Len(DemoUsers)
            /\ 0 < Len(StartUpJobs[1].emails)
        BY Jobs
      <3> QED
        BY <3>1 DEF Calls
    <2>2. /\ pc' = [pc EXCEPT ![s] = "role"] /\ call' = [call EXCEPT ![s] = c]
          /\ read' = [read EXCEPT ![s] = NothingRead] /\ newRole' = newRole
          /\ LocalAdminEnabled
      BY <1>1 DEF StartUp
    <2> HIDE DEF c
    <2>3. SessionStands(s)'
      BY <2>1, <2>2 DEF SessionStands, Job
    <2> QED
      BY <1>0, <2>1, <2>2, <2>3 DEF Leaves
  <1>2. ASSUME NEW e \in Emails, NEW named \in Names, RegisterUser(s, e, named)
        PROVE  Leaves(s) /\ newRole' = newRole
    <2> DEFINE c == [op |-> "register", email |-> e, flag |-> named]
    <2>1. c \in Calls /\ c.op = "register"
      BY DEF Calls
    <2>2. /\ pc' = [pc EXCEPT ![s] = "lookup"] /\ call' = [call EXCEPT ![s] = c]
          /\ read' = [read EXCEPT ![s] = NothingRead] /\ newRole' = newRole
      BY <1>2 DEF RegisterUser
    <2> HIDE DEF c
    <2>3. SessionStands(s)'
      BY <2>1, <2>2 DEF SessionStands
    <2> QED
      BY <1>0, <2>1, <2>2, <2>3 DEF Leaves
  <1>3. ASSUME NEW e \in Emails, NEW named \in Names, UpdateMe(s, e, named)
        PROVE  Leaves(s) /\ newRole' = newRole
    <2> DEFINE c == [op |-> "profile", email |-> e, flag |-> named]
               r == [NothingRead EXCEPT ![e] = account[e]]
    <2>1. c \in Calls /\ c.op = "profile" /\ c.email = e
      BY DEF Calls
    <2>2. /\ pc' = [pc EXCEPT ![s] = "write"] /\ call' = [call EXCEPT ![s] = c]
          /\ read' = [read EXCEPT ![s] = r] /\ newRole' = newRole
          /\ account[e] # NoAccount
      BY <1>3 DEF UpdateMe, Authorized, Active, Exists
    <2>3. /\ r \in [Emails -> Row \cup {NoAccount}] /\ r[e] = account[e]
          /\ \A x \in Emails : r[x] \in {account[x], NoAccount}
      BY <1>0
    <2> HIDE DEF c, r
    <2>4. SessionStands(s)'
      BY <2>1, <2>2, <2>3 DEF SessionStands
    <2> QED
      BY <2>1, <2>2, <2>3, <2>4 DEF Leaves
  <1>4. ASSUME NEW admin \in Emails, NEW e \in Emails, NEW active \in BOOLEAN,
               UpdateUserStatus(s, admin, e, active)
        PROVE  Leaves(s) /\ newRole' = newRole
    <2> DEFINE c == [op |-> "status", email |-> e, flag |-> active, by |-> admin]
               r == [NothingRead EXCEPT ![admin] = account[admin]]
    <2>1. c \in Calls /\ c.op = "status" /\ c.by = admin
      BY DEF Calls
    <2>2. /\ pc' = [pc EXCEPT ![s] = "target"] /\ call' = [call EXCEPT ![s] = c]
          /\ read' = [read EXCEPT ![s] = r] /\ newRole' = newRole
          /\ account' = account
          /\ account[admin] # NoAccount /\ account[admin].role = "admin"
      BY <1>4 DEF UpdateUserStatus, Authorized, Active, Exists
    <2>3. /\ r \in [Emails -> Row \cup {NoAccount}]
          /\ \A x \in Emails : r[x] \in {account[x], NoAccount}
      BY <1>0
    <2> HIDE DEF c, r
    <2>4. SessionStands(s)'
      BY <2>1, <2>2, <2>3 DEF SessionStands, Exists
    <2> QED
      BY <2>1, <2>2, <2>3, <2>4 DEF Leaves
  <1> QED
    BY <1>1, <1>2, <1>3, <1>4 DEF Begin

\* A registration and a start-up come to their INSERTs with the role at hand,
\* found committed or flushed by themselves.
LEMMA WentOn ==
  ASSUME AccountsInv, NEW s \in Sessions,
         FindEmail(s) \/ FindRole(s) \/ FlushRole(s) \/ LoadLocalAccount(s) \/ LoadTarget(s)
  PROVE  /\ Leaves(s)
         /\ \/ newRole' = newRole
            \/ newRole'[s] = NoRole
            \/ /\ newRole' = [newRole EXCEPT ![s] = RoleOf(s)]
               /\ RoleOf(s) \notin roles /\ RoleOf(s) \in RoleNames
               /\ \A t \in Sessions \ {s} : newRole[t] # RoleOf(s)
  <1> USE DEF AccountsInv, AccountsTypeOK, Goto
  <1>1. CASE FindEmail(s)
    <2>1. CASE Exists(call[s].email)
      BY <1>1, <2>1, Ended DEF FindEmail, Refuse
    <2>2. CASE ~Exists(call[s].email)
      <3>1. /\ pc[s] = "lookup" /\ pc' = [pc EXCEPT ![s] = "role"]
            /\ UNCHANGED <<call, read, newRole>>
        BY <1>1, <2>2 DEF FindEmail
      <3>2. SessionStands(s)'
        BY <3>1, Called DEF SessionStands
      <3> QED
        BY <3>1, <3>2 DEF Leaves
    <2> QED
      BY <2>1, <2>2
  <1>2. CASE FindRole(s) \/ FlushRole(s)
    <2> DEFINE r == newRole'[s]
    <2>1. /\ pc[s] \in {"role", "addrole"} /\ call[s] \in Calls /\ SessionStands(s)
          /\ call[s].op \in {"register", "startup"}
      BY <1>2, Called DEF FindRole, FlushRole, SessionStands
    <2>2. RoleOf(s) \in RoleNames /\ RoleOf(s)' = RoleOf(s)
      <3>1. call[s].op = "startup" => call[s].job \in {1, 2}
        BY <2>1, CallFields
      <3>2. call' = call
        BY <1>2 DEF FindRole, FlushRole
      <3> QED
        BY <3>1, <3>2, Jobs DEF RoleOf, Job, RoleNames
    <2>3. /\ UNCHANGED <<call, read, roles>>
          /\ \/ pc' = [pc EXCEPT ![s] = "addrole"] /\ newRole' = newRole
             \/ /\ pc' = [pc EXCEPT ![s] = AfterRole(s)]
                /\ \/ newRole' = newRole /\ RoleOf(s) \in roles
                   \/ /\ newRole' = [newRole EXCEPT ![s] = RoleOf(s)]
                      /\ RoleOf(s) \notin roles /\ ~RoleInFlight(s)
      BY <1>2 DEF FindRole, FlushRole
    <2>4. \/ AfterRole(s) = "load" /\ call[s].op = "startup"
          \/ AfterRole(s) = "write" /\ call[s].op = "register"
      BY <2>1 DEF AfterRole
    <2>5. pc'[s] \in {"load", "write"} => RoleOf(s) \in RolesWith(s)'
      BY <2>2, <2>3, AccountsAssumption DEF RolesWith
    <2>6. SessionStands(s)'
      BY <2>1, <2>2, <2>3, <2>4, <2>5 DEF SessionStands, Job
    <2> QED
      BY <2>2, <2>3, <2>4, <2>6 DEF Leaves, RoleInFlight
  <1>3. CASE LoadLocalAccount(s)
    <2> DEFINE emails == Job(s).emails
               i == call[s].done + 1
               c == [call[s] EXCEPT !.done = i]
    <2>1. /\ pc[s] = "load" /\ call[s] \in Calls /\ SessionStands(s)
          /\ call[s].op = "startup" /\ call[s].done < Len(emails)
      BY <1>3, Called DEF LoadLocalAccount, SessionStands
    <2>2. /\ call[s].job \in {1, 2} /\ call[s].done \in 0..Len(DemoUsers)
          /\ emails \in Seq(Emails) /\ Len(emails) \in 1..Len(DemoUsers)
          /\ Len(DemoUsers) \in Nat
      BY <2>1, CallFields, Jobs DEF Job
    <2>3. i \in 1..Len(emails) /\ emails[i] \in Emails /\ i \in 0..Len(DemoUsers)
      BY <2>1, <2>2
    <2>4. /\ c \in Calls /\ c.op = "startup" /\ c.job = call[s].job /\ c.done = i
      BY <2>1, <2>2, <2>3, Jobs DEF Calls
    <2>5. /\ call' = [call EXCEPT ![s] = c]
          /\ read' = [read EXCEPT ![s][emails[i]] = account[emails[i]]]
          /\ pc' = [pc EXCEPT ![s] = IF i = Len(emails) THEN "write" ELSE "load"]
          /\ UNCHANGED <<roles, account, newRole>>
      BY <1>3 DEF LoadLocalAccount
    <2> HIDE DEF c
    <2>6. /\ call'[s] = c /\ call' \in [Sessions -> Calls \cup {NoCall}]
          /\ Job(s)' = Job(s) /\ RoleOf(s)' = RoleOf(s)
      BY <2>1, <2>4, <2>5 DEF Job, RoleOf
    <2>7. SessionStands(s)'
      <3>1. pc'[s] = "load" => i < Len(emails)
        BY <2>2, <2>3, <2>5
      <3>2. RoleOf(s) \in RolesWith(s)'
        BY <2>1, <2>5 DEF SessionStands, RolesWith
      <3> QED
        BY <2>1, <2>4, <2>5, <2>6, <3>1, <3>2, AccountsAssumption DEF SessionStands
    <2>8. /\ read' \in [Sessions -> [Emails -> Row \cup {NoAccount}]]
          /\ \A e \in Emails : read'[s][e] \in {read[s][e], account[e]}
      BY <2>3, <2>5
    <2> QED
      BY <2>5, <2>6, <2>7, <2>8 DEF Leaves
  <1>4. CASE LoadTarget(s)
    <2> DEFINE e == call[s].email
    <2>1. /\ pc[s] = "target" /\ call[s] \in Calls /\ SessionStands(s)
          /\ call[s].op = "status" /\ e \in Emails
      BY <1>4, Called, CallFields DEF LoadTarget, SessionStands
    <2>2. CASE ~Exists(e) \/ BlocksSelf(s)
      BY <1>4, <2>2, Ended DEF LoadTarget, Refuse
    <2>3. CASE Exists(e) /\ ~BlocksSelf(s)
      <3> DEFINE x == IF read[s][e] = NoAccount THEN account[e] ELSE read[s][e]
      <3>1. /\ read' = [read EXCEPT ![s][e] = x]
            /\ pc' = [pc EXCEPT ![s] = "write"]
            /\ UNCHANGED <<roles, account, call, newRole>>
        BY <1>4, <2>3 DEF LoadTarget
      <3>2. x # NoAccount /\ x \in {read[s][e], account[e]}
            /\ x \in Row \cup {NoAccount}
        BY <2>1, <2>3 DEF Exists
      <3> HIDE DEF x, e
      <3>3. /\ read' \in [Sessions -> [Emails -> Row \cup {NoAccount}]]
            /\ read'[s][e] # NoAccount
            /\ \A y \in Emails : read'[s][y] \in {read[s][y], account[y]}
        BY <2>1, <3>1, <3>2
      <3>4. SessionStands(s)'
        BY <2>1, <2>3, <3>1, <3>3 DEF SessionStands, BlocksSelf, Exists, e
      <3> QED
        BY <2>1, <3>1, <3>3, <3>4 DEF Leaves
    <2> QED
      BY <2>2, <2>3
  <1> QED
    BY <1>1, <1>2, <1>3, <1>4

\* A commit ends the session, or goes on with the next transaction of the
\* start-up.
LEMMA Committed ==
  ASSUME AccountsInv, NEW s \in Sessions, Writing(s)
  PROVE  Leaves(s) /\ newRole'[s] = NoRole
  <1>1. CASE EndSession(s)
    BY <1>1, Ended
  <1>2. CASE ~EndSession(s)
    <2> DEFINE c == [op |-> "startup", job |-> 2, done |-> 0]
    <2>1. CommitLocalAccounts(s)
      BY <1>2 DEF Writing, CommitUser, SaveProfile, SaveStatus
    <2>2. call[s] \in Calls /\ call[s].op = "startup" /\ SessionStands(s)
          /\ pc[s] = "write" /\ call[s].job \in {1, 2} /\ call[s].job # 2
      BY <1>2, <2>1, Called, CallFields, Jobs DEF CommitLocalAccounts
    <2>3. /\ c \in Calls /\ c.op = "startup" /\ c.job = 2 /\ c.done = 0
          /\ 0 < Len(StartUpJobs[2].emails)
      <3>1. 2 \in DOMAIN StartUpJobs /\ 0 \in 0..Len(DemoUsers)
            /\ 0 < Len(StartUpJobs[2].emails)
        BY Jobs
      <3> QED
        BY <3>1 DEF Calls
    <2>4. /\ pc' = [pc EXCEPT ![s] = "role"] /\ call' = [call EXCEPT ![s] = c]
          /\ newRole' = [newRole EXCEPT ![s] = NoRole] /\ read' = read
      <3>1. call[s].job + 1 = 2
        BY <2>2
      <3> QED
        BY <1>2, <2>1, <3>1 DEF CommitLocalAccounts
    <2> HIDE DEF c
    <2>5. LocalAdminEnabled
      BY <2>2 DEF SessionStands
    <2>6. SessionStands(s)'
      BY <2>3, <2>4, <2>5, AccountsAssumption
         DEF SessionStands, Job, AccountsInv, AccountsTypeOK
    <2> QED
      BY <2>3, <2>4, <2>6 DEF Leaves, AccountsInv, AccountsTypeOK
  <1> QED
    BY <1>1, <1>2

\* What a step does to the role that its session has flushed: it keeps it,
\* commits it or gives it up, or flushes one that is nobody else's.
LEMMA OwnSession ==
  ASSUME AccountsInv, NEW s \in Sessions, Reading(s) \/ Writing(s)
  PROVE  /\ Leaves(s)
         /\ \/ newRole' = newRole /\ roles' = roles
            \/ newRole'[s] = NoRole
            \/ /\ newRole'[s] = RoleOf(s) /\ roles' = roles
               /\ RoleOf(s) \notin roles
               /\ \A t \in Sessions \ {s} : newRole[t] # RoleOf(s)
  <1>1. CASE Writing(s)
    BY <1>1, Committed
  <1>2. CASE Begin(s)
    BY <1>2, Begun, Frame DEF Reading, AccountsInv
  <1>3. CASE RoleConflict(s) \/ DuplicateUser(s) \/ Abort(s)
    BY <1>3, Ended DEF RoleConflict, DuplicateUser, Abort, Refuse
  <1>4. CASE FindEmail(s) \/ FindRole(s) \/ FlushRole(s) \/ LoadLocalAccount(s)
             \/ LoadTarget(s)
    <2>1. roles' = roles
      BY <1>4, Frame DEF Reading, AccountsInv
    <2> QED
      BY <1>4, <2>1, WentOn DEF AccountsInv, AccountsTypeOK
  <1> QED
    BY <1>1, <1>2, <1>3, <1>4 DEF Reading

\* Every step preserves the inductive invariant.
LEMMA AccountsStepInv == AccountsInv /\ [AccountsNext]_accountsVars => AccountsInv'
  <1> SUFFICES ASSUME AccountsInv, [AccountsNext]_accountsVars PROVE AccountsInv'
    OBVIOUS
  <1>1. CASE UNCHANGED accountsVars
    <2> USE <1>1 DEF accountsVars, AccountsInv, Exists
    <2>1. AccountsTypeOK' /\ FlushedRoleIsFree'
      BY DEF AccountsTypeOK, FlushedRoleIsFree
    <2>2. ReadsStand' /\ AdminsAppointed'
      BY DEF ReadsStand, AdminsAppointed
    <2>3. \A s \in Sessions : SessionStands(s)'
      BY DEF SessionStands, Job, RoleOf, RolesWith, BlocksSelf
    <2> QED
      BY <2>1, <2>2, <2>3
  <1>2. ASSUME NEW s \in Sessions, Reading(s) \/ Writing(s)
        PROVE  AccountsInv'
    <2>1. /\ account' \in [Emails -> Row \cup {NoAccount}]
          /\ roles \subseteq roles' /\ roles' \subseteq RoleNames
          /\ roles' \in {roles, RolesWith(s)}
          /\ \A e \in Emails :
                 /\ Exists(e) => /\ account'[e] # NoAccount
                                 /\ account[e].role = "admin" => account'[e].role = "admin"
                 /\ account'[e] # NoAccount =>
                        /\ account'[e].role \in roles'
                        /\ account'[e].role = "admin" => e \in Founders \cup {LocalAdmin}
      BY <1>2, RowsGoOn
    <2>2. /\ Leaves(s)
          /\ \/ newRole' = newRole /\ roles' = roles
             \/ newRole'[s] = NoRole
             \/ /\ newRole'[s] = RoleOf(s) /\ roles' = roles
                /\ RoleOf(s) \notin roles
                /\ \A t \in Sessions \ {s} : newRole[t] # RoleOf(s)
      BY <1>2, OwnSession
    <2>3. \A t \in Sessions \ {s} :
              /\ pc'[t] = pc[t] /\ call'[t] = call[t]
              /\ read'[t] = read[t] /\ newRole'[t] = newRole[t]
      BY <1>2, Frame DEF AccountsInv
    <2>4. AccountsTypeOK'
      BY <2>1, <2>2 DEF AccountsTypeOK, Leaves, Exists
    <2>5. FlushedRoleIsFree'
      BY <2>1, <2>2, <2>3 DEF AccountsInv, FlushedRoleIsFree, RolesWith
    <2>6. ASSUME NEW t \in Sessions
          PROVE  SessionStands(t)'
      <3>1. CASE t = s
        BY <2>2, <3>1 DEF Leaves
      <3>2. CASE t # s
        <4>1. /\ pc'[t] = pc[t] /\ call'[t] = call[t] /\ SessionStands(t)
              /\ read'[t] = read[t] /\ newRole'[t] = newRole[t]
          BY <2>3, <3>2 DEF AccountsInv
        <4>2. Job(t)' = Job(t) /\ RoleOf(t)' = RoleOf(t) /\ BlocksSelf(t)' = BlocksSelf(t)
          BY <4>1 DEF Job, RoleOf, BlocksSelf
        <4>3. RolesWith(t) \subseteq RolesWith(t)'
          BY <2>1, <4>1 DEF RolesWith
        <4>4. pc[t] # "idle" /\ call[t].op = "status" =>
                  Exists(call[t].by)' /\ account'[call[t].by].role = "admin"
          <5> HAVE pc[t] # "idle" /\ call[t].op = "status"
          <5>1. call[t].by \in Emails
            BY Called, CallFields
          <5> QED
            BY <2>1, <4>1, <5>1 DEF SessionStands, Exists
        <4> QED
          BY <4>1, <4>2, <4>3, <4>4 DEF SessionStands
      <3> QED
        BY <3>1, <3>2
    <2>7. ReadsStand'
      <3> SUFFICES ASSUME NEW t \in Sessions, NEW e \in Emails,
                          read'[t][e] # NoAccount
                   PROVE  /\ account'[e] # NoAccount
                          /\ read'[t][e].role = "admin" => account'[e].role = "admin"
        BY DEF ReadsStand, Exists
      <3>1. read'[t][e] \in {read[t][e], account[e]}
        BY <2>2, <2>3 DEF Leaves
      <3> QED
        BY <2>1, <3>1 DEF AccountsInv, ReadsStand, Exists
    <2>8. AdminsAppointed'
      BY <2>1 DEF AdminsAppointed, Exists
    <2> QED
      BY <2>4, <2>5, <2>6, <2>7, <2>8 DEF AccountsInv
  <1> QED
    BY <1>1, <1>2, Steps

-----------------------------------------------------------------------------

\* The inductive invariant holds of every behaviour of the accounts.
THEOREM AccountsInvariant == AccountsSpec => []AccountsInv
  BY AccountsInitInv, AccountsStepInv, PTL DEF AccountsSpec

\* Rows have their types and the foreign key of roles holds, whatever start-ups
\* and registrations race for a role that only one of them can insert.
THEOREM AccountsTypeCorrect == AccountsSpec => []AccountsTypeOK
  <1>1. AccountsInv => AccountsTypeOK
    BY DEF AccountsInv
  <1> QED
    BY <1>1, AccountsInvariant, PTL

\* A role that a session has flushed is neither committed nor flushed by another
\* one until the session ends: its commit cannot fail for it.
THEOREM FlushedRoleStaysFree == AccountsSpec => []FlushedRoleIsFree
  <1>1. AccountsInv => FlushedRoleIsFree
    BY DEF AccountsInv
  <1> QED
    BY <1>1, AccountsInvariant, PTL

-----------------------------------------------------------------------------

\* What may have happened to the account of e in a step of session s that
\* changed it.
LEMMA RowChanged ==
  ASSUME AccountsInv, NEW s \in Sessions, Reading(s) \/ Writing(s),
         NEW e \in Emails, account'[e] # account[e]
  PROVE  /\ Writing(s) /\ Writes(s) /\ call[s] \in Calls /\ SessionStands(s)
         /\ \/ CommitUser(s) /\ ~Exists(e) /\ call[s].email = e
            \/ /\ CommitLocalAccounts(s) /\ call[s].op = "startup"
               /\ e \in Range(Job(s).emails)
            \/ SaveProfile(s) /\ call[s].op = "profile" /\ call[s].email = e
            \/ SaveStatus(s) /\ call[s].op = "status" /\ call[s].email = e
  <1>1. Writing(s)
    BY Frame DEF AccountsInv
  <1>2. pc[s] = "write" /\ call[s] \in Calls /\ SessionStands(s)
    <2>1. pc[s] = "write"
      BY <1>1 DEF Writing, CommitUser, CommitLocalAccounts, SaveProfile, SaveStatus
    <2> QED
      BY <2>1, Called
  <1>3. call'[s] # call[s]
    <2>1. CASE EndSession(s)
      BY <1>2, <2>1, AccountsAssumption DEF EndSession, AccountsInv, AccountsTypeOK
    <2>2. CASE ~EndSession(s)
      <3>1. CommitLocalAccounts(s) /\ call[s].job \in {1, 2}
        BY <1>1, <1>2, <2>2, CallFields
           DEF Writing, CommitUser, SaveProfile, SaveStatus, CommitLocalAccounts
      <3> DEFINE c == [op |-> "startup", job |-> call[s].job + 1, done |-> 0]
      <3>2. call' = [call EXCEPT ![s] = c] /\ c.job = call[s].job + 1
        BY <2>2, <3>1 DEF CommitLocalAccounts
      <3> HIDE DEF c
      <3>3. call'[s] = c
        BY <3>2 DEF AccountsInv, AccountsTypeOK
      <3>4. call[s].job + 1 # call[s].job
        BY <3>1
      <3> QED
        BY <3>2, <3>3, <3>4
    <2> QED
      BY <2>1, <2>2
  <1>4. CASE CommitUser(s)
    <2> DEFINE r == [role |-> "user", active |-> TRUE, named |-> call[s].flag]
    <2>1. /\ account[call[s].email] = NoAccount
          /\ account' = [account EXCEPT ![call[s].email] = r]
      BY <1>4, UserCommitted
    <2> HIDE DEF r
    <2>2. call[s].email = e
      BY <2>1 DEF AccountsInv, AccountsTypeOK
    <2> QED
      BY <1>1, <1>2, <1>3, <1>4, <2>1, <2>2 DEF Exists, Writes
  <1>5. CASE CommitLocalAccounts(s)
    BY <1>1, <1>2, <1>3, <1>5, LocalAccountsCommitted DEF CommitLocalAccounts, Writes
  <1>6. CASE SaveProfile(s)
    BY <1>1, <1>2, <1>3, <1>6, ProfileSaved DEF SaveProfile, Writes
  <1>7. CASE SaveStatus(s)
    BY <1>1, <1>2, <1>3, <1>7, StatusSaved DEF SaveStatus, Writes
  <1> QED
    BY <1>1, <1>4, <1>5, <1>6, <1>7 DEF Writing

\* An account that was blocked is active again only by a status request that says
\* so or by a start-up: profile updates write back no activity they have read.
THEOREM BlockedIsNotUndone == AccountsSpec => BlockedStaysBlocked
  <1> DEFINE A == \A e \in Emails :
                      Exists(e) /\ ~Active(e) /\ Active(e)' =>
                          \E s \in Sessions : Writes(s) /\ Activates(s, e)
  <1>1. AccountsInv /\ [AccountsNext]_accountsVars => [A]_accountsVars
    <2> SUFFICES ASSUME AccountsInv, AccountsNext,
                        NEW e \in Emails, Exists(e) /\ ~Active(e) /\ Active(e)'
                 PROVE  \E s \in Sessions : Writes(s) /\ Activates(s, e)
      OBVIOUS
    <2>1. PICK s \in Sessions : Reading(s) \/ Writing(s)
      BY Steps
    <2>2. ~account[e].active /\ account'[e].active /\ account'[e] # account[e]
      BY DEF Active, Exists
    <2>3. /\ Writes(s) /\ call[s] \in Calls
          /\ \/ CommitUser(s) /\ ~Exists(e) /\ call[s].email = e
             \/ /\ CommitLocalAccounts(s) /\ call[s].op = "startup"
                /\ e \in Range(Job(s).emails)
             \/ SaveProfile(s) /\ call[s].op = "profile" /\ call[s].email = e
             \/ SaveStatus(s) /\ call[s].op = "status" /\ call[s].email = e
      BY <2>1, <2>2, RowChanged
    <2>4. CASE SaveProfile(s) /\ call[s].email = e
      BY <2>2, <2>4, ProfileSaved
    <2>5. CASE SaveStatus(s) /\ call[s].op = "status" /\ call[s].email = e
      BY <2>2, <2>3, <2>5, StatusSaved, CallFields DEF Activates
    <2>6. CASE CommitLocalAccounts(s) /\ call[s].op = "startup"
               /\ e \in Range(Job(s).emails)
      BY <2>3, <2>6 DEF Activates
    <2> QED
      BY <2>3, <2>4, <2>5, <2>6
  <1> QED
    BY <1>1, AccountsInvariant, PTL DEF AccountsSpec, BlockedStaysBlocked

\* Nobody blocks the last active administrator but one who was blocked while the
\* request was under way: an administrator cannot block the account it acts for.
THEOREM LastAdminIsNotBlockedByActive == AccountsSpec => LastAdminBlockedByBlocked
  <1> DEFINE A == ActiveAdmins # {} /\ ActiveAdmins' = {} =>
                      \E s \in Sessions :
                          Writes(s) /\ call[s].op = "status"
                          /\ call[s].by \notin ActiveAdmins
  <1>1. AccountsInv /\ [AccountsNext]_accountsVars => [A]_accountsVars
    <2> SUFFICES ASSUME AccountsInv, AccountsNext,
                        ActiveAdmins # {}, ActiveAdmins' = {}
                 PROVE  \E s \in Sessions :
                            Writes(s) /\ call[s].op = "status"
                            /\ call[s].by \notin ActiveAdmins
      OBVIOUS
    <2>1. PICK s \in Sessions : Reading(s) \/ Writing(s)
      BY Steps
    <2>2. PICK e \in Emails : Exists(e) /\ account[e].active /\ account[e].role = "admin"
      BY DEF ActiveAdmins, Active
    <2>3. \A x \in Emails :
              ~(account'[x] # NoAccount /\ account'[x].active /\ account'[x].role = "admin")
      BY DEF ActiveAdmins, Active, Exists
    <2>4. account'[e] # NoAccount /\ account'[e].role = "admin" /\ ~account'[e].active
      BY <2>1, <2>2, <2>3, RowsGoOn
    <2>5. account'[e] # account[e]
      BY <2>2, <2>4
    <2>6. /\ Writes(s) /\ call[s] \in Calls
          /\ \/ CommitUser(s) /\ ~Exists(e) /\ call[s].email = e
             \/ /\ CommitLocalAccounts(s) /\ call[s].op = "startup"
                /\ e \in Range(Job(s).emails)
             \/ SaveProfile(s) /\ call[s].op = "profile" /\ call[s].email = e
             \/ SaveStatus(s) /\ call[s].op = "status" /\ call[s].email = e
      BY <2>1, <2>5, RowChanged
    <2>7. CASE CommitUser(s) /\ ~Exists(e)
      BY <2>2, <2>7
    <2>8. CASE CommitLocalAccounts(s) /\ e \in Range(Job(s).emails)
      BY <2>2, <2>4, <2>8, LocalAccountsCommitted
    <2>9. CASE SaveProfile(s) /\ call[s].email = e
      BY <2>2, <2>4, <2>9, ProfileSaved
    <2>10. CASE SaveStatus(s) /\ call[s].op = "status" /\ call[s].email = e
      <3>1. /\ account'[e].active \in {account[e].active, call[s].flag}
            /\ e = call[s].by => call[s].flag
            /\ \A x \in Emails \ {e} : account'[x] = account[x]
            /\ call[s].by \in Emails
        BY <2>10, StatusSaved
      <3>2. ~call[s].flag
        BY <2>2, <2>4, <3>1
      <3>3. account'[call[s].by] = account[call[s].by]
        BY <3>1, <3>2
      <3>4. call[s].by \notin ActiveAdmins
        BY <2>3, <3>1, <3>3 DEF ActiveAdmins, Active, Exists
      <3> QED
        BY <2>6, <2>10, <3>4
    <2> QED
      BY <2>6, <2>7, <2>8, <2>9, <2>10
  <1> QED
    BY <1>1, AccountsInvariant, PTL DEF AccountsSpec, LastAdminBlockedByBlocked

-----------------------------------------------------------------------------

\* The directory that the accounts show.
Registered == {e \in Emails : Exists(e)}
Blocked == {e \in Emails : Exists(e) /\ ~Active(e)}
Admins == {e \in Emails : Exists(e) /\ account[e].role = "admin"}

\* A step that changes no row shows no change.
LEMMA NothingShown ==
  ASSUME \A e \in Emails :
             /\ Exists(e)' <=> Exists(e)
             /\ Active(e)' <=> Active(e)
             /\ Exists(e) => (account'[e].role = "admin" <=> account[e].role = "admin")
  PROVE  UNCHANGED <<Registered, Blocked, Admins>>
  BY DEF Registered, Blocked, Admins

\* A registration shows as one new address.
LEMMA RegistrationShows ==
  ASSUME AccountsInv, NEW s \in Sessions, CommitUser(s)
  PROVE  \E e \in Emails : D!Register(e)
  <1> DEFINE e == call[s].email
             r == [role |-> "user", active |-> TRUE, named |-> call[s].flag]
  <1>1. /\ e \in Emails /\ account[e] = NoAccount
        /\ account' = [account EXCEPT ![e] = r]
        /\ r \in Row /\ r.active = TRUE /\ r.role = "user"
    BY UserCommitted
  <1>2. r # NoAccount
    BY <1>1, AccountsAssumption
  <1> HIDE DEF e, r
  <1>3. /\ account'[e] = r
        /\ \A x \in Emails \ {e} : account'[x] = account[x]
    BY <1>1 DEF AccountsInv, AccountsTypeOK
  <1>4. e \notin Registered /\ Registered' = Registered \cup {e}
    BY <1>1, <1>2, <1>3 DEF Registered, Exists
  <1>5. Blocked' = Blocked
    BY <1>1, <1>3 DEF Blocked, Exists, Active
  <1>6. Admins' = Admins
    BY <1>1, <1>3 DEF Admins, Exists
  <1> QED
    BY <1>1, <1>4, <1>5, <1>6 DEF D!Register, Registered, Blocked, Admins

\* An account switch shows as a block while another administrator is there, as
\* the end of a block, or not at all.
LEMMA SwitchShows ==
  ASSUME AccountsInv, NEW s \in Sessions, SaveStatus(s)
  PROVE  \/ \E e \in Emails : D!Block(e) \/ D!Unblock(e)
         \/ UNCHANGED <<Registered, Blocked, Admins>>
  <1> DEFINE e == call[s].email
             by == call[s].by
             on == call[s].flag
  <1>1. /\ e \in Emails /\ Exists(e) /\ account[e] \in Row /\ account'[e] \in Row
        /\ by \in Emails /\ Exists(by) /\ account[by].role = "admin"
        /\ e = by => on
        /\ \A x \in Emails \ {e} : account'[x] = account[x]
        /\ account'[e].role = account[e].role
        /\ account'[e].active \in {account[e].active, on}
    BY StatusSaved
  <1> HIDE DEF e, by, on
  <1>2. account'[e] # NoAccount /\ Registered' = Registered /\ Admins' = Admins
    BY <1>1, AccountsAssumption DEF Registered, Admins, Exists
  <1>3. by \in Admins
    BY <1>1 DEF Admins
  <1>4. CASE account[e].active /\ ~account'[e].active
    <2>1. e # by
      BY <1>1, <1>4
    <2>2. Blocked' = Blocked \cup {e}
      BY <1>1, <1>2, <1>4 DEF Blocked, Exists, Active
    <2>3. D!Block(e)
      BY <1>1, <1>2, <1>3, <2>1, <2>2 DEF D!Block, Registered, Blocked, Admins
    <2> QED
      BY <1>1, <2>3
  <1>5. CASE ~account[e].active /\ account'[e].active
    <2>1. e \in Blocked /\ Blocked' = Blocked \ {e}
      BY <1>1, <1>2, <1>5 DEF Blocked, Exists, Active
    <2>2. D!Unblock(e)
      BY <1>2, <1>3, <2>1 DEF D!Unblock, Registered, Blocked, Admins
    <2> QED
      BY <1>1, <2>2
  <1>6. CASE account[e].active <=> account'[e].active
    <2>1. Blocked' = Blocked
      BY <1>1, <1>2, <1>6 DEF Blocked, Exists, Active
    <2> QED
      BY <1>2, <2>1
  <1> QED
    BY <1>4, <1>5, <1>6

\* A transaction of a start-up shows as its restoration, which may leave blocked
\* who was blocked while it ran.
LEMMA StartUpShows ==
  ASSUME AccountsInv, NEW s \in Sessions, CommitLocalAccounts(s)
  PROVE  \/ D!Restore(IF LocalAdminEnabled THEN {LocalAdmin} ELSE {}, "admin")
         \/ D!Restore(IF LocalAdminEnabled THEN Range(DemoUsers) ELSE {}, "user")
  <1> DEFINE group == Range(Job(s).emails)
             role  == Job(s).role
             freed == {e \in group : Exists(e) /\ ~Active(e) /\ account'[e].active}
  <1>1. /\ LocalAdminEnabled /\ call[s].job \in {1, 2} /\ group \subseteq Emails
        /\ \A e \in Emails \ group : account'[e] = account[e]
        /\ \A e \in group :
               /\ account'[e] \in Row
               /\ account'[e].role = role
               /\ Exists(e) /\ account[e].role = "admin" => role = "admin"
               /\ Exists(e) /\ account[e].active => account'[e].active
               /\ ~Exists(e) => account'[e].active
    BY LocalAccountsCommitted
  <1>2. \/ role = "admin" /\ group = {LocalAdmin}
        \/ role = "user" /\ group = Range(DemoUsers)
    BY <1>1, Jobs DEF Job
  <1> HIDE DEF group, role
  <1>3. \A e \in group : account'[e] # NoAccount
    BY <1>1, AccountsAssumption
  <1>4. Registered' = Registered \cup group
    BY <1>1, <1>3 DEF Registered, Exists
  <1>5. Blocked' = Blocked \ freed /\ freed \in SUBSET group
    BY <1>1, <1>3 DEF Blocked, Exists, Active
  <1>6. Admins' = IF role = "admin" THEN Admins \cup group ELSE Admins
    <2>1. CASE role = "admin"
      BY <1>1, <1>3, <2>1 DEF Admins, Exists
    <2>2. CASE role # "admin"
      BY <1>1, <1>3, <2>2 DEF Admins, Exists
    <2> QED
      BY <2>1, <2>2
  <1> HIDE DEF freed
  <1>7. CASE role = "admin" /\ group = {LocalAdmin}
    <2>1. group = IF LocalAdminEnabled THEN {LocalAdmin} ELSE {}
      BY <1>1, <1>7
    <2>2. Admins' = Admins \cup group
      BY <1>6, <1>7
    <2> QED
      BY <1>4, <1>5, <2>1, <2>2 DEF D!Restore, Registered, Blocked, Admins
  <1>8. CASE role = "user" /\ group = Range(DemoUsers)
    <2>1. group = IF LocalAdminEnabled THEN Range(DemoUsers) ELSE {}
      BY <1>1, <1>8
    <2>2. Admins' = Admins
      BY <1>6, <1>8
    <2> QED
      BY <1>4, <1>5, <2>1, <2>2 DEF D!Restore, Registered, Blocked, Admins
  <1> QED
    BY <1>2, <1>7, <1>8

\* The accounts implement the directory: what races, goes stale or fails between
\* the sessions never shows.
THEOREM AccountsImplementDirectory == AccountsSpec => ImplementsDirectory
  <1>1. AccountsInit => D!DirectoryInit
    <2> SUFFICES ASSUME AccountsInit PROVE D!DirectoryInit
      OBVIOUS
    <2> DEFINE f == [role |-> "admin", active |-> TRUE, named |-> FALSE]
    <2>1. f \in Row /\ f.role = "admin" /\ f.active = TRUE /\ NoAccount \notin Row
      BY AccountsAssumption DEF Row, RoleNames
    <2>2. account = [e \in Emails |-> IF e \in Founders THEN f ELSE NoAccount]
      BY DEF AccountsInit
    <2> HIDE DEF f
    <2> QED
      BY <2>1, <2>2, AccountsAssumption DEF D!DirectoryInit, Exists, Active
  <1>2. AccountsInv /\ [AccountsNext]_accountsVars
            => [D!DirectoryNext]_(D!directoryVars)
    <2> SUFFICES ASSUME AccountsInv, [AccountsNext]_accountsVars
                 PROVE  D!DirectoryNext \/ UNCHANGED <<Registered, Blocked, Admins>>
      BY DEF D!directoryVars, Registered, Blocked, Admins
    <2>1. CASE UNCHANGED accountsVars
      BY <2>1 DEF accountsVars, Registered, Blocked, Admins, Exists, Active
    <2>2. ASSUME NEW s \in Sessions, Reading(s) \/ Writing(s)
          PROVE  D!DirectoryNext \/ UNCHANGED <<Registered, Blocked, Admins>>
      <3>1. CASE Reading(s)
        <4>1. account' = account
          BY <3>1, Frame DEF AccountsInv
        <4> QED
          BY <4>1 DEF Registered, Blocked, Admins, Exists, Active
      <3>2. CASE CommitUser(s)
        BY <3>2, RegistrationShows DEF D!DirectoryNext
      <3>3. CASE CommitLocalAccounts(s)
        BY <3>3, StartUpShows DEF D!DirectoryNext
      <3>4. CASE SaveProfile(s)
        <4> DEFINE e == call[s].email
        <4>1. /\ e \in Emails /\ Exists(e) /\ account'[e] \in Row
              /\ \A x \in Emails \ {e} : account'[x] = account[x]
              /\ account'[e].role = account[e].role
              /\ account'[e].active = account[e].active
          BY <3>4, ProfileSaved
        <4> HIDE DEF e
        <4> QED
          BY <4>1, NothingShown, AccountsAssumption DEF Exists, Active
      <3>5. CASE SaveStatus(s)
        BY <3>5, SwitchShows DEF D!DirectoryNext
      <3> QED
        BY <2>2, <3>1, <3>2, <3>3, <3>4, <3>5 DEF Writing
    <2> QED
      BY <2>1, <2>2, Steps
  <1> QED
    BY <1>1, <1>2, AccountsInvariant, PTL
       DEF AccountsSpec, ImplementsDirectory, D!DirectorySpec

=============================================================================

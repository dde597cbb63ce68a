------------------------------ MODULE Accounts ------------------------------
(***************************************************************************)
(* app.users and app.auth with the account switch of app.admin: concurrent *)
(* registrations, log-ins, profile updates, status changes by admins, and  *)
(* start-ups of API processes that create the local accounts.              *)
(*                                                                         *)
(* A handler is a database session.  A SELECT is a step, a flush with its  *)
(* commit is a step (autoflush is off), except that ensure_role flushes a  *)
(* new role long before it is committed.  SQLAlchemy writes the columns    *)
(* whose value differs from the one the session has read, so a session     *)
(* keeps the rows it has read.  A bearer token is a client's affair (module *)
(* Dashboard): nothing but its age takes it back, so a request of any      *)
(* account may arrive at any time.  A name is given or not; the balance of *)
(* an account is a row of module Billing.                                  *)
(***************************************************************************)
EXTENDS Integers, Sequences, FiniteSets, SequencesExt

CONSTANTS
    Emails,      \* normalized e-mail addresses
    Founders,    \* administrators inserted by hand before the service runs
    LocalAdmin,  \* settings.local_admin_email
    DemoUsers,   \* LOCAL_DEMO_USERS, a sequence of addresses
    Settings,    \* the runtime settings that matter here
    Sessions,    \* database sessions that can be open at the same time
    Names,       \* whether a full name is given: the values that clients send
    NoAccount,   \* an address without a row in table users
    NoCall,      \* an idle session
    NoRole       \* a session without an uncommitted role

VARIABLES
    roles,       \* committed rows of table roles
    account,     \* account[e]: the committed row of e, or NoAccount
    pc,          \* pc[s]: the next statement of session s
    call,        \* call[s]: what it was called for
    read,        \* read[s][e]: row e as session s has read it
    newRole      \* newRole[s]: the role it has flushed and not committed

accountsVars == <<roles, account, pc, call, read, newRole>>

\* validate_security_settings, where it bears on this module.
Starts(s) ==
    /\ s.bootstrap => s.env \in {"local", "dev", "development"}
    /\ \/ s.env \in {"local", "dev", "development", "test"}
       \/ ~s.debug /\ ~s.defaultSecret

LocalAdminEnabled == Settings.bootstrap /\ Settings.env \in {"local", "dev", "development"}

RoleNames == {"user", "admin"}
Row == [role: RoleNames, active: BOOLEAN, named: BOOLEAN]

\* The transactions of a start-up: ensure_local_admin_user, then
\* ensure_local_demo_users.
StartUpJobs == << [role |-> "admin", emails |-> <<LocalAdmin>>],
                  [role |-> "user", emails |-> DemoUsers] >>

Calls ==
    [op: {"register"}, email: Emails, flag: BOOLEAN]
    \cup [op: {"profile"}, email: Emails, flag: BOOLEAN]
    \cup [op: {"status"}, email: Emails, flag: BOOLEAN, by: Emails]
    \cup [op: {"startup"}, job: DOMAIN StartUpJobs, done: 0..Len(DemoUsers)]

ASSUME AccountsAssumption ==
    /\ Founders \subseteq Emails
    /\ LocalAdmin \in Emails
    /\ DemoUsers \in Seq(Emails) /\ DemoUsers # <<>>
    /\ LocalAdmin \notin Range(DemoUsers)
    /\ Founders \cap Range(DemoUsers) = {}
    /\ Starts(Settings)
    /\ Names \subseteq BOOLEAN
    /\ NoAccount \notin Row
    /\ NoCall \notin Calls
    /\ NoRole \notin RoleNames

-----------------------------------------------------------------------------

Exists(e) == account[e] # NoAccount
Active(e) == Exists(e) /\ account[e].active
ActiveAdmins == {e \in Emails : Active(e) /\ account[e].role = "admin"}

NothingRead == [e \in Emails |-> NoAccount]

\* What a flush leaves in a row: the columns whose value is not the one read.
WriteColumns(row, base, new) ==
    [c \in DOMAIN row |-> IF new[c] # base[c] THEN new[c] ELSE row[c]]

Job(s) == StartUpJobs[call[s].job]
RoleOf(s) == IF call[s].op = "startup" THEN Job(s).role ELSE "user"

\* The unique index on users.email, for the rows a session is going to insert.
EmailFree(s) == TRUE
EmailUnique(s) ==
    IF call[s].op = "register"
    THEN ~Exists(call[s].email)
    ELSE \A e \in Range(Job(s).emails) : read[s][e] = NoAccount => ~Exists(e)

-----------------------------------------------------------------------------

AccountsInit ==
    /\ roles = IF Founders = {} THEN {} ELSE {"admin"}
    /\ account = [e \in Emails |->
           IF e \in Founders
           THEN [role |-> "admin", active |-> TRUE, named |-> FALSE]
           ELSE NoAccount]
    /\ pc = [s \in Sessions |-> "idle"]
    /\ call = [s \in Sessions |-> NoCall]
    /\ read = [s \in Sessions |-> NothingRead]
    /\ newRole = [s \in Sessions |-> NoRole]

\* A handler begins with what its dependencies have read.
Serve(s, stage, what, rows) ==
    /\ pc[s] = "idle"
    /\ pc' = [pc EXCEPT ![s] = stage]
    /\ call' = [call EXCEPT ![s] = what]
    /\ read' = [read EXCEPT ![s] = rows]
    /\ UNCHANGED <<roles, account, newRole>>

Goto(s, stage) ==
    /\ pc' = [pc EXCEPT ![s] = stage]
    /\ UNCHANGED <<roles, account, call>>

EndSession(s) ==
    /\ pc' = [pc EXCEPT ![s] = "idle"]
    /\ call' = [call EXCEPT ![s] = NoCall]
    /\ read' = [read EXCEPT ![s] = NothingRead]
    /\ newRole' = [newRole EXCEPT ![s] = NoRole]

\* The session is closed, or rolled back: nothing it has flushed remains.
Refuse(s) == EndSession(s) /\ UNCHANGED <<roles, account>>

RolesWith(s) == IF newRole[s] = NoRole THEN roles ELSE roles \cup {newRole[s]}

-----------------------------------------------------------------------------

\* get_current_user, when a request with a bearer token of e arrives.
AuthorizedByToken(e) == Exists(e)
Authorized(e) == Active(e)

RegisterUser(s, e, named) ==
    Serve(s, "lookup", [op |-> "register", email |-> e, flag |-> named], NothingRead)

\* create_user: the address is taken (409), or the role is needed next.
FindEmail(s) ==
    /\ pc[s] = "lookup"
    /\ IF Exists(call[s].email)
       THEN Refuse(s)
       ELSE Goto(s, "role") /\ UNCHANGED <<read, newRole>>

AfterRole(s) == IF call[s].op = "startup" THEN "load" ELSE "write"

\* ensure_role: SELECT, which sees committed roles only.
RoleTakenForGranted(s) ==
    /\ pc[s] = "role"
    /\ Goto(s, AfterRole(s))
    /\ UNCHANGED <<read, newRole>>
FindRole(s) ==
    /\ pc[s] = "role"
    /\ Goto(s, IF RoleOf(s) \in roles THEN AfterRole(s) ELSE "addrole")
    /\ UNCHANGED <<read, newRole>>

\* Its flush waits while another session has flushed the same role.
NoRoleInFlight(s) == FALSE
RoleInFlight(s) == \E t \in Sessions \ {s} : newRole[t] = RoleOf(s)

FlushRole(s) ==
    /\ pc[s] = "addrole"
    /\ ~RoleInFlight(s)
    /\ RoleOf(s) \notin roles
    /\ newRole' = [newRole EXCEPT ![s] = RoleOf(s)]
    /\ Goto(s, AfterRole(s))
    /\ UNCHANGED read

\* IntegrityError, which nobody catches: a registration answers 500, a start-up
\* fails.
RoleConflict(s) ==
    /\ pc[s] = "addrole"
    /\ RoleOf(s) \in roles
    /\ Refuse(s)

\* The commit of create_user.
CommitUser(s) ==
    /\ pc[s] = "write"
    /\ call[s].op = "register"
    /\ EmailUnique(s)
    /\ account' = [account EXCEPT ![call[s].email] =
           [role |-> "user", active |-> TRUE, named |-> call[s].flag]]
    /\ roles' = RolesWith(s)
    /\ EndSession(s)

\* IntegrityError of an INSERT: 409, or the start-up fails.
DuplicateUser(s) ==
    /\ pc[s] = "write"
    /\ call[s].op \in {"register", "startup"}
    /\ ~EmailUnique(s)
    /\ Refuse(s)

-----------------------------------------------------------------------------

\* lifespan: an API process starts.
StartUp(s) ==
    /\ LocalAdminEnabled
    /\ Serve(s, "role", [op |-> "startup", job |-> 1, done |-> 0], NothingRead)

\* SELECT of the next account of the transaction.
LoadLocalAccount(s) ==
    LET emails == Job(s).emails
        i      == call[s].done + 1
    IN
    /\ pc[s] = "load"
    /\ read' = [read EXCEPT ![s][emails[i]] = account[emails[i]]]
    /\ call' = [call EXCEPT ![s].done = i]
    /\ pc' = [pc EXCEPT ![s] = IF i = Len(emails) THEN "write" ELSE "load"]
    /\ UNCHANGED <<roles, account, newRole>>

\* A local account as the commit leaves it.
Restored(s, e) ==
    IF read[s][e] = NoAccount
    THEN [role |-> Job(s).role, active |-> TRUE, named |-> TRUE]
    ELSE WriteColumns(account[e], read[s][e],
             [role |-> Job(s).role, active |-> TRUE, named |-> TRUE])

CommitLocalAccounts(s) ==
    /\ pc[s] = "write"
    /\ call[s].op = "startup"
    /\ EmailUnique(s)
    /\ account' = [e \in Emails |->
           IF e \in Range(Job(s).emails) THEN Restored(s, e) ELSE account[e]]
    /\ roles' = RolesWith(s)
    /\ IF call[s].job = Len(StartUpJobs)
       THEN EndSession(s)
       ELSE /\ pc' = [pc EXCEPT ![s] = "role"]
            /\ call' = [call EXCEPT ![s] =
                   [op |-> "startup", job |-> call[s].job + 1, done |-> 0]]
            /\ newRole' = [newRole EXCEPT ![s] = NoRole]
            /\ UNCHANGED read

-----------------------------------------------------------------------------

\* PATCH /users/me.
UpdateMe(s, e, named) ==
    /\ Authorized(e)
    /\ Serve(s, "write", [op |-> "profile", email |-> e, flag |-> named],
             [NothingRead EXCEPT ![e] = account[e]])

SaveWholeProfile(s) ==
    LET e == call[s].email IN
    /\ pc[s] = "write"
    /\ call[s].op = "profile"
    /\ account' = [account EXCEPT ![e] = [read[s][e] EXCEPT !.named = call[s].flag]]
    /\ EndSession(s)
    /\ UNCHANGED roles
SaveProfile(s) ==
    LET e == call[s].email IN
    /\ pc[s] = "write"
    /\ call[s].op = "profile"
    /\ account' = [account EXCEPT ![e] =
           WriteColumns(@, read[s][e], [read[s][e] EXCEPT !.named = call[s].flag])]
    /\ EndSession(s)
    /\ UNCHANGED roles

\* PATCH /admin/users/{user_id}/status, behind require_roles("admin").
UpdateUserStatus(s, admin, e, active) ==
    /\ Authorized(admin)
    /\ account[admin].role = "admin"
    /\ Serve(s, "target",
             [op |-> "status", email |-> e, flag |-> active, by |-> admin],
             [NothingRead EXCEPT ![admin] = account[admin]])

BlocksNobody(s) == FALSE
BlocksSelf(s) == call[s].email = call[s].by /\ ~call[s].flag

\* session.get: the admin's own row is in the identity map already.  404 and
\* 409 end the request.
LoadTarget(s) ==
    LET e == call[s].email IN
    /\ pc[s] = "target"
    /\ IF ~Exists(e) \/ BlocksSelf(s)
       THEN Refuse(s)
       ELSE /\ read' = [read EXCEPT ![s][e] = IF @ = NoAccount THEN account[e] ELSE @]
            /\ Goto(s, "write")
            /\ UNCHANGED newRole

SaveStatus(s) ==
    LET e == call[s].email IN
    /\ pc[s] = "write"
    /\ call[s].op = "status"
    /\ account' = [account EXCEPT ![e] =
           WriteColumns(@, read[s][e], [read[s][e] EXCEPT !.active = call[s].flag])]
    /\ EndSession(s)
    /\ UNCHANGED roles

\* The process or the connection ends.
Abort(s) == pc[s] # "idle" /\ Refuse(s)

-----------------------------------------------------------------------------

Begin(s) ==
    \/ StartUp(s)
    \/ \E e \in Emails, named \in Names : RegisterUser(s, e, named) \/ UpdateMe(s, e, named)
    \/ \E admin, e \in Emails, active \in BOOLEAN : UpdateUserStatus(s, admin, e, active)

Continue(s) ==
    \/ FindEmail(s)
    \/ FindRole(s)
    \/ FlushRole(s)
    \/ RoleConflict(s)
    \/ CommitUser(s)
    \/ DuplicateUser(s)
    \/ LoadLocalAccount(s)
    \/ CommitLocalAccounts(s)
    \/ SaveProfile(s)
    \/ LoadTarget(s)
    \/ SaveStatus(s)

AccountsNext ==
    \E s \in Sessions : Begin(s) \/ Continue(s) \/ Abort(s)

AccountsSpec == AccountsInit /\ [][AccountsNext]_accountsVars

\* A handler that runs goes on, and PostgreSQL serves the sessions that wait
\* for a role in the order they came: strong fairness.
FairAccountsSpec == AccountsSpec /\ \A s \in Sessions : SF_accountsVars(Continue(s))

-----------------------------------------------------------------------------

\* Rows have their types, and the foreign key users.role_id holds although a
\* role is flushed by one session and looked up by others.
AccountsTypeOK ==
    /\ roles \subseteq RoleNames
    /\ account \in [Emails -> Row \cup {NoAccount}]
    /\ pc \in [Sessions -> {"idle", "lookup", "role", "addrole", "load", "target", "write"}]
    /\ call \in [Sessions -> Calls \cup {NoCall}]
    /\ read \in [Sessions -> [Emails -> Row \cup {NoAccount}]]
    /\ newRole \in [Sessions -> RoleNames \cup {NoRole}]
    /\ \A e \in Emails : Exists(e) => account[e].role \in roles

\* The commit of a registration or a start-up cannot fail for its role: what it
\* has flushed no other session has flushed or committed since it looked.
FlushedRoleIsFree ==
    \A s \in Sessions :
        newRole[s] # NoRole =>
            /\ newRole[s] \notin roles
            /\ \A t \in Sessions \ {s} : newRole[t] # newRole[s]

D == INSTANCE Directory WITH
         StartUpAdmins <- IF LocalAdminEnabled THEN {LocalAdmin} ELSE {},
         StartUpUsers  <- IF LocalAdminEnabled THEN Range(DemoUsers) ELSE {},
         registered    <- {e \in Emails : Exists(e)},
         blocked       <- {e \in Emails : Exists(e) /\ ~Active(e)},
         admins        <- {e \in Emails : Exists(e) /\ account[e].role = "admin"}

\* Racing registrations, stale reads and failed sessions are invisible in the
\* accounts: an address is registered once, and only a local start-up makes an
\* account an administrator (docs/authentication.md: "Admin accounts are not
\* self-service").
ImplementsDirectory == D!DirectorySpec

Writes(s) == pc[s] = "write" /\ call'[s] # call[s]

\* The call of s asks for an active account e.
Activates(s, e) ==
    \/ call[s].op = "status" /\ call[s].email = e /\ call[s].flag
    \/ call[s].op = "startup" /\ e \in Range(Job(s).emails)

\* A blocked account comes back only when an admin or a start-up asks for it: a
\* profile update that has read the row before the block does not undo it.
BlockedStaysBlocked ==
    [][\A e \in Emails :
           Exists(e) /\ ~Active(e) /\ Active(e)' =>
               \E s \in Sessions : Writes(s) /\ Activates(s, e)]_accountsVars

\* Admins cannot block themselves, so the last active one is only blocked by a
\* request of an admin who was blocked while that request was under way.
LastAdminBlockedByBlocked ==
    [][ActiveAdmins # {} /\ ActiveAdmins' = {} =>
           \E s \in Sessions :
               Writes(s) /\ call[s].op = "status" /\ call[s].by \notin ActiveAdmins
      ]_accountsVars

RequestOf(s, e) ==
    \/ call[s] # NoCall /\ call[s].op = "profile" /\ call[s].email = e
    \/ call[s] # NoCall /\ call[s].op = "status" /\ call[s].by = e

\* Tokens outlive a block, the requests made with them do not: while an account
\* is blocked its requests that were under way come to an end and none follows.
BlockedFallsSilent ==
    \A e \in Emails :
        Exists(e) /\ ~Active(e) ~>
            Active(e) \/ \A s \in Sessions : ~RequestOf(s, e)

=============================================================================

------------------------------- MODULE Billing -------------------------------
(***************************************************************************)
(* app.billing: credit_user_balance and debit_user_balance as concurrent   *)
(* PostgreSQL sessions run them (READ COMMITTED, SELECT ... FOR UPDATE on  *)
(* the balance row, unique idempotency keys).  A session is one request    *)
(* handler or one worker run; balance and ledger hold what is committed,   *)
(* pc, req and seen what the open transaction of a session has done.       *)
(*                                                                         *)
(* A statement is a step.  Between two steps of a session every other      *)
(* session may run, and any session may crash (its transaction is rolled   *)
(* back).  A client or worker that retries simply begins again.            *)
(***************************************************************************)
EXTENDS Integers, Sequences

CONSTANTS
    Users,       \* ids of the rows of table users
    Sessions,    \* database sessions that can be open at the same time
    Requests,    \* the credits and debits that callers ask for
    MaxCredits,  \* the largest value of an integer column
    MaxRows,     \* bound of the model: no request begins on a longer ledger
    NoRow,       \* a user without a credit_balances row
    NoKey,       \* a NULL idempotency key
    BlankKey,    \* the empty string as idempotency key
    NoRequest    \* an idle session

VARIABLES
    balance,     \* balance[u]: committed credits_available of u, or NoRow
    ledger,      \* ledger[u]: committed billing_transactions of u
    pc,          \* pc[s]: the next statement of session s
    req,         \* req[s]: the arguments it was called with
    seen         \* seen[s]: the balance it read under the row lock

billingVars == <<balance, ledger, pc, req, seen>>

CL == INSTANCE CreditLedger

ASSUME BillingAssumption ==
    /\ MaxCredits \in Nat
    /\ MaxRows \in Nat
    /\ NoRow \notin Int
    /\ NoRequest \notin Requests
    /\ BlankKey # NoKey
    /\ \A r \in Requests :
           /\ r.type \in CL!Types
           /\ r.direction \in CL!Directions
           /\ r.amount \in Nat \ {0}

\* "lookup"    about to search the ledger for the idempotency key
\* "lock"      about to SELECT the balance row FOR UPDATE
\* "create"    that SELECT found no row: about to INSERT one
\* "apply"     holds the balance row: about to change it
\* "flushed"   balance updated and ledger row inserted, not committed
\* "existing"  the key was found: nothing to write
\* "refused"   InsufficientCreditsError raised, balance row still locked
Stages == {"idle", "lookup", "lock", "create", "apply", "flushed",
           "existing", "refused"}

-----------------------------------------------------------------------------

HasBalance(u) == u \in Users /\ balance[u] # NoRow

\* The FOR UPDATE lock of a balance row, or the uncommitted INSERT of it.
HoldsBalance(s, u) ==
    pc[s] \in {"apply", "flushed", "refused"} /\ req[s].user = u

LockIgnored(u) == TRUE
LockFree(u) == \A s \in Sessions : ~HoldsBalance(s, u)

\* _get_existing_transaction: a NULL or empty key is never looked up, and only
\* committed rows are visible.
FoundByKey(k) == k \notin {NoKey, BlankKey} /\ CL!Posted(k)

\* The unique index on idempotency_key: an uncommitted row of another session
\* makes an INSERT wait, a committed one makes it fail.
KeyNeverInFlight(s) == FALSE
KeyInFlight(s) ==
    \E t \in Sessions \ {s} :
        pc[t] = "flushed" /\ req[t].key = req[s].key /\ req[s].key # NoKey

DuplicateKeyUnchecked(s) == FALSE
DuplicateKey(s) == req[s].key # NoKey /\ CL!Posted(req[s].key)

After(s) == seen[s] + CL!Effect(req[s])

CoversAnything(s) == TRUE
Covered(s) == req[s].direction = "credit" \/ seen[s] >= req[s].amount

-----------------------------------------------------------------------------

BillingInit ==
    /\ CL!LedgerInit
    /\ pc = [s \in Sessions |-> "idle"]
    /\ req = [s \in Sessions |-> NoRequest]
    /\ seen = [s \in Sessions |-> 0]

Goto(s, stage) ==
    /\ pc' = [pc EXCEPT ![s] = stage]
    /\ UNCHANGED <<balance, ledger, req>>

\* The session is closed: its row locks and uncommitted rows are gone.
Close(s) ==
    /\ pc' = [pc EXCEPT ![s] = "idle"]
    /\ req' = [req EXCEPT ![s] = NoRequest]
    /\ seen' = [seen EXCEPT ![s] = 0]

Rollback(s) == Close(s) /\ UNCHANGED <<balance, ledger>>

\* A caller enters credit_user_balance or debit_user_balance.
Begin(s, r) ==
    /\ pc[s] = "idle"
    /\ r.user \in Users => Len(ledger[r.user]) < MaxRows
    /\ pc' = [pc EXCEPT ![s] = "lookup"]
    /\ req' = [req EXCEPT ![s] = r]
    /\ UNCHANGED <<balance, ledger, seen>>

GetExistingTransaction(s) ==
    /\ pc[s] = "lookup"
    /\ Goto(s, IF FoundByKey(req[s].key) THEN "existing" ELSE "lock")
    /\ UNCHANGED seen

\* get_credit_balance(lock=True): waits while another session holds the row.
\* A row that is not committed yet is not seen and not waited for.
LockBalance(s) ==
    LET u == req[s].user IN
    /\ pc[s] = "lock"
    /\ \/ /\ HasBalance(u)
          /\ LockFree(u)
          /\ Goto(s, "apply")
          /\ seen' = [seen EXCEPT ![s] = balance[u]]
       \/ /\ ~HasBalance(u)
          /\ Goto(s, "create")
          /\ UNCHANGED seen

\* The fallback of get_credit_balance: INSERT an empty balance.  The unique
\* user_id makes it wait for an uncommitted INSERT of another session.
CreateBalance(s) ==
    LET u == req[s].user IN
    /\ pc[s] = "create"
    /\ u \in Users
    /\ LockFree(u)
    /\ balance[u] = NoRow
    /\ Goto(s, "apply")
    /\ seen' = [seen EXCEPT ![s] = 0]

\* BillingTargetNotFoundError: there is no such user.
TargetNotFound(s) ==
    /\ pc[s] = "create"
    /\ req[s].user \notin Users
    /\ Rollback(s)

\* IntegrityError: another session committed the balance row first.
BalanceConflict(s) ==
    /\ pc[s] = "create"
    /\ HasBalance(req[s].user)
    /\ LockFree(req[s].user)
    /\ Rollback(s)

\* The flush: UPDATE the balance, then INSERT the ledger row.
PostTransaction(s) ==
    /\ pc[s] = "apply"
    /\ Covered(s)
    /\ After(s) <= MaxCredits
    /\ ~KeyInFlight(s)
    /\ ~DuplicateKey(s)
    /\ Goto(s, "flushed")
    /\ UNCHANGED seen

\* IntegrityError: the key was committed after this session looked for it.
KeyConflict(s) ==
    /\ pc[s] = "apply"
    /\ Covered(s)
    /\ After(s) <= MaxCredits
    /\ DuplicateKey(s)
    /\ Rollback(s)

\* DataError: the new balance does not fit into an integer column.
Overflow(s) ==
    /\ pc[s] = "apply"
    /\ Covered(s)
    /\ After(s) > MaxCredits
    /\ Rollback(s)

\* InsufficientCreditsError.
Refuse(s) ==
    /\ pc[s] = "apply"
    /\ ~Covered(s)
    /\ Goto(s, "refused")
    /\ UNCHANGED seen

\* The adjustment handler answers 402 and its session is closed.
CloseRefused(s) ==
    /\ pc[s] = "refused"
    /\ req[s].type # "prediction_debit"
    /\ Rollback(s)

\* The worker catches the error and commits, with a balance row it inserted.
CommitRefused(s) ==
    LET u == req[s].user IN
    /\ pc[s] = "refused"
    /\ req[s].type = "prediction_debit"
    /\ balance' = [balance EXCEPT ![u] = CL!Available(u)]
    /\ UNCHANGED ledger
    /\ Close(s)

Commit(s) ==
    LET u == req[s].user IN
    /\ pc[s] = "flushed"
    /\ balance' = [balance EXCEPT ![u] = After(s)]
    /\ ledger' = [ledger EXCEPT ![u] = Append(@, CL!RowFor(req[s], After(s)))]
    /\ Close(s)

\* The key had been posted: the caller gets that row, and commits nothing.
CommitExisting(s) == pc[s] = "existing" /\ Rollback(s)

\* The process, the connection or the client's patience ends.
Crash(s) == pc[s] # "idle" /\ Rollback(s)

-----------------------------------------------------------------------------

\* The ways a billing call fails, other than a crash.
Fail(s) ==
    \/ TargetNotFound(s)
    \/ BalanceConflict(s)
    \/ KeyConflict(s)
    \/ Overflow(s)
    \/ CloseRefused(s)

\* The statements inside credit_user_balance and debit_user_balance.
Statement(s) ==
    \/ GetExistingTransaction(s)
    \/ LockBalance(s)
    \/ CreateBalance(s)
    \/ PostTransaction(s)
    \/ Refuse(s)

Progress(s) ==
    Statement(s) \/ Fail(s) \/ Commit(s) \/ CommitExisting(s) \/ CommitRefused(s)

BillingNext ==
    \E s \in Sessions :
        \/ \E r \in Requests : Begin(s, r)
        \/ Progress(s)
        \/ Crash(s)

BillingSpec == BillingInit /\ [][BillingNext]_billingVars

-----------------------------------------------------------------------------

TypeOK ==
    /\ balance \in [Users -> 0..MaxCredits \cup {NoRow}]
    /\ ledger \in [Users -> Seq(CL!Row)]
    /\ pc \in [Sessions -> Stages]
    /\ req \in [Sessions -> Requests \cup {NoRequest}]
    /\ seen \in [Sessions -> 0..MaxCredits]
    /\ \A s \in Sessions :
           /\ pc[s] = "idle" <=> req[s] = NoRequest
           /\ pc[s] \in {"apply", "flushed", "refused"} => req[s].user \in Users

\* docs/database.md, "Billing Transaction Strategy": the balance and its ledger
\* rows change together, so each user's rows always add up to the balance,
\* however the sessions interleave, fail and retry.
LedgerExplainsBalance == CL!LedgerExplainsBalance

\* docs/billing.md: a repeated operation with the same key never changes a
\* balance twice, although the key is looked up before the balance is locked.
KeysPostedOnce == CL!KeysPostedOnce

\* What the row lock is for: of the sessions that work on one balance at most
\* one has read it, and what it read is still the committed value.
NoLostUpdate ==
    \A s \in Sessions : \A u \in Users :
        HoldsBalance(s, u) =>
            /\ seen[s] = CL!Available(u)
            /\ \A t \in Sessions \ {s} : ~HoldsBalance(t, u)

\* A commit cannot fail: once a session has flushed, no other session can post
\* or flush its key, or bring the balance where its result does not fit.
FlushedCanCommit ==
    \A s \in Sessions :
        pc[s] = "flushed" =>
            /\ After(s) \in 0..MaxCredits
            /\ ~DuplicateKey(s)
            /\ ~KeyInFlight(s)

\* The inductive invariant behind the theorems of BillingProofs.
IInv ==
    /\ TypeOK
    /\ NoLostUpdate
    /\ FlushedCanCommit
    /\ LedgerExplainsBalance
    /\ KeysPostedOnce

\* Sessions, locks and failures are invisible in what is committed: it changes
\* as the abstract ledger does.
ImplementsLedger == CL!LedgerSpec

\* A session of which the next statement, or its error, is possible now.
CanGoOn(s) ==
    \/ pc[s] \in {"lookup", "flushed", "existing", "refused"}
    \/ pc[s] = "lock" /\ (HasBalance(req[s].user) => LockFree(req[s].user))
    \/ pc[s] = "create" /\ (req[s].user \in Users => LockFree(req[s].user))
    \/ /\ pc[s] = "apply"
       /\ Covered(s) /\ After(s) <= MaxCredits /\ KeyInFlight(s) => DuplicateKey(s)

WaitsForBalance(s, t) ==
    pc[s] \in {"lock", "create"} /\ t # s /\ HoldsBalance(t, req[s].user)
WaitsForKey(s, t) ==
    pc[s] = "apply" /\ t # s /\ pc[t] = "flushed" /\ req[t].key = req[s].key

\* The order in which get_credit_balance(lock=True) and the flush lock: balance,
\* then key.  However many sessions there are, no circle of them waits for each
\* other: who holds a key waits for nobody, who holds a balance at most for a key.
WaitsEnd ==
    \A s \in Sessions :
        pc[s] # "idle" =>
            \/ CanGoOn(s)
            \/ \E t \in Sessions : WaitsForKey(s, t) /\ CanGoOn(t)
            \/ \E t \in Sessions :
                   /\ WaitsForBalance(s, t)
                   /\ CanGoOn(t) \/ \E v \in Sessions : WaitsForKey(t, v) /\ CanGoOn(v)

\* Every billing call ends: no wait for a balance row or a key is forever.
CallsEnd == \A s \in Sessions : pc[s] # "idle" ~> pc[s] = "idle"

=============================================================================

---------------------------- MODULE CreditLedger ----------------------------
(***************************************************************************)
(* What the billing package promises: one balance per user and an          *)
(* immutable list of ledger rows that explains it.  Every change of a      *)
(* balance is one step that also appends one row, a key is posted once,    *)
(* and no balance leaves 0..MaxCredits.  There are no sessions, locks or   *)
(* failures here: module Billing is shown to implement this one.           *)
(***************************************************************************)
EXTENDS Integers, Sequences

CONSTANTS
    Users,       \* ids of the rows of table users
    Requests,    \* the credits and debits that callers ask for
    MaxCredits,  \* the largest value of an integer column
    NoRow,       \* a user without a credit_balances row
    NoKey        \* a NULL idempotency key

VARIABLES
    balance,     \* balance[u]: credits_available of u, or NoRow
    ledger       \* ledger[u]: the billing_transactions of u, oldest first

ledgerVars == <<balance, ledger>>

Types == {"payment_credit", "prediction_debit", "promo_credit", "adjustment"}
Directions == {"credit", "debit"}

\* Keys and sources (payment, redemption or prediction ids) are opaque: only
\* the values that the requests carry ever reach the ledger.
Keys == {r.key : r \in Requests}
Sources == {r.source : r \in Requests}

Row == [type: Types, direction: Directions, amount: Nat \ {0},
        after: 0..MaxCredits, key: Keys, source: Sources]

-----------------------------------------------------------------------------

Available(u) == IF balance[u] = NoRow THEN 0 ELSE balance[u]

\* The amount with its sign: what a request or a ledger row adds to a balance.
Effect(r) == IF r.direction = "credit" THEN r.amount ELSE -r.amount

RowFor(r, after) ==
    [type |-> r.type, direction |-> r.direction, amount |-> r.amount,
     after |-> after, key |-> r.key, source |-> r.source]

Posted(k) == \E u \in Users : \E i \in DOMAIN ledger[u] : ledger[u][i].key = k

-----------------------------------------------------------------------------

LedgerInit ==
    /\ balance \in [Users -> {0, NoRow}]
    /\ ledger = [u \in Users |-> <<>>]

\* A user without a balance row gets an empty one.
Open(u) ==
    /\ balance[u] = NoRow
    /\ balance' = [balance EXCEPT ![u] = 0]
    /\ UNCHANGED ledger

\* One credit or debit: the balance and its ledger row change together.
Post(r) ==
    LET after == Available(r.user) + Effect(r) IN
    /\ r.user \in Users
    /\ after \in 0..MaxCredits
    /\ r.key = NoKey \/ ~Posted(r.key)
    /\ balance' = [balance EXCEPT ![r.user] = after]
    /\ ledger' = [ledger EXCEPT ![r.user] = Append(@, RowFor(r, after))]

LedgerNext ==
    \/ \E u \in Users : Open(u)
    \/ \E r \in Requests : Post(r)

LedgerSpec == LedgerInit /\ [][LedgerNext]_ledgerVars

-----------------------------------------------------------------------------

\* What row i of user u was computed from: the result of the row before it.
Before(u, i) == IF i = 1 THEN 0 ELSE ledger[u][i - 1].after

Latest(u) == IF ledger[u] = <<>> THEN 0 ELSE ledger[u][Len(ledger[u])].after

\* The history of each user adds up: every row starts from the result of the
\* row before it, and the current balance is the result of the last row.
LedgerExplainsBalance ==
    \A u \in Users :
        /\ \A i \in DOMAIN ledger[u] :
               ledger[u][i].after = Before(u, i) + Effect(ledger[u][i])
        /\ Available(u) = Latest(u)

\* No idempotency key is on two ledger rows, not even of different users.
KeysPostedOnce ==
    \A u, v \in Users :
        \A i \in DOMAIN ledger[u], j \in DOMAIN ledger[v] :
            /\ ledger[u][i].key # NoKey
            /\ ledger[u][i].key = ledger[v][j].key
            => u = v /\ i = j

=============================================================================

---------------------------- MODULE BillingProofs ----------------------------
(***************************************************************************)
(* Theorems about Billing, for any users, sessions, requests and bounds.   *)
(* IInv is inductive: the lock conjunct says that a session which has read *)
(* a balance is alone and up to date, the flush conjunct that what it has  *)
(* written can still be committed; the ledger conjuncts follow from them   *)
(* at the only step that writes, Commit.                                   *)
(***************************************************************************)
EXTENDS Billing, TLAPS

-----------------------------------------------------------------------------

\* The initial states satisfy the inductive invariant.
LEMMA InitIInv == BillingInit => IInv
  <1> SUFFICES ASSUME BillingInit PROVE IInv
    OBVIOUS
  <1> USE BillingAssumption DEF BillingInit, CL!LedgerInit
  <1>1. TypeOK
    BY DEF TypeOK, Stages
  <1>2. NoLostUpdate
    BY DEF NoLostUpdate, HoldsBalance
  <1>3. FlushedCanCommit
    BY DEF FlushedCanCommit
  <1>4. LedgerExplainsBalance
    <2> SUFFICES ASSUME NEW u \in Users
                 PROVE  /\ DOMAIN ledger[u] = {}
                        /\ CL!Available(u) = CL!Latest(u)
      BY DEF LedgerExplainsBalance, CL!LedgerExplainsBalance
    <2>1. ledger[u] = <<>> /\ balance[u] \in {0, NoRow}
      OBVIOUS
    <2> QED
      BY <2>1 DEF CL!Available, CL!Latest
  <1>5. KeysPostedOnce
    BY DEF KeysPostedOnce, CL!KeysPostedOnce
  <1> QED
    BY <1>1, <1>2, <1>3, <1>4, <1>5 DEF IInv

\* A row that is appended to a ledger is of the declared type.
LEMMA RowType ==
  ASSUME NEW r \in Requests, NEW a \in 0..MaxCredits
  PROVE  CL!RowFor(r, a) \in CL!Row
  BY BillingAssumption DEF CL!RowFor, CL!Row, CL!Keys, CL!Sources

\* What a session computes is an integer, and fits if it may be flushed.
LEMMA AfterType ==
  ASSUME TypeOK, NEW s \in Sessions, pc[s] # "idle"
  PROVE  /\ req[s] \in Requests
         /\ seen[s] \in 0..MaxCredits
         /\ CL!Effect(req[s]) \in Int
         /\ After(s) \in Int
         /\ Covered(s) => After(s) >= 0
  <1>1. req[s] \in Requests /\ seen[s] \in 0..MaxCredits
    BY DEF TypeOK
  <1>2. /\ req[s].direction \in {"credit", "debit"}
        /\ req[s].amount \in Nat \ {0}
    BY <1>1, BillingAssumption DEF CL!Directions
  <1> QED
    BY <1>1, <1>2, BillingAssumption DEF After, Covered, CL!Effect

-----------------------------------------------------------------------------

\* Every step keeps the variables in their types.  Commit needs more than the
\* types: that what was flushed fits into the column.
LEMMA TypeStep ==
  ASSUME TypeOK, FlushedCanCommit, [BillingNext]_billingVars
  PROVE  TypeOK'
  <1> USE DEF Stages
  <1>1. CASE UNCHANGED billingVars
    BY <1>1 DEF TypeOK, billingVars
  <1>2. ASSUME NEW s \in Sessions, NEW r \in Requests, Begin(s, r)
        PROVE  TypeOK'
    BY <1>2, BillingAssumption DEF TypeOK, Begin
  <1>3. ASSUME NEW s \in Sessions, pc[s] # "idle", Rollback(s)
        PROVE  TypeOK'
    BY <1>3, BillingAssumption DEF TypeOK, Rollback, Close
  <1>4. ASSUME NEW s \in Sessions, Statement(s)
        PROVE  TypeOK'
    <2> USE BillingAssumption DEF Goto, TypeOK
    <2>1. CASE GetExistingTransaction(s)
      BY <2>1 DEF GetExistingTransaction
    <2>2. CASE LockBalance(s)
      BY <2>2 DEF LockBalance, HasBalance
    <2>3. CASE CreateBalance(s)
      BY <2>3 DEF CreateBalance
    <2>4. CASE PostTransaction(s)
      BY <2>4 DEF PostTransaction
    <2>5. CASE Refuse(s)
      BY <2>5 DEF Refuse
    <2> QED
      BY <1>4, <2>1, <2>2, <2>3, <2>4, <2>5 DEF Statement
  <1>5. ASSUME NEW s \in Sessions, Commit(s)
        PROVE  TypeOK'
    <2> DEFINE u == req[s].user
               row == CL!RowFor(req[s], After(s))
    <2>1. pc[s] = "flushed" /\ u \in Users /\ After(s) \in 0..MaxCredits
      BY <1>5 DEF Commit, TypeOK, FlushedCanCommit
    <2>2. row \in CL!Row
      BY <2>1, RowType, AfterType
    <2>3. ledger[u] \in Seq(CL!Row)
      BY <2>1 DEF TypeOK
    <2>4. Append(ledger[u], row) \in Seq(CL!Row)
      BY <2>2, <2>3
    <2>5. /\ ledger' = [ledger EXCEPT ![u] = Append(ledger[u], row)]
          /\ balance' = [balance EXCEPT ![u] = After(s)]
          /\ pc' = [pc EXCEPT ![s] = "idle"]
          /\ req' = [req EXCEPT ![s] = NoRequest]
          /\ seen' = [seen EXCEPT ![s] = 0]
      BY <1>5, <2>1 DEF Commit, Close, TypeOK
    <2> HIDE DEF u, row
    <2>6. ledger' \in [Users -> Seq(CL!Row)]
      BY <2>4, <2>5 DEF TypeOK
    <2>7. balance' \in [Users -> 0..MaxCredits \cup {NoRow}]
      BY <2>1, <2>5 DEF TypeOK
    <2> QED
      BY <2>5, <2>6, <2>7, BillingAssumption DEF TypeOK
  <1>6. ASSUME NEW s \in Sessions, CommitRefused(s)
        PROVE  TypeOK'
    BY <1>6, BillingAssumption
       DEF TypeOK, CommitRefused, Close, CL!Available
  <1> QED
    BY <1>1, <1>2, <1>3, <1>4, <1>5, <1>6
       DEF BillingNext, Progress, Fail, Crash, CommitExisting, TargetNotFound,
           BalanceConflict, KeyConflict, Overflow, CloseRefused

-----------------------------------------------------------------------------

\* Every step keeps the row locks exclusive and what their holders read fresh:
\* a balance changes only when its holder commits.
LEMMA LockStep ==
  ASSUME TypeOK, NoLostUpdate, [BillingNext]_billingVars
  PROVE  NoLostUpdate'
  <1> DEFINE Holds(t) == pc[t] \in {"apply", "flushed", "refused"}
  <1>1. ASSUME NEW t \in Sessions, NEW q \in Sessions, Holds(t)
        PROVE  /\ req[t].user \in Users
               /\ seen[t] = CL!Available(req[t].user)
               /\ Holds(q) /\ req[q].user = req[t].user => q = t
    BY <1>1 DEF TypeOK, NoLostUpdate, HoldsBalance
  <1> SUFFICES ASSUME NEW t \in Sessions, NEW q \in Sessions, Holds(t)'
               PROVE  /\ seen'[t] = CL!Available(req[t].user)'
                      /\ Holds(q)' /\ req'[q].user = req'[t].user => q = t
    BY DEF NoLostUpdate, HoldsBalance
  <1> USE DEF CL!Available
  <1>2. CASE UNCHANGED billingVars
    BY <1>1, <1>2 DEF billingVars
  <1>3. ASSUME NEW s \in Sessions, NEW r \in Requests, Begin(s, r)
        PROVE  /\ seen'[t] = CL!Available(req[t].user)'
               /\ Holds(q)' /\ req'[q].user = req'[t].user => q = t
    BY <1>1, <1>3 DEF Begin, TypeOK
  <1>4. ASSUME NEW s \in Sessions, Rollback(s)
        PROVE  /\ seen'[t] = CL!Available(req[t].user)'
               /\ Holds(q)' /\ req'[q].user = req'[t].user => q = t
    BY <1>1, <1>4 DEF Rollback, Close, TypeOK
  <1>5. ASSUME NEW s \in Sessions, Statement(s)
        PROVE  /\ seen'[t] = CL!Available(req[t].user)'
               /\ Holds(q)' /\ req'[q].user = req'[t].user => q = t
    <2> USE DEF Goto, TypeOK
    <2>1. CASE GetExistingTransaction(s)
      BY <1>1, <2>1 DEF GetExistingTransaction
    <2>2. CASE LockBalance(s)
      BY <1>1, <2>2 DEF LockBalance, HasBalance, LockFree, HoldsBalance
    <2>3. CASE CreateBalance(s)
      BY <1>1, <2>3 DEF CreateBalance, LockFree, HoldsBalance
    <2>4. CASE PostTransaction(s)
      BY <1>1, <2>4 DEF PostTransaction
    <2>5. CASE Refuse(s)
      BY <1>1, <2>5 DEF Refuse
    <2> QED
      BY <1>5, <2>1, <2>2, <2>3, <2>4, <2>5 DEF Statement
  <1>6. ASSUME NEW s \in Sessions, Commit(s)
        PROVE  /\ seen'[t] = CL!Available(req[t].user)'
               /\ Holds(q)' /\ req'[q].user = req'[t].user => q = t
    <2>1. pc[s] = "flushed" /\ Holds(s) /\ req[s].user \in Users
      BY <1>1, <1>6 DEF Commit
    <2>2. /\ t # s /\ Holds(t) /\ req'[t] = req[t] /\ seen'[t] = seen[t]
          /\ Holds(q)' => Holds(q) /\ req'[q] = req[q]
      BY <1>6 DEF Commit, Close, TypeOK
    <2>3. req[t].user # req[s].user
      BY <1>1, <2>1, <2>2
    <2>4. balance'[req[t].user] = balance[req[t].user]
      BY <1>6, <2>3 DEF Commit, TypeOK
    <2> QED
      BY <1>1, <2>2, <2>4
  <1>7. ASSUME NEW s \in Sessions, CommitRefused(s)
        PROVE  /\ seen'[t] = CL!Available(req[t].user)'
               /\ Holds(q)' /\ req'[q].user = req'[t].user => q = t
    <2>1. /\ t # s /\ Holds(t) /\ req'[t] = req[t] /\ seen'[t] = seen[t]
          /\ Holds(q)' => Holds(q) /\ req'[q] = req[q]
      BY <1>7 DEF CommitRefused, Close, TypeOK
    <2>2. Holds(s) /\ req[s].user # req[t].user
      BY <1>1, <1>7, <2>1 DEF CommitRefused
    <2>3. balance'[req[t].user] = balance[req[t].user]
      BY <1>7, <2>2 DEF CommitRefused, TypeOK
    <2> QED
      BY <1>1, <2>1, <2>3
  <1> QED
    BY <1>2, <1>3, <1>4, <1>5, <1>6, <1>7
       DEF BillingNext, Progress, Fail, Crash, CommitExisting, TargetNotFound,
           BalanceConflict, KeyConflict, Overflow, CloseRefused

-----------------------------------------------------------------------------

\* A row that is in a ledger after a commit was there before, or is the one row
\* that the commit appends to the ledger of its user.
LEMMA RowsAfterCommit ==
  ASSUME TypeOK, NEW s \in Sessions, Commit(s),
         NEW u \in Users, NEW i \in DOMAIN ledger'[u]
  PROVE  \/ i \in DOMAIN ledger[u] /\ ledger'[u][i] = ledger[u][i]
         \/ /\ u = req[s].user
            /\ i = Len(ledger[u]) + 1
            /\ ledger'[u][i] = CL!RowFor(req[s], After(s))
  <1>1. PICK row : /\ row = CL!RowFor(req[s], After(s))
                   /\ ledger' = [ledger EXCEPT ![req[s].user] = Append(@, row)]
    BY DEF Commit
  <1>2. ledger \in [Users -> Seq(CL!Row)] /\ ledger[u] \in Seq(CL!Row)
    BY DEF TypeOK
  <1>3. CASE u = req[s].user
    <2>1. ledger'[u] = Append(ledger[u], row)
      BY <1>1, <1>2, <1>3
    <2> QED
      BY <1>1, <1>2, <1>3, <2>1
  <1>4. CASE u # req[s].user
    BY <1>1, <1>2, <1>4
  <1> QED
    BY <1>3, <1>4

\* A commit keeps the rows that were there and adds its own to its user's.
LEMMA RowsKept ==
  ASSUME TypeOK, NEW s \in Sessions, Commit(s), req[s].user \in Users
  PROVE  /\ \A u \in Users : \A i \in DOMAIN ledger[u] :
               i \in DOMAIN ledger'[u] /\ ledger'[u][i] = ledger[u][i]
         /\ \E i \in DOMAIN ledger'[req[s].user] :
               ledger'[req[s].user][i] = CL!RowFor(req[s], After(s))
  <1>1. PICK row : /\ row = CL!RowFor(req[s], After(s))
                   /\ ledger' = [ledger EXCEPT ![req[s].user] = Append(@, row)]
    BY DEF Commit
  <1>2. PICK v \in Users : v = req[s].user
    OBVIOUS
  <1>3. ledger \in [Users -> Seq(CL!Row)] /\ ledger[v] \in Seq(CL!Row)
    BY DEF TypeOK
  <1>4. /\ ledger'[v] = Append(ledger[v], row)
        /\ \A u \in Users : u # v => ledger'[u] = ledger[u]
    BY <1>1, <1>2, <1>3
  <1>5. /\ \A i \in DOMAIN ledger[v] :
              i \in DOMAIN ledger'[v] /\ ledger'[v][i] = ledger[v][i]
        /\ Len(ledger[v]) + 1 \in DOMAIN ledger'[v]
        /\ ledger'[v][Len(ledger[v]) + 1] = row
    BY <1>3, <1>4
  <1> QED
    BY <1>1, <1>2, <1>4, <1>5

\* A key that a commit posts is the key of the session that commits.
LEMMA PostedByCommit ==
  ASSUME TypeOK, NEW s \in Sessions, Commit(s), NEW k, CL!Posted(k)'
  PROVE  CL!Posted(k) \/ k = req[s].key
  <1>1. CL!RowFor(req[s], After(s)).key = req[s].key
    BY DEF CL!RowFor
  <1>2. PICK u \in Users : \E i \in DOMAIN ledger'[u] : ledger'[u][i].key = k
    BY DEF CL!Posted
  <1>3. PICK i \in DOMAIN ledger'[u] : ledger'[u][i].key = k
    BY <1>2
  <1>4. \/ i \in DOMAIN ledger[u] /\ ledger'[u][i] = ledger[u][i]
        \/ ledger'[u][i] = CL!RowFor(req[s], After(s))
    BY <1>3, RowsAfterCommit
  <1> QED
    BY <1>1, <1>3, <1>4 DEF CL!Posted

\* A step that changes no ledger and flushes nothing, whose flushed sessions were
\* flushed before with the same call, leaves them committable.
LEMMA FlushKept ==
  ASSUME FlushedCanCommit, ledger' = ledger,
         \A t \in Sessions : pc'[t] = "flushed" =>
             pc[t] = "flushed" /\ req'[t] = req[t] /\ seen'[t] = seen[t]
  PROVE  FlushedCanCommit'
  <1> SUFFICES ASSUME NEW t \in Sessions, pc'[t] = "flushed"
               PROVE  /\ After(t)' \in 0..MaxCredits
                      /\ ~DuplicateKey(t)'
                      /\ ~KeyInFlight(t)'
    BY DEF FlushedCanCommit
  <1>1. pc[t] = "flushed" /\ req'[t] = req[t] /\ seen'[t] = seen[t]
    OBVIOUS
  <1>2. After(t) \in 0..MaxCredits /\ ~DuplicateKey(t) /\ ~KeyInFlight(t)
    BY <1>1 DEF FlushedCanCommit
  <1>3. After(t)' = After(t)
    BY <1>1 DEF After
  <1>4. DuplicateKey(t)' <=> DuplicateKey(t)
    BY <1>1 DEF DuplicateKey, CL!Posted
  <1>5. KeyInFlight(t)' => KeyInFlight(t)
    BY <1>1 DEF KeyInFlight
  <1> QED
    BY <1>2, <1>3, <1>4, <1>5

\* Every step leaves what is flushed committable: another session can neither
\* flush the same key nor, without the lock, change what it was computed from.
LEMMA FlushStep ==
  ASSUME TypeOK, FlushedCanCommit, [BillingNext]_billingVars
  PROVE  FlushedCanCommit'
  <1>1. CASE UNCHANGED billingVars
    BY <1>1, FlushKept DEF billingVars
  <1>2. ASSUME NEW s \in Sessions, NEW r \in Requests, Begin(s, r)
        PROVE  FlushedCanCommit'
    BY <1>2, FlushKept DEF Begin, TypeOK
  <1>3. ASSUME NEW s \in Sessions, Rollback(s)
        PROVE  FlushedCanCommit'
    BY <1>3, FlushKept DEF Rollback, Close, TypeOK
  <1>4. ASSUME NEW s \in Sessions, Statement(s)
        PROVE  FlushedCanCommit'
    <2>1. CASE GetExistingTransaction(s)
      BY <2>1, FlushKept DEF GetExistingTransaction, Goto, TypeOK
    <2>2. CASE LockBalance(s)
      <3>1. /\ pc'[s] # "flushed"
            /\ UNCHANGED <<ledger, req>>
            /\ \A t \in Sessions \ {s} : pc'[t] = pc[t] /\ seen'[t] = seen[t]
        BY <2>2 DEF LockBalance, Goto, TypeOK
      <3> QED
        BY <3>1, FlushKept
    <2>3. CASE CreateBalance(s)
      BY <2>3, FlushKept DEF CreateBalance, Goto, TypeOK
    <2>4. CASE PostTransaction(s)
      <3>1. After(s) \in 0..MaxCredits
        BY <2>4, AfterType, BillingAssumption DEF PostTransaction
      <3>2. /\ UNCHANGED <<ledger, req, seen>>
            /\ \A t \in Sessions \ {s} : pc'[t] = pc[t]
            /\ ~KeyInFlight(s) /\ ~DuplicateKey(s)
        BY <2>4 DEF PostTransaction, Goto, TypeOK
      <3> SUFFICES ASSUME NEW t \in Sessions, pc'[t] = "flushed"
                   PROVE  /\ After(t)' \in 0..MaxCredits
                          /\ ~DuplicateKey(t)'
                          /\ ~KeyInFlight(t)'
        BY DEF FlushedCanCommit
      <3>3. After(t) \in 0..MaxCredits /\ ~DuplicateKey(t)
        BY <3>1, <3>2 DEF FlushedCanCommit
      <3>4. After(t)' \in 0..MaxCredits /\ ~DuplicateKey(t)'
        BY <3>2, <3>3 DEF After, DuplicateKey, CL!Posted
      <3>5. ~KeyInFlight(t)'
        <4>1. CASE t = s
          BY <3>2, <4>1 DEF KeyInFlight
        <4>2. CASE t # s
          <5>1. pc[t] = "flushed" /\ ~KeyInFlight(t)
            BY <3>2, <4>2 DEF FlushedCanCommit
          <5> QED
            BY <3>2, <4>2, <5>1 DEF KeyInFlight
        <4> QED
          BY <4>1, <4>2
      <3> QED
        BY <3>4, <3>5
    <2>5. CASE Refuse(s)
      BY <2>5, FlushKept DEF Refuse, Goto, TypeOK
    <2> QED
      BY <1>4, <2>1, <2>2, <2>3, <2>4, <2>5 DEF Statement
  <1>5. ASSUME NEW s \in Sessions, Commit(s)
        PROVE  FlushedCanCommit'
    <2> SUFFICES ASSUME NEW t \in Sessions, pc'[t] = "flushed"
                 PROVE  /\ After(t)' \in 0..MaxCredits
                        /\ ~DuplicateKey(t)'
                        /\ ~KeyInFlight(t)'
      BY DEF FlushedCanCommit
    <2>1. /\ t # s
          /\ pc[t] = "flushed" /\ pc[s] = "flushed"
          /\ req'[t] = req[t] /\ seen'[t] = seen[t]
      BY <1>5 DEF Commit, Close, TypeOK
    <2>2. After(t) \in 0..MaxCredits /\ ~DuplicateKey(t) /\ ~KeyInFlight(t)
      BY <2>1 DEF FlushedCanCommit
    <2>3. req[t].key # NoKey => req[t].key # req[s].key
      BY <2>1, <2>2 DEF KeyInFlight
    <2>4. ~DuplicateKey(t)'
      BY <1>5, <2>1, <2>2, <2>3, PostedByCommit DEF DuplicateKey
    <2>5. ~KeyInFlight(t)'
      BY <1>5, <2>1, <2>2 DEF Commit, Close, TypeOK, KeyInFlight
    <2> QED
      BY <2>1, <2>2, <2>4, <2>5 DEF After
  <1>6. ASSUME NEW s \in Sessions, CommitRefused(s)
        PROVE  FlushedCanCommit'
    BY <1>6, FlushKept DEF CommitRefused, Close, TypeOK
  <1> QED
    BY <1>1, <1>2, <1>3, <1>4, <1>5, <1>6
       DEF BillingNext, Progress, Fail, Crash, CommitExisting, TargetNotFound,
           BalanceConflict, KeyConflict, Overflow, CloseRefused

-----------------------------------------------------------------------------

\* Appending the result of a change keeps a history that adds up.
LEMMA HistoryGrows ==
  ASSUME NEW L, NEW rows \in Seq(L), NEW row, NEW v, NEW effect, NEW R,
         R = Append(rows, row),
         row.after = v + effect,
         v = (IF rows = <<>> THEN 0 ELSE rows[Len(rows)].after)
  PROVE  /\ DOMAIN R = 1..(Len(rows) + 1)
         /\ R # <<>> /\ Len(R) = Len(rows) + 1 /\ R[Len(R)] = row
         /\ \A i \in DOMAIN rows : i \in DOMAIN R /\ R[i] = rows[i]
         /\ row.after =
               (IF Len(R) = 1 THEN 0 ELSE R[Len(R) - 1].after) + effect
  OBVIOUS

\* Every step keeps the histories: only Commit writes one, and it started from
\* the balance that the lock kept fresh.
LEMMA LedgerStep ==
  ASSUME TypeOK, NoLostUpdate, FlushedCanCommit, LedgerExplainsBalance,
         [BillingNext]_billingVars
  PROVE  LedgerExplainsBalance'
  <1>1. ASSUME UNCHANGED <<balance, ledger>>
        PROVE  LedgerExplainsBalance'
    BY <1>1 DEF LedgerExplainsBalance, CL!LedgerExplainsBalance, CL!Available,
                CL!Latest, CL!Before
  <1>2. ASSUME NEW s \in Sessions, Commit(s)
        PROVE  LedgerExplainsBalance'
    <2>0. PICK v \in Users : pc[s] = "flushed" /\ v = req[s].user
      BY <1>2 DEF Commit, TypeOK
    <2> DEFINE row == CL!RowFor(req[s], After(s))
    <2>1. /\ pc[s] = "flushed" /\ v \in Users /\ v = req[s].user
          /\ balance' = [balance EXCEPT ![v] = After(s)]
          /\ ledger' = [ledger EXCEPT ![v] = Append(ledger[v], row)]
      BY <1>2, <2>0 DEF Commit
    <2>2. /\ balance \in [Users -> 0..MaxCredits \cup {NoRow}]
          /\ ledger \in [Users -> Seq(CL!Row)]
          /\ After(s) \in 0..MaxCredits
      BY <2>1 DEF TypeOK, FlushedCanCommit
    <2>3. seen[s] = CL!Available(v)
      BY <2>1 DEF NoLostUpdate, HoldsBalance
    <2>4. /\ row.after = After(s)
          /\ CL!Effect(row) = CL!Effect(req[s])
      BY DEF CL!RowFor, CL!Effect
    <2>5. seen[s] = CL!Latest(v)
      BY <2>1, <2>3 DEF LedgerExplainsBalance, CL!LedgerExplainsBalance
    <2>6. SUFFICES ASSUME NEW u \in Users
                   PROVE  /\ \A i \in DOMAIN ledger'[u] :
                                 ledger'[u][i].after =
                                     CL!Before(u, i)' + CL!Effect(ledger'[u][i])
                          /\ CL!Available(u)' = CL!Latest(u)'
      BY DEF LedgerExplainsBalance, CL!LedgerExplainsBalance, CL!Effect
    <2>7. CASE u # v
      BY <2>1, <2>2, <2>7
         DEF LedgerExplainsBalance, CL!LedgerExplainsBalance, CL!Available,
             CL!Latest, CL!Before, CL!Effect
    <2>8. CASE u = v
      <3> HIDE DEF row
      <3>1. balance'[v] = After(s) /\ ledger'[v] = Append(ledger[v], row)
        BY <2>1, <2>2
      <3>2. After(s) = seen[s] + CL!Effect(row)
        BY <2>4 DEF After
      <3>3. /\ DOMAIN ledger'[v] = 1..(Len(ledger[v]) + 1)
            /\ ledger'[v] # <<>>
            /\ Len(ledger'[v]) = Len(ledger[v]) + 1
            /\ ledger'[v][Len(ledger'[v])] = row
            /\ \A i \in DOMAIN ledger[v] : ledger'[v][i] = ledger[v][i]
            /\ row.after = (IF Len(ledger'[v]) = 1 THEN 0
                            ELSE ledger'[v][Len(ledger'[v]) - 1].after)
                           + CL!Effect(row)
        <4>1. ledger[v] \in Seq(CL!Row)
          BY <2>1, <2>2
        <4>2. /\ row.after = seen[s] + CL!Effect(row)
              /\ seen[s] = (IF ledger[v] = <<>> THEN 0
                            ELSE ledger[v][Len(ledger[v])].after)
          BY <2>4, <2>5, <3>2 DEF CL!Latest
        <4> QED
          BY <3>1, <4>1, <4>2, HistoryGrows
      <3>4. CL!Available(v)' = CL!Latest(v)'
        BY <2>2, <2>4, <3>1, <3>3, BillingAssumption
           DEF CL!Available, CL!Latest
      <3>5. ASSUME NEW i \in DOMAIN ledger'[v]
            PROVE  ledger'[v][i].after =
                       CL!Before(v, i)' + CL!Effect(ledger'[v][i])
        <4>1. CASE i = Len(ledger'[v])
          BY <3>3, <4>1 DEF CL!Before
        <4>2. CASE i # Len(ledger'[v])
          <5>1. i \in DOMAIN ledger[v] /\ (i # 1 => i - 1 \in DOMAIN ledger[v])
            BY <2>1, <2>2, <3>3, <3>5, <4>2
          <5>2. ledger[v][i].after = CL!Before(v, i) + CL!Effect(ledger[v][i])
            BY <2>1, <5>1 DEF LedgerExplainsBalance, CL!LedgerExplainsBalance
          <5>3. CL!Before(v, i)' = CL!Before(v, i)
            BY <3>3, <5>1 DEF CL!Before
          <5> QED
            BY <3>3, <5>1, <5>2, <5>3
        <4> QED
          BY <4>1, <4>2
      <3> QED
        BY <2>8, <3>4, <3>5
    <2> QED
      BY <2>7, <2>8
  <1>3. ASSUME NEW s \in Sessions, CommitRefused(s)
        PROVE  LedgerExplainsBalance'
    <2>1. ledger' = ledger /\ \A u \in Users : CL!Available(u)' = CL!Available(u)
      BY <1>3, BillingAssumption DEF CommitRefused, CL!Available, TypeOK
    <2> QED
      BY <2>1 DEF LedgerExplainsBalance, CL!LedgerExplainsBalance, CL!Latest,
                  CL!Before
  <1> QED
    BY <1>1, <1>2, <1>3
       DEF BillingNext, billingVars, Begin, Progress, Statement, Goto,
           GetExistingTransaction, LockBalance, CreateBalance, PostTransaction,
           Refuse, Rollback, Fail, Crash, CommitExisting, TargetNotFound,
           BalanceConflict, KeyConflict, Overflow, CloseRefused

-----------------------------------------------------------------------------

\* Every step keeps the keys unique: the key of the row that Commit appends was
\* free when it was flushed, and FlushedCanCommit says that it still is.
LEMMA KeysStep ==
  ASSUME TypeOK, FlushedCanCommit, KeysPostedOnce, [BillingNext]_billingVars
  PROVE  KeysPostedOnce'
  <1>1. CASE UNCHANGED ledger
    BY <1>1 DEF KeysPostedOnce, CL!KeysPostedOnce
  <1>2. ASSUME NEW s \in Sessions, Commit(s)
        PROVE  KeysPostedOnce'
    <2> SUFFICES ASSUME NEW u \in Users, NEW v \in Users,
                        NEW i \in DOMAIN ledger'[u], NEW j \in DOMAIN ledger'[v],
                        ledger'[u][i].key # NoKey,
                        ledger'[u][i].key = ledger'[v][j].key
                 PROVE  u = v /\ i = j
      BY DEF KeysPostedOnce, CL!KeysPostedOnce
    <2> DEFINE Old(w, n) == n \in DOMAIN ledger[w] /\ ledger'[w][n] = ledger[w][n]
               New(w, n) == /\ w = req[s].user
                            /\ n = Len(ledger[w]) + 1
                            /\ ledger'[w][n].key = req[s].key
    <2>0. CL!RowFor(req[s], After(s)).key = req[s].key
      BY DEF CL!RowFor
    <2>1. (Old(u, i) \/ New(u, i)) /\ (Old(v, j) \/ New(v, j))
      BY <1>2, <2>0, RowsAfterCommit
    <2>2. req[s].key # NoKey => ~CL!Posted(req[s].key)
      BY <1>2 DEF Commit, FlushedCanCommit, DuplicateKey
    <2>3. CASE Old(u, i) /\ Old(v, j)
      BY <2>3 DEF KeysPostedOnce, CL!KeysPostedOnce
    <2>4. CASE Old(u, i) /\ New(v, j)
      BY <2>2, <2>4 DEF CL!Posted
    <2>5. CASE New(u, i) /\ Old(v, j)
      BY <2>2, <2>5 DEF CL!Posted
    <2>6. CASE New(u, i) /\ New(v, j)
      BY <2>6
    <2> QED
      BY <2>1, <2>3, <2>4, <2>5, <2>6
  <1> QED
    BY <1>1, <1>2
       DEF BillingNext, billingVars, Begin, Progress, Statement, Goto,
           GetExistingTransaction, LockBalance, CreateBalance, PostTransaction,
           Refuse, Rollback, Fail, Crash, CommitExisting, CommitRefused,
           TargetNotFound, BalanceConflict, KeyConflict, Overflow, CloseRefused

-----------------------------------------------------------------------------

\* Every step keeps the inductive invariant.
LEMMA IInvStep ==
  ASSUME IInv, [BillingNext]_billingVars
  PROVE  IInv'
  <1> USE DEF IInv
  <1>1. TypeOK'
    BY TypeStep
  <1>2. NoLostUpdate'
    BY LockStep
  <1>3. FlushedCanCommit'
    BY FlushStep
  <1>4. LedgerExplainsBalance'
    BY LedgerStep
  <1>5. KeysPostedOnce'
    BY KeysStep
  <1> QED
    BY <1>1, <1>2, <1>3, <1>4, <1>5

\* IInv holds in every reachable state.
THEOREM InductiveInvariant == BillingSpec => []IInv
  BY InitIInv, IInvStep, PTL DEF BillingSpec

\* The variables stay in their types; a session works on a known user.
THEOREM TypeCorrect == BillingSpec => []TypeOK
  BY InductiveInvariant, PTL DEF IInv

\* SELECT ... FOR UPDATE in get_credit_balance: no update of a balance is lost.
THEOREM LocksProtectBalances == BillingSpec => []NoLostUpdate
  BY InductiveInvariant, PTL DEF IInv

\* A flushed credit or debit never fails at its commit.
THEOREM FlushedCommits == BillingSpec => []FlushedCanCommit
  BY InductiveInvariant, PTL DEF IInv

\* What a session that cannot go on waits for: a key in flight, or a balance.
LEMMA WhoWaits ==
  ASSUME TypeOK, NEW s \in Sessions, pc[s] # "idle", ~CanGoOn(s)
  PROVE  \/ pc[s] = "apply" /\ \E t \in Sessions : WaitsForKey(s, t) /\ CanGoOn(t)
         \/ pc[s] # "apply" /\ \E t \in Sessions : WaitsForBalance(s, t)
  <1>1. pc[s] \in {"lock", "create", "apply"}
    BY DEF TypeOK, Stages, CanGoOn
  <1>2. CASE pc[s] = "apply"
    <2>1. KeyInFlight(s)
      BY <1>2 DEF CanGoOn
    <2> QED
      BY <1>2, <2>1 DEF KeyInFlight, WaitsForKey, CanGoOn
  <1>3. CASE pc[s] \in {"lock", "create"}
    <2>1. ~LockFree(req[s].user)
      BY <1>3 DEF CanGoOn
    <2>2. PICK t \in Sessions : HoldsBalance(t, req[s].user)
      BY <2>1 DEF LockFree
    <2>3. t # s
      BY <1>3, <2>2 DEF HoldsBalance
    <2> QED
      BY <1>3, <2>2, <2>3 DEF WaitsForBalance
  <1> QED
    BY <1>1, <1>2, <1>3

\* For any number of sessions, a billing call that waits for a balance row or a
\* key waits for a session that can go on, or whose key's holder can.
THEOREM WaitsAlwaysEnd == BillingSpec => []WaitsEnd
  <1>1. TypeOK => WaitsEnd
    <2> SUFFICES ASSUME TypeOK, NEW s \in Sessions, pc[s] # "idle", ~CanGoOn(s)
                 PROVE  \/ \E t \in Sessions : WaitsForKey(s, t) /\ CanGoOn(t)
                        \/ \E t \in Sessions :
                               /\ WaitsForBalance(s, t)
                               /\ \/ CanGoOn(t)
                                  \/ \E v \in Sessions : WaitsForKey(t, v) /\ CanGoOn(v)
      BY DEF WaitsEnd
    <2>1. CASE \E t \in Sessions : WaitsForKey(s, t) /\ CanGoOn(t)
      BY <2>1
    <2>2. CASE \E t \in Sessions : WaitsForBalance(s, t)
      <3>1. PICK t \in Sessions : WaitsForBalance(s, t)
        BY <2>2
      <3>2. pc[t] \in {"apply", "flushed", "refused"}
        BY <3>1 DEF WaitsForBalance, HoldsBalance
      <3>3. CanGoOn(t) \/ \E v \in Sessions : WaitsForKey(t, v) /\ CanGoOn(v)
        <4> SUFFICES ASSUME ~CanGoOn(t)
                     PROVE  \E v \in Sessions : WaitsForKey(t, v) /\ CanGoOn(v)
          OBVIOUS
        <4>1. pc[t] = "apply"
          BY <3>2 DEF CanGoOn
        <4> QED
          BY <4>1, WhoWaits
      <3> QED
        BY <3>1, <3>3
    <2> QED
      BY <2>1, <2>2, WhoWaits
  <1> QED
    BY <1>1, TypeCorrect, PTL

\* credit_user_balance and debit_user_balance keep the ledger of every user in
\* agreement with the balance.
THEOREM LedgerCorrect == BillingSpec => []LedgerExplainsBalance
  BY InductiveInvariant, PTL DEF IInv

\* An idempotency key is charged or credited at most once.
THEOREM KeysIdempotent == BillingSpec => []KeysPostedOnce
  BY InductiveInvariant, PTL DEF IInv

-----------------------------------------------------------------------------

\* The steps that end a billing call: only a commit leaves something behind.
LEMMA CallEnds ==
  ASSUME NEW s \in Sessions,
         Commit(s) \/ CommitExisting(s) \/ Fail(s) \/ Crash(s)
  PROVE  /\ pc' = [pc EXCEPT ![s] = "idle"]
         /\ req' = [req EXCEPT ![s] = NoRequest]
         /\ ~Commit(s) => UNCHANGED <<balance, ledger>>
  BY DEF Commit, CommitExisting, Fail, Crash, TargetNotFound, BalanceConflict,
         KeyConflict, Overflow, CloseRefused, Rollback, Close

\* The steps inside a billing call: nothing is committed, nobody else moves.
LEMMA CallContinues ==
  ASSUME TypeOK, NEW s \in Sessions, Statement(s)
  PROVE  /\ pc[s] # "idle" /\ pc'[s] # "idle"
         /\ \A t \in Sessions \ {s} : pc'[t] = pc[t]
         /\ UNCHANGED <<balance, ledger, req>>
  BY DEF Statement, GetExistingTransaction, LockBalance, CreateBalance,
         PostTransaction, Refuse, Goto, TypeOK

\* What a call has found by its key stays posted: rows are never deleted.
ExistingPosted ==
    \A s \in Sessions : pc[s] = "existing" => CL!Posted(req[s].key)

\* Every step keeps what was found.
LEMMA ExistingStep ==
  ASSUME TypeOK, ExistingPosted, [BillingNext]_billingVars
  PROVE  ExistingPosted'
  <1> USE DEF ExistingPosted
  <1>1. ASSUME NEW k, CL!Posted(k) PROVE CL!Posted(k)'
    <2>1. CASE UNCHANGED ledger
      BY <1>1, <2>1 DEF CL!Posted
    <2>2. ASSUME NEW s \in Sessions, Commit(s) PROVE CL!Posted(k)'
      <3>1. req[s].user \in Users
        BY <2>2 DEF Commit, TypeOK
      <3> QED
        BY <1>1, <2>2, <3>1, RowsKept DEF CL!Posted
    <2> QED
      BY <2>1, <2>2
         DEF BillingNext, billingVars, Begin, Progress, Statement, Goto,
             GetExistingTransaction, LockBalance, CreateBalance,
             PostTransaction, Refuse, Rollback, Fail, Crash, CommitExisting,
             CommitRefused, TargetNotFound, BalanceConflict, KeyConflict,
             Overflow, CloseRefused
  <1> SUFFICES ASSUME NEW t \in Sessions, pc'[t] = "existing"
               PROVE  CL!Posted(req[t].key)'
    OBVIOUS
  <1>2. CASE UNCHANGED billingVars
    BY <1>1, <1>2 DEF billingVars
  <1>3. ASSUME NEW s \in Sessions, NEW r \in Requests, Begin(s, r)
        PROVE  CL!Posted(req[t].key)'
    BY <1>1, <1>3 DEF Begin, TypeOK
  <1>4. ASSUME NEW s \in Sessions, Close(s)
        PROVE  CL!Posted(req[t].key)'
    BY <1>1, <1>4 DEF Close, TypeOK
  <1>5. ASSUME NEW s \in Sessions, Statement(s)
        PROVE  CL!Posted(req[t].key)'
    <2>1. pc[t] = "existing" \/ FoundByKey(req[t].key)
      BY <1>5 DEF Statement, GetExistingTransaction, LockBalance, CreateBalance,
                  PostTransaction, Refuse, Goto, TypeOK
    <2>2. req' = req
      BY <1>5, CallContinues
    <2> QED
      BY <1>1, <2>1, <2>2 DEF FoundByKey
  <1> QED
    BY <1>2, <1>3, <1>4, <1>5
       DEF BillingNext, Progress, Rollback, Fail, Crash, Commit, CommitExisting,
           CommitRefused, TargetNotFound, BalanceConflict, KeyConflict,
           Overflow, CloseRefused

-----------------------------------------------------------------------------

\* A commit is one Post of the abstract ledger.
LEMMA CommitPosts ==
  ASSUME IInv, NEW s \in Sessions, Commit(s)
  PROVE  \E r \in Requests : CL!Post(r)
  <1>1. /\ pc[s] = "flushed" /\ req[s] \in Requests /\ req[s].user \in Users
        /\ After(s) \in 0..MaxCredits
    BY AfterType DEF IInv, TypeOK, Commit, FlushedCanCommit
  <1>2. After(s) = CL!Available(req[s].user) + CL!Effect(req[s])
    BY <1>1 DEF IInv, NoLostUpdate, HoldsBalance, After
  <1>3. req[s].key = NoKey \/ ~CL!Posted(req[s].key)
    BY <1>1 DEF IInv, FlushedCanCommit, DuplicateKey
  <1> QED
    BY <1>1, <1>2, <1>3 DEF Commit, CL!Post

\* A step that commits nothing but an empty balance row opens it, or stutters.
LEMMA CommitRefusedOpens ==
  ASSUME IInv, NEW s \in Sessions, CommitRefused(s)
  PROVE  (\E u \in Users : CL!Open(u)) \/ UNCHANGED CL!ledgerVars
  <1>1. req[s].user \in Users /\ balance \in [Users -> 0..MaxCredits \cup {NoRow}]
    BY DEF IInv, TypeOK, CommitRefused
  <1>2. CASE balance[req[s].user] = NoRow
    BY <1>1, <1>2 DEF CommitRefused, CL!Open, CL!Available
  <1>3. CASE balance[req[s].user] # NoRow
    BY <1>1, <1>3 DEF CommitRefused, CL!Available, CL!ledgerVars
  <1> QED
    BY <1>2, <1>3

\* What Billing commits is a behaviour of the abstract ledger: every step is
\* one Post, one Open or a stutter.
THEOREM Refinement == BillingSpec => ImplementsLedger
  <1>1. BillingInit => CL!LedgerInit
    BY DEF BillingInit
  <1>2. ASSUME IInv, [BillingNext]_billingVars
        PROVE  [CL!LedgerNext]_(CL!ledgerVars)
    <2>1. ASSUME NEW s \in Sessions, Commit(s)
          PROVE  [CL!LedgerNext]_(CL!ledgerVars)
      BY <1>2, <2>1, CommitPosts DEF CL!LedgerNext
    <2>2. ASSUME NEW s \in Sessions, CommitRefused(s)
          PROVE  [CL!LedgerNext]_(CL!ledgerVars)
      BY <1>2, <2>2, CommitRefusedOpens DEF CL!LedgerNext
    <2> QED
      BY <1>2, <2>1, <2>2
         DEF BillingNext, billingVars, Begin, Progress, Statement, Goto,
             GetExistingTransaction, LockBalance, CreateBalance,
             PostTransaction, Refuse, Rollback, Fail, Crash, CommitExisting,
             TargetNotFound, BalanceConflict, KeyConflict, Overflow,
             CloseRefused, CL!ledgerVars
  <1> QED
    BY <1>1, <1>2, InductiveInvariant, PTL
       DEF BillingSpec, ImplementsLedger, CL!LedgerSpec

=============================================================================

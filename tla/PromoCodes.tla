----------------------------- MODULE PromoCodes -----------------------------
(***************************************************************************)
(* app.promo_codes on top of app.billing: admins create and deactivate     *)
(* fixed-credit codes, users redeem them.  A redemption locks the code,    *)
(* checks it, inserts the redemption, increments the counter it has read   *)
(* and credits the balance, all in one transaction: its first step starts  *)
(* a billing call, its last step commits everything.                       *)
(***************************************************************************)
EXTENDS Billing, FiniteSets

CONSTANTS
    Codes,           \* promo codes, as normalize_promo_code leaves them
    NewCodes,        \* the rows that an admin may create
    MaxTime,         \* bound of the model: the clock stops there
    GrantKey(_, _),  \* the string "promo:{user}:{code}:credit"
    NoCode           \* no such row; a session that redeems no code

VARIABLES
    promo,           \* promo[c]: the committed row of code c, or NoCode
    redemptions,     \* the committed rows of promo_redemptions
    redeeming,       \* redeeming[s]: the code that s holds FOR UPDATE and the
                     \* redemptions_count that it read
    now              \* the clock

promoVars == <<promo, redemptions, redeeming, now>>
promoCodesVars == <<billingVars, promoVars>>

\* What redeem_promo_code asks of credit_user_balance.  A user has at most one
\* redemption of a code (unique constraint), so the two name it.
Grant(u, c, n) ==
    [user |-> u, type |-> "promo_credit", direction |-> "credit",
     amount |-> n, key |-> GrantKey(u, c), source |-> <<u, c>>]

\* The columns of promo_codes, under their check constraints.
PromoColumns == [credits: Nat \ {0}, limit: Nat \ {0}, count: Nat,
                 active: BOOLEAN, starts: Nat, expires: Nat]

ASSUME PromoAssumption ==
    /\ MaxTime \in Nat
    /\ NewCodes \subseteq PromoColumns
    /\ \A n \in NewCodes :
           /\ n.count = 0
           /\ n.starts < n.expires
           /\ \A u \in Users, c \in Codes : Grant(u, c, n.credits) \in Requests
    /\ NoCode \notin PromoColumns
    /\ NoCode \notin [code: Codes, count: Nat]
    /\ \A u, v \in Users, c, d \in Codes :
           GrantKey(u, c) = GrantKey(v, d) => u = v /\ c = d

\* Every row is one of NewCodes with another counter or another active flag.
PromoRow ==
    {r \in PromoColumns :
        /\ r.count <= r.limit
        /\ \E n \in NewCodes :
               /\ r.credits = n.credits /\ r.limit = n.limit
               /\ r.starts = n.starts /\ r.expires = n.expires}

Redemption == [user: Users, code: Codes, granted: Nat \ {0}]

-----------------------------------------------------------------------------

PromoInit ==
    /\ BillingInit
    /\ promo = [c \in Codes |-> NoCode]
    /\ redemptions = {}
    /\ redeeming = [s \in Sessions |-> NoCode]
    /\ now = 0

Tick ==
    /\ now < MaxTime
    /\ now' = now + 1
    /\ UNCHANGED <<billingVars, promo, redemptions, redeeming>>

\* create_promo_code and its commit.  A code that exists is refused, by the
\* lookup or, if it was committed since, by the unique index.
CreateCode(c, n) ==
    /\ promo[c] = NoCode
    /\ promo' = [promo EXCEPT ![c] = n]
    /\ UNCHANGED <<billingVars, redemptions, redeeming, now>>

NeverLocked(c) == TRUE
CodeLockFree(c) ==
    \A s \in Sessions : redeeming[s] # NoCode => redeeming[s].code # c

\* deactivate_promo_code waits for the row lock and writes only is_active.
DeactivateAnyTime(c) ==
    /\ promo[c] # NoCode
    /\ promo[c].active
    /\ promo' = [promo EXCEPT ![c].active = FALSE]
    /\ UNCHANGED <<billingVars, redemptions, redeeming, now>>
DeactivateCode(c) ==
    /\ promo[c] # NoCode
    /\ CodeLockFree(c)
    /\ promo[c].active
    /\ promo' = [promo EXCEPT ![c].active = FALSE]
    /\ UNCHANGED <<billingVars, redemptions, redeeming, now>>

AlreadyRedeemed(u, c) == \E r \in redemptions : r.user = u /\ r.code = c

\* _validate_redeemable
RedeemableAfterLimit(c) ==
    /\ promo[c].active
    /\ promo[c].starts <= now
    /\ promo[c].expires > now
    /\ promo[c].count <= promo[c].limit
Redeemable(c) ==
    /\ promo[c].active
    /\ promo[c].starts <= now
    /\ promo[c].expires > now
    /\ promo[c].count < promo[c].limit

\* User u enters code c.  A refused code changes nothing.
RedeemCode(s, u, c) ==
    /\ promo[c] # NoCode
    /\ CodeLockFree(c)
    /\ ~AlreadyRedeemed(u, c)
    /\ Redeemable(c)
    /\ Begin(s, Grant(u, c, promo[c].credits))
    /\ redeeming' = [redeeming EXCEPT
           ![s] = [code |-> c, count |-> promo[c].count]]
    /\ UNCHANGED <<promo, redemptions, now>>

\* The commit of a redemption, with the credit or (CommitExisting) with the
\* ledger row that already had its key.
RedemptionBy(s) ==
    [user |-> req[s].user, code |-> redeeming[s].code, granted |-> req[s].amount]

CommitUnrecorded(s) ==
    /\ redeeming[s] # NoCode
    /\ Commit(s) \/ CommitExisting(s)
    /\ promo' = [promo EXCEPT ![redeeming[s].code].count = redeeming[s].count + 1]
    /\ redeeming' = [redeeming EXCEPT ![s] = NoCode]
    /\ UNCHANGED <<redemptions, now>>
CommitRedemption(s) ==
    /\ redeeming[s] # NoCode
    /\ Commit(s) \/ CommitExisting(s)
    /\ redemptions' = redemptions \cup {RedemptionBy(s)}
    /\ promo' = [promo EXCEPT ![redeeming[s].code].count = redeeming[s].count + 1]
    /\ redeeming' = [redeeming EXCEPT ![s] = NoCode]
    /\ UNCHANGED now

\* An error or a crash: no redemption, the counter as it was.
AbandonCommitted(s) ==
    /\ redeeming[s] # NoCode
    /\ Fail(s) \/ Crash(s)
    /\ redemptions' = redemptions \cup {RedemptionBy(s)}
    /\ redeeming' = [redeeming EXCEPT ![s] = NoCode]
    /\ UNCHANGED <<promo, now>>
AbandonRedeem(s) ==
    /\ redeeming[s] # NoCode
    /\ Fail(s) \/ Crash(s)
    /\ redeeming' = [redeeming EXCEPT ![s] = NoCode]
    /\ UNCHANGED <<promo, redemptions, now>>

\* create_adjustment, in a session that redeems nothing.
AdminAdjust(s) ==
    /\ redeeming[s] = NoCode
    /\ \/ \E r \in Requests : r.type = "adjustment" /\ Begin(s, r)
       \/ Fail(s) \/ Crash(s) \/ Commit(s) \/ CommitExisting(s)
    /\ UNCHANGED promoVars

PromoNext ==
    \/ Tick
    \/ \E c \in Codes :
           \/ \E n \in NewCodes : CreateCode(c, n)
           \/ DeactivateCode(c)
    \/ \E s \in Sessions :
           \/ \E u \in Users, c \in Codes : RedeemCode(s, u, c)
           \/ CommitRedemption(s)
           \/ AbandonRedeem(s)
           \/ AdminAdjust(s)
           \/ Statement(s) /\ UNCHANGED promoVars

PromoSpec == PromoInit /\ [][PromoNext]_promoCodesVars

-----------------------------------------------------------------------------

PromoTypeOK ==
    /\ promo \in [Codes -> PromoRow \cup {NoCode}]
    /\ redemptions \subseteq Redemption
    /\ redeeming \in [Sessions -> [code: Codes, count: Nat] \cup {NoCode}]
    /\ now \in 0..MaxTime

\* The counter that the limit is checked against is the number of redemptions,
\* within the limit, although it is incremented outside the database.
CountMatches ==
    \A c \in Codes :
        promo[c] # NoCode =>
            /\ promo[c].count = Cardinality({r \in redemptions : r.code = c})
            /\ promo[c].count <= promo[c].limit

\* docs/promo-codes.md: active status, start and limit are enforced, at the very
\* step that commits the redemption.  (The expiry is not: a redemption that was
\* validated in time may commit after it.)
RedeemedWhileActive ==
    [][\A r \in redemptions' \ redemptions :
           /\ promo[r.code].active
           /\ promo[r.code].starts <= now
           /\ promo[r.code].count < promo[r.code].limit]_promoCodesVars

\* The ledger row says that it pays out redemption r.
PaysOut(row, r) == row.type = "promo_credit" /\ row.source = <<r.user, r.code>>

\* A promo credit belongs to a redemption of that user, over the credits it
\* granted, and no redemption is paid out twice.
GrantedOnce ==
    \A u \in Users : \A i \in DOMAIN ledger[u] :
        ledger[u][i].type = "promo_credit" =>
            /\ \E r \in redemptions :
                   r.user = u /\ r.granted = ledger[u][i].amount /\ PaysOut(ledger[u][i], r)
            /\ \A v \in Users : \A j \in DOMAIN ledger[v] :
                   /\ ledger[v][j].type = "promo_credit"
                   /\ ledger[v][j].source = ledger[u][i].source
                   => v = u /\ j = i

\* docs/promo-codes.md: "Successful redemption creates one `promo_credit`
\* billing transaction", through all failures of the billing call, unless an
\* adjustment has taken the key of the grant.
RedemptionIsCredited ==
    \A r \in redemptions :
        \/ \E i \in DOMAIN ledger[r.user] : PaysOut(ledger[r.user][i], r)
        \/ \E u \in Users : \E i \in DOMAIN ledger[u] :
               /\ ledger[u][i].key = GrantKey(r.user, r.code)
               /\ ledger[u][i].type = "adjustment"

\* Redemptions and grants match one to one, up to the keys that are taken.
GrantsMatchRedemptions == GrantedOnce /\ RedemptionIsCredited

=============================================================================

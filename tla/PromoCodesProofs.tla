-------------------------- MODULE PromoCodesProofs --------------------------
(***************************************************************************)
(* Theorems about PromoCodes: it implements Billing, the row lock of a     *)
(* code keeps its counter, which the program increments itself, equal to   *)
(* the redemptions there are, what a redemption has validated still holds  *)
(* when it commits, and redemptions and their credits match one to one.    *)
(***************************************************************************)
EXTENDS PromoCodes, BillingProofs, FiniteSetTheorems

\* What a session that redeems holds on to: it has the code to itself, the
\* counter it read is the committed one, what it validated is still so, and it
\* asks for the grant of a redemption that does not exist yet.
Holding(s) ==
    LET c == redeeming[s].code IN
    /\ pc[s] # "idle"
    /\ promo[c] # NoCode
    /\ promo[c].active
    /\ promo[c].starts <= now
    /\ promo[c].count < promo[c].limit
    /\ redeeming[s].count = promo[c].count
    /\ \A t \in Sessions \ {s} : redeeming[t] # NoCode => redeeming[t].code # c
    /\ \E u \in Users :
           /\ req[s] = Grant(u, c, promo[c].credits)
           /\ ~AlreadyRedeemed(u, c)

\* A session that redeems nothing adjusts a balance, or is idle.
RedeemsAlone ==
    \A s \in Sessions :
        IF redeeming[s] = NoCode
        THEN req[s] = NoRequest \/ req[s].type = "adjustment"
        ELSE Holding(s)

\* Only codes that exist are redeemed, and finitely often.
RedemptionsHaveCodes ==
    /\ IsFiniteSet(redemptions)
    /\ \A r \in redemptions : promo[r.code] # NoCode

\* What the steps of a redemption rely on.
RedeemInv ==
    /\ IInv
    /\ PromoTypeOK
    /\ RedemptionsHaveCodes
    /\ RedeemsAlone
    /\ CountMatches

-----------------------------------------------------------------------------

\* An update of the counter and the active flag of a row gives a row again.
LEMMA RowUpdated ==
  ASSUME NEW r \in PromoRow, NEW k \in 0..r.limit, NEW a \in BOOLEAN
  PROVE  [r EXCEPT !.count = k, !.active = a] \in PromoRow
  <1> DEFINE q == [r EXCEPT !.count = k, !.active = a]
  <1>1. r \in PromoColumns /\ k <= r.limit /\ k \in Nat
    BY DEF PromoRow, PromoColumns
  <1>2. /\ q \in PromoColumns /\ q.count = k
        /\ q.credits = r.credits /\ q.limit = r.limit
        /\ q.starts = r.starts /\ q.expires = r.expires
    BY <1>1 DEF PromoColumns
  <1>3. PICK n \in NewCodes : /\ r.credits = n.credits /\ r.limit = n.limit
                             /\ r.starts = n.starts /\ r.expires = n.expires
    BY DEF PromoRow
  <1> HIDE DEF q
  <1>4. q \in PromoRow
    BY <1>1, <1>2, <1>3 DEF PromoRow
  <1> QED
    BY <1>4 DEF q

\* The columns of a committed row.
LEMMA RowColumns ==
  ASSUME NEW r \in PromoRow
  PROVE  /\ r # NoCode
         /\ r.credits \in Nat \ {0} /\ r.limit \in Nat \ {0}
         /\ r.count \in 0..r.limit /\ r.active \in BOOLEAN /\ r.starts \in Nat
         /\ \A u \in Users, c \in Codes : Grant(u, c, r.credits) \in Requests
  <1>1. r \in PromoColumns /\ r.count <= r.limit
    BY DEF PromoRow
  <1>3. PICK n \in NewCodes : r.credits = n.credits
    BY DEF PromoRow
  <1> QED
    BY <1>1, <1>3, PromoAssumption DEF PromoColumns

\* What a session that redeems holds, with its types.
LEMMA Held ==
  ASSUME RedeemInv, NEW s \in Sessions, redeeming[s] # NoCode
  PROVE  /\ redeeming[s].code \in Codes
         /\ promo[redeeming[s].code] \in PromoRow
         /\ Holding(s)
         /\ redeeming[s].count + 1 \in 0..promo[redeeming[s].code].limit
         /\ \E u \in Users :
                /\ req[s] = Grant(u, redeeming[s].code,
                                  promo[redeeming[s].code].credits)
                /\ ~AlreadyRedeemed(u, redeeming[s].code)
  <1>1. redeeming[s].code \in Codes /\ redeeming[s].count \in Nat
    BY DEF RedeemInv, PromoTypeOK
  <1>2. Holding(s)
    BY DEF RedeemInv, RedeemsAlone
  <1>3. promo[redeeming[s].code] \in PromoRow
    BY <1>1, <1>2 DEF RedeemInv, PromoTypeOK, Holding
  <1>4. redeeming[s].count + 1 \in 0..promo[redeeming[s].code].limit
    BY <1>2, <1>3, RowColumns DEF Holding
  <1> QED
    BY <1>1, <1>2, <1>3, <1>4 DEF Holding

\* What the commit of a redemption changes.
LEMMA Recorded ==
  ASSUME RedeemInv, NEW s \in Sessions, CommitRedemption(s)
  PROVE  LET c == redeeming[s].code IN
         /\ c \in Codes /\ promo[c] \in PromoRow
         /\ promo'[c] \in PromoRow
         /\ promo'[c] = [promo[c] EXCEPT !.count = promo[c].count + 1]
         /\ \A d \in Codes \ {c} : promo'[d] = promo[d]
         /\ RedemptionBy(s) \in Redemption
         /\ RedemptionBy(s).code = c
         /\ RedemptionBy(s) \notin redemptions
         /\ redemptions' = redemptions \cup {RedemptionBy(s)}
  <1> DEFINE c == redeeming[s].code
             k == promo[c].count + 1
  <1>1. /\ redeeming[s] # NoCode
        /\ redemptions' = redemptions \cup {RedemptionBy(s)}
        /\ promo' = [promo EXCEPT ![c].count = redeeming[s].count + 1]
    BY DEF CommitRedemption
  <1>2. /\ c \in Codes /\ promo[c] \in PromoRow
        /\ redeeming[s].count = promo[c].count
        /\ k \in 0..promo[c].limit
    BY <1>1, Held DEF Holding
  <1>3. PICK u \in Users : req[s] = Grant(u, c, promo[c].credits) /\ ~AlreadyRedeemed(u, c)
    BY <1>1, Held
  <1>4. promo \in [Codes -> PromoRow \cup {NoCode}]
    BY DEF RedeemInv, PromoTypeOK
  <1>5. /\ promo'[c] = [promo[c] EXCEPT !.count = k]
        /\ \A d \in Codes \ {c} : promo'[d] = promo[d]
    BY <1>1, <1>2, <1>4
  <1>6. [promo[c] EXCEPT !.count = k] =
            [promo[c] EXCEPT !.count = k, !.active = promo[c].active]
    BY <1>2 DEF PromoRow, PromoColumns
  <1>7. promo'[c] \in PromoRow
    <2>1. promo[c].active \in BOOLEAN
      BY <1>2, RowColumns
    <2>2. [promo[c] EXCEPT !.count = k, !.active = promo[c].active] \in PromoRow
      BY <1>2, <2>1, RowUpdated
    <2> QED
      BY <1>5, <1>6, <2>2
  <1>8. /\ RedemptionBy(s) = [user |-> u, code |-> c, granted |-> promo[c].credits]
        /\ RedemptionBy(s) \in Redemption
    BY <1>2, <1>3, RowColumns DEF RedemptionBy, Redemption, Grant
  <1>9. RedemptionBy(s) \notin redemptions
    BY <1>3, <1>8 DEF AlreadyRedeemed
  <1> QED
    BY <1>1, <1>2, <1>5, <1>7, <1>8, <1>9

\* Every step of PromoCodes is a step of Billing, or none.
LEMMA PromoStepBills ==
  ASSUME RedeemInv, [PromoNext]_promoCodesVars
  PROVE  [BillingNext]_billingVars
  <1>1. ASSUME NEW s \in Sessions, NEW u \in Users, NEW c \in Codes,
               RedeemCode(s, u, c)
        PROVE  BillingNext
    <2>1. promo[c] \in PromoRow
      BY <1>1 DEF RedeemCode, RedeemInv, PromoTypeOK
    <2>2. Grant(u, c, promo[c].credits) \in Requests
      BY <2>1, RowColumns
    <2> QED
      BY <1>1, <2>2 DEF RedeemCode, BillingNext
  <1> QED
    BY <1>1 DEF PromoNext, promoCodesVars, Tick, CreateCode, DeactivateCode,
                CommitRedemption, AbandonRedeem, AdminAdjust, BillingNext, Progress

-----------------------------------------------------------------------------

\* Every step keeps rows, redemptions, claims and clock in their types.
LEMMA PromoTypeStep ==
  ASSUME RedeemInv, [PromoNext]_promoCodesVars
  PROVE  PromoTypeOK'
  <1>1. PromoTypeOK
    BY DEF RedeemInv
  <1>2. CASE UNCHANGED promoVars
    BY <1>1, <1>2 DEF promoVars, PromoTypeOK
  <1>3. CASE Tick
    BY <1>1, <1>3, PromoAssumption DEF Tick, PromoTypeOK
  <1>4. ASSUME NEW c \in Codes, NEW n \in NewCodes, CreateCode(c, n)
        PROVE  PromoTypeOK'
    <2>1. n \in PromoColumns
      BY PromoAssumption
    <2>2. n.count <= n.limit
      BY <2>1, PromoAssumption DEF PromoColumns
    <2>3. n \in PromoRow
      BY <2>1, <2>2 DEF PromoRow
    <2> QED
      BY <1>1, <1>4, <2>3 DEF CreateCode, PromoTypeOK
  <1>5. ASSUME NEW c \in Codes, DeactivateCode(c)
        PROVE  PromoTypeOK'
    <2>1. promo[c] \in PromoRow
      BY <1>1, <1>5 DEF DeactivateCode, PromoTypeOK
    <2>2. [promo[c] EXCEPT !.active = FALSE] =
              [promo[c] EXCEPT !.count = promo[c].count, !.active = FALSE]
      BY <2>1 DEF PromoRow, PromoColumns
    <2>3. [promo[c] EXCEPT !.active = FALSE] \in PromoRow
      BY <2>1, <2>2, RowUpdated, RowColumns
    <2> QED
      BY <1>1, <1>5, <2>3 DEF DeactivateCode, PromoTypeOK
  <1>6. ASSUME NEW s \in Sessions, NEW u \in Users, NEW c \in Codes,
               RedeemCode(s, u, c)
        PROVE  PromoTypeOK'
    <2>1. promo[c] \in PromoRow
      BY <1>1, <1>6 DEF RedeemCode, PromoTypeOK
    <2> QED
      BY <1>1, <1>6, <2>1, RowColumns DEF RedeemCode, PromoTypeOK
  <1>7. ASSUME NEW s \in Sessions, CommitRedemption(s)
        PROVE  PromoTypeOK'
    <2>1. /\ promo'[redeeming[s].code] \in PromoRow
          /\ \A d \in Codes \ {redeeming[s].code} : promo'[d] = promo[d]
          /\ redemptions' \subseteq Redemption
      BY <1>1, <1>7, Recorded DEF PromoTypeOK
    <2> QED
      BY <1>1, <1>7, <2>1 DEF CommitRedemption, PromoTypeOK
  <1>8. ASSUME NEW s \in Sessions, AbandonRedeem(s)
        PROVE  PromoTypeOK'
    BY <1>1, <1>8 DEF AbandonRedeem, PromoTypeOK
  <1> QED
    BY <1>2, <1>3, <1>4, <1>5, <1>6, <1>7, <1>8
       DEF PromoNext, promoCodesVars, AdminAdjust

\* The steps that are neither a commit of a redemption nor a new code keep the
\* counters, the limits and the redemptions.
LEMMA OnlyCommitsCount ==
  ASSUME RedeemInv, [PromoNext]_promoCodesVars
  PROVE  \/ \E c \in Codes, n \in NewCodes : CreateCode(c, n)
         \/ \E s \in Sessions : CommitRedemption(s)
         \/ /\ redemptions' = redemptions
            /\ \A c \in Codes :
                   /\ promo'[c] = NoCode <=> promo[c] = NoCode
                   /\ promo[c] # NoCode => /\ promo'[c].count = promo[c].count
                                           /\ promo'[c].limit = promo[c].limit
                                           /\ promo'[c].starts = promo[c].starts
                                           /\ promo'[c].credits = promo[c].credits
  <1>1. CASE UNCHANGED <<promo, redemptions>>
    BY <1>1
  <1>2. ASSUME NEW c \in Codes, DeactivateCode(c)
        PROVE  /\ redemptions' = redemptions
               /\ \A d \in Codes :
                   /\ promo'[d] = NoCode <=> promo[d] = NoCode
                   /\ promo[d] # NoCode => /\ promo'[d].count = promo[d].count
                                           /\ promo'[d].limit = promo[d].limit
                                           /\ promo'[d].starts = promo[d].starts
                                           /\ promo'[d].credits = promo[d].credits
    <2>1. promo \in [Codes -> PromoRow \cup {NoCode}] /\ promo[c] \in PromoRow
      BY <1>2 DEF RedeemInv, PromoTypeOK, DeactivateCode
    <2>2. promo'[c] = [promo[c] EXCEPT !.active = FALSE]
      BY <1>2, <2>1 DEF DeactivateCode
    <2>3. /\ promo'[c] \in PromoColumns /\ promo'[c].count = promo[c].count
          /\ promo'[c].limit = promo[c].limit /\ promo'[c].starts = promo[c].starts
          /\ promo'[c].credits = promo[c].credits
      BY <2>1, <2>2 DEF PromoRow, PromoColumns
    <2>4. promo'[c] # NoCode
      BY <2>3, PromoAssumption
    <2>5. redemptions' = redemptions /\ \A d \in Codes \ {c} : promo'[d] = promo[d]
      BY <1>2, <2>1 DEF DeactivateCode
    <2> QED
      BY <2>1, <2>3, <2>4, <2>5, RowColumns
  <1> QED
    BY <1>1, <1>2 DEF PromoNext, promoCodesVars, promoVars, Tick, RedeemCode,
                      AbandonRedeem, AdminAdjust

\* Every step keeps the redemptions finite and their codes: no row is deleted.
LEMMA RedemptionsStep ==
  ASSUME RedeemInv, [PromoNext]_promoCodesVars
  PROVE  RedemptionsHaveCodes'
  <1>1. /\ IsFiniteSet(redemptions) /\ redemptions \subseteq Redemption
        /\ promo \in [Codes -> PromoRow \cup {NoCode}]
        /\ \A r \in redemptions : r.code \in Codes /\ promo[r.code] # NoCode
    BY DEF RedeemInv, RedemptionsHaveCodes, PromoTypeOK, Redemption
  <1>2. ASSUME NEW c \in Codes, NEW n \in NewCodes, CreateCode(c, n)
        PROVE  RedemptionsHaveCodes'
    BY <1>1, <1>2 DEF CreateCode, RedemptionsHaveCodes
  <1>3. ASSUME NEW s \in Sessions, CommitRedemption(s)
        PROVE  RedemptionsHaveCodes'
    <2>1. IsFiniteSet(redemptions')
      <3>1. redemptions' = redemptions \cup {RedemptionBy(s)}
        BY <1>3, Recorded
      <3>2. IsFiniteSet(redemptions \cup {RedemptionBy(s)})
        BY <1>1, FS_AddElement
      <3> QED
        BY <3>1, <3>2
    <2>2. ASSUME NEW r \in redemptions' PROVE promo'[r.code] # NoCode
      <3>1. /\ promo'[redeeming[s].code] # NoCode
            /\ \A d \in Codes \ {redeeming[s].code} : promo'[d] = promo[d]
        BY <1>3, Recorded, RowColumns
      <3>2. r \in redemptions \/ r.code = redeeming[s].code
        BY <1>3, Recorded
      <3> QED
        BY <1>1, <3>1, <3>2
    <2> QED
      BY <2>1, <2>2 DEF RedemptionsHaveCodes
  <1> QED
    BY <1>1, <1>2, <1>3, OnlyCommitsCount DEF RedemptionsHaveCodes


\* Every step keeps the counters equal to the redemptions and within the limit:
\* the counter that a commit writes is the one it read, which is still current.
LEMMA CountStep ==
  ASSUME RedeemInv, [PromoNext]_promoCodesVars
  PROVE  CountMatches'
  <1> DEFINE Of(c) == {r \in redemptions : r.code = c}
  <1>1. /\ IsFiniteSet(redemptions) /\ promo \in [Codes -> PromoRow \cup {NoCode}]
        /\ \A r \in redemptions : promo[r.code] # NoCode
        /\ \A c \in Codes : promo[c] # NoCode =>
               promo[c].count = Cardinality(Of(c)) /\ promo[c].count <= promo[c].limit
    BY DEF RedeemInv, RedemptionsHaveCodes, PromoTypeOK, CountMatches
  <1> SUFFICES ASSUME NEW c \in Codes, promo'[c] # NoCode
               PROVE  /\ promo'[c].count = Cardinality(Of(c)')
                      /\ promo'[c].count <= promo'[c].limit
    BY DEF CountMatches
  <1>2. ASSUME NEW d \in Codes, NEW n \in NewCodes, CreateCode(d, n)
        PROVE  /\ promo'[c].count = Cardinality(Of(c)')
               /\ promo'[c].count <= promo'[c].limit
    <2>1. Of(c)' = Of(c)
      BY <1>2 DEF CreateCode
    <2>2. CASE c = d
      <3>1. promo'[c] = n /\ promo[c] = NoCode
        BY <1>1, <1>2, <2>2 DEF CreateCode
      <3>2. Of(c) = {}
        BY <1>1, <3>1
      <3>3. n.count = 0 /\ n.limit \in Nat
        BY PromoAssumption DEF PromoColumns
      <3>4. Of(c)' = {}
        BY <2>1, <3>2
      <3> HIDE DEF Of
      <3>5. Cardinality(Of(c)') = 0
        BY <3>4, FS_EmptySet
      <3> QED
        BY <3>1, <3>3, <3>5
    <2>3. CASE c # d
      <3>1. promo'[c] = promo[c]
        BY <1>1, <1>2, <2>3 DEF CreateCode
      <3> QED
        BY <1>1, <2>1, <3>1
    <2> QED
      BY <2>2, <2>3
  <1>3. ASSUME NEW s \in Sessions, CommitRedemption(s)
        PROVE  /\ promo'[c].count = Cardinality(Of(c)')
               /\ promo'[c].count <= promo'[c].limit
    <2> DEFINE x == RedemptionBy(s)
    <2>1. /\ redeeming[s].code \in Codes /\ promo[redeeming[s].code] \in PromoRow
          /\ promo'[redeeming[s].code] \in PromoRow
          /\ promo'[redeeming[s].code].count = promo[redeeming[s].code].count + 1
          /\ \A d \in Codes \ {redeeming[s].code} : promo'[d] = promo[d]
          /\ x.code = redeeming[s].code /\ x \notin redemptions
          /\ redemptions' = redemptions \cup {x}
      BY <1>3, Recorded DEF PromoRow, PromoColumns
    <2> HIDE DEF x
    <2>2. CASE c = redeeming[s].code
      <3>1. Of(c)' = Of(c) \cup {x} /\ x \notin Of(c)
        BY <2>1, <2>2
      <3>2. Of(c) \in SUBSET redemptions
        OBVIOUS
      <3> HIDE DEF Of
      <3>6. IsFiniteSet(Of(c))
        BY <1>1, <3>2, FS_Subset
      <3>3. Cardinality(Of(c) \cup {x}) = Cardinality(Of(c)) + 1
        BY <3>1, <3>6, FS_AddElement
      <3>4. promo[c].count = Cardinality(Of(c))
        BY <1>1, <2>1, <2>2, RowColumns
      <3>5. promo'[c].count <= promo'[c].limit
        BY <2>1, <2>2, RowColumns
      <3> QED
        BY <2>1, <2>2, <3>1, <3>3, <3>4, <3>5
    <2>3. CASE c # redeeming[s].code
      <3>1. Of(c)' = Of(c) /\ promo'[c] = promo[c]
        BY <2>1, <2>3
      <3> QED
        BY <1>1, <3>1
    <2> QED
      BY <2>2, <2>3
  <1>4. CASE /\ redemptions' = redemptions
             /\ promo[c] # NoCode
             /\ promo'[c].count = promo[c].count /\ promo'[c].limit = promo[c].limit
    BY <1>1, <1>4
  <1> QED
    BY <1>2, <1>3, <1>4, OnlyCommitsCount

\* A claim on a code goes on unless its own session, or a step on that very code,
\* changes it.
LEMMA HoldingKept ==
  ASSUME RedeemInv, NEW t \in Sessions, redeeming[t] # NoCode,
         redeeming'[t] = redeeming[t], req'[t] = req[t], pc'[t] # "idle",
         now' \in Nat, now' >= now,
         promo'[redeeming[t].code] = promo[redeeming[t].code],
         \A r \in redemptions' \ redemptions : r.code # redeeming[t].code,
         \A q \in Sessions \ {t} : redeeming'[q] # NoCode =>
             redeeming'[q] = redeeming[q] \/ redeeming'[q].code # redeeming[t].code
  PROVE  Holding(t)'
  <1> DEFINE c == redeeming[t].code
  <1>1. Holding(t) /\ promo[c] \in PromoRow
    BY Held
  <1>2. promo[c].starts \in Nat /\ now \in Nat
    BY <1>1, RowColumns, PromoAssumption DEF RedeemInv, PromoTypeOK
  <1>3. /\ promo'[c] # NoCode /\ promo'[c].active /\ promo'[c].starts <= now'
        /\ promo'[c].count < promo'[c].limit
        /\ redeeming'[t].count = promo'[c].count
    BY <1>1, <1>2 DEF Holding
  <1>4. \A q \in Sessions \ {t} : redeeming'[q] # NoCode => redeeming'[q].code # c
    BY <1>1 DEF Holding
  <1>5. PICK u \in Users : req[t] = Grant(u, c, promo[c].credits) /\ ~AlreadyRedeemed(u, c)
    BY <1>1 DEF Holding
  <1>6. req'[t] = Grant(u, c, promo'[c].credits) /\ ~AlreadyRedeemed(u, c)'
    BY <1>5 DEF AlreadyRedeemed, Grant
  <1> QED
    BY <1>3, <1>4, <1>6 DEF Holding, AlreadyRedeemed, Grant


\* Every step keeps what the sessions hold: other sessions wait for the code, and
\* deactivations do too.
LEMMA AloneStep ==
  ASSUME RedeemInv, [PromoNext]_promoCodesVars
  PROVE  RedeemsAlone'
  <1> DEFINE
        Sound(t) == IF redeeming[t] = NoCode
                    THEN req[t] = NoRequest \/ req[t].type = "adjustment"
                    ELSE Holding(t)
  <1>1. /\ TypeOK /\ PromoTypeOK /\ \A q \in Sessions : Sound(q)
        /\ now \in Nat
    BY PromoAssumption DEF RedeemInv, IInv, RedeemsAlone, PromoTypeOK
  <1> SUFFICES ASSUME NEW t \in Sessions PROVE Sound(t)'
    BY DEF RedeemsAlone
  <1>2. CASE redeeming[t] = NoCode /\ redeeming'[t] = NoCode
    <2> DEFINE Fine == \/ req'[t] = req[t] \/ req'[t] = NoRequest
                       \/ req'[t].type = "adjustment"
    <2>1. Fine => Sound(t)'
      BY <1>1, <1>2
    <2>2. ASSUME NEW s \in Sessions, AdminAdjust(s)
          PROVE  Fine
      BY <1>1, <2>2, CallEnds DEF AdminAdjust, Begin, TypeOK
    <2>3. ASSUME NEW s \in Sessions, NEW u \in Users, NEW c \in Codes,
                 RedeemCode(s, u, c)
          PROVE  Fine
      <3>1. redeeming'[s] # NoCode
        BY <1>1, <2>3, RowColumns, PromoAssumption DEF RedeemCode, PromoTypeOK
      <3> QED
        BY <1>1, <1>2, <2>3, <3>1 DEF RedeemCode, Begin, TypeOK
    <2>4. ASSUME NEW s \in Sessions, CommitRedemption(s) \/ AbandonRedeem(s)
          PROVE  Fine
      BY <1>1, <2>4, CallEnds DEF CommitRedemption, AbandonRedeem, TypeOK
    <2>5. ASSUME NEW s \in Sessions, Statement(s)
          PROVE  Fine
      BY <1>1, <2>5, CallContinues
    <2>6. UNCHANGED billingVars => Fine
      BY DEF billingVars
    <2> HIDE DEF Fine, Sound
    <2> QED
      BY <2>1, <2>2, <2>3, <2>4, <2>5, <2>6
         DEF PromoNext, promoCodesVars, Tick, CreateCode, DeactivateCode
  <1>3. CASE redeeming[t] # NoCode
    <2> DEFINE c == redeeming[t].code
    <2>1. /\ Holding(t) /\ c \in Codes /\ promo[c] # NoCode /\ pc[t] # "idle"
          /\ \A q \in Sessions \ {t} : redeeming[q] # NoCode => redeeming[q].code # c
      BY <1>3, Held DEF Holding
    <2>2. CASE UNCHANGED promoCodesVars
      <3>1. UNCHANGED <<promo, redemptions, redeeming, now, req, pc>>
        BY <2>2 DEF promoCodesVars, promoVars, billingVars
      <3>2. Holding(t)'
        BY <1>1, <1>3, <2>1, <3>1, HoldingKept
      <3> QED
        BY <1>3, <3>1, <3>2
    <2>3. CASE Tick
      <3>1. UNCHANGED <<promo, redemptions, redeeming, req, pc>> /\ now' = now + 1
        BY <2>3 DEF Tick, billingVars
      <3>2. Holding(t)'
        BY <1>1, <1>3, <2>1, <3>1, HoldingKept
      <3> QED
        BY <1>3, <3>1, <3>2
    <2>4. ASSUME NEW d \in Codes,
                 (\E n \in NewCodes : CreateCode(d, n)) \/ DeactivateCode(d)
          PROVE  Sound(t)'
      <3>1. d # c
        BY <1>3, <2>1, <2>4 DEF CreateCode, DeactivateCode, CodeLockFree
      <3>2. /\ UNCHANGED <<redemptions, redeeming, now, req, pc>>
            /\ promo'[c] = promo[c]
        BY <1>1, <2>1, <2>4, <3>1
           DEF CreateCode, DeactivateCode, billingVars, PromoTypeOK
      <3>3. Holding(t)'
        BY <1>1, <1>3, <2>1, <3>2, HoldingKept
      <3> QED
        BY <1>3, <3>2, <3>3
    <2>5. ASSUME NEW s \in Sessions, NEW u \in Users, NEW d \in Codes,
                 RedeemCode(s, u, d)
          PROVE  Sound(t)'
      <3>1. pc[s] = "idle" /\ s # t /\ d # c
        BY <1>3, <2>1, <2>5 DEF RedeemCode, Begin, CodeLockFree
      <3>2. /\ UNCHANGED <<promo, redemptions, now>>
            /\ req'[t] = req[t] /\ pc'[t] = pc[t] /\ redeeming'[t] = redeeming[t]
            /\ redeeming'[s].code = d
            /\ \A q \in Sessions \ {s} : redeeming'[q] = redeeming[q]
        BY <1>1, <2>5, <3>1 DEF RedeemCode, Begin, TypeOK, PromoTypeOK
      <3>3. Holding(t)'
        BY <1>1, <1>3, <2>1, <3>1, <3>2, HoldingKept
      <3> QED
        BY <1>3, <3>2, <3>3
    <2>6. ASSUME NEW s \in Sessions, CommitRedemption(s) \/ AbandonRedeem(s)
          PROVE  Sound(t)'
      <3>1. /\ redeeming[s] # NoCode /\ redeeming'[s] = NoCode /\ now' = now
            /\ req'[s] = NoRequest
            /\ \A q \in Sessions \ {s} : /\ redeeming'[q] = redeeming[q]
                                         /\ req'[q] = req[q] /\ pc'[q] = pc[q]
        BY <1>1, <2>6, CallEnds
           DEF CommitRedemption, AbandonRedeem, TypeOK, PromoTypeOK
      <3>2. CASE s = t
        BY <3>1, <3>2
      <3>3. CASE s # t
        <4>1. redeeming[s].code # c
          BY <2>1, <3>1, <3>3
        <4>2. /\ promo'[c] = promo[c]
              /\ \A r \in redemptions' \ redemptions : r.code # c
          <5>1. CASE CommitRedemption(s)
            <6>1. /\ \A d \in Codes \ {redeeming[s].code} : promo'[d] = promo[d]
                  /\ RedemptionBy(s).code = redeeming[s].code
                  /\ redemptions' = redemptions \cup {RedemptionBy(s)}
              BY <5>1, Recorded
            <6> QED
              BY <2>1, <4>1, <6>1
          <5>2. CASE AbandonRedeem(s)
            BY <5>2 DEF AbandonRedeem
          <5> QED
            BY <2>6, <5>1, <5>2
        <4>3. \A q \in Sessions \ {t} : redeeming'[q] # NoCode =>
                  redeeming'[q] = redeeming[q]
          BY <3>1
        <4>4. Holding(t)'
          BY <1>1, <1>3, <2>1, <3>1, <3>3, <4>2, <4>3, HoldingKept
        <4> QED
          BY <1>3, <3>1, <3>3, <4>4
      <3> QED
        BY <3>2, <3>3
    <2>7. ASSUME NEW s \in Sessions,
                 AdminAdjust(s) \/ (Statement(s) /\ UNCHANGED promoVars)
          PROVE  Sound(t)'
      <3>1. UNCHANGED <<promo, redemptions, redeeming, now>>
        BY <2>7 DEF AdminAdjust, promoVars
      <3>2. CASE AdminAdjust(s)
        <4>1. s # t
          BY <1>3, <3>2 DEF AdminAdjust
        <4>2. req'[t] = req[t] /\ pc'[t] = pc[t]
          BY <1>1, <3>2, <4>1, CallEnds DEF AdminAdjust, Begin, TypeOK
        <4>3. Holding(t)'
          BY <1>1, <1>3, <2>1, <3>1, <4>2, HoldingKept
        <4> QED
          BY <1>3, <3>1, <4>3
      <3>3. CASE Statement(s)
        <4>1. req'[t] = req[t] /\ pc'[t] # "idle"
          BY <1>1, <2>1, <3>3, CallContinues
        <4>2. Holding(t)'
          BY <1>1, <1>3, <2>1, <3>1, <4>1, HoldingKept
        <4> QED
          BY <1>3, <3>1, <4>2
      <3> QED
        BY <2>7, <3>2, <3>3
    <2> QED
      BY <2>2, <2>3, <2>4, <2>5, <2>6, <2>7 DEF PromoNext
  <1>4. CASE redeeming[t] = NoCode /\ redeeming'[t] # NoCode
    <2>1. PICK u \in Users, c \in Codes : RedeemCode(t, u, c)
      BY <1>1, <1>4
         DEF PromoNext, promoCodesVars, promoVars, Tick, CreateCode, DeactivateCode,
             RedeemCode, CommitRedemption, AbandonRedeem, AdminAdjust, PromoTypeOK
    <2>2. /\ promo[c] # NoCode /\ ~AlreadyRedeemed(u, c) /\ Redeemable(c)
          /\ \A q \in Sessions : redeeming[q] # NoCode => redeeming[q].code # c
          /\ UNCHANGED <<promo, redemptions, now>>
      BY <2>1 DEF RedeemCode, CodeLockFree
    <2>3. /\ redeeming'[t] = [code |-> c, count |-> promo[c].count]
          /\ req'[t] = Grant(u, c, promo[c].credits) /\ pc'[t] = "lookup"
          /\ \A q \in Sessions \ {t} : redeeming'[q] = redeeming[q]
      BY <1>1, <2>1 DEF RedeemCode, Begin, TypeOK, PromoTypeOK
    <2>4. /\ redeeming'[t].code = c /\ redeeming'[t].count = promo[c].count
      BY <2>3
    <2>5. /\ promo'[c].active /\ promo'[c].starts <= now'
          /\ promo'[c].count < promo'[c].limit /\ promo'[c] # NoCode
      BY <2>2 DEF Redeemable
    <2>6. req'[t] = Grant(u, c, promo'[c].credits) /\ ~AlreadyRedeemed(u, c)'
      BY <2>2, <2>3 DEF AlreadyRedeemed, Grant
    <2>7. Holding(t)'
      BY <2>2, <2>3, <2>4, <2>5, <2>6 DEF Holding, AlreadyRedeemed, Grant
    <2> QED
      BY <1>4, <2>7
  <1> QED
    BY <1>2, <1>3, <1>4

\* RedeemInv holds at the start.
LEMMA RedeemInit == PromoInit => RedeemInv
  <1> SUFFICES ASSUME PromoInit PROVE RedeemInv
    OBVIOUS
  <1>1. /\ IInv /\ promo = [c \in Codes |-> NoCode] /\ redemptions = {}
        /\ redeeming = [s \in Sessions |-> NoCode] /\ now = 0
        /\ req = [s \in Sessions |-> NoRequest]
    BY InitIInv DEF PromoInit, BillingInit
  <1>2. PromoTypeOK /\ CountMatches /\ RedeemsAlone
    BY <1>1, PromoAssumption DEF PromoTypeOK, CountMatches, RedeemsAlone
  <1>3. RedemptionsHaveCodes
    BY <1>1, FS_EmptySet DEF RedemptionsHaveCodes
  <1> QED
    BY <1>1, <1>2, <1>3 DEF RedeemInv

\* Every step keeps RedeemInv.
LEMMA RedeemStep ==
  ASSUME RedeemInv, [PromoNext]_promoCodesVars
  PROVE  RedeemInv'
  BY PromoStepBills, PromoTypeStep, RedemptionsStep, CountStep, AloneStep,
     IInvStep DEF RedeemInv

\* The five parts of RedeemInv hold in every reachable state.
THEOREM RedeemInvariant == PromoSpec => []RedeemInv
  BY RedeemInit, RedeemStep, PTL DEF PromoSpec

\* Codes, redemptions and the sessions' claims on codes stay in their types.
THEOREM PromoTypeCorrect == PromoSpec => []PromoTypeOK
  BY RedeemInvariant, PTL DEF RedeemInv

\* get_promo_code(lock=True): redemptions_count, incremented outside the database,
\* is the number of redemptions and never passes the limit.
THEOREM CounterCounts == PromoSpec => []CountMatches
  BY RedeemInvariant, PTL DEF RedeemInv

\* Redemptions and adjustments use the billing service as Billing describes: all
\* that is proved of BillingSpec holds of PromoSpec.
THEOREM PromoCodesImplementBilling == PromoSpec => BillingSpec
  <1>1. PromoInit => BillingInit
    BY DEF PromoInit
  <1> QED
    BY <1>1, PromoStepBills, RedeemInvariant, PTL DEF PromoSpec, BillingSpec

\* A redemption commits only for a code that is active, started and below its
\* limit at that moment, although it was validated some steps before.
THEOREM CommittedWhileActive == PromoSpec => RedeemedWhileActive
  <1> DEFINE A == \A r \in redemptions' \ redemptions :
                      /\ promo[r.code].active
                      /\ promo[r.code].starts <= now
                      /\ promo[r.code].count < promo[r.code].limit
  <1>1. RedeemInv /\ [PromoNext]_promoCodesVars => [A]_promoCodesVars
    <2> SUFFICES ASSUME RedeemInv, [PromoNext]_promoCodesVars,
                        NEW r \in redemptions' \ redemptions
                 PROVE  /\ promo[r.code].active
                        /\ promo[r.code].starts <= now
                        /\ promo[r.code].count < promo[r.code].limit
      OBVIOUS
    <2>1. PICK s \in Sessions : CommitRedemption(s)
      BY OnlyCommitsCount DEF CreateCode
    <2>2. redeeming[s] # NoCode /\ r.code = redeeming[s].code
      BY <2>1, Recorded DEF CommitRedemption
    <2> QED
      BY <2>2, Held DEF Holding
  <1> QED
    BY <1>1, RedeemInvariant, PTL DEF PromoSpec, RedeemedWhileActive

-----------------------------------------------------------------------------

\* The row that a session's commit appends pays out the redemption it commits,
\* which is not there yet, or is an adjustment.
LEMMA RowGrants ==
  ASSUME RedeemInv, NEW s \in Sessions, pc[s] # "idle",
         NEW row, row = CL!RowFor(req[s], After(s))
  PROVE  /\ row.key = req[s].key
         /\ redeeming[s] = NoCode =>
                /\ row.type = "adjustment"
                /\ req[s] \in Requests /\ req[s].type = "adjustment"
         /\ redeeming[s] # NoCode =>
                \E u \in Users, c \in Codes :
                    /\ row.type = "promo_credit" /\ row.source = <<u, c>>
                    /\ req[s].user = u /\ req[s].key = GrantKey(u, c)
                    /\ RedemptionBy(s) = [user |-> u, code |-> c, granted |-> row.amount]
                    /\ ~AlreadyRedeemed(u, c)
  <1>1. /\ row.key = req[s].key /\ row.type = req[s].type
        /\ row.amount = req[s].amount /\ row.source = req[s].source
    BY DEF CL!RowFor
  <1>2. CASE redeeming[s] = NoCode
    BY <1>1, <1>2 DEF RedeemInv, IInv, TypeOK, RedeemsAlone
  <1>3. CASE redeeming[s] # NoCode
    <2>1. PICK u \in Users :
              /\ req[s] = Grant(u, redeeming[s].code, promo[redeeming[s].code].credits)
              /\ ~AlreadyRedeemed(u, redeeming[s].code)
      BY <1>3, Held
    <2>2. redeeming[s].code \in Codes
      BY <1>3, Held
    <2> QED
      BY <1>1, <1>3, <2>1, <2>2 DEF Grant, RedemptionBy
  <1> QED
    BY <1>1, <1>2, <1>3

\* The four kinds of steps that the ledger rows of redemptions tell apart.
LEMMA PromoSteps ==
  ASSUME RedeemInv, [PromoNext]_promoCodesVars
  PROVE  \/ UNCHANGED <<ledger, redemptions>>
         \/ \E s \in Sessions : CommitRedemption(s) /\ CommitExisting(s) /\ ledger' = ledger
         \/ \E s \in Sessions : CommitRedemption(s) /\ Commit(s)
         \/ \E s \in Sessions : AdminAdjust(s) /\ Commit(s) /\ redemptions' = redemptions
  <1>1. TypeOK
    BY DEF RedeemInv, IInv
  <1>2. ASSUME NEW s \in Sessions, CommitRedemption(s)
        PROVE  Commit(s) \/ (CommitExisting(s) /\ ledger' = ledger)
    BY <1>2 DEF CommitRedemption, CommitExisting, Rollback
  <1>3. ASSUME NEW s \in Sessions, AbandonRedeem(s)
        PROVE  UNCHANGED <<ledger, redemptions>>
    BY <1>3 DEF AbandonRedeem, Fail, Crash, TargetNotFound,
       BalanceConflict, KeyConflict, Overflow, CloseRefused, Rollback
  <1>4. ASSUME NEW s \in Sessions, AdminAdjust(s)
        PROVE  redemptions' = redemptions /\ (Commit(s) \/ ledger' = ledger)
    BY <1>4, CallEnds DEF AdminAdjust, Begin, promoVars
  <1>5. ASSUME NEW s \in Sessions, Statement(s), UNCHANGED promoVars
        PROVE  UNCHANGED <<ledger, redemptions>>
    BY <1>1, <1>5, CallContinues DEF promoVars
  <1>6. ASSUME NEW s \in Sessions, NEW u \in Users, NEW c \in Codes, RedeemCode(s, u, c)
        PROVE  UNCHANGED <<ledger, redemptions>>
    BY <1>6 DEF RedeemCode, Begin
  <1>7. UNCHANGED promoCodesVars \/ Tick
            \/ (\E c \in Codes : (\E n \in NewCodes : CreateCode(c, n)) \/ DeactivateCode(c))
        => UNCHANGED <<ledger, redemptions>>
    BY DEF promoCodesVars, promoVars, billingVars, Tick, CreateCode, DeactivateCode
  <1> QED
    BY <1>2, <1>3, <1>4, <1>5, <1>6, <1>7 DEF PromoNext

\* Every step keeps redemptions paid out at most once: the commit that writes a
\* credit writes its redemption, and there was none for that user and code.
LEMMA GrantedOnceStep ==
  ASSUME RedeemInv, GrantedOnce, [PromoNext]_promoCodesVars
  PROVE  GrantedOnce'
  <1> DEFINE Granted(u, i) == /\ u \in Users /\ i \in DOMAIN ledger[u]
                              /\ ledger[u][i].type = "promo_credit"
  <1>1. TypeOK /\ redemptions \subseteq redemptions'
    <2>1. CASE UNCHANGED <<ledger, redemptions>>
      BY <2>1 DEF RedeemInv, IInv
    <2>2. ASSUME NEW s \in Sessions, CommitRedemption(s)
          PROVE  redemptions \subseteq redemptions'
      BY <2>2 DEF CommitRedemption
    <2> QED
      BY <2>1, <2>2, PromoSteps DEF RedeemInv, IInv
  <1>2. CASE ledger' = ledger
    BY <1>1, <1>2 DEF GrantedOnce, PaysOut
  <1>3. ASSUME NEW s \in Sessions, Commit(s),
               CommitRedemption(s) \/ (AdminAdjust(s) /\ redemptions' = redemptions)
        PROVE  GrantedOnce'
    <2>0. pc[s] # "idle"
      BY <1>3 DEF Commit
    <2> DEFINE row == CL!RowFor(req[s], After(s))
               Old(w, n) == n \in DOMAIN ledger[w] /\ ledger'[w][n] = ledger[w][n]
               New(w, n) == /\ w = req[s].user /\ n = Len(ledger[w]) + 1
                            /\ ledger'[w][n] = row
    <2>1. ASSUME NEW w \in Users, NEW n \in DOMAIN ledger'[w]
          PROVE  Old(w, n) \/ New(w, n)
      BY <1>1, <1>3, RowsAfterCommit
    <2>2. CASE redeeming[s] = NoCode
      <3>1. row.type = "adjustment"
        BY <2>0, <2>2, RowGrants
      <3>2. \A w \in Users : \A n \in DOMAIN ledger'[w] :
                ledger'[w][n].type = "promo_credit" => Old(w, n)
        BY <2>1, <3>1
      <3> HIDE DEF row
      <3> QED
        BY <1>1, <3>2 DEF GrantedOnce, PaysOut
    <2>3. CASE redeeming[s] # NoCode
      <3>1. PICK u \in Users, c \in Codes :
                /\ row.type = "promo_credit" /\ row.source = <<u, c>>
                /\ req[s].user = u
                /\ RedemptionBy(s) = [user |-> u, code |-> c, granted |-> row.amount]
                /\ ~AlreadyRedeemed(u, c)
        BY <2>0, <2>3, RowGrants
      <3>2. RedemptionBy(s) \in redemptions'
        BY <1>3, <2>3 DEF CommitRedemption, AdminAdjust
      <3>3. \A w \in Users : \A n \in DOMAIN ledger[w] :
                ledger[w][n].type = "promo_credit" => ledger[w][n].source # <<u, c>>
        BY <3>1 DEF GrantedOnce, PaysOut, AlreadyRedeemed
      <3> DEFINE Fresh(w, n) == /\ w = u /\ n = Len(ledger[u]) + 1
                                /\ ledger'[w][n].source = <<u, c>>
                                /\ ledger'[w][n].type = "promo_credit"
                                /\ ledger'[w][n].amount = RedemptionBy(s).granted
      <3>4. ASSUME NEW w \in Users, NEW n \in DOMAIN ledger'[w]
            PROVE  Old(w, n) \/ Fresh(w, n)
        BY <2>1, <3>1
      <3>5. RedemptionBy(s).user = u /\ RedemptionBy(s).code = c
        BY <3>1
      <3> HIDE DEF row, New
      <3> SUFFICES ASSUME NEW w \in Users, NEW n \in DOMAIN ledger'[w],
                          ledger'[w][n].type = "promo_credit"
                   PROVE  /\ \E r \in redemptions' :
                                 /\ r.user = w /\ r.granted = ledger'[w][n].amount
                                 /\ PaysOut(ledger'[w][n], r)
                          /\ \A v \in Users : \A j \in DOMAIN ledger'[v] :
                                 /\ ledger'[v][j].type = "promo_credit"
                                 /\ ledger'[v][j].source = ledger'[w][n].source
                                 => v = w /\ j = n
        BY DEF GrantedOnce, PaysOut
      <3>6. CASE Old(w, n)
        <4>1. \E r \in redemptions' :
                  /\ r.user = w /\ r.granted = ledger'[w][n].amount
                  /\ PaysOut(ledger'[w][n], r)
          BY <1>1, <3>6 DEF GrantedOnce, PaysOut
        <4>2. ledger'[w][n].source # <<u, c>>
          BY <3>3, <3>6
        <4> QED
          BY <3>4, <3>6, <4>1, <4>2 DEF GrantedOnce
      <3>7. CASE Fresh(w, n)
        <4>1. \E r \in redemptions' :
                  /\ r.user = w /\ r.granted = ledger'[w][n].amount
                  /\ PaysOut(ledger'[w][n], r)
          BY <3>2, <3>5, <3>7 DEF PaysOut
        <4>2. ASSUME NEW v \in Users, NEW j \in DOMAIN ledger'[v],
                     ledger'[v][j].type = "promo_credit",
                     ledger'[v][j].source = <<u, c>>
              PROVE  v = w /\ j = n
          BY <3>3, <3>4, <3>7, <4>2
        <4> QED
          BY <3>7, <4>1, <4>2
      <3> QED
        BY <3>4, <3>6, <3>7
    <2> QED
      BY <2>2, <2>3
  <1> QED
    BY <1>2, <1>3, PromoSteps

-----------------------------------------------------------------------------

\* An adjustment has taken the key of the grant of code c to user u: the row says
\* so, and one of the requests asked for it.
TookGrant(row, u, c) ==
    /\ row.type = "adjustment"
    /\ \E r \in Requests : r.type = "adjustment" /\ r.key = GrantKey(u, c)

\* Whatever has the key of a grant in the ledger is that grant or took its key.
GrantKeysExplained ==
    \A u, v \in Users, c \in Codes : \A i \in DOMAIN ledger[v] :
        ledger[v][i].key = GrantKey(u, c) =>
            \/ ledger[v][i].type = "promo_credit" /\ ledger[v][i].source = <<u, c>>
            \/ TookGrant(ledger[v][i], u, c)

GrantInv ==
    /\ RedeemInv
    /\ GrantedOnce
    /\ ExistingPosted
    /\ GrantKeysExplained
    /\ RedemptionIsCredited

\* Every step keeps the keys of grants explained.
LEMMA GrantKeysStep ==
  ASSUME GrantInv, [PromoNext]_promoCodesVars
  PROVE  GrantKeysExplained'
  <1>1. RedeemInv /\ GrantKeysExplained /\ TypeOK
    BY DEF GrantInv, RedeemInv, IInv
  <1>2. CASE ledger' = ledger
    BY <1>1, <1>2 DEF GrantKeysExplained, TookGrant
  <1>3. ASSUME NEW s \in Sessions, Commit(s)
        PROVE  GrantKeysExplained'
    <2> SUFFICES ASSUME NEW u \in Users, NEW v \in Users, NEW c \in Codes,
                        NEW i \in DOMAIN ledger'[v],
                        ledger'[v][i].key = GrantKey(u, c)
                 PROVE  \/ /\ ledger'[v][i].type = "promo_credit"
                           /\ ledger'[v][i].source = <<u, c>>
                        \/ TookGrant(ledger'[v][i], u, c)
      BY DEF GrantKeysExplained, TookGrant
    <2> DEFINE row == CL!RowFor(req[s], After(s))
    <2>1. \/ i \in DOMAIN ledger[v] /\ ledger'[v][i] = ledger[v][i]
          \/ ledger'[v][i] = row
      BY <1>1, <1>3, RowsAfterCommit
    <2>2. CASE i \in DOMAIN ledger[v] /\ ledger'[v][i] = ledger[v][i]
      BY <1>1, <2>2 DEF GrantKeysExplained
    <2>3. CASE ledger'[v][i] = row
      <3>1. pc[s] # "idle"
        BY <1>3 DEF Commit
      <3>2. req[s].key = GrantKey(u, c)
        BY <1>1, <2>3, <3>1, RowGrants
      <3>3. CASE redeeming[s] = NoCode
        BY <1>1, <2>3, <3>1, <3>2, <3>3, RowGrants DEF TookGrant
      <3>4. CASE redeeming[s] # NoCode
        <4>1. PICK w \in Users, d \in Codes :
                  /\ row.type = "promo_credit" /\ row.source = <<w, d>>
                  /\ req[s].key = GrantKey(w, d)
          BY <1>1, <3>1, <3>4, RowGrants
        <4>2. w = u /\ d = c
          <5>1. GrantKey(w, d) = GrantKey(u, c)
            BY <3>2, <4>1
          <5> HIDE DEF row
          <5> QED
            BY <5>1, PromoAssumption
        <4> QED
          BY <2>3, <4>1, <4>2
      <3> QED
        BY <3>3, <3>4
    <2> QED
      BY <2>1, <2>2, <2>3
  <1> QED
    BY <1>1, <1>2, <1>3, PromoSteps

\* Every step keeps redemptions credited, or their keys taken.  The row that a
\* redemption finds by its key cannot be its own grant: that would be redeemed.
LEMMA RedemptionCreditedStep ==
  ASSUME GrantInv, [PromoNext]_promoCodesVars
  PROVE  RedemptionIsCredited'
  <1> DEFINE Paid(r) == \E i \in DOMAIN ledger[r.user] : PaysOut(ledger[r.user][i], r)
             Taken(r) == \E u \in Users : \E i \in DOMAIN ledger[u] :
                             /\ ledger[u][i].key = GrantKey(r.user, r.code)
                             /\ ledger[u][i].type = "adjustment"
  <1>1. /\ RedeemInv /\ TypeOK
        /\ \A r \in redemptions : Paid(r) \/ Taken(r)
        /\ \A r \in redemptions : r.user \in Users
    BY DEF GrantInv, RedeemInv, IInv, RedemptionIsCredited, PromoTypeOK, Redemption
  <1>2. CASE UNCHANGED <<ledger, redemptions>>
    <2> SUFFICES ASSUME NEW r \in redemptions' PROVE Paid(r)' \/ Taken(r)'
      BY DEF RedemptionIsCredited
    <2> QED
      BY <1>1, <1>2 DEF PaysOut
  <1>3. ASSUME NEW s \in Sessions, CommitRedemption(s), CommitExisting(s),
               ledger' = ledger
        PROVE  RedemptionIsCredited'
    <2> SUFFICES ASSUME NEW r \in redemptions' PROVE Paid(r)' \/ Taken(r)'
      BY DEF RedemptionIsCredited
    <2>1. CASE r \in redemptions
      BY <1>1, <1>3, <2>1 DEF PaysOut
    <2>2. CASE r \notin redemptions
      <3>1. /\ pc[s] = "existing" /\ redeeming[s] # NoCode /\ r = RedemptionBy(s)
            /\ CL!Posted(req[s].key)
        BY <1>3, <2>2 DEF CommitExisting, CommitRedemption, GrantInv, ExistingPosted
      <3>2. PICK u \in Users, c \in Codes :
                /\ req[s].key = GrantKey(u, c) /\ ~AlreadyRedeemed(u, c)
                /\ r.user = u /\ r.code = c
        BY <1>1, <3>1, RowGrants
      <3>3. PICK v \in Users : \E i \in DOMAIN ledger[v] :
                                   ledger[v][i].key = GrantKey(u, c)
        BY <3>1, <3>2 DEF CL!Posted
      <3>4. PICK i \in DOMAIN ledger[v] : ledger[v][i].key = GrantKey(u, c)
        BY <3>3
      <3>5. ~(ledger[v][i].type = "promo_credit" /\ ledger[v][i].source = <<u, c>>)
        BY <3>2 DEF GrantInv, GrantedOnce, PaysOut, AlreadyRedeemed
      <3>6. ledger[v][i].type = "adjustment"
        BY <3>4, <3>5 DEF GrantInv, GrantKeysExplained, TookGrant
      <3> QED
        BY <1>3, <3>2, <3>4, <3>6
    <2> QED
      BY <2>1, <2>2
  <1>4. ASSUME NEW s \in Sessions, Commit(s),
               CommitRedemption(s) \/ (AdminAdjust(s) /\ redemptions' = redemptions)
        PROVE  RedemptionIsCredited'
    <2> SUFFICES ASSUME NEW r \in redemptions' PROVE Paid(r)' \/ Taken(r)'
      BY DEF RedemptionIsCredited
    <2>1. pc[s] # "idle" /\ req[s].user \in Users
      BY <1>1, <1>4 DEF Commit, TypeOK
    <2> DEFINE row == CL!RowFor(req[s], After(s))
    <2>2. /\ \A u \in Users : \A i \in DOMAIN ledger[u] :
                 i \in DOMAIN ledger'[u] /\ ledger'[u][i] = ledger[u][i]
          /\ \E i \in DOMAIN ledger'[req[s].user] : ledger'[req[s].user][i] = row
      BY <1>1, <1>4, <2>1, RowsKept
    <2>3. CASE r \in redemptions
      <3>1. CASE Paid(r)
        BY <1>1, <2>2, <2>3, <3>1 DEF PaysOut
      <3>2. CASE Taken(r)
        BY <2>2, <3>2
      <3> QED
        BY <1>1, <2>3, <3>1, <3>2
    <2>4. CASE r \notin redemptions
      <3>1. redeeming[s] # NoCode /\ r = RedemptionBy(s)
        BY <1>4, <2>4 DEF CommitRedemption
      <3>2. PICK u \in Users, c \in Codes :
                /\ row.type = "promo_credit" /\ row.source = <<u, c>>
                /\ req[s].user = u
                /\ r.user = u /\ r.code = c
        BY <1>1, <2>1, <3>1, RowGrants
      <3>3. PaysOut(row, r)
        BY <3>2 DEF PaysOut
      <3> HIDE DEF row
      <3> QED
        BY <2>2, <3>2, <3>3 DEF PaysOut
    <2> QED
      BY <2>3, <2>4
  <1> QED
    BY <1>1, <1>2, <1>3, <1>4, PromoSteps

\* The invariant that the last two theorems share.
THEOREM GrantInvariant == PromoSpec => []GrantInv
  <1>1. PromoInit => GrantInv
    <2> SUFFICES ASSUME PromoInit PROVE GrantInv
      OBVIOUS
    <2>1. /\ redemptions = {} /\ \A u \in Users : ledger[u] = <<>>
          /\ \A s \in Sessions : pc[s] = "idle"
      BY DEF PromoInit, BillingInit, CL!LedgerInit
    <2>2. ASSUME NEW u \in Users PROVE DOMAIN ledger[u] = {}
      <3>1. ledger[u] = <<>>
        BY <2>1
      <3> QED
        BY <3>1
    <2>3. RedeemInv
      BY RedeemInit
    <2>4. GrantedOnce /\ GrantKeysExplained
      BY <2>2 DEF GrantedOnce, GrantKeysExplained
    <2>5. ExistingPosted /\ RedemptionIsCredited
      BY <2>1 DEF ExistingPosted, RedemptionIsCredited
    <2> QED
      BY <2>3, <2>4, <2>5 DEF GrantInv
  <1>2. GrantInv /\ [PromoNext]_promoCodesVars => GrantInv'
    <2> SUFFICES ASSUME GrantInv, [PromoNext]_promoCodesVars PROVE GrantInv'
      OBVIOUS
    <2>1. RedeemInv /\ GrantedOnce /\ ExistingPosted /\ TypeOK
      BY DEF GrantInv, RedeemInv, IInv
    <2>2. RedeemInv'
      BY <2>1, RedeemStep
    <2>3. ExistingPosted'
      BY <2>1, PromoStepBills, ExistingStep
    <2> QED
      BY <2>1, <2>2, <2>3, GrantedOnceStep, GrantKeysStep, RedemptionCreditedStep
         DEF GrantInv
  <1> QED
    BY <1>1, <1>2, PTL DEF PromoSpec

\* Redemptions and promo credits match one to one, up to the keys of grants that
\* adjustments have taken.
THEOREM RedemptionsCredited == PromoSpec => []GrantsMatchRedemptions
  BY GrantInvariant, PTL DEF GrantInv, GrantsMatchRedemptions

\* No adjustment carries the key of a grant.
GrantKeysReserved ==
    \A r \in Requests, u \in Users, c \in Codes :
        r.type = "adjustment" => r.key # GrantKey(u, c)

\* docs/promo-codes.md holds without exception in every instance in which
\* adjustments keep off the keys of grants: a redemption has been paid out.
THEOREM RedemptionCredited ==
  ASSUME GrantKeysReserved
  PROVE  PromoSpec => [](\A r \in redemptions : \E i \in DOMAIN ledger[r.user] :
                             PaysOut(ledger[r.user][i], r))
  <1>1. GrantInv => \A r \in redemptions : \E i \in DOMAIN ledger[r.user] :
                        PaysOut(ledger[r.user][i], r)
    <2> SUFFICES ASSUME GrantInv, NEW r \in redemptions,
                        NEW u \in Users, NEW i \in DOMAIN ledger[u],
                        ledger[u][i].key = GrantKey(r.user, r.code),
                        ledger[u][i].type = "adjustment"
                 PROVE  FALSE
      BY DEF GrantInv, RedemptionIsCredited
    <2>1. r.user \in Users /\ r.code \in Codes
      BY DEF GrantInv, RedeemInv, PromoTypeOK, Redemption
    <2>2. TookGrant(ledger[u][i], r.user, r.code)
      BY <2>1 DEF GrantInv, GrantKeysExplained
    <2> QED
      BY <2>1, <2>2 DEF TookGrant, GrantKeysReserved
  <1> QED
    BY <1>1, GrantInvariant, PTL

=============================================================================

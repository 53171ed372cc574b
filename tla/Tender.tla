------------------------------- MODULE Tender -------------------------------
(***************************************************************************)
(* What a settlement draws on besides its own bill: coupons, loyalty OTPs  *)
(* and points, and gift cards.  orders.service.ts (settle and              *)
(* resolveDiscounts), loyalty-otp.service.ts, gift-cards.service.ts and    *)
(* the coupon of edge-ingest.service.ts.                                   *)
(*                                                                         *)
(* A transaction of READ COMMITTED isolation is a list of rows it has yet  *)
(* to lock, in the order of the code's statements.  A row is locked by the *)
(* statement that checks and writes it, the write is published by commit,  *)
(* and nobody changes the row in between.  Reads that take no lock (the    *)
(* coupon, the OTP) happen where the code makes them.                      *)
(***************************************************************************)
EXTENDS Naturals, FiniteSets, Sequences, SequencesExt

CONSTANTS
    Txns,          \* requests that run a transaction
    Cards,         \* gift card codes, compared as the code sorts them
    Otps,          \* redemption codes in the order they are requested
    Plans,         \* what settlements tender, see Plan
    UsageLimit,    \* coupons.usageLimit
    FaceValue,     \* what a gift card is issued with
    RedeemPoints,  \* points a settlement redeems
    EarnPoints,    \* points a settlement earns
    MaxPoints,     \* bound: settlements are not sent once the balance would pass it
    MaxSales       \* bound on settlements and ingested sales

\* coupon, redeem (with a code typed in): whether the settlement uses them;
\* phone: whether a customer is named; cards: the gift cards tendered
Plan == [coupon : BOOLEAN, redeem : BOOLEAN, code : Otps \cup {0}, phone : BOOLEAN,
         cards : SUBSET Cards]
NoPlan == [coupon |-> FALSE, redeem |-> FALSE, code |-> 0, phone |-> FALSE,
           cards |-> {}]

\* resolveDiscounts refuses points without a customer's phone, verifyAndConsume
\* a redemption without a code
ASSUME TenderAssumption ==
    /\ Cards \subseteq Nat /\ Otps \subseteq Nat
    /\ {UsageLimit, FaceValue, RedeemPoints, EarnPoints, MaxPoints, MaxSales} \subseteq Nat
    /\ IsFiniteSet(Txns) /\ Txns # {} /\ "free" \notin Txns
    /\ \A p \in Plans : p \in Plan /\ IsFiniteSet(p.cards) /\ (p.redeem => p.phone /\ p.code \in Otps)

VARIABLES
    usedCount, \* usedCount of the coupon
    sales,     \* history: settlements, those with the coupon, ingested sales with it
    otp,       \* status of each redemption code
    card,      \* gift cards
    points,    \* the customer's loyalty points
    ledger,    \* points earned and redeemed according to loyalty_transactions
    txn,       \* transactions
    rowLock    \* holder of each row

tenderVars == <<usedCount, sales, otp, card, points, ledger, txn, rowLock>>

OutletRow == <<"outlet", 0>>
CustomerRow == <<"customer", 0>>
CouponRow == <<"coupon", 0>>
CardRow(c) == <<"card", c>>
OtpRow(o) == <<"otp", o>>
TenderRows == {OutletRow, CustomerRow, CouponRow}
              \cup {CardRow(c) : c \in Cards} \cup {OtpRow(o) : o \in Otps}

TxnIdle == [kind |-> "idle", want |-> <<>>, plan |-> NoPlan]
Card == [status : {"none", "ACTIVE", "VOID"}, expired : BOOLEAN, balance : Nat,
         spent : Nat, forfeited : Nat]

Txn == [kind : {"idle", "verify", "settle", "ingest", "void"}, want : Seq(TenderRows), plan : Plan]

TenderTypeOK ==
    /\ usedCount \in Nat /\ sales \in [settled : Nat, withCoupon : Nat, ingested : Nat]
    /\ otp \in [Otps -> {"none", "live", "expired", "consumed"}]
    /\ card \in [Cards -> Card]
    /\ points \in Nat /\ ledger \in [earned : Nat, redeemed : Nat]
    /\ txn \in [Txns -> Txn]
    /\ rowLock \in [TenderRows -> Txns \cup {"free"}]

TenderInit ==
    /\ usedCount = 0
    /\ sales = [settled |-> 0, withCoupon |-> 0, ingested |-> 0]
    /\ otp = [o \in Otps |-> "none"]
    /\ card = [c \in Cards |-> [status |-> "none", expired |-> FALSE, balance |-> 0,
                                spent |-> 0, forfeited |-> 0]]
    /\ points = RedeemPoints
    /\ ledger = [earned |-> RedeemPoints, redeemed |-> 0]
    /\ txn = [t \in Txns |-> TxnIdle]
    /\ rowLock = [row \in TenderRows |-> "free"]

----------------------------------------------------------------------------
(* Reads without a lock. *)

\* evaluateCoupon: a coupon whose other conditions hold
CouponValid == usedCount < UsageLimit

LiveOtps == {o \in Otps : otp[o] = "live"}
SalesOpen == sales.settled + sales.ingested < MaxSales

----------------------------------------------------------------------------
(* Transactions. *)

LocksOf(codes) == [i \in DOMAIN codes |-> CardRow(codes[i])]
Sorted(codes) == \A i, j \in DOMAIN codes : i < j => codes[i] < codes[j]

\* variant: gift cards are locked in the order they were tendered in
CardLocksAsTendered(cards) == {LocksOf(codes) : codes \in SetToSeqs(cards)}

\* redeemGiftCardsTx locks the cards of a settlement in the order of their codes
CardLocks(cards) == {LocksOf(codes) : codes \in {s \in SetToSeqs(cards) : Sorted(s)}}

When(b, row) == IF b THEN <<row>> ELSE <<>>
\* the statements of settle from the tenders on: cards, bill number, customer, coupon
SettleLocks(p, cards) ==
    cards \o <<OutletRow>> \o When(p.phone, CustomerRow) \o When(p.coupon, CouponRow)

\* resolveDiscounts: the coupon is read, nothing is locked
BeginTender(t, p) ==
    /\ txn[t].kind = "idle"
    /\ p.coupon => CouponValid
    /\ \E locks \in CardLocks(p.cards) :
          txn' = [txn EXCEPT ![t] =
                     [kind |-> IF p.redeem THEN "verify" ELSE "settle",
                      want |-> SettleLocks(p, locks), plan |-> p]]
    /\ UNCHANGED <<usedCount, sales, otp, card, points, ledger, rowLock>>

EndTxn(t) ==
    /\ txn' = [txn EXCEPT ![t] = TxnIdle]
    /\ rowLock' = [row \in TenderRows |-> IF rowLock[row] = t THEN "free" ELSE rowLock[row]]
RollBack(t) ==
    /\ EndTxn(t)
    /\ UNCHANGED <<usedCount, sales, otp, card, points, ledger>>

\* verifyAndConsume: the newest live code must be the one typed in; the row is
\* locked only by the update that consumes it
VerifyOtp(t) ==
    /\ txn[t].kind = "verify"
    /\ LET code == txn[t].plan.code
       IN  \/ /\ code \in LiveOtps /\ \A o \in LiveOtps : o <= code
              /\ txn' = [txn EXCEPT ![t].kind = "settle", ![t].want = <<OtpRow(code)>> \o @]
              /\ UNCHANGED <<usedCount, sales, otp, card, points, ledger, rowLock>>
           \/ ~(code \in LiveOtps /\ \A o \in LiveOtps : o <= code) /\ RollBack(t)

\* variant: the points balance is not a condition of the update
PointsSufficeUnchecked(t) == TRUE

\* the WHERE of the conditional decrement of customers.loyaltyPoints
PointsSuffice(t) == txn[t].plan.redeem => points >= RedeemPoints

\* variant: a card is accepted whatever balance is left on it
CardAcceptsUnchecked(c) == card[c].status = "ACTIVE" /\ ~card[c].expired

\* redeemGiftCardsTx, under the card's row lock; every card tender is one unit
CardAccepts(c) == card[c].status = "ACTIVE" /\ ~card[c].expired /\ card[c].balance >= 1

\* what the statement that locks the row checks about it
RowAccepts(t, row) ==
    CASE row[1] = "card" -> IF txn[t].kind = "void" THEN card[row[2]].status # "VOID"
                            ELSE CardAccepts(row[2])
      [] row[1] = "customer" -> PointsSuffice(t)
      [] OTHER -> TRUE

LockNext(t) ==
    /\ txn[t].kind \in {"settle", "ingest", "void"} /\ txn[t].want # <<>>
    /\ LET row == Head(txn[t].want)
       IN  /\ rowLock[row] = "free"
           /\ \/ /\ RowAccepts(t, row)
                 /\ txn' = [txn EXCEPT ![t].want = Tail(@)]
                 /\ rowLock' = [rowLock EXCEPT ![row] = t]
                 /\ UNCHANGED <<usedCount, sales, otp, card, points, ledger>>
              \/ ~RowAccepts(t, row) /\ RollBack(t)

One(b) == IF b THEN 1 ELSE 0

\* usedCount: { increment: 1 }
CountUse(n) == usedCount' = usedCount + n

CommitSettle(t) ==
    LET p == txn[t].plan
        redeemed == RedeemPoints * One(p.redeem)
        earned == EarnPoints * One(p.phone)
    IN  /\ txn[t].kind = "settle" /\ txn[t].want = <<>>
        /\ otp' = IF p.redeem THEN [otp EXCEPT ![p.code] = "consumed"] ELSE otp
        /\ card' = [c \in Cards |-> IF c \in p.cards
                       THEN [card[c] EXCEPT !.balance = @ - 1, !.spent = @ + 1] ELSE card[c]]
        /\ points' = (points - redeemed) + earned
        /\ ledger' = [earned |-> ledger.earned + earned, redeemed |-> ledger.redeemed + redeemed]
        /\ CountUse(One(p.coupon))
        /\ sales' = [sales EXCEPT !.settled = @ + 1, !.withCoupon = @ + One(p.coupon)]
        /\ EndTxn(t)
    
\* an offline sale with the coupon: insertOrder locks it first, then the counters,
\* and counts the use even past the limit
BeginIngest(t) ==
    /\ txn[t].kind = "idle"
    /\ txn' = [txn EXCEPT ![t] = [kind |-> "ingest", want |-> <<CouponRow, OutletRow>>,
                                  plan |-> [NoPlan EXCEPT !.coupon = TRUE]]]
    /\ UNCHANGED <<usedCount, sales, otp, card, points, ledger, rowLock>>

CommitIngest(t) ==
    /\ txn[t].kind = "ingest" /\ txn[t].want = <<>>
    /\ CountUse(1)
    /\ sales' = [sales EXCEPT !.ingested = @ + 1]
    /\ EndTxn(t)
    /\ UNCHANGED <<otp, card, points, ledger>>

\* a timeout, a payment that does not match the total, a crash
FailTxn(t) == txn[t].kind # "idle" /\ RollBack(t)

TxnWaitsFor(t, u) ==
    txn[t].kind # "verify" /\ txn[t].want # <<>> /\ rowLock[Head(txn[t].want)] = u
TxnCycle(C) == C # {} /\ \A t \in C : \E u \in C : TxnWaitsFor(t, u)
\* PostgreSQL aborts a member of a cycle
AbortVictim(t) == (\E C \in SUBSET Txns : t \in C /\ TxnCycle(C)) /\ RollBack(t)

----------------------------------------------------------------------------
(* Gift cards and loyalty codes outside settlement. *)

BeginVoid(t, c) ==
    /\ txn[t].kind = "idle" /\ card[c].status # "none"
    /\ txn' = [txn EXCEPT ![t] = [kind |-> "void", want |-> <<CardRow(c)>>,
                                  plan |-> [NoPlan EXCEPT !.cards = {c}]]]
    /\ UNCHANGED <<usedCount, sales, otp, card, points, ledger, rowLock>>

CommitVoid(t) ==
    /\ txn[t].kind = "void" /\ txn[t].want = <<>>
    /\ card' = [c \in Cards |-> IF c \in txn[t].plan.cards
                   THEN [card[c] EXCEPT !.status = "VOID", !.forfeited = @ + card[c].balance, !.balance = 0]
                   ELSE card[c]]
    /\ EndTxn(t)
    /\ UNCHANGED <<usedCount, sales, otp, points, ledger>>

\* issue a gift card, or store credit for a refund
IssueCard(c) ==
    /\ card[c].status = "none"
    /\ card' = [card EXCEPT ![c].status = "ACTIVE", ![c].balance = FaceValue]
    /\ UNCHANGED <<usedCount, sales, otp, points, ledger, txn, rowLock>>

ExpireCard(c) ==
    /\ card[c].status = "ACTIVE" /\ ~card[c].expired
    /\ card' = [card EXCEPT ![c].expired = TRUE]
    /\ UNCHANGED <<usedCount, sales, otp, points, ledger, txn, rowLock>>

\* requestOtp: refused without points to redeem; older codes stay live
RequestOtp(o) ==
    /\ otp[o] = "none" /\ \A q \in Otps : q < o => otp[q] # "none"
    /\ points > 0
    /\ otp' = [otp EXCEPT ![o] = "live"]
    /\ UNCHANGED <<usedCount, sales, card, points, ledger, txn, rowLock>>

ExpireOtp(o) ==
    /\ otp[o] = "live"
    /\ otp' = [otp EXCEPT ![o] = "expired"]
    /\ UNCHANGED <<usedCount, sales, card, points, ledger, txn, rowLock>>

----------------------------------------------------------------------------

TxnStep(t) ==
    \/ SalesOpen /\ points + EarnPoints <= MaxPoints
       /\ \E p \in Plans : BeginTender(t, p)
    \/ SalesOpen /\ BeginIngest(t)
    \/ \E c \in Cards : BeginVoid(t, c)
    \/ VerifyOtp(t) \/ LockNext(t)
    \/ CommitSettle(t) \/ CommitIngest(t) \/ CommitVoid(t)
    \/ FailTxn(t) \/ AbortVictim(t)

TenderNext ==
    \/ \E t \in Txns : TxnStep(t)
    \/ \E c \in Cards : IssueCard(c) \/ ExpireCard(c)
    \/ \E o \in Otps : RequestOtp(o) \/ ExpireOtp(o)

TenderSpec == TenderInit /\ [][TenderNext]_tenderVars

----------------------------------------------------------------------------
(* Properties. *)

\* No gift card is overdrawn, and what is left on it, what was spent and what was
\* forfeited by voiding it add up to its value: racing redemptions and voids of
\* one card (redeemGiftCardsTx, void) never spend a rupee twice.
CardsNeverOverspent ==
    \A c \in Cards : card[c].status # "none" =>
        card[c].balance >= 0 /\ card[c].balance + card[c].spent + card[c].forfeited = FaceValue

\* The points balance settlements decrement conditionally and increment blindly
\* equals its ledger, so no points are spent twice although the check of the OTP
\* that gates them can be passed twice.
PointsMatchLedger == ledger.earned >= ledger.redeemed /\ points = ledger.earned - ledger.redeemed

\* usedCount counts every sale with the coupon, and although settle reads it long
\* before it locks the row, online sales exceed the limit by no more than the other
\* settlements under way.
CouponOverrunBounded ==
    /\ usedCount = sales.withCoupon + sales.ingested
    /\ sales.withCoupon <= (UsageLimit + Cardinality(Txns)) - 1

\* Settlements and voids never wait for each other in a circle: gift cards are
\* locked in the order of their codes and before the counters. (An ingested sale,
\* which locks its coupon before the counter, can be part of a circle.)
SettlementsDoNotDeadlock ==
    \A C \in SUBSET {t \in Txns : txn[t].kind # "ingest"} : ~TxnCycle(C)

\* Tenders add up: gift cards, loyalty points and coupon uses.
TendersBalance == CardsNeverOverspent /\ PointsMatchLedger /\ CouponOverrunBounded
=============================================================================

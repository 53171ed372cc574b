---------------------------- MODULE CounterProofs ----------------------------
(***************************************************************************)
(* Theorems about the counter.                                             *)
(*                                                                         *)
(* Tender: CardsAddUp, PointsMatchLedger and CouponsCounted are what the   *)
(* settlements must keep true; they do because a transaction holds every   *)
(* row it writes when it commits (LocksSound), so that what it found there *)
(* still holds (ChecksHold).  Rows are locked in one order, which is why   *)
(* nobody waits in a circle.                                               *)
(*                                                                         *)
(* CashBook: the movements of a drawer are explained by the expenses paid  *)
(* from it (MovesExplained), because a payout holds its drawer and a void  *)
(* its expense (TillsHold); summed over the drawers that is the day book.  *)
(*                                                                         *)
(* Collections: whatever reports a capture does so after the provider has  *)
(* the money (CaptureEvidence), so that a capture is neither overwritten   *)
(* nor overlooked.                                                         *)
(***************************************************************************)
EXTENDS Tender, CashBook, Collections, SumProofs

(* The order rows are locked in. *)

Stages == [otp |-> 0, card |-> 1, outlet |-> 2, customer |-> 3, coupon |-> 4]
Stage(row) == Stages[row[1]]
Before(q, r) == Stage(q) < Stage(r) \/ (Stage(q) = 1 /\ Stage(r) = 1 /\ q[2] < r[2])
InRowOrder(w) == \A i, j \in DOMAIN w : i < j => Before(w[i], w[j])
AllBefore(A, B) == \A q \in A, r \in B : Before(q, r)

\* Rows differ in their kind, cards in their code.
LEMMA RowsAre ==
    /\ \A c \in Cards : CardRow(c) \in TenderRows /\ Stage(CardRow(c)) = 1 /\ CardRow(c)[2] = c
    /\ \A o \in Otps : OtpRow(o) \in TenderRows /\ Stage(OtpRow(o)) = 0
    /\ OutletRow \in TenderRows /\ Stage(OutletRow) = 2
    /\ CustomerRow \in TenderRows /\ Stage(CustomerRow) = 3
    /\ CouponRow \in TenderRows /\ Stage(CouponRow) = 4
    /\ \A r \in TenderRows : /\ Stage(r) \in 0..4
                             /\ (r[1] = "card") = (Stage(r) = 1)
                             /\ (r[1] = "customer") = (Stage(r) = 3)
                             /\ Stage(r) = 1 => r[2] \in Cards /\ r = CardRow(r[2])
                             /\ Stage(r) = 3 => r = CustomerRow
BY DEF TenderRows, CardRow, OtpRow, OutletRow, CustomerRow, CouponRow, Stage, Stages

\* The order of the rows is a strict one.
LEMMA RowsOrdered ==
    ASSUME NEW q \in TenderRows, NEW r \in TenderRows, NEW s \in TenderRows
    PROVE  /\ ~Before(q, q)
           /\ Before(q, r) /\ Before(r, s) => Before(q, s)
<1>1. Stage(q) \in Nat /\ Stage(r) \in Nat /\ Stage(s) \in Nat
  BY RowsAre
<1>2. /\ Stage(q) = 1 => q[2] \in Nat
      /\ Stage(r) = 1 => r[2] \in Nat
      /\ Stage(s) = 1 => s[2] \in Nat
  BY RowsAre, TenderAssumption
<1>3. QED
  BY <1>1, <1>2 DEF Before

\* One lock list after another.
LEMMA JoinOrdered ==
    ASSUME NEW v \in Seq(TenderRows), NEW w \in Seq(TenderRows),
           InRowOrder(v), InRowOrder(w), AllBefore(Range(v), Range(w))
    PROVE  /\ v \o w \in Seq(TenderRows) /\ InRowOrder(v \o w)
           /\ Range(v \o w) = Range(v) \cup Range(w)
<1>1. PICK u : u = v \o w
  OBVIOUS
<1>2. PICK m \in Nat : m = Len(v)
  OBVIOUS
<1>3. PICK n \in Nat : n = Len(w)
  OBVIOUS
<1>4. u \in Seq(TenderRows)
  <2>1. PICK R : R = TenderRows
    OBVIOUS
  <2>2. v \in Seq(R) /\ w \in Seq(R)
    BY <2>1
  <2>3. v \o w \in Seq(R)
    BY <2>2
  <2>4. QED
    BY <1>1, <2>1, <2>3
<1>5. DOMAIN v = 1..m /\ DOMAIN w = 1..n /\ DOMAIN u = 1..(m + n)
  BY <1>1, <1>2, <1>3
<1>6. /\ \A i \in 1..m : u[i] = v[i]
      /\ \A i \in (m+1)..(m+n) : u[i] = w[i - m]
  BY <1>1, <1>2, <1>3
<1>7. \A i \in 1..(m+n) : i \in 1..m \/ (i \in (m+1)..(m+n) /\ i - m \in 1..n)
  OBVIOUS
<1>8. ASSUME NEW i \in DOMAIN u, NEW j \in DOMAIN u, i < j PROVE Before(u[i], u[j])
  <2>1. CASE j \in 1..m
    <3>1. i \in 1..m
      BY <1>5, <1>8, <2>1
    <3>2. QED
      BY <1>5, <1>6, <1>8, <2>1, <3>1 DEF InRowOrder
  <2>2. CASE i \in 1..m /\ j \in (m+1)..(m+n)
    <3>1. j - m \in 1..n
      BY <2>2
    <3>2. v[i] \in Range(v) /\ w[j - m] \in Range(w)
      BY <1>5, <2>2, <3>1 DEF Range
    <3>3. Before(v[i], w[j - m])
      BY <3>2 DEF AllBefore
    <3>4. QED
      BY <1>6, <2>2, <3>3
  <2>3. CASE i \in (m+1)..(m+n) /\ j \in (m+1)..(m+n)
    <3>1. i - m \in DOMAIN w /\ j - m \in DOMAIN w /\ i - m < j - m
      BY <1>5, <1>8, <2>3
    <3>2. Before(w[i - m], w[j - m])
      BY <3>1 DEF InRowOrder
    <3>3. QED
      BY <1>6, <2>3, <3>2
  <2>4. QED
    BY <1>5, <1>7, <1>8, <2>1, <2>2, <2>3
<1>9. Range(u) \subseteq Range(v) \cup Range(w)
  BY <1>5, <1>6, <1>7 DEF Range
<1>10. Range(v) \subseteq Range(u)
  <2>1. ASSUME NEW i \in DOMAIN v PROVE i \in DOMAIN u /\ u[i] = v[i]
    BY <1>5, <1>6
  <2>2. QED
    BY <2>1 DEF Range
<1>11. Range(w) \subseteq Range(u)
  <2>1. ASSUME NEW i \in DOMAIN w PROVE i + m \in DOMAIN u /\ u[i + m] = w[i]
    <3>1. i + m \in (m+1)..(m+n) /\ (i + m) - m = i
      BY <1>5
    <3>2. QED
      BY <1>5, <1>6, <3>1
  <2>2. QED
    BY <2>1 DEF Range
<1>12. InRowOrder(u) /\ Range(u) = Range(v) \cup Range(w)
  BY <1>8, <1>9, <1>10, <1>11 DEF InRowOrder
<1>13. QED
  BY <1>1, <1>12, <1>4

\* The first lock of a list, and the rest.
LEMMA FirstTaken ==
    ASSUME NEW w \in Seq(TenderRows), w # <<>>
    PROVE  /\ Head(w) \in TenderRows /\ Tail(w) \in Seq(TenderRows)
           /\ Range(w) = {Head(w)} \cup Range(Tail(w))
           /\ InRowOrder(w) => InRowOrder(Tail(w)) /\ AllBefore({Head(w)}, Range(Tail(w)))
<1>1. PICK n \in Nat : n = Len(w) /\ n > 0
  OBVIOUS
<1>2. PICK v : v = Tail(w)
  OBVIOUS
<1>3. v \in Seq(TenderRows) /\ Len(v) = n - 1 /\ \A i \in 1..(n-1) : v[i] = w[i + 1]
  BY <1>1, <1>2
<1>4. DOMAIN w = 1..n /\ DOMAIN v = 1..(n-1) /\ Head(w) = w[1]
  BY <1>1, <1>3
<1>5. Head(w) \in TenderRows
  BY <1>1, <1>4
<1>6. \A i \in DOMAIN v : i + 1 \in DOMAIN w /\ v[i] = w[i + 1]
  BY <1>1, <1>3, <1>4
<1>7. Range(w) = {w[1]} \cup Range(v)
  <2>1. Range(v) \subseteq Range(w) /\ w[1] \in Range(w)
    BY <1>1, <1>4, <1>6 DEF Range
  <2>2. ASSUME NEW i \in DOMAIN w PROVE w[i] \in {w[1]} \cup Range(v)
    <3>1. CASE i = 1
      BY <3>1
    <3>2. CASE i # 1
      <4>1. i - 1 \in DOMAIN v /\ (i - 1) + 1 = i
        BY <1>1, <1>4, <3>2
      <4>2. v[i - 1] = w[i]
        BY <1>6, <4>1
      <4>3. QED
        BY <4>1, <4>2 DEF Range
    <3>3. QED
      BY <3>1, <3>2
  <2>3. QED
    BY <2>1, <2>2 DEF Range
<1>8. ASSUME InRowOrder(w) PROVE InRowOrder(v) /\ AllBefore({w[1]}, Range(v))
  <2>1. ASSUME NEW i \in DOMAIN v, NEW j \in DOMAIN v, i < j PROVE Before(v[i], v[j])
    <3>1. i + 1 < j + 1
      BY <1>4, <2>1
    <3>2. QED
      BY <1>6, <1>8, <3>1 DEF InRowOrder
  <2>2. ASSUME NEW i \in DOMAIN v PROVE Before(w[1], v[i])
    <3>1. 1 \in DOMAIN w /\ 1 < i + 1
      BY <1>1, <1>4
    <3>2. QED
      BY <1>6, <1>8, <3>1 DEF InRowOrder
  <2>3. QED
    BY <2>1, <2>2 DEF InRowOrder, AllBefore, Range
<1>9. QED
  BY <1>2, <1>3, <1>4, <1>5, <1>7, <1>8

PlanRows(p) == {CardRow(c) : c \in p.cards} \cup (IF p.phone THEN {CustomerRow} ELSE {})
LockList(w, rows) == w \in Seq(TenderRows) /\ InRowOrder(w) /\ Range(w) = rows

\* The locks of a settlement's cards, each once, in the order of their codes.
LEMMA CardsInOrder ==
    ASSUME NEW cards \in SUBSET Cards, IsFiniteSet(cards), NEW w \in CardLocks(cards)
    PROVE  LockList(w, {CardRow(c) : c \in cards})
<1> USE TenderAssumption
<1>1. PICK n \in Nat : n = Cardinality(cards)
  BY FS_CardinalityType
<1>2. PICK codes \in SetToSeqs(cards) : Sorted(codes) /\ w = LocksOf(codes)
  BY DEF CardLocks
<1>3. codes \in [1..n -> cards] /\ \A i, j \in 1..n : i # j => codes[i] # codes[j]
  BY <1>1, <1>2, Zenon DEF SetToSeqs
<1>4. codes \in Injection(1..n, cards)
  BY <1>3 DEF Injection, IsInjective
<1>5. Cardinality(1..n) = n
  <2>1. Cardinality(1..n) = IF 1 > n THEN 0 ELSE n - 1 + 1
    BY FS_Interval, 1 \in Int, n \in Int
  <2>2. QED
    BY <2>1
<1>6. codes \in Surjection(1..n, cards)
  BY <1>1, <1>4, <1>5, FS_Injection
<1>7. \A c \in cards : \E i \in 1..n : codes[i] = c
  BY <1>6 DEF Surjection
<1>8. w = [i \in 1..n |-> CardRow(codes[i])]
  BY <1>2, <1>3 DEF LocksOf
<1>9. w \in Seq(TenderRows)
  <2>1. \A i \in 1..n : CardRow(codes[i]) \in TenderRows
    BY <1>3, RowsAre
  <2>2. w \in [1..n -> TenderRows]
    BY <1>8, <2>1
  <2>3. QED
    BY <2>2
<1>10. ASSUME NEW i \in DOMAIN w, NEW j \in DOMAIN w, i < j PROVE Before(w[i], w[j])
  <2>1. i \in 1..n /\ j \in 1..n /\ w[i] = CardRow(codes[i]) /\ w[j] = CardRow(codes[j])
    BY <1>8
  <2>2. codes[i] < codes[j] /\ codes[i] \in Cards /\ codes[j] \in Cards
    BY <1>2, <1>3, <1>10, <2>1 DEF Sorted
  <2>3. \A c \in Cards : Stage(CardRow(c)) = 1 /\ CardRow(c)[2] = c
    BY RowsAre
  <2>4. \A c, d \in Cards : c < d => Before(CardRow(c), CardRow(d))
    BY <2>3 DEF Before
  <2>5. QED
    BY <2>1, <2>2, <2>4
<1>11. Range(w) = {CardRow(c) : c \in cards}
  <2>1. DOMAIN w = 1..n /\ \A i \in 1..n : w[i] = CardRow(codes[i]) /\ codes[i] \in cards
    BY <1>3, <1>8
  <2>2. Range(w) \subseteq {CardRow(c) : c \in cards}
    BY <2>1 DEF Range
  <2>3. ASSUME NEW c \in cards PROVE CardRow(c) \in Range(w)
    <3>1. PICK i \in 1..n : codes[i] = c
      BY <1>7
    <3>2. w[i] = CardRow(c) /\ i \in DOMAIN w
      BY <2>1, <3>1
    <3>3. QED
      BY <3>2 DEF Range
  <2>4. QED
    BY <2>2, <2>3
<1>12. QED
  BY <1>9, <1>10, <1>11 DEF LockList, InRowOrder

\* A lock that may be needed.
LEMMA WhenIs ==
    ASSUME NEW b \in BOOLEAN, NEW row \in TenderRows
    PROVE  LockList(When(b, row), IF b THEN {row} ELSE {})
<1>1. CASE b
  <2>1. When(b, row) = <<row>> /\ Range(<<row>>) = {row}
    BY <1>1 DEF When, Range
  <2>2. InRowOrder(<<row>>)
    BY DEF InRowOrder
  <2>3. <<row>> \in Seq(TenderRows)
    <3>1. PICK R : R = TenderRows
      OBVIOUS
    <3>2. <<row>> \in Seq(R)
      BY <3>1
    <3>3. QED
      BY <3>1, <3>2
  <2>4. QED
    BY <1>1, <2>1, <2>2, <2>3 DEF LockList
<1>2. CASE ~b
  <2>1. When(b, row) = <<>> /\ Range(<<>>) = {}
    BY <1>2 DEF When, Range
  <2>2. InRowOrder(<<>>)
    BY DEF InRowOrder
  <2>3. QED
    BY <1>2, <2>1, <2>2 DEF LockList
<1>3. QED
  BY <1>1, <1>2

\* One list after another, by the rows they lock.
LEMMA JoinLists ==
    ASSUME NEW v, NEW w, NEW A, NEW B, LockList(v, A), LockList(w, B), AllBefore(A, B)
    PROVE  LockList(v \o w, A \cup B)
BY JoinOrdered DEF LockList

\* A settlement locks its cards, the bill counter, the customer and the coupon, in
\* the order of the rows.
LEMMA SettleInOrder ==
    ASSUME NEW p \in Plans, NEW w \in CardLocks(p.cards)
    PROVE  \E rows \in SUBSET TenderRows :
              /\ LockList(SettleLocks(p, w), rows) /\ PlanRows(p) \subseteq rows
              /\ \A r \in rows : Stage(r) > 0
<1> USE TenderAssumption
<1>1. p \in Plan /\ p.cards \in SUBSET Cards /\ IsFiniteSet(p.cards) /\ p.phone \in BOOLEAN /\ p.coupon \in BOOLEAN
  BY DEF Plan
<1>2. PICK A : A = {CardRow(c) : c \in p.cards}
  OBVIOUS
<1>3. A \subseteq TenderRows /\ \A r \in A : Stage(r) = 1
  <2>1. \A r \in A : \E c \in Cards : r = CardRow(c)
    BY <1>1, <1>2
  <2>2. \A c \in Cards : CardRow(c) \in TenderRows /\ Stage(CardRow(c)) = 1
    BY RowsAre
  <2>3. QED
    BY <2>1, <2>2
<1>4. LockList(w, A)
  BY <1>1, <1>2, CardsInOrder
<1>5. PICK B : B = IF p.phone THEN {CustomerRow} ELSE {}
  OBVIOUS
<1>6. PICK C : C = IF p.coupon THEN {CouponRow} ELSE {}
  OBVIOUS
<1>7. /\ B \subseteq TenderRows /\ \A r \in B : Stage(r) = 3
      /\ C \subseteq TenderRows /\ \A r \in C : Stage(r) = 4
  BY <1>5, <1>6, RowsAre
<1>8. LockList(When(p.phone, CustomerRow), B) /\ LockList(When(p.coupon, CouponRow), C)
  BY <1>1, <1>5, <1>6, WhenIs, RowsAre
<1>9. LockList(<<OutletRow>>, {OutletRow})
  <2>1. LockList(When(TRUE, OutletRow), IF TRUE THEN {OutletRow} ELSE {})
    BY WhenIs, RowsAre
  <2>2. QED
    BY <2>1 DEF When
<1>10. LockList(w \o <<OutletRow>>, A \cup {OutletRow})
  <2>1. AllBefore(A, {OutletRow})
    BY <1>3, RowsAre DEF AllBefore, Before
  <2>2. QED
    BY <1>4, <1>9, <2>1, JoinLists
<1>11. LockList(w \o <<OutletRow>> \o When(p.phone, CustomerRow), A \cup {OutletRow} \cup B)
  <2>1. AllBefore(A \cup {OutletRow}, B)
    BY <1>3, <1>7, RowsAre DEF AllBefore, Before
  <2>2. QED
    BY <1>8, <1>10, <2>1, JoinLists
<1>12. LockList(SettleLocks(p, w), A \cup {OutletRow} \cup B \cup C)
  <2>1. AllBefore(A \cup {OutletRow} \cup B, C)
    BY <1>3, <1>7, RowsAre DEF AllBefore, Before
  <2>2. QED
    BY <1>8, <1>11, <2>1, JoinLists DEF SettleLocks
<1>13. PICK rows : rows = A \cup {OutletRow} \cup B \cup C
  OBVIOUS
<1>14. rows \subseteq TenderRows /\ \A r \in rows : Stage(r) > 0
  BY <1>3, <1>7, <1>13, RowsAre
<1>15. PlanRows(p) \subseteq rows
  BY <1>2, <1>5, <1>13 DEF PlanRows
<1>16. QED
  BY <1>12, <1>13, <1>14, <1>15

\* Of finitely many elements one has none after it, in any strict order.
LEMMA LastOf ==
    ASSUME NEW S, IsFiniteSet(S), S # {}, NEW R,
           \A x \in S : <<x, x>> \notin R,
           \A x, y, z \in S : <<x, y>> \in R /\ <<y, z>> \in R => <<x, z>> \in R
    PROVE  \E x \in S : \A y \in S : <<x, y>> \notin R
<1>1. PICK G : G = {T \in SUBSET S : T # {} => \E x \in T : \A y \in T : <<x, y>> \notin R}
  OBVIOUS
<1>2. ASSUME NEW T \in SUBSET S, \A x \in T : T \ {x} \in G PROVE T \in G
  <2>1. ASSUME T # {} PROVE \E x \in T : \A y \in T : <<x, y>> \notin R
    <3>1. PICK a \in T : TRUE
      BY <2>1
    <3>2. CASE T \ {a} = {}
      BY <3>1, <3>2
    <3>3. CASE T \ {a} # {}
      <4>1. PICK b \in T \ {a} : \A y \in T \ {a} : <<b, y>> \notin R
        BY <1>1, <1>2, <3>1, <3>3
      <4>2. CASE <<b, a>> \notin R
        BY <4>1, <4>2
      <4>3. CASE <<b, a>> \in R
        <5>1. \A y \in T \ {a} : <<a, y>> \notin R
          BY <3>1, <4>1, <4>3
        <5>2. QED
          BY <3>1, <5>1
      <4>4. QED
        BY <4>2, <4>3
    <3>4. QED
      BY <3>2, <3>3
  <2>2. QED
    BY <1>1, <2>1
<1>3. \A T \in SUBSET S : (\A x \in T : T \ {x} \in G) => T \in G
  BY <1>2
<1>4. S \in G
  <2>1. \A T \in SUBSET S : T \in G
    BY <1>3, SubsetInduction
  <2>2. QED
    BY <2>1
<1>5. QED
  BY <1>1, <1>4

(* What a transaction holds, and what it relies on. *)

\* The rows a transaction holds precede those it waits for, and a settlement or a
\* void holds the rows it will write, or is yet to lock them.
LocksSound(t) ==
    LET w == txn[t].want  p == txn[t].plan  kind == txn[t].kind
    IN  /\ kind \in {"idle", "verify"} => \A r \in TenderRows : rowLock[r] # t
        /\ kind = "verify" => \A r \in Range(w) : Stage(r) > 0
        /\ kind # "ingest" => InRowOrder(w) /\ \A q \in TenderRows, r \in Range(w) : rowLock[q] = t => Before(q, r)
        /\ kind \in {"verify", "settle", "void"} => \A r \in PlanRows(p) : rowLock[r] = t \/ r \in Range(w)
        /\ p.redeem => p.phone

\* What a settlement found in the rows it holds is still there.
ChecksHold(t) ==
    LET p == txn[t].plan
    IN  /\ txn[t].kind = "void" => \A c \in p.cards : card[c].status # "none"
        /\ txn[t].kind = "settle" =>
             /\ \A c \in p.cards : rowLock[CardRow(c)] = t => card[c].status = "ACTIVE" /\ card[c].balance >= 1
             /\ p.redeem /\ rowLock[CustomerRow] = t => points >= RedeemPoints

SoundTxns == \A t \in Txns : LocksSound(t) /\ ChecksHold(t)

WithCoupon == {t \in Txns : txn[t].kind \in {"verify", "settle"} /\ txn[t].plan.coupon}
CouponsCounted ==
    /\ usedCount = sales.withCoupon + sales.ingested
    /\ sales.withCoupon + Cardinality(WithCoupon) <= (UsageLimit + Cardinality(Txns)) - 1

\* Nothing was spent from a card that is not issued.
CardsAddUp ==
    /\ CardsNeverOverspent
    /\ \A c \in Cards : card[c].status = "none" => card[c].spent = 0 /\ card[c].forfeited = 0

TenderInv == TenderTypeOK /\ SoundTxns /\ CardsAddUp /\ PointsMatchLedger /\ CouponsCounted

\* What a step leaves to a transaction that does not take it.
LeftAlone(u) ==
    /\ txn'[u] = txn[u]
    /\ \A r \in TenderRows : (rowLock'[r] = u) = (rowLock[r] = u)
    /\ \A c \in Cards : card[c].status # "none" => card'[c].status # "none"
    /\ \A c \in Cards : rowLock[CardRow(c)] = u /\ card[c].status = "ACTIVE"
                          => card'[c].status = "ACTIVE" /\ card'[c].balance = card[c].balance
    /\ rowLock[CustomerRow] = u => points' = points

\* A transaction left alone stays sound.
LEMMA AloneSound ==
    ASSUME TenderTypeOK, NEW u \in Txns, LocksSound(u), ChecksHold(u), LeftAlone(u)
    PROVE  LocksSound(u)' /\ ChecksHold(u)'
<1>1. txn[u].plan.cards \subseteq Cards
  BY DEF TenderTypeOK, Txn, Plan
<1>2. PICK x : x = txn[u]
  OBVIOUS
<1>3. txn'[u] = x /\ txn[u] = x
  BY <1>2 DEF LeftAlone
<1>4. \A r \in PlanRows(x.plan) : r \in TenderRows
  BY <1>1, <1>3, RowsAre DEF PlanRows
<1>5. LocksSound(u)'
  BY <1>3, <1>4 DEF LocksSound, LeftAlone
<1>6. \A c \in x.plan.cards : (rowLock'[CardRow(c)] = u) = (rowLock[CardRow(c)] = u)
  BY <1>1, <1>3, RowsAre DEF LeftAlone
<1>7. (rowLock'[CustomerRow] = u) = (rowLock[CustomerRow] = u)
  BY RowsAre DEF LeftAlone
<1>8. ChecksHold(u)'
  BY <1>1, <1>3, <1>6, <1>7 DEF ChecksHold, LeftAlone
<1>9. QED
  BY <1>5, <1>8

\* A step of one transaction: it stays sound if that one does.
LEMMA StepSound ==
    ASSUME TenderTypeOK, SoundTxns, NEW t \in Txns,
           \A u \in Txns \ {t} : LeftAlone(u), LocksSound(t)', ChecksHold(t)'
    PROVE  SoundTxns'
BY AloneSound DEF SoundTxns

\* Nothing is wanted, held or tendered by an idle transaction.
LEMMA IdleTxn ==
    /\ TxnIdle \in Txn /\ TxnIdle.kind = "idle" /\ TxnIdle.want = <<>> /\ TxnIdle.plan = NoPlan
    /\ NoPlan \in Plan /\ ~NoPlan.redeem /\ ~NoPlan.coupon /\ ~NoPlan.phone /\ NoPlan.cards = {}
    /\ Range(<<>>) = {} /\ InRowOrder(<<>>)
<1>1. NoPlan \in Plan /\ ~NoPlan.redeem /\ ~NoPlan.coupon /\ ~NoPlan.phone /\ NoPlan.cards = {}
  BY DEF NoPlan, Plan
<1>2. TxnIdle.kind = "idle" /\ TxnIdle.want = <<>> /\ TxnIdle.plan = NoPlan /\ TxnIdle \in Txn
  BY <1>1 DEF TxnIdle, Txn
<1>3. Range(<<>>) = {} /\ InRowOrder(<<>>)
  BY DEF Range, InRowOrder
<1>4. QED
  BY <1>1, <1>2, <1>3

\* A transaction that ends frees what it holds and nothing else.
Freed(t) ==
    /\ txn' \in [Txns -> Txn] /\ rowLock' \in [TenderRows -> Txns \cup {"free"}]
    /\ txn'[t] = TxnIdle
    /\ \A u \in Txns \ {t} : txn'[u] = txn[u] /\ \A r \in TenderRows : (rowLock'[r] = u) = (rowLock[r] = u)
    /\ LocksSound(t)' /\ ChecksHold(t)'
    /\ WithCoupon' \subseteq WithCoupon \ {t}

\* The end of a transaction does just that.
LEMMA EndFrees ==
    ASSUME TenderTypeOK, NEW t \in Txns, EndTxn(t)
    PROVE  Freed(t)
<1> USE TenderAssumption
<1>1. txn \in [Txns -> Txn] /\ rowLock \in [TenderRows -> Txns \cup {"free"}]
  BY DEF TenderTypeOK
<1>2. txn' = [txn EXCEPT ![t] = TxnIdle]
      /\ rowLock' = [row \in TenderRows |-> IF rowLock[row] = t THEN "free" ELSE rowLock[row]]
  BY DEF EndTxn
<1>3. txn' \in [Txns -> Txn] /\ txn'[t] = TxnIdle /\ \A u \in Txns \ {t} : txn'[u] = txn[u]
  BY <1>1, <1>2, IdleTxn
<1>4. rowLock' \in [TenderRows -> Txns \cup {"free"}]
  BY <1>1, <1>2
<1>5. \A r \in TenderRows : rowLock'[r] # t /\ \A u \in Txns \ {t} : (rowLock'[r] = u) = (rowLock[r] = u)
  BY <1>2
<1>6. LocksSound(t)' /\ ChecksHold(t)'
  BY <1>3, <1>5, IdleTxn DEF LocksSound, ChecksHold
<1>7. WithCoupon' \subseteq WithCoupon \ {t}
  BY <1>3, IdleTxn DEF WithCoupon
<1>8. QED
  BY <1>3, <1>4, <1>5, <1>6, <1>7 DEF Freed

\* The coupon's bound as settlements with it end or give up.
LEMMA FewerCoupons ==
    ASSUME TenderTypeOK, CouponsCounted, WithCoupon' \subseteq WithCoupon,
           usedCount' = usedCount, sales' = sales
    PROVE  CouponsCounted'
<1> USE TenderAssumption
<1>1. PICK A \in SUBSET Txns : A = WithCoupon
  BY DEF WithCoupon
<1>2. PICK B \in SUBSET Txns : B = WithCoupon'
  BY DEF WithCoupon
<1>3. IsFiniteSet(A) /\ B \subseteq A
  BY <1>1, <1>2, FS_Subset
<1>4. Cardinality(B) <= Cardinality(A) /\ Cardinality(A) \in Nat /\ Cardinality(B) \in Nat /\ Cardinality(Txns) \in Nat
  BY <1>3, FS_Subset, FS_CardinalityType
<1>5. sales.withCoupon \in Nat /\ UsageLimit \in Nat
  BY DEF TenderTypeOK
<1>6. sales.withCoupon + Cardinality(A) <= (UsageLimit + Cardinality(Txns)) - 1 /\ usedCount = sales.withCoupon + sales.ingested
  BY <1>1 DEF CouponsCounted
<1>7. sales.withCoupon + Cardinality(B) <= (UsageLimit + Cardinality(Txns)) - 1
  BY <1>4, <1>5, <1>6
<1>8. QED
  BY <1>2, <1>6, <1>7 DEF CouponsCounted

(* The steps. *)

\* Giving up changes no card, no points and no count.
LEMMA RollBackKeeps ==
    ASSUME TenderInv, NEW t \in Txns, RollBack(t)
    PROVE  TenderInv'
<1>1. TenderTypeOK /\ SoundTxns /\ CardsAddUp /\ PointsMatchLedger /\ CouponsCounted
  BY DEF TenderInv
<1>2. Freed(t)
  BY <1>1, EndFrees DEF RollBack
<1>3. UNCHANGED <<usedCount, sales, otp, card, points, ledger>>
  BY DEF RollBack
<1>4. TenderTypeOK'
  BY <1>1, <1>2, <1>3 DEF TenderTypeOK, Freed
<1>5. ASSUME NEW u \in Txns \ {t} PROVE LeftAlone(u)
  BY <1>2, <1>3, <1>5 DEF LeftAlone, Freed
<1>6. SoundTxns'
  BY <1>1, <1>2, <1>5, StepSound DEF Freed
<1>7. CardsAddUp' /\ PointsMatchLedger'
  BY <1>1, <1>3 DEF CardsAddUp, CardsNeverOverspent, PointsMatchLedger
<1>8. CouponsCounted'
  <2>1. WithCoupon' \subseteq WithCoupon
    BY <1>2 DEF Freed
  <2>2. QED
    BY <1>1, <1>3, <2>1, FewerCoupons
<1>9. QED
  BY <1>4, <1>6, <1>7, <1>8 DEF TenderInv

Moves(t, next) ==
    /\ txn' = [txn EXCEPT ![t] = next] /\ next \in Txn
    /\ LocksSound(t)' /\ ChecksHold(t)'
    /\ UNCHANGED <<usedCount, sales, otp, card, points, ledger>>

\* A step that only moves a transaction along keeps what it draws on.
LEMMA MoveKeeps ==
    ASSUME TenderInv, NEW t \in Txns, NEW next, Moves(t, next), rowLock' \in [TenderRows -> Txns \cup {"free"}],
           \A u \in Txns \ {t}, r \in TenderRows : (rowLock'[r] = u) = (rowLock[r] = u)
    PROVE  TenderTypeOK' /\ SoundTxns' /\ CardsAddUp' /\ PointsMatchLedger'
<1>1. TenderTypeOK /\ SoundTxns /\ CardsAddUp /\ PointsMatchLedger /\ txn \in [Txns -> Txn]
  BY DEF TenderInv, TenderTypeOK
<1>2. txn' \in [Txns -> Txn] /\ \A u \in Txns \ {t} : txn'[u] = txn[u]
  BY <1>1 DEF Moves
<1>3. UNCHANGED <<usedCount, sales, otp, card, points, ledger>>
  BY DEF Moves
<1>4. TenderTypeOK'
  BY <1>1, <1>2, <1>3 DEF TenderTypeOK
<1>5. ASSUME NEW u \in Txns \ {t} PROVE LeftAlone(u)
  BY <1>2, <1>3, <1>5 DEF LeftAlone
<1>6. SoundTxns'
  BY <1>1, <1>5, StepSound DEF Moves
<1>7. CardsAddUp' /\ PointsMatchLedger'
  BY <1>1, <1>3 DEF CardsAddUp, CardsNeverOverspent, PointsMatchLedger
<1>8. QED
  BY <1>4, <1>6, <1>7

\* A settlement begins with a coupon only while uses are left, so the settlements
\* under way beside it are all that can come on top.
LEMMA CouponBegins ==
    ASSUME TenderTypeOK, CouponsCounted, NEW t \in Txns, NEW p, p.coupon => CouponValid,
           usedCount' = usedCount, sales' = sales,
           \A u \in Txns \ {t} : txn'[u] = txn[u], txn'[t].plan = p
    PROVE  CouponsCounted'
<1> USE TenderAssumption
<1>1. PICK B \in SUBSET Txns : B = WithCoupon'
  BY DEF WithCoupon
<1>2. Cardinality(B) <= Cardinality(Txns) /\ Cardinality(B) \in Nat /\ Cardinality(Txns) \in Nat
  BY FS_Subset, FS_CardinalityType
<1>3. CASE p.coupon
  <2>1. usedCount < UsageLimit /\ usedCount = sales.withCoupon + sales.ingested
    BY <1>3 DEF CouponValid, CouponsCounted
  <2>2. sales.withCoupon \in Nat /\ sales.ingested \in Nat /\ UsageLimit \in Nat
    BY DEF TenderTypeOK
  <2>3. sales.withCoupon + Cardinality(B) <= (UsageLimit + Cardinality(Txns)) - 1
    BY <1>2, <2>1, <2>2
  <2>4. QED
    BY <1>1, <2>1, <2>3 DEF CouponsCounted
<1>4. CASE ~p.coupon
  <2>1. WithCoupon' \subseteq WithCoupon
    BY <1>4 DEF WithCoupon
  <2>2. QED
    BY <2>1, FewerCoupons
<1>5. QED
  BY <1>3, <1>4

\* A settlement begins.
LEMMA BeginKeeps ==
    ASSUME TenderInv, NEW t \in Txns, NEW p \in Plans, BeginTender(t, p)
    PROVE  TenderInv'
<1> USE TenderAssumption
<1>1. TenderTypeOK /\ SoundTxns /\ CouponsCounted /\ txn[t].kind = "idle" /\ (p.coupon => CouponValid)
      /\ UNCHANGED <<usedCount, sales, otp, card, points, ledger, rowLock>>
  BY DEF TenderInv, BeginTender
<1>2. PICK locks \in CardLocks(p.cards) :
        txn' = [txn EXCEPT ![t] = [kind |-> IF p.redeem THEN "verify" ELSE "settle",
                                   want |-> SettleLocks(p, locks), plan |-> p]]
  BY DEF BeginTender
<1>3. PICK rows \in SUBSET TenderRows :
              /\ LockList(SettleLocks(p, locks), rows) /\ PlanRows(p) \subseteq rows
              /\ \A r \in rows : Stage(r) > 0
  BY SettleInOrder
<1>4. PICK w : w = SettleLocks(p, locks)
  OBVIOUS
<1>5. PICK next : next = [kind |-> IF p.redeem THEN "verify" ELSE "settle", want |-> w, plan |-> p]
  OBVIOUS
<1>6. w \in Seq(TenderRows) /\ InRowOrder(w) /\ Range(w) = rows
  BY <1>3, <1>4 DEF LockList
<1>7. next \in Txn /\ next.kind \in {"verify", "settle"} /\ next.want = w /\ next.plan = p
  BY <1>5, <1>6 DEF Txn
<1>8. txn' = [txn EXCEPT ![t] = next]
  BY <1>2, <1>4, <1>5
<1>9. txn'[t] = next /\ \A u \in Txns \ {t} : txn'[u] = txn[u]
  BY <1>1, <1>8 DEF TenderTypeOK
<1>10. rowLock' = rowLock /\ \A r \in TenderRows : rowLock[r] # t
  BY <1>1 DEF SoundTxns, LocksSound
<1>11. LocksSound(t)'
  <2>1. \A q \in TenderRows : rowLock'[q] # t
    BY <1>10
  <2>2. \A r \in PlanRows(p) : r \in Range(w)
    BY <1>3, <1>6
  <2>3. \A r \in Range(w) : Stage(r) > 0
    BY <1>3, <1>6
  <2>4. p.redeem => p.phone
    OBVIOUS
  <2>5. QED
    BY <1>6, <1>7, <1>9, <2>1, <2>2, <2>3, <2>4 DEF LocksSound
<1>12. ChecksHold(t)'
  <2>1. \A c \in p.cards : rowLock'[CardRow(c)] # t
    BY <1>10, RowsAre DEF Plan
  <2>2. rowLock'[CustomerRow] # t
    BY <1>10, RowsAre
  <2>3. QED
    BY <1>7, <1>9, <2>1, <2>2 DEF ChecksHold
<1>13. TenderTypeOK' /\ SoundTxns' /\ CardsAddUp' /\ PointsMatchLedger'
  <2>1. Moves(t, next)
    BY <1>1, <1>7, <1>8, <1>11, <1>12 DEF Moves
  <2>2. rowLock' \in [TenderRows -> Txns \cup {"free"}]
        /\ \A u \in Txns \ {t}, r \in TenderRows : (rowLock'[r] = u) = (rowLock[r] = u)
    BY <1>1 DEF TenderTypeOK
  <2>3. QED
    BY <2>1, <2>2, MoveKeeps
<1>14. CouponsCounted'
  BY <1>1, <1>7, <1>9, CouponBegins
<1>15. QED
  BY <1>13, <1>14 DEF TenderInv

\* An ingested sale or a void begins.
LEMMA OthersBegin ==
    ASSUME TenderInv, NEW t \in Txns, BeginIngest(t) \/ \E c \in Cards : BeginVoid(t, c)
    PROVE  TenderInv'
<1>1. TenderTypeOK /\ SoundTxns /\ CouponsCounted /\ txn[t].kind = "idle"
      /\ UNCHANGED <<usedCount, sales, otp, card, points, ledger, rowLock>>
  BY DEF TenderInv, BeginIngest, BeginVoid
<1>2. rowLock' = rowLock /\ \A r \in TenderRows : rowLock[r] # t
  BY <1>1 DEF SoundTxns, LocksSound
<1>3. PICK R : R = TenderRows
  OBVIOUS
<1>4. \E next \in Txn : /\ txn' = [txn EXCEPT ![t] = next] /\ next.kind \in {"ingest", "void"}
                        /\ next.kind = "void" =>
                              \E c \in Cards : /\ next.want = <<CardRow(c)>> /\ next.plan.cards = {c}
                                               /\ ~next.plan.phone /\ card[c].status # "none"
                        /\ ~next.plan.redeem
  <2>1. CASE BeginIngest(t)
    <3>1. PICK plan : plan = [NoPlan EXCEPT !.coupon = TRUE]
      OBVIOUS
    <3>2. plan \in Plan /\ ~plan.redeem
      BY <3>1, IdleTxn DEF Plan
    <3>3. PICK w : w = <<CouponRow, OutletRow>>
      OBVIOUS
    <3>4. w \in Seq(R)
      BY <1>3, <3>3, RowsAre
    <3>5. PICK next : next = [kind |-> "ingest", want |-> w, plan |-> plan]
      OBVIOUS
    <3>6. next \in Txn /\ next.kind = "ingest" /\ ~next.plan.redeem
      BY <1>3, <3>2, <3>4, <3>5 DEF Txn
    <3>7. txn' = [txn EXCEPT ![t] = next]
      BY <2>1, <3>1, <3>3, <3>5 DEF BeginIngest
    <3>8. QED
      BY <3>6, <3>7
  <2>2. CASE \E c \in Cards : BeginVoid(t, c)
    <3>1. PICK c \in Cards : BeginVoid(t, c)
      BY <2>2
    <3>2. PICK plan : plan = [NoPlan EXCEPT !.cards = {c}]
      OBVIOUS
    <3>3. plan \in Plan /\ ~plan.redeem /\ ~plan.phone /\ plan.cards = {c}
      BY <3>2, IdleTxn DEF Plan
    <3>4. PICK w : w = <<CardRow(c)>>
      OBVIOUS
    <3>5. w \in Seq(R)
      BY <1>3, <3>4, RowsAre
    <3>6. PICK next : next = [kind |-> "void", want |-> w, plan |-> plan]
      OBVIOUS
    <3>7. next \in Txn /\ next.kind = "void" /\ next.want = w /\ next.plan = plan
      BY <1>3, <3>3, <3>5, <3>6 DEF Txn
    <3>8. txn' = [txn EXCEPT ![t] = next] /\ card[c].status # "none"
      BY <3>1, <3>2, <3>4, <3>6 DEF BeginVoid
    <3>9. QED
      BY <3>3, <3>4, <3>7, <3>8
  <2>3. QED
    BY <2>1, <2>2
<1>5. PICK next \in Txn : /\ txn' = [txn EXCEPT ![t] = next] /\ next.kind \in {"ingest", "void"}
                          /\ next.kind = "void" =>
                              \E c \in Cards : /\ next.want = <<CardRow(c)>> /\ next.plan.cards = {c}
                                               /\ ~next.plan.phone /\ card[c].status # "none"
                        /\ ~next.plan.redeem
  BY <1>4
<1>6. txn'[t] = next /\ \A u \in Txns \ {t} : txn'[u] = txn[u]
  BY <1>1, <1>5 DEF TenderTypeOK
<1>7. LocksSound(t)' /\ ChecksHold(t)'
  <2>1. \A q \in TenderRows : rowLock'[q] # t
    BY <1>2
  <2>2. CASE next.kind = "ingest"
    BY <1>5, <1>6, <2>1, <2>2 DEF LocksSound, ChecksHold
  <2>3. CASE next.kind = "void"
    <3>1. PICK c \in Cards : /\ next.want = <<CardRow(c)>> /\ next.plan.cards = {c}
                             /\ ~next.plan.phone /\ card[c].status # "none"
      BY <1>5, <2>3
    <3>2. Range(next.want) = {CardRow(c)} /\ InRowOrder(next.want)
      BY <3>1 DEF Range, InRowOrder
    <3>3. PlanRows(next.plan) = {CardRow(c)}
      BY <3>1 DEF PlanRows
    <3>4. card'[c].status # "none"
      BY <1>1, <3>1
    <3>5. LocksSound(t)'
      BY <1>5, <1>6, <2>1, <2>3, <3>2, <3>3 DEF LocksSound
    <3>6. ChecksHold(t)'
      BY <1>6, <2>3, <3>1, <3>4 DEF ChecksHold
    <3>7. QED
      BY <3>5, <3>6
  <2>4. QED
    BY <1>5, <2>2, <2>3
<1>8. TenderTypeOK' /\ SoundTxns' /\ CardsAddUp' /\ PointsMatchLedger'
  <2>1. Moves(t, next)
    BY <1>1, <1>5, <1>7 DEF Moves
  <2>2. rowLock' \in [TenderRows -> Txns \cup {"free"}]
        /\ \A u \in Txns \ {t}, r \in TenderRows : (rowLock'[r] = u) = (rowLock[r] = u)
    BY <1>1 DEF TenderTypeOK
  <2>3. QED
    BY <2>1, <2>2, MoveKeeps
<1>9. CouponsCounted'
  <2>1. WithCoupon' \subseteq WithCoupon
    BY <1>5, <1>6 DEF WithCoupon
  <2>2. QED
    BY <1>1, <2>1, FewerCoupons
<1>10. QED
  BY <1>8, <1>9 DEF TenderInv

\* The code is verified, and will be the first row the settlement locks; or it is not.
LEMMA VerifyKeeps ==
    ASSUME TenderInv, NEW t \in Txns, VerifyOtp(t)
    PROVE  TenderInv'
<1>1. TenderTypeOK /\ SoundTxns /\ CouponsCounted /\ txn[t].kind = "verify" /\ LocksSound(t) /\ txn \in [Txns -> Txn]
  BY DEF TenderInv, VerifyOtp, SoundTxns, TenderTypeOK
<1>2. PICK code : code = txn[t].plan.code
  OBVIOUS
<1>3. CASE RollBack(t)
  BY <1>3, RollBackKeeps
<1>4. CASE /\ code \in LiveOtps
           /\ txn' = [txn EXCEPT ![t].kind = "settle", ![t].want = <<OtpRow(code)>> \o @]
           /\ UNCHANGED <<usedCount, sales, otp, card, points, ledger, rowLock>>
  <2>1. PICK x \in Txn : x = txn[t]
    BY <1>1
  <2>2. PICK v : v = <<OtpRow(code)>>
    OBVIOUS
  <2>3. PICK w \in Seq(TenderRows) : w = x.want
    BY DEF Txn
  <2>4. OtpRow(code) \in TenderRows /\ Stage(OtpRow(code)) = 0
    BY <1>4, RowsAre DEF LiveOtps
  <2>5. v \in Seq(TenderRows)
    <3>1. PICK R : R = TenderRows
      OBVIOUS
    <3>2. <<OtpRow(code)>> \in Seq(R)
      BY <2>4, <3>1
    <3>3. QED
      BY <2>2, <3>1, <3>2
  <2>6. Range(v) = {OtpRow(code)} /\ InRowOrder(v)
    BY <2>2 DEF Range, InRowOrder
  <2>7. InRowOrder(w) /\ \A r \in Range(w) : Stage(r) > 0
    BY <1>1, <2>1, <2>3 DEF LocksSound
  <2>8. AllBefore(Range(v), Range(w))
    BY <2>4, <2>6, <2>7 DEF AllBefore, Before
  <2>9. v \o w \in Seq(TenderRows) /\ InRowOrder(v \o w) /\ Range(v \o w) = Range(v) \cup Range(w)
    BY <2>5, <2>6, <2>7, <2>8, JoinOrdered
  <2>10. PICK u : u = v \o w
    OBVIOUS
  <2>11. u \in Seq(TenderRows) /\ InRowOrder(u) /\ Range(u) = Range(v) \cup Range(w)
    BY <2>9, <2>10
  <2>12. PICK next : next = [x EXCEPT !.kind = "settle", !.want = u]
    OBVIOUS
  <2>13. next \in Txn /\ next.kind = "settle" /\ next.want = u /\ next.plan = x.plan
    BY <2>11, <2>12 DEF Txn
  <2>14. txn' = [txn EXCEPT ![t] = next]
    BY <1>1, <1>4, <2>1, <2>2, <2>3, <2>10, <2>12
  <2>15. txn'[t] = next /\ \A y \in Txns \ {t} : txn'[y] = txn[y]
    BY <1>1, <2>14
  <2>16. \A r \in TenderRows : rowLock'[r] # t
    BY <1>1, <1>4 DEF LocksSound
  <2>17. \A r \in PlanRows(x.plan) : r \in Range(u)
    <3>1. PlanRows(x.plan) \subseteq TenderRows
      BY RowsAre DEF PlanRows, Txn, Plan
    <3>2. \A r \in PlanRows(x.plan) : rowLock[r] = t \/ r \in Range(w)
      BY <1>1, <2>1, <2>3 DEF LocksSound
    <3>3. \A r \in TenderRows : rowLock[r] # t
      BY <1>1 DEF LocksSound
    <3>4. QED
      BY <2>11, <3>1, <3>2, <3>3
  <2>18. x.plan.redeem => x.plan.phone
    BY <1>1, <2>1 DEF LocksSound
  <2>19. LocksSound(t)'
    BY <2>11, <2>13, <2>15, <2>16, <2>17, <2>18 DEF LocksSound
  <2>20. ChecksHold(t)'
    <3>1. \A c \in x.plan.cards : rowLock'[CardRow(c)] # t
      BY <2>16, RowsAre DEF Txn, Plan
    <3>2. rowLock'[CustomerRow] # t
      BY <2>16, RowsAre
    <3>3. QED
      BY <2>13, <2>15, <3>1, <3>2 DEF ChecksHold
  <2>21. TenderTypeOK' /\ SoundTxns' /\ CardsAddUp' /\ PointsMatchLedger'
    <3>1. Moves(t, next)
      BY <1>4, <2>13, <2>14, <2>19, <2>20 DEF Moves
    <3>2. rowLock' \in [TenderRows -> Txns \cup {"free"}]
          /\ \A y \in Txns \ {t}, r \in TenderRows : (rowLock'[r] = y) = (rowLock[r] = y)
      BY <1>1, <1>4 DEF TenderTypeOK
    <3>3. QED
      BY <3>1, <3>2, MoveKeeps
  <2>22. CouponsCounted'
    <3>1. WithCoupon' \subseteq WithCoupon
      BY <1>1, <2>1, <2>13, <2>15 DEF WithCoupon
    <3>2. QED
      BY <1>1, <1>4, <3>1, FewerCoupons
  <2>23. QED
    BY <2>21, <2>22 DEF TenderInv
<1>5. QED
  BY <1>2, <1>3, <1>4 DEF VerifyOtp

\* A row is locked if nobody holds it and it passes its check, and then stays as it
\* was found.
LEMMA LockKeeps ==
    ASSUME TenderInv, NEW t \in Txns, LockNext(t)
    PROVE  TenderInv'
<1> USE TenderAssumption
<1>1. TenderTypeOK /\ SoundTxns /\ CouponsCounted /\ LocksSound(t) /\ ChecksHold(t) /\ txn \in [Txns -> Txn]
      /\ rowLock \in [TenderRows -> Txns \cup {"free"}]
  BY DEF TenderInv, SoundTxns, TenderTypeOK
<1>2. PICK x \in Txn : x = txn[t]
  BY <1>1
<1>3. PICK w \in Seq(TenderRows) : w = x.want
  BY DEF Txn
<1>4. PICK row : row = Head(w)
  OBVIOUS
<1>5. x.kind \in {"settle", "ingest", "void"} /\ w # <<>> /\ rowLock[row] = "free"
  BY <1>2, <1>3, <1>4 DEF LockNext
<1>6. CASE RollBack(t)
  BY <1>6, RollBackKeeps
<1>7. CASE /\ RowAccepts(t, row)
           /\ txn' = [txn EXCEPT ![t].want = Tail(@)]
           /\ rowLock' = [rowLock EXCEPT ![row] = t]
           /\ UNCHANGED <<usedCount, sales, otp, card, points, ledger>>
  <2>1. PICK v : v = Tail(w)
    OBVIOUS
  <2>2. row \in TenderRows /\ v \in Seq(TenderRows) /\ Range(w) = {row} \cup Range(v)
        /\ (InRowOrder(w) => InRowOrder(v) /\ AllBefore({row}, Range(v)))
    BY <1>4, <1>5, <2>1, FirstTaken
  <2>3. PICK next : next = [x EXCEPT !.want = v]
    OBVIOUS
  <2>4. next \in Txn /\ next.kind = x.kind /\ next.want = v /\ next.plan = x.plan
    BY <2>2, <2>3 DEF Txn
  <2>5. txn' = [txn EXCEPT ![t] = next]
    BY <1>1, <1>2, <1>3, <1>7, <2>1, <2>3
  <2>6. txn'[t] = next
    BY <1>1, <2>5
  <2>7. rowLock'[row] = t /\ \A r \in TenderRows \ {row} : rowLock'[r] = rowLock[r]
    BY <1>1, <1>7, <2>2
  <2>8. x.kind # "ingest" => InRowOrder(w) /\ \A q \in TenderRows, r \in Range(w) : rowLock[q] = t => Before(q, r)
    BY <1>1, <1>2, <1>3 DEF LocksSound
  <2>9. x.kind # "ingest" => InRowOrder(v) /\ \A q \in TenderRows, r \in Range(v) : rowLock'[q] = t => Before(q, r)
    BY <2>2, <2>7, <2>8 DEF AllBefore
  <2>10. x.kind \in {"settle", "void"} => \A r \in PlanRows(x.plan) : rowLock[r] = t \/ r \in Range(w)
    BY <1>1, <1>2, <1>3 DEF LocksSound
  <2>11. PlanRows(x.plan) \subseteq TenderRows
    BY RowsAre DEF PlanRows, Txn, Plan
  <2>12. x.kind \in {"settle", "void"} => \A r \in PlanRows(x.plan) : rowLock'[r] = t \/ r \in Range(v)
    BY <2>2, <2>7, <2>10, <2>11
  <2>13. x.plan.redeem => x.plan.phone
    BY <1>1, <1>2 DEF LocksSound
  <2>14. LocksSound(t)'
    BY <1>5, <2>4, <2>6, <2>9, <2>12, <2>13 DEF LocksSound
  <2>15. ASSUME x.kind = "settle", NEW c \in x.plan.cards, rowLock'[CardRow(c)] = t
         PROVE  card[c].status = "ACTIVE" /\ card[c].balance >= 1
    <3>1. c \in Cards /\ CardRow(c) \in TenderRows /\ Stage(CardRow(c)) = 1 /\ CardRow(c)[2] = c /\ CardRow(c)[1] = "card"
      BY RowsAre DEF Txn, Plan, CardRow
    <3>2. CASE CardRow(c) = row
      <4>1. row[1] = "card" /\ row[2] = c
        BY <3>1, <3>2
      <4>2. CardAccepts(row[2])
        BY <1>2, <1>7, <2>15, <4>1 DEF RowAccepts
      <4>3. QED
        BY <4>1, <4>2 DEF CardAccepts
    <3>3. CASE CardRow(c) # row
      BY <1>1, <1>2, <2>7, <2>15, <3>1, <3>3 DEF ChecksHold
    <3>4. QED
      BY <3>2, <3>3
  <2>16. ASSUME x.kind = "settle", x.plan.redeem, rowLock'[CustomerRow] = t PROVE points >= RedeemPoints
    <3>1. CASE CustomerRow = row
      <4>1. row[1] = "customer"
        BY <3>1 DEF CustomerRow
      <4>2. PointsSuffice(t)
        BY <1>7, <4>1 DEF RowAccepts
      <4>3. QED
        BY <1>2, <2>16, <4>2 DEF PointsSuffice
    <3>2. CASE CustomerRow # row
      BY <1>1, <1>2, <2>7, <2>16, <3>2, RowsAre DEF ChecksHold
    <3>3. QED
      BY <3>1, <3>2
  <2>17. x.kind = "void" => \A c \in x.plan.cards : card[c].status # "none"
    BY <1>1, <1>2 DEF ChecksHold
  <2>18. ChecksHold(t)'
    BY <1>7, <2>4, <2>6, <2>15, <2>16, <2>17 DEF ChecksHold
  <2>19. TenderTypeOK' /\ SoundTxns' /\ CardsAddUp' /\ PointsMatchLedger'
    <3>1. Moves(t, next)
      BY <1>7, <2>4, <2>5, <2>14, <2>18 DEF Moves
    <3>2. rowLock' \in [TenderRows -> Txns \cup {"free"}]
      BY <1>1, <1>7, <2>2
    <3>3. \A y \in Txns \ {t}, r \in TenderRows : (rowLock'[r] = y) = (rowLock[r] = y)
      BY <1>5, <2>7
    <3>4. QED
      BY <3>1, <3>2, <3>3, MoveKeeps
  <2>20. CouponsCounted'
    <3>1. WithCoupon' \subseteq WithCoupon
      BY <1>1, <1>2, <2>4, <2>5 DEF WithCoupon
    <3>2. QED
      BY <1>1, <1>7, <3>1, FewerCoupons
  <2>21. QED
    BY <2>19, <2>20 DEF TenderInv
<1>8. QED
  BY <1>2, <1>3, <1>4, <1>6, <1>7 DEF LockNext

\* A settlement commits: it holds its cards and its customer, so each card has the
\* unit it spends and the customer the points, and no other transaction relies on them.
LEMMA SettleKeeps ==
    ASSUME TenderInv, NEW t \in Txns, CommitSettle(t)
    PROVE  TenderInv'
<1> USE TenderAssumption
<1>1. /\ TenderTypeOK /\ SoundTxns /\ CardsAddUp /\ PointsMatchLedger /\ CouponsCounted
      /\ LocksSound(t) /\ ChecksHold(t) /\ txn \in [Txns -> Txn] /\ card \in [Cards -> Card]
      /\ points \in Nat /\ ledger \in [earned : Nat, redeemed : Nat]
      /\ sales \in [settled : Nat, withCoupon : Nat, ingested : Nat] /\ usedCount \in Nat
  BY DEF TenderInv, SoundTxns, TenderTypeOK
<1>2. PICK p \in Plan : p = txn[t].plan
  BY <1>1 DEF Txn
<1>3. txn[t].kind = "settle" /\ txn[t].want = <<>> /\ EndTxn(t)
  BY DEF CommitSettle
<1>4. Freed(t)
  BY <1>1, <1>3, EndFrees
<1>5. \A r \in PlanRows(p) : rowLock[r] = t
  BY <1>1, <1>2, <1>3, IdleTxn DEF LocksSound
<1>6. /\ \A c \in p.cards : rowLock[CardRow(c)] = t
      /\ p.phone => rowLock[CustomerRow] = t
      /\ p.redeem => p.phone
  BY <1>1, <1>2, <1>5 DEF PlanRows, LocksSound
<1>7. /\ \A c \in p.cards : card[c].status = "ACTIVE" /\ card[c].balance >= 1
      /\ p.redeem => points >= RedeemPoints
  BY <1>1, <1>2, <1>3, <1>6 DEF ChecksHold
<1>8. p.cards \subseteq Cards /\ p.phone \in BOOLEAN /\ p.redeem \in BOOLEAN /\ p.coupon \in BOOLEAN
  BY DEF Plan
<1>9. ASSUME NEW c \in Cards
      PROVE  /\ card'[c] \in Card /\ card'[c].status = card[c].status
             /\ card'[c].balance + card'[c].spent + card'[c].forfeited
                  = card[c].balance + card[c].spent + card[c].forfeited
             /\ c \notin p.cards => card'[c] = card[c]
             /\ c \in p.cards => card[c].status # "none"
  <2>1. PICK old \in Card : old = card[c]
    BY <1>1
  <2>2. card'[c] = IF c \in p.cards THEN [old EXCEPT !.balance = @ - 1, !.spent = @ + 1] ELSE old
    BY <1>2, <2>1 DEF CommitSettle
  <2>3. CASE c \in p.cards
    <3>1. old.balance >= 1 /\ old.balance \in Nat /\ old.spent \in Nat /\ old.forfeited \in Nat
      BY <1>7, <2>1, <2>3 DEF Card
    <3>2. PICK b \in Nat : b = old.balance - 1
      BY <3>1
    <3>3. PICK s \in Nat : s = old.spent + 1
      BY <3>1
    <3>4. PICK new : new = [old EXCEPT !.balance = b, !.spent = s]
      OBVIOUS
    <3>5. card'[c] = new
      BY <2>2, <2>3, <3>2, <3>3, <3>4
    <3>6. new \in Card /\ new.status = old.status /\ new.balance = b /\ new.spent = s /\ new.forfeited = old.forfeited
      BY <3>4 DEF Card
    <3>7. old.status # "none"
      BY <1>7, <2>1, <2>3
    <3>8. QED
      BY <2>1, <2>3, <3>1, <3>2, <3>3, <3>5, <3>6, <3>7
  <2>4. CASE c \notin p.cards
    BY <2>1, <2>2, <2>4
  <2>5. QED
    BY <2>3, <2>4
<1>10. card' \in [Cards -> Card]
  <2>1. card' = [c \in Cards |-> IF c \in p.cards THEN [card[c] EXCEPT !.balance = @ - 1, !.spent = @ + 1] ELSE card[c]]
    BY <1>2 DEF CommitSettle
  <2>2. DOMAIN card' = Cards /\ card' = [c \in Cards |-> card'[c]]
    BY <2>1
  <2>3. QED
    BY <1>9, <2>2
<1>11. PICK r \in Nat : r = RedeemPoints * One(p.redeem) /\ (~p.redeem => r = 0) /\ r <= points
  <2>1. CASE p.redeem
    <3>1. One(p.redeem) = 1 /\ RedeemPoints \in Nat
      BY <2>1 DEF One
    <3>2. RedeemPoints * One(p.redeem) = RedeemPoints * 1
      BY <3>1, Zenon
    <3>3. RedeemPoints * One(p.redeem) = RedeemPoints
      BY <3>1, <3>2
    <3>4. QED
      BY <1>1, <1>7, <2>1, <3>1, <3>3
  <2>2. CASE ~p.redeem
    <3>1. One(p.redeem) = 0 /\ RedeemPoints \in Nat
      BY <2>2 DEF One
    <3>2. QED
      BY <1>1, <2>2, <3>1
  <2>3. QED
    BY <2>1, <2>2
<1>12. PICK e \in Nat : e = EarnPoints * One(p.phone) /\ (~p.phone => e = 0)
  <2>1. CASE p.phone
    <3>1. One(p.phone) = 1 /\ EarnPoints \in Nat
      BY <2>1 DEF One
    <3>2. EarnPoints * One(p.phone) = EarnPoints * 1
      BY <3>1, Zenon
    <3>3. EarnPoints * One(p.phone) = EarnPoints
      BY <3>1, <3>2
    <3>4. QED
      BY <2>1, <3>1, <3>3
  <2>2. CASE ~p.phone
    <3>1. One(p.phone) = 0 /\ EarnPoints \in Nat
      BY <2>2 DEF One
    <3>2. QED
      BY <2>2, <3>1
  <2>3. QED
    BY <2>1, <2>2
<1>13. points' = (points - r) + e /\ ledger' = [earned |-> ledger.earned + e, redeemed |-> ledger.redeemed + r]
  BY <1>2, <1>11, <1>12 DEF CommitSettle
<1>14. points' \in Nat /\ ledger' \in [earned : Nat, redeemed : Nat] /\ PointsMatchLedger'
  <2>1. ledger'.earned = ledger.earned + e /\ ledger'.redeemed = ledger.redeemed + r
    BY <1>13
  <2>2. ledger.earned \in Nat /\ ledger.redeemed \in Nat /\ points \in Nat
        /\ ledger.earned >= ledger.redeemed /\ points = ledger.earned - ledger.redeemed
    BY <1>1 DEF PointsMatchLedger
  <2>3. /\ (points - r) + e \in Nat /\ ledger.earned + e \in Nat /\ ledger.redeemed + r \in Nat
        /\ ledger.earned + e >= ledger.redeemed + r
        /\ (points - r) + e = (ledger.earned + e) - (ledger.redeemed + r)
    BY <1>11, <2>2
  <2>4. QED
    BY <1>13, <2>1, <2>3 DEF PointsMatchLedger
<1>15. PICK n \in 0..1 : n = One(p.coupon) /\ (n = 1) = p.coupon
  BY <1>8 DEF One
<1>16. /\ usedCount' = usedCount + n
       /\ sales' = [sales EXCEPT !.settled = @ + 1, !.withCoupon = @ + n]
  BY <1>2, <1>15 DEF CommitSettle, CountUse
<1>17. /\ sales'.withCoupon = sales.withCoupon + n /\ sales'.ingested = sales.ingested
       /\ sales' \in [settled : Nat, withCoupon : Nat, ingested : Nat] /\ usedCount' \in Nat
  <2>1. PICK y \in [settled : Nat, withCoupon : Nat, ingested : Nat] : y = sales
    BY <1>1
  <2>2. PICK a \in Nat : a = y.settled + 1
    OBVIOUS
  <2>3. PICK b \in Nat : b = y.withCoupon + n
    OBVIOUS
  <2>4. PICK z : z = [y EXCEPT !.settled = a, !.withCoupon = b]
    OBVIOUS
  <2>5. z.withCoupon = b /\ z.ingested = y.ingested
        /\ z \in [settled : Nat, withCoupon : Nat, ingested : Nat]
    BY <2>4
  <2>6. sales' = z
    BY <1>16, <2>1, <2>4, <2>2, <2>3
  <2>7. QED
    BY <1>1, <1>16, <2>1, <2>5, <2>6, <2>3
<1>18. otp' \in [Otps -> {"none", "live", "expired", "consumed"}]
  BY <1>1, <1>2 DEF CommitSettle, TenderTypeOK
<1>19. TenderTypeOK'
  BY <1>4, <1>10, <1>14, <1>17, <1>18 DEF TenderTypeOK, Freed
<1>20. ASSUME NEW u \in Txns \ {t} PROVE LeftAlone(u)
  <2>1. \A c \in Cards : rowLock[CardRow(c)] = u => c \notin p.cards
    BY <1>6, <1>20
  <2>2. rowLock[CustomerRow] = u => ~p.phone /\ ~p.redeem
    BY <1>6, <1>20
  <2>3. rowLock[CustomerRow] = u => points' = points
    BY <1>1, <1>11, <1>12, <1>13, <2>2
  <2>4. \A c \in Cards : card'[c].status = card[c].status /\ (rowLock[CardRow(c)] = u => card'[c] = card[c])
    BY <1>9, <2>1
  <2>5. QED
    BY <1>4, <1>20, <2>3, <2>4 DEF LeftAlone, Freed
<1>21. SoundTxns'
  BY <1>1, <1>4, <1>20, StepSound DEF Freed
<1>22. CardsAddUp'
  <2>1. ASSUME NEW c \in Cards, card'[c].status # "none"
        PROVE  card'[c].balance >= 0 /\ card'[c].balance + card'[c].spent + card'[c].forfeited = FaceValue
    <3>1. card[c].balance + card[c].spent + card[c].forfeited = FaceValue
      BY <1>1, <1>9, <2>1 DEF CardsAddUp, CardsNeverOverspent
    <3>2. card'[c].balance \in Nat
      BY <1>9 DEF Card
    <3>3. card'[c].balance + card'[c].spent + card'[c].forfeited = FaceValue
      BY <1>9, <3>1, Zenon
    <3>4. QED
      BY <3>2, <3>3
  <2>2. ASSUME NEW c \in Cards, card'[c].status = "none" PROVE card'[c].spent = 0 /\ card'[c].forfeited = 0
    <3>1. card[c].spent = 0 /\ card[c].forfeited = 0 /\ card'[c] = card[c]
      BY <1>1, <1>9, <2>2 DEF CardsAddUp
    <3>2. QED
      BY <3>1
  <2>3. QED
    BY <2>1, <2>2 DEF CardsAddUp, CardsNeverOverspent
<1>23. CouponsCounted'
  <2>1. PICK A \in SUBSET Txns : A = WithCoupon
    BY DEF WithCoupon
  <2>2. PICK B \in SUBSET Txns : B = WithCoupon'
    BY DEF WithCoupon
  <2>3. IsFiniteSet(A) /\ B \subseteq A \ {t}
    BY <1>4, <2>1, <2>2, FS_Subset DEF Freed
  <2>4. n = 1 => t \in A
    BY <1>2, <1>3, <1>15, <2>1 DEF WithCoupon
  <2>5. Cardinality(A) \in Nat /\ Cardinality(A \ {t}) = (IF t \in A THEN Cardinality(A) - 1 ELSE Cardinality(A))
    BY <2>3, FS_RemoveElement, FS_CardinalityType
  <2>6. Cardinality(B) <= Cardinality(A \ {t}) /\ Cardinality(B) \in Nat /\ Cardinality(A \ {t}) \in Nat
    <3>1. IsFiniteSet(A \ {t})
      BY <2>3, FS_Subset
    <3>2. QED
      BY <2>3, <3>1, FS_Subset, FS_CardinalityType
  <2>7. Cardinality(B) + n <= Cardinality(A)
    BY <2>4, <2>5, <2>6
  <2>8. sales.withCoupon + Cardinality(A) <= (UsageLimit + Cardinality(Txns)) - 1
        /\ usedCount = sales.withCoupon + sales.ingested /\ Cardinality(Txns) \in Nat
    BY <1>1, <2>1, FS_CardinalityType DEF CouponsCounted
  <2>9. sales.withCoupon \in Nat /\ sales.ingested \in Nat /\ UsageLimit \in Nat
    BY <1>1
  <2>10. /\ (sales.withCoupon + n) + Cardinality(B) <= (UsageLimit + Cardinality(Txns)) - 1
         /\ usedCount + n = (sales.withCoupon + n) + sales.ingested
    BY <2>5, <2>6, <2>7, <2>8, <2>9
  <2>11. QED
    BY <1>16, <1>17, <2>2, <2>10 DEF CouponsCounted
<1>24. QED
  BY <1>14, <1>19, <1>21, <1>22, <1>23 DEF TenderInv

\* An ingested sale commits: it counts its coupon even past the limit.
LEMMA IngestKeeps ==
    ASSUME TenderInv, NEW t \in Txns, CommitIngest(t)
    PROVE  TenderInv'
<1>1. /\ TenderTypeOK /\ SoundTxns /\ CardsAddUp /\ PointsMatchLedger /\ CouponsCounted
      /\ sales \in [settled : Nat, withCoupon : Nat, ingested : Nat] /\ usedCount \in Nat
  BY DEF TenderInv, TenderTypeOK
<1>2. EndTxn(t) /\ UNCHANGED <<otp, card, points, ledger>>
      /\ usedCount' = usedCount + 1 /\ sales' = [sales EXCEPT !.ingested = @ + 1]
  BY DEF CommitIngest, CountUse
<1>3. Freed(t)
  BY <1>1, <1>2, EndFrees
<1>4. /\ sales'.withCoupon = sales.withCoupon /\ sales'.ingested = sales.ingested + 1
      /\ sales' \in [settled : Nat, withCoupon : Nat, ingested : Nat] /\ usedCount' \in Nat
  BY <1>1, <1>2
<1>5. TenderTypeOK'
  BY <1>1, <1>2, <1>3, <1>4 DEF TenderTypeOK, Freed
<1>6. ASSUME NEW u \in Txns \ {t} PROVE LeftAlone(u)
  BY <1>2, <1>3, <1>6 DEF LeftAlone, Freed
<1>7. SoundTxns'
  BY <1>1, <1>3, <1>6, StepSound DEF Freed
<1>8. CardsAddUp' /\ PointsMatchLedger'
  BY <1>1, <1>2 DEF CardsAddUp, CardsNeverOverspent, PointsMatchLedger
<1>9. CouponsCounted'
  <2>1. PICK A \in SUBSET Txns : A = WithCoupon
    BY DEF WithCoupon
  <2>2. PICK B \in SUBSET Txns : B = WithCoupon'
    BY DEF WithCoupon
  <2>3. IsFiniteSet(A) /\ B \subseteq A
    BY <1>3, <2>1, <2>2, FS_Subset, TenderAssumption DEF Freed
  <2>4. Cardinality(B) <= Cardinality(A) /\ Cardinality(A) \in Nat /\ Cardinality(B) \in Nat
    BY <2>3, FS_Subset, FS_CardinalityType
  <2>5. sales.withCoupon + Cardinality(A) <= (UsageLimit + Cardinality(Txns)) - 1
        /\ usedCount = sales.withCoupon + sales.ingested /\ Cardinality(Txns) \in Nat /\ UsageLimit \in Nat
    BY <1>1, <2>1, FS_CardinalityType, TenderAssumption DEF CouponsCounted
  <2>6. sales.withCoupon + Cardinality(B) <= (UsageLimit + Cardinality(Txns)) - 1
        /\ usedCount + 1 = sales.withCoupon + (sales.ingested + 1)
    BY <1>1, <2>4, <2>5
  <2>7. QED
    BY <1>2, <1>4, <2>2, <2>6 DEF CouponsCounted
<1>10. QED
  BY <1>5, <1>7, <1>8, <1>9 DEF TenderInv

\* A void commits: it holds its card, which forfeits what is left on it.
LEMMA VoidCardKeeps ==
    ASSUME TenderInv, NEW t \in Txns, CommitVoid(t)
    PROVE  TenderInv'
<1>1. /\ TenderTypeOK /\ SoundTxns /\ CardsAddUp /\ PointsMatchLedger /\ CouponsCounted
      /\ LocksSound(t) /\ ChecksHold(t) /\ txn \in [Txns -> Txn] /\ card \in [Cards -> Card]
  BY DEF TenderInv, SoundTxns, TenderTypeOK
<1>2. PICK p \in Plan : p = txn[t].plan
  BY <1>1 DEF Txn
<1>3. txn[t].kind = "void" /\ txn[t].want = <<>> /\ EndTxn(t) /\ UNCHANGED <<usedCount, sales, otp, points, ledger>>
  BY DEF CommitVoid
<1>4. Freed(t)
  BY <1>1, <1>3, EndFrees
<1>5. \A c \in p.cards : rowLock[CardRow(c)] = t /\ card[c].status # "none"
  <2>1. \A r \in PlanRows(p) : rowLock[r] = t
    BY <1>1, <1>2, <1>3, IdleTxn DEF LocksSound
  <2>2. QED
    BY <1>1, <1>2, <1>3, <2>1 DEF ChecksHold, PlanRows
<1>6. ASSUME NEW c \in Cards
      PROVE  /\ card'[c] \in Card
             /\ card'[c].balance + card'[c].spent + card'[c].forfeited
                  = card[c].balance + card[c].spent + card[c].forfeited
             /\ c \notin p.cards => card'[c] = card[c]
             /\ card[c].status # "none" <=> card'[c].status # "none"
             /\ c \in p.cards => card[c].status # "none"
  <2>1. PICK old \in Card : old = card[c]
    BY <1>1
  <2>2. card'[c] = IF c \in p.cards THEN [old EXCEPT !.status = "VOID", !.forfeited = @ + old.balance, !.balance = 0]
                   ELSE old
    BY <1>2, <2>1 DEF CommitVoid
  <2>3. CASE c \in p.cards
    <3>1. old.balance \in Nat /\ old.spent \in Nat /\ old.forfeited \in Nat
      BY DEF Card
    <3>2. PICK f \in Nat : f = old.forfeited + old.balance
      BY <3>1
    <3>3. PICK new : new = [old EXCEPT !.status = "VOID", !.forfeited = f, !.balance = 0]
      OBVIOUS
    <3>4. card'[c] = new
      BY <2>2, <2>3, <3>2, <3>3
    <3>5. new \in Card /\ new.status = "VOID" /\ new.balance = 0 /\ new.spent = old.spent /\ new.forfeited = f
      BY <3>3 DEF Card
    <3>6. old.status # "none"
      BY <1>5, <2>1, <2>3
    <3>7. QED
      BY <2>1, <2>3, <3>1, <3>2, <3>4, <3>5, <3>6
  <2>4. CASE c \notin p.cards
    BY <2>1, <2>2, <2>4
  <2>5. QED
    BY <2>3, <2>4
<1>7. card' \in [Cards -> Card]
  <2>1. DOMAIN card' = Cards /\ card' = [c \in Cards |-> card'[c]]
    BY DEF CommitVoid
  <2>2. QED
    BY <1>6, <2>1
<1>8. TenderTypeOK'
  BY <1>1, <1>3, <1>4, <1>7 DEF TenderTypeOK, Freed
<1>9. ASSUME NEW u \in Txns \ {t} PROVE LeftAlone(u)
  <2>1. \A c \in Cards : rowLock[CardRow(c)] = u => c \notin p.cards
    BY <1>5, <1>9
  <2>2. \A c \in Cards : /\ card[c].status # "none" => card'[c].status # "none"
                         /\ rowLock[CardRow(c)] = u => card'[c] = card[c]
    BY <1>6, <2>1
  <2>3. QED
    BY <1>3, <1>4, <1>9, <2>2 DEF LeftAlone, Freed
<1>10. SoundTxns'
  BY <1>1, <1>4, <1>9, StepSound DEF Freed
<1>11. CardsAddUp'
  <2>1. ASSUME NEW c \in Cards, card'[c].status # "none"
        PROVE  card'[c].balance >= 0 /\ card'[c].balance + card'[c].spent + card'[c].forfeited = FaceValue
    <3>1. card[c].balance + card[c].spent + card[c].forfeited = FaceValue
      BY <1>1, <1>6, <2>1 DEF CardsAddUp, CardsNeverOverspent
    <3>2. card'[c].balance \in Nat
      BY <1>6 DEF Card
    <3>3. card'[c].balance + card'[c].spent + card'[c].forfeited = FaceValue
      BY <1>6, <3>1, Zenon
    <3>4. QED
      BY <3>2, <3>3
  <2>2. ASSUME NEW c \in Cards, card'[c].status = "none" PROVE card'[c].spent = 0 /\ card'[c].forfeited = 0
    <3>1. card[c].spent = 0 /\ card[c].forfeited = 0 /\ card'[c] = card[c]
      BY <1>1, <1>6, <2>2 DEF CardsAddUp
    <3>2. QED
      BY <3>1
  <2>3. QED
    BY <2>1, <2>2 DEF CardsAddUp, CardsNeverOverspent
<1>12. PointsMatchLedger'
  BY <1>1, <1>3 DEF PointsMatchLedger
<1>13. CouponsCounted'
  <2>1. WithCoupon' \subseteq WithCoupon
    BY <1>4 DEF Freed
  <2>2. QED
    BY <1>1, <1>3, <2>1, FewerCoupons
<1>14. QED
  BY <1>8, <1>10, <1>11, <1>12, <1>13 DEF TenderInv

\* A card stays as it is, or is issued at its face value.
CardsKept ==
    \A c \in Cards :
        /\ card'[c].spent = card[c].spent /\ card'[c].forfeited = card[c].forfeited
        /\ \/ card'[c].status = card[c].status /\ card'[c].balance = card[c].balance
           \/ card[c].status = "none" /\ card'[c].status = "ACTIVE" /\ card'[c].balance = FaceValue

\* Cards are issued and expire, codes are sent and expire: nothing a transaction holds
\* or relies on, and no balance but the one a card is issued with.
LEMMA OutsideKeeps ==
    ASSUME TenderInv, \/ \E c \in Cards : IssueCard(c) \/ ExpireCard(c)
                      \/ \E o \in Otps : RequestOtp(o) \/ ExpireOtp(o)
    PROVE  TenderInv'
<1> USE TenderAssumption
<1>1. TenderTypeOK /\ SoundTxns /\ CardsAddUp /\ PointsMatchLedger /\ CouponsCounted /\ card \in [Cards -> Card]
  BY DEF TenderInv, TenderTypeOK
<1>2. UNCHANGED <<usedCount, sales, points, ledger, txn, rowLock>>
  BY DEF IssueCard, ExpireCard, RequestOtp, ExpireOtp
<1>3. otp' \in [Otps -> {"none", "live", "expired", "consumed"}]
  BY <1>1 DEF IssueCard, ExpireCard, RequestOtp, ExpireOtp, TenderTypeOK
<1>4. card' \in [Cards -> Card] /\ CardsKept
  <2>1. CASE UNCHANGED card
    BY <1>1, <2>1 DEF CardsKept
  <2>2. ASSUME NEW c \in Cards, NEW new \in Card, card' = [card EXCEPT ![c] = new],
               new.spent = card[c].spent, new.forfeited = card[c].forfeited,
               \/ new.status = card[c].status /\ new.balance = card[c].balance
               \/ card[c].status = "none" /\ new.status = "ACTIVE" /\ new.balance = FaceValue
        PROVE  card' \in [Cards -> Card] /\ CardsKept
    <3>1. card'[c] = new /\ (\A d \in Cards \ {c} : card'[d] = card[d]) /\ card' \in [Cards -> Card]
      BY <1>1, <2>2
    <3>2. QED
      BY <2>2, <3>1 DEF CardsKept
  <2>3. ASSUME NEW c \in Cards, IssueCard(c) PROVE card' \in [Cards -> Card] /\ CardsKept
    <3>1. PICK old \in Card : old = card[c]
      BY <1>1
    <3>2. PICK new : new = [old EXCEPT !.status = "ACTIVE", !.balance = FaceValue]
      OBVIOUS
    <3>3. new \in Card /\ new.status = "ACTIVE" /\ new.balance = FaceValue /\ new.spent = old.spent
          /\ new.forfeited = old.forfeited
      BY <3>2 DEF Card
    <3>4. card' = [card EXCEPT ![c] = new] /\ card[c].status = "none"
      BY <1>1, <2>3, <3>1, <3>2 DEF IssueCard
    <3>5. QED
      BY <2>2, <3>1, <3>3, <3>4
  <2>4. ASSUME NEW c \in Cards, ExpireCard(c) PROVE card' \in [Cards -> Card] /\ CardsKept
    <3>1. PICK old \in Card : old = card[c]
      BY <1>1
    <3>2. PICK new : new = [old EXCEPT !.expired = TRUE]
      OBVIOUS
    <3>3. new \in Card /\ new.status = old.status /\ new.balance = old.balance /\ new.spent = old.spent
          /\ new.forfeited = old.forfeited
      BY <3>2 DEF Card
    <3>4. card' = [card EXCEPT ![c] = new]
      BY <1>1, <2>4, <3>1, <3>2 DEF ExpireCard
    <3>5. QED
      BY <2>2, <3>1, <3>3, <3>4
  <2>5. QED
    BY <2>1, <2>3, <2>4 DEF RequestOtp, ExpireOtp
<1>5. TenderTypeOK'
  BY <1>1, <1>2, <1>3, <1>4 DEF TenderTypeOK
<1>6. ASSUME NEW u \in Txns PROVE LeftAlone(u)
  BY <1>2, <1>4 DEF LeftAlone, CardsKept
<1>7. SoundTxns'
  BY <1>1, <1>6, AloneSound DEF SoundTxns
<1>8. CardsAddUp'
  <2>1. ASSUME NEW c \in Cards, card'[c].status # "none"
        PROVE  card'[c].balance >= 0 /\ card'[c].balance + card'[c].spent + card'[c].forfeited = FaceValue
    <3>1. CASE card[c].status = "none"
      <4>1. card'[c].balance = FaceValue /\ card'[c].spent = 0 /\ card'[c].forfeited = 0
        BY <1>1, <1>4, <2>1, <3>1 DEF CardsKept, CardsAddUp
      <4>2. QED
        BY <4>1
    <3>2. CASE card[c].status # "none"
      <4>1. card[c].balance >= 0 /\ card[c].balance + card[c].spent + card[c].forfeited = FaceValue
        BY <1>1, <3>2 DEF CardsAddUp, CardsNeverOverspent
      <4>2. card'[c].balance = card[c].balance /\ card'[c].spent = card[c].spent /\ card'[c].forfeited = card[c].forfeited
        BY <1>4, <3>2 DEF CardsKept
      <4>3. QED
        BY <4>1, <4>2
    <3>3. QED
      BY <3>1, <3>2
  <2>2. ASSUME NEW c \in Cards, card'[c].status = "none" PROVE card'[c].spent = 0 /\ card'[c].forfeited = 0
    BY <1>1, <1>4, <2>2 DEF CardsKept, CardsAddUp
  <2>3. QED
    BY <2>1, <2>2 DEF CardsAddUp, CardsNeverOverspent
<1>9. PointsMatchLedger' /\ CouponsCounted'
  <2>1. WithCoupon' \subseteq WithCoupon
    BY <1>2 DEF WithCoupon
  <2>2. QED
    BY <1>1, <1>2, <2>1, FewerCoupons DEF PointsMatchLedger
<1>10. QED
  BY <1>5, <1>7, <1>8, <1>9 DEF TenderInv

\* At first no transaction runs and no card is issued.
LEMMA TenderStarts == TenderInit => TenderInv
<1> SUFFICES ASSUME TenderInit PROVE TenderInv
  OBVIOUS
<1> USE TenderAssumption
<1>1. /\ usedCount = 0 /\ sales = [settled |-> 0, withCoupon |-> 0, ingested |-> 0]
      /\ otp = [o \in Otps |-> "none"]
      /\ card = [c \in Cards |-> [status |-> "none", expired |-> FALSE, balance |-> 0, spent |-> 0, forfeited |-> 0]]
      /\ points = RedeemPoints /\ ledger = [earned |-> RedeemPoints, redeemed |-> 0]
      /\ txn = [t \in Txns |-> TxnIdle] /\ rowLock = [row \in TenderRows |-> "free"]
  BY DEF TenderInit
<1>2. TenderTypeOK
  BY <1>1, IdleTxn DEF TenderTypeOK, Card
<1>3. SoundTxns
  BY <1>1, IdleTxn DEF SoundTxns, LocksSound, ChecksHold
<1>4. CardsAddUp
  BY <1>1 DEF CardsAddUp, CardsNeverOverspent
<1>5. PointsMatchLedger
  <2>1. RedeemPoints \in Nat /\ ledger.earned = RedeemPoints /\ ledger.redeemed = 0
    BY <1>1
  <2>2. QED
    BY <1>1, <2>1 DEF PointsMatchLedger
<1>6. CouponsCounted
  <2>1. WithCoupon = {}
    BY <1>1, IdleTxn DEF WithCoupon
  <2>2. Cardinality(WithCoupon) = 0 /\ Cardinality(Txns) \in Nat /\ Cardinality(Txns) # 0 /\ UsageLimit \in Nat
    BY <2>1, FS_EmptySet, FS_CardinalityType
  <2>3. QED
    BY <1>1, <2>2 DEF CouponsCounted
<1>7. QED
  BY <1>2, <1>3, <1>4, <1>5, <1>6 DEF TenderInv

\* Every step keeps what transactions hold and what they draw on.
LEMMA TenderStep == TenderInv /\ [TenderNext]_tenderVars => TenderInv'
<1> SUFFICES ASSUME TenderInv, [TenderNext]_tenderVars PROVE TenderInv'
  OBVIOUS
<1>1. CASE TenderNext
  <2>1. ASSUME NEW t \in Txns, TxnStep(t) PROVE TenderInv'
    <3>1. CASE \E p \in Plans : BeginTender(t, p)
      BY <3>1, BeginKeeps
    <3>2. CASE BeginIngest(t) \/ \E c \in Cards : BeginVoid(t, c)
      BY <3>2, OthersBegin
    <3>3. CASE VerifyOtp(t)
      BY <3>3, VerifyKeeps
    <3>4. CASE LockNext(t)
      BY <3>4, LockKeeps
    <3>5. CASE CommitSettle(t)
      BY <3>5, SettleKeeps
    <3>6. CASE CommitIngest(t)
      BY <3>6, IngestKeeps
    <3>7. CASE CommitVoid(t)
      BY <3>7, VoidCardKeeps
    <3>8. CASE RollBack(t)
      BY <3>8, RollBackKeeps
    <3>9. QED
      BY <2>1, <3>1, <3>2, <3>3, <3>4, <3>5, <3>6, <3>7, <3>8 DEF TxnStep, FailTxn, AbortVictim
  <2>2. QED
    BY <1>1, <2>1, OutsideKeeps DEF TenderNext
<1>2. CASE UNCHANGED tenderVars
  <2>1. UNCHANGED <<usedCount, sales, otp, card, points, ledger, txn, rowLock>>
    BY <1>2 DEF tenderVars
  <2>2. TenderTypeOK /\ SoundTxns /\ CardsAddUp /\ PointsMatchLedger /\ CouponsCounted
    BY DEF TenderInv
  <2>3. TenderTypeOK'
    BY <2>1, <2>2 DEF TenderTypeOK
  <2>4. \A u \in Txns : LeftAlone(u)
    BY <2>1 DEF LeftAlone
  <2>5. SoundTxns'
    BY <2>2, <2>4, AloneSound DEF SoundTxns
  <2>6. CardsAddUp' /\ PointsMatchLedger'
    BY <2>1, <2>2 DEF CardsAddUp, CardsNeverOverspent, PointsMatchLedger
  <2>7. WithCoupon' \subseteq WithCoupon
    BY <2>1 DEF WithCoupon
  <2>8. CouponsCounted'
    BY <2>1, <2>2, <2>7, FewerCoupons
  <2>9. QED
    BY <2>3, <2>5, <2>6, <2>8 DEF TenderInv
<1>3. QED
  BY <1>1, <1>2

\* Gift cards, points and coupon uses add up whatever requests race: no rupee of a
\* card and no point is spent twice, and the coupon exceeds its limit by no more than
\* the other settlements under way (TendersBalance).
THEOREM TendersCorrect == TenderSpec => [](TenderTypeOK /\ TendersBalance)
<1>1. TenderInv => TenderTypeOK /\ TendersBalance
  <2> SUFFICES ASSUME TenderInv PROVE TenderTypeOK /\ TendersBalance
    OBVIOUS
  <2>1. TenderTypeOK /\ CardsAddUp /\ PointsMatchLedger /\ CouponsCounted
    BY DEF TenderInv
  <2>2. PICK A \in SUBSET Txns : A = WithCoupon
    BY DEF WithCoupon
  <2>3. Cardinality(A) \in Nat /\ Cardinality(Txns) \in Nat /\ UsageLimit \in Nat /\ sales.withCoupon \in Nat
    BY <2>1, TenderAssumption, FS_Subset, FS_CardinalityType DEF TenderTypeOK
  <2>4. sales.withCoupon + Cardinality(A) <= (UsageLimit + Cardinality(Txns)) - 1
        /\ usedCount = sales.withCoupon + sales.ingested
    BY <2>1, <2>2 DEF CouponsCounted
  <2>5. sales.withCoupon <= (UsageLimit + Cardinality(Txns)) - 1
    BY <2>3, <2>4
  <2>6. QED
    BY <2>1, <2>4, <2>5 DEF TendersBalance, CardsAddUp, CouponOverrunBounded
<1>2. QED
  BY <1>1, TenderStarts, TenderStep, PTL DEF TenderSpec

\* Settlements and voids never wait for each other in a circle: of those that wait, one
\* waits for the last row in the order of the rows, and whoever holds that row waits for
\* none before it (SettlementsDoNotDeadlock).
THEOREM SettlementsNeverDeadlock == TenderSpec => []SettlementsDoNotDeadlock
<1>1. TenderInv => SettlementsDoNotDeadlock
  <2> SUFFICES ASSUME TenderInv, NEW C \in SUBSET {t \in Txns : txn[t].kind # "ingest"}, TxnCycle(C) PROVE FALSE
    BY DEF SettlementsDoNotDeadlock
  <2>1. TenderTypeOK /\ SoundTxns /\ txn \in [Txns -> Txn]
    BY DEF TenderInv, TenderTypeOK
  <2>2. C # {} /\ IsFiniteSet(C) /\ C \subseteq Txns
    BY TenderAssumption, FS_Subset DEF TxnCycle
  <2>3. PICK first : first = [t \in C |-> Head(txn[t].want)]
    OBVIOUS
  <2>4. ASSUME NEW t \in C
        PROVE  /\ first[t] \in TenderRows /\ first[t] \in Range(txn[t].want)
               /\ \A q \in TenderRows : rowLock[q] = t => Before(q, first[t])
               /\ \E u \in C : rowLock[first[t]] = u
    <3>1. PICK u \in C : TxnWaitsFor(t, u)
      BY DEF TxnCycle
    <3>2. PICK w \in Seq(TenderRows) : w = txn[t].want
      BY <2>1, <2>2 DEF Txn
    <3>3. w # <<>> /\ rowLock[Head(w)] = u /\ first[t] = Head(w)
      BY <2>3, <3>1, <3>2 DEF TxnWaitsFor
    <3>4. Head(w) \in TenderRows /\ Head(w) \in Range(w)
      BY <3>3, FirstTaken
    <3>5. \A q \in TenderRows, r \in Range(w) : rowLock[q] = t => Before(q, r)
      BY <2>1, <3>2 DEF SoundTxns, LocksSound
    <3>6. QED
      BY <3>2, <3>3, <3>4, <3>5
  <2>5. PICK R : R = {e \in C \X C : Before(first[e[1]], first[e[2]])}
    OBVIOUS
  <2>6. \A t, u \in C : <<t, u>> \in R <=> Before(first[t], first[u])
    BY <2>5
  <2>7. \A t \in C : <<t, t>> \notin R
    BY <2>4, <2>6, RowsOrdered
  <2>8. \A t, u, v \in C : <<t, u>> \in R /\ <<u, v>> \in R => <<t, v>> \in R
    <3>1. ASSUME NEW t \in C, NEW u \in C, NEW v \in C, <<t, u>> \in R, <<u, v>> \in R PROVE <<t, v>> \in R
      <4>1. first[t] \in TenderRows /\ first[u] \in TenderRows /\ first[v] \in TenderRows
        BY <2>4
      <4>2. Before(first[t], first[u]) /\ Before(first[u], first[v])
        BY <2>6, <3>1
      <4>3. Before(first[t], first[v])
        BY <4>1, <4>2, RowsOrdered
      <4>4. QED
        BY <2>6, <4>3
    <3>2. QED
      BY <3>1
  <2>9. PICK t \in C : \A u \in C : <<t, u>> \notin R
    BY <2>2, <2>7, <2>8, LastOf
  <2>10. PICK u \in C : rowLock[first[t]] = u
    BY <2>4
  <2>11. Before(first[t], first[u])
    BY <2>4, <2>10
  <2>12. QED
    BY <2>6, <2>9, <2>11
<1>2. QED
  BY <1>1, TenderStarts, TenderStep, PTL DEF TenderSpec

-----------------------------------------------------------------------------
(* The cash book. *)

\* A payout under way holds the lock of an open drawer; a void holds that of a booked
\* expense, and returns its cash to the drawer it came from or to none.
TillHolds(t) ==
    LET op == till[t].op  s == till[t].session  e == till[t].expense
    IN  /\ op \in Payouts => s \in Sessions /\ session[s].status = "OPEN" /\ sessLock[s] = t
        /\ op = "void" => e \in Expenses /\ expLock[e] = t /\ expense[e].status = "booked"
                          /\ s \in {0, expense[e].session}
        /\ op = "close" => s \in Sessions
TillsHold == \A t \in Tills : TillHolds(t)

UnpaidNowhere == \A e \in Expenses : expense[e].status = "none" => expense[e].session = 0

\* A drawer's movements for expenses are those of the expenses paid from it.
PaidFrom(s) == {e \in Expenses : expense[e].session = s}
VoidedFrom(s) == {e \in Expenses : expense[e].session = s /\ expense[e].status = "voided"}
MovesExplained ==
    \A s \in Sessions :
        LET m == session[s].moves
        IN  /\ m["DRAWER_EXPENSE"] + m["EXPENSE"] = Cardinality(PaidFrom(s))
            /\ m["EXPENSE_VOID"] <= Cardinality(VoidedFrom(s))

CashInv == CashTypeOK /\ TillsHold /\ UnpaidNowhere /\ MovesExplained
CashLocks == CashTypeOK /\ TillsHold /\ UnpaidNowhere

\* What the requests do to sessions and expenses.
MovesStay == \A s \in Sessions : session'[s].moves = session[s].moves
OnlyAdds(s, k) ==
    /\ session' \in [Sessions -> Drawer]
    /\ \A x \in Sessions \ {s} : session'[x] = session[x]
    /\ session'[s].status = session[s].status
    /\ session'[s].moves[k] = session[s].moves[k] + 1
    /\ \A x \in Kinds \ {k} : session'[s].moves[x] = session[s].moves[x]

\* A movement adds one to its kind in its drawer and to nothing else.
LEMMA AddsOne ==
    ASSUME CashTypeOK, NEW s \in Sessions, NEW k \in Kinds, AddMove(s, k)
    PROVE  OnlyAdds(s, k)
<1>1. session \in [Sessions -> Drawer] /\ session[s].moves \in [Kinds -> Nat] /\ session[s] \in Drawer
  BY DEF CashTypeOK, Drawer
<1>2. PICK moves : moves = [session[s].moves EXCEPT ![k] = @ + 1]
  OBVIOUS
<1>3. moves \in [Kinds -> Nat] /\ moves[k] = session[s].moves[k] + 1
      /\ \A x \in Kinds \ {k} : moves[x] = session[s].moves[x]
  BY <1>1, <1>2
<1>4. PICK row : row = [session[s] EXCEPT !.moves = moves]
  OBVIOUS
<1>5. row \in Drawer /\ row.status = session[s].status /\ row.moves = moves
  BY <1>1, <1>3, <1>4 DEF Drawer
<1>6. session' = [session EXCEPT ![s] = row]
  BY <1>2, <1>4 DEF AddMove
<1>7. session'[s] = row /\ (\A x \in Sessions \ {s} : session'[x] = session[x]) /\ session' \in [Sessions -> Drawer]
  BY <1>1, <1>5, <1>6
<1>8. QED
  BY <1>3, <1>5, <1>7 DEF OnlyAdds

\* A request that reads: it begins or ends, and may take or free locks of its own.
LEMMA TillMoves ==
    ASSUME CashLocks, NEW t \in Tills, NEW rec \in CashRequest,
           till' = [till EXCEPT ![t] = rec],
           session' \in [Sessions -> Drawer], expense' \in [Expenses -> Expense], offDrawer' \in Int,
           sessLock' \in [Sessions -> Tills \cup {"free"}], expLock' \in [Expenses -> Tills \cup {"free"}],
           \A s \in Sessions : sessLock[s] \in Tills \ {t} /\ session[s].status = "OPEN" =>
              sessLock'[s] = sessLock[s] /\ session'[s].status = "OPEN",
           \A e \in Expenses : expLock[e] \in Tills \ {t} /\ expense[e].status = "booked" =>
              expLock'[e] = expLock[e] /\ expense'[e] = expense[e],
           UnpaidNowhere', TillHolds(t)'
    PROVE  CashLocks'
<1>1. /\ till \in [Tills -> CashRequest] /\ TillsHold
      /\ sessLock \in [Sessions -> Tills \cup {"free"}] /\ expLock \in [Expenses -> Tills \cup {"free"}]
  BY DEF CashLocks, CashTypeOK
<1>2. till' \in [Tills -> CashRequest] /\ \A u \in Tills \ {t} : till'[u] = till[u]
  BY <1>1
<1>3. CashTypeOK'
  BY <1>2 DEF CashTypeOK
<1>4. ASSUME NEW u \in Tills \ {t} PROVE TillHolds(u)'
  <2>1. PICK r : r = till[u]
    OBVIOUS
  <2>2. till'[u] = r
    BY <1>2, <2>1
  <2>3. TillHolds(u)
    BY <1>1 DEF TillsHold
  <2>4. r.op \in Payouts => r.session \in Sessions /\ session'[r.session].status = "OPEN" /\ sessLock'[r.session] = u
    BY <2>1, <2>3 DEF TillHolds
  <2>5. r.op = "void" => r.expense \in Expenses /\ expLock'[r.expense] = u /\ expense'[r.expense].status = "booked"
                         /\ r.session \in {0, expense'[r.expense].session}
    BY <2>1, <2>3 DEF TillHolds
  <2>6. r.op = "close" => r.session \in Sessions
    BY <2>1, <2>3 DEF TillHolds
  <2>7. QED
    BY <2>2, <2>4, <2>5, <2>6 DEF TillHolds
<1>5. TillsHold'
  BY <1>4 DEF TillsHold
<1>6. QED
  BY <1>3, <1>5 DEF CashLocks

BooksStay == MovesStay /\ UNCHANGED expense

\* If neither the drawers' movements nor the expenses change, they stay in step.
LEMMA BooksKept ==
    ASSUME UnpaidNowhere, MovesExplained, BooksStay
    PROVE  UnpaidNowhere' /\ MovesExplained'
<1>1. \A s \in Sessions : PaidFrom(s)' = PaidFrom(s) /\ VoidedFrom(s)' = VoidedFrom(s)
  BY DEF BooksStay, PaidFrom, VoidedFrom
<1>2. UnpaidNowhere'
  BY DEF BooksStay, UnpaidNowhere
<1>3. ASSUME NEW s \in Sessions
      PROVE  /\ session'[s].moves["DRAWER_EXPENSE"] + session'[s].moves["EXPENSE"] = Cardinality(PaidFrom(s)')
             /\ session'[s].moves["EXPENSE_VOID"] <= Cardinality(VoidedFrom(s)')
  <2>1. session'[s].moves = session[s].moves
    BY DEF BooksStay, MovesStay
  <2>2. QED
    BY <1>1, <2>1 DEF MovesExplained
<1>4. QED
  BY <1>2, <1>3 DEF MovesExplained

CashOps == Kinds \cup {"idle", "open", "close", "void"}

\* What a request that begins, or ends, looks like.
LEMMA BeginIs ==
    ASSUME NEW t \in Tills, NEW op \in CashOps, NEW s \in Sessions \cup {0}, Begin(t, op, s)
    PROVE  \E rec \in CashRequest : rec.op = op /\ rec.session = s /\ till' = [till EXCEPT ![t] = rec]
<1>1. PICK rec : rec = [Idle EXCEPT !.op = op, !.session = s]
  OBVIOUS
<1>2. rec \in CashRequest /\ rec.op = op /\ rec.session = s
  BY <1>1 DEF CashRequest, CashOps, Idle
<1>3. QED
  BY <1>1, <1>2 DEF Begin

\* An idle request is a request.
LEMMA IdleIs == Idle \in CashRequest /\ Idle.op = "idle"
BY DEF Idle, CashRequest

\* Which operations hold what.
LEMMA OpsAre ==
    /\ \A k \in Payouts : k \in Kinds /\ k \notin Unlocked /\ k \notin {"idle", "open", "close", "void"}
    /\ \A k \in Unlocked : k \in Kinds /\ k \notin {"idle", "open", "close", "void"}
BY DEF Payouts, Unlocked, Kinds, InKinds, OutKinds

\* Beginning a request, and giving it up.
LEMMA ReadKeeps ==
    ASSUME CashLocks, MovesExplained, NEW t \in Tills,
           \/ \E op \in {"open", "close"}, s \in Sessions \cup {0} :
                 /\ op = "close" => s \in Sessions
                 /\ Begin(t, op, s) /\ UNCHANGED <<session, expense, offDrawer, sessLock, expLock>>
           \/ \E k \in Unlocked : ReadDrawer(t, k)
           \/ \E k \in Payouts : LockDrawer(t, k)
           \/ \E e \in Expenses : LockExpense(t, e)
           \/ CashFail(t)
    PROVE  CashLocks' /\ MovesExplained'
<1> USE CashAssumption
<1>1. /\ session \in [Sessions -> Drawer] /\ expense \in [Expenses -> Expense] /\ offDrawer \in Int
      /\ till \in [Tills -> CashRequest] /\ UnpaidNowhere /\ "free" \notin Tills
      /\ sessLock \in [Sessions -> Tills \cup {"free"}] /\ expLock \in [Expenses -> Tills \cup {"free"}]
  BY DEF CashLocks, CashTypeOK
<1>2. session' = session /\ expense' = expense /\ offDrawer' = offDrawer
  BY DEF ReadDrawer, LockDrawer, LockExpense, CashFail
<1>3. UnpaidNowhere' /\ MovesExplained'
  BY <1>1, <1>2, BooksKept DEF BooksStay, MovesStay
<1>4. OpenSessions \subseteq Sessions /\ \A s \in OpenSessions : session[s].status = "OPEN"
  BY DEF OpenSessions
<1>5. ASSUME NEW op \in {"open", "close"}, NEW s \in Sessions \cup {0}, op = "close" => s \in Sessions,
             Begin(t, op, s), UNCHANGED <<session, expense, offDrawer, sessLock, expLock>>
      PROVE  CashLocks'
  <2>1. PICK rec \in CashRequest : rec.op = op /\ rec.session = s /\ till' = [till EXCEPT ![t] = rec]
    BY <1>5, BeginIs DEF CashOps
  <2>2. till'[t] = rec
    BY <1>1, <2>1
  <2>3. TillHolds(t)'
    BY <1>5, <2>1, <2>2, OpsAre DEF TillHolds
  <2>4. QED
    BY <1>1, <1>2, <1>3, <1>5, <2>1, <2>3, TillMoves
<1>6. ASSUME NEW k \in Unlocked, ReadDrawer(t, k) PROVE CashLocks'
  <2>1. PICK s \in Sessions \cup {0} : Begin(t, k, s)
    BY <1>4, <1>6 DEF ReadDrawer, FoundSession
  <2>2. PICK rec \in CashRequest : rec.op = k /\ rec.session = s /\ till' = [till EXCEPT ![t] = rec]
    BY <2>1, BeginIs, OpsAre DEF CashOps
  <2>3. till'[t] = rec
    BY <1>1, <2>2
  <2>4. TillHolds(t)'
    BY <2>2, <2>3, OpsAre DEF TillHolds
  <2>5. UNCHANGED <<sessLock, expLock>>
    BY <1>6 DEF ReadDrawer
  <2>6. QED
    BY <1>1, <1>2, <1>3, <2>2, <2>4, <2>5, TillMoves
<1>7. ASSUME NEW k \in Payouts, LockDrawer(t, k) PROVE CashLocks'
  <2>1. PICK s \in OpenSessions : Begin(t, k, s)
    BY <1>7 DEF LockDrawer
  <2>2. s \in Sessions /\ session[s].status = "OPEN"
    BY <1>4
  <2>3. PICK rec \in CashRequest : rec.op = k /\ rec.session = s /\ till' = [till EXCEPT ![t] = rec]
    BY <2>1, <2>2, BeginIs, OpsAre DEF CashOps
  <2>4. /\ \A x \in OpenSessions : sessLock[x] = "free"
        /\ sessLock' = [x \in Sessions |-> IF x \in OpenSessions THEN t ELSE sessLock[x]]
        /\ expLock' = expLock
    BY <1>7 DEF LockDrawer, LockOpenSessions
  <2>5. sessLock' \in [Sessions -> Tills \cup {"free"}] /\ sessLock'[s] = t
        /\ \A x \in Sessions : sessLock[x] \in Tills \ {t} => sessLock'[x] = sessLock[x]
    BY <1>1, <2>2, <2>4
  <2>6. till'[t] = rec
    BY <1>1, <2>3
  <2>7. TillHolds(t)'
    BY <1>2, <2>2, <2>3, <2>5, <2>6, OpsAre DEF TillHolds
  <2>8. QED
    BY <1>1, <1>2, <1>3, <2>3, <2>4, <2>5, <2>7, TillMoves
<1>8. ASSUME NEW e \in Expenses, LockExpense(t, e) PROVE CashLocks'
  <2>1. PICK s : s = IF expense[e].session \in OpenSessions THEN expense[e].session ELSE 0
    OBVIOUS
  <2>2. s \in Sessions \cup {0} /\ s \in {0, expense[e].session}
    BY <1>4, <2>1
  <2>3. PICK rec : rec = [op |-> "void", expense |-> e, session |-> s]
    OBVIOUS
  <2>4. rec \in CashRequest
    BY <2>2, <2>3 DEF CashRequest
  <2>5. /\ till' = [till EXCEPT ![t] = rec] /\ expLock' = [expLock EXCEPT ![e] = t] /\ sessLock' = sessLock
        /\ expense[e].status = "booked" /\ expLock[e] = "free"
    BY <1>8, <2>1, <2>3 DEF LockExpense, ExpenseFree
  <2>6. till'[t] = rec
    BY <1>1, <2>5
  <2>7. /\ expLock' \in [Expenses -> Tills \cup {"free"}] /\ expLock'[e] = t
        /\ \A x \in Expenses : expLock[x] \in Tills \ {t} => expLock'[x] = expLock[x]
    BY <1>1, <2>5
  <2>8. TillHolds(t)'
    BY <1>2, <2>2, <2>3, <2>5, <2>6, <2>7, OpsAre DEF TillHolds
  <2>9. QED
    BY <1>1, <1>2, <1>3, <2>4, <2>5, <2>7, <2>8, TillMoves
<1>9. ASSUME CashFail(t) PROVE CashLocks'
  <2>1. /\ till' = [till EXCEPT ![t] = Idle]
        /\ sessLock' = [s \in Sessions |-> IF sessLock[s] = t THEN "free" ELSE sessLock[s]]
        /\ expLock' = [e \in Expenses |-> IF expLock[e] = t THEN "free" ELSE expLock[e]]
    BY <1>9 DEF CashFail, EndRequest, FreeSessions, FreeExpenses
  <2>2. till'[t] = Idle
    BY <1>1, <2>1
  <2>3. TillHolds(t)'
    BY <2>2, IdleIs, OpsAre DEF TillHolds
  <2>4. /\ sessLock' \in [Sessions -> Tills \cup {"free"}] /\ expLock' \in [Expenses -> Tills \cup {"free"}]
        /\ \A s \in Sessions : sessLock[s] \in Tills \ {t} => sessLock'[s] = sessLock[s]
        /\ \A e \in Expenses : expLock[e] \in Tills \ {t} => expLock'[e] = expLock[e]
    BY <1>1, <2>1
  <2>5. QED
    BY <1>1, <1>2, <1>3, <2>1, <2>3, <2>4, IdleIs, TillMoves
<1>10. QED
  BY <1>3, <1>5, <1>6, <1>7, <1>8, <1>9

\* A movement of another kind, or of an expense that is booked with it or voided.
LEMMA AddKeeps ==
    ASSUME CashLocks, MovesExplained, NEW s \in Sessions, NEW k \in Kinds,
           k \notin {"DRAWER_EXPENSE", "EXPENSE", "EXPENSE_VOID"}, AddMove(s, k), UNCHANGED expense
    PROVE  UnpaidNowhere' /\ MovesExplained' /\ OnlyAdds(s, k)
<1>1. OnlyAdds(s, k)
  BY AddsOne DEF CashLocks
<1>2. {"DRAWER_EXPENSE", "EXPENSE", "EXPENSE_VOID"} \subseteq Kinds
  BY DEF Kinds, InKinds, OutKinds
<1>3. ASSUME NEW x \in Sessions, NEW kind \in {"DRAWER_EXPENSE", "EXPENSE", "EXPENSE_VOID"}
      PROVE  session'[x].moves[kind] = session[x].moves[kind]
  BY <1>1, <1>2 DEF OnlyAdds
<1>4. \A x \in Sessions : PaidFrom(x)' = PaidFrom(x) /\ VoidedFrom(x)' = VoidedFrom(x)
  BY DEF PaidFrom, VoidedFrom
<1>5. MovesExplained'
  BY <1>3, <1>4 DEF MovesExplained
<1>6. QED
  BY <1>1, <1>5 DEF CashLocks, UnpaidNowhere

\* An expense booked with its movement keeps the two in step.
LEMMA BookKeeps ==
    ASSUME CashLocks, MovesExplained, NEW s \in Sessions, NEW k \in {"DRAWER_EXPENSE", "EXPENSE"},
           AddMove(s, k), NEW e \in Expenses, expense[e].status = "none",
           expense' = [expense EXCEPT ![e] = [status |-> "booked", session |-> s]]
    PROVE  /\ UnpaidNowhere' /\ MovesExplained' /\ OnlyAdds(s, k)
           /\ expense' \in [Expenses -> Expense]
           /\ \A x \in Expenses : expense[x].status # "none" => expense'[x] = expense[x]
<1> USE CashAssumption
<1>1. /\ expense \in [Expenses -> Expense] /\ session \in [Sessions -> Drawer] /\ UnpaidNowhere
      /\ \A x \in Sessions : session[x].moves \in [Kinds -> Nat]
  BY DEF CashLocks, CashTypeOK, Drawer
<1>2. {"DRAWER_EXPENSE", "EXPENSE", "EXPENSE_VOID"} \subseteq Kinds
  BY DEF Kinds, InKinds, OutKinds
<1>3. OnlyAdds(s, k)
  BY <1>2, AddsOne DEF CashLocks
<1>4. PICK row : row = [status |-> "booked", session |-> s]
  OBVIOUS
<1>5. row \in Expense /\ row.status = "booked" /\ row.session = s
  BY <1>4 DEF Expense
<1>6. expense' = [expense EXCEPT ![e] = row]
  BY <1>4
<1>7. expense' \in [Expenses -> Expense] /\ expense'[e] = row /\ \A x \in Expenses \ {e} : expense'[x] = expense[x]
  BY <1>1, <1>5, <1>6
<1>8. expense[e].session = 0 /\ s # 0
  BY <1>1 DEF UnpaidNowhere
<1>9. PaidFrom(s)' = PaidFrom(s) \cup {e} /\ e \notin PaidFrom(s)
  BY <1>5, <1>7, <1>8 DEF PaidFrom
<1>10. \A x \in Sessions \ {s} : PaidFrom(x)' = PaidFrom(x)
  BY <1>5, <1>7, <1>8 DEF PaidFrom
<1>11. \A x \in Sessions : VoidedFrom(x)' = VoidedFrom(x)
  BY <1>5, <1>7 DEF VoidedFrom
<1>12. IsFiniteSet(PaidFrom(s))
  <2>1. PICK P \in SUBSET Expenses : P = PaidFrom(s)
    BY DEF PaidFrom
  <2>2. QED
    BY <2>1, FS_Subset
<1>13. Cardinality(PaidFrom(s) \cup {e}) = Cardinality(PaidFrom(s)) + 1 /\ Cardinality(PaidFrom(s)) \in Nat
  BY <1>9, <1>12, FS_AddElement, FS_CardinalityType
<1>14. \A x \in Sessions : x = s => Cardinality(PaidFrom(x)') = Cardinality(PaidFrom(x)) + 1
  <2>1. Cardinality(PaidFrom(s)') = Cardinality(PaidFrom(s)) + 1
    BY <1>9, <1>13
  <2>2. QED
    BY <2>1
<1>15. ASSUME NEW x \in Sessions
       PROVE  /\ session'[x].moves["DRAWER_EXPENSE"] + session'[x].moves["EXPENSE"] = Cardinality(PaidFrom(x)')
              /\ session'[x].moves["EXPENSE_VOID"] <= Cardinality(VoidedFrom(x)')
  <2>1. /\ session[x].moves["DRAWER_EXPENSE"] + session[x].moves["EXPENSE"] = Cardinality(PaidFrom(x))
        /\ session[x].moves["EXPENSE_VOID"] <= Cardinality(VoidedFrom(x))
        /\ session[x].moves["DRAWER_EXPENSE"] \in Nat /\ session[x].moves["EXPENSE"] \in Nat
    BY <1>1, <1>2 DEF MovesExplained
  <2>2. CASE x # s
    BY <1>3, <1>10, <1>11, <2>1, <2>2 DEF OnlyAdds
  <2>3. CASE x = s
    <3>1. session'[s].moves["EXPENSE_VOID"] = session[s].moves["EXPENSE_VOID"]
      BY <1>2, <1>3 DEF OnlyAdds
    <3>2. CASE k = "EXPENSE"
      <4>1. session'[s].moves["EXPENSE"] = session[s].moves["EXPENSE"] + 1
            /\ session'[s].moves["DRAWER_EXPENSE"] = session[s].moves["DRAWER_EXPENSE"]
        BY <1>2, <1>3, <3>2 DEF OnlyAdds
      <4>2. QED
        BY <1>11, <1>14, <2>1, <2>3, <3>1, <4>1
    <3>3. CASE k = "DRAWER_EXPENSE"
      <4>1. session'[s].moves["DRAWER_EXPENSE"] = session[s].moves["DRAWER_EXPENSE"] + 1
            /\ session'[s].moves["EXPENSE"] = session[s].moves["EXPENSE"]
        BY <1>2, <1>3, <3>3 DEF OnlyAdds
      <4>2. QED
        BY <1>11, <1>14, <2>1, <2>3, <3>1, <4>1
    <3>4. QED
      BY <3>2, <3>3
  <2>4. QED
    BY <2>2, <2>3
<1>16. MovesExplained'
  BY <1>15 DEF MovesExplained
<1>17. UnpaidNowhere'
  BY <1>1, <1>5, <1>7 DEF UnpaidNowhere
<1>18. QED
  BY <1>3, <1>7, <1>16, <1>17

\* A void returns cash to the expense's drawer, or to none.
LEMMA ReturnKeeps ==
    ASSUME CashLocks, MovesExplained, NEW e \in Expenses, expense[e].status = "booked",
           NEW s, s \in {0, expense[e].session},
           IF s = 0 THEN UNCHANGED session ELSE AddMove(s, "EXPENSE_VOID"),
           expense' = [expense EXCEPT ![e].status = "voided"]
    PROVE  /\ UnpaidNowhere' /\ MovesExplained'
           /\ session' \in [Sessions -> Drawer] /\ expense' \in [Expenses -> Expense]
           /\ \A x \in Sessions : session'[x].status = session[x].status
           /\ \A x \in Expenses \ {e} : expense'[x] = expense[x]
<1> USE CashAssumption
<1>1. /\ expense \in [Expenses -> Expense] /\ session \in [Sessions -> Drawer] /\ UnpaidNowhere
      /\ \A x \in Sessions : session[x].moves \in [Kinds -> Nat]
  BY DEF CashLocks, CashTypeOK, Drawer
<1>2. {"DRAWER_EXPENSE", "EXPENSE", "EXPENSE_VOID"} \subseteq Kinds
  BY DEF Kinds, InKinds, OutKinds
<1>3. /\ expense' \in [Expenses -> Expense] /\ expense'[e].status = "voided" /\ expense'[e].session = expense[e].session
      /\ \A x \in Expenses \ {e} : expense'[x] = expense[x]
  BY <1>1 DEF Expense
<1>4. \A x \in Expenses : expense'[x].session = expense[x].session
  BY <1>3
<1>5. \A x \in Sessions : PaidFrom(x)' = PaidFrom(x)
  BY <1>4 DEF PaidFrom
<1>6. \A x \in Sessions : x # expense[e].session => VoidedFrom(x)' = VoidedFrom(x)
  BY <1>3 DEF VoidedFrom
<1>7. ASSUME NEW x \in Sessions, x = expense[e].session
      PROVE  Cardinality(VoidedFrom(x)') = Cardinality(VoidedFrom(x)) + 1 /\ Cardinality(VoidedFrom(x)) \in Nat
  <2>1. PICK V \in SUBSET Expenses : V = VoidedFrom(x)
    BY DEF VoidedFrom
  <2>2. IsFiniteSet(V) /\ e \notin V
    BY <2>1, FS_Subset DEF VoidedFrom
  <2>3. VoidedFrom(x)' = V \cup {e}
    BY <1>3, <1>7, <2>1 DEF VoidedFrom
  <2>4. QED
    BY <2>1, <2>2, <2>3, FS_AddElement, FS_CardinalityType
<1>8. s \in Sessions \cup {0}
  <2>1. expense[e] \in Expense
    BY <1>1
  <2>2. QED
    BY <2>1 DEF Expense
<1>9. s # 0 => s \in Sessions /\ OnlyAdds(s, "EXPENSE_VOID")
  BY <1>2, <1>8, AddsOne DEF CashLocks
<1>10. session' \in [Sessions -> Drawer] /\ \A x \in Sessions : session'[x].status = session[x].status
  BY <1>1, <1>9 DEF OnlyAdds
<1>11. ASSUME NEW x \in Sessions
       PROVE  /\ session'[x].moves["DRAWER_EXPENSE"] + session'[x].moves["EXPENSE"] = Cardinality(PaidFrom(x)')
              /\ session'[x].moves["EXPENSE_VOID"] <= Cardinality(VoidedFrom(x)')
  <2>1. /\ session[x].moves["DRAWER_EXPENSE"] + session[x].moves["EXPENSE"] = Cardinality(PaidFrom(x))
        /\ session[x].moves["EXPENSE_VOID"] <= Cardinality(VoidedFrom(x))
        /\ session[x].moves["EXPENSE_VOID"] \in Nat
    BY <1>1, <1>2 DEF MovesExplained
  <2>2. session'[x].moves["DRAWER_EXPENSE"] = session[x].moves["DRAWER_EXPENSE"]
        /\ session'[x].moves["EXPENSE"] = session[x].moves["EXPENSE"]
    BY <1>2, <1>9 DEF OnlyAdds
  <2>3. session'[x].moves["EXPENSE_VOID"] = session[x].moves["EXPENSE_VOID"]
        \/ (session'[x].moves["EXPENSE_VOID"] = session[x].moves["EXPENSE_VOID"] + 1 /\ x = expense[e].session)
    <3>1. CASE s = x
      BY <1>9, <3>1 DEF OnlyAdds
    <3>2. CASE s # x
      BY <1>9, <3>2 DEF OnlyAdds
    <3>3. QED
      BY <3>1, <3>2
  <2>4. CASE x # expense[e].session
    BY <1>5, <1>6, <2>1, <2>2, <2>3, <2>4
  <2>5. CASE x = expense[e].session
    BY <1>5, <1>7, <2>1, <2>2, <2>3, <2>5
  <2>6. QED
    BY <2>4, <2>5
<1>12. MovesExplained'
  BY <1>11 DEF MovesExplained
<1>13. UnpaidNowhere'
  BY <1>1, <1>3 DEF UnpaidNowhere
<1>14. QED
  BY <1>3, <1>10, <1>12, <1>13

\* A movement whose drawer was read without a lock.
LEMMA WriteKeeps ==
    ASSUME CashLocks, MovesExplained, NEW t \in Tills, WriteMove(t)
    PROVE  CashLocks' /\ MovesExplained'
<1> USE CashAssumption
<1>1. /\ session \in [Sessions -> Drawer] /\ expense \in [Expenses -> Expense] /\ offDrawer \in Int
      /\ till \in [Tills -> CashRequest] /\ UnpaidNowhere /\ TillsHold
      /\ sessLock \in [Sessions -> Tills \cup {"free"}] /\ expLock \in [Expenses -> Tills \cup {"free"}]
  BY DEF CashLocks, CashTypeOK
<1>2. PICK k : k = till[t].op
  OBVIOUS
<1>3. PICK s : s = till[t].session
  OBVIOUS
<1>4. k \in Unlocked /\ k \in Kinds /\ k \notin {"EXPENSE", "EXPENSE_VOID"} /\ s \in Sessions \cup {0}
  BY <1>1, <1>2, <1>3 DEF WriteMove, CashRequest, Unlocked, Kinds, InKinds, OutKinds
<1>5. till' = [till EXCEPT ![t] = Idle] /\ UNCHANGED <<sessLock, expLock>>
  BY DEF WriteMove, EndRequest
<1>6. TillHolds(t)'
  <2>1. till'[t] = Idle
    BY <1>1, <1>5
  <2>2. QED
    BY <2>1, IdleIs, OpsAre DEF TillHolds
<1>7. CASE s = 0
  <2>1. session' = session /\ expense' = expense /\ offDrawer' \in Int
    BY <1>1, <1>2, <1>3, <1>7 DEF WriteMove, Signed
  <2>2. UnpaidNowhere' /\ MovesExplained'
    BY <1>1, <2>1, BooksKept DEF BooksStay, MovesStay
  <2>3. QED
    BY <1>1, <1>5, <1>6, <2>1, <2>2, IdleIs, TillMoves
<1>8. CASE s # 0 /\ k = "DRAWER_EXPENSE"
  <2>1. s \in Sessions /\ AddMove(s, k) /\ offDrawer' = offDrawer
    BY <1>2, <1>3, <1>4, <1>8 DEF WriteMove
  <2>2. PICK e \in Expenses : /\ expense[e].status = "none"
                              /\ expense' = [expense EXCEPT ![e] = [status |-> "booked", session |-> s]]
    BY <1>2, <1>3, <1>8 DEF WriteMove, BookDrawerExpense
  <2>3. /\ UnpaidNowhere' /\ MovesExplained' /\ OnlyAdds(s, k) /\ expense' \in [Expenses -> Expense]
        /\ \A x \in Expenses : expense[x].status # "none" => expense'[x] = expense[x]
    BY <1>8, <2>1, <2>2, BookKeeps
  <2>4. session' \in [Sessions -> Drawer] /\ \A x \in Sessions : session'[x].status = session[x].status
    BY <2>3 DEF OnlyAdds
  <2>5. QED
    BY <1>1, <1>5, <1>6, <2>1, <2>2, <2>3, <2>4, IdleIs, TillMoves
<1>9. CASE s # 0 /\ k # "DRAWER_EXPENSE"
  <2>1. s \in Sessions /\ AddMove(s, k) /\ offDrawer' = offDrawer /\ expense' = expense
    BY <1>2, <1>3, <1>4, <1>9 DEF WriteMove, BookDrawerExpense
  <2>2. UnpaidNowhere' /\ MovesExplained' /\ OnlyAdds(s, k)
    BY <1>4, <1>9, <2>1, AddKeeps
  <2>3. session' \in [Sessions -> Drawer] /\ \A x \in Sessions : session'[x].status = session[x].status
    BY <2>2 DEF OnlyAdds
  <2>4. QED
    BY <1>1, <1>5, <1>6, <2>1, <2>2, <2>3, IdleIs, TillMoves
<1>10. QED
  BY <1>7, <1>8, <1>9

\* A payout from the drawer that the request has locked.
LEMMA PayKeeps ==
    ASSUME CashLocks, MovesExplained, NEW t \in Tills, PayOut(t)
    PROVE  CashLocks' /\ MovesExplained'
<1> USE CashAssumption
<1>1. /\ session \in [Sessions -> Drawer] /\ expense \in [Expenses -> Expense] /\ offDrawer \in Int
      /\ till \in [Tills -> CashRequest] /\ UnpaidNowhere /\ TillsHold
      /\ sessLock \in [Sessions -> Tills \cup {"free"}] /\ expLock \in [Expenses -> Tills \cup {"free"}]
  BY DEF CashLocks, CashTypeOK
<1>2. PICK k : k = till[t].op
  OBVIOUS
<1>3. PICK s : s = till[t].session
  OBVIOUS
<1>4. k \in Payouts /\ s \in Sessions /\ AddMove(s, k)
  BY <1>1, <1>2, <1>3 DEF PayOut, TillsHold, TillHolds
<1>5. k \in Kinds /\ k \notin {"DRAWER_EXPENSE", "EXPENSE_VOID"}
  BY <1>4 DEF Payouts, Kinds, InKinds, OutKinds
<1>6. /\ till' = [till EXCEPT ![t] = Idle] /\ UNCHANGED <<offDrawer, expLock>>
      /\ sessLock' = [x \in Sessions |-> IF sessLock[x] = t THEN "free" ELSE sessLock[x]]
  BY DEF PayOut, EndRequest, FreeSessions
<1>7. TillHolds(t)'
  <2>1. till'[t] = Idle
    BY <1>1, <1>6
  <2>2. QED
    BY <2>1, IdleIs, OpsAre DEF TillHolds
<1>8. /\ sessLock' \in [Sessions -> Tills \cup {"free"}]
      /\ \A x \in Sessions : sessLock[x] \in Tills \ {t} => sessLock'[x] = sessLock[x]
  BY <1>1, <1>6
<1>9. CASE k = "EXPENSE"
  <2>1. PICK e \in Expenses : /\ expense[e].status = "none"
                              /\ expense' = [expense EXCEPT ![e] = [status |-> "booked", session |-> s]]
    BY <1>2, <1>3, <1>9 DEF PayOut
  <2>2. /\ UnpaidNowhere' /\ MovesExplained' /\ OnlyAdds(s, k) /\ expense' \in [Expenses -> Expense]
        /\ \A x \in Expenses : expense[x].status # "none" => expense'[x] = expense[x]
    BY <1>4, <1>9, <2>1, BookKeeps
  <2>3. session' \in [Sessions -> Drawer] /\ \A x \in Sessions : session'[x].status = session[x].status
    BY <1>4, <2>2 DEF OnlyAdds
  <2>4. QED
    BY <1>1, <1>6, <1>7, <1>8, <2>2, <2>3, IdleIs, TillMoves
<1>10. CASE k # "EXPENSE"
  <2>1. expense' = expense
    BY <1>2, <1>10 DEF PayOut
  <2>2. UnpaidNowhere' /\ MovesExplained' /\ OnlyAdds(s, k)
    BY <1>4, <1>5, <1>10, <2>1, AddKeeps
  <2>3. session' \in [Sessions -> Drawer] /\ \A x \in Sessions : session'[x].status = session[x].status
    BY <1>4, <2>2 DEF OnlyAdds
  <2>4. QED
    BY <1>1, <1>6, <1>7, <1>8, <2>1, <2>2, <2>3, IdleIs, TillMoves
<1>11. QED
  BY <1>9, <1>10

\* Cancelling an expense.
LEMMA VoidKeeps ==
    ASSUME CashLocks, MovesExplained, NEW t \in Tills, VoidExpense(t)
    PROVE  CashLocks' /\ MovesExplained'
<1> USE CashAssumption
<1>1. /\ session \in [Sessions -> Drawer] /\ expense \in [Expenses -> Expense] /\ offDrawer \in Int
      /\ till \in [Tills -> CashRequest] /\ UnpaidNowhere /\ TillsHold
      /\ sessLock \in [Sessions -> Tills \cup {"free"}] /\ expLock \in [Expenses -> Tills \cup {"free"}]
  BY DEF CashLocks, CashTypeOK
<1>2. PICK e : e = till[t].expense
  OBVIOUS
<1>3. PICK s : s = till[t].session
  OBVIOUS
<1>4. e \in Expenses /\ expLock[e] = t /\ expense[e].status = "booked" /\ s \in {0, expense[e].session}
  BY <1>1, <1>2, <1>3 DEF VoidExpense, TillsHold, TillHolds
<1>5. /\ till' = [till EXCEPT ![t] = Idle] /\ UNCHANGED <<offDrawer, sessLock>>
      /\ expLock' = [x \in Expenses |-> IF expLock[x] = t THEN "free" ELSE expLock[x]]
      /\ expense' = [expense EXCEPT ![e].status = "voided"]
      /\ IF s = 0 THEN UNCHANGED session ELSE AddMove(s, "EXPENSE_VOID")
  BY <1>2, <1>3 DEF VoidExpense, EndRequest, FreeExpenses
<1>6. TillHolds(t)'
  <2>1. till'[t] = Idle
    BY <1>1, <1>5
  <2>2. QED
    BY <2>1, IdleIs, OpsAre DEF TillHolds
<1>7. /\ expLock' \in [Expenses -> Tills \cup {"free"}]
      /\ \A x \in Expenses : expLock[x] \in Tills \ {t} => expLock'[x] = expLock[x] /\ x # e
  BY <1>1, <1>4, <1>5
<1>8. /\ UnpaidNowhere' /\ MovesExplained'
      /\ session' \in [Sessions -> Drawer] /\ expense' \in [Expenses -> Expense]
      /\ \A x \in Sessions : session'[x].status = session[x].status
      /\ \A x \in Expenses \ {e} : expense'[x] = expense[x]
  BY <1>4, <1>5, ReturnKeeps
<1>9. QED
  BY <1>1, <1>5, <1>6, <1>7, <1>8, IdleIs, TillMoves

\* An expense paid from the bank has no drawer.
LEMMA BankKeeps ==
    ASSUME CashLocks, MovesExplained, NEW e \in Expenses, PayFromBank(e)
    PROVE  CashLocks' /\ MovesExplained'
<1> USE CashAssumption
<1>1. expense \in [Expenses -> Expense] /\ UnpaidNowhere /\ TillsHold /\ expense[e].status = "none"
  BY DEF CashLocks, CashTypeOK, PayFromBank
<1>2. expense' = [expense EXCEPT ![e].status = "booked"] /\ UNCHANGED <<session, offDrawer, till, sessLock, expLock>>
  BY DEF PayFromBank
<1>3. /\ expense' \in [Expenses -> Expense] /\ expense'[e].status = "booked" /\ expense'[e].session = expense[e].session
      /\ \A x \in Expenses \ {e} : expense'[x] = expense[x]
  BY <1>1, <1>2 DEF Expense
<1>4. CashTypeOK' /\ UnpaidNowhere'
  BY <1>1, <1>2, <1>3 DEF CashLocks, CashTypeOK, UnpaidNowhere
<1>5. TillsHold'
  BY <1>1, <1>2, <1>3 DEF TillsHold, TillHolds
<1>6. \A s \in Sessions : PaidFrom(s)' = PaidFrom(s)
  BY <1>3 DEF PaidFrom
<1>7. \A s \in Sessions : VoidedFrom(s)' = VoidedFrom(s)
  BY <1>1, <1>3 DEF VoidedFrom
<1>8. MovesExplained'
  BY <1>2, <1>6, <1>7 DEF MovesExplained
<1>9. QED
  BY <1>4, <1>5, <1>8 DEF CashLocks

\* Opening a drawer that was not there, and closing one that nobody has locked.
LEMMA DrawerKeeps ==
    ASSUME CashLocks, MovesExplained, NEW t \in Tills, NEW s \in Sessions, NEW to \in {"OPEN", "CLOSED"},
           session' = [session EXCEPT ![s].status = to],
           \/ session[s].status = "none" /\ to = "OPEN"
           \/ sessLock[s] = "free",
           EndRequest(t), UNCHANGED <<expense, offDrawer, sessLock, expLock>>
    PROVE  CashLocks' /\ MovesExplained'
<1> USE CashAssumption
<1>1. /\ session \in [Sessions -> Drawer] /\ expense \in [Expenses -> Expense] /\ offDrawer \in Int
      /\ till \in [Tills -> CashRequest] /\ UnpaidNowhere
      /\ sessLock \in [Sessions -> Tills \cup {"free"}] /\ expLock \in [Expenses -> Tills \cup {"free"}]
  BY DEF CashLocks, CashTypeOK
<1>2. /\ session' \in [Sessions -> Drawer] /\ session'[s].status = to /\ session'[s].moves = session[s].moves
      /\ \A x \in Sessions \ {s} : session'[x] = session[x]
  BY <1>1 DEF Drawer
<1>3. UnpaidNowhere' /\ MovesExplained'
  <2>1. BooksStay
    BY <1>2 DEF BooksStay, MovesStay
  <2>2. QED
    BY <1>1, <2>1, BooksKept
<1>4. till' = [till EXCEPT ![t] = Idle]
  BY DEF EndRequest
<1>5. TillHolds(t)'
  <2>1. till'[t] = Idle
    BY <1>1, <1>4
  <2>2. QED
    BY <2>1, IdleIs, OpsAre DEF TillHolds
<1>6. \A x \in Sessions : sessLock[x] \in Tills \ {t} /\ session[x].status = "OPEN" => session'[x].status = "OPEN"
  BY <1>1, <1>2
<1>7. QED
  BY <1>1, <1>2, <1>3, <1>4, <1>5, <1>6, IdleIs, TillMoves

\* The reports' sums over the drawers.
LEMMA ExpectedTotal ==
    ASSUME IsFiniteSet(Sessions)
    PROVE  DrawerCash = Total(Sessions, [s \in Sessions |-> ExpectedCash(s)])
<1>1. PICK h : h = [s \in Sessions |-> ExpectedCash(s)]
  OBVIOUS
<1> DEFINE Sums(g) == g = [T \in SUBSET Sessions |-> IF T = {} THEN 0 ELSE ExpectedCash(Chosen(T)) + g[T \ {Chosen(T)}]]
<1>2. DrawerCash = (CHOOSE g : Sums(g))[Sessions]
  BY DEF DrawerCash, MapThenSumSet, MapThenFoldSet, Chosen
<1>3. ASSUME NEW g PROVE Sums(g) <=> SumsUp(Sessions, h, g)
  <2>1. \A T \in SUBSET Sessions : T # {} => h[Chosen(T)] = ExpectedCash(Chosen(T))
    BY <1>1 DEF Chosen
  <2>2. [T \in SUBSET Sessions |-> IF T = {} THEN 0 ELSE ExpectedCash(Chosen(T)) + g[T \ {Chosen(T)}]]
          = [T \in SUBSET Sessions |-> IF T = {} THEN 0 ELSE h[Chosen(T)] + g[T \ {Chosen(T)}]]
    BY <2>1
  <2>3. QED
    BY <2>2 DEF SumsUp
<1> HIDE DEF Sums
<1>4. PICK f : f = CHOOSE g : Sums(g)
  OBVIOUS
<1>5. SumsUp(Sessions, h, f)
  BY <1>3, <1>4, SumExists
<1>6. Total(Sessions, h) = f[Sessions]
  BY <1>5, TotalIs
<1>7. QED
  BY <1>1, <1>2, <1>4, <1>6

\* What the day book counts of the drawers is a total over them.
LEMMA DayBookTotal ==
    ASSUME IsFiniteSet(Sessions)
    PROVE  MapThenSumSet(DayBookMoves, Sessions) = Total(Sessions, [s \in Sessions |-> DayBookMoves(s)])
<1>1. PICK h : h = [s \in Sessions |-> DayBookMoves(s)]
  OBVIOUS
<1> DEFINE Sums(g) == g = [T \in SUBSET Sessions |-> IF T = {} THEN 0 ELSE DayBookMoves(Chosen(T)) + g[T \ {Chosen(T)}]]
<1>2. MapThenSumSet(DayBookMoves, Sessions) = (CHOOSE g : Sums(g))[Sessions]
  BY DEF MapThenSumSet, MapThenFoldSet, Chosen
<1>3. ASSUME NEW g PROVE Sums(g) <=> SumsUp(Sessions, h, g)
  <2>1. \A T \in SUBSET Sessions : T # {} => h[Chosen(T)] = DayBookMoves(Chosen(T))
    BY <1>1 DEF Chosen
  <2>2. [T \in SUBSET Sessions |-> IF T = {} THEN 0 ELSE DayBookMoves(Chosen(T)) + g[T \ {Chosen(T)}]]
          = [T \in SUBSET Sessions |-> IF T = {} THEN 0 ELSE h[Chosen(T)] + g[T \ {Chosen(T)}]]
    BY <2>1
  <2>3. QED
    BY <2>2 DEF SumsUp
<1> HIDE DEF Sums
<1>4. PICK f : f = CHOOSE g : Sums(g)
  OBVIOUS
<1>5. SumsUp(Sessions, h, f)
  BY <1>3, <1>4, SumExists
<1>6. Total(Sessions, h) = f[Sessions]
  BY <1>5, TotalIs
<1>7. QED
  BY <1>1, <1>2, <1>4, <1>6

\* If every drawer's movements are explained, so is the day book.
LEMMA BooksExplained ==
    ASSUME CashTypeOK, UnpaidNowhere, MovesExplained
    PROVE  CashSound
<1> USE CashAssumption
<1>1. /\ session \in [Sessions -> Drawer] /\ expense \in [Expenses -> Expense] /\ offDrawer \in Int
      /\ \A s \in Sessions : session[s].moves \in [Kinds -> Nat]
  BY DEF CashTypeOK, Drawer
<1>2. PICK a : a = [s \in Sessions |-> ExpectedCash(s)]
  OBVIOUS
<1>3. PICK c : c = [s \in Sessions |-> DayBookMoves(s)]
  OBVIOUS
<1>4. PICK n : n = [s \in Sessions |-> Cardinality(PaidFrom(s))]
  OBVIOUS
<1>5. PICK where : where = [e \in Expenses |-> expense[e].session]
  OBVIOUS
<1>6. ASSUME NEW s \in Sessions PROVE a[s] \in Int /\ n[s] \in Int /\ c[s] = a[s] + n[s]
  <2>1. PICK m \in [Kinds -> Nat] : m = session[s].moves
    BY <1>1
  <2>2. {"SALE", "PAY_IN", "GIFT_CARD_SALE", "EXPENSE_VOID", "REFUND", "PAY_OUT", "SALARY_ADVANCE",
         "DRAWER_EXPENSE", "EXPENSE"} \subseteq Kinds
    BY DEF Kinds, InKinds, OutKinds
  <2>3. m["DRAWER_EXPENSE"] + m["EXPENSE"] = n[s]
    BY <1>4, <2>1 DEF MovesExplained
  <2>4. a[s] = (m["SALE"] + m["PAY_IN"] + m["GIFT_CARD_SALE"] + m["EXPENSE_VOID"])
               - (m["REFUND"] + m["PAY_OUT"] + m["SALARY_ADVANCE"] + m["DRAWER_EXPENSE"] + m["EXPENSE"])
    BY <1>2, <2>1 DEF ExpectedCash
  <2>5. c[s] = (m["SALE"] + m["GIFT_CARD_SALE"] + m["PAY_IN"] + m["EXPENSE_VOID"])
               - (m["REFUND"] + m["PAY_OUT"] + m["SALARY_ADVANCE"])
    BY <1>3, <2>1 DEF DayBookMoves
  <2>6. /\ m["SALE"] \in Nat /\ m["PAY_IN"] \in Nat /\ m["GIFT_CARD_SALE"] \in Nat /\ m["EXPENSE_VOID"] \in Nat
        /\ m["REFUND"] \in Nat /\ m["PAY_OUT"] \in Nat /\ m["SALARY_ADVANCE"] \in Nat
        /\ m["DRAWER_EXPENSE"] \in Nat /\ m["EXPENSE"] \in Nat
    BY <2>2
  <2>7. QED
    BY <2>3, <2>4, <2>5, <2>6
<1>7. Total(Sessions, c) = Total(Sessions, a) + Total(Sessions, n)
  BY <1>6, TotalAdd
<1>8. CountedBy(n, Expenses, where, Sessions)
  <2>1. \A s \in Sessions : PaidFrom(s) = PartOf(Expenses, where, s)
    BY <1>5 DEF PaidFrom, PartOf
  <2>2. QED
    BY <1>4, <2>1 DEF CountedBy
<1>9. Cardinality(PartsOf(Expenses, where, Sessions)) = Total(Sessions, n)
  <2>1. IsFiniteSet(Expenses) /\ IsFiniteSet(Sessions)
    OBVIOUS
  <2>2. QED
    BY <1>8, <2>1, CountParts
<1>10. PICK B \in SUBSET Expenses : B = DrawerExpenses("booked")
  BY DEF DrawerExpenses
<1>11. PICK V \in SUBSET Expenses : V = DrawerExpenses("voided")
  BY DEF DrawerExpenses
<1>12. B \cup V = PartsOf(Expenses, where, Sessions) /\ B \cap V = {}
  <2>1. \A e \in Expenses : where[e] = expense[e].session /\ where[e] \in Sessions \cup {0} /\ 0 \notin Sessions
                            /\ expense[e].status \in {"none", "booked", "voided"}
    BY <1>1, <1>5 DEF Expense
  <2>2. \A e \in Expenses : e \in B <=> expense[e].status = "booked" /\ expense[e].session # 0
    BY <1>10 DEF DrawerExpenses
  <2>3. \A e \in Expenses : e \in V <=> expense[e].status = "voided" /\ expense[e].session # 0
    BY <1>11 DEF DrawerExpenses
  <2>4. \A e \in Expenses : e \in B \cup V <=> where[e] \in Sessions
    BY <2>1, <2>2, <2>3 DEF UnpaidNowhere
  <2>5. B \cap V = {}
    BY <2>2, <2>3
  <2>6. B \cup V = PartsOf(Expenses, where, Sessions)
    BY <2>4 DEF PartsOf
  <2>7. QED
    BY <2>5, <2>6
<1>13. IsFiniteSet(B) /\ IsFiniteSet(V)
  BY FS_Subset
<1>14. /\ Cardinality(B \cup V) = Cardinality(B) + Cardinality(V) - Cardinality(B \cap V)
       /\ Cardinality(B \cap V) = 0 /\ Cardinality(B) \in Nat /\ Cardinality(V) \in Nat
  BY <1>12, <1>13, FS_Union, FS_EmptySet, FS_CardinalityType
<1>15. Total(Sessions, n) = Cardinality(B) + Cardinality(V)
  <2>1. Cardinality(B \cup V) = Total(Sessions, n)
    BY <1>9, <1>12, Zenon
  <2>2. Total(Sessions, n) \in Int
    BY <1>6, TotalType
  <2>3. QED
    BY <1>14, <2>1, <2>2
<1>16. DrawerCash = Total(Sessions, a) /\ MapThenSumSet(DayBookMoves, Sessions) = Total(Sessions, c)
  BY <1>2, <1>3, ExpectedTotal, DayBookTotal
<1>17. Total(Sessions, a) \in Int
  BY <1>6, TotalType
<1>18. DayBookCash = (offDrawer + Total(Sessions, c)) - Cardinality(B)
  BY <1>10, <1>16 DEF DayBookCash
<1>19. DayBookCash = DrawerCash + offDrawer + Cardinality(V)
  BY <1>1, <1>7, <1>14, <1>15, <1>16, <1>17, <1>18
<1>20. ExpensesOnce
  <2>1. \A s \in Sessions : VoidedFrom(s) = {e \in PaidFrom(s) : expense[e].status = "voided"}
    BY DEF PaidFrom, VoidedFrom
  <2>2. QED
    BY <2>1 DEF MovesExplained, ExpensesOnce, PaidFrom
<1>21. DayBookAgrees
  <2>1. V = {} => Cardinality(V) = 0
    BY FS_EmptySet
  <2>2. DrawerCash \in Int
    BY <1>16, <1>17
  <2>3. V = {} => DayBookCash = DrawerCash + offDrawer
    BY <1>1, <1>19, <2>1, <2>2
  <2>4. QED
    BY <1>11, <2>3 DEF DayBookAgrees
<1>22. QED
  BY <1>20, <1>21 DEF CashSound

\* Nothing is open or booked at first.
LEMMA CashStarts == CashInit => CashInv
<1> SUFFICES ASSUME CashInit PROVE CashInv
  OBVIOUS
<1> USE CashAssumption
<1>1. /\ session = [s \in Sessions |-> [status |-> "none", moves |-> NoMoves]]
      /\ expense = [e \in Expenses |-> [status |-> "none", session |-> 0]]
      /\ offDrawer = 0 /\ till = [t \in Tills |-> Idle]
      /\ sessLock = [s \in Sessions |-> "free"] /\ expLock = [e \in Expenses |-> "free"]
  BY DEF CashInit
<1>2. NoMoves \in [Kinds -> Nat] /\ \A k \in Kinds : NoMoves[k] = 0
  BY DEF NoMoves
<1>3. CashTypeOK
  BY <1>1, <1>2, IdleIs DEF CashTypeOK, Drawer, Expense
<1>4. TillsHold
  BY <1>1, IdleIs, OpsAre DEF TillsHold, TillHolds
<1>5. UnpaidNowhere
  BY <1>1 DEF UnpaidNowhere
<1>6. MovesExplained
  <2>1. ASSUME NEW s \in Sessions
        PROVE  /\ session[s].moves["DRAWER_EXPENSE"] + session[s].moves["EXPENSE"] = Cardinality(PaidFrom(s))
               /\ session[s].moves["EXPENSE_VOID"] <= Cardinality(VoidedFrom(s))
    <3>1. PaidFrom(s) = {} /\ VoidedFrom(s) = {}
      BY <1>1 DEF PaidFrom, VoidedFrom
    <3>2. Cardinality(PaidFrom(s)) = 0 /\ Cardinality(VoidedFrom(s)) = 0
      BY <3>1, FS_EmptySet
    <3>3. \A k \in {"DRAWER_EXPENSE", "EXPENSE", "EXPENSE_VOID"} : session[s].moves[k] = 0
      BY <1>1, <1>2 DEF Kinds, InKinds, OutKinds
    <3>4. QED
      BY <3>2, <3>3
  <2>2. QED
    BY <2>1 DEF MovesExplained
<1>7. QED
  BY <1>3, <1>4, <1>5, <1>6 DEF CashInv

\* Every request keeps the cash book.
LEMMA CashStep == CashInv /\ [CashNext]_cashVars => CashInv'
<1> SUFFICES ASSUME CashInv, [CashNext]_cashVars PROVE CashInv'
  OBVIOUS
<1>1. CashLocks /\ MovesExplained /\ CashTypeOK
  BY DEF CashInv, CashLocks
<1>2. ASSUME NEW t \in Tills, OpenDrawer(t) PROVE CashLocks' /\ MovesExplained'
  <2>1. CASE Begin(t, "open", 0) /\ UNCHANGED <<session, expense, offDrawer, sessLock, expLock>>
    <3>1. \E op \in {"open", "close"}, s \in Sessions \cup {0} :
             (op = "close" => s \in Sessions)
             /\ Begin(t, op, s) /\ UNCHANGED <<session, expense, offDrawer, sessLock, expLock>>
      BY <2>1
    <3>2. QED
      BY <1>1, <3>1, ReadKeeps
  <2>2. CASE EndRequest(t) /\ UNCHANGED <<expense, offDrawer, sessLock, expLock>>
             /\ \E s \in Sessions : session[s].status = "none" /\ session' = [session EXCEPT ![s].status = "OPEN"]
    BY <1>1, <2>2, DrawerKeeps
  <2>3. QED
    BY <1>2, <2>1, <2>2 DEF OpenDrawer
<1>3. ASSUME NEW t \in Tills, CloseDrawer(t) PROVE CashLocks' /\ MovesExplained'
  <2>1. CASE \E s \in OpenSessions : Begin(t, "close", s) /\ UNCHANGED <<session, expense, offDrawer, sessLock, expLock>>
    <3>1. \E op \in {"open", "close"}, s \in Sessions \cup {0} :
             (op = "close" => s \in Sessions)
             /\ Begin(t, op, s) /\ UNCHANGED <<session, expense, offDrawer, sessLock, expLock>>
      BY <2>1 DEF OpenSessions
    <3>2. QED
      BY <1>1, <3>1, ReadKeeps
  <2>2. CASE /\ till[t].op = "close" /\ sessLock[till[t].session] = "free" /\ EndRequest(t)
             /\ session' = [session EXCEPT ![till[t].session].status = "CLOSED"]
             /\ UNCHANGED <<expense, offDrawer, sessLock, expLock>>
    <3>1. PICK s : s = till[t].session
      OBVIOUS
    <3>2. s \in Sessions
      BY <1>1, <2>2, <3>1 DEF CashLocks, TillsHold, TillHolds
    <3>3. session' = [session EXCEPT ![s].status = "CLOSED"] /\ sessLock[s] = "free"
      BY <2>2, <3>1
    <3>4. QED
      BY <1>1, <2>2, <3>2, <3>3, DrawerKeeps
  <2>3. QED
    BY <1>3, <2>1, <2>2 DEF CloseDrawer
<1>4. ASSUME NEW t \in Tills,
             \/ \E k \in Unlocked : ReadDrawer(t, k)
             \/ \E k \in Payouts : LockDrawer(t, k)
             \/ \E e \in Expenses : LockExpense(t, e)
             \/ CashFail(t)
      PROVE  CashLocks' /\ MovesExplained'
  BY <1>1, <1>4, ReadKeeps
<1>5. ASSUME NEW t \in Tills, WriteMove(t) \/ PayOut(t) \/ VoidExpense(t)
      PROVE  CashLocks' /\ MovesExplained'
  BY <1>1, <1>5, WriteKeeps, PayKeeps, VoidKeeps
<1>6. ASSUME NEW e \in Expenses, PayFromBank(e) PROVE CashLocks' /\ MovesExplained'
  BY <1>1, <1>6, BankKeeps
<1>7. ASSUME UNCHANGED cashVars PROVE CashLocks' /\ MovesExplained'
  <2>1. UNCHANGED <<session, expense, offDrawer, till, sessLock, expLock>>
    BY <1>7 DEF cashVars
  <2>2. CashLocks'
    BY <1>1, <2>1 DEF CashLocks, CashTypeOK, TillsHold, TillHolds, UnpaidNowhere
  <2>3. BooksStay
    BY <2>1 DEF BooksStay, MovesStay
  <2>4. MovesExplained'
    BY <1>1, <2>3, BooksKept DEF CashLocks
  <2>5. QED
    BY <2>2, <2>4
<1>8. CashLocks' /\ MovesExplained'
  BY <1>2, <1>3, <1>4, <1>5, <1>6, <1>7 DEF CashNext
<1>9. QED
  BY <1>8 DEF CashInv, CashLocks

\* Whatever requests overlap, a drawer pays each expense once and gets the cash of a
\* voided one back at most once, and while none is voided the day book explains the
\* drawers' cash (CashSound).
THEOREM CashCorrect == CashSpec => [](CashTypeOK /\ CashSound)
<1>1. CashInv => CashTypeOK /\ CashSound
  BY BooksExplained DEF CashInv
<1>2. QED
  BY <1>1, CashStarts, CashStep, PTL DEF CashSpec

\* A payout that locks its drawer is never added to a closed one: while it holds the
\* lock the drawer is open, and it ends before anybody closes it.
THEOREM PayoutsPrecedeClosing == CashSpec => PayoutsBeforeClose
<1>1. CashInv /\ [CashNext]_cashVars =>
        [\A s \in Sessions, k \in Payouts :
            session[s].status = "CLOSED" => session'[s].moves[k] = session[s].moves[k]]_cashVars
  <2> SUFFICES ASSUME CashInv, CashNext, NEW s \in Sessions, NEW k \in Payouts, session[s].status = "CLOSED"
               PROVE  session'[s].moves[k] = session[s].moves[k]
    OBVIOUS
  <2>1. CashTypeOK /\ TillsHold /\ session \in [Sessions -> Drawer]
    BY DEF CashInv, CashTypeOK
  <2>2. k \in Kinds /\ k \notin Unlocked /\ k # "EXPENSE_VOID"
    BY OpsAre DEF Payouts
  <2>3. ASSUME NEW x \in Sessions, NEW kind \in Kinds, AddMove(x, kind), x # s \/ kind # k
        PROVE  session'[s].moves[k] = session[s].moves[k]
    <3>1. OnlyAdds(x, kind)
      BY <2>1, <2>3, AddsOne
    <3>2. QED
      BY <2>2, <2>3, <3>1 DEF OnlyAdds
  <2>4. ASSUME NEW x \in Sessions, NEW to, session' = [session EXCEPT ![x].status = to]
        PROVE  session'[s].moves[k] = session[s].moves[k]
    BY <2>1, <2>4 DEF Drawer
  <2>5. ASSUME NEW t \in Tills, PayOut(t) PROVE session'[s].moves[k] = session[s].moves[k]
    <3>1. PICK x : x = till[t].session
      OBVIOUS
    <3>2. PICK kind \in Payouts : kind = till[t].op
      BY <2>5 DEF PayOut
    <3>3. x \in Sessions /\ session[x].status = "OPEN" /\ AddMove(x, kind)
      BY <2>1, <2>5, <3>1, <3>2 DEF PayOut, TillsHold, TillHolds
    <3>4. x # s
      BY <3>3
    <3>5. QED
      BY <2>3, <3>3, <3>4, OpsAre
  <2>6. ASSUME NEW t \in Tills, WriteMove(t) PROVE session'[s].moves[k] = session[s].moves[k]
    <3>1. PICK x : x = till[t].session
      OBVIOUS
    <3>2. PICK kind \in Unlocked : kind = till[t].op
      BY <2>6 DEF WriteMove
    <3>3. x \in Sessions \cup {0}
      BY <2>1, <3>1 DEF CashTypeOK, CashRequest
    <3>4. IF x = 0 THEN UNCHANGED session ELSE AddMove(x, kind)
      BY <2>6, <3>1, <3>2 DEF WriteMove
    <3>5. QED
      BY <2>2, <2>3, <3>3, <3>4, OpsAre
  <2>7. ASSUME NEW t \in Tills, VoidExpense(t) PROVE session'[s].moves[k] = session[s].moves[k]
    <3>1. PICK x : x = till[t].session
      OBVIOUS
    <3>2. x \in Sessions \cup {0}
      BY <2>1, <3>1 DEF CashTypeOK, CashRequest
    <3>3. IF x = 0 THEN UNCHANGED session ELSE AddMove(x, "EXPENSE_VOID")
      BY <2>7, <3>1 DEF VoidExpense
    <3>4. "EXPENSE_VOID" \in Kinds
      BY DEF Kinds, InKinds
    <3>5. QED
      BY <2>2, <2>3, <3>2, <3>3, <3>4
  <2>8. ASSUME NEW t \in Tills, OpenDrawer(t) PROVE session'[s].moves[k] = session[s].moves[k]
    BY <2>4, <2>8 DEF OpenDrawer
  <2>9. ASSUME NEW t \in Tills, CloseDrawer(t) PROVE session'[s].moves[k] = session[s].moves[k]
    <3>1. CASE UNCHANGED session
      BY <3>1
    <3>2. CASE till[t].op = "close" /\ session' = [session EXCEPT ![till[t].session].status = "CLOSED"]
      <4>1. PICK x : x = till[t].session
        OBVIOUS
      <4>2. x \in Sessions /\ session' = [session EXCEPT ![x].status = "CLOSED"]
        BY <2>1, <3>2, <4>1 DEF TillsHold, TillHolds
      <4>3. QED
        BY <2>4, <4>2
    <3>3. QED
      BY <2>9, <3>1, <3>2 DEF CloseDrawer
  <2>10. ASSUME UNCHANGED session PROVE session'[s].moves[k] = session[s].moves[k]
    BY <2>10
  <2>11. QED
    BY <2>5, <2>6, <2>7, <2>8, <2>9, <2>10 DEF CashNext, ReadDrawer, LockDrawer, LockExpense, CashFail, PayFromBank
<1>2. QED
  BY <1>1, CashStarts, CashStep, PTL DEF CashSpec, PayoutsBeforeClose

(* Gateway collections. *)

\* Whatever made us act on a capture is still true at the provider, and an event
\* is applied only by marking its intent paid.
CaptureEvidence ==
    \A i \in Intents :
        /\ poll[i] = "PAID" => remote[i] = "paid"
        /\ \A k \in Topics : /\ event[i][k] # "unknown" => remote[i] = "paid"
                             /\ event[i][k] = "applied" => seen[i]

CollectInv == CollectTypeOK /\ CaptureWins /\ CaptureEvidence

\* what CollectInv says of one intent
IntentInv(i) ==
    /\ intent[i].status = "PAID" => remote[i] = "paid"
    /\ seen[i] => intent[i].status = "PAID" \/ failedLate[i]
    /\ poll[i] = "PAID" => remote[i] = "paid"
    /\ \A k \in Topics : /\ event[i][k] # "unknown" => remote[i] = "paid"
                         /\ event[i][k] = "applied" => seen[i]

\* The variables at one intent.
IntentFields(i) == <<intent[i], call[i], remote[i], event[i], cancel[i], poll[i], pastDue[i], seen[i], failedLate[i]>>

\* The conjuncts of CollectInv that relate variables are about one intent each.
LEMMA IntentWise == CaptureWins /\ CaptureEvidence <=> \A i \in Intents : IntentInv(i)
BY DEF CaptureWins, CaptureEvidence, IntentInv

\* A poll that answers PAID saw the payment, and every answer is a known one.
LEMMA PollAnswers ==
    ASSUME CollectTypeOK, NEW i \in Intents, PollRemote(i)
    PROVE  /\ poll' \in [Intents -> {"none", "PAID", "EXPIRED", "PENDING"}]
           /\ poll'[i] = "PAID" => remote[i] = "paid"
           /\ \A j \in Intents : j # i => poll'[j] = poll[j]
<1> DEFINE answer == CASE remote[i] = "paid" -> "PAID"
                       [] remote[i] = "closed" -> "EXPIRED"
                       [] OTHER -> "PENDING"
<1>1. poll' = [poll EXCEPT ![i] = answer]
  BY DEF PollRemote
<1>2. answer \in {"none", "PAID", "EXPIRED", "PENDING"} /\ (answer = "PAID" => remote[i] = "paid")
  OBVIOUS
<1> HIDE DEF answer
<1>3. QED
  BY <1>1, <1>2 DEF CollectTypeOK

\* A step of one intent leaves the variables of all others alone.
LEMMA OthersUntouched ==
    ASSUME CollectTypeOK, NEW i \in Intents, NEW j \in Intents, j # i,
           \/ CreateIntent(i) \/ RemoteCreates(i) \/ SaveAnswer(i) \/ CallFails(i) \/ CallDies(i)
           \/ CustomerPays(i) \/ RemoteExpires(i) \/ DeadlinePasses(i)
           \/ \E k \in Topics : RecordEvent(i, k) \/ ApplyCapture(i, k) \/ CaptureDies(i, k)
           \/ SimulatePaid(i) \/ CancelIntent(i) \/ CancelRemote(i) \/ PollRemote(i) \/ ActOnPoll(i)
    PROVE  UNCHANGED IntentFields(j)
<1>1. CASE CreateIntent(i) \/ RemoteCreates(i) \/ SaveAnswer(i) \/ CallFails(i) \/ CallDies(i)
  BY <1>1 DEF CollectTypeOK, IntentFields, CreateIntent, RemoteCreates, SaveAnswer, CallFails, CallDies
<1>2. CASE CustomerPays(i) \/ RemoteExpires(i) \/ DeadlinePasses(i)
  BY <1>2 DEF CollectTypeOK, IntentFields, CustomerPays, RemoteExpires, DeadlinePasses
<1>3. CASE \E k \in Topics : RecordEvent(i, k) \/ ApplyCapture(i, k) \/ CaptureDies(i, k)
  BY <1>3 DEF CollectTypeOK, IntentFields, RecordEvent, ApplyCapture, CaptureDies, MarkPaid
<1>4. CASE SimulatePaid(i) \/ CancelIntent(i) \/ CancelRemote(i) \/ ActOnPoll(i)
  BY <1>4 DEF CollectTypeOK, IntentFields, SimulatePaid, CancelIntent, CancelRemote, ActOnPoll, MarkPaid,
       CloseRemote, ExpireIfWaiting
<1>5. CASE PollRemote(i)
  BY <1>5, PollAnswers DEF CollectTypeOK, IntentFields, PollRemote
<1>6. QED
  BY <1>1, <1>2, <1>3, <1>4, <1>5

\* Every step keeps the types.
LEMMA CollectTypes == CollectTypeOK /\ [CollectNext]_collectVars => CollectTypeOK'
<1> SUFFICES ASSUME CollectTypeOK, [CollectNext]_collectVars PROVE CollectTypeOK'
  OBVIOUS
<1>1. ASSUME NEW i \in Intents, CreateIntent(i) PROVE CollectTypeOK'
  BY <1>1, ZenonT(30) DEF CollectTypeOK, CreateIntent
<1>2. ASSUME NEW i \in Intents, RemoteCreates(i) PROVE CollectTypeOK'
  BY <1>2 DEF CollectTypeOK, RemoteCreates
<1>3. ASSUME NEW i \in Intents, SaveAnswer(i) PROVE CollectTypeOK'
  BY <1>3, ZenonT(30) DEF CollectTypeOK, SaveAnswer
<1>4. ASSUME NEW i \in Intents, CallFails(i) PROVE CollectTypeOK'
  BY <1>4, ZenonT(30) DEF CollectTypeOK, CallFails
<1>5. ASSUME NEW i \in Intents, CallDies(i) PROVE CollectTypeOK'
  BY <1>5 DEF CollectTypeOK, CallDies
<1>6. ASSUME NEW i \in Intents, CustomerPays(i) \/ RemoteExpires(i) \/ DeadlinePasses(i)
      PROVE  CollectTypeOK'
  BY <1>6 DEF CollectTypeOK, CustomerPays, RemoteExpires, DeadlinePasses
<1>7. ASSUME NEW i \in Intents, NEW k \in Topics, RecordEvent(i, k) \/ CaptureDies(i, k)
      PROVE  CollectTypeOK'
  <2>1. CASE RecordEvent(i, k)
    BY <2>1 DEF CollectTypeOK, RecordEvent
  <2>2. CASE CaptureDies(i, k)
    BY <2>2 DEF CollectTypeOK, CaptureDies
  <2>3. QED
    BY <1>7, <2>1, <2>2
<1>8. ASSUME NEW i \in Intents, NEW k \in Topics, ApplyCapture(i, k) PROVE CollectTypeOK'
  BY <1>8, ZenonT(30) DEF CollectTypeOK, ApplyCapture, MarkPaid
<1>9. ASSUME NEW i \in Intents, SimulatePaid(i) PROVE CollectTypeOK'
  BY <1>9 DEF CollectTypeOK, SimulatePaid, MarkPaid
<1>10. ASSUME NEW i \in Intents, CancelIntent(i) PROVE CollectTypeOK'
  BY <1>10, ZenonT(30) DEF CollectTypeOK, CancelIntent
<1>11. ASSUME NEW i \in Intents, CancelRemote(i) PROVE CollectTypeOK'
  BY <1>11 DEF CollectTypeOK, CancelRemote, CloseRemote
<1>12. ASSUME NEW i \in Intents, PollRemote(i) PROVE CollectTypeOK'
  BY <1>12, PollAnswers DEF CollectTypeOK, PollRemote
<1>13. ASSUME NEW i \in Intents, ActOnPoll(i) PROVE CollectTypeOK'
  <2>1. /\ intent' \in [Intents -> [status : {"none", "CREATED", "PAID", "FAILED", "CANCELLED", "EXPIRED"},
                                    ref : BOOLEAN]]
        /\ seen' \in [Intents -> BOOLEAN]
    <3>1. \E st \in {"none", "CREATED", "PAID", "FAILED", "CANCELLED", "EXPIRED"} :
             intent' = [intent EXCEPT ![i].status = st]
      BY <1>13 DEF CollectTypeOK, ActOnPoll, MarkPaid, ExpireIfWaiting
    <3>2. intent' \in [Intents -> [status : {"none", "CREATED", "PAID", "FAILED", "CANCELLED", "EXPIRED"},
                                    ref : BOOLEAN]]
      BY <3>1 DEF CollectTypeOK
    <3>3. seen' \in [Intents -> BOOLEAN]
      BY <1>13 DEF CollectTypeOK, ActOnPoll, MarkPaid
    <3>4. QED
      BY <3>2, <3>3
  <2>2. remote' \in [Intents -> {"none", "active", "paid", "closed"}]
    BY <1>13 DEF CollectTypeOK, ActOnPoll, CloseRemote
  <2>3. QED
    BY <1>13, <2>1, <2>2 DEF CollectTypeOK, ActOnPoll
<1>14. CASE UNCHANGED collectVars
  BY <1>14 DEF CollectTypeOK, collectVars
<1>15. QED
  BY <1>1, <1>2, <1>3, <1>4, <1>5, <1>6, <1>7, <1>8, <1>9, <1>10, <1>11, <1>12, <1>13, <1>14
     DEF CollectNext

\* A step of an intent keeps what CollectInv says of that intent.
LEMMA IntentSteps ==
    ASSUME CollectTypeOK, NEW i \in Intents, IntentInv(i),
           \/ CreateIntent(i) \/ RemoteCreates(i) \/ SaveAnswer(i) \/ CallFails(i) \/ CallDies(i)
           \/ CustomerPays(i) \/ RemoteExpires(i) \/ DeadlinePasses(i)
           \/ \E k \in Topics : RecordEvent(i, k) \/ ApplyCapture(i, k) \/ CaptureDies(i, k)
           \/ SimulatePaid(i) \/ CancelIntent(i) \/ CancelRemote(i) \/ PollRemote(i) \/ ActOnPoll(i)
    PROVE  IntentInv(i)'
<1>1. CASE CreateIntent(i)
  BY <1>1 DEF CollectTypeOK, IntentInv, CreateIntent
<1>2. CASE RemoteCreates(i) \/ SaveAnswer(i) \/ CallDies(i)
  BY <1>2 DEF CollectTypeOK, IntentInv, RemoteCreates, SaveAnswer, CallDies
<1>3. CASE CallFails(i)
  BY <1>3 DEF CollectTypeOK, IntentInv, CallFails
<1>4. CASE CustomerPays(i) \/ RemoteExpires(i) \/ DeadlinePasses(i)
  BY <1>4 DEF CollectTypeOK, IntentInv, CustomerPays, RemoteExpires, DeadlinePasses
<1>5. ASSUME NEW k \in Topics, RecordEvent(i, k) PROVE IntentInv(i)'
  BY <1>5 DEF CollectTypeOK, IntentInv, RecordEvent
<1>6. ASSUME NEW k \in Topics, ApplyCapture(i, k) PROVE IntentInv(i)'
  BY <1>6 DEF CollectTypeOK, IntentInv, ApplyCapture, MarkPaid
<1>7. ASSUME NEW k \in Topics, CaptureDies(i, k) PROVE IntentInv(i)'
  BY <1>7 DEF CollectTypeOK, IntentInv, CaptureDies
<1>8. CASE SimulatePaid(i)
  BY <1>8 DEF CollectTypeOK, IntentInv, SimulatePaid, MarkPaid
<1>9. CASE CancelIntent(i)
  BY <1>9 DEF CollectTypeOK, IntentInv, CancelIntent, Cancellable
<1>10. CASE CancelRemote(i)
  BY <1>10 DEF CollectTypeOK, IntentInv, CancelRemote, CloseRemote
<1>11. CASE PollRemote(i)
  BY <1>11, PollAnswers DEF CollectTypeOK, IntentInv, PollRemote
<1>12. CASE ActOnPoll(i)
  BY <1>12 DEF CollectTypeOK, IntentInv, ActOnPoll, MarkPaid, CloseRemote, ExpireIfWaiting
<1>13. QED
  BY <1>1, <1>2, <1>3, <1>4, <1>5, <1>6, <1>7, <1>8, <1>9, <1>10, <1>11, <1>12

\* CollectInv is inductive.
LEMMA CollectStep == CollectInv /\ [CollectNext]_collectVars => CollectInv'
<1> SUFFICES ASSUME CollectInv, [CollectNext]_collectVars PROVE CollectInv'
  OBVIOUS
<1>1. CollectTypeOK /\ CollectTypeOK'
  BY CollectTypes DEF CollectInv
<1>2. \A i \in Intents : IntentInv(i)
  BY IntentWise DEF CollectInv
<1>3. \A i \in Intents : IntentInv(i)'
  <2>1. CASE UNCHANGED collectVars
    BY <1>2, <2>1 DEF IntentInv, collectVars
  <2>2. ASSUME NEW i \in Intents,
           \/ CreateIntent(i) \/ RemoteCreates(i) \/ SaveAnswer(i) \/ CallFails(i) \/ CallDies(i)
           \/ CustomerPays(i) \/ RemoteExpires(i) \/ DeadlinePasses(i)
           \/ \E k \in Topics : RecordEvent(i, k) \/ ApplyCapture(i, k) \/ CaptureDies(i, k)
           \/ SimulatePaid(i) \/ CancelIntent(i) \/ CancelRemote(i) \/ PollRemote(i) \/ ActOnPoll(i)
        PROVE  \A j \in Intents : IntentInv(j)'
    <3>1. IntentInv(i)'
      BY <1>1, <1>2, <2>2, IntentSteps
    <3>2. ASSUME NEW j \in Intents, j # i PROVE IntentInv(j)'
      BY <1>1, <1>2, <2>2, <3>2, OthersUntouched DEF IntentInv, IntentFields
    <3>3. QED
      BY <3>1, <3>2
  <2>3. QED
    BY <2>1, <2>2 DEF CollectNext
<1>4. (CaptureWins /\ CaptureEvidence)'
  BY <1>3 DEF IntentInv, CaptureWins, CaptureEvidence
<1>5. QED
  BY <1>1, <1>4 DEF CollectInv

\* When no event of a paid collection is to come any more, either every event was
\* lost to a crash or one was applied, and then the intent was marked paid.
LEMMA CapturesSurface == CollectInv => PaymentSurfaces
BY DEF CollectInv, CollectTypeOK, CaptureWins, CaptureEvidence, PaymentSurfaces

\* Once markPaid has run for an intent, no cancellation, poll, expiry or duplicate
\* event of gateway-payments.service.ts takes PAID back, PAID always means the
\* provider holds the money, and a capture goes unreported only while an event is
\* to come, after a crash lost its events or when the create request failed late.
THEOREM CollectionsCorrect == CollectSpec => [](CollectTypeOK /\ CollectionsSound)
<1>1. CollectInit => CollectInv
  BY DEF CollectInit, CollectInv, CollectTypeOK, CaptureWins, CaptureEvidence
<1>2. CollectInv => CollectTypeOK /\ CollectionsSound
  BY CapturesSurface DEF CollectInv, CollectionsSound
<1>3. QED
  BY <1>1, <1>2, CollectStep, PTL DEF CollectSpec
==============================================================================

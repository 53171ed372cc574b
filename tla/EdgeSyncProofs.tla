--------------------------- MODULE EdgeSyncProofs --------------------------
(***************************************************************************)
(* Offline billing of an edge device, for any number of orders, deliveries *)
(* in flight, activations and outbox entries, and any batch size: no sale  *)
(* is lost or booked twice, the device trusts the cloud only with orders   *)
(* the cloud has, no invoice number is given out twice and the cloud files *)
(* every sale under the number on the customer's bill.                     *)
(*                                                                         *)
(* These invariants are not inductive by themselves.  They lean on what *)
(* is in flight: every operation and every answer, also in a delivery the  *)
(* device gave up on, belongs to the outbox entry with its id, and an      *)
(* answer is about something the cloud has done already.  Numbers lean on  *)
(* the life of a series: it is untouched until the device stores it, and   *)
(* its counter is the last number drawn for as long as the disk lasts.     *)
(***************************************************************************)
EXTENDS EdgeSync, TLAPS, WellFoundedInduction

\* rows of orders that were closed on the device's disk
Kept == {"SETTLED", "CANCELLED", "PURGED"}
\* rows nothing is sold on any more
Closed == Kept \cup {"WIPED"}
\* the cloud's answers that say it has the order
Stored == {"applied", "duplicate", "conflict"}

\* what carries the same outbox id is about the same order
SameWork(x, y) == x.id = y.id => x.kind = y.kind /\ x.order = y.order

\* Ids are drawn in order and not reused, and an order is queued once it is closed.
EntriesSound ==
    \A e \in outbox : /\ e.id < nextEntry
                      /\ e.kind = "ORDER" => local[e.order].status \in Kept
                      /\ \A f \in outbox : SameWork(e, f)

\* An operation under way is that of its outbox entry and carries the number that
\* was printed; an answer is one the cloud has acted on.
DeliverySound(d) ==
    /\ \A x \in d.todo \cup d.results : x.id < nextEntry /\ \A e \in outbox : SameWork(x, e)
    /\ \A op \in d.todo : op.kind = "ORDER" => /\ local[op.order].status \in Closed
                                               /\ op.status = "SETTLED" => /\ op.number = printed[op.order]
                                                                        /\ op.number # NoNumber
    /\ \A r \in d.results : r.kind = "ORDER" => /\ r.status \in Stored => cloud[r.order].status # "NONE"
                                                /\ r.status = "rejected" => r.order \in refused

\* An order that is not closed has no number and is unknown to the cloud, a closed
\* one keeps its number, and only orders the cloud has are purged.
RowSound(o) ==
    /\ local[o].status \notin Closed => printed[o] = NoNumber /\ cloud[o].status = "NONE"
    /\ local[o].status = "SETTLED" => local[o].number = printed[o] /\ printed[o] # NoNumber
    /\ local[o].status = "PURGED" => cloud[o].status # "NONE"

\* no number of the series was ever drawn
Fresh(s) == lastSeq[s] = 0 /\ \A o \in Orders : printed[o][1] # s

\* A series is fresh until the device stores it; from then on its counter is the
\* last number printed.
DrawnSound ==
    /\ series <= issued /\ (activating => series # issued)
    /\ \A s \in 1..MaxSeries : s > issued \/ (activating /\ s = issued) => Fresh(s)
    /\ series # 0 => /\ \A o \in Orders : printed[o][1] = series => printed[o][2] <= lastSeq[series]
                     /\ lastSeq[series] # 0 => \E o \in Orders : printed[o] = <<series, lastSeq[series]>>
    /\ SeriesGapless

\* Only numbers of sales are taken, and each sale has its own.
FiledSound ==
    /\ \A n \in invoices : \E o \in Orders : cloud[o].status = "SETTLED" /\ printed[o] = n
    /\ FiledAsPrinted

EdgeInv ==
    /\ TypeOK /\ slot \in [Slots -> Delivery]
    /\ EntriesSound
    /\ \A s \in Slots : DeliverySound(slot[s])
    /\ \A o \in Orders : RowSound(o)
    /\ SaleNeverLost /\ SoldOnce /\ SyncedIsStored /\ DrawnSound /\ FiledSound

\* The types EdgeInv gives.
LEMMA EdgeTypes ==
    ASSUME EdgeInv
    PROVE  /\ local \in [Orders -> LocalRow] /\ outbox \subseteq Entry /\ nextEntry \in Nat
           /\ series \in 0..MaxSeries /\ issued \in 1..MaxSeries /\ lastSeq \in [1..MaxSeries -> Nat]
           /\ push \in Slots \cup {NoSlot} /\ slot \in [Slots -> Delivery]
           /\ cloud \in [Orders -> CloudRow] /\ invoices \subseteq Numbers /\ refused \subseteq Orders
           /\ activating \in BOOLEAN /\ printed \in [Orders -> Numbers] /\ sold \in [Orders -> Nat]
BY DEF EdgeInv, TypeOK

\* The cloud works on an operation of the delivery: the oldest one exists.
LEMMA CurrentInHand ==
    ASSUME NEW s \in Slots, slot[s].todo \subseteq Op, slot[s].todo # {}
    PROVE  Current(s) \in slot[s].todo
<1>1. PICK T : T = {op.id : op \in slot[s].todo}
  OBVIOUS
<1>2. T \subseteq Nat /\ T # {}
  BY <1>1 DEF Op
<1>3. PICK R : R = OpToRel(<, Nat)
  OBVIOUS
<1>4. PICK n \in T : \A m \in T : ~(<<m, n>> \in R)
  BY <1>2, <1>3, NatLessThanWellFounded, WFMin
<1>5. \A m \in T : n <= m
  <2>1. R = {ss \in Nat \X Nat : ss[1] < ss[2]}
    BY <1>3, Zenon DEF OpToRel
  <2>2. ASSUME NEW m \in T, ~(n <= m) PROVE FALSE
    <3>1. m \in Nat /\ n \in Nat /\ m < n
      BY <1>2, <2>2
    <3>2. <<m, n>> \in R
      BY <2>1, <3>1
    <3>3. QED
      BY <1>4, <3>2
  <2>3. QED
    BY <2>2
<1>6. \E op \in slot[s].todo : \A x \in slot[s].todo : op.id <= x.id
  BY <1>1, <1>5
<1>7. QED
  BY <1>6 DEF Current

\* A closed order stays closed, with its number, and what the cloud has it keeps.
Onward ==
    /\ \A o \in Orders : /\ local[o].status \in Closed => local'[o].status \in Closed /\ printed'[o] = printed[o]
                         /\ cloud[o].status # "NONE" => cloud'[o].status # "NONE"
    /\ refused \subseteq refused' /\ nextEntry <= nextEntry' /\ nextEntry' \in Nat

\* every entry after the step was there before, about the same order, or is new
EntriesFrom ==
    \A e \in outbox' : \/ \E f \in outbox : e.id = f.id /\ e.kind = f.kind /\ e.order = f.order
                       \/ e.id = nextEntry

\* Deliveries that take on no operation and no answer stay sound.
LEMMA DeliveriesFollow ==
    ASSUME EdgeInv, Onward, EntriesFrom, NEW S \in SUBSET Slots,
           \A s \in S : slot'[s].todo \subseteq slot[s].todo /\ slot'[s].results \subseteq slot[s].results
    PROVE  \A s \in S : DeliverySound(slot[s])'
<1> SUFFICES ASSUME NEW s \in S PROVE DeliverySound(slot[s])'
  OBVIOUS
<1>1. slot[s] \in Delivery /\ DeliverySound(slot[s]) /\ nextEntry \in Nat
  BY EdgeTypes DEF EdgeInv
<1>2. slot[s].todo \subseteq Op /\ \A r \in slot[s].results : r.id \in Nat /\ r.order \in Orders
  BY <1>1 DEF Delivery
<1>3. ASSUME NEW x \in slot'[s].todo \cup slot'[s].results
      PROVE  x.id < nextEntry' /\ \A e \in outbox' : SameWork(x, e)
  <2>1. x \in slot[s].todo \cup slot[s].results /\ x.id \in Nat
    BY <1>2 DEF Op
  <2>2. x.id < nextEntry /\ \A e \in outbox : SameWork(x, e)
    BY <1>1, <2>1 DEF DeliverySound
  <2>3. x.id < nextEntry' /\ x.id # nextEntry
    BY <1>1, <2>1, <2>2 DEF Onward
  <2>4. \A e \in outbox' : SameWork(x, e)
    BY <2>2, <2>3 DEF EntriesFrom, SameWork
  <2>5. QED
    BY <2>3, <2>4
<1>4. ASSUME NEW op \in slot'[s].todo, op.kind = "ORDER"
      PROVE  local'[op.order].status \in Closed /\ (op.status = "SETTLED" => op.number = printed'[op.order] /\ op.number # NoNumber)
  <2>1. op \in slot[s].todo /\ op.order \in Orders
    BY <1>2 DEF Op
  <2>2. QED
    BY <1>1, <1>4, <2>1 DEF DeliverySound, Onward
<1>5. ASSUME NEW r \in slot'[s].results, r.kind = "ORDER"
      PROVE  /\ r.status \in Stored => cloud'[r.order].status # "NONE"
             /\ r.status = "rejected" => r.order \in refused'
  <2>1. r \in slot[s].results /\ r.order \in Orders
    BY <1>2
  <2>2. QED
    BY <1>1, <1>5, <2>1 DEF DeliverySound, Onward
<1>6. QED
  BY <1>3, <1>4, <1>5 DEF DeliverySound

\* Entries that are only marked or dropped stay sound.
LEMMA EntriesFollow ==
    ASSUME EdgeInv, Onward, \A o \in Orders : local[o].status \in Kept => local'[o].status \in Kept,
           \A e \in outbox' : \E f \in outbox : e.id = f.id /\ e.kind = f.kind /\ e.order = f.order
    PROVE  EntriesSound' /\ EntriesFrom
<1>1. \A f \in outbox : f.id \in Nat /\ f.order \in Orders
  BY EdgeTypes DEF Entry
<1>2. ASSUME NEW e \in outbox'
      PROVE  /\ e.id < nextEntry' /\ (e.kind = "ORDER" => local'[e.order].status \in Kept)
             /\ \A g \in outbox' : SameWork(e, g)
  <2>1. PICK f \in outbox : e.id = f.id /\ e.kind = f.kind /\ e.order = f.order
    BY <1>2
  <2>2. /\ f.id < nextEntry /\ (f.kind = "ORDER" => local[f.order].status \in Kept)
        /\ \A g \in outbox : SameWork(f, g)
    BY DEF EdgeInv, EntriesSound
  <2>3. e.id < nextEntry' /\ (e.kind = "ORDER" => local'[e.order].status \in Kept)
    BY <1>1, <2>1, <2>2, EdgeTypes DEF Onward
  <2>4. \A g \in outbox' : SameWork(e, g)
    BY <2>1, <2>2 DEF SameWork
  <2>5. QED
    BY <2>3, <2>4
<1>3. QED
  BY <1>2 DEF EntriesSound, EntriesFrom

\* What the invariants on numbers say does not depend on anything else.
LEMMA NumbersFollow ==
    ASSUME EdgeInv, UNCHANGED <<series, issued, activating, lastSeq, printed, invoices>>,
           \A o \in Orders : cloud'[o].status = cloud[o].status /\ cloud'[o].number = cloud[o].number
    PROVE  DrawnSound' /\ FiledSound'
<1>1. DrawnSound'
  BY DEF EdgeInv, DrawnSound, Fresh, SeriesGapless
<1>2. FiledSound'
  BY DEF EdgeInv, FiledSound, FiledAsPrinted
<1>3. QED
  BY <1>1, <1>2

\* The number of a sale is a number.
LEMMA NoNumberIsOne == NoNumber \in Numbers /\ NoNumber[1] = 0 /\ NoNumber[2] = 0
  BY DEF Numbers, NoNumber

\* An operation on the device keeps the invariant: it rewrites one order, queues at
\* most one entry about it and queues an order that it closes.
LEMMA DeviceStep ==
    ASSUME EdgeInv, NEW o \in Orders, NEW r \in LocalRow, local' = [local EXCEPT ![o] = r],
           UNCHANGED <<series, link, server, keys>>,
           \/ UNCHANGED <<outbox, nextEntry>>
           \/ \E e \in Entry : /\ e.id = nextEntry /\ e.order = o /\ e.status = "pending"
                               /\ e.kind = "ORDER" => r.status \in Kept
                               /\ outbox' = outbox \cup {e} /\ nextEntry' = nextEntry + 1,
           printed' \in [Orders -> Numbers], lastSeq' \in [1..MaxSeries -> Nat],
           DrawnSound', FiledSound',
           \A x \in Orders : x # o \/ local[x].status \in Closed => printed'[x] = printed[x],
           local[o].status \in Closed =>
              r.status = local[o].status /\ r.sync = local[o].sync /\ r.number = local[o].number,
           local[o].status \notin Closed => r.status \notin {"PURGED", "WIPED"} /\ r.sync \notin {"synced", "conflict"},
           r.status \notin Closed => printed'[o] = NoNumber,
           r.status = "SETTLED" => r.number = printed'[o] /\ printed'[o] # NoNumber,
           local[o].status \notin Closed /\ r.status \in Closed => Queued(o)'
    PROVE  EdgeInv'
<1>1. /\ local \in [Orders -> LocalRow] /\ outbox \subseteq Entry /\ nextEntry \in Nat
      /\ cloud \in [Orders -> CloudRow] /\ refused \subseteq Orders
  BY EdgeTypes
<1>2. \A x \in Orders : local'[x] = IF x = o THEN r ELSE local[x]
  BY <1>1
<1>3. UNCHANGED <<push, slot, cloud, invoices, refused, sold, issued, activating>>
  BY DEF link, server, keys
<1>4. \A x \in Orders : RowSound(x)
  BY DEF EdgeInv
<1>5. \A e \in outbox' : e \in outbox \/ (e.id = nextEntry /\ e.order = o /\ e.status = "pending"
                                          /\ (e.kind = "ORDER" => r.status \in Kept))
  OBVIOUS
<1>6. nextEntry <= nextEntry' /\ nextEntry' \in Nat /\ outbox \subseteq outbox' /\ outbox' \subseteq Entry
  BY <1>1
<1>7. Onward
  BY <1>2, <1>3, <1>6 DEF Onward
<1>8. EntriesFrom
  BY <1>5 DEF EntriesFrom
<1>9. \A s \in Slots : DeliverySound(slot[s])'
  BY <1>3, <1>7, <1>8, DeliveriesFollow
<1>10. EntriesSound'
  <2>1. \A e \in outbox : e.id < nextEntry /\ e.id \in Nat /\ e.order \in Orders
    BY <1>1 DEF EdgeInv, EntriesSound, Entry
  <2>2. ASSUME NEW e \in outbox'
        PROVE  e.id < nextEntry' /\ (e.kind = "ORDER" => local'[e.order].status \in Kept)
    <3>1. CASE e \in outbox
      <4>1. e.kind = "ORDER" => local[e.order].status \in Kept
        BY <3>1 DEF EdgeInv, EntriesSound
      <4>2. QED
        BY <1>1, <1>2, <1>6, <2>1, <3>1, <4>1 DEF Kept, Closed
    <3>2. CASE e \notin outbox
      <4>1. e.id = nextEntry /\ e.order = o /\ (e.kind = "ORDER" => r.status \in Kept) /\ nextEntry' = nextEntry + 1
        BY <3>2
      <4>2. QED
        BY <1>1, <1>2, <4>1
    <3>3. QED
      BY <3>1, <3>2
  <2>3. ASSUME NEW e \in outbox', NEW f \in outbox' PROVE SameWork(e, f)
    <3>1. CASE e \in outbox /\ f \in outbox
      BY <3>1 DEF EdgeInv, EntriesSound
    <3>2. CASE e \notin outbox /\ f \notin outbox
      <4>1. e = f
        BY <3>2
      <4>2. QED
        BY <4>1 DEF SameWork
    <3>3. CASE e \in outbox /\ f \notin outbox
      BY <1>1, <1>5, <2>1, <3>3 DEF SameWork
    <3>4. CASE e \notin outbox /\ f \in outbox
      BY <1>1, <1>5, <2>1, <3>4 DEF SameWork
    <3>5. QED
      BY <3>1, <3>2, <3>3, <3>4
  <2>4. QED
    BY <2>2, <2>3 DEF EntriesSound
<1>11. \A x \in Orders : RowSound(x)'
  <2>1. ASSUME NEW x \in Orders, x # o PROVE RowSound(x)'
    BY <1>2, <1>3, <1>4, <2>1 DEF RowSound
  <2>2. RowSound(o)'
    <3>1. RowSound(o)
      BY <1>4
    <3>2. local'[o] = r /\ cloud'[o] = cloud[o]
      BY <1>2, <1>3
    <3>3. r.status \notin Closed => printed'[o] = NoNumber /\ cloud[o].status = "NONE"
      BY <3>1 DEF RowSound
    <3>4. r.status = "PURGED" => cloud[o].status # "NONE"
      BY <3>1 DEF RowSound
    <3>5. QED
      BY <3>2, <3>3, <3>4 DEF RowSound
  <2>3. QED
    BY <2>1, <2>2
<1>12. \A x \in Orders : Queued(x) => Queued(x)'
  BY <1>6 DEF Queued
<1>13. SaleNeverLost'
  <2>1. ASSUME NEW x \in Orders, local'[x].status \in Closed \ {"WIPED"}
        PROVE  \/ Queued(x)' /\ local'[x].status # "PURGED"
               \/ cloud[x].status # "NONE"
               \/ x \in refused /\ local'[x].sync = "rejected"
    <3>1. CASE local[x].status \in Closed
      <4>0. local'[x].status = local[x].status /\ local'[x].sync = local[x].sync
        BY <1>2, <3>1
      <4>1. \/ Queued(x) /\ local[x].status # "PURGED"
            \/ cloud[x].status # "NONE"
            \/ x \in refused /\ local[x].sync = "rejected"
        BY <2>1, <3>1, <4>0 DEF EdgeInv, SaleNeverLost, Kept, Closed
      <4>2. QED
        BY <1>12, <4>0, <4>1
    <3>2. CASE local[x].status \notin Closed
      BY <1>2, <2>1, <3>2 DEF Kept, Closed
    <3>3. QED
      BY <3>1, <3>2
  <2>2. QED
    BY <1>3, <2>1 DEF SaleNeverLost, Kept, Closed
<1>14. SyncedIsStored'
  <2>1. ASSUME NEW x \in Orders, local'[x].sync \in {"synced", "conflict"} \/ Accepted(x)'
        PROVE  cloud[x].status # "NONE"
    <3>1. Accepted(x)' => Accepted(x)
      BY <1>5 DEF Accepted
    <3>2. local'[x].sync \in {"synced", "conflict"} => local[x].sync \in {"synced", "conflict"}
      BY <1>2
    <3>3. QED
      BY <2>1, <3>1, <3>2 DEF EdgeInv, SyncedIsStored
  <2>2. QED
    BY <1>3, <2>1 DEF SyncedIsStored
<1>15. TypeOK' /\ SoldOnce' /\ slot' \in [Slots -> Delivery]
  <2>1. local' \in [Orders -> LocalRow]
    BY <1>1
  <2>2. SoldOnce' /\ slot' \in [Slots -> Delivery]
    BY <1>3 DEF EdgeInv, SoldOnce
  <2>3. TypeOK'
    BY <1>3, <1>6, <2>1 DEF EdgeInv, TypeOK
  <2>4. QED
    BY <2>2, <2>3
<1>16. QED
  BY <1>9, <1>10, <1>11, <1>13, <1>14, <1>15 DEF EdgeInv

\* The next number of the device's series is one nobody was given, and comes after
\* the last one that was.
LEMMA NumberDrawn ==
    ASSUME EdgeInv, NEW o \in Orders, SettleOrder(o)
    PROVE  /\ <<series, lastSeq[series] + 1>> \in Numbers \ {NoNumber}
           /\ printed' \in [Orders -> Numbers] /\ lastSeq' \in [1..MaxSeries -> Nat]
           /\ DrawnSound' /\ FiledSound'
<1>1. /\ series \in 0..MaxSeries /\ issued \in 1..MaxSeries /\ lastSeq \in [1..MaxSeries -> Nat]
      /\ printed \in [Orders -> Numbers] /\ MaxSeries \in Nat
  BY EdgeTypes, EdgeAssumption
<1>2. local[o].status = "OPEN" /\ printed[o] = NoNumber /\ cloud[o].status = "NONE"
  BY DEF EdgeInv, RowSound, Kept, Closed, SettleOrder
<1>3. series \in 1..MaxSeries
  BY <1>1 DEF SettleOrder
<1>4. PICK k : k = lastSeq[series] + 1
  OBVIOUS
<1>5. k \in Nat \ {0} /\ lastSeq[series] = k - 1 /\ lastSeq[series] \in Nat
  BY <1>1, <1>3, <1>4
<1>6. PICK number : number = <<series, k>>
  OBVIOUS
<1>7. number \in Numbers /\ number # NoNumber /\ number[1] = series /\ number[2] = k
  BY <1>3, <1>5, <1>6 DEF Numbers, NoNumber
<1>8. /\ lastSeq' = [lastSeq EXCEPT ![series] = @ + 1] /\ printed' = [printed EXCEPT ![o] = number]
      /\ UNCHANGED <<series, issued, activating, cloud, invoices>>
  BY <1>4, <1>6 DEF SettleOrder, server, keys
<1>9. printed' \in [Orders -> Numbers] /\ lastSeq' \in [1..MaxSeries -> Nat]
  <2>1. lastSeq' \in [1..MaxSeries -> Nat]
    BY <1>1, <1>3, <1>8
  <2>2. printed' \in [Orders -> Numbers]
    BY <1>1, <1>7, <1>8
  <2>3. QED
    BY <2>1, <2>2
<1>10. /\ \A x \in Orders : printed'[x] = IF x = o THEN number ELSE printed[x]
       /\ \A s \in 1..MaxSeries : lastSeq'[s] = IF s = series THEN k ELSE lastSeq[s]
  BY <1>1, <1>3, <1>4, <1>8
<1>11. /\ series <= issued /\ (activating => series # issued)
       /\ \A s \in 1..MaxSeries : s > issued \/ (activating /\ s = issued) => Fresh(s)
       /\ \A x \in Orders : printed[x][1] = series => printed[x][2] <= k - 1
       /\ k - 1 # 0 => \E x \in Orders : printed[x] = <<series, k - 1>>
  BY <1>3, <1>5 DEF EdgeInv, DrawnSound
<1>12. \A x \in Orders : printed[x] # number
  <2>1. SUFFICES ASSUME NEW x \in Orders, printed[x] = number PROVE FALSE
    OBVIOUS
  <2>2. k <= k - 1
    BY <1>7, <1>11, <2>1
  <2>3. QED
    BY <1>5, <2>2
<1>13. /\ \A a, b \in Orders : printed[a] = printed[b] /\ a # b => printed[a] = NoNumber
       /\ \A x \in Orders : \A n \in 1..printed[x][2] : \E p \in Orders : printed[p] = <<printed[x][1], n>>
  BY DEF EdgeInv, DrawnSound, SeriesGapless
<1>14. \A a, b \in Orders : printed'[a] = printed'[b] /\ a # b => printed'[a] = NoNumber
  BY <1>10, <1>12, <1>13
<1>15. ASSUME NEW n \in 1..k PROVE \E p \in Orders : printed'[p] = <<series, n>>
  <2>1. CASE n = k
    BY <1>6, <1>10, <2>1
  <2>2. CASE n # k
    <3>1. k - 1 # 0 /\ n \in 1..(k - 1)
      BY <1>5, <2>2
    <3>2. PICK x \in Orders : printed[x] = <<series, k - 1>>
      BY <1>11, <3>1
    <3>3. printed[x][1] = series /\ printed[x][2] = k - 1
      BY <3>2
    <3>4. PICK p \in Orders : printed[p] = <<printed[x][1], n>>
      BY <1>13, <3>1, <3>3
    <3>5. printed[p] = <<series, n>> /\ printed[p][1] = series
      BY <3>3, <3>4
    <3>6. p # o
      BY <1>2, <1>3, <3>5 DEF NoNumber
    <3>7. QED
      BY <1>10, <3>5, <3>6
  <2>3. QED
    BY <2>1, <2>2
<1>16. \A x \in Orders : \A n \in 1..printed'[x][2] : \E p \in Orders : printed'[p] = <<printed'[x][1], n>>
  <2>1. SUFFICES ASSUME NEW x \in Orders, NEW n \in 1..printed'[x][2]
                 PROVE  \E p \in Orders : printed'[p] = <<printed'[x][1], n>>
    OBVIOUS
  <2>2. CASE x = o
    BY <1>7, <1>10, <1>15, <2>1, <2>2
  <2>3. CASE x # o
    <3>1. printed'[x] = printed[x]
      BY <1>10, <2>3
    <3>2. PICK p \in Orders : printed[p] = <<printed[x][1], n>>
      BY <1>13, <2>1, <3>1
    <3>3. printed[p][2] = n /\ n # 0
      BY <1>1, <2>1, <3>1, <3>2
    <3>4. p # o
      BY <1>2, <3>3, NoNumberIsOne
    <3>5. QED
      BY <1>10, <3>1, <3>2, <3>4
  <2>4. QED
    BY <2>2, <2>3
<1>17. DrawnSound'
  <2>1. \A s \in 1..MaxSeries : s > issued \/ (activating /\ s = issued) => Fresh(s)'
    <3>1. SUFFICES ASSUME NEW s \in 1..MaxSeries, s > issued \/ (activating /\ s = issued) PROVE Fresh(s)'
      OBVIOUS
    <3>2. Fresh(s) /\ s # series
      BY <1>1, <1>3, <1>11, <3>1
    <3>3. QED
      BY <1>7, <1>10, <3>2 DEF Fresh
  <2>2. \A x \in Orders : printed'[x][1] = series => printed'[x][2] <= k
    <3>1. SUFFICES ASSUME NEW x \in Orders, printed'[x][1] = series PROVE printed'[x][2] <= k
      OBVIOUS
    <3>2. CASE x = o
      BY <1>5, <1>7, <1>10, <3>2
    <3>3. CASE x # o
      <4>1. printed'[x] = printed[x] /\ printed[x][2] <= k - 1
        BY <1>10, <1>11, <3>1, <3>3
      <4>2. printed[x][2] \in Nat
        BY <1>1 DEF Numbers, NoNumber
      <4>3. QED
        BY <1>5, <4>1, <4>2
    <3>4. QED
      BY <3>2, <3>3
  <2>3. lastSeq'[series] = k /\ printed'[o] = <<series, k>>
    BY <1>3, <1>6, <1>10
  <2>4. SeriesGapless'
    BY <1>14, <1>16 DEF SeriesGapless
  <2>5. QED
    BY <1>8, <1>11, <2>1, <2>2, <2>3, <2>4 DEF DrawnSound
<1>18. FiledSound'
  <2>1. /\ \A n \in invoices : \E x \in Orders : cloud[x].status = "SETTLED" /\ printed[x] = n
        /\ \A x \in Orders : cloud[x].status = "SETTLED" => cloud[x].number = printed[x] /\ printed[x] \in invoices
    BY DEF EdgeInv, FiledSound, FiledAsPrinted
  <2>2. \A x \in Orders : cloud[x].status = "SETTLED" => printed'[x] = printed[x]
    BY <1>2, <1>10
  <2>3. QED
    BY <1>8, <2>1, <2>2 DEF FiledSound, FiledAsPrinted
<1>19. QED
  BY <1>4, <1>6, <1>7, <1>9, <1>17, <1>18

\* Creating, settling and cancelling orders and their kitchen progress keep the
\* invariant.
LEMMA DeviceKeeps ==
    ASSUME EdgeInv, NEW o \in Orders,
           \/ CreateOrder(o) \/ SettleOrder(o) \/ CancelOrder(o)
           \/ \E prep \in Preps : AdvanceTicket(o, prep)
    PROVE  EdgeInv'
<1>1. /\ local \in [Orders -> LocalRow] /\ outbox \subseteq Entry /\ nextEntry \in Nat
      /\ printed \in [Orders -> Numbers] /\ lastSeq \in [1..MaxSeries -> Nat] /\ NewPrep \in Preps
  BY EdgeTypes, EdgeAssumption
<1>2. RowSound(o) /\ SyncedIsStored
  BY DEF EdgeInv
<1>3. local[o].status \notin Closed => local[o].sync \notin {"synced", "conflict"} /\ printed[o] = NoNumber
  BY <1>2 DEF RowSound, SyncedIsStored
<1>4. UNCHANGED <<series, printed, lastSeq, server, keys>> => DrawnSound' /\ FiledSound'
  BY NumbersFollow DEF server, keys
<1>5. ASSUME NEW kind \in {"ORDER", "KOT_STATUS"}, NEW prep \in Preps, Enqueue(kind, o, prep)
      PROVE  \E e \in Entry : /\ e.id = nextEntry /\ e.order = o /\ e.status = "pending" /\ e.kind = kind
                              /\ outbox' = outbox \cup {e} /\ nextEntry' = nextEntry + 1
  <2>1. PICK e : e = [id |-> nextEntry, kind |-> kind, order |-> o, prep |-> prep, status |-> "pending", retried |-> FALSE]
    OBVIOUS
  <2>2. e \in Entry /\ e.id = nextEntry /\ e.order = o /\ e.status = "pending" /\ e.kind = kind
    BY <1>1, <2>1 DEF Entry
  <2>3. QED
    BY <1>5, <2>1, <2>2 DEF Enqueue
<1>6. ASSUME Enqueue("ORDER", o, NewPrep) PROVE Queued(o)'
  BY <1>1, <1>5, <1>6 DEF Queued
<1>7. CASE CreateOrder(o)
  <2>1. PICK r : r = [local[o] EXCEPT !.status = "OPEN"]
    OBVIOUS
  <2>2. r \in LocalRow /\ r.status = "OPEN" /\ r.sync = local[o].sync
    BY <1>1, <2>1 DEF LocalRow
  <2>3. local' = [local EXCEPT ![o] = r] /\ local[o].status \notin Closed
    BY <1>7, <2>1 DEF CreateOrder, Kept, Closed
  <2>4. UNCHANGED <<outbox, nextEntry, printed, lastSeq, series, link, server, keys>>
    BY <1>7 DEF CreateOrder
  <2>5. r.status \notin Closed /\ r.status \notin {"PURGED", "WIPED", "SETTLED"}
    BY <2>2 DEF Kept, Closed
  <2>6. QED
    BY <1>1, <1>3, <1>4, <2>2, <2>3, <2>4, <2>5, DeviceStep
<1>8. CASE SettleOrder(o)
  <2>1. PICK number : number = <<series, lastSeq[series] + 1>>
    OBVIOUS
  <2>2. PICK r : r = [local[o] EXCEPT !.status = "SETTLED", !.sync = "queued", !.number = number]
    OBVIOUS
  <2>3. /\ number \in Numbers \ {NoNumber} /\ printed' \in [Orders -> Numbers]
        /\ lastSeq' \in [1..MaxSeries -> Nat] /\ DrawnSound' /\ FiledSound'
    BY <1>8, <2>1, NumberDrawn
  <2>4. r \in LocalRow /\ r.status = "SETTLED" /\ r.sync = "queued" /\ r.number = number
    BY <1>1, <2>2, <2>3 DEF LocalRow
  <2>5. local' = [local EXCEPT ![o] = r] /\ local[o].status \notin Closed
    BY <1>8, <2>1, <2>2 DEF SettleOrder, Kept, Closed
  <2>6. printed'[o] = number /\ \A x \in Orders : x # o \/ local[x].status \in Closed => printed'[x] = printed[x]
    BY <1>1, <1>8, <2>1, <2>5 DEF SettleOrder
  <2>7. UNCHANGED <<series, link, server, keys>> /\ Enqueue("ORDER", o, NewPrep)
    BY <1>8 DEF SettleOrder
  <2>8. PICK e \in Entry : /\ e.id = nextEntry /\ e.order = o /\ e.status = "pending" /\ e.kind = "ORDER"
                           /\ outbox' = outbox \cup {e} /\ nextEntry' = nextEntry + 1
    BY <1>1, <1>5, <2>7
  <2>9. r.status \in Kept /\ r.status \in Closed
    BY <2>4 DEF Kept, Closed
  <2>10. QED
    BY <1>6, <2>3, <2>4, <2>5, <2>6, <2>7, <2>8, <2>9, DeviceStep
<1>9. CASE CancelOrder(o)
  <2>1. PICK r : r = [local[o] EXCEPT !.status = "CANCELLED", !.sync = "queued"]
    OBVIOUS
  <2>2. r \in LocalRow /\ r.status = "CANCELLED" /\ r.sync = "queued"
    BY <1>1, <2>1 DEF LocalRow
  <2>3. local' = [local EXCEPT ![o] = r] /\ local[o].status \notin Closed
    BY <1>9, <2>1 DEF CancelOrder, Kept, Closed
  <2>4. UNCHANGED <<printed, lastSeq, series, link, server, keys>> /\ Enqueue("ORDER", o, NewPrep)
    BY <1>9 DEF CancelOrder
  <2>5. PICK e \in Entry : /\ e.id = nextEntry /\ e.order = o /\ e.status = "pending" /\ e.kind = "ORDER"
                           /\ outbox' = outbox \cup {e} /\ nextEntry' = nextEntry + 1
    BY <1>1, <1>5, <2>4
  <2>6. r.status \in Kept /\ r.status \in Closed
    BY <2>2 DEF Kept, Closed
  <2>7. QED
    BY <1>1, <1>4, <1>6, <2>2, <2>3, <2>4, <2>5, <2>6, DeviceStep
<1>10. CASE \E prep \in Preps : AdvanceTicket(o, prep)
  <2>1. PICK prep \in Preps : AdvanceTicket(o, prep)
    BY <1>10
  <2>2. PICK r : r = [local[o] EXCEPT !.prep = prep]
    OBVIOUS
  <2>3. r \in LocalRow /\ r.status = local[o].status /\ r.sync = local[o].sync /\ r.number = local[o].number
    BY <1>1, <2>2 DEF LocalRow
  <2>4. local' = [local EXCEPT ![o] = r] /\ local[o].status \notin {"PURGED", "WIPED"}
    BY <2>1, <2>2 DEF AdvanceTicket
  <2>5. UNCHANGED <<printed, lastSeq, series, link, server, keys>>
    BY <2>1 DEF AdvanceTicket
  <2>6. \/ UNCHANGED <<outbox, nextEntry>>
        \/ \E e \in Entry : /\ e.id = nextEntry /\ e.order = o /\ e.status = "pending" /\ e.kind = "KOT_STATUS"
                            /\ outbox' = outbox \cup {e} /\ nextEntry' = nextEntry + 1
    BY <1>5, <2>1 DEF AdvanceTicket
  <2>7. \/ UNCHANGED <<outbox, nextEntry>>
        \/ \E e \in Entry : /\ e.id = nextEntry /\ e.order = o /\ e.status = "pending"
                            /\ e.kind = "ORDER" => r.status \in Kept
                            /\ outbox' = outbox \cup {e} /\ nextEntry' = nextEntry + 1
    BY <2>6
  <2>8. r.status = "SETTLED" => r.number = printed[o] /\ printed[o] # NoNumber
    BY <1>2, <2>3 DEF RowSound
  <2>9. QED
    BY <1>1, <1>3, <1>4, <2>3, <2>4, <2>5, <2>7, <2>8, DeviceStep
<1>11. QED
  BY <1>7, <1>8, <1>9, <1>10

\* An order the device purges is one the cloud has.
LEMMA PurgeKeeps ==
    ASSUME EdgeInv, NEW o \in Orders, Purge(o)
    PROVE  EdgeInv'
<1>1. /\ local \in [Orders -> LocalRow] /\ outbox \subseteq Entry /\ nextEntry \in Nat /\ NewPrep \in Preps
  BY EdgeTypes, EdgeAssumption
<1>2. UNCHANGED <<nextEntry, series, lastSeq, printed, push, slot, cloud, invoices, refused, sold, issued, activating>>
  BY DEF Purge, link, server, keys
<1>3. outbox' \subseteq outbox /\ \A e \in outbox : e \in outbox' \/ e.status \in {"done", "conflict"}
  BY DEF Purge
<1>4. PICK gone : gone = [NoRow EXCEPT !.status = "PURGED"]
  OBVIOUS
<1>5. gone \in LocalRow /\ gone.status = "PURGED" /\ gone.sync = "local"
  BY <1>1, <1>4, NoNumberIsOne DEF NoRow, LocalRow
<1>6. \/ UNCHANGED local
      \/ local' = [local EXCEPT ![o] = gone] /\ cloud[o].status # "NONE"
  BY <1>4 DEF Purge, Purgeable, EdgeInv, SyncedIsStored
<1>7. \A x \in Orders : \/ local'[x] = local[x]
                        \/ x = o /\ local'[x] = gone /\ cloud[x].status # "NONE"
  BY <1>1, <1>6
<1>8. \A x \in Orders : RowSound(x)
  BY DEF EdgeInv
<1>9. Onward
  BY <1>1, <1>2, <1>5, <1>7 DEF Onward, Kept, Closed
<1>10. EntriesSound' /\ EntriesFrom
  <2>1. \A x \in Orders : local[x].status \in Kept => local'[x].status \in Kept
    BY <1>5, <1>7 DEF Kept
  <2>2. QED
    BY <1>3, <1>9, <2>1, EntriesFollow
<1>11. \A s \in Slots : DeliverySound(slot[s])'
  BY <1>2, <1>9, <1>10, DeliveriesFollow
<1>12. \A x \in Orders : RowSound(x)'
  BY <1>2, <1>5, <1>7, <1>8 DEF RowSound, Kept, Closed
<1>13. SaleNeverLost'
  <2>1. \A x \in Orders : Queued(x) => Queued(x)'
    BY <1>3 DEF Queued
  <2>2. QED
    BY <1>2, <1>7, <2>1 DEF EdgeInv, SaleNeverLost
<1>14. SyncedIsStored'
  <2>1. \A x \in Orders : Accepted(x)' => Accepted(x)
    BY <1>3 DEF Accepted
  <2>2. QED
    BY <1>2, <1>7, <2>1 DEF EdgeInv, SyncedIsStored
<1>15. TypeOK' /\ slot' \in [Slots -> Delivery] /\ SoldOnce' /\ DrawnSound' /\ FiledSound'
  <2>1. local' \in [Orders -> LocalRow]
    BY <1>1, <1>5, <1>6
  <2>2. SoldOnce' /\ slot' \in [Slots -> Delivery]
    BY <1>2 DEF EdgeInv, SoldOnce
  <2>3. TypeOK'
    BY <1>1, <1>2, <1>3, <2>1 DEF EdgeInv, TypeOK
  <2>4. DrawnSound' /\ FiledSound'
    BY <1>2, NumbersFollow
  <2>5. QED
    BY <2>2, <2>3, <2>4
<1>16. QED
  BY <1>10, <1>11, <1>12, <1>13, <1>14, <1>15 DEF EdgeInv

\* Nothing but deliveries that end or lose their answers, and the device's keys.
LEMMA QuietStep ==
    ASSUME EdgeInv, UNCHANGED <<local, outbox, nextEntry, lastSeq, printed, server>>,
           slot' \in [Slots -> Delivery], push' \in Slots \cup {NoSlot},
           \A s \in Slots : slot'[s].todo \subseteq slot[s].todo /\ slot'[s].results \subseteq slot[s].results,
           series' \in 0..MaxSeries, issued' \in 1..MaxSeries, activating' \in BOOLEAN, DrawnSound'
    PROVE  EdgeInv'
<1>1. UNCHANGED <<local, outbox, nextEntry, lastSeq, printed, cloud, invoices, refused, sold>> /\ nextEntry \in Nat
  BY EdgeTypes DEF server
<1>2. Onward /\ EntriesFrom
  BY <1>1 DEF Onward, EntriesFrom
<1>3. \A s \in Slots : DeliverySound(slot[s])'
  BY <1>2, DeliveriesFollow
<1>4. EntriesSound' /\ \A o \in Orders : RowSound(o)'
  BY <1>1 DEF EdgeInv, EntriesSound, RowSound
<1>5. SaleNeverLost' /\ SoldOnce' /\ SyncedIsStored' /\ FiledSound'
  BY <1>1 DEF EdgeInv, SaleNeverLost, Queued, SoldOnce, SyncedIsStored, Accepted, FiledSound, FiledAsPrinted
<1>6. TypeOK'
  <2>1. \A s \in Slots : slot'[s].todo \subseteq Op /\ slot'[s].state \in {"free", "busy"}
    BY DEF Delivery
  <2>2. QED
    BY <1>1, <2>1 DEF EdgeInv, TypeOK
<1>7. QED
  BY <1>3, <1>4, <1>5, <1>6 DEF EdgeInv

\* A delivery whose answer nobody awaits has nothing new in it.
LEMMA UnheardLess ==
    ASSUME NEW d \in Delivery
    PROVE  Unheard(d) \in Delivery /\ Unheard(d).todo \subseteq d.todo /\ Unheard(d).results = {}
<1>1. FreeSlot \in Delivery /\ FreeSlot.todo = {} /\ FreeSlot.results = {}
  BY DEF FreeSlot, Delivery
<1>2. PICK c : c = [d EXCEPT !.results = {}]
  OBVIOUS
<1>3. c \in Delivery /\ c.todo = d.todo /\ c.results = {}
  BY <1>2 DEF Delivery
<1>4. Unheard(d) = IF d.todo = {} THEN FreeSlot ELSE c
  BY <1>2 DEF Unheard
<1>5. QED
  BY <1>1, <1>3, <1>4

\* Giving up on a delivery, losing one, and activations keep the invariant.
LEMMA LinkKeeps ==
    ASSUME EdgeInv, GiveUp \/ (\E s \in Slots : Lose(s)) \/ Activate \/ Adopt \/ LoseActivation
    PROVE  EdgeInv'
<1>1. /\ series \in 0..MaxSeries /\ issued \in 1..MaxSeries /\ activating \in BOOLEAN
      /\ push \in Slots \cup {NoSlot} /\ slot \in [Slots -> Delivery] /\ MaxSeries \in Nat
  BY EdgeTypes, EdgeAssumption
<1>2. FreeSlot \in Delivery /\ FreeSlot.todo = {} /\ FreeSlot.results = {}
  BY DEF FreeSlot, Delivery
<1>3. \A d \in Delivery : Unheard(d) \in Delivery /\ Unheard(d).todo \subseteq d.todo /\ Unheard(d).results = {}
  BY UnheardLess
<1>4. CASE GiveUp
  <2>1. PICK s : s = push
    OBVIOUS
  <2>2. s \in Slots /\ slot' = [slot EXCEPT ![s] = Unheard(slot[s])] /\ push' = NoSlot
    BY <1>1, <1>4, <2>1 DEF GiveUp
  <2>3. PICK d : d = Unheard(slot[s])
    OBVIOUS
  <2>4. d \in Delivery /\ d.todo \subseteq slot[s].todo /\ d.results = {}
    BY <1>1, <1>3, <2>2, <2>3
  <2>5. \A q \in Slots : slot'[q] = IF q = s THEN d ELSE slot[q]
    BY <1>1, <2>2, <2>3
  <2>6. slot' \in [Slots -> Delivery]
    BY <1>1, <2>2, <2>3, <2>4
  <2>7. UNCHANGED <<local, outbox, nextEntry, series, lastSeq, printed, server, issued, activating>>
    BY <1>4 DEF GiveUp, device, keys
  <2>8. DrawnSound'
    BY <2>7, NumbersFollow DEF server
  <2>9. QED
    BY <1>1, <2>2, <2>4, <2>5, <2>6, <2>7, <2>8, QuietStep
<1>5. CASE \E s \in Slots : Lose(s)
  <2>1. PICK s \in Slots : Lose(s)
    BY <1>5
  <2>2. slot' = [slot EXCEPT ![s] = FreeSlot] /\ push' = push
    BY <2>1 DEF Lose
  <2>3. \A q \in Slots : slot'[q] = IF q = s THEN FreeSlot ELSE slot[q]
    BY <1>1, <2>2
  <2>4. slot' \in [Slots -> Delivery]
    BY <1>1, <1>2, <2>2
  <2>5. UNCHANGED <<local, outbox, nextEntry, series, lastSeq, printed, server, issued, activating>>
    BY <2>1 DEF Lose, device, keys
  <2>6. DrawnSound'
    BY <2>5, NumbersFollow DEF server
  <2>7. QED
    BY <1>1, <1>2, <2>2, <2>3, <2>4, <2>5, <2>6, QuietStep
<1>6. CASE Activate \/ Adopt \/ LoseActivation
  <2>1. UNCHANGED <<local, outbox, nextEntry, lastSeq, printed, server, push, slot>>
    BY <1>6 DEF Activate, Adopt, LoseActivation, device, link
  <2>2. activating' \in BOOLEAN
    BY <1>6 DEF Activate, Adopt, LoseActivation
  <2>3. /\ series <= issued /\ (activating => series # issued) /\ SeriesGapless
        /\ \A s \in 1..MaxSeries : s > issued \/ (activating /\ s = issued) => Fresh(s)
        /\ series # 0 => /\ \A o \in Orders : printed[o][1] = series => printed[o][2] <= lastSeq[series]
                         /\ lastSeq[series] # 0 => \E o \in Orders : printed[o] = <<series, lastSeq[series]>>
    BY DEF EdgeInv, DrawnSound
  <2>4. SeriesGapless' /\ \A s \in 1..MaxSeries : Fresh(s) => Fresh(s)'
    <3>1. UNCHANGED <<lastSeq, printed>>
      BY <2>1
    <3>2. SeriesGapless'
      BY <2>3, <3>1 DEF SeriesGapless
    <3>3. QED
      BY <3>1, <3>2 DEF Fresh
  <2>5. CASE Activate
    <3>1. issued' = issued + 1 /\ issued < MaxSeries /\ series' = series
      BY <2>5 DEF Activate, NextSeries, device
    <3>2. series' \in 0..MaxSeries /\ issued' \in 1..MaxSeries /\ series < issued'
      BY <1>1, <2>3, <3>1
    <3>3. \A s \in 1..MaxSeries : s > issued' \/ s = issued' => Fresh(s)'
      BY <1>1, <2>3, <2>4, <3>1
    <3>4. DrawnSound'
      BY <1>1, <2>1, <2>3, <2>4, <3>1, <3>2, <3>3 DEF DrawnSound
    <3>5. QED
      BY <1>1, <2>1, <2>2, <3>2, <3>4, QuietStep
  <2>6. CASE Adopt
    <3>1. series' = issued /\ issued' = issued /\ activating /\ activating' = FALSE
      BY <2>6 DEF Adopt
    <3>2. Fresh(issued)
      BY <1>1, <2>3, <3>1
    <3>3. \A s \in 1..MaxSeries : s > issued => Fresh(s)'
      BY <2>3, <2>4
    <3>4. DrawnSound'
      BY <1>1, <2>1, <2>4, <3>1, <3>2, <3>3 DEF DrawnSound, Fresh
    <3>5. QED
      BY <1>1, <2>1, <2>2, <3>1, <3>4, QuietStep
  <2>7. CASE LoseActivation
    <3>1. series' = series /\ issued' = issued /\ activating' = FALSE
      BY <2>7 DEF LoseActivation, device
    <3>2. DrawnSound'
      BY <1>1, <2>1, <2>3, <2>4, <3>1 DEF DrawnSound
    <3>3. QED
      BY <1>1, <2>1, <2>2, <3>1, <3>2, QuietStep
  <2>8. QED
    BY <1>6, <2>5, <2>6, <2>7
<1>7. QED
  BY <1>4, <1>5, <1>6

\* A device that loses its disk keeps nothing the invariant speaks of but its
\* numbers, and has no series left to draw from.
LEMMA WipeKeeps ==
    ASSUME EdgeInv, Wipe
    PROVE  EdgeInv'
<1>1. /\ local \in [Orders -> LocalRow] /\ nextEntry \in Nat /\ issued \in 1..MaxSeries
      /\ slot \in [Slots -> Delivery] /\ NewPrep \in Preps /\ MaxSeries \in Nat \ {0}
  BY EdgeTypes, EdgeAssumption
<1>2. PICK gone : gone = [NoRow EXCEPT !.status = "WIPED"]
  OBVIOUS
<1>3. gone \in LocalRow /\ gone.status = "WIPED" /\ gone.sync = "local"
  BY <1>1, <1>2, NoNumberIsOne DEF NoRow, LocalRow
<1>4. /\ outbox' = {} /\ series' = 0 /\ activating' = FALSE /\ push' = NoSlot
      /\ local' = [o \in Orders |-> IF local[o].status = "NONE" THEN local[o] ELSE gone]
      /\ lastSeq' = [s \in 1..MaxSeries |-> 0]
      /\ UNCHANGED <<nextEntry, printed, cloud, invoices, refused, sold, issued>>
  BY <1>2 DEF Wipe, server
<1>5. /\ \A o \in Orders : local'[o] = IF local[o].status = "NONE" THEN local[o] ELSE gone
      /\ local' \in [Orders -> LocalRow] /\ lastSeq' \in [1..MaxSeries -> Nat]
      /\ \A s \in 1..MaxSeries : lastSeq'[s] = 0
  BY <1>1, <1>3, <1>4
<1>6. /\ slot' \in [Slots -> Delivery]
      /\ \A s \in Slots : slot'[s].todo \subseteq slot[s].todo /\ slot'[s].results \subseteq slot[s].results
  <2>1. ASSUME NEW s \in Slots
        PROVE  /\ slot'[s] \in Delivery
               /\ slot'[s].todo \subseteq slot[s].todo /\ slot'[s].results \subseteq slot[s].results
    <3>1. slot[s] \in Delivery /\ (slot'[s] = slot[s] \/ slot'[s] = Unheard(slot[s]))
      BY <1>1 DEF Wipe
    <3>2. Unheard(slot[s]) \in Delivery /\ Unheard(slot[s]).todo \subseteq slot[s].todo /\ Unheard(slot[s]).results = {}
      BY <3>1, UnheardLess
    <3>3. QED
      BY <3>1, <3>2
  <2>2. slot' = [s \in Slots |-> slot'[s]]
    BY DEF Wipe
  <2>3. QED
    BY <2>1, <2>2
<1>7. \A o \in Orders : local[o].status = "NONE" \/ local'[o].status \in Closed
  BY <1>3, <1>5 DEF Closed
<1>8. Onward
  BY <1>1, <1>4, <1>7 DEF Onward, Kept, Closed
<1>9. EntriesSound' /\ EntriesFrom
  BY <1>4 DEF EntriesSound, EntriesFrom
<1>10. \A s \in Slots : DeliverySound(slot[s])'
  BY <1>6, <1>8, <1>9, DeliveriesFollow
<1>11. \A o \in Orders : RowSound(o)'
  <2>1. \A o \in Orders : RowSound(o)
    BY DEF EdgeInv
  <2>2. QED
    BY <1>3, <1>4, <1>5, <2>1 DEF RowSound, Kept, Closed
<1>12. SaleNeverLost' /\ SyncedIsStored' /\ SoldOnce'
  <2>1. SaleNeverLost'
    BY <1>3, <1>5 DEF SaleNeverLost
  <2>2. \A o \in Orders : local[o].sync \in {"synced", "conflict"} => cloud[o].status # "NONE"
    BY DEF EdgeInv, SyncedIsStored
  <2>3. SyncedIsStored'
    BY <1>3, <1>4, <1>5, <2>2 DEF SyncedIsStored, Accepted
  <2>4. SoldOnce'
    BY <1>4 DEF EdgeInv, SoldOnce
  <2>5. QED
    BY <2>1, <2>3, <2>4
<1>13. DrawnSound'
  <2>1. SeriesGapless /\ \A s \in 1..MaxSeries : s > issued => Fresh(s)
    BY DEF EdgeInv, DrawnSound
  <2>2. SeriesGapless'
    BY <1>4, <2>1 DEF SeriesGapless
  <2>3. \A s \in 1..MaxSeries : s > issued => Fresh(s)'
    BY <1>4, <1>5, <2>1 DEF Fresh
  <2>4. QED
    BY <1>1, <1>4, <2>2, <2>3 DEF DrawnSound
<1>14. FiledSound'
  BY <1>4 DEF EdgeInv, FiledSound, FiledAsPrinted
<1>15. TypeOK'
  <2>1. \A s \in Slots : slot'[s].todo \subseteq Op /\ slot'[s].state \in {"free", "busy"}
    BY <1>6 DEF Delivery
  <2>2. series' \in 0..MaxSeries
    BY <1>1, <1>4
  <2>3. QED
    BY <1>4, <1>5, <2>1, <2>2 DEF EdgeInv, TypeOK
<1>16. QED
  BY <1>6, <1>9, <1>10, <1>11, <1>12, <1>13, <1>14, <1>15 DEF EdgeInv

\* A push sends what is queued, as it is on the device now.
LEMMA PushKeeps ==
    ASSUME EdgeInv, NEW s \in Slots, Push(s)
    PROVE  EdgeInv'
<1>1. /\ local \in [Orders -> LocalRow] /\ outbox \subseteq Entry /\ nextEntry \in Nat
      /\ slot \in [Slots -> Delivery] /\ push \in Slots \cup {NoSlot}
  BY EdgeTypes
<1>2. PICK batch \in SUBSET Pending :
         /\ slot' = [slot EXCEPT ![s] = [FreeSlot EXCEPT !.state = "busy",
                                                         !.todo = {OpOf(e) : e \in batch \ Missing(batch)}]]
         /\ outbox' = (outbox \ Missing(batch)) \cup {[e EXCEPT !.status = "rejected"] : e \in Missing(batch)}
  <2>1. PICK waiting \in SUBSET {e \in Pending : e.retried} :
           LET batch == Oldest(Pending \ waiting)
               sent == batch \ Missing(batch)
           IN  /\ slot' = [slot EXCEPT ![s] = [FreeSlot EXCEPT !.state = "busy", !.todo = {OpOf(e) : e \in sent}]]
               /\ outbox' = (outbox \ Missing(batch))
                              \cup {[e EXCEPT !.status = "rejected"] : e \in Missing(batch)}
    BY DEF Push
  <2>2. Oldest(Pending \ waiting) \in SUBSET Pending
    BY DEF Oldest
  <2>3. QED
    BY <2>1, <2>2
<1>3. UNCHANGED <<local, nextEntry, series, lastSeq, printed, cloud, invoices, refused, sold, issued, activating>> /\ push' = s
  BY DEF Push, server, keys
<1>4. PICK sent : sent = batch \ Missing(batch)
  OBVIOUS
<1>5. PICK gone : gone = Missing(batch)
  OBVIOUS
<1>6. /\ gone \subseteq outbox /\ \A e \in gone : e \in Entry /\ e.kind = "ORDER" /\ local[e.order].status = "PURGED"
      /\ sent \subseteq outbox /\ \A e \in sent : e.kind = "ORDER" => local[e.order].status # "PURGED"
  BY <1>1, <1>4, <1>5 DEF Missing, Pending
<1>7. \A e \in outbox' : \/ e \in outbox
                         \/ e \in Entry /\ e.status = "rejected"
                            /\ \E f \in outbox : e.id = f.id /\ e.kind = f.kind /\ e.order = f.order
  <2>1. ASSUME NEW f \in gone
        PROVE  LET e == [f EXCEPT !.status = "rejected"]
               IN  e \in Entry /\ e.status = "rejected" /\ e.id = f.id /\ e.kind = f.kind /\ e.order = f.order
    BY <1>6 DEF Entry
  <2>2. ASSUME NEW e \in outbox', e \notin outbox
        PROVE  /\ e \in Entry /\ e.status = "rejected"
               /\ \E f \in outbox : e.id = f.id /\ e.kind = f.kind /\ e.order = f.order
    <3>1. PICK f \in gone : e = [f EXCEPT !.status = "rejected"]
      BY <1>2, <1>5, <2>2
    <3>2. f \in outbox /\ e \in Entry /\ e.status = "rejected" /\ e.id = f.id /\ e.kind = f.kind /\ e.order = f.order
      BY <1>6, <2>1, <3>1
    <3>3. QED
      BY <3>2
  <2>3. QED
    BY <2>2
<1>8. \A e \in outbox : e \in outbox' \/ (e.kind = "ORDER" /\ local[e.order].status = "PURGED")
  BY <1>2, <1>5, <1>6
<1>9. Onward
  BY <1>1, <1>3 DEF Onward
<1>10. EntriesSound' /\ EntriesFrom
  BY <1>3, <1>7, <1>9, EntriesFollow
<1>11. PICK todo : todo = {OpOf(e) : e \in sent}
  OBVIOUS
<1>12. ASSUME NEW e \in sent
       PROVE  /\ OpOf(e) \in Op /\ OpOf(e).id = e.id /\ OpOf(e).kind = e.kind /\ OpOf(e).order = e.order
              /\ e.id < nextEntry /\ \A f \in outbox : SameWork(e, f)
              /\ e.kind = "ORDER" => /\ local[e.order].status \in Closed
                                     /\ OpOf(e).status = "SETTLED" => /\ OpOf(e).number = printed[e.order]
                                                                      /\ OpOf(e).number # NoNumber
  <2>1. e \in outbox /\ e \in Entry
    BY <1>1, <1>6
  <2>2. e.id < nextEntry /\ (e.kind = "ORDER" => local[e.order].status \in Kept) /\ \A f \in outbox : SameWork(e, f)
    BY <2>1 DEF EdgeInv, EntriesSound
  <2>3. e.id \in Nat /\ e.kind \in {"ORDER", "KOT_STATUS"} /\ e.order \in Orders /\ e.prep \in Preps
    BY <2>1 DEF Entry
  <2>4. local[e.order].prep \in Preps /\ local[e.order].number \in Numbers
    BY <1>1, <2>3 DEF LocalRow
  <2>5. e.kind = "ORDER" => local[e.order].status \in {"SETTLED", "CANCELLED"}
    BY <1>6, <2>2 DEF Kept
  <2>6. NoNumber \in Numbers
    BY NoNumberIsOne
  <2>7. OpOf(e) \in Op
    BY <2>3, <2>4, <2>5, <2>6 DEF OpOf, Op
  <2>8. OpOf(e).id = e.id /\ OpOf(e).kind = e.kind /\ OpOf(e).order = e.order
    BY DEF OpOf
  <2>9. e.kind = "ORDER" /\ OpOf(e).status = "SETTLED" => /\ OpOf(e).number = printed[e.order]
                                                            /\ OpOf(e).number # NoNumber
    <3>1. local[e.order].status = "SETTLED" => /\ local[e.order].number = printed[e.order]
                                               /\ printed[e.order] # NoNumber
      BY <2>3 DEF EdgeInv, RowSound
    <3>2. QED
      BY <3>1 DEF OpOf
  <2>10. QED
    BY <2>2, <2>7, <2>8, <2>9 DEF Kept, Closed
<1>13. PICK d : d = [FreeSlot EXCEPT !.state = "busy", !.todo = todo]
  OBVIOUS
<1>14. d \in Delivery /\ d.todo = todo /\ d.results = {}
  <2>1. todo \subseteq Op
    BY <1>11, <1>12
  <2>2. QED
    BY <1>13, <2>1 DEF FreeSlot, Delivery
<1>15. slot' = [slot EXCEPT ![s] = d]
  BY <1>2, <1>4, <1>11, <1>13
<1>16. slot' \in [Slots -> Delivery] /\ \A q \in Slots : slot'[q] = IF q = s THEN d ELSE slot[q]
  BY <1>1, <1>14, <1>15
<1>17. \A q \in Slots : DeliverySound(slot[q])'
  <2>1. \A q \in Slots \ {s} : DeliverySound(slot[q])'
    BY <1>9, <1>10, <1>16, DeliveriesFollow
  <2>2. DeliverySound(slot[s])'
    <3>1. ASSUME NEW x \in todo
          PROVE  /\ x.id < nextEntry /\ \A f \in outbox' : SameWork(x, f)
                 /\ x.kind = "ORDER" => /\ local[x.order].status \in Closed
                                        /\ x.status = "SETTLED" => x.number = printed[x.order] /\ x.number # NoNumber
      <4>1. PICK e \in sent : x = OpOf(e)
        BY <1>11
      <4>2. \A f \in outbox' : \E g \in outbox : f.id = g.id /\ f.kind = g.kind /\ f.order = g.order
        BY <1>7
      <4>3. /\ x.id = e.id /\ x.kind = e.kind /\ x.order = e.order /\ e.id < nextEntry
            /\ \A g \in outbox : SameWork(e, g)
        BY <1>12, <4>1
      <4>4. \A f \in outbox' : SameWork(x, f)
        BY <4>2, <4>3 DEF SameWork
      <4>5. x.kind = "ORDER" => /\ local[x.order].status \in Closed
                                /\ x.status = "SETTLED" => x.number = printed[x.order] /\ x.number # NoNumber
        BY <1>12, <4>1, <4>3
      <4>6. QED
        BY <4>3, <4>4, <4>5
    <3>2. slot'[s].todo = todo /\ slot'[s].results = {}
      BY <1>14, <1>16
    <3>3. QED
      BY <1>3, <3>1, <3>2 DEF DeliverySound
  <2>3. QED
    BY <2>1, <2>2
<1>18. \A o \in Orders : RowSound(o)'
  BY <1>3 DEF EdgeInv, RowSound
<1>19. SaleNeverLost'
  <2>1. ASSUME NEW o \in Orders, Queued(o), local[o].status # "PURGED" PROVE Queued(o)'
    BY <1>8, <2>1 DEF Queued
  <2>2. QED
    BY <1>3, <2>1 DEF EdgeInv, SaleNeverLost
<1>20. SyncedIsStored'
  <2>1. \A o \in Orders : Accepted(o)' => Accepted(o)
    BY <1>7 DEF Accepted
  <2>2. QED
    BY <1>3, <2>1 DEF EdgeInv, SyncedIsStored
<1>21. TypeOK' /\ SoldOnce' /\ DrawnSound' /\ FiledSound'
  <2>1. SoldOnce' /\ DrawnSound' /\ FiledSound'
    BY <1>3, NumbersFollow DEF EdgeInv, SoldOnce
  <2>2. \A q \in Slots : slot'[q].todo \subseteq Op /\ slot'[q].state \in {"free", "busy"}
    BY <1>16 DEF Delivery
  <2>3. outbox' \subseteq Entry /\ push' \in Slots \cup {NoSlot}
    BY <1>1, <1>3, <1>7
  <2>4. TypeOK'
    BY <1>3, <2>2, <2>3 DEF EdgeInv, TypeOK
  <2>5. QED
    BY <2>1, <2>4
<1>22. QED
  BY <1>10, <1>16, <1>17, <1>18, <1>19, <1>20, <1>21 DEF EdgeInv

\* Storing the answers of a batch: a final answer on an order is one the cloud has
\* acted on, so the device gives up an entry only for an order that is kept.
LEMMA AnswersStored ==
    ASSUME EdgeInv, NEW s \in Slots, StoreAnswers(s)
    PROVE  EdgeInv'
<1>1. /\ local \in [Orders -> LocalRow] /\ outbox \subseteq Entry /\ nextEntry \in Nat
      /\ slot \in [Slots -> Delivery]
  BY EdgeTypes
<1>2. PICK rs : rs = slot[s].results
  OBVIOUS
<1>3. /\ outbox' = {LET mine == {r \in rs : r.id = e.id}
                    IN  IF mine = {} THEN e ELSE Applied(e, CHOOSE r \in mine : TRUE) : e \in outbox}
      /\ local' = [o \in Orders |->
                      IF FinalFor(rs, o) = {} THEN local[o]
                      ELSE [local[o] EXCEPT !.sync = SyncState((CHOOSE r \in FinalFor(rs, o) : TRUE).status)]]
      /\ push' = NoSlot /\ slot' = [slot EXCEPT ![s] = FreeSlot]
  BY <1>2 DEF StoreAnswers
<1>4. UNCHANGED <<nextEntry, series, lastSeq, printed, cloud, invoices, refused, sold, issued, activating>>
  BY DEF StoreAnswers, server, keys
<1>5. /\ \A r \in rs : r.status \in Results /\ r.id \in Nat
      /\ \A r \in rs : \A e \in outbox : SameWork(r, e)
      /\ \A r \in rs : r.kind = "ORDER" => /\ r.status \in Stored => cloud[r.order].status # "NONE"
                                           /\ r.status = "rejected" => r.order \in refused
  <2>1. slot[s] \in Delivery /\ DeliverySound(slot[s])
    BY <1>1 DEF EdgeInv
  <2>2. \A r \in rs : r.status \in Results /\ r.id \in Nat
    BY <1>2, <2>1 DEF Delivery
  <2>3. QED
    BY <1>2, <2>1, <2>2 DEF DeliverySound
<1>6. ASSUME NEW f \in outbox, NEW r \in rs
      PROVE  /\ Applied(f, r) \in Entry /\ Applied(f, r).id = f.id /\ Applied(f, r).kind = f.kind
             /\ Applied(f, r).order = f.order
             /\ r.status = "retry" => Applied(f, r).status = f.status
             /\ r.status \in Stored => Applied(f, r).status \in {"done", "conflict"}
             /\ r.status = "rejected" => Applied(f, r).status = "rejected"
  <2>1. f \in Entry /\ r.status \in Results
    BY <1>1, <1>5
  <2>2. /\ FinalStatus(r.status) \in {"rejected", "conflict", "done"}
        /\ r.status \in Stored => FinalStatus(r.status) \in {"done", "conflict"}
        /\ r.status = "rejected" => FinalStatus(r.status) = "rejected"
    BY DEF FinalStatus, Stored
  <2>3. CASE r.status = "retry"
    <3>1. Applied(f, r) = [f EXCEPT !.retried = TRUE]
      BY <2>3 DEF Applied
    <3>2. QED
      BY <2>1, <2>3, <3>1 DEF Entry, Stored
  <2>4. CASE r.status # "retry"
    <3>1. Applied(f, r) = [f EXCEPT !.status = FinalStatus(r.status)]
      BY <2>4 DEF Applied
    <3>2. PICK g : g = [f EXCEPT !.status = FinalStatus(r.status)]
      OBVIOUS
    <3>3. g \in Entry /\ g.id = f.id /\ g.kind = f.kind /\ g.order = f.order /\ g.status = FinalStatus(r.status)
      BY <2>1, <2>2, <3>2 DEF Entry
    <3>4. QED
      BY <2>2, <2>4, <3>1, <3>2, <3>3
  <2>5. QED
    BY <2>3, <2>4
<1>7. \A e \in outbox' : \E f \in outbox : \/ e = f
                                           \/ \E r \in rs : r.id = f.id /\ e = Applied(f, r)
  <2>1. SUFFICES ASSUME NEW e \in outbox'
                 PROVE  \E f \in outbox : e = f \/ \E r \in rs : r.id = f.id /\ e = Applied(f, r)
    OBVIOUS
  <2>2. PICK f \in outbox : e = LET mine == {r \in rs : r.id = f.id}
                                IN  IF mine = {} THEN f ELSE Applied(f, CHOOSE r \in mine : TRUE)
    BY <1>3
  <2>3. CASE {r \in rs : r.id = f.id} = {}
    BY <2>2, <2>3
  <2>4. CASE {r \in rs : r.id = f.id} # {}
    <3>1. PICK r : r = CHOOSE x \in {y \in rs : y.id = f.id} : TRUE
      OBVIOUS
    <3>2. r \in rs /\ r.id = f.id
      BY <2>4, <3>1
    <3>3. e = Applied(f, r)
      BY <2>2, <2>4, <3>1
    <3>4. QED
      BY <3>2, <3>3
  <2>5. QED
    BY <2>3, <2>4
<1>8. \A f \in outbox : \E e \in outbox' : \/ e = f
                                           \/ \E r \in rs : r.id = f.id /\ e = Applied(f, r)
  <2>1. SUFFICES ASSUME NEW f \in outbox
                 PROVE  \E e \in outbox' : e = f \/ \E r \in rs : r.id = f.id /\ e = Applied(f, r)
    OBVIOUS
  <2>2. PICK e \in outbox' : e = LET mine == {r \in rs : r.id = f.id}
                                 IN  IF mine = {} THEN f ELSE Applied(f, CHOOSE r \in mine : TRUE)
    <3>1. (LET mine == {r \in rs : r.id = f.id} IN IF mine = {} THEN f ELSE Applied(f, CHOOSE r \in mine : TRUE))
             \in {LET mine == {r \in rs : r.id = e.id}
                  IN  IF mine = {} THEN e ELSE Applied(e, CHOOSE r \in mine : TRUE) : e \in outbox}
      BY Zenon
    <3>2. QED
      BY <1>3, <3>1, Zenon
  <2>3. CASE {r \in rs : r.id = f.id} = {}
    BY <2>2, <2>3
  <2>4. CASE {r \in rs : r.id = f.id} # {}
    <3>1. PICK r : r = CHOOSE x \in {y \in rs : y.id = f.id} : TRUE
      OBVIOUS
    <3>2. r \in rs /\ r.id = f.id
      BY <2>4, <3>1
    <3>3. e = Applied(f, r)
      BY <2>2, <2>4, <3>1
    <3>4. QED
      BY <3>2, <3>3
  <2>5. QED
    BY <2>3, <2>4
<1>9. ASSUME NEW o \in Orders
      PROVE  /\ local'[o] \in LocalRow /\ local'[o].status = local[o].status /\ local'[o].number = local[o].number
             /\ FinalFor(rs, o) = {} => local'[o] = local[o]
             /\ FinalFor(rs, o) # {} => \/ cloud[o].status # "NONE"
                                        \/ o \in refused /\ local'[o].sync = "rejected"
  <2>1. local[o] \in LocalRow
    BY <1>1
  <2>2. CASE FinalFor(rs, o) = {}
    <3>1. local'[o] = local[o]
      BY <1>3, <2>2
    <3>2. QED
      BY <2>1, <2>2, <3>1
  <2>3. CASE FinalFor(rs, o) # {}
    <3>1. PICK r : r = CHOOSE x \in FinalFor(rs, o) : TRUE
      OBVIOUS
    <3>2. r \in FinalFor(rs, o)
      BY <2>3, <3>1
    <3>3. r \in rs /\ r.kind = "ORDER" /\ r.order = o /\ r.status # "retry" /\ r.status \in Results
      BY <1>5, <3>2 DEF FinalFor
    <3>4. local'[o] = [local[o] EXCEPT !.sync = SyncState(r.status)]
      BY <1>3, <2>3, <3>1
    <3>5. SyncState(r.status) \in {"rejected", "conflict", "synced"}
          /\ (r.status = "rejected" => SyncState(r.status) = "rejected")
      BY DEF SyncState
    <3>6. PICK g : g = [local[o] EXCEPT !.sync = SyncState(r.status)]
      OBVIOUS
    <3>7. g \in LocalRow /\ g.status = local[o].status /\ g.number = local[o].number /\ g.sync = SyncState(r.status)
      BY <2>1, <3>5, <3>6 DEF LocalRow
    <3>8. r.status \in Stored \/ r.status = "rejected"
      BY <3>3 DEF Results, Stored
    <3>9. cloud[o].status # "NONE" \/ (o \in refused /\ r.status = "rejected")
      BY <1>5, <3>3, <3>8
    <3>10. QED
      BY <2>3, <3>4, <3>5, <3>6, <3>7, <3>9
  <2>4. QED
    BY <2>2, <2>3
<1>10. Onward
  BY <1>1, <1>4, <1>9 DEF Onward
<1>11. \A e \in outbox' : e \in Entry /\ \E f \in outbox : e.id = f.id /\ e.kind = f.kind /\ e.order = f.order
  BY <1>1, <1>6, <1>7
<1>12. EntriesSound' /\ EntriesFrom
  BY <1>9, <1>10, <1>11, EntriesFollow
<1>13. FreeSlot \in Delivery /\ FreeSlot.todo = {} /\ FreeSlot.results = {}
  BY DEF FreeSlot, Delivery
<1>14. slot' \in [Slots -> Delivery] /\ \A q \in Slots : slot'[q] = IF q = s THEN FreeSlot ELSE slot[q]
  BY <1>1, <1>3, <1>13
<1>15. \A q \in Slots : DeliverySound(slot[q])'
  BY <1>10, <1>12, <1>13, <1>14, DeliveriesFollow
<1>16. \A o \in Orders : RowSound(o)'
  BY <1>4, <1>9 DEF EdgeInv, RowSound
<1>17. SaleNeverLost'
  <2>1. ASSUME NEW o \in Orders, local[o].status \in Kept
        PROVE  \/ Queued(o)' /\ local[o].status # "PURGED"
               \/ cloud[o].status # "NONE"
               \/ o \in refused /\ local'[o].sync = "rejected"
    <3>1. CASE FinalFor(rs, o) # {}
      BY <1>9, <3>1
    <3>2. CASE FinalFor(rs, o) = {}
      <4>1. ASSUME Queued(o) PROVE Queued(o)'
        <5>1. PICK f \in outbox : f.kind = "ORDER" /\ f.order = o /\ f.status = "pending"
          BY <4>1 DEF Queued
        <5>2. PICK e \in outbox' : e = f \/ \E r \in rs : r.id = f.id /\ e = Applied(f, r)
          BY <1>8
        <5>3. CASE e = f
          BY <5>1, <5>2, <5>3 DEF Queued
        <5>4. CASE e # f
          <6>1. PICK r \in rs : r.id = f.id /\ e = Applied(f, r)
            BY <5>2, <5>4
          <6>2. r.kind = "ORDER" /\ r.order = o
            BY <1>5, <5>1, <6>1 DEF SameWork
          <6>3. r.status = "retry"
            BY <3>2, <6>2 DEF FinalFor
          <6>4. e.kind = "ORDER" /\ e.order = o /\ e.status = "pending"
            BY <1>6, <5>1, <6>1, <6>3
          <6>5. QED
            BY <5>2, <6>4 DEF Queued
        <5>5. QED
          BY <5>3, <5>4
      <4>2. local'[o] = local[o]
        BY <1>9, <3>2
      <4>3. QED
        BY <2>1, <4>1, <4>2 DEF EdgeInv, SaleNeverLost, Kept, Closed
    <3>3. QED
      BY <3>1, <3>2
  <2>2. QED
    BY <1>4, <1>9, <2>1 DEF SaleNeverLost, Kept, Closed
<1>18. SyncedIsStored'
  <2>1. ASSUME NEW o \in Orders, local'[o].sync \in {"synced", "conflict"} PROVE cloud[o].status # "NONE"
    BY <1>9, <2>1 DEF EdgeInv, SyncedIsStored
  <2>2. ASSUME NEW o \in Orders, Accepted(o)' PROVE cloud[o].status # "NONE"
    <3>1. PICK e \in outbox' : e.kind = "ORDER" /\ e.order = o /\ e.status \in {"done", "conflict"}
      BY <2>2 DEF Accepted
    <3>2. PICK f \in outbox : e = f \/ \E r \in rs : r.id = f.id /\ e = Applied(f, r)
      BY <1>7
    <3>3. ASSUME Accepted(o) PROVE cloud[o].status # "NONE"
      BY <3>3 DEF EdgeInv, SyncedIsStored
    <3>4. CASE e = f
      BY <3>1, <3>3, <3>4 DEF Accepted
    <3>5. CASE e # f
      <4>1. PICK r \in rs : r.id = f.id /\ e = Applied(f, r)
        BY <3>2, <3>5
      <4>2. f.kind = "ORDER" /\ f.order = o
        BY <1>6, <3>1, <4>1
      <4>3. r.kind = "ORDER" /\ r.order = o
        BY <1>5, <4>1, <4>2 DEF SameWork
      <4>4. CASE r.status = "retry"
        <5>1. f.status \in {"done", "conflict"}
          BY <1>6, <3>1, <4>1, <4>4
        <5>2. QED
          BY <3>3, <4>2, <5>1 DEF Accepted
      <4>5. CASE r.status # "retry"
        <5>1. r.status \in Results /\ r.status # "rejected"
          BY <1>5, <1>6, <3>1, <4>1
        <5>2. r.status \in Stored
          BY <4>5, <5>1 DEF Results, Stored
        <5>3. QED
          BY <1>5, <4>3, <5>2
      <4>6. QED
        BY <4>4, <4>5
    <3>6. QED
      BY <3>4, <3>5
  <2>3. QED
    BY <1>4, <2>1, <2>2 DEF SyncedIsStored
<1>19. TypeOK' /\ SoldOnce' /\ DrawnSound' /\ FiledSound'
  <2>1. SoldOnce' /\ DrawnSound' /\ FiledSound'
    BY <1>4, NumbersFollow DEF EdgeInv, SoldOnce
  <2>2. local' \in [Orders -> LocalRow]
    BY <1>3, <1>9
  <2>3. \A q \in Slots : slot'[q].todo \subseteq Op /\ slot'[q].state \in {"free", "busy"}
    BY <1>14 DEF Delivery
  <2>4. outbox' \subseteq Entry /\ push' \in Slots \cup {NoSlot}
    BY <1>3, <1>11
  <2>5. TypeOK'
    BY <1>4, <2>2, <2>3, <2>4 DEF EdgeInv, TypeOK
  <2>6. QED
    BY <2>1, <2>5
<1>20. QED
  BY <1>12, <1>14, <1>15, <1>16, <1>17, <1>18, <1>19 DEF EdgeInv

\* the step took op off the delivery in slot s and added at most its answer
Replied(s, op, status) ==
    /\ slot' \in [Slots -> Delivery] /\ \A q \in Slots \ {s} : slot'[q] = slot[q]
    /\ slot'[s].todo \subseteq slot[s].todo
    /\ \A r \in slot'[s].results :
          \/ r \in slot[s].results
          \/ r.id = op.id /\ r.order = op.order /\ r.kind = op.kind /\ r.status = status

\* what the cloud has it keeps
CloudGrows ==
    /\ \A o \in Orders : cloud[o].status # "NONE" => cloud'[o].status # "NONE"
    /\ refused \subseteq refused'

\* Answering an operation takes it off the delivery and adds at most its answer.
LEMMA AnswerGiven ==
    ASSUME EdgeInv, NEW s \in Slots, NEW kind, Handling(s, kind), NEW status \in Results, Answer(s, status)
    PROVE  Replied(s, Current(s), status)
<1>1. slot \in [Slots -> Delivery] /\ slot[s] \in Delivery
  BY EdgeTypes
<1>2. PICK op : op = Current(s)
  OBVIOUS
<1>3. op \in slot[s].todo /\ op \in Op
  BY <1>1, <1>2, CurrentInHand DEF Handling, Delivery
<1>4. PICK a : a = [id |-> op.id, order |-> op.order, kind |-> op.kind, status |-> status]
  OBVIOUS
<1>5. PICK d : d = [slot[s] EXCEPT !.todo = @ \ {op}, !.checked = FALSE, !.results = @ \cup {a}]
  OBVIOUS
<1>6. a \in [id : Nat, order : Orders, kind : {"ORDER", "KOT_STATUS"}, status : Results]
  BY <1>3, <1>4 DEF Op
<1>7. d \in Delivery /\ d.todo = slot[s].todo \ {op} /\ d.results = slot[s].results \cup {a}
  BY <1>1, <1>5, <1>6 DEF Delivery
<1>8. PICK c : c = IF push = s THEN d ELSE Unheard(d)
  OBVIOUS
<1>9. slot' = [slot EXCEPT ![s] = c]
  BY <1>2, <1>4, <1>5, <1>8 DEF Answer
<1>10. c \in Delivery /\ c.todo \subseteq d.todo /\ c.results \subseteq d.results
  <2>1. FreeSlot \in Delivery /\ FreeSlot.todo = {} /\ FreeSlot.results = {}
    BY DEF FreeSlot, Delivery
  <2>2. PICK u : u = [d EXCEPT !.results = {}]
    OBVIOUS
  <2>3. u \in Delivery /\ u.todo = d.todo /\ u.results = {}
    BY <1>7, <2>2 DEF Delivery
  <2>4. Unheard(d) = IF d.todo = {} THEN FreeSlot ELSE u
    BY <2>2 DEF Unheard
  <2>5. QED
    BY <1>7, <1>8, <2>1, <2>3, <2>4
<1>11. slot' \in [Slots -> Delivery] /\ \A q \in Slots : slot'[q] = IF q = s THEN c ELSE slot[q]
  BY <1>1, <1>9, <1>10
<1>12. a.id = op.id /\ a.order = op.order /\ a.kind = op.kind /\ a.status = status
  BY <1>4
<1>13. QED
  BY <1>2, <1>7, <1>10, <1>11, <1>12 DEF Replied

\* A step of the cloud on one operation keeps deliveries and entries sound when its
\* answer says what the cloud has done.
LEMMA CloudStep ==
    ASSUME EdgeInv, NEW s \in Slots, NEW op \in slot[s].todo, NEW status, Replied(s, op, status), CloudGrows,
           op.kind = "ORDER" => /\ status \in Stored => cloud'[op.order].status # "NONE"
                                /\ status = "rejected" => op.order \in refused',
           UNCHANGED <<device, push, keys>>
    PROVE  EntriesSound' /\ \A q \in Slots : DeliverySound(slot[q])'
<1>1. UNCHANGED <<local, outbox, nextEntry, series, lastSeq, printed>> /\ nextEntry \in Nat
  BY EdgeTypes DEF device
<1>2. Onward /\ EntriesFrom
  BY <1>1 DEF Onward, EntriesFrom, CloudGrows
<1>3. EntriesSound'
  BY <1>1 DEF EdgeInv, EntriesSound
<1>4. \A q \in Slots \ {s} : DeliverySound(slot[q])'
  BY <1>2, DeliveriesFollow DEF Replied
<1>5. DeliverySound(slot[s])'
  <2>1. slot[s] \in Delivery /\ DeliverySound(slot[s])
    BY EdgeTypes DEF EdgeInv
  <2>2. ASSUME NEW x \in slot'[s].todo \cup slot'[s].results
        PROVE  x.id < nextEntry /\ \A e \in outbox : SameWork(x, e)
    <3>1. \/ x \in slot[s].todo \cup slot[s].results
          \/ x.id = op.id /\ x.order = op.order /\ x.kind = op.kind
      BY DEF Replied
    <3>2. op.id < nextEntry /\ \A e \in outbox : SameWork(op, e)
      BY <2>1 DEF DeliverySound
    <3>3. QED
      BY <2>1, <3>1, <3>2 DEF DeliverySound, SameWork
  <2>3. ASSUME NEW x \in slot'[s].todo, x.kind = "ORDER"
        PROVE  local[x.order].status \in Closed /\ (x.status = "SETTLED" => x.number = printed[x.order] /\ x.number # NoNumber)
    BY <2>1, <2>3 DEF DeliverySound, Replied
  <2>4. ASSUME NEW r \in slot'[s].results, r.kind = "ORDER"
        PROVE  /\ r.status \in Stored => cloud'[r.order].status # "NONE"
               /\ r.status = "rejected" => r.order \in refused'
    <3>1. CASE r \in slot[s].results
      <4>1. r.order \in Orders
        BY <2>1, <3>1 DEF Delivery
      <4>2. QED
        BY <2>1, <2>4, <3>1, <4>1 DEF DeliverySound, CloudGrows
    <3>2. CASE r \notin slot[s].results
      BY <2>4, <3>2 DEF Replied
    <3>3. QED
      BY <3>1, <3>2
  <2>5. QED
    BY <1>1, <2>2, <2>3, <2>4 DEF DeliverySound
<1>6. QED
  BY <1>3, <1>4, <1>5

\* The rest of the invariant, when the cloud's orders keep status and number.
LEMMA CloudStays ==
    ASSUME EdgeInv, UNCHANGED <<device, push, invoices, sold, keys>>,
           cloud' \in [Orders -> CloudRow], refused \subseteq refused', refused' \subseteq Orders,
           \A o \in Orders : cloud'[o].status = cloud[o].status /\ cloud'[o].number = cloud[o].number,
           slot' \in [Slots -> Delivery], EntriesSound', \A s \in Slots : DeliverySound(slot[s])'
    PROVE  EdgeInv'
<1>1. UNCHANGED <<local, outbox, nextEntry, series, lastSeq, printed, issued, activating>>
  BY DEF device, keys
<1>2. \A o \in Orders : RowSound(o)'
  BY <1>1 DEF EdgeInv, RowSound
<1>3. SaleNeverLost' /\ SyncedIsStored'
  BY <1>1 DEF EdgeInv, SaleNeverLost, Queued, SyncedIsStored, Accepted
<1>4. SoldOnce' /\ DrawnSound' /\ FiledSound'
  BY <1>1, NumbersFollow DEF EdgeInv, SoldOnce
<1>5. TypeOK'
  <2>1. \A q \in Slots : slot'[q].todo \subseteq Op /\ slot'[q].state \in {"free", "busy"}
    BY DEF Delivery
  <2>2. QED
    BY <1>1, <2>1 DEF EdgeInv, TypeOK
<1>6. QED
  BY <1>2, <1>3, <1>4, <1>5 DEF EdgeInv

\* Recording a sale the cloud does not have books it once, under the printed number.
LEMMA SaleRecorded ==
    ASSUME EdgeInv, NEW s \in Slots, NEW status \in {"applied", "conflict"}, Handling(s, "ORDER"),
           Answer(s, status), cloud[Current(s).order].status = "NONE", Commit(Current(s)),
           UNCHANGED <<device, push, keys>>
    PROVE  EdgeInv'
<1>1. /\ slot \in [Slots -> Delivery] /\ cloud \in [Orders -> CloudRow] /\ invoices \subseteq Numbers
      /\ sold \in [Orders -> Nat] /\ refused \subseteq Orders /\ printed \in [Orders -> Numbers]
  BY EdgeTypes
<1>2. PICK op : op = Current(s)
  OBVIOUS
<1>3. op \in slot[s].todo /\ op \in Op /\ op.kind = "ORDER"
  BY <1>1, <1>2, CurrentInHand DEF Handling, Delivery
<1>4. PICK o : o = op.order
  OBVIOUS
<1>5. o \in Orders /\ op.status \in {"SETTLED", "CANCELLED"} /\ op.number \in Numbers /\ op.prep \in Preps
      /\ cloud[o].status = "NONE"
  BY <1>2, <1>3, <1>4 DEF Op
<1>6. PICK c : c = [status |-> op.status, prep |-> op.prep, number |-> CloudNumber(op)]
  OBVIOUS
<1>7. c \in CloudRow /\ c.status = op.status /\ c.number = CloudNumber(op)
  <2>1. CloudNumber(op) \in Numbers \cup {Fallback}
    BY <1>5, NoNumberIsOne DEF CloudNumber
  <2>2. QED
    BY <1>5, <1>6, <2>1 DEF CloudRow
<1>8. /\ cloud' = [cloud EXCEPT ![o] = c]
      /\ invoices' = invoices \cup ({CloudNumber(op)} \ {NoNumber, Fallback})
      /\ sold' = [sold EXCEPT ![o] = @ + 1] /\ refused' = refused
  BY <1>2, <1>4, <1>6 DEF Commit, BookSale
<1>9. \A x \in Orders : cloud'[x] = IF x = o THEN c ELSE cloud[x]
  BY <1>1, <1>8
<1>10. \A x \in Orders : cloud[x].status # "NONE" => cloud'[x].status # "NONE"
  BY <1>5, <1>7, <1>9
<1>11. Replied(s, op, status) /\ slot' \in [Slots -> Delivery]
  <2>1. status \in Results
    BY DEF Results
  <2>2. QED
    BY <1>2, <2>1, AnswerGiven DEF Replied
<1>12. EntriesSound' /\ \A q \in Slots : DeliverySound(slot[q])'
  <2>1. cloud'[op.order].status # "NONE" /\ status # "rejected"
    BY <1>4, <1>5, <1>7, <1>9
  <2>2. CloudGrows
    BY <1>8, <1>10 DEF CloudGrows
  <2>3. QED
    BY <1>3, <1>11, <2>1, <2>2, CloudStep
<1>13. UNCHANGED <<local, outbox, nextEntry, series, lastSeq, printed, push, issued, activating>>
  BY DEF device, keys
<1>14. local[o].status \in Closed /\ (op.status = "SETTLED" => op.number = printed[o] /\ op.number # NoNumber)
  <2>1. DeliverySound(slot[s])
    BY DEF EdgeInv
  <2>2. QED
    BY <1>3, <1>4, <2>1 DEF DeliverySound
<1>15. \A x \in Orders : RowSound(x)'
  <2>1. \A x \in Orders : RowSound(x)
    BY DEF EdgeInv
  <2>2. ASSUME NEW x \in Orders, x # o PROVE RowSound(x)'
    BY <1>9, <1>13, <2>1, <2>2 DEF RowSound
  <2>3. RowSound(o)'
    BY <1>5, <1>7, <1>9, <1>13, <1>14, <2>1 DEF RowSound
  <2>4. QED
    BY <2>2, <2>3
<1>16. SaleNeverLost'
  BY <1>8, <1>10, <1>13 DEF EdgeInv, SaleNeverLost, Queued
<1>17. SyncedIsStored'
  BY <1>10, <1>13 DEF EdgeInv, SyncedIsStored, Accepted
<1>18. SoldOnce'
  <2>1. \A x \in Orders : sold'[x] = IF x = o THEN sold[x] + 1 ELSE sold[x]
    BY <1>1, <1>8
  <2>2. \A x \in Orders : sold[x] = IF cloud[x].status = "NONE" THEN 0 ELSE 1
    BY DEF EdgeInv, SoldOnce
  <2>3. cloud'[o].status # "NONE"
    BY <1>5, <1>7, <1>9
  <2>4. \A x \in Orders : sold'[x] = IF cloud'[x].status = "NONE" THEN 0 ELSE 1
    BY <1>5, <1>9, <2>1, <2>2, <2>3
  <2>5. QED
    BY <2>4 DEF SoldOnce
<1>19. DrawnSound' /\ FiledSound'
  <2>1. /\ \A n \in invoices : \E x \in Orders : cloud[x].status = "SETTLED" /\ printed[x] = n
        /\ \A x \in Orders : cloud[x].status = "SETTLED" => cloud[x].number = printed[x] /\ printed[x] \in invoices
    BY DEF EdgeInv, FiledSound, FiledAsPrinted
  <2>2. DrawnSound'
    BY <1>13 DEF EdgeInv, DrawnSound, Fresh, SeriesGapless
  <2>3. op.status = "SETTLED" => CloudNumber(op) = printed[o] /\ printed[o] \notin {NoNumber, Fallback}
    <3>1. SUFFICES ASSUME op.status = "SETTLED" PROVE CloudNumber(op) = printed[o] /\ printed[o] \notin {NoNumber, Fallback}
      OBVIOUS
    <3>2. op.number = printed[o] /\ printed[o] # NoNumber /\ printed[o] \in Numbers
      BY <1>1, <1>5, <1>14, <3>1
    <3>3. printed[o][1] \in 1..MaxSeries
      BY <3>2 DEF Numbers
    <3>4. printed[o][1] <= issued
      <4>1. issued \in 1..MaxSeries /\ MaxSeries \in Nat
        BY EdgeTypes, EdgeAssumption
      <4>2. ~Fresh(printed[o][1])
        BY <1>5 DEF Fresh
      <4>3. ~(printed[o][1] > issued)
        BY <3>3, <4>2 DEF EdgeInv, DrawnSound
      <4>4. QED
        BY <3>3, <4>1, <4>3
    <3>5. Owned(op.number[1]) /\ printed[o] # Fallback
      BY <3>2, <3>3, <3>4, EdgeTypes DEF Owned, Fallback
    <3>6. printed[o] \notin invoices
      <4>1. SUFFICES ASSUME printed[o] \in invoices PROVE FALSE
        OBVIOUS
      <4>2. PICK x \in Orders : cloud[x].status = "SETTLED" /\ printed[x] = printed[o]
        BY <2>1, <4>1
      <4>3. x = o
        BY <1>5, <3>2, <4>2 DEF EdgeInv, DrawnSound, SeriesGapless
      <4>4. QED
        BY <1>5, <4>2, <4>3
    <3>7. QED
      BY <3>1, <3>2, <3>5, <3>6 DEF CloudNumber
  <2>4. op.status # "SETTLED" => CloudNumber(op) = NoNumber
    BY DEF CloudNumber
  <2>5. \A n \in invoices' : \E x \in Orders : cloud'[x].status = "SETTLED" /\ printed[x] = n
    <3>1. SUFFICES ASSUME NEW n \in invoices' PROVE \E x \in Orders : cloud'[x].status = "SETTLED" /\ printed[x] = n
      OBVIOUS
    <3>2. CASE n \in invoices
      <4>1. PICK x \in Orders : cloud[x].status = "SETTLED" /\ printed[x] = n
        BY <2>1, <3>2
      <4>2. x # o
        BY <1>5, <4>1
      <4>3. QED
        BY <1>9, <4>1, <4>2
    <3>3. CASE n \notin invoices
      <4>1. n = CloudNumber(op) /\ n # NoNumber
        BY <1>8, <3>1, <3>3
      <4>2. op.status = "SETTLED"
        BY <2>4, <4>1
      <4>3. n = printed[o] /\ cloud'[o].status = "SETTLED"
        BY <1>5, <1>7, <1>9, <2>3, <4>1, <4>2
      <4>4. QED
        BY <1>5, <4>3
    <3>4. QED
      BY <3>2, <3>3
  <2>6. \A x \in Orders : cloud'[x].status = "SETTLED" => cloud'[x].number = printed[x] /\ printed[x] \in invoices'
    <3>1. SUFFICES ASSUME NEW x \in Orders, cloud'[x].status = "SETTLED"
                   PROVE  cloud'[x].number = printed[x] /\ printed[x] \in invoices'
      OBVIOUS
    <3>2. CASE x = o
      <4>1. op.status = "SETTLED"
        BY <1>7, <1>9, <3>1, <3>2
      <4>2. QED
        BY <1>7, <1>8, <1>9, <2>3, <3>2, <4>1
    <3>3. CASE x # o
      BY <1>8, <1>9, <2>1, <3>1, <3>3
    <3>4. QED
      BY <3>2, <3>3
  <2>7. FiledSound'
    BY <1>13, <2>5, <2>6 DEF FiledSound, FiledAsPrinted
  <2>8. QED
    BY <2>2, <2>7
<1>20. TypeOK'
  <2>1. \A q \in Slots : slot'[q].todo \subseteq Op /\ slot'[q].state \in {"free", "busy"}
    BY <1>11 DEF Delivery
  <2>2. cloud' \in [Orders -> CloudRow]
    BY <1>1, <1>7, <1>8
  <2>3. sold' \in [Orders -> Nat]
    BY <1>1, <1>5, <1>8
  <2>4. invoices' \subseteq Numbers /\ refused' \subseteq Orders
    <3>1. CloudNumber(op) \in Numbers \/ CloudNumber(op) = Fallback
      BY <1>5, NoNumberIsOne DEF CloudNumber
    <3>2. QED
      BY <1>1, <1>8, <3>1
  <2>5. QED
    BY <1>13, <2>1, <2>2, <2>3, <2>4 DEF EdgeInv, TypeOK
<1>21. QED
  BY <1>11, <1>12, <1>15, <1>16, <1>17, <1>18, <1>19, <1>20 DEF EdgeInv

\* The cloud's handling of an operation keeps the invariant.
LEMMA CloudKeeps ==
    ASSUME EdgeInv, NEW s \in Slots, FindOrder(s) \/ InsertOrder(s) \/ InsertFails(s) \/ ApplyKotStatus(s)
    PROVE  EdgeInv'
<1>1. /\ slot \in [Slots -> Delivery] /\ cloud \in [Orders -> CloudRow] /\ refused \subseteq Orders
  BY EdgeTypes
<1>2. PICK op : op = Current(s)
  OBVIOUS
<1>3. op \in slot[s].todo /\ op \in Op
  BY <1>1, <1>2, CurrentInHand DEF FindOrder, InsertOrder, InsertFails, ApplyKotStatus, Handling, Delivery
<1>4. op.order \in Orders /\ op.prep \in Preps
  BY <1>3 DEF Op
<1>5. UNCHANGED <<device, push, keys>>
  BY DEF FindOrder, InsertOrder, InsertFails, ApplyKotStatus
<1>6. ASSUME NEW kind, Handling(s, kind), NEW status \in Results, Answer(s, status), UNCHANGED <<invoices, sold>>,
             cloud' \in [Orders -> CloudRow], refused \subseteq refused', refused' \subseteq Orders,
             \A o \in Orders : cloud'[o].status = cloud[o].status /\ cloud'[o].number = cloud[o].number,
             kind = "ORDER" => /\ status \in Stored => cloud[op.order].status # "NONE"
                               /\ status = "rejected" => op.order \in refused'
      PROVE  EdgeInv'
  <2>1. Replied(s, op, status) /\ slot' \in [Slots -> Delivery]
    BY <1>2, <1>6, AnswerGiven DEF Replied
  <2>2. op.kind = kind
    BY <1>2, <1>6 DEF Handling
  <2>3. CloudGrows
    BY <1>6 DEF CloudGrows
  <2>4. op.kind = "ORDER" => /\ status \in Stored => cloud'[op.order].status # "NONE"
                             /\ status = "rejected" => op.order \in refused'
    BY <1>4, <1>6, <2>2
  <2>5. EntriesSound' /\ \A q \in Slots : DeliverySound(slot[q])'
    BY <1>3, <1>5, <2>1, <2>3, <2>4, CloudStep
  <2>6. QED
    BY <1>5, <1>6, <2>1, <2>5, CloudStays
<1>7. {"duplicate", "retry", "rejected", "applied"} \subseteq Results /\ "retry" \notin Stored /\ "rejected" \notin Stored
  BY DEF Results, Stored
<1>8. CASE FindOrder(s) /\ cloud[op.order].status # "NONE"
  <2>1. Handling(s, "ORDER") /\ Answer(s, "duplicate") /\ UNCHANGED <<cloud, invoices, refused, sold>>
    BY <1>2, <1>8 DEF FindOrder, server
  <2>2. QED
    BY <1>1, <1>6, <1>7, <1>8, <2>1
<1>9. CASE FindOrder(s) /\ cloud[op.order].status = "NONE"
  <2>1. slot' = [slot EXCEPT ![s].checked = TRUE] /\ UNCHANGED server
    BY <1>2, <1>9 DEF FindOrder
  <2>2. PICK d : d = [slot[s] EXCEPT !.checked = TRUE]
    OBVIOUS
  <2>3. d \in Delivery /\ d.todo = slot[s].todo /\ d.results = slot[s].results
    BY <1>1, <2>2 DEF Delivery
  <2>4. slot' \in [Slots -> Delivery] /\ \A q \in Slots : slot'[q] = IF q = s THEN d ELSE slot[q]
    BY <1>1, <2>1, <2>2, <2>3
  <2>5. UNCHANGED <<local, outbox, nextEntry, series, lastSeq, printed, issued, activating, push>>
    BY <1>5 DEF device, keys
  <2>6. DrawnSound'
    BY <2>1, <2>5, NumbersFollow DEF server
  <2>7. QED
    BY <2>1, <2>3, <2>4, <2>5, <2>6, EdgeTypes, QuietStep
<1>10. CASE InsertFails(s)
  <2>1. Handling(s, "ORDER") /\ Answer(s, "retry") /\ UNCHANGED <<cloud, invoices, refused, sold>>
    BY <1>10 DEF InsertFails, server
  <2>2. QED
    BY <1>1, <1>6, <1>7, <2>1
<1>11. CASE InsertOrder(s)
  <2>1. Handling(s, "ORDER")
    BY <1>11 DEF InsertOrder
  <2>2. CASE cloud[op.order].status # "NONE" /\ Answer(s, "duplicate") /\ UNCHANGED server
    <3>1. UNCHANGED <<cloud, invoices, refused, sold>>
      BY <2>2 DEF server
    <3>2. QED
      BY <1>1, <1>6, <1>7, <2>1, <2>2, <3>1
  <2>3. CASE /\ cloud[op.order].status = "NONE"
             /\ \E status \in {"applied", "conflict"} :
                   (CloudNumber(op) = Fallback => status = "conflict") /\ Answer(s, status)
             /\ Commit(op)
    BY <1>2, <1>5, <2>1, <2>3, SaleRecorded
  <2>4. CASE /\ Answer(s, "rejected") /\ refused' = refused \cup {op.order} /\ UNCHANGED <<cloud, invoices, sold>>
    BY <1>1, <1>4, <1>6, <1>7, <2>1, <2>4
  <2>5. QED
    BY <1>2, <1>11, <2>2, <2>3, <2>4 DEF InsertOrder
<1>12. CASE ApplyKotStatus(s)
  <2>1. Handling(s, "KOT_STATUS") /\ UNCHANGED <<invoices, refused, sold>>
    BY <1>12 DEF ApplyKotStatus
  <2>2. CASE Answer(s, "retry") /\ UNCHANGED cloud
    BY <1>1, <1>6, <1>7, <2>1, <2>2
  <2>3. CASE Answer(s, "applied") /\ cloud' = [cloud EXCEPT ![op.order].prep = op.prep]
    <3>1. PICK c : c = [cloud[op.order] EXCEPT !.prep = op.prep]
      OBVIOUS
    <3>2. c \in CloudRow /\ c.status = cloud[op.order].status /\ c.number = cloud[op.order].number
      BY <1>1, <1>4, <3>1 DEF CloudRow
    <3>3. cloud' \in [Orders -> CloudRow] /\ \A o \in Orders : cloud'[o] = IF o = op.order THEN c ELSE cloud[o]
      BY <1>1, <1>4, <2>3, <3>1, <3>2
    <3>4. QED
      BY <1>1, <1>6, <1>7, <2>1, <2>3, <3>2, <3>3
  <2>4. QED
    BY <1>2, <1>12, <2>2, <2>3 DEF ApplyKotStatus
<1>13. QED
  BY <1>8, <1>9, <1>10, <1>11, <1>12

\* EdgeInv holds at the start.
LEMMA EdgeStarts == Init => EdgeInv
<1> SUFFICES ASSUME Init PROVE EdgeInv
  OBVIOUS
<1>1. MaxSeries \in Nat \ {0} /\ NewPrep \in Preps /\ NoNumber \in Numbers /\ NoNumber[1] = 0
  BY EdgeAssumption, NoNumberIsOne
<1>2. /\ NoRow \in LocalRow /\ NoRow.status = "NONE" /\ NoRow.sync = "local"
      /\ FreeSlot \in Delivery /\ FreeSlot.todo = {} /\ FreeSlot.results = {} /\ FreeSlot.state = "free"
      /\ NoCloudRow \in CloudRow /\ NoCloudRow.status = "NONE"
  BY <1>1 DEF NoRow, LocalRow, FreeSlot, Delivery, NoCloudRow, CloudRow
<1>3. TypeOK /\ slot \in [Slots -> Delivery]
  <2>1. /\ local \in [Orders -> LocalRow] /\ slot \in [Slots -> Delivery] /\ cloud \in [Orders -> CloudRow]
        /\ printed \in [Orders -> Numbers] /\ sold \in [Orders -> Nat] /\ lastSeq \in [1..MaxSeries -> Nat]
    BY <1>1, <1>2 DEF Init
  <2>2. nextEntry \in Nat /\ series \in 0..MaxSeries /\ issued \in 1..MaxSeries
    BY <1>1 DEF Init
  <2>3. \A s \in Slots : slot[s].todo \subseteq Op /\ slot[s].state \in {"free", "busy"}
    BY <2>1 DEF Delivery
  <2>4. outbox = {} /\ push = NoSlot /\ invoices = {} /\ refused = {} /\ activating = FALSE
    BY DEF Init
  <2>5. QED
    BY <2>1, <2>2, <2>3, <2>4 DEF TypeOK
<1>4. EntriesSound /\ \A s \in Slots : DeliverySound(slot[s])
  BY <1>2 DEF Init, EntriesSound, DeliverySound
<1>5. \A o \in Orders : RowSound(o)
  BY <1>2 DEF Init, RowSound, Kept, Closed
<1>6. SaleNeverLost /\ SoldOnce /\ SyncedIsStored
  BY <1>2 DEF Init, SaleNeverLost, SoldOnce, SyncedIsStored, Accepted
<1>7. DrawnSound /\ FiledSound
  <2>1. /\ series = 1 /\ issued = 1 /\ activating = FALSE /\ invoices = {}
        /\ \A o \in Orders : printed[o] = NoNumber /\ cloud[o].status = "NONE"
        /\ \A s \in 1..MaxSeries : lastSeq[s] = 0
    BY <1>2 DEF Init
  <2>2. 1 \in 1..MaxSeries /\ \A s \in 1..MaxSeries : s # 0
    BY <1>1
  <2>3. SeriesGapless
    BY <2>1, NoNumberIsOne DEF SeriesGapless
  <2>4. \A s \in 1..MaxSeries : Fresh(s)
    BY <2>1, <2>2, NoNumberIsOne DEF Fresh
  <2>5. DrawnSound
    BY <2>1, <2>2, <2>3, <2>4, NoNumberIsOne DEF DrawnSound
  <2>6. FiledSound
    BY <2>1 DEF FiledSound, FiledAsPrinted
  <2>7. QED
    BY <2>5, <2>6
<1>8. QED
  BY <1>3, <1>4, <1>5, <1>6, <1>7 DEF EdgeInv

\* EdgeInv is inductive.
LEMMA EdgeStep == EdgeInv /\ [Next]_vars => EdgeInv'
<1> SUFFICES ASSUME EdgeInv, [Next]_vars PROVE EdgeInv'
  OBVIOUS
<1>1. CASE UNCHANGED vars
  <2>1. UNCHANGED <<local, outbox, nextEntry, series, lastSeq, printed, push, slot, server, issued, activating>>
    BY <1>1 DEF vars, device, link, keys
  <2>2. DrawnSound'
    BY <2>1, NumbersFollow DEF server
  <2>3. QED
    BY <2>1, <2>2, EdgeTypes, QuietStep
<1>2. CASE Next
  BY <1>2, DeviceKeeps, PurgeKeeps, WipeKeeps, PushKeeps, AnswersStored, CloudKeeps, LinkKeeps DEF Next
<1>3. QED
  BY <1>1, <1>2

\* Every reachable state satisfies the inductive invariant.
LEMMA EdgeHolds == Spec => []EdgeInv
  BY EdgeStarts, EdgeStep, PTL DEF Spec

\* Rows, entries, deliveries and counters of the device and the cloud keep their types.
THEOREM EdgeTypesKept == Spec => []TypeOK
<1>1. EdgeInv => TypeOK
  BY DEF EdgeInv
<1>2. QED
  BY <1>1, EdgeHolds, PTL

\* A bill closed offline is never lost: it waits in the outbox, is in the cloud or
\* is kept there as refused, through purges, activations and lost answers
\* (engine.js: purge, push, _applyResult).
THEOREM SalesReachTheCloud == Spec => []SaleNeverLost
<1>1. EdgeInv => SaleNeverLost
  BY DEF EdgeInv
<1>2. QED
  BY <1>1, EdgeHolds, PTL

\* The cloud books a sale once however often its operations are delivered
\* (edge-ingest.service.ts: applyOrder).
THEOREM SalesBookedOnce == Spec => []SoldOnce
<1>1. EdgeInv => SoldOnce
  BY DEF EdgeInv
<1>2. QED
  BY <1>1, EdgeHolds, PTL

\* The device believes the cloud has an order only when it does (_applyResult).
THEOREM AnswersAreTrue == Spec => []SyncedIsStored
<1>1. EdgeInv => SyncedIsStored
  BY DEF EdgeInv
<1>2. QED
  BY <1>1, EdgeHolds, PTL

\* No two bills carry the same invoice number, and a series has no gap, whatever
\* disks are lost and activations made in between (engine.js: settleOrder,
\* edge-admin.service.ts: activate).
THEOREM NumbersWithoutGaps == Spec => []SeriesGapless
<1>1. EdgeInv => SeriesGapless
  BY DEF EdgeInv, DrawnSound
<1>2. QED
  BY <1>1, EdgeHolds, PTL

\* The cloud never has to give a sale another number than the customer's: what it
\* is sent is of a series of this terminal and not taken (edge-ingest.service.ts:
\* insertOrder).
THEOREM NumbersFiledAsPrinted == Spec => []FiledAsPrinted
<1>1. EdgeInv => FiledAsPrinted
  BY DEF EdgeInv, FiledSound
<1>2. QED
  BY <1>1, EdgeHolds, PTL
=============================================================================

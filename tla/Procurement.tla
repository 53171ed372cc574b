---------------------------- MODULE Procurement ----------------------------
(***************************************************************************)
(* Purchase orders, goods receipts, supplier bills and their payment:      *)
(* purchase-orders.service.ts and payables.service.ts of                   *)
(* apps/api/src/procurement.                                               *)
(*                                                                         *)
(* A purchase order is changed under its row lock; a receipt reads the     *)
(* over-receipt tolerance before it.  A payment locks the vendor's open    *)
(* bills, reads them again, and writes totals computed from that read, so  *)
(* a bill booked between the two is planned for without a lock.            *)
(* What a receipt does to stock is module Stock.  All of one vendor, and   *)
(* quantities and amounts are units.                                       *)
(***************************************************************************)
EXTENDS Naturals, FiniteSets, FiniteSetsExt

CONSTANTS
    POs,            \* purchase orders
    PoLines,        \* lines of each
    MaxQty,         \* largest quantity ordered or received on a line
    MaxTolerance,   \* largest over-receipt tolerance, in units
    SupplierBills,  \* bills, in the order of their due dates
    BillAmount,     \* amount of a bill
    Buyers          \* concurrent requests

ASSUME ProcurementAssumption ==
    /\ SupplierBills \subseteq Nat /\ IsFiniteSet(SupplierBills) /\ BillAmount \in Nat \ {0}
    /\ MaxQty \in Nat \ {0} /\ MaxTolerance \in Nat /\ "nobody" \notin Buyers

VARIABLES
    tolerance,  \* overReceiptPct of the settings
    po,         \* status, ordered and received quantity of each line
    poLock,     \* holder of each purchase order's row lock
    grns,       \* goods receipts: number, order, quantities
    grnLock,    \* holder of the outlet's advisory lock on GRN numbers
    supBill,    \* status and paid amount of each bill
    billLock,   \* holder of each bill's row lock
    allocated,  \* sum of the allocations to each bill
    unlockedPay,\* bills some payment planned for without holding their lock
    buyer       \* requests under way

procureVars == <<tolerance, po, poLock, grns, grnLock, supBill, billLock, allocated, unlockedPay, buyer>>
orderingVars == <<tolerance, po, poLock, grns, grnLock>>
payableVars == <<supBill, billLock, allocated, unlockedPay>>

None == "nobody"
BuyerIdle == [at |-> "idle"]
PoStatuses == {"NONE", "DRAFT", "APPROVED", "SENT", "PARTIALLY_RECEIVED", "RECEIVED", "CLOSED", "CANCELLED"}
Quantities == [PoLines -> 0 .. MaxQty]

ProcureTypeOK ==
    /\ tolerance \in 0 .. MaxTolerance
    /\ \A p \in POs : /\ po[p].status \in PoStatuses /\ po[p].ordered \in Quantities
                      /\ po[p].received \in [PoLines -> Nat]
    /\ poLock \in [POs -> Buyers \cup {None}] /\ grnLock \in Buyers \cup {None}
    /\ \A g \in grns : g.number \in Nat /\ g.po \in POs
    /\ supBill \in [SupplierBills -> [status: {"NONE", "OPEN", "PARTIAL", "PAID", "VOID"}, paid: 0 .. BillAmount]]
    /\ billLock \in [SupplierBills -> Buyers \cup {None}]
    /\ allocated \in [SupplierBills -> Nat] /\ unlockedPay \subseteq SupplierBills
    /\ \A b \in Buyers : buyer[b].at \in {"idle", "settings", "locked", "numbered", "bills", "plan"}

ProcureInit ==
    /\ tolerance = 0
    /\ po = [p \in POs |-> [status |-> "NONE", ordered |-> [l \in PoLines |-> 0],
                            received |-> [l \in PoLines |-> 0]]]
    /\ poLock = [p \in POs |-> None] /\ grns = {} /\ grnLock = None
    /\ supBill = [s \in SupplierBills |-> [status |-> "NONE", paid |-> 0]]
    /\ billLock = [s \in SupplierBills |-> None]
    /\ allocated = [s \in SupplierBills |-> 0] /\ unlockedPay = {}
    /\ buyer = [b \in Buyers |-> BuyerIdle]

----------------------------------------------------------------------------
(* Purchase orders. *)

SaveTolerance(n) ==
    /\ n # tolerance /\ tolerance' = n
    /\ UNCHANGED <<po, poLock, grns, grnLock, payableVars, buyer>>

CreatePo(p, qty) ==
    /\ po[p].status = "NONE" /\ \A l \in PoLines : qty[l] > 0
    /\ po' = [po EXCEPT ![p].status = "DRAFT", ![p].ordered = qty]
    /\ UNCHANGED <<tolerance, poLock, grns, grnLock, payableVars, buyer>>

\* one transaction: lock, look, write
UpdatePo(p, qty) ==
    /\ poLock[p] = None /\ po[p].status = "DRAFT" /\ \A l \in PoLines : qty[l] > 0
    /\ po' = [po EXCEPT ![p].ordered = qty]
    /\ UNCHANGED <<tolerance, poLock, grns, grnLock, payableVars, buyer>>

PO_TRANSITIONS ==
    {[from |-> {"DRAFT"}, to |-> "APPROVED"],
     [from |-> {"APPROVED"}, to |-> "SENT"],
     [from |-> {"DRAFT", "APPROVED", "SENT"}, to |-> "CANCELLED"],
     [from |-> {"PARTIALLY_RECEIVED", "RECEIVED"}, to |-> "CLOSED"]}

ActOnPo(p) ==
    /\ poLock[p] = None
    /\ \E move \in PO_TRANSITIONS : /\ po[p].status \in move.from
                                    /\ po' = [po EXCEPT ![p].status = move.to]
    /\ UNCHANGED <<tolerance, poLock, grns, grnLock, payableVars, buyer>>

----------------------------------------------------------------------------
(* Goods receipts. *)

Step(b, rec) == buyer' = [buyer EXCEPT ![b] = rec]

\* receive reads the settings before its transaction
BeginReceive(b, p) ==
    /\ buyer[b] = BuyerIdle /\ po[p].status # "NONE"
    /\ Step(b, [at |-> "settings", po |-> p, extra |-> tolerance])
    /\ UNCHANGED <<orderingVars, payableVars>>

CanReceivePo(p) == po[p].status \in {"APPROVED", "SENT", "PARTIALLY_RECEIVED"}
MaxReceivable(p, l, extra) ==
    IF po[p].ordered[l] + extra >= po[p].received[l]
    THEN (po[p].ordered[l] + extra) - po[p].received[l] ELSE 0

\* Variant of the code: the order is read without FOR UPDATE.
LockPoNot(b, p) == UNCHANGED poLock

LockPo(b, p) == poLock[p] = None /\ poLock' = [poLock EXCEPT ![p] = b]

CheckReceipt(b, qty) ==
    LET p == buyer[b].po
    IN  /\ buyer[b].at = "settings"
        /\ LockPo(b, p)
        /\ CanReceivePo(p)
        /\ \E l \in PoLines : qty[l] > 0
        /\ \A l \in PoLines : qty[l] <= MaxReceivable(p, l, buyer[b].extra)
        /\ Step(b, [at |-> "locked", po |-> p, qty |-> qty, before |-> po[p].received])
        /\ UNCHANGED <<tolerance, po, grns, grnLock, payableVars>>

GrnNumberLock(b) == grnLock = None /\ grnLock' = b

\* nextDocNumber: one more than there are
NumberReceipt(b) ==
    /\ buyer[b].at = "locked"
    /\ GrnNumberLock(b)
    /\ Step(b, [at |-> "numbered", po |-> buyer[b].po, qty |-> buyer[b].qty,
                before |-> buyer[b].before, number |-> Cardinality(grns) + 1])
    /\ UNCHANGED <<tolerance, po, poLock, grns, payableVars>>

EndBuyer(b) ==
    /\ Step(b, BuyerIdle)
    /\ poLock' = [p \in POs |-> IF poLock[p] = b THEN None ELSE poLock[p]]
    /\ grnLock' = IF grnLock = b THEN None ELSE grnLock
    /\ billLock' = [s \in SupplierBills |-> IF billLock[s] = b THEN None ELSE billLock[s]]

StatusAfterReceipt(ordered, received) ==
    IF \A l \in PoLines : received[l] >= ordered[l] THEN "RECEIVED" ELSE "PARTIALLY_RECEIVED"

\* book: the receipt's bill, in the same transaction, or 0
CommitReceipts(b, book) ==
    LET p == buyer[b].po  qty == buyer[b].qty
        after == [l \in PoLines |-> buyer[b].before[l] + qty[l]]
    IN  /\ buyer[b].at = "numbered"
        /\ grns' = grns \cup {[number |-> buyer[b].number, po |-> p, by |-> b, qty |-> qty]}
        /\ po' = [po EXCEPT ![p].received = [l \in PoLines |-> @[l] + qty[l]],
                            ![p].status = StatusAfterReceipt(po[p].ordered, after)]
        /\ IF book = 0 THEN UNCHANGED supBill
           ELSE /\ supBill[book].status = "NONE"
                /\ supBill' = [supBill EXCEPT ![book].status = "OPEN"]
        /\ EndBuyer(b)
        /\ UNCHANGED <<tolerance, allocated, unlockedPay>>

----------------------------------------------------------------------------
(* Supplier bills and payments. *)

Unpaid == {s \in SupplierBills : supBill[s].status \in {"OPEN", "PARTIAL"}}

\* createBill: checks, and the unique keys on its number and its receipt
CreateSupplierBill(s) ==
    /\ supBill[s].status = "NONE"
    /\ supBill' = [supBill EXCEPT ![s].status = "OPEN"]
    /\ UNCHANGED <<orderingVars, billLock, allocated, unlockedPay, buyer>>

VoidBill(s) ==
    /\ billLock[s] = None /\ supBill[s].status \notin {"NONE", "VOID"} /\ supBill[s].paid = 0
    /\ supBill' = [supBill EXCEPT ![s].status = "VOID"]
    /\ UNCHANGED <<orderingVars, billLock, allocated, unlockedPay, buyer>>

\* SELECT ... WHERE status IN ('OPEN', 'PARTIAL') ORDER BY id FOR UPDATE
LockUnpaid(b) ==
    /\ \A s \in Unpaid : billLock[s] = None
    /\ billLock' = [s \in SupplierBills |-> IF s \in Unpaid THEN b ELSE billLock[s]]

LockBills(b) ==
    /\ buyer[b] = BuyerIdle
    /\ LockUnpaid(b)
    /\ Step(b, [at |-> "bills"])
    /\ UNCHANGED <<orderingVars, supBill, allocated, unlockedPay>>

\* oldest first: each bill takes what the ones due before it leave over
AutoPlan(amount) ==
    [s \in Unpaid |->
        LET before == {r \in Unpaid : r < s}
            due(r) == IF supBill[r].paid <= BillAmount THEN BillAmount - supBill[r].paid ELSE 0
            used == MapThenSumSet(due, before)
        IN  Min({due(s), IF amount > used THEN amount - used ELSE 0})]

\* Variant of the code: an allocation is not compared with what is outstanding.
AllocationFitsUnchecked(s, n) == TRUE

AllocationFits(s, n) == supBill[s].paid + n <= BillAmount

\* the bills are read again, and the payment planned, from that read alone:
\* explicitly to one bill, or oldest first
PlanPayment(b, amount) ==
    /\ buyer[b].at = "bills"
    /\ \E plan \in {[s \in {r} |-> amount] : r \in {q \in Unpaid : AllocationFits(q, amount)}}
                   \cup {AutoPlan(amount)} :
          LET bills == {s \in DOMAIN plan : plan[s] > 0}
          IN  Step(b, [at |-> "plan", pays |-> [s \in bills |-> plan[s]],
                       total |-> [s \in bills |-> supBill[s].paid + plan[s]]])
    /\ UNCHANGED <<orderingVars, payableVars>>

BillStatus(paid) == IF paid >= BillAmount THEN "PAID" ELSE IF paid > 0 THEN "PARTIAL" ELSE "OPEN"

\* allocations are added; a bill's paidAmount and status are overwritten
CommitPayment(b) ==
    LET pays == buyer[b].pays  total == buyer[b].total
    IN  /\ buyer[b].at = "plan"
        /\ \A s \in DOMAIN pays : billLock[s] \in {None, b}
        /\ allocated' = [s \in SupplierBills |->
                            allocated[s] + (IF s \in DOMAIN pays THEN pays[s] ELSE 0)]
        /\ supBill' = [s \in SupplierBills |->
                          IF s \in DOMAIN pays
                          THEN [status |-> BillStatus(total[s]), paid |-> total[s]] ELSE supBill[s]]
        /\ unlockedPay' = unlockedPay \cup {s \in DOMAIN pays : billLock[s] # b}
        /\ EndBuyer(b)
        /\ UNCHANGED <<tolerance, po, grns>>

\* a check refuses the request, its transaction is rolled back, or it dies
BuyerFails(b) ==
    /\ buyer[b] # BuyerIdle
    /\ EndBuyer(b)
    /\ UNCHANGED <<tolerance, po, grns, supBill, allocated, unlockedPay>>

----------------------------------------------------------------------------

ProcureNext ==
    \/ \E n \in 0 .. MaxTolerance : SaveTolerance(n)
    \/ \E p \in POs : ActOnPo(p) \/ \E qty \in Quantities : CreatePo(p, qty) \/ UpdatePo(p, qty)
    \/ \E s \in SupplierBills : CreateSupplierBill(s) \/ VoidBill(s)
    \/ \E b \in Buyers :
          \/ \E p \in POs : BeginReceive(b, p)
          \/ \E qty \in Quantities : CheckReceipt(b, qty)
          \/ NumberReceipt(b)
          \/ \E s \in SupplierBills \cup {0} : CommitReceipts(b, s)
          \/ LockBills(b) \/ CommitPayment(b) \/ BuyerFails(b)
          \/ \E n \in 1 .. BillAmount : PlanPayment(b, n)

ProcureSpec == ProcureInit /\ [][ProcureNext]_procureVars

----------------------------------------------------------------------------
(* Properties. *)

\* What is on record as received on a line is what its goods receipts add up to,
\* and exceeds what was ordered by no more than a tolerance that was in force,
\* however receipts of one order overlap and the tolerance changes.
ReceiptsWithinOrder ==
    \A p \in POs, l \in PoLines :
        /\ po[p].received[l] = MapThenSumSet(LAMBDA g : g.qty[l], {g \in grns : g.po = p})
        /\ po[p].received[l] <= po[p].ordered[l] + MaxTolerance

\* Receipts are numbered without a gap or a repeat.
GrnNumbersGapless == {g.number : g \in grns} = 1 .. Cardinality(grns)

\* A bill paid under its lock shows exactly what was allocated to it, never more
\* than its amount, and is not voided once money is on it.  The exception is a
\* bill booked while a payment was waiting between its lock and its read.
PaymentsMatchBills ==
    \A s \in SupplierBills \ unlockedPay :
        /\ supBill[s].paid = allocated[s] /\ allocated[s] <= BillAmount
        /\ supBill[s].status = "VOID" => allocated[s] = 0

\* What procurement promises: goods and money are booked once.
ProcurementSound == ReceiptsWithinOrder /\ GrnNumbersGapless /\ PaymentsMatchBills

\* "The vendor's open bills are row-locked so two payments can't over-settle the
\* same bill."
NeverOverSettled == \A s \in SupplierBills : allocated[s] <= BillAmount
=============================================================================

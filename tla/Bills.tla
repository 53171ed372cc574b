------------------------------- MODULE Bills -------------------------------
(***************************************************************************)
(* Running bills of one outlet: apps/api/src/orders/orders.service.ts and  *)
(* apps/api/src/billing/order-ops.service.ts.                              *)
(*                                                                         *)
(* A request is a Postgres READ COMMITTED transaction.  It takes row locks *)
(* (SELECT ... FOR UPDATE, or the lock an UPDATE of the outlet counters    *)
(* takes) one at a time, reads committed rows between them, and publishes  *)
(* all its writes in one commit step that also releases its locks.  Every  *)
(* lock wait, and every read that a later write depends on, is a step of   *)
(* its own, so other requests interleave there.                            *)
(*                                                                         *)
(* Quantities stand for money: a KOT line carries units of one price.      *)
(***************************************************************************)
EXTENDS Naturals, FiniteSets, FiniteSetsExt

CONSTANTS
    Reqs,        \* concurrent HTTP requests
    Tables,      \* ids of dining_tables rows
    Orders,      \* ids of orders rows; cuids grow with time, the least unused is next
    Outlet,      \* the outlet row that holds nextBillNumber and nextKotNumber
    MaxKot,      \* bound on the number of KOTs punched
    Units,       \* Units[k]: the units the kth punch asks for
    MaxSources,  \* bound on the bills folded by one merge
    Parts,       \* the numbers of checks a split may ask for
    NoTable, NoOrder, Free

Rows == Tables \cup Orders \cup {Outlet}
Kots == 1..MaxKot

ASSUME BillsAssumption ==
    /\ Tables \subseteq Nat /\ Orders \subseteq Nat /\ Outlet \in Nat
    /\ IsFiniteSet(Tables) /\ IsFiniteSet(Orders)
    /\ \A t \in Tables, o \in Orders : t < o
    /\ Outlet \notin Tables \cup Orders
    /\ NoTable \notin Tables /\ NoOrder \notin Orders /\ Free \notin Reqs
    /\ MaxKot \in Nat /\ Units \in [Kots -> Nat \ {0}] /\ MaxSources \in Nat
    /\ Parts \subseteq Nat \ {0, 1}

VARIABLES
    orders,    \* the orders table
    lines,     \* lines[o][k]: units on order o that KOT k fired (a check: its billing copies)
    kotOrder,  \* the bill each KOT belongs to
    nextKot,   \* outlets.nextKotNumber
    nextBill,  \* outlets.nextBillNumber
    punched,   \* history: units each KOT was punched with
    lock,      \* holder of each row lock
    req        \* the state of each request

db == <<orders, lines, kotOrder, nextKot, nextBill, punched>>
vars == <<orders, lines, kotOrder, nextKot, nextBill, punched, lock, req>>

Status == {"NONE", "OPEN", "SETTLED", "CANCELLED", "MERGED", "SPLIT", "DELETED"}
OrderRow == [status : Status, table : Tables \cup {NoTable},
             parent : Orders \cup {NoOrder}, splitCount : Parts \cup {0}, bill : Nat]
Absent == [status |-> "NONE", table |-> NoTable, parent |-> NoOrder,
           splitCount |-> 0, bill |-> 0]
NoLines == [k \in Kots |-> 0]

PCs == {"idle", "open_check", "open_commit", "scan_find", "scan_reread", "add_check",
        "punch_commit", "settle_check", "settle_parent", "settle_count",
        "settle_commit", "cancel_commit", "merge_commit", "transfer_find",
        "transfer_commit", "split_commit", "unsplit_parent", "unsplit_commit"}
WithOrder == PCs \ {"idle", "open_check", "open_commit", "scan_find", "transfer_find", "transfer_commit"}
\* want: the rows still to lock; o: the order worked on; t, from: tables;
\* others: the sources of a merge or transfer, the parent of a check to settle
\* or the checks to unsplit; last: whether the last open check is settling
Request == {q \in [pc : PCs, want : SUBSET Rows, o : Orders \cup {NoOrder},
                    t : Tables \cup {NoTable}, from : Tables \cup {NoTable},
                    others : SUBSET Orders, last : BOOLEAN] :
               q.pc \in WithOrder => q.o \in Orders}
Idle == [pc |-> "idle", want |-> {}, o |-> NoOrder, t |-> NoTable, from |-> NoTable,
         others |-> {}, last |-> FALSE]

Init ==
    /\ orders = [o \in Orders |-> Absent]
    /\ lines = [o \in Orders |-> NoLines]
    /\ kotOrder = [k \in Kots |-> NoOrder]
    /\ nextKot = 1
    /\ nextBill = 1
    /\ punched = NoLines
    /\ lock = [row \in Rows |-> Free]
    /\ req = [r \in Reqs |-> Idle]

----------------------------------------------------------------------------
(* Reading the committed rows. *)

Exists(row) == row \in Orders => orders[row].status \notin {"NONE", "DELETED"}
Known == {o \in Orders : Exists(o)}
OpenOn(t) == {o \in Orders : orders[o].table = t /\ orders[o].status = "OPEN"}
Children(p) == {c \in Orders : orders[c].parent = p /\ Exists(c)}

\* assertNotSplit: neither a split parent nor one of its checks
NotSplit(o) == orders[o].splitCount = 0 /\ orders[o].parent = NoOrder
\* assertMergeable
Mergeable(o) == orders[o].status = "OPEN" /\ NotSplit(o)

Fresh == {o \in Orders : orders[o].status = "NONE"}
NextId == Min(Fresh)
\* the bounds on ids and KOTs; a request that meets one is turned away
Room == Fresh # {} /\ nextKot <= MaxKot

\* the units of KOT k that rows give the orders S
UnitsOn(rows, S, k) == MapThenSumSet(LAMBDA o : rows[o][k], S)

----------------------------------------------------------------------------
(* The transaction machinery.  The rows a request waits for are locked in   *)
(* id order, dining tables before orders.                                   *)

Begin(r, rec) ==
    /\ req[r].pc = "idle"
    /\ req' = [req EXCEPT ![r] = rec]
    /\ UNCHANGED <<db, lock>>

\* r is at pc and is granted the last row it waits for, with which the step
\* that follows the lock happens at once: nobody else needs the row granted
At(r, pc) ==
    /\ req[r].pc = pc
    /\ Cardinality(req[r].want) <= 1
    /\ \A row \in req[r].want : lock[row] = Free /\ Exists(row)

\* on to the next lock wait, keeping every row locked so far
Hold(r) == lock' = [row \in Rows |-> IF row \in req[r].want THEN r ELSE lock[row]]
Goto(r, pc, want) ==
    /\ req' = [req EXCEPT ![r].pc = pc, ![r].want = want]
    /\ Hold(r)
    /\ UNCHANGED db

Finish(r) ==
    /\ lock' = [row \in Rows |-> IF lock[row] = r THEN Free ELSE lock[row]]
    /\ req' = [req EXCEPT ![r] = Idle]

\* an exception rolls the transaction back
Abort(r) == Finish(r) /\ UNCHANGED db

\* variant: the ids are not sorted before they are locked
AcquireUnsorted(r) ==
    /\ Cardinality(req[r].want) > 1
    /\ \E row \in req[r].want :
          /\ lock[row] = Free /\ Exists(row)
          /\ lock' = [lock EXCEPT ![row] = r]
          /\ req' = [req EXCEPT ![r].want = @ \ {row}]
    /\ UNCHANGED db

\* SELECT ... FOR UPDATE of one row of several
Acquire(r) ==
    /\ Cardinality(req[r].want) > 1
    /\ LET row == Min(req[r].want)
       IN  /\ lock[row] = Free
           /\ Exists(row)
           /\ lock' = [lock EXCEPT ![row] = r]
           /\ req' = [req EXCEPT ![r].want = @ \ {row}]
           /\ UNCHANGED db

\* a row deleted while it was awaited: "Order not found"
NotFound(r) ==
    /\ req[r].want # {}
    /\ ~Exists(Min(req[r].want))
    /\ Abort(r)

WaitsFor(r, s) == req[r].want # {} /\ lock[Min(req[r].want)] = s
LockCycle(C) == C # {} /\ \A r \in C : \E s \in C : WaitsFor(r, s)

\* Postgres aborts a member of a cycle of lock waits
DeadlockVictim(r) ==
    /\ \E C \in SUBSET Reqs : r \in C /\ LockCycle(C)
    /\ Abort(r)

\* a rejected tender, a transaction timeout, a lost connection or an API crash
Fail(r) == req[r].pc # "idle" /\ Abort(r)

----------------------------------------------------------------------------
(* Opening and filling a bill. *)

\* punchItems: one more KOT, with its lines, on bill o
Punch(o) ==
    /\ lines' = [lines EXCEPT ![o][nextKot] = Units[nextKot]]
    /\ kotOrder' = [kotOrder EXCEPT ![nextKot] = o]
    /\ punched' = [punched EXCEPT ![nextKot] = Units[nextKot]]
    /\ nextKot' = nextKot + 1
    /\ UNCHANGED nextBill

\* variant for sensitivity checks: the table row is not locked
BeginOpenUnlocked(r, t) ==
    Begin(r, IF t = NoTable THEN [Idle EXCEPT !.pc = "open_commit", !.want = {Outlet}]
             ELSE [Idle EXCEPT !.pc = "open_check", !.t = t])

\* a takeaway or aggregator order has no table to lock
BeginOpen(r, t) ==
    Begin(r, IF t = NoTable THEN [Idle EXCEPT !.pc = "open_commit", !.want = {Outlet}]
             ELSE [Idle EXCEPT !.pc = "open_check", !.want = {t}, !.t = t])

OpenCheck(r) ==
    /\ At(r, "open_check")
    /\ \/ OpenOn(req[r].t) = {} /\ Goto(r, "open_commit", {Outlet})
       \/ OpenOn(req[r].t) # {} /\ Abort(r)

OpenCommit(r) ==
    /\ At(r, "open_commit")
    /\ \/ /\ Room
          /\ orders' = [orders EXCEPT ![NextId] =
                           [Absent EXCEPT !.status = "OPEN", !.table = req[r].t]]
          /\ Punch(NextId)
          /\ Finish(r)
       \/ ~Room /\ Abort(r)

\* ingestScanOrder in DINE_IN mode: join the table's running bill or open one
BeginScan(r, t) == Begin(r, [Idle EXCEPT !.pc = "scan_find", !.want = {t}, !.t = t])

ScanFind(r) ==
    /\ At(r, "scan_find")
    /\ \/ OpenOn(req[r].t) = {} /\ Goto(r, "open_commit", {Outlet})
       \/ \E o \in OpenOn(req[r].t) :
             /\ req' = [req EXCEPT ![r].pc = "scan_reread", ![r].want = {o}, ![r].o = o]
             /\ Hold(r)
             /\ UNCHANGED db

\* variant: the bill found is used as it was read before its lock was granted
ScanRereadSkipped(r) == At(r, "scan_reread") /\ Goto(r, "punch_commit", {Outlet})

\* the bill found may have closed while its lock was awaited
ScanReread(r) ==
    /\ At(r, "scan_reread")
    /\ LET row == orders[req[r].o]
       IN  \/ row.status # "OPEN" /\ Goto(r, "open_commit", {Outlet})
           \/ row.status = "OPEN" /\ row.splitCount # 0 /\ Abort(r)
           \/ row.status = "OPEN" /\ row.splitCount = 0 /\ Goto(r, "punch_commit", {Outlet})

BeginAdd(r, o) == Begin(r, [Idle EXCEPT !.pc = "add_check", !.want = {o}, !.o = o])

\* variant: assertNotSplit is forgotten
AddCheckNoSplitGuard(r) ==
    /\ At(r, "add_check")
    /\ \/ orders[req[r].o].status = "OPEN" /\ Goto(r, "punch_commit", {Outlet})
       \/ orders[req[r].o].status # "OPEN" /\ Abort(r)

AddCheck(r) ==
    /\ At(r, "add_check")
    /\ \/ Mergeable(req[r].o) /\ Goto(r, "punch_commit", {Outlet})
       \/ ~Mergeable(req[r].o) /\ Abort(r)

PunchCommit(r) ==
    /\ At(r, "punch_commit")
    /\ \/ /\ nextKot <= MaxKot
          /\ Punch(req[r].o)
          /\ UNCHANGED orders
          /\ Finish(r)
       \/ nextKot > MaxKot /\ Abort(r)

----------------------------------------------------------------------------
(* Closing a bill. *)

\* variant: the order row is read without FOR UPDATE
BeginSettleUnlocked(r, o) == Begin(r, [Idle EXCEPT !.pc = "settle_check", !.o = o])

\* the one other order of a transfer (its source) or a check (its parent)
Other(r) == CHOOSE o \in Orders : req[r].others = {o}

BeginSettle(r, o) == Begin(r, [Idle EXCEPT !.pc = "settle_check", !.want = {o}, !.o = o])

SettleCheck(r) ==
    /\ At(r, "settle_check")
    /\ LET row == orders[req[r].o]
           ok == row.status = "OPEN" /\ row.splitCount = 0
       IN  \/ ok /\ row.parent = NoOrder /\ Goto(r, "settle_commit", {Outlet})
           \/ /\ ok /\ row.parent # NoOrder
              /\ req' = [req EXCEPT ![r].pc = "settle_parent", ![r].want = {Outlet},
                                    ![r].others = {row.parent}]
              /\ Hold(r)
              /\ UNCHANGED db
           \/ ~ok /\ Abort(r)

\* closeSplitParentIfDone locks the parent after the check and the counter ...
SettleParent(r) == At(r, "settle_parent") /\ Goto(r, "settle_count", req[r].others)

OpenChecks(p) == {c \in Children(p) : orders[c].status = "OPEN"}
CountChecks(r, open) ==
    /\ At(r, "settle_count")
    /\ req' = [req EXCEPT ![r].pc = "settle_commit", ![r].want = {},
                          ![r].last = (open = {} /\ orders[Other(r)].status = "OPEN")]
    /\ Hold(r)
    /\ UNCHANGED db

\* variant: the check counts itself as still open
SettleCountSelf(r) == CountChecks(r, OpenChecks(Other(r)))

\* ... and counts the checks that are still open, its own excepted
SettleCount(r) == CountChecks(r, OpenChecks(Other(r)) \ {req[r].o})

SettleCommit(r) ==
    /\ At(r, "settle_commit")
    /\ orders' = [o \in Orders |->
                     IF o = req[r].o THEN [orders[o] EXCEPT !.status = "SETTLED", !.bill = nextBill]
                     ELSE IF req[r].last /\ o = Other(r) THEN [orders[o] EXCEPT !.status = "SPLIT"]
                     ELSE orders[o]]
    /\ nextBill' = nextBill + 1
    /\ UNCHANGED <<lines, kotOrder, nextKot, punched>>
    /\ Finish(r)

BeginCancel(r, o) == Begin(r, [Idle EXCEPT !.pc = "cancel_commit", !.want = {o}, !.o = o])

CancelCommit(r) ==
    /\ At(r, "cancel_commit")
    /\ \/ /\ Mergeable(req[r].o)
          /\ orders' = [orders EXCEPT ![req[r].o].status = "CANCELLED"]
          /\ UNCHANGED <<lines, kotOrder, nextKot, nextBill, punched>>
          /\ Finish(r)
       \/ ~Mergeable(req[r].o) /\ Abort(r)

----------------------------------------------------------------------------
(* Merge and transfer. *)

\* moveAll: every line and KOT of srcs goes to tgt, srcs close as MERGED
MoveAll(srcs, tgt) ==
    /\ lines' = [o \in Orders |->
                    [k \in Kots |->
                        CASE o = tgt -> UnitsOn(lines, srcs \cup {tgt}, k)
                          [] o \in srcs -> 0
                          [] OTHER -> lines[o][k]]]
    /\ kotOrder' = [k \in Kots |-> IF kotOrder[k] \in srcs THEN tgt ELSE kotOrder[k]]
    /\ orders' = [o \in Orders |-> IF o \in srcs THEN [orders[o] EXCEPT !.status = "MERGED"]
                                   ELSE orders[o]]
    /\ UNCHANGED <<nextKot, nextBill, punched>>

\* the tables to lock come from a read made before the transaction
BeginMerge(r, tgt, srcs) ==
    LET all == srcs \cup {tgt}
        tables == {orders[o].table : o \in all} \ {NoTable}
    IN  Begin(r, [Idle EXCEPT !.pc = "merge_commit", !.want = tables \cup all,
                              !.o = tgt, !.others = srcs])

MergeCommit(r) ==
    LET all == req[r].others \cup {req[r].o}
        ok == \A o \in all : Mergeable(o)
    IN  /\ At(r, "merge_commit")
        /\ \/ ok /\ MoveAll(req[r].others, req[r].o) /\ Finish(r)
           \/ ~ok /\ Abort(r)

\* variant: only the source's table is locked
BeginTransferSourceOnly(r, o, to) ==
    /\ orders[o].table # to
    /\ Begin(r, [Idle EXCEPT !.pc = "transfer_find", !.want = ({orders[o].table} \ {NoTable}) \cup {o},
                             !.others = {o}, !.t = to, !.from = orders[o].table])

BeginTransfer(r, o, to) ==
    /\ orders[o].table # to
    /\ Begin(r, [Idle EXCEPT !.pc = "transfer_find", !.want = ({orders[o].table, to} \ {NoTable}) \cup {o},
                             !.others = {o}, !.t = to, !.from = orders[o].table])

\* the table may have changed since the unlocked read; a bill on the target
\* table is found here and locked next
TransferFind(r) ==
    /\ At(r, "transfer_find")
    /\ LET ok == Mergeable(Other(r)) /\ orders[Other(r)].table = req[r].from
       IN  \/ ok /\ OpenOn(req[r].t) = {} /\ Goto(r, "transfer_commit", {})
           \/ ok /\ \E o \in OpenOn(req[r].t) :
                       /\ req' = [req EXCEPT ![r].pc = "transfer_commit", ![r].want = {o}, ![r].o = o]
                       /\ Hold(r)
                       /\ UNCHANGED db
           \/ ~ok /\ Abort(r)

\* variant: a partly moved line keeps its whole quantity
MoveLinesCopied(src, tgt, moved) ==
    /\ lines' = [lines EXCEPT ![tgt] = [k \in Kots |-> @[k] + moved[k]]]
    /\ kotOrder' = [k \in Kots |-> IF moved[k] > 0 /\ moved[k] = lines[src][k] THEN tgt
                                   ELSE kotOrder[k]]
    /\ UNCHANGED <<nextKot, nextBill, punched>>

\* moveLine for every selected line, and the KOTs with nothing left follow
MoveLines(src, tgt, moved) ==
    /\ lines' = [o \in Orders |->
                    [k \in Kots |->
                        CASE o = src -> lines[src][k] - moved[k]
                          [] o = tgt -> lines[tgt][k] + moved[k]
                          [] OTHER -> lines[o][k]]]
    /\ kotOrder' = [k \in Kots |-> IF moved[k] > 0 /\ moved[k] = lines[src][k] THEN tgt
                                   ELSE kotOrder[k]]
    /\ UNCHANGED <<nextKot, nextBill, punched>>

\* variant: more may be moved than the line holds
SelectionsUnbounded(src) == {m \in [Kots -> 0..Max(Range(Units))] : m # NoLines /\ m # lines[src]}

\* part of the bill: at least one unit moves and at least one stays
Selections(src) == {m \in [Kots -> 0..Max(Range(Units))] :
                        /\ \A k \in Kots : m[k] <= lines[src][k]
                        /\ m # NoLines /\ m # lines[src]}

TransferWhole(r) ==
    LET src == Other(r)
        tgt == req[r].o
    IN  \/ tgt # NoOrder /\ MoveAll({src}, tgt)
        \/ /\ tgt = NoOrder
           /\ orders' = [orders EXCEPT ![src].table = req[r].t]
           /\ UNCHANGED <<lines, kotOrder, nextKot, nextBill, punched>>

TransferPart(r) ==
    LET src == Other(r)
        tgt == IF req[r].o # NoOrder THEN req[r].o ELSE NextId
    IN  \E m \in Selections(src) :
           /\ \/ req[r].o # NoOrder /\ UNCHANGED orders
              \/ /\ req[r].o = NoOrder /\ Fresh # {}
                 /\ orders' = [orders EXCEPT ![tgt] =
                                  [Absent EXCEPT !.status = "OPEN", !.table = req[r].t]]
           /\ MoveLines(src, tgt, m)

TransferCommit(r) ==
    LET ok == req[r].o # NoOrder => Mergeable(req[r].o)
    IN  /\ At(r, "transfer_commit")
        /\ \/ ok /\ TransferWhole(r) /\ Finish(r)
           \/ ok /\ TransferPart(r) /\ Finish(r)
           \/ ~ok /\ Abort(r)

----------------------------------------------------------------------------
(* Split and unsplit. *)

BeginSplit(r, o) == Begin(r, [Idle EXCEPT !.pc = "split_commit", !.want = {o}, !.o = o])

\* the ways to share the units of every line out in full among the checks kids
Shares(p, kids) == {s \in [kids -> [Kots -> 0..Max(Range(Units))]] :
                       \A k \in Kots : UnitsOn(s, kids, k) = lines[p][k]}

\* the n least unused ids
NextIds(n) == {o \in Fresh : Cardinality({x \in Fresh : x < o}) < n}

\* checks keep no table; the parent keeps its lines and KOTs
SplitCommit(r) ==
    LET p == req[r].o
        ok == Mergeable(p) /\ lines[p] # NoLines /\ \E n \in Parts : n <= Cardinality(Fresh)
    IN  /\ At(r, "split_commit")
        /\ \/ /\ ok
              /\ \E n \in Parts :
                    /\ n <= Cardinality(Fresh)
                    /\ orders' = [o \in Orders |->
                                     IF o = p THEN [orders[o] EXCEPT !.splitCount = n]
                                     ELSE IF o \in NextIds(n)
                                          THEN [Absent EXCEPT !.status = "OPEN", !.parent = p]
                                     ELSE orders[o]]
                    /\ \E s \in Shares(p, NextIds(n)) :
                          lines' = [o \in Orders |-> IF o \in NextIds(n) THEN s[o] ELSE lines[o]]
              /\ UNCHANGED <<kotOrder, nextKot, nextBill, punched>>
              /\ Finish(r)
           \/ ~ok /\ Abort(r)

\* the checks to lock come from a read made before the transaction
BeginUnsplit(r, o) ==
    Begin(r, [Idle EXCEPT !.pc = "unsplit_parent", !.want = Children(o), !.o = o, !.others = Children(o)])

UnsplitParent(r) == At(r, "unsplit_parent") /\ Goto(r, "unsplit_commit", {req[r].o})

UnsplitCommit(r) ==
    LET p == req[r].o
        kids == Children(p)
        ok == /\ orders[p].status = "OPEN" /\ orders[p].splitCount # 0
              /\ Cardinality(kids) = Cardinality(req[r].others)
              /\ \A c \in kids : orders[c].status = "OPEN"
    IN  /\ At(r, "unsplit_commit")
        /\ \/ /\ ok
              /\ orders' = [o \in Orders |->
                               IF o = p THEN [orders[o] EXCEPT !.splitCount = 0]
                               ELSE IF o \in kids THEN [Absent EXCEPT !.status = "DELETED"]
                               ELSE orders[o]]
              /\ lines' = [o \in Orders |-> IF o \in kids THEN NoLines ELSE lines[o]]
              /\ UNCHANGED <<kotOrder, nextKot, nextBill, punched>>
              /\ Finish(r)
           \/ ~ok /\ Abort(r)

----------------------------------------------------------------------------

\* A request names bills the POS offers the operation on when it is sent;
\* every condition is checked again under the locks.
Offered == {o \in Orders : Mergeable(o)}

Submit(r) ==
    \/ \E t \in Tables \cup {NoTable} : BeginOpen(r, t)
    \/ \E t \in Tables : BeginScan(r, t)
    \/ \E o \in Offered : BeginAdd(r, o) \/ BeginCancel(r, o) \/ BeginSplit(r, o)
    \/ \E o \in Known : orders[o].status = "OPEN" /\ orders[o].splitCount = 0 /\ BeginSettle(r, o)
    \/ \E o \in Known : orders[o].splitCount # 0 /\ BeginUnsplit(r, o)
    \/ \E o \in Offered, to \in Tables : BeginTransfer(r, o, to)
    \/ \E tgt \in Offered : \E srcs \in SUBSET (Offered \ {tgt}) :
          srcs # {} /\ Cardinality(srcs) <= MaxSources /\ BeginMerge(r, tgt, srcs)

Step(r) ==
    \/ OpenCheck(r) \/ OpenCommit(r) \/ ScanFind(r) \/ ScanReread(r)
    \/ AddCheck(r) \/ PunchCommit(r)
    \/ SettleCheck(r) \/ SettleParent(r) \/ SettleCount(r) \/ SettleCommit(r)
    \/ CancelCommit(r) \/ MergeCommit(r) \/ TransferFind(r) \/ TransferCommit(r)
    \/ SplitCommit(r) \/ UnsplitParent(r) \/ UnsplitCommit(r)

Next == \E r \in Reqs : Submit(r) \/ Acquire(r) \/ NotFound(r) \/ Step(r) \/ DeadlockVictim(r) \/ Fail(r)

Spec == Init /\ [][Next]_vars

----------------------------------------------------------------------------
(* Properties. *)

RowsOK ==
    /\ orders \in [Orders -> OrderRow]
    /\ nextKot \in Nat /\ nextBill \in Nat
    /\ lock \in [Rows -> Reqs \cup {Free}]
    /\ req \in [Reqs -> Request]

\* Every variable keeps its type: order rows, request records, lock holders,
\* and no line ever holds a negative quantity.
TypeOK ==
    /\ RowsOK
    /\ lines \in [Orders -> [Kots -> Nat]]
    /\ punched \in [Kots -> Nat]
    /\ kotOrder \in [Kots -> Orders \cup {NoOrder}]

\* A dining table never carries two running bills, whatever create, scan
\* ingestion and transfer requests race for it (they all lock the table row
\* before they look for an open order).
OneOpenBillPerTable == \A t \in Tables : \A a, b \in OpenOn(t) : a = b

\* The inductive strengthening of OneOpenBillPerTable: a request that is about
\* to put an open bill on a table holds that table's row, and what it read of
\* the table under that lock still holds.
Reserves(r) == req[r].t \in req[r].want \/ lock[req[r].t] = r
TableReserved(r) ==
    LET t == req[r].t
    IN  /\ req[r].pc \in {"open_check", "scan_find", "transfer_find"} => t \in Tables /\ Reserves(r)
        /\ req[r].pc = "open_commit" /\ t # NoTable => lock[t] = r /\ OpenOn(t) = {}
        /\ req[r].pc = "scan_reread" => t \in Tables /\ lock[t] = r /\ OpenOn(t) \subseteq {req[r].o}
        /\ req[r].pc = "transfer_commit" =>
              t \in Tables /\ lock[t] = r /\ (req[r].o = NoOrder => OpenOn(t) = {})
TableInv == OneOpenBillPerTable /\ \A r \in Reqs : TableReserved(r)

\* A split bill and its checks agree: the checks are as many as splitCount,
\* share the parent's lines out exactly, and the parent is SPLIT exactly when
\* the last check has settled, so no bill waits for checks that are all paid.
ChecksAgree(p) ==
    LET kids == Children(p)
    IN  /\ Cardinality(kids) = orders[p].splitCount
        /\ orders[p].splitCount # 0 =>
              /\ \A c \in kids : orders[c].status \in {"OPEN", "SETTLED"}
              /\ orders[p].status =
                    IF \E c \in kids : orders[c].status = "OPEN" THEN "OPEN" ELSE "SPLIT"
SharesExact(p) ==
    orders[p].splitCount # 0 => \A k \in Kots : UnitsOn(lines, Children(p), k) = lines[p][k]
SplitAccounting == \A p \in Known : ChecksAgree(p) /\ SharesExact(p)

\* Every unit the kitchen was sent is on exactly one bill that was or will be
\* settled or voided: merge, transfer, split and unsplit neither lose a unit
\* nor charge it twice.
Billed == {o \in Known : orders[o].splitCount = 0 /\ orders[o].status # "MERGED"}
EveryUnitBilledOnce == \A k \in Kots : UnitsOn(lines, Billed, k) = punched[k]

\* However bills are opened on, moved between and split at tables, no table
\* has two bills, checks add up to their bill, and no unit is lost or billed twice.
MovesSound == OneOpenBillPerTable /\ SplitAccounting /\ EveryUnitBilledOnce

\* The outlet's bill numbers are handed to settled orders without a gap and
\* without a repeat, although settlements roll back and race.
BillNumbersGapless ==
    LET settled == {o \in Known : orders[o].status = "SETTLED"}
    IN  /\ {orders[o].bill : o \in settled} = 1..(nextBill - 1)
        /\ Cardinality(settled) = nextBill - 1

\* A bill that was closed (settled, voided, merged away or split up) is final:
\* no later step reopens it, renumbers it or changes what is on it.
Closed(o) == orders[o].status \in {"SETTLED", "CANCELLED", "MERGED", "SPLIT"}
ClosedIsFinal ==
    [][\A o \in Orders : Closed(o) => orders'[o] = orders[o] /\ lines'[o] = lines[o]]_vars

\* Requests wait for each other in a circle only through a row that one of them
\* locks out of turn: a transfer the bill it found on the target table, a check's
\* settlement the bill it is a check of, after the outlet's counter, an unsplit
\* that bill after its checks.  Whatever else meets - opening, scanning, adding,
\* cancelling, splitting, merging any number of bills - is served in turn.
OutOfTurn(r) == req[r].pc \in {"transfer_commit", "settle_count", "unsplit_commit"}
CirclesOutOfTurn == \A C \in SUBSET Reqs : LockCycle(C) => \E r \in C : OutOfTurn(r)

\* "... so concurrent operations serialize instead of deadlocking"
\* (order-ops.service.ts:29-30).
NeverInCircles == \A C \in SUBSET Reqs : ~LockCycle(C)
============================================================================

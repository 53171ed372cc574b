---------------------------- MODULE BillsProofs ----------------------------
(***************************************************************************)
(* Running bills for every set of requests, tables and orders, in four     *)
(* layers.  Tables: a request that is about to put a bill on a table holds *)
(* the table's row.  Order rows: a request writes only rows it has locked, *)
(* so closed bills stay closed and bill numbers have no gap.  Split bills  *)
(* and units: checks agree with their bill, and every unit punched is on   *)
(* one bill.  Turns: rows are locked in order, but for three steps.        *)
(***************************************************************************)
EXTENDS Bills, SumProofs

\* what a step of request r leaves alone: the other requests and their locks
OthersKept(r) ==
    /\ \A s \in Reqs \ {r} : req'[s] = req[s]
    /\ \A s \in Reqs \ {r} : \A row \in Rows : lock[row] = s => lock'[row] = s

\* no bill opens on a table whose row r has not locked
OpensOnlyLocked(r) == \A t \in Tables : OpenOn(t)' \subseteq OpenOn(t) \/ lock[t] = r

\* A step that leaves the other requests and their locks alone, and opens bills
\* only on tables it has locked, disturbs no other request's reservation.
LEMMA ReservationsKept ==
    ASSUME RowsOK, TableInv, NEW r \in Reqs, OthersKept(r), OpensOnlyLocked(r)
    PROVE  \A s \in Reqs \ {r} : TableReserved(s)'
<1> TAKE s \in Reqs \ {r}
<1>1. req'[s] = req[s] /\ s # r /\ TableReserved(s)
  BY DEF OthersKept, TableInv
<1>2. req[s].t \in Tables \cup {NoTable}
  BY DEF RowsOK, Request
<1>3. req[s].t \in Tables /\ lock[req[s].t] = s =>
         lock'[req[s].t] = s /\ OpenOn(req[s].t)' \subseteq OpenOn(req[s].t)
  BY <1>1 DEF OthersKept, OpensOnlyLocked, Rows
<1>4. QED
  BY <1>1, <1>2, <1>3 DEF TableReserved, Reserves, OpenOn

\* Releasing a request's own locks, or taking rows nobody holds, leaves the
\* other requests and their locks alone.
LEMMA KeepsOthers ==
    ASSUME RowsOK, NEW r \in Reqs
    PROVE  /\ Finish(r) => OthersKept(r)
           /\ \A rec : Begin(r, rec) => OthersKept(r)
           /\ \A pc, pc2, want : At(r, pc) /\ Goto(r, pc2, want) => OthersKept(r)
           /\ \A pc : At(r, pc) /\ Hold(r) /\ (\A s \in Reqs \ {r} : req'[s] = req[s]) => OthersKept(r)
           /\ Acquire(r) => OthersKept(r)
<1>1. Free \notin Reqs
  BY BillsAssumption
<1>2. Finish(r) => OthersKept(r)
  BY DEF Finish, OthersKept, RowsOK
<1>3. ASSUME NEW rec, Begin(r, rec) PROVE OthersKept(r)
  BY <1>3 DEF Begin, OthersKept, RowsOK
<1>4. ASSUME NEW pc, At(r, pc), Hold(r), \A s \in Reqs \ {r} : req'[s] = req[s]
      PROVE OthersKept(r)
  BY <1>1, <1>4 DEF At, Hold, OthersKept, RowsOK
<1>5. ASSUME NEW pc, NEW pc2, NEW want, At(r, pc), Goto(r, pc2, want)
      PROVE OthersKept(r)
  BY <1>4, <1>5 DEF Goto, RowsOK
<1>6. ASSUME Acquire(r) PROVE OthersKept(r)
  BY <1>1, <1>6 DEF Acquire, OthersKept, RowsOK
<1>7. QED
  BY <1>2, <1>3, <1>4, <1>5, <1>6

\* An ended request reserves nothing.
LEMMA IdleReservesNothing ==
    ASSUME RowsOK, NEW r \in Reqs, Finish(r)
    PROVE  TableReserved(r)'
<1>1. req'[r] = Idle
  BY DEF Finish, RowsOK
<1>2. QED
  BY <1>1 DEF TableReserved, Idle

\* Steps that write no order row cannot open a bill.
LEMMA OpenOnKept ==
    ASSUME UNCHANGED orders
    PROVE  \A t \in Tables : OpenOn(t)' = OpenOn(t)
BY DEF OpenOn

\* A transaction that rolls back keeps the invariant.
LEMMA AbortStep ==
    ASSUME RowsOK, TableInv, NEW r \in Reqs, Abort(r)
    PROVE  RowsOK' /\ TableInv'
<1>1. RowsOK'
  <2>1. lock' \in [Rows -> Reqs \cup {Free}]
    BY DEF RowsOK, Abort, Finish
  <2>2. Idle \in Request
    BY DEF Idle, Request, PCs, WithOrder
  <2>3. req' \in [Reqs -> Request]
    BY <2>2 DEF RowsOK, Abort, Finish
  <2>4. QED
    BY <2>1, <2>3 DEF RowsOK, Abort, db
<1>2. OthersKept(r) /\ OpensOnlyLocked(r)
  BY KeepsOthers, OpenOnKept DEF Abort, OpensOnlyLocked, db
<1>3. OneOpenBillPerTable'
  BY OpenOnKept DEF Abort, db, TableInv, OneOpenBillPerTable
<1>4. QED
  BY <1>1, <1>2, <1>3, ReservationsKept, IdleReservesNothing DEF TableInv, Abort

\* A step that writes no row and keeps r's own reservation keeps the invariant.
LEMMA ReadStep ==
    ASSUME RowsOK, TableInv, NEW r \in Reqs, UNCHANGED db, OthersKept(r), TableReserved(r)'
    PROVE  TableInv'
<1>1. OpensOnlyLocked(r)
  BY OpenOnKept DEF OpensOnlyLocked, db
<1>2. OneOpenBillPerTable'
  BY OpenOnKept DEF db, TableInv, OneOpenBillPerTable
<1>3. QED
  BY <1>1, <1>2, ReservationsKept DEF TableInv

\* Starting a request that names a table only with a wish to lock it keeps the
\* invariant.
LEMMA BeginStep ==
    ASSUME RowsOK, TableInv, NEW r \in Reqs, NEW rec \in Request, Begin(r, rec),
           rec.pc \in {"open_check", "scan_find", "transfer_find"} =>
              rec.t \in Tables /\ rec.t \in rec.want,
           rec.pc = "open_commit" => rec.t = NoTable,
           rec.pc \notin {"scan_reread", "transfer_commit"}
    PROVE  RowsOK' /\ TableInv'
<1>1. RowsOK'
  BY DEF Begin, RowsOK, db
<1>2. req'[r] = rec /\ UNCHANGED <<db, lock>>
  BY DEF Begin, RowsOK
<1>3. TableReserved(r)'
  BY <1>2 DEF TableReserved, Reserves
<1>4. QED
  BY <1>1, <1>2, <1>3, ReadStep, KeepsOthers

\* Every request the API accepts starts so.
LEMMA SubmitStep ==
    ASSUME RowsOK, TableInv, NEW r \in Reqs, Submit(r)
    PROVE  RowsOK' /\ TableInv'
<1> USE DEF Request, PCs, Idle, WithOrder
<1>1. Outlet \in Rows /\ Tables \subseteq Rows /\ Orders \subseteq Rows
  BY DEF Rows
<1>2. ASSUME NEW t \in Tables \cup {NoTable}, BeginOpen(r, t) PROVE RowsOK' /\ TableInv'
  <2>1. CASE t = NoTable
    BY <1>1, <1>2, <2>1, BeginStep DEF BeginOpen
  <2>2. CASE t \in Tables
    <3> DEFINE rec == [Idle EXCEPT !.pc = "open_check", !.want = {t}, !.t = t]
    <3>1. Begin(r, rec)
      BY <1>2, <2>2, BillsAssumption DEF BeginOpen
    <3>2. rec \in Request
      BY <1>1, <2>2
    <3>3. QED
      BY <3>1, <3>2, <2>2, BeginStep
  <2>3. QED
    BY <2>1, <2>2
<1>3. ASSUME NEW t \in Tables, BeginScan(r, t) PROVE RowsOK' /\ TableInv'
  BY <1>1, <1>3, BeginStep DEF BeginScan
<1>4. ASSUME NEW o \in Orders, BeginAdd(r, o) PROVE RowsOK' /\ TableInv'
  BY <1>1, <1>4, BeginStep DEF BeginAdd
<1>5. ASSUME NEW o \in Orders, BeginCancel(r, o) PROVE RowsOK' /\ TableInv'
  BY <1>1, <1>5, BeginStep DEF BeginCancel
<1>6. ASSUME NEW o \in Orders, BeginSplit(r, o) PROVE RowsOK' /\ TableInv'
  BY <1>1, <1>6, BeginStep DEF BeginSplit
<1>7. ASSUME NEW o \in Orders, BeginSettle(r, o) PROVE RowsOK' /\ TableInv'
  BY <1>1, <1>7, BeginStep DEF BeginSettle
<1>8. ASSUME NEW o \in Orders, BeginUnsplit(r, o) PROVE RowsOK' /\ TableInv'
  <2>1. Children(o) \subseteq Orders
    BY DEF Children
  <2>2. QED
    BY <1>1, <1>8, <2>1, BeginStep DEF BeginUnsplit
<1>9. ASSUME NEW o \in Orders, NEW to \in Tables, BeginTransfer(r, o, to)
      PROVE RowsOK' /\ TableInv'
  <2>1. orders[o].table \in Tables \cup {NoTable}
    BY DEF RowsOK, OrderRow
  <2>2. to # NoTable
    BY BillsAssumption
  <2>3. QED
    BY <1>1, <1>9, <2>1, <2>2, BeginStep DEF BeginTransfer
<1>10. ASSUME NEW tgt \in Orders, NEW srcs \in SUBSET Orders, BeginMerge(r, tgt, srcs)
       PROVE RowsOK' /\ TableInv'
  <2>1. {orders[o].table : o \in srcs \cup {tgt}} \ {NoTable} \subseteq Tables
    BY DEF RowsOK, OrderRow
  <2>2. QED
    BY <1>1, <1>10, <2>1, BeginStep DEF BeginMerge
<1>11. QED
  BY <1>2, <1>3, <1>4, <1>5, <1>6, <1>7, <1>8, <1>9, <1>10 DEF Submit, Offered, Known

\* Taking one of several row locks keeps the invariant.
LEMMA AcquireStep ==
    ASSUME RowsOK, TableInv, NEW r \in Reqs, Acquire(r)
    PROVE  RowsOK' /\ TableInv'
<1> DEFINE row == Min(req[r].want)
<1>1. /\ lock' = [lock EXCEPT ![row] = r] /\ UNCHANGED db /\ lock[row] = Free
      /\ req' = [req EXCEPT ![r].want = @ \ {row}]
  BY DEF Acquire
<1> HIDE DEF row
<1>2. req[r] \in Request
  BY DEF RowsOK
<1>3. [req[r] EXCEPT !.want = req[r].want \ {row}] \in Request
  BY <1>2 DEF Request
<1>4. RowsOK'
  BY <1>1, <1>3 DEF RowsOK, db
<1>5. TableReserved(r)
  BY DEF TableInv
<1>6. /\ req'[r].pc = req[r].pc /\ req'[r].t = req[r].t /\ req'[r].o = req[r].o
      /\ req'[r].want = req[r].want \ {row}
  BY <1>1, <1>2 DEF RowsOK, Request
<1>7. \A x \in Rows : lock[x] = r => lock'[x] = r
  BY <1>1 DEF RowsOK
<1>8. req[r].t \in Tables /\ Reserves(r) => Reserves(r)'
  BY <1>1, <1>6, <1>7 DEF Reserves, Rows, RowsOK
<1>9. \A t : OpenOn(t)' = OpenOn(t)
  BY <1>1 DEF OpenOn, db
<1>10. req[r].t \in Tables \cup {NoTable}
  BY <1>2 DEF Request
<1>11. TableReserved(r)'
  BY <1>5, <1>6, <1>7, <1>8, <1>9, <1>10 DEF TableReserved, Rows
<1>12. QED
  BY <1>1, <1>4, <1>11, ReadStep, KeepsOthers

\* What a step that only moves on to its next lock wait, keeping its table,
\* establishes.
LEMMA HoldStep ==
    ASSUME RowsOK, TableInv, NEW r \in Reqs, NEW pc, At(r, pc), Hold(r), UNCHANGED db,
           req' = [req EXCEPT ![r] = req'[r]], req'[r] \in Request, req'[r].t = req[r].t
    PROVE  /\ RowsOK' /\ OthersKept(r)
           /\ req[r].t \in Tables /\ Reserves(r) => lock'[req[r].t] = r
           /\ \A t : OpenOn(t)' = OpenOn(t)
           /\ TableReserved(r)' => TableInv'
<1>1. lock' \in [Rows -> Reqs \cup {Free}]
  BY DEF Hold, RowsOK
<1>2. RowsOK'
  BY <1>1 DEF RowsOK, db
<1>3. OthersKept(r)
  BY KeepsOthers DEF RowsOK
<1>4. req[r].t \in Tables /\ Reserves(r) => lock'[req[r].t] = r
  BY DEF Hold, Reserves, Rows
<1>5. \A t : OpenOn(t)' = OpenOn(t)
  BY DEF OpenOn, db
<1>6. QED
  BY <1>2, <1>3, <1>4, <1>5, ReadStep

\* Goto is such a step.
LEMMA GotoStep ==
    ASSUME RowsOK, TableInv, NEW r \in Reqs, NEW pc, At(r, pc),
           NEW pc2 \in PCs, NEW want \in SUBSET Rows, Goto(r, pc2, want),
           pc2 \in WithOrder => req[r].o \in Orders
    PROVE  /\ RowsOK'
           /\ req'[r].pc = pc2 /\ req'[r].t = req[r].t /\ req'[r].o = req[r].o
           /\ req[r].t \in Tables /\ Reserves(r) => lock'[req[r].t] = r
           /\ \A t : OpenOn(t)' = OpenOn(t)
           /\ TableReserved(r)' => TableInv'
<1>1. req[r] \in Request
  BY DEF RowsOK
<1>2. req' = [req EXCEPT ![r] = [req[r] EXCEPT !.pc = pc2, !.want = want]] /\ Hold(r) /\ UNCHANGED db
  BY DEF Goto
<1>3. req'[r] = [req[r] EXCEPT !.pc = pc2, !.want = want]
  BY <1>2 DEF RowsOK
<1>4. req'[r] \in Request
  BY <1>1, <1>3 DEF Request
<1>5. req'[r].pc = pc2 /\ req'[r].t = req[r].t /\ req'[r].o = req[r].o
  BY <1>1, <1>3 DEF Request
<1>6. QED
  BY <1>2, <1>3, <1>4, <1>5, HoldStep

\* The read steps of opening and filling a bill.
LEMMA OpenReadSteps ==
    ASSUME RowsOK, TableInv, NEW r \in Reqs,
           OpenCheck(r) \/ ScanFind(r) \/ ScanReread(r) \/ AddCheck(r)
    PROVE  RowsOK' /\ TableInv'
<1>1. /\ Outlet \in Rows /\ Tables \subseteq Rows /\ Orders \subseteq Rows
      /\ req[r] \in Request /\ TableReserved(r) /\ NoTable \notin Tables
  BY BillsAssumption DEF Rows, RowsOK, TableInv
<1>2. CASE OpenCheck(r)
  <2>1. At(r, "open_check") /\ req[r].pc = "open_check"
    BY <1>2 DEF OpenCheck, At
  <2>2. req[r].t \in Tables /\ Reserves(r)
    BY <1>1, <2>1 DEF TableReserved
  <2>3. CASE OpenOn(req[r].t) = {} /\ Goto(r, "open_commit", {Outlet})
    <3>1. RowsOK' /\ req'[r].pc = "open_commit" /\ req'[r].t = req[r].t
             /\ lock'[req[r].t] = r /\ (\A t : OpenOn(t)' = OpenOn(t))
             /\ (TableReserved(r)' => TableInv')
      BY <1>1, <2>1, <2>2, <2>3, GotoStep DEF PCs, WithOrder
    <3>2. TableReserved(r)'
      BY <2>3, <3>1 DEF TableReserved
    <3>3. QED
      BY <3>1, <3>2
  <2>4. QED
    BY <1>2, <2>3, AbortStep DEF OpenCheck
<1>3. CASE ScanFind(r)
  <2>1. At(r, "scan_find") /\ req[r].pc = "scan_find"
    BY <1>3 DEF ScanFind, At
  <2>2. req[r].t \in Tables /\ Reserves(r)
    BY <1>1, <2>1 DEF TableReserved
  <2>3. CASE OpenOn(req[r].t) = {} /\ Goto(r, "open_commit", {Outlet})
    <3>1. RowsOK' /\ req'[r].pc = "open_commit" /\ req'[r].t = req[r].t
             /\ lock'[req[r].t] = r /\ (\A t : OpenOn(t)' = OpenOn(t))
             /\ (TableReserved(r)' => TableInv')
      BY <1>1, <2>1, <2>2, <2>3, GotoStep DEF PCs, WithOrder
    <3>2. TableReserved(r)'
      BY <2>3, <3>1 DEF TableReserved
    <3>3. QED
      BY <3>1, <3>2
  <2>4. ASSUME NEW o \in OpenOn(req[r].t), Hold(r), UNCHANGED db,
               req' = [req EXCEPT ![r].pc = "scan_reread", ![r].want = {o}, ![r].o = o]
        PROVE  RowsOK' /\ TableInv'
    <3>1. o \in Orders
      BY DEF OpenOn
    <3>2. req'[r] = [req[r] EXCEPT !.pc = "scan_reread", !.want = {o}, !.o = o]
      BY <2>4 DEF RowsOK
    <3>3. req'[r] \in Request /\ req'[r].t = req[r].t /\ req'[r].pc = "scan_reread" /\ req'[r].o = o
      <4>1. "scan_reread" \in PCs /\ {o} \in SUBSET Rows
        BY <1>1, <3>1 DEF PCs
      <4>2. QED
        BY <1>1, <3>1, <3>2, <4>1 DEF Request
    <3>4. RowsOK' /\ lock'[req[r].t] = r /\ (\A t : OpenOn(t)' = OpenOn(t))
             /\ (TableReserved(r)' => TableInv')
      BY <2>1, <2>2, <2>4, <3>2, <3>3, HoldStep
    <3>5. OpenOn(req[r].t) \subseteq {o}
      BY <2>2 DEF TableInv, OneOpenBillPerTable
    <3>6. TableReserved(r)'
      BY <2>2, <3>3, <3>4, <3>5 DEF TableReserved
    <3>7. QED
      BY <3>4, <3>6
  <2>5. QED
    BY <1>3, <2>3, <2>4 DEF ScanFind
<1>4. CASE ScanReread(r)
  <2>1. At(r, "scan_reread") /\ req[r].pc = "scan_reread"
    BY <1>4 DEF ScanReread, At
  <2>2. /\ req[r].t \in Tables /\ Reserves(r) /\ OpenOn(req[r].t) \subseteq {req[r].o}
        /\ req[r].o \in Orders
    BY <1>1, <2>1 DEF TableReserved, Reserves, Request, PCs, WithOrder
  <2>3. CASE orders[req[r].o].status # "OPEN" /\ Goto(r, "open_commit", {Outlet})
    <3>1. RowsOK' /\ req'[r].pc = "open_commit" /\ req'[r].t = req[r].t
             /\ lock'[req[r].t] = r /\ (\A t : OpenOn(t)' = OpenOn(t))
             /\ (TableReserved(r)' => TableInv')
      BY <1>1, <2>1, <2>2, <2>3, GotoStep DEF PCs, WithOrder
    <3>2. OpenOn(req[r].t) = {}
      BY <2>2, <2>3 DEF OpenOn
    <3>3. TableReserved(r)'
      BY <3>1, <3>2 DEF TableReserved
    <3>4. QED
      BY <3>1, <3>3
  <2>4. CASE Goto(r, "punch_commit", {Outlet})
    <3>1. RowsOK' /\ req'[r].pc = "punch_commit" /\ (TableReserved(r)' => TableInv')
      BY <1>1, <2>1, <2>2, <2>4, GotoStep DEF PCs
    <3>2. QED
      BY <3>1 DEF TableReserved
  <2>5. QED
    BY <1>4, <2>3, <2>4, AbortStep DEF ScanReread
<1>5. CASE AddCheck(r)
  <2>1. At(r, "add_check") /\ req[r].pc = "add_check" /\ req[r].o \in Orders
    BY <1>1, <1>5 DEF AddCheck, At, Request, PCs, WithOrder
  <2>2. CASE Goto(r, "punch_commit", {Outlet})
    <3>1. RowsOK' /\ req'[r].pc = "punch_commit" /\ (TableReserved(r)' => TableInv')
      BY <1>1, <2>1, <2>2, GotoStep DEF PCs
    <3>2. QED
      BY <3>1 DEF TableReserved
  <2>3. QED
    BY <1>5, <2>2, AbortStep DEF AddCheck
<1>6. QED
  BY <1>2, <1>3, <1>4, <1>5

\* The read steps of closing, moving and unsplitting a bill.
LEMMA CloseReadSteps ==
    ASSUME RowsOK, TableInv, NEW r \in Reqs,
           SettleCheck(r) \/ SettleParent(r) \/ SettleCount(r) \/ UnsplitParent(r)
    PROVE  RowsOK' /\ TableInv'
<1>1. /\ Outlet \in Rows /\ Orders \subseteq Rows /\ req[r] \in Request
  BY DEF Rows, RowsOK
<1>2. CASE SettleCheck(r)
  <2>1. At(r, "settle_check") /\ req[r].o \in Orders
    BY <1>1, <1>2 DEF SettleCheck, At, Request, PCs, WithOrder
  <2>2. CASE Goto(r, "settle_commit", {Outlet})
    <3>1. RowsOK' /\ req'[r].pc = "settle_commit" /\ (TableReserved(r)' => TableInv')
      BY <1>1, <2>1, <2>2, GotoStep DEF PCs
    <3>2. QED
      BY <3>1 DEF TableReserved
  <2>3. ASSUME orders[req[r].o].parent # NoOrder, Hold(r), UNCHANGED db,
               req' = [req EXCEPT ![r].pc = "settle_parent", ![r].want = {Outlet},
                                  ![r].others = {orders[req[r].o].parent}]
        PROVE  RowsOK' /\ TableInv'
    <3>1. {orders[req[r].o].parent} \in SUBSET Orders
      BY <2>1, <2>3 DEF RowsOK, OrderRow
    <3>2. req'[r] = [req[r] EXCEPT !.pc = "settle_parent", !.want = {Outlet},
                                   !.others = {orders[req[r].o].parent}]
      BY <2>3 DEF RowsOK
    <3>3. "settle_parent" \in PCs /\ {Outlet} \in SUBSET Rows
      BY <1>1 DEF PCs
    <3>4. req'[r] \in Request /\ req'[r].t = req[r].t /\ req'[r].pc = "settle_parent"
      BY <1>1, <2>1, <3>1, <3>2, <3>3 DEF Request
    <3>5. RowsOK' /\ (TableReserved(r)' => TableInv')
      BY <2>1, <2>3, <3>2, <3>4, HoldStep
    <3>6. QED
      BY <3>4, <3>5 DEF TableReserved
  <2>4. QED
    BY <1>2, <2>2, <2>3, AbortStep DEF SettleCheck
<1>3. CASE SettleParent(r)
  <2>1. At(r, "settle_parent") /\ req[r].o \in Orders /\ req[r].others \in SUBSET Rows
    BY <1>1, <1>3 DEF SettleParent, At, Request, PCs, WithOrder
  <2>2. PICK w \in SUBSET Rows : w = req[r].others
    BY <2>1
  <2>3. RowsOK' /\ req'[r].pc = "settle_count" /\ (TableReserved(r)' => TableInv')
    BY <1>3, <2>1, <2>2, GotoStep DEF PCs, SettleParent
  <2>4. QED
    BY <2>3 DEF TableReserved
<1>4. CASE SettleCount(r)
  <2>1. At(r, "settle_count") /\ req[r].o \in Orders
    BY <1>1, <1>4 DEF SettleCount, CountChecks, At, Request, PCs, WithOrder
  <2>2. PICK last \in BOOLEAN :
           req' = [req EXCEPT ![r].pc = "settle_commit", ![r].want = {}, ![r].last = last]
    BY <1>4 DEF SettleCount, CountChecks
  <2>3. req'[r] = [req[r] EXCEPT !.pc = "settle_commit", !.want = {}, !.last = last]
    BY <2>2 DEF RowsOK
  <2>4. req'[r] \in Request /\ req'[r].t = req[r].t /\ req'[r].pc = "settle_commit"
    <3>1. "settle_commit" \in PCs
      BY DEF PCs
    <3>2. QED
      BY <1>1, <2>1, <2>3, <3>1 DEF Request
  <2>5. Hold(r) /\ UNCHANGED db
    BY <1>4 DEF SettleCount, CountChecks
  <2>6. RowsOK' /\ (TableReserved(r)' => TableInv')
    BY <2>1, <2>2, <2>3, <2>4, <2>5, HoldStep
  <2>7. QED
    BY <2>4, <2>6 DEF TableReserved
<1>5. CASE UnsplitParent(r)
  <2>1. At(r, "unsplit_parent") /\ req[r].o \in Orders /\ {req[r].o} \in SUBSET Rows
    BY <1>1, <1>5 DEF UnsplitParent, At, Request, PCs, WithOrder
  <2>2. PICK w \in SUBSET Rows : w = {req[r].o}
    BY <2>1
  <2>3. RowsOK' /\ req'[r].pc = "unsplit_commit" /\ (TableReserved(r)' => TableInv')
    BY <1>5, <2>1, <2>2, GotoStep DEF PCs, UnsplitParent
  <2>4. QED
    BY <2>3 DEF TableReserved
<1>6. QED
  BY <1>2, <1>3, <1>4, <1>5

\* A transfer that looks at its target table does so under the table's lock.
LEMMA TransferFindStep ==
    ASSUME RowsOK, TableInv, NEW r \in Reqs, TransferFind(r)
    PROVE  RowsOK' /\ TableInv'
<1>1. /\ Orders \subseteq Rows /\ req[r] \in Request /\ TableReserved(r)
      /\ NoTable \notin Tables /\ NoOrder \notin Orders
  BY BillsAssumption DEF Rows, RowsOK, TableInv
<1>2. At(r, "transfer_find") /\ req[r].pc = "transfer_find"
  BY DEF TransferFind, At
<1>3. req[r].t \in Tables /\ Reserves(r)
  BY <1>1, <1>2 DEF TableReserved
<1>4. CASE OpenOn(req[r].t) = {} /\ Goto(r, "transfer_commit", {})
  <2>1. RowsOK' /\ req'[r].pc = "transfer_commit" /\ req'[r].t = req[r].t
           /\ lock'[req[r].t] = r /\ (\A t : OpenOn(t)' = OpenOn(t))
           /\ (TableReserved(r)' => TableInv')
    BY <1>1, <1>2, <1>3, <1>4, GotoStep DEF PCs, WithOrder
  <2>2. TableReserved(r)'
    BY <1>3, <1>4, <2>1 DEF TableReserved
  <2>3. QED
    BY <2>1, <2>2
<1>5. ASSUME NEW o \in OpenOn(req[r].t), Hold(r), UNCHANGED db,
             req' = [req EXCEPT ![r].pc = "transfer_commit", ![r].want = {o}, ![r].o = o]
      PROVE  RowsOK' /\ TableInv'
  <2>1. o \in Orders
    BY DEF OpenOn
  <2>2. req'[r] = [req[r] EXCEPT !.pc = "transfer_commit", !.want = {o}, !.o = o]
    BY <1>5 DEF RowsOK
  <2>3. "transfer_commit" \in PCs /\ {o} \in SUBSET Rows
    BY <1>1, <2>1 DEF PCs
  <2>4. req'[r] \in Request /\ req'[r].t = req[r].t /\ req'[r].pc = "transfer_commit" /\ req'[r].o = o
    BY <1>1, <2>1, <2>2, <2>3 DEF Request
  <2>5. RowsOK' /\ lock'[req[r].t] = r /\ (TableReserved(r)' => TableInv')
    BY <1>2, <1>3, <1>5, <2>2, <2>4, HoldStep
  <2>6. TableReserved(r)'
    BY <1>1, <1>3, <2>1, <2>4, <2>5 DEF TableReserved
  <2>7. QED
    BY <2>5, <2>6
<1>6. QED
  BY <1>4, <1>5, AbortStep DEF TransferFind

\* A commit that opens bills only on tables it locked, and leaves one open bill
\* on each, keeps the invariant.
LEMMA CommitStep ==
    ASSUME RowsOK, TableInv, NEW r \in Reqs, Finish(r),
           orders' \in [Orders -> OrderRow], nextKot' \in Nat, nextBill' \in Nat,
           OpensOnlyLocked(r), OneOpenBillPerTable'
    PROVE  RowsOK' /\ TableInv'
<1>1. lock' \in [Rows -> Reqs \cup {Free}]
  BY DEF RowsOK, Finish
<1>2. Idle \in Request
  BY DEF Idle, Request, PCs, WithOrder
<1>3. req' \in [Reqs -> Request]
  BY <1>2 DEF RowsOK, Finish
<1>4. RowsOK'
  BY <1>1, <1>3 DEF RowsOK
<1>5. OthersKept(r)
  BY KeepsOthers
<1>6. QED
  BY <1>4, <1>5, ReservationsKept, IdleReservesNothing DEF TableInv

\* A commit after which no table has gained an open bill is one of these.
LEMMA ClosingCommit ==
    ASSUME RowsOK, TableInv, NEW r \in Reqs, Finish(r),
           orders' \in [Orders -> OrderRow], nextKot' \in Nat, nextBill' \in Nat,
           \A t \in Tables : OpenOn(t)' \subseteq OpenOn(t)
    PROVE  RowsOK' /\ TableInv'
<1>1. OneOpenBillPerTable'
  BY DEF TableInv, OneOpenBillPerTable
<1>2. OpensOnlyLocked(r)
  BY DEF OpensOnlyLocked
<1>3. QED
  BY <1>1, <1>2, CommitStep

\* A commit that opens or moves the bill x onto the free table t it locked.
LEMMA OpeningCommit ==
    ASSUME RowsOK, TableInv, NEW r \in Reqs, Finish(r),
           orders' \in [Orders -> OrderRow], nextKot' \in Nat, nextBill' \in Nat,
           NEW t \in Tables, NEW x, lock[t] = r, OpenOn(t)' \subseteq {x},
           \A u \in Tables \ {t} : OpenOn(u)' \subseteq OpenOn(u)
    PROVE  RowsOK' /\ TableInv'
<1>1. OneOpenBillPerTable'
  BY DEF TableInv, OneOpenBillPerTable
<1>2. OpensOnlyLocked(r)
  BY DEF OpensOnlyLocked
<1>3. QED
  BY <1>1, <1>2, CommitStep

\* create and scan ingestion open a bill on a table only while it is free.
LEMMA OpenCommitStep ==
    ASSUME RowsOK, TableInv, NEW r \in Reqs, OpenCommit(r)
    PROVE  RowsOK' /\ TableInv'
<1>1. req[r].pc = "open_commit" /\ req[r].t \in Tables \cup {NoTable} /\ TableReserved(r)
         /\ NoTable \notin Tables
  BY BillsAssumption DEF OpenCommit, At, RowsOK, Request, TableInv
<1>2. ASSUME Room, Finish(r), Punch(NextId),
             orders' = [orders EXCEPT ![NextId] = [Absent EXCEPT !.status = "OPEN", !.table = req[r].t]]
      PROVE  RowsOK' /\ TableInv'
  <2> DEFINE row == [Absent EXCEPT !.status = "OPEN", !.table = req[r].t]
  <2>1. row \in OrderRow /\ row.table = req[r].t
    BY <1>1 DEF OrderRow, Absent, Status
  <2>2. PICK x : x = NextId
    OBVIOUS
  <2>3. orders' = [orders EXCEPT ![x] = row]
    BY <1>2, <2>2
  <2> HIDE DEF row
  <2>4. orders' \in [Orders -> OrderRow] /\ nextKot' \in Nat /\ nextBill' \in Nat
    <3>1. orders \in [Orders -> OrderRow] /\ nextKot \in Nat /\ nextBill \in Nat
      BY DEF RowsOK
    <3>2. nextKot' = nextKot + 1 /\ nextBill' = nextBill
      BY <1>2 DEF Punch
    <3>3. orders' \in [Orders -> OrderRow]
      BY <2>1, <2>3, <3>1
    <3>4. QED
      BY <3>1, <3>2, <3>3
  <2>5. PICK t \in Tables \cup {NoTable} : t = req[r].t
    BY <1>1
  <2>6. \A u \in Tables \ {t} : OpenOn(u)' \subseteq OpenOn(u)
    BY <2>1, <2>3, <2>5 DEF OpenOn, RowsOK
  <2>7. CASE t = NoTable
    BY <1>1, <1>2, <2>4, <2>6, <2>7, ClosingCommit
  <2>8. CASE t \in Tables
    <3>1. lock[t] = r /\ OpenOn(t) = {}
      BY <1>1, <2>5, <2>8 DEF TableReserved
    <3>2. OpenOn(t)' \subseteq {x}
      BY <2>3, <3>1 DEF OpenOn, RowsOK
    <3>3. QED
      BY <1>2, <2>4, <2>6, <2>8, <3>1, <3>2, OpeningCommit
  <2>9. QED
    BY <1>1, <2>7, <2>8
<1>3. QED
  BY <1>2, AbortStep DEF OpenCommit

\* Punching, settling, voiding and merging bring no bill to a table.
LEMMA ClosingCommits ==
    ASSUME RowsOK, TableInv, NEW r \in Reqs,
           PunchCommit(r) \/ SettleCommit(r) \/ CancelCommit(r) \/ MergeCommit(r)
    PROVE  RowsOK' /\ TableInv'
<1> USE DEF RowsOK
<1>1. CASE PunchCommit(r)
  <2>1. CASE nextKot <= MaxKot /\ Punch(req[r].o) /\ UNCHANGED orders /\ Finish(r)
    BY <2>1, ClosingCommit, OpenOnKept DEF Punch
  <2>2. QED
    BY <1>1, <2>1, AbortStep DEF PunchCommit
<1>2. CASE SettleCommit(r)
  <2>1. \A o \in Orders : orders'[o] \in OrderRow /\ orders'[o].table = orders[o].table
                          /\ (orders'[o].status = "OPEN" => orders[o].status = "OPEN")
    <3> TAKE o \in Orders
    <3>1. orders[o] \in OrderRow /\ nextBill \in Nat
      OBVIOUS
    <3>2. \/ orders'[o] = [orders[o] EXCEPT !.status = "SETTLED", !.bill = nextBill]
          \/ orders'[o] = [orders[o] EXCEPT !.status = "SPLIT"]
          \/ orders'[o] = orders[o]
      BY <1>2 DEF SettleCommit
    <3>3. QED
      BY <3>1, <3>2 DEF OrderRow, Status
  <2>2. orders' \in [Orders -> OrderRow] /\ nextKot' \in Nat /\ nextBill' \in Nat /\ Finish(r)
    <3>1. /\ nextBill' = nextBill + 1 /\ nextKot' = nextKot /\ Finish(r)
          /\ orders' = [o \in Orders |-> orders'[o]]
      BY <1>2 DEF SettleCommit
    <3>2. QED
      BY <2>1, <3>1
  <2>3. QED
    BY <2>1, <2>2, ClosingCommit DEF OpenOn
<1>3. CASE CancelCommit(r)
  <2>1. ASSUME Finish(r), UNCHANGED <<lines, kotOrder, nextKot, nextBill, punched>>,
               orders' = [orders EXCEPT ![req[r].o].status = "CANCELLED"]
        PROVE  RowsOK' /\ TableInv'
    <3>1. \A o \in Orders : orders'[o] \in OrderRow /\ orders'[o].table = orders[o].table
                            /\ (orders'[o].status = "OPEN" => orders[o].status = "OPEN")
      BY <2>1 DEF OrderRow, Status
    <3>2. orders' \in [Orders -> OrderRow]
      BY <2>1, <3>1
    <3>3. QED
      BY <2>1, <3>1, <3>2, ClosingCommit DEF OpenOn
  <2>2. QED
    BY <1>3, <2>1, AbortStep DEF CancelCommit
<1>4. CASE MergeCommit(r)
  <2>1. ASSUME MoveAll(req[r].others, req[r].o), Finish(r) PROVE RowsOK' /\ TableInv'
    <3>1. \A o \in Orders : orders'[o] \in OrderRow /\ orders'[o].table = orders[o].table
                            /\ (orders'[o].status = "OPEN" => orders[o].status = "OPEN")
      BY <2>1, ZenonT(30) DEF MoveAll, OrderRow, Status
    <3>2. orders' \in [Orders -> OrderRow] /\ nextKot' \in Nat /\ nextBill' \in Nat
      BY <2>1, <3>1 DEF MoveAll
    <3>3. QED
      BY <2>1, <3>1, <3>2, ClosingCommit DEF OpenOn
  <2>2. QED
    BY <1>4, <2>1, AbortStep DEF MergeCommit
<1>5. QED
  BY <1>1, <1>2, <1>3, <1>4

\* A transfer brings a bill to its target table only while that is free.
LEMMA TransferCommitStep ==
    ASSUME RowsOK, TableInv, NEW r \in Reqs, TransferCommit(r)
    PROVE  RowsOK' /\ TableInv'
<1>1. /\ req[r].t \in Tables /\ lock[req[r].t] = r
      /\ req[r].o = NoOrder => OpenOn(req[r].t) = {}
  BY DEF TransferCommit, At, TableInv, TableReserved
<1>2. PICK t \in Tables : t = req[r].t
  BY <1>1
<1>3. orders \in [Orders -> OrderRow] /\ nextKot \in Nat /\ nextBill \in Nat
  BY DEF RowsOK
<1>4. ASSUME NEW src, NEW tgt, MoveAll({src}, tgt), Finish(r) PROVE RowsOK' /\ TableInv'
  <2>1. \A o \in Orders : orders'[o] \in OrderRow /\ orders'[o].table = orders[o].table
                          /\ (orders'[o].status = "OPEN" => orders[o].status = "OPEN")
    BY <1>3, <1>4, ZenonT(30) DEF MoveAll, OrderRow, Status
  <2>2. orders' \in [Orders -> OrderRow] /\ nextKot' \in Nat /\ nextBill' \in Nat
    BY <1>3, <1>4, <2>1 DEF MoveAll
  <2>3. QED
    BY <1>4, <2>1, <2>2, ClosingCommit DEF OpenOn
<1>5. ASSUME NEW src, req[r].o = NoOrder, orders' = [orders EXCEPT ![src].table = t],
             UNCHANGED <<nextKot, nextBill>>, Finish(r)
      PROVE  RowsOK' /\ TableInv'
  <2>1. \A o \in Orders : orders'[o] \in OrderRow /\ orders'[o].status = orders[o].status
                          /\ (o # src => orders'[o] = orders[o])
                          /\ (o = src => orders'[o].table = t)
    BY <1>3, <1>5 DEF OrderRow
  <2>2. orders' \in [Orders -> OrderRow] /\ nextKot' \in Nat /\ nextBill' \in Nat
    BY <1>3, <1>5, <2>1
  <2>3. OpenOn(t)' \subseteq {src}
    BY <1>1, <1>2, <1>5, <2>1 DEF OpenOn
  <2>4. \A u \in Tables \ {t} : OpenOn(u)' \subseteq OpenOn(u)
    BY <2>1 DEF OpenOn
  <2>5. QED
    BY <1>1, <1>2, <1>5, <2>2, <2>3, <2>4, OpeningCommit
<1>6. ASSUME UNCHANGED <<orders, nextKot, nextBill>>, Finish(r) PROVE RowsOK' /\ TableInv'
  BY <1>3, <1>6, OpenOnKept, ClosingCommit
<1>7. ASSUME NEW x, req[r].o = NoOrder, Finish(r), UNCHANGED <<nextKot, nextBill>>,
             orders' = [orders EXCEPT ![x] = [Absent EXCEPT !.status = "OPEN", !.table = t]]
      PROVE  RowsOK' /\ TableInv'
  <2> DEFINE row == [Absent EXCEPT !.status = "OPEN", !.table = t]
  <2>1. row \in OrderRow /\ row.table = t
    BY <1>2 DEF OrderRow, Absent, Status
  <2> HIDE DEF row
  <2>2. orders' = [orders EXCEPT ![x] = row]
    BY <1>7 DEF row
  <2>3. orders' \in [Orders -> OrderRow]
    BY <1>3, <2>1, <2>2
  <2>4. OpenOn(t)' \subseteq {x} /\ \A u \in Tables \ {t} : OpenOn(u)' \subseteq OpenOn(u)
    BY <1>1, <1>2, <1>3, <1>7, <2>1, <2>2 DEF OpenOn
  <2>5. QED
    BY <1>1, <1>2, <1>3, <1>7, <2>3, <2>4, OpeningCommit
<1>8. CASE TransferWhole(r) /\ Finish(r)
  <2>1. PICK src : src = Other(r)
    OBVIOUS
  <2>2. PICK tgt : tgt = req[r].o
    OBVIOUS
  <2>3. QED
    BY <1>2, <1>4, <1>5, <1>8, <2>1, <2>2 DEF TransferWhole
<1>9. CASE TransferPart(r) /\ Finish(r)
  <2>1. UNCHANGED <<nextKot, nextBill>>
    BY <1>9 DEF TransferPart, MoveLines
  <2>2. \/ UNCHANGED orders
        \/ /\ req[r].o = NoOrder
           /\ orders' = [orders EXCEPT ![NextId] = [Absent EXCEPT !.status = "OPEN", !.table = req[r].t]]
    BY <1>9 DEF TransferPart
  <2>3. PICK x : x = NextId
    OBVIOUS
  <2>4. QED
    BY <1>2, <1>6, <1>7, <1>9, <2>1, <2>2, <2>3
<1>10. QED
  BY <1>8, <1>9, AbortStep DEF TransferCommit

\* The checks of a split have no table, and unsplitting removes them.
LEMMA SplitCommits ==
    ASSUME RowsOK, TableInv, NEW r \in Reqs, SplitCommit(r) \/ UnsplitCommit(r)
    PROVE  RowsOK' /\ TableInv'
<1>1. /\ orders \in [Orders -> OrderRow] /\ nextKot \in Nat /\ nextBill \in Nat
      /\ NoTable \notin Tables /\ req[r] \in Request
  BY BillsAssumption DEF RowsOK
<1>2. CASE SplitCommit(r)
  <2>1. req[r].o \in Orders
    BY <1>1, <1>2 DEF SplitCommit, At, Request, PCs, WithOrder
  <2>2. ASSUME NEW n \in Parts, Finish(r), UNCHANGED <<nextKot, nextBill>>,
               orders' = [o \in Orders |->
                             IF o = req[r].o THEN [orders[o] EXCEPT !.splitCount = n]
                             ELSE IF o \in NextIds(n)
                                  THEN [Absent EXCEPT !.status = "OPEN", !.parent = req[r].o]
                             ELSE orders[o]]
        PROVE  RowsOK' /\ TableInv'
    <3>1. \A o \in Orders : orders'[o] \in OrderRow
                            /\ (orders'[o].table \in Tables => /\ orders'[o].table = orders[o].table
                                                               /\ orders'[o].status = orders[o].status)
      <4> TAKE o \in Orders
      <4>1. \/ orders'[o] = [orders[o] EXCEPT !.splitCount = n]
            \/ orders'[o] = [Absent EXCEPT !.status = "OPEN", !.parent = req[r].o]
            \/ orders'[o] = orders[o]
        BY <2>2
      <4>2. CASE orders'[o] = [orders[o] EXCEPT !.splitCount = n]
        BY <1>1, <4>2 DEF OrderRow
      <4>3. CASE orders'[o] = [Absent EXCEPT !.status = "OPEN", !.parent = req[r].o]
        <5>1. PICK p \in Orders : p = req[r].o
          BY <2>1
        <5>2. orders'[o] = [status |-> "OPEN", table |-> NoTable, parent |-> p,
                            splitCount |-> 0, bill |-> 0]
          BY <4>3, <5>1 DEF Absent
        <5>3. QED
          BY <1>1, <5>1, <5>2 DEF OrderRow, Status
      <4>4. CASE orders'[o] = orders[o]
        BY <1>1, <4>4
      <4>5. QED
        BY <4>1, <4>2, <4>3, <4>4
    <3>2. orders' \in [Orders -> OrderRow] /\ nextKot' \in Nat /\ nextBill' \in Nat
      BY <1>1, <2>2, <3>1
    <3>3. \A t \in Tables : OpenOn(t)' \subseteq OpenOn(t)
      BY <3>1 DEF OpenOn
    <3>4. QED
      BY <2>2, <3>2, <3>3, ClosingCommit
  <2>3. QED
    BY <1>2, <2>2, AbortStep DEF SplitCommit
<1>3. CASE UnsplitCommit(r)
  <2>1. ASSUME Finish(r), UNCHANGED <<nextKot, nextBill>>,
               orders' = [o \in Orders |->
                             IF o = req[r].o THEN [orders[o] EXCEPT !.splitCount = 0]
                             ELSE IF o \in Children(req[r].o) THEN [Absent EXCEPT !.status = "DELETED"]
                             ELSE orders[o]]
        PROVE  RowsOK' /\ TableInv'
    <3>1. \A o \in Orders : orders'[o] \in OrderRow
                            /\ (orders'[o].table \in Tables => /\ orders'[o].table = orders[o].table
                                                               /\ orders'[o].status = orders[o].status)
      <4> TAKE o \in Orders
      <4>1. \/ orders'[o] = [orders[o] EXCEPT !.splitCount = 0]
            \/ orders'[o] = [Absent EXCEPT !.status = "DELETED"]
            \/ orders'[o] = orders[o]
        BY <2>1
      <4>2. QED
        BY <1>1, <4>1 DEF OrderRow, Absent, Status
    <3>2. orders' \in [Orders -> OrderRow] /\ nextKot' \in Nat /\ nextBill' \in Nat
      BY <1>1, <2>1, <3>1
    <3>3. \A t \in Tables : OpenOn(t)' \subseteq OpenOn(t)
      BY <3>1 DEF OpenOn
    <3>4. QED
      BY <2>1, <3>2, <3>3, ClosingCommit
  <2>2. QED
    BY <1>3, <2>1, AbortStep DEF UnsplitCommit
<1>4. QED
  BY <1>2, <1>3

\* Initially no table has a bill.
LEMMA InitTables == Init => RowsOK /\ TableInv
<1> SUFFICES ASSUME Init PROVE RowsOK /\ TableInv
  OBVIOUS
<1>1. Idle \in Request /\ Absent \in OrderRow
  BY DEF Idle, Request, PCs, WithOrder, Absent, OrderRow, Status
<1>2. RowsOK
  BY <1>1 DEF Init, RowsOK
<1>3. OneOpenBillPerTable
  BY DEF Init, OneOpenBillPerTable, OpenOn, Absent
<1>4. \A r \in Reqs : TableReserved(r)
  BY DEF Init, TableReserved, Idle
<1>5. QED
  BY <1>2, <1>3, <1>4 DEF TableInv

\* Every step keeps row types and the table invariant.
LEMMA NextTables == RowsOK /\ TableInv /\ [Next]_vars => RowsOK' /\ TableInv'
<1> SUFFICES ASSUME RowsOK, TableInv, [Next]_vars PROVE RowsOK' /\ TableInv'
  OBVIOUS
<1>1. CASE UNCHANGED vars
  BY <1>1 DEF vars, RowsOK, TableInv, OneOpenBillPerTable, OpenOn, TableReserved, Reserves
<1>2. ASSUME NEW r \in Reqs, Step(r) PROVE RowsOK' /\ TableInv'
  BY <1>2, OpenReadSteps, CloseReadSteps, TransferFindStep, OpenCommitStep, ClosingCommits,
     TransferCommitStep, SplitCommits DEF Step
<1>3. ASSUME NEW r \in Reqs, NotFound(r) \/ DeadlockVictim(r) \/ Fail(r) PROVE RowsOK' /\ TableInv'
  BY <1>3, AbortStep DEF NotFound, DeadlockVictim, Fail
<1>4. QED
  BY <1>1, <1>2, <1>3, SubmitStep, AcquireStep DEF Next

\* Order rows, counters, locks and request records keep their types.
THEOREM RowTypes == Spec => []RowsOK
<1>1. RowsOK /\ TableInv /\ [Next]_vars => (RowsOK /\ TableInv)'
  BY NextTables
<1>2. QED
  BY InitTables, <1>1, PTL DEF Spec

\* However many requests race for however many tables, create, scan ingestion,
\* transfer and merge never leave two running bills on one table.
THEOREM TableNeverDoubleBooked == Spec => []OneOpenBillPerTable
<1>1. RowsOK /\ TableInv /\ [Next]_vars => (RowsOK /\ TableInv)'
  BY NextTables
<1>2. TableInv => OneOpenBillPerTable
  BY DEF TableInv
<1>3. QED
  BY InitTables, <1>1, <1>2, PTL DEF Spec

----------------------------------------------------------------------------
(* Order rows: a request writes only rows it has locked, so what it read    *)
(* under its locks still holds when it commits.                             *)

\* r holds the row, or will before the step it waits for
Got(r, row) == row \in req[r].want \/ lock[row] = r

\* a check to unsplit, read before the transaction: once its row is locked it
\* is known to be a live check of the bill, until then it may be deleted
CheckFound(r, c) ==
    /\ orders[c].status # "NONE"
    /\ Exists(c) => orders[c].parent = req[r].o
    /\ c \in req[r].want \/ (lock[c] = r /\ Exists(c))
CheckHeld(r, c) == lock[c] = r /\ Exists(c) /\ orders[c].parent = req[r].o

\* the bill and the checks that r is about to close
BillHeld(r) ==
    lock[req[r].o] = r /\ orders[req[r].o].status = "OPEN" /\ orders[req[r].o].splitCount = 0
ParentHeld(r) == \E p \in Orders : req[r].others = {p} /\ lock[p] = r /\ orders[p].status = "OPEN"
ParentGot(r) == \E p \in Orders : req[r].others = {p} /\ Got(r, p)
SourceHeld(r) == \E x \in Orders : req[r].others = {x} /\ lock[x] = r /\ Mergeable(x)

\* What a request knows of the order rows it locked, at each of its steps.
OrderHeld(r) ==
    /\ req[r].pc \in {"scan_reread", "add_check", "settle_check", "cancel_commit", "split_commit", "unsplit_commit"} =>
          Got(r, req[r].o)
    /\ req[r].pc = "merge_commit" => \A x \in req[r].others \cup {req[r].o} : Got(r, x)
    /\ req[r].pc \in {"settle_parent", "settle_count", "settle_commit", "punch_commit"} => BillHeld(r)
    /\ req[r].pc = "settle_parent" => \E p \in Orders : req[r].others = {p}
    /\ req[r].pc = "settle_count" => ParentGot(r)
    /\ req[r].pc = "settle_commit" /\ req[r].last => ParentHeld(r)
    /\ req[r].pc = "settle_check" => ~req[r].last
    /\ req[r].pc = "transfer_find" => ParentGot(r) /\ req[r].o = NoOrder
    /\ req[r].pc = "transfer_commit" => SourceHeld(r) /\ (req[r].o # NoOrder => Got(r, req[r].o))
    /\ req[r].pc = "unsplit_parent" => \A c \in req[r].others : CheckFound(r, c)
    /\ req[r].pc = "unsplit_commit" => \A c \in req[r].others : CheckHeld(r, c)

\* the lines of an order are kept KOT by KOT
LinesByKot ==
    /\ lines = [o \in Orders |-> lines[o]]
    /\ \A o \in Orders : lines[o] = [k \in Kots |-> lines[o][k]]

OrderInv == LinesByKot /\ \A r \in Reqs : OrderHeld(r)

\* What a step of r may do to the order rows: rows another request has locked
\* keep their contents, ids are used once, checks keep their bill, and closed
\* bills are left alone.
RowKept(r, x) ==
    /\ orders[x].status # "NONE" =>
          /\ orders'[x].status # "NONE"
          /\ Exists(x)' => Exists(x) /\ orders'[x].parent = orders[x].parent
          /\ orders'[x] = orders[x] \/ lock[x] \in {r, Free}
    /\ Closed(x) => orders'[x] = orders[x] /\ lines'[x] = lines[x]
RowsKept(r) == \A x \in Orders : RowKept(r, x)

\* no bill is numbered
NumbersKept ==
    /\ nextBill' = nextBill
    /\ \A x \in Orders : orders'[x].status = "SETTLED" => orders[x].status = "SETTLED"

\* A row that a request has locked is its own while another request steps.
LEMMA LockedRow ==
    ASSUME RowsOK, NEW r \in Reqs, OthersKept(r), RowsKept(r), NEW s \in Reqs \ {r},
           NEW x \in Orders, lock[x] = s
    PROVE  /\ lock'[x] = s
           /\ orders[x].status # "NONE" => orders'[x] = orders[x]
<1>1. s # Free /\ s # r /\ x \in Rows
  BY BillsAssumption DEF Rows
<1>2. RowKept(r, x)
  BY DEF RowsKept
<1>3. QED
  BY <1>1, <1>2 DEF OthersKept, RowKept

\* What a request knows of its locked rows survives the steps of others.
LEMMA HeldKept ==
    ASSUME RowsOK, OrderInv, NEW r \in Reqs, OthersKept(r), RowsKept(r)
    PROVE  \A s \in Reqs \ {r} : OrderHeld(s)'
<1> TAKE s \in Reqs \ {r}
<1>1. req'[s] = req[s] /\ OrderHeld(s) /\ req[s] \in Request /\ Orders \subseteq Rows
  BY DEF OthersKept, OrderInv, RowsOK, Rows
<1>2. \A x \in Orders : Got(s, x) => Got(s, x)'
  BY <1>1, LockedRow DEF Got
<1>3. \A x \in Orders : lock[x] = s /\ orders[x].status # "NONE" => orders'[x] = orders[x] /\ lock'[x] = s
  BY LockedRow
<1>4. req[s].o \in Orders /\ BillHeld(s) => BillHeld(s)'
  BY <1>1, <1>3 DEF BillHeld
<1>5. ParentHeld(s) => ParentHeld(s)'
  BY <1>1, <1>3 DEF ParentHeld
<1>6. ParentGot(s) => ParentGot(s)'
  BY <1>1, <1>2 DEF ParentGot
<1>7. SourceHeld(s) => SourceHeld(s)'
  <2>1. ASSUME NEW x \in Orders, req[s].others = {x}, lock[x] = s, Mergeable(x) PROVE SourceHeld(s)'
    <3>1. orders'[x] = orders[x] /\ lock'[x] = s
      BY <1>3, <2>1 DEF Mergeable
    <3>2. Mergeable(x)'
      BY <2>1, <3>1 DEF Mergeable, NotSplit
    <3>3. QED
      BY <1>1, <2>1, <3>1, <3>2 DEF SourceHeld
  <2>2. QED
    BY <2>1 DEF SourceHeld
<1>8. ASSUME NEW c \in Orders, CheckFound(s, c) PROVE CheckFound(s, c)'
  <2>1. RowKept(r, c)
    BY DEF RowsKept
  <2>2. orders'[c].status # "NONE" /\ (Exists(c)' => orders'[c].parent = req'[s].o)
    BY <1>1, <1>8, <2>1 DEF RowKept, CheckFound
  <2>3. c \in req[s].want \/ (lock'[c] = s /\ Exists(c)')
    BY <1>3, <1>8 DEF CheckFound, Exists
  <2>4. QED
    BY <1>1, <2>2, <2>3 DEF CheckFound
<1>9. ASSUME NEW c \in Orders, CheckHeld(s, c) PROVE CheckHeld(s, c)'
  BY <1>1, <1>3, <1>9 DEF CheckHeld, Exists
<1>10. /\ req[s].pc \in WithOrder => req[s].o \in Orders
       /\ req[s].o \in Orders \cup {NoOrder} /\ req[s].others \subseteq Orders
  BY <1>1 DEF Request
<1>11. QED
  BY <1>1, <1>2, <1>4, <1>5, <1>6, <1>7, <1>8, <1>9, <1>10 DEF OrderHeld, WithOrder, PCs

\* A step that keeps the rows of others and what r knows of its own keeps the
\* invariant.
LEMMA OrderStep ==
    ASSUME RowsOK, OrderInv, NEW r \in Reqs, OthersKept(r), RowsKept(r), LinesByKot', OrderHeld(r)'
    PROVE  OrderInv'
BY HeldKept DEF OrderInv

\* Steps that write nothing keep every row.
LEMMA NothingWritten ==
    ASSUME UNCHANGED db
    PROVE  /\ \A r : RowsKept(r)
           /\ LinesByKot => LinesByKot'
           /\ NumbersKept
BY DEF db, RowsKept, RowKept, LinesByKot, NumbersKept, Exists

\* An ended request knows of no row.
LEMMA IdleHoldsNothing ==
    ASSUME RowsOK, NEW r \in Reqs, Finish(r)
    PROVE  OrderHeld(r)' /\ OthersKept(r)
<1>1. req'[r] = Idle
  BY DEF Finish, RowsOK
<1>2. QED
  BY <1>1, KeepsOthers DEF OrderHeld, Idle

\* What each step shows of the rows.
OrderKept(r) == OrderInv' /\ RowsKept(r) /\ NumbersKept

\* A transaction that rolls back keeps the rows.
LEMMA OrderAbort ==
    ASSUME RowsOK, OrderInv, NEW r \in Reqs, Abort(r)
    PROVE  OrderKept(r)
<1>1. Finish(r) /\ UNCHANGED db
  BY DEF Abort
<1>2. RowsKept(r) /\ LinesByKot' /\ NumbersKept
  BY <1>1, NothingWritten DEF OrderInv
<1>3. QED
  BY <1>1, <1>2, IdleHoldsNothing, OrderStep DEF OrderKept

\* A step that writes nothing and knows what OrderHeld asks keeps the rows.
LEMMA OrderRead ==
    ASSUME RowsOK, OrderInv, NEW r \in Reqs, OthersKept(r), UNCHANGED db, OrderHeld(r)'
    PROVE  OrderKept(r)
<1>1. RowsKept(r) /\ LinesByKot' /\ NumbersKept
  BY NothingWritten DEF OrderInv
<1>2. QED
  BY <1>1, OrderStep DEF OrderKept

\* A commit that writes only its own rows keeps the rows.
LEMMA OrderCommit ==
    ASSUME RowsOK, OrderInv, NEW r \in Reqs, Finish(r), RowsKept(r), LinesByKot'
    PROVE  OrderInv'
BY IdleHoldsNothing, OrderStep

\* Starting a request: the rows it names are rows it will lock.
LEMMA OrderSubmit ==
    ASSUME RowsOK, OrderInv, NEW r \in Reqs, Submit(r)
    PROVE  OrderKept(r)
<1>1. ASSUME NEW rec, Begin(r, rec), req'[r] = rec => OrderHeld(r)' PROVE OrderKept(r)
  <2>1. req'[r] = rec /\ UNCHANGED db
    BY <1>1 DEF Begin, RowsOK
  <2>2. QED
    BY <1>1, <2>1, OrderRead, KeepsOthers
<1>2. ASSUME NEW t, BeginOpen(r, t) PROVE OrderKept(r)
  <2> DEFINE rec == IF t = NoTable THEN [Idle EXCEPT !.pc = "open_commit", !.want = {Outlet}]
                    ELSE [Idle EXCEPT !.pc = "open_check", !.want = {t}, !.t = t]
  <2>1. Begin(r, rec) /\ rec.pc \in {"open_commit", "open_check"}
    BY <1>2 DEF BeginOpen, Idle
  <2>2. req'[r] = rec => OrderHeld(r)'
    BY <2>1 DEF OrderHeld
  <2>3. QED
    BY <1>1, <2>1, <2>2
<1>3. ASSUME NEW t, BeginScan(r, t) PROVE OrderKept(r)
  <2> DEFINE rec == [Idle EXCEPT !.pc = "scan_find", !.want = {t}, !.t = t]
  <2>1. Begin(r, rec) /\ rec.pc = "scan_find"
    BY <1>3 DEF BeginScan, Idle
  <2>2. req'[r] = rec => OrderHeld(r)'
    BY <2>1 DEF OrderHeld
  <2>3. QED
    BY <1>1, <2>1, <2>2
<1>4. ASSUME NEW o \in Orders, NEW pc \in {"add_check", "settle_check", "cancel_commit", "split_commit"},
             Begin(r, [Idle EXCEPT !.pc = pc, !.want = {o}, !.o = o])
      PROVE  OrderKept(r)
  <2> DEFINE rec == [Idle EXCEPT !.pc = pc, !.want = {o}, !.o = o]
  <2>1. rec.pc = pc /\ rec.want = {o} /\ rec.o = o /\ ~rec.last
    BY DEF Idle
  <2>2. req'[r] = rec => OrderHeld(r)'
    BY <2>1 DEF OrderHeld, Got
  <2>3. QED
    BY <1>1, <1>4, <2>2
<1>5. ASSUME NEW o \in Orders, BeginUnsplit(r, o) PROVE OrderKept(r)
  <2> DEFINE rec == [Idle EXCEPT !.pc = "unsplit_parent", !.want = Children(o), !.o = o, !.others = Children(o)]
  <2>1. Begin(r, rec)
    BY <1>5 DEF BeginUnsplit
  <2>2. rec.pc = "unsplit_parent" /\ rec.want = Children(o) /\ rec.o = o /\ rec.others = Children(o)
    BY DEF Idle
  <2>3. UNCHANGED orders
    BY <2>1 DEF Begin, db
  <2>4. req'[r] = rec => OrderHeld(r)'
    <3>1. ASSUME req'[r] = rec PROVE \A c \in Children(o) : CheckFound(r, c)'
      BY <2>2, <2>3, <3>1 DEF CheckFound, Children, Exists
    <3>2. QED
      BY <2>2, <3>1 DEF OrderHeld
  <2>5. QED
    BY <1>1, <2>1, <2>4
<1>6. ASSUME NEW o \in Orders, NEW to, BeginTransfer(r, o, to) PROVE OrderKept(r)
  <2> DEFINE rec == [Idle EXCEPT !.pc = "transfer_find",
                                 !.want = ({orders[o].table, to} \ {NoTable}) \cup {o},
                                 !.others = {o}, !.t = to, !.from = orders[o].table]
  <2>1. /\ Begin(r, rec) /\ rec.pc = "transfer_find" /\ o \in rec.want /\ rec.others = {o}
        /\ rec.o = NoOrder
    BY <1>6 DEF BeginTransfer, Idle
  <2>2. req'[r] = rec => OrderHeld(r)'
    BY <2>1 DEF OrderHeld, ParentGot, Got
  <2>3. QED
    BY <1>1, <2>1, <2>2
<1>7. ASSUME NEW tgt \in Orders, NEW srcs \in SUBSET Orders, BeginMerge(r, tgt, srcs)
      PROVE  OrderKept(r)
  <2>1. PICK w : w = ({orders[o].table : o \in srcs \cup {tgt}} \ {NoTable}) \cup (srcs \cup {tgt})
    OBVIOUS
  <2> DEFINE rec == [Idle EXCEPT !.pc = "merge_commit", !.want = w, !.o = tgt, !.others = srcs]
  <2>2. Begin(r, rec)
    BY <1>7, <2>1 DEF BeginMerge
  <2>3. rec.pc = "merge_commit" /\ rec.want = w /\ rec.o = tgt /\ rec.others = srcs
    BY DEF Idle
  <2>4. srcs \cup {tgt} \subseteq w
    BY <2>1
  <2>5. req'[r] = rec => OrderHeld(r)'
    BY <2>3, <2>4 DEF OrderHeld, Got
  <2>6. QED
    BY <1>1, <2>2, <2>5
<1>8. QED
  BY <1>2, <1>3, <1>4, <1>5, <1>6, <1>7
     DEF Submit, Offered, Known, BeginAdd, BeginCancel, BeginSplit, BeginSettle

\* Taking one of several locks: the row is no longer awaited but held.
LEMMA OrderAcquire ==
    ASSUME RowsOK, OrderInv, NEW r \in Reqs, Acquire(r)
    PROVE  OrderKept(r)
<1>1. PICK row : /\ lock' = [lock EXCEPT ![row] = r] /\ UNCHANGED db /\ lock[row] = Free /\ Exists(row)
                 /\ req' = [req EXCEPT ![r].want = @ \ {row}]
  BY DEF Acquire
<1>2. req[r] \in Request /\ OrderHeld(r) /\ Orders \subseteq Rows
  BY DEF RowsOK, OrderInv, Rows
<1>3. /\ req'[r].pc = req[r].pc /\ req'[r].o = req[r].o /\ req'[r].others = req[r].others
      /\ req'[r].last = req[r].last /\ req'[r].want = req[r].want \ {row}
  BY <1>1, <1>2 DEF RowsOK, Request
<1>4. \A x \in Rows : lock'[x] = IF x = row THEN r ELSE lock[x]
  BY <1>1 DEF RowsOK
<1>5. UNCHANGED orders /\ \A x : Exists(x)' = Exists(x)
  BY <1>1 DEF db, Exists
<1>6. \A x \in Rows : Got(r, x) => Got(r, x)'
  BY <1>3, <1>4 DEF Got
<1>7. \A x \in Rows : lock[x] = r => lock'[x] = r
  BY <1>4
<1>8. req[r].o \in Orders /\ BillHeld(r) => BillHeld(r)'
  BY <1>2, <1>3, <1>5, <1>7 DEF BillHeld
<1>9. (ParentHeld(r) => ParentHeld(r)') /\ (ParentGot(r) => ParentGot(r)')
  BY <1>2, <1>3, <1>5, <1>6, <1>7 DEF ParentHeld, ParentGot
<1>10. SourceHeld(r) => SourceHeld(r)'
  BY <1>2, <1>3, <1>5, <1>7 DEF SourceHeld, Mergeable, NotSplit
<1>11. ASSUME NEW c \in Orders PROVE /\ CheckFound(r, c) => CheckFound(r, c)'
                                     /\ CheckHeld(r, c) => CheckHeld(r, c)'
  <2>1. CheckHeld(r, c) => CheckHeld(r, c)'
    BY <1>2, <1>3, <1>5, <1>7 DEF CheckHeld
  <2>2. ASSUME CheckFound(r, c) PROVE CheckFound(r, c)'
    <3>1. c \in req'[r].want \/ (lock'[c] = r /\ Exists(c)')
      BY <1>1, <1>2, <1>3, <1>4, <1>5, <2>2 DEF CheckFound
    <3>2. QED
      BY <1>3, <1>5, <2>2, <3>1 DEF CheckFound
  <2>3. QED
    BY <2>1, <2>2
<1>12. /\ req[r].pc \in WithOrder => req[r].o \in Orders
       /\ req[r].o \in Orders \cup {NoOrder} /\ req[r].others \subseteq Orders
  BY <1>2 DEF Request
<1>13. OrderHeld(r)'
  BY <1>2, <1>3, <1>6, <1>8, <1>9, <1>10, <1>11, <1>12 DEF OrderHeld, WithOrder, PCs
<1>14. QED
  BY <1>1, <1>13, OrderRead, KeepsOthers

\* Going on to the next wait: every row awaited is held from then on.
LEMMA OrderHold ==
    ASSUME RowsOK, OrderInv, NEW r \in Reqs, NEW pc, At(r, pc), Hold(r), UNCHANGED db,
           req' = [req EXCEPT ![r] = req'[r]]
    PROVE  /\ \A x \in Orders : Got(r, x) => lock'[x] = r
           /\ \A x \in Orders : lock[x] = r => lock'[x] = r
           /\ UNCHANGED orders
           /\ OrderHeld(r)' => OrderKept(r)
<1>1. Orders \subseteq Rows /\ UNCHANGED orders
  BY DEF Rows, db
<1>2. \A x \in Orders : (Got(r, x) => lock'[x] = r) /\ (lock[x] = r => lock'[x] = r)
  BY <1>1 DEF Hold, Got
<1>3. OthersKept(r)
  BY KeepsOthers DEF RowsOK
<1>4. QED
  BY <1>1, <1>2, <1>3, OrderRead

\* Goto is such a step.
LEMMA OrderGoto ==
    ASSUME RowsOK, OrderInv, NEW r \in Reqs, NEW pc, At(r, pc), NEW pc2, NEW want, Goto(r, pc2, want)
    PROVE  /\ \A x \in Orders : Got(r, x) => lock'[x] = r
           /\ \A x \in Orders : lock[x] = r => lock'[x] = r
           /\ UNCHANGED orders
           /\ req'[r].pc = pc2 /\ req'[r].want = want /\ req'[r].o = req[r].o
           /\ req'[r].others = req[r].others /\ req'[r].last = req[r].last
           /\ OrderHeld(r)' => OrderKept(r)
<1>1. req[r] \in Request
  BY DEF RowsOK
<1>2. req' = [req EXCEPT ![r] = [req[r] EXCEPT !.pc = pc2, !.want = want]] /\ Hold(r) /\ UNCHANGED db
  BY DEF Goto
<1>3. req'[r] = [req[r] EXCEPT !.pc = pc2, !.want = want]
  BY <1>2 DEF RowsOK
<1>4. /\ req'[r].pc = pc2 /\ req'[r].want = want /\ req'[r].o = req[r].o
      /\ req'[r].others = req[r].others /\ req'[r].last = req[r].last
  BY <1>1, <1>3 DEF Request
<1>5. QED
  BY <1>2, <1>3, <1>4, OrderHold

\* Looking for a bill, and reading it again under its lock.
LEMMA OrderOpenReads ==
    ASSUME RowsOK, OrderInv, NEW r \in Reqs,
           OpenCheck(r) \/ ScanFind(r) \/ ScanReread(r) \/ AddCheck(r)
    PROVE  OrderKept(r)
<1>1. req[r] \in Request /\ OrderHeld(r)
  BY DEF RowsOK, OrderInv
<1>2. ASSUME NEW pc, At(r, pc), Goto(r, "open_commit", {Outlet}) PROVE OrderKept(r)
  <2>1. req'[r].pc = "open_commit" /\ (OrderHeld(r)' => OrderKept(r))
    BY <1>2, OrderGoto
  <2>2. QED
    BY <2>1 DEF OrderHeld
<1>3. ASSUME NEW pc, At(r, pc), Goto(r, "punch_commit", {Outlet}), req[r].o \in Orders,
             Got(r, req[r].o), orders[req[r].o].status = "OPEN", orders[req[r].o].splitCount = 0
      PROVE  OrderKept(r)
  <2>1. /\ req'[r].pc = "punch_commit" /\ (OrderHeld(r)' => OrderKept(r))
        /\ req'[r].o = req[r].o /\ UNCHANGED orders /\ lock'[req[r].o] = r
    BY <1>3, OrderGoto
  <2>2. QED
    BY <1>3, <2>1 DEF OrderHeld, BillHeld
<1>4. CASE OpenCheck(r)
  BY <1>2, <1>4, OrderAbort DEF OpenCheck
<1>5. CASE ScanFind(r)
  <2>1. ASSUME NEW o, Hold(r), UNCHANGED db,
               req' = [req EXCEPT ![r].pc = "scan_reread", ![r].want = {o}, ![r].o = o]
        PROVE  OrderKept(r)
    <3>1. req'[r] = [req[r] EXCEPT !.pc = "scan_reread", !.want = {o}, !.o = o]
      BY <2>1 DEF RowsOK
    <3>2. req'[r].pc = "scan_reread" /\ req'[r].want = {o} /\ req'[r].o = o
      BY <1>1, <3>1 DEF Request
    <3>3. At(r, "scan_find")
      BY <1>5 DEF ScanFind
    <3>4. OrderHeld(r)' => OrderKept(r)
      BY <2>1, <3>1, <3>3, OrderHold, ZenonT(30)
    <3>5. QED
      BY <3>2, <3>4 DEF OrderHeld, Got
  <2>2. QED
    BY <1>2, <1>5, <2>1 DEF ScanFind
<1>6. CASE ScanReread(r)
  <2>1. At(r, "scan_reread") /\ req[r].pc = "scan_reread"
    BY <1>6 DEF ScanReread, At
  <2>2. req[r].o \in Orders /\ Got(r, req[r].o)
    BY <1>1, <2>1 DEF Request, WithOrder, PCs, OrderHeld
  <2>3. QED
    BY <1>2, <1>3, <1>6, <2>1, <2>2, OrderAbort DEF ScanReread
<1>7. CASE AddCheck(r)
  <2>1. At(r, "add_check") /\ req[r].pc = "add_check"
    BY <1>7 DEF AddCheck, At
  <2>2. req[r].o \in Orders /\ Got(r, req[r].o)
    BY <1>1, <2>1 DEF Request, WithOrder, PCs, OrderHeld
  <2>3. QED
    BY <1>3, <1>7, <2>1, <2>2, OrderAbort DEF AddCheck, Mergeable, NotSplit
<1>8. QED
  BY <1>4, <1>5, <1>6, <1>7

\* Reading the bill, its parent and the open checks of a settlement.
LEMMA OrderSettleReads ==
    ASSUME RowsOK, OrderInv, NEW r \in Reqs, SettleCheck(r) \/ SettleParent(r) \/ SettleCount(r)
    PROVE  OrderKept(r)
<1>1. req[r] \in Request /\ OrderHeld(r)
  BY DEF RowsOK, OrderInv
<1>2. CASE SettleCheck(r)
  <2>1. At(r, "settle_check") /\ req[r].pc = "settle_check"
    BY <1>2 DEF SettleCheck, At
  <2>2. req[r].o \in Orders /\ Got(r, req[r].o) /\ ~req[r].last
    BY <1>1, <2>1 DEF Request, WithOrder, PCs, OrderHeld
  <2>3. CASE /\ orders[req[r].o].status = "OPEN" /\ orders[req[r].o].splitCount = 0
             /\ Goto(r, "settle_commit", {Outlet})
    <3>1. /\ req'[r].pc = "settle_commit" /\ (OrderHeld(r)' => OrderKept(r))
          /\ req'[r].o = req[r].o /\ UNCHANGED orders /\ lock'[req[r].o] = r /\ ~req'[r].last
      BY <2>1, <2>2, <2>3, OrderGoto
    <3>2. QED
      BY <2>3, <3>1 DEF OrderHeld, BillHeld
  <2>4. ASSUME orders[req[r].o].status = "OPEN", orders[req[r].o].splitCount = 0,
               orders[req[r].o].parent # NoOrder, Hold(r), UNCHANGED db,
               req' = [req EXCEPT ![r].pc = "settle_parent", ![r].want = {Outlet},
                                  ![r].others = {orders[req[r].o].parent}]
        PROVE  OrderKept(r)
    <3>1. PICK p \in Orders : p = orders[req[r].o].parent
      BY <2>2, <2>4 DEF RowsOK, OrderRow
    <3>2. req'[r] = [req[r] EXCEPT !.pc = "settle_parent", !.want = {Outlet}, !.others = {p}]
      BY <2>4, <3>1 DEF RowsOK
    <3>3. req'[r].pc = "settle_parent" /\ req'[r].o = req[r].o /\ req'[r].others = {p}
      BY <1>1, <3>2 DEF Request
    <3>4. req' = [req EXCEPT ![r] = req'[r]]
      BY <2>4, <3>1, <3>2
    <3>5. UNCHANGED orders /\ lock'[req[r].o] = r /\ (OrderHeld(r)' => OrderKept(r))
      BY <2>1, <2>2, <2>4, <3>4, OrderHold
    <3>6. BillHeld(r)'
      BY <2>4, <3>3, <3>5 DEF BillHeld
    <3>7. QED
      BY <3>3, <3>5, <3>6 DEF OrderHeld
  <2>5. QED
    BY <1>2, <2>3, <2>4, OrderAbort DEF SettleCheck
<1>3. CASE SettleParent(r)
  <2>1. At(r, "settle_parent") /\ req[r].pc = "settle_parent" /\ Goto(r, "settle_count", req[r].others)
    BY <1>3 DEF SettleParent, At
  <2>2. req[r].o \in Orders /\ BillHeld(r)
    BY <1>1, <2>1 DEF Request, WithOrder, PCs, OrderHeld
  <2>3. PICK p \in Orders : req[r].others = {p}
    BY <1>1, <2>1 DEF OrderHeld
  <2>4. PICK w : w = req[r].others
    OBVIOUS
  <2>5. /\ req'[r].pc = "settle_count" /\ (OrderHeld(r)' => OrderKept(r)) /\ req'[r].want = {p}
        /\ req'[r].o = req[r].o /\ UNCHANGED orders /\ lock'[req[r].o] = r /\ req'[r].others = {p}
    BY <2>1, <2>2, <2>3, <2>4, OrderGoto DEF BillHeld
  <2>6. BillHeld(r)' /\ ParentGot(r)'
    BY <2>2, <2>5 DEF BillHeld, ParentGot, Got
  <2>7. QED
    BY <2>5, <2>6 DEF OrderHeld
<1>4. CASE SettleCount(r)
  <2>1. At(r, "settle_count") /\ req[r].pc = "settle_count" /\ Hold(r) /\ UNCHANGED db
    BY <1>4 DEF SettleCount, CountChecks, At
  <2>2. req[r].o \in Orders /\ BillHeld(r) /\ ParentGot(r)
    BY <1>1, <2>1 DEF Request, WithOrder, PCs, OrderHeld
  <2>3. PICK p \in Orders : req[r].others = {p} /\ Got(r, p)
    BY <2>2 DEF ParentGot
  <2>4. Other(r) = p
    BY <2>3 DEF Other
  <2>5. PICK last \in BOOLEAN :
           /\ req' = [req EXCEPT ![r].pc = "settle_commit", ![r].want = {}, ![r].last = last]
           /\ last => orders[Other(r)].status = "OPEN"
    BY <1>4 DEF SettleCount, CountChecks
  <2>6. req'[r] = [req[r] EXCEPT !.pc = "settle_commit", !.want = {}, !.last = last]
    BY <2>5 DEF RowsOK
  <2>7. req'[r].pc = "settle_commit" /\ req'[r].o = req[r].o /\ req'[r].others = {p} /\ req'[r].last = last
    BY <1>1, <2>3, <2>6 DEF Request
  <2>8. req' = [req EXCEPT ![r] = req'[r]]
    BY <2>5, <2>6
  <2>9. UNCHANGED orders /\ lock'[req[r].o] = r /\ lock'[p] = r /\ (OrderHeld(r)' => OrderKept(r))
    BY <2>1, <2>2, <2>3, <2>8, OrderHold DEF BillHeld
  <2>10. BillHeld(r)' /\ (last => ParentHeld(r)')
    BY <2>2, <2>4, <2>5, <2>7, <2>9 DEF BillHeld, ParentHeld
  <2>11. QED
    BY <2>7, <2>9, <2>10 DEF OrderHeld
<1>5. QED
  BY <1>2, <1>3, <1>4

\* Reading the source and the target of a transfer, and the checks to unsplit.
LEMMA OrderMoveReads ==
    ASSUME RowsOK, OrderInv, NEW r \in Reqs, TransferFind(r) \/ UnsplitParent(r)
    PROVE  OrderKept(r)
<1>1. req[r] \in Request /\ OrderHeld(r)
  BY DEF RowsOK, OrderInv
<1>2. CASE TransferFind(r)
  <2>1. At(r, "transfer_find") /\ req[r].pc = "transfer_find"
    BY <1>2 DEF TransferFind, At
  <2>2. PICK x \in Orders : req[r].others = {x} /\ Got(r, x) /\ req[r].o = NoOrder
    BY <1>1, <2>1 DEF OrderHeld, ParentGot
  <2>3. Other(r) = x
    BY <2>2 DEF Other
  <2>4. ASSUME Mergeable(x), UNCHANGED orders, lock'[x] = r, req'[r].pc = "transfer_commit",
               req'[r].others = {x}, req'[r].o # NoOrder => Got(r, req[r].o)'
        PROVE  OrderHeld(r)'
    <3>1. SourceHeld(r)'
      BY <2>4 DEF SourceHeld, Mergeable, NotSplit
    <3>2. QED
      BY <2>4, <3>1 DEF OrderHeld
  <2>5. CASE Mergeable(x) /\ Goto(r, "transfer_commit", {})
    BY <2>1, <2>2, <2>4, <2>5, OrderGoto
  <2>6. ASSUME NEW o \in Orders, Mergeable(x), Hold(r), UNCHANGED db,
               req' = [req EXCEPT ![r].pc = "transfer_commit", ![r].want = {o}, ![r].o = o]
        PROVE  OrderKept(r)
    <3>1. req'[r] = [req[r] EXCEPT !.pc = "transfer_commit", !.want = {o}, !.o = o]
      BY <2>6 DEF RowsOK
    <3>2. /\ req'[r].pc = "transfer_commit" /\ req'[r].want = {o} /\ req'[r].o = o
          /\ req'[r].others = {x}
      BY <1>1, <2>2, <3>1 DEF Request
    <3>3. req' = [req EXCEPT ![r] = req'[r]]
      BY <2>6, <3>1
    <3>4. UNCHANGED orders /\ lock'[x] = r /\ (OrderHeld(r)' => OrderKept(r))
      BY <2>1, <2>2, <2>6, <3>3, OrderHold
    <3>5. SourceHeld(r)' /\ Got(r, o)'
      BY <2>6, <3>2, <3>4 DEF SourceHeld, Mergeable, NotSplit, Got
    <3>6. QED
      BY <3>2, <3>4, <3>5 DEF OrderHeld
  <2>7. QED
    BY <1>2, <2>3, <2>5, <2>6, OrderAbort DEF TransferFind, OpenOn
<1>3. CASE UnsplitParent(r)
  <2>1. At(r, "unsplit_parent") /\ req[r].pc = "unsplit_parent" /\ Goto(r, "unsplit_commit", {req[r].o})
    BY <1>3 DEF UnsplitParent, At
  <2>2. PICK w : w = {req[r].o}
    OBVIOUS
  <2>3. /\ \A x \in Orders : Got(r, x) => lock'[x] = r
        /\ req'[r].pc = "unsplit_commit" /\ (OrderHeld(r)' => OrderKept(r)) /\ req'[r].want = w
        /\ req'[r].o = req[r].o /\ UNCHANGED orders /\ req'[r].others = req[r].others
    BY <2>1, <2>2, OrderGoto
  <2>4. ASSUME NEW c \in req[r].others PROVE CheckHeld(r, c)'
    <3>1. c \in Orders /\ CheckFound(r, c)
      BY <1>1, <2>1 DEF Request, OrderHeld
    <3>2. Got(r, c) /\ Exists(c)
      BY <2>1, <3>1 DEF CheckFound, Got, At
    <3>3. QED
      BY <2>3, <3>1, <3>2 DEF CheckHeld, CheckFound, Exists
  <2>5. Got(r, req[r].o)'
    BY <2>2, <2>3 DEF Got
  <2>6. QED
    BY <2>3, <2>4, <2>5 DEF OrderHeld
<1>4. QED
  BY <1>2, <1>3

\* The id of a new order was never used.
LEMMA NextIdUnused ==
    ASSUME Fresh # {}
    PROVE  NextId \in Orders /\ orders[NextId].status = "NONE"
<1>1. PICK T : T = Fresh
  OBVIOUS
<1>2. T \in SUBSET Nat /\ T # {}
  BY <1>1, BillsAssumption DEF Fresh
<1>3. \E x \in Fresh : \A y \in Fresh : x <= y
  BY <1>1, <1>2, LeastOf
<1>4. NextId \in Fresh
  BY <1>3 DEF NextId, Min
<1>5. QED
  BY <1>4 DEF Fresh

\* A row awaited at a commit is free, and one held is the request's own.
LEMMA GotRow ==
    ASSUME NEW r \in Reqs, NEW pc, At(r, pc), NEW x \in Orders, Got(r, x)
    PROVE  lock[x] \in {r, Free}
BY DEF At, Got

\* A new row for an unused id, and any change of one row that is open and the
\* request's own and stays what it is a check of, keep the rows.
LEMMA RowWritten ==
    ASSUME NEW r \in Reqs, NEW x \in Orders,
           \/ orders[x].status = "NONE"
           \/ orders'[x] = orders[x] /\ orders[x].status = "OPEN"
           \/ /\ orders[x].status = "OPEN" /\ lock[x] \in {r, Free}
              /\ orders'[x].status # "NONE" /\ (Exists(x)' => orders'[x].parent = orders[x].parent)
    PROVE  RowKept(r, x)
BY DEF RowKept, Exists, Closed

\* So does leaving the row alone.
LEMMA RowLeft ==
    ASSUME NEW r \in Reqs, NEW x \in Orders, orders'[x] = orders[x], lines'[x] = lines[x]
    PROVE  RowKept(r, x)
BY DEF RowKept, Exists

\* Punching a KOT writes the lines of one bill.
LEMMA PunchLines ==
    ASSUME LinesByKot, NEW o, Punch(o)
    PROVE  LinesByKot' /\ \A x \in Orders \ {o} : lines'[x] = lines[x]
<1>1. PICK k : k = nextKot
  OBVIOUS
<1>2. PICK u : u = Units[nextKot]
  OBVIOUS
<1>3. lines' = [lines EXCEPT ![o] = [lines[o] EXCEPT ![k] = u]]
  BY <1>1, <1>2 DEF Punch
<1>4. lines' = [x \in Orders |-> IF x = o THEN [lines[o] EXCEPT ![k] = u] ELSE lines[x]]
  BY <1>3 DEF LinesByKot
<1>5. o \in Orders => [lines[o] EXCEPT ![k] = u] = [j \in Kots |-> [lines[o] EXCEPT ![k] = u][j]]
  BY DEF LinesByKot
<1>6. \A x \in Orders : lines'[x] = [j \in Kots |-> lines'[x][j]]
  BY <1>4, <1>5 DEF LinesByKot
<1>7. lines' = [x \in Orders |-> lines'[x]]
  BY <1>4
<1>8. LinesByKot'
  BY <1>6, <1>7 DEF LinesByKot
<1>9. QED
  BY <1>4, <1>8

\* Opening a bill and adding to one.
LEMMA OrderPunches ==
    ASSUME RowsOK, OrderInv, NEW r \in Reqs, OpenCommit(r) \/ PunchCommit(r)
    PROVE  OrderKept(r)
<1>1. req[r] \in Request /\ OrderHeld(r) /\ LinesByKot
  BY DEF RowsOK, OrderInv
<1>2. CASE OpenCommit(r)
  <2>1. ASSUME Room, Finish(r), Punch(NextId),
               orders' = [orders EXCEPT ![NextId] = [Absent EXCEPT !.status = "OPEN", !.table = req[r].t]]
        PROVE  OrderKept(r)
    <3>1. PICK x \in Orders : x = NextId /\ orders[x].status = "NONE"
      BY <2>1, NextIdUnused DEF Room
    <3>2. PICK t : t = req[r].t
      OBVIOUS
    <3>3. /\ \A y \in Orders \ {x} : orders'[y] = orders[y] /\ lines'[y] = lines[y]
          /\ LinesByKot'
      BY <1>1, <2>1, <3>1, PunchLines DEF RowsOK
    <3>4. RowsKept(r)
      BY <3>1, <3>3, RowWritten, RowLeft DEF RowsKept
    <3>5. NumbersKept
      <4>1. orders' = [orders EXCEPT ![x] = [Absent EXCEPT !.status = "OPEN", !.table = t]]
        BY <2>1, <3>1, <3>2
      <4>2. orders'[x].status = "OPEN"
        BY <4>1 DEF RowsOK, Absent
      <4>3. QED
        BY <2>1, <3>3, <4>2 DEF NumbersKept, Punch
    <3>6. QED
      BY <2>1, <3>3, <3>4, <3>5, OrderCommit DEF OrderKept
  <2>2. QED
    BY <1>2, <2>1, OrderAbort DEF OpenCommit
<1>3. CASE PunchCommit(r)
  <2>1. req[r].pc = "punch_commit"
    BY <1>3 DEF PunchCommit, At
  <2>2. PICK o \in Orders : o = req[r].o /\ orders[o].status = "OPEN"
    BY <1>1, <2>1 DEF Request, WithOrder, PCs, OrderHeld, BillHeld
  <2>3. ASSUME Punch(req[r].o), UNCHANGED orders, Finish(r) PROVE OrderKept(r)
    <3>1. LinesByKot' /\ \A x \in Orders \ {o} : lines'[x] = lines[x]
      BY <1>1, <2>2, <2>3, PunchLines
    <3>2. RowsKept(r)
      BY <2>2, <2>3, <3>1, RowWritten, RowLeft DEF RowsKept
    <3>3. NumbersKept
      BY <2>3 DEF NumbersKept, Punch
    <3>4. QED
      BY <2>3, <3>1, <3>2, <3>3, OrderCommit DEF OrderKept
  <2>4. QED
    BY <1>3, <2>3, OrderAbort DEF PunchCommit
<1>4. QED
  BY <1>2, <1>3

\* moveAll closes the sources and fills the target.
LEMMA MovedAll ==
    ASSUME RowsOK, OrderInv, NEW r \in Reqs, NEW srcs \in SUBSET Orders, NEW tgt \in Orders,
           MoveAll(srcs, tgt), Finish(r),
           \A x \in srcs \cup {tgt} : Mergeable(x) /\ lock[x] \in {r, Free}
    PROVE  OrderKept(r)
<1>1. LinesByKot' /\ \A x \in Orders \ (srcs \cup {tgt}) : lines'[x] = lines[x]
  <2>1. \A x \in Orders : lines'[x] = [k \in Kots |-> lines'[x][k]]
    BY DEF MoveAll
  <2>2. lines' = [x \in Orders |-> lines'[x]]
    BY DEF MoveAll
  <2>3. ASSUME NEW x \in Orders \ (srcs \cup {tgt}) PROVE lines'[x] = lines[x]
    <3>1. x # tgt /\ x \notin srcs
      OBVIOUS
    <3>2. lines'[x] = [k \in Kots |-> lines[x][k]]
      BY <3>1 DEF MoveAll
    <3>3. QED
      BY <3>2 DEF OrderInv, LinesByKot
  <2>4. QED
    BY <2>1, <2>2, <2>3 DEF LinesByKot
<1>2. \A x \in Orders : orders'[x] = IF x \in srcs THEN [orders[x] EXCEPT !.status = "MERGED"] ELSE orders[x]
  BY DEF MoveAll
<1>3. \A x \in srcs : orders'[x].status = "MERGED" /\ orders'[x].parent = orders[x].parent
  BY <1>2 DEF RowsOK, OrderRow
<1>4. RowsKept(r)
  <2>1. ASSUME NEW x \in srcs PROVE RowKept(r, x)
    BY <1>3, RowWritten DEF Mergeable
  <2>2. tgt \notin srcs => RowKept(r, tgt)
    BY <1>2, RowWritten DEF Mergeable
  <2>3. ASSUME NEW x \in Orders \ (srcs \cup {tgt}) PROVE RowKept(r, x)
    BY <1>1, <1>2, RowLeft
  <2>4. QED
    BY <2>1, <2>2, <2>3 DEF RowsKept
<1>5. NumbersKept
  BY <1>2, <1>3 DEF NumbersKept, MoveAll
<1>6. QED
  BY <1>1, <1>4, <1>5, OrderCommit DEF OrderKept

\* Voiding a bill and merging bills.
LEMMA OrderCloses ==
    ASSUME RowsOK, OrderInv, NEW r \in Reqs, CancelCommit(r) \/ MergeCommit(r)
    PROVE  OrderKept(r)
<1>1. req[r] \in Request /\ OrderHeld(r) /\ LinesByKot
  BY DEF RowsOK, OrderInv
<1>2. CASE CancelCommit(r)
  <2>1. At(r, "cancel_commit") /\ req[r].pc = "cancel_commit"
    BY <1>2 DEF CancelCommit, At
  <2>2. PICK o \in Orders : o = req[r].o /\ lock[o] \in {r, Free}
    BY <1>1, <2>1, GotRow DEF Request, WithOrder, PCs, OrderHeld
  <2>3. ASSUME Mergeable(req[r].o), Finish(r), UNCHANGED <<lines, kotOrder, nextKot, nextBill, punched>>,
               orders' = [orders EXCEPT ![req[r].o].status = "CANCELLED"]
        PROVE  OrderKept(r)
    <3>1. /\ \A x \in Orders \ {o} : orders'[x] = orders[x]
          /\ orders'[o].status = "CANCELLED" /\ orders'[o].parent = orders[o].parent
      BY <2>2, <2>3 DEF RowsOK, OrderRow
    <3>2. RowsKept(r)
      BY <2>2, <2>3, <3>1, RowWritten, RowLeft DEF RowsKept, Mergeable
    <3>3. NumbersKept /\ LinesByKot'
      BY <1>1, <2>3, <3>1 DEF NumbersKept, LinesByKot
    <3>4. QED
      BY <2>3, <3>2, <3>3, OrderCommit DEF OrderKept
  <2>4. QED
    BY <1>2, <2>3, OrderAbort DEF CancelCommit
<1>3. CASE MergeCommit(r)
  <2>1. At(r, "merge_commit") /\ req[r].pc = "merge_commit"
    BY <1>3 DEF MergeCommit, At
  <2>2. req[r].o \in Orders /\ req[r].others \in SUBSET Orders
    BY <1>1, <2>1 DEF Request, WithOrder, PCs
  <2>3. \A x \in req[r].others \cup {req[r].o} : lock[x] \in {r, Free}
    BY <1>1, <2>1, <2>2, GotRow DEF OrderHeld
  <2>4. PICK srcs \in SUBSET Orders : srcs = req[r].others
    BY <2>2
  <2>5. PICK tgt \in Orders : tgt = req[r].o
    BY <2>2
  <2>6. ASSUME \A x \in srcs \cup {tgt} : Mergeable(x), MoveAll(srcs, tgt), Finish(r)
        PROVE  OrderKept(r)
    BY <2>3, <2>4, <2>5, <2>6, MovedAll
  <2>7. QED
    BY <1>3, <2>4, <2>5, <2>6, OrderAbort DEF MergeCommit
<1>4. QED
  BY <1>2, <1>3

\* moveLine writes the lines of the two bills only.
LEMMA MovedLines ==
    ASSUME LinesByKot, NEW src \in Orders, NEW tgt \in Orders, NEW m, MoveLines(src, tgt, m)
    PROVE  LinesByKot' /\ \A x \in Orders \ {src, tgt} : lines'[x] = lines[x]
<1>1. \A x \in Orders : lines'[x] = [k \in Kots |-> lines'[x][k]]
  BY DEF MoveLines
<1>2. lines' = [x \in Orders |-> lines'[x]]
  BY DEF MoveLines
<1>3. ASSUME NEW x \in Orders \ {src, tgt} PROVE lines'[x] = lines[x]
  <2>1. x # src /\ x # tgt
    OBVIOUS
  <2>2. lines'[x] = [k \in Kots |-> lines[x][k]]
    BY <2>1 DEF MoveLines
  <2>3. QED
    BY <2>2 DEF LinesByKot
<1>4. QED
  BY <1>1, <1>2, <1>3 DEF LinesByKot

\* Moving a bill, or part of it, to another table.
LEMMA OrderTransfers ==
    ASSUME RowsOK, OrderInv, NEW r \in Reqs, TransferCommit(r)
    PROVE  OrderKept(r)
<1>1. req[r] \in Request /\ OrderHeld(r) /\ LinesByKot /\ orders \in [Orders -> OrderRow]
  BY DEF RowsOK, OrderInv
<1>2. At(r, "transfer_commit") /\ req[r].pc = "transfer_commit"
  BY DEF TransferCommit, At
<1>3. PICK src \in Orders : req[r].others = {src} /\ lock[src] = r /\ Mergeable(src)
  BY <1>1, <1>2 DEF OrderHeld, SourceHeld
<1>4. Other(r) = src
  BY <1>3 DEF Other
<1>5. PICK tgt : tgt = req[r].o
  OBVIOUS
<1>6. tgt # NoOrder => tgt \in Orders /\ lock[tgt] \in {r, Free}
  BY <1>1, <1>2, <1>5, GotRow DEF OrderHeld, Request
<1>7. ASSUME tgt # NoOrder, Mergeable(tgt), MoveAll({src}, tgt), Finish(r) PROVE OrderKept(r)
  <2>1. PICK srcs \in SUBSET Orders : srcs = {src}
    OBVIOUS
  <2>2. \A x \in srcs \cup {tgt} : Mergeable(x) /\ lock[x] \in {r, Free}
    BY <1>3, <1>6, <1>7, <2>1
  <2>3. QED
    BY <1>6, <1>7, <2>1, <2>2, MovedAll
<1>8. ASSUME NEW t, orders' = [orders EXCEPT ![src].table = t], Finish(r),
             UNCHANGED <<lines, kotOrder, nextKot, nextBill, punched>>
      PROVE  OrderKept(r)
  <2>1. /\ \A x \in Orders \ {src} : orders'[x] = orders[x]
        /\ orders'[src].status = orders[src].status /\ orders'[src].parent = orders[src].parent
    BY <1>1, <1>8 DEF OrderRow
  <2>2. orders[src].status = "OPEN"
    BY <1>3 DEF Mergeable
  <2>3. RowsKept(r)
    BY <1>3, <1>8, <2>1, <2>2, RowWritten, RowLeft DEF RowsKept
  <2>4. NumbersKept /\ LinesByKot'
    BY <1>1, <1>8, <2>1 DEF NumbersKept, LinesByKot
  <2>5. QED
    BY <1>8, <2>3, <2>4, OrderCommit DEF OrderKept
<1>9. ASSUME NEW to \in Orders, NEW m, MoveLines(src, to, m), Finish(r),
             \/ UNCHANGED orders /\ orders[to].status = "OPEN"
             \/ /\ orders[to].status = "NONE" /\ orders'[to].status = "OPEN"
                /\ \A x \in Orders \ {to} : orders'[x] = orders[x]
      PROVE  OrderKept(r)
  <2>1. LinesByKot' /\ \A x \in Orders \ {src, to} : lines'[x] = lines[x]
    BY <1>1, <1>9, MovedLines
  <2>2. orders[src].status = "OPEN"
    BY <1>3 DEF Mergeable
  <2>3. RowKept(r, src)
    BY <1>9, <2>2, RowWritten
  <2>4. RowKept(r, to)
    BY <1>9, RowWritten
  <2>5. ASSUME NEW x \in Orders \ {src, to} PROVE RowKept(r, x)
    BY <1>9, <2>1, RowLeft
  <2>6. NumbersKept
    BY <1>9 DEF NumbersKept, MoveLines
  <2>7. RowsKept(r)
    BY <2>3, <2>4, <2>5 DEF RowsKept
  <2>8. QED
    BY <1>9, <2>1, <2>6, <2>7, OrderCommit DEF OrderKept
<1>10. CASE (tgt # NoOrder => Mergeable(tgt)) /\ TransferWhole(r) /\ Finish(r)
  BY <1>4, <1>5, <1>7, <1>8, <1>10 DEF TransferWhole
<1>11. CASE (tgt # NoOrder => Mergeable(tgt)) /\ TransferPart(r) /\ Finish(r)
  <2>1. PICK m : /\ \/ req[r].o # NoOrder /\ UNCHANGED orders
                    \/ /\ req[r].o = NoOrder /\ Fresh # {}
                       /\ orders' = [orders EXCEPT ![NextId] =
                                        [Absent EXCEPT !.status = "OPEN", !.table = req[r].t]]
                 /\ MoveLines(src, IF req[r].o # NoOrder THEN req[r].o ELSE NextId, m)
    BY <1>4, <1>11 DEF TransferPart
  <2>2. CASE tgt # NoOrder
    <3>1. UNCHANGED orders /\ MoveLines(src, tgt, m) /\ orders[tgt].status = "OPEN"
      BY <1>5, <1>11, <2>1, <2>2 DEF Mergeable
    <3>2. QED
      BY <1>6, <1>9, <1>11, <2>2, <3>1
  <2>3. CASE tgt = NoOrder
    <3>1. PICK to \in Orders : to = NextId /\ orders[to].status = "NONE"
      BY <1>5, <2>1, <2>3, NextIdUnused
    <3>2. PICK t : t = req[r].t
      OBVIOUS
    <3>3. MoveLines(src, to, m)
      BY <1>5, <2>1, <2>3, <3>1
    <3>4. orders' = [orders EXCEPT ![to] = [Absent EXCEPT !.status = "OPEN", !.table = t]]
      BY <1>5, <2>1, <2>3, <3>1, <3>2
    <3>5. orders'[to].status = "OPEN" /\ \A x \in Orders \ {to} : orders'[x] = orders[x]
      BY <1>1, <3>4 DEF Absent
    <3>6. QED
      BY <1>9, <1>11, <3>1, <3>3, <3>5
  <2>4. QED
    BY <2>2, <2>3
<1>12. QED
  BY <1>5, <1>10, <1>11, OrderAbort DEF TransferCommit

\* Splitting gives unused ids to the checks and keeps the bill open.
LEMMA OrderSplits ==
    ASSUME RowsOK, OrderInv, NEW r \in Reqs, SplitCommit(r)
    PROVE  OrderKept(r)
<1>1. req[r] \in Request /\ OrderHeld(r) /\ LinesByKot /\ orders \in [Orders -> OrderRow]
  BY DEF RowsOK, OrderInv
<1>2. At(r, "split_commit") /\ req[r].pc = "split_commit"
  BY DEF SplitCommit, At
<1>3. PICK p \in Orders : p = req[r].o /\ lock[p] \in {r, Free}
  BY <1>1, <1>2, GotRow DEF Request, WithOrder, PCs, OrderHeld
<1>4. ASSUME NEW n \in Parts, Mergeable(p), Finish(r), UNCHANGED nextBill,
             orders' = [o \in Orders |->
                           IF o = p THEN [orders[o] EXCEPT !.splitCount = n]
                           ELSE IF o \in NextIds(n) THEN [Absent EXCEPT !.status = "OPEN", !.parent = p]
                           ELSE orders[o]],
             NEW s \in Shares(p, NextIds(n)),
             lines' = [o \in Orders |-> IF o \in NextIds(n) THEN s[o] ELSE lines[o]]
      PROVE  OrderKept(r)
  <2>1. PICK kids : kids = NextIds(n)
    OBVIOUS
  <2>2. \A c \in kids : c \in Orders /\ orders[c].status = "NONE"
    BY <2>1 DEF NextIds, Fresh
  <2>3. s \in [kids -> [Kots -> 0..Max(Range(Units))]]
    BY <1>4, <2>1 DEF Shares
  <2>4. \A c \in kids : s[c] = [k \in Kots |-> s[c][k]]
    BY <2>3
  <2>5. \A o \in Orders : lines'[o] = IF o \in kids THEN s[o] ELSE lines[o]
    BY <1>4, <2>1
  <2>6. LinesByKot'
    <3>1. lines' = [o \in Orders |-> lines'[o]]
      BY <1>4
    <3>2. \A o \in Orders : lines'[o] = [k \in Kots |-> lines'[o][k]]
      BY <1>1, <2>4, <2>5 DEF LinesByKot
    <3>3. QED
      BY <3>1, <3>2 DEF LinesByKot
  <2>7. orders[p].status = "OPEN"
    BY <1>4 DEF Mergeable
  <2>8. orders'[p].status = "OPEN" /\ orders'[p].parent = orders[p].parent
    <3>1. orders'[p] = [orders[p] EXCEPT !.splitCount = n]
      BY <1>4
    <3>2. QED
      BY <1>1, <2>7, <3>1 DEF OrderRow
  <2>9. \A c \in kids \ {p} : orders'[c].status = "OPEN"
    BY <1>4, <2>1, <2>2 DEF Absent
  <2>10. \A x \in Orders \ (kids \cup {p}) : orders'[x] = orders[x] /\ lines'[x] = lines[x]
    BY <1>4, <2>1
  <2>11. RowsKept(r)
    <3>1. RowKept(r, p)
      BY <1>3, <2>7, <2>8, RowWritten
    <3>2. ASSUME NEW c \in kids PROVE RowKept(r, c)
      BY <2>2, RowWritten
    <3>3. QED
      BY <2>10, <3>1, <3>2, RowLeft DEF RowsKept
  <2>12. NumbersKept
    BY <1>4, <2>8, <2>9, <2>10 DEF NumbersKept
  <2>13. QED
    BY <1>4, <2>6, <2>11, <2>12, OrderCommit DEF OrderKept
<1>5. QED
  BY <1>3, <1>4, OrderAbort DEF SplitCommit

\* Unsplitting deletes the checks: it locked every one it found before the
\* transaction, and since they are as many as there are now, there is no other.
LEMMA OrderUnsplits ==
    ASSUME RowsOK, OrderInv, NEW r \in Reqs, UnsplitCommit(r)
    PROVE  OrderKept(r)
<1>1. req[r] \in Request /\ OrderHeld(r) /\ LinesByKot /\ orders \in [Orders -> OrderRow]
  BY DEF RowsOK, OrderInv
<1>2. At(r, "unsplit_commit") /\ req[r].pc = "unsplit_commit"
  BY DEF UnsplitCommit, At
<1>3. PICK p \in Orders : p = req[r].o /\ lock[p] \in {r, Free}
  BY <1>1, <1>2, GotRow DEF Request, WithOrder, PCs, OrderHeld
<1>4. PICK kids : kids = Children(p)
  OBVIOUS
<1>5. ASSUME orders[p].status = "OPEN", Cardinality(kids) = Cardinality(req[r].others),
             \A c \in kids : orders[c].status = "OPEN", Finish(r), UNCHANGED nextBill,
             orders' = [o \in Orders |->
                           IF o = p THEN [orders[o] EXCEPT !.splitCount = 0]
                           ELSE IF o \in kids THEN [Absent EXCEPT !.status = "DELETED"]
                           ELSE orders[o]],
             lines' = [o \in Orders |-> IF o \in kids THEN NoLines ELSE lines[o]]
      PROVE  OrderKept(r)
  <2>1. req[r].others \subseteq kids
    <3>1. \A c \in req[r].others : c \in Orders /\ CheckHeld(r, c)
      BY <1>1, <1>2 DEF Request, OrderHeld
    <3>2. QED
      BY <1>3, <1>4, <3>1 DEF CheckHeld, Children
  <2>2. kids \subseteq Orders /\ IsFiniteSet(Orders)
    BY <1>4, BillsAssumption DEF Children
  <2>3. kids = req[r].others
    <3>1. PICK T \in SUBSET kids : T = req[r].others
      BY <2>1
    <3>2. IsFiniteSet(kids)
      BY <2>2, FS_Subset
    <3>3. kids = T
      BY <1>5, <3>1, <3>2, FS_Subset
    <3>4. QED
      BY <3>1, <3>3
  <2>4. \A c \in kids : c \in Orders /\ lock[c] = r
    BY <1>1, <1>2, <2>2, <2>3 DEF OrderHeld, CheckHeld
  <2>5. \A o \in Orders : lines'[o] = IF o \in kids THEN NoLines ELSE lines[o]
    BY <1>5
  <2>6. LinesByKot'
    <3>1. lines' = [o \in Orders |-> lines'[o]]
      BY <1>5
    <3>2. \A o \in Orders : lines'[o] = [k \in Kots |-> lines'[o][k]]
      BY <1>1, <2>5 DEF LinesByKot, NoLines
    <3>3. QED
      BY <3>1, <3>2 DEF LinesByKot
  <2>7. orders'[p].status = "OPEN" /\ orders'[p].parent = orders[p].parent
    <3>1. orders'[p] = [orders[p] EXCEPT !.splitCount = 0]
      BY <1>5
    <3>2. QED
      BY <1>1, <1>5, <3>1 DEF OrderRow
  <2>8. \A c \in kids \ {p} : orders'[c].status = "DELETED" /\ ~Exists(c)'
    <3>1. \A c \in kids \ {p} : orders'[c] = [Absent EXCEPT !.status = "DELETED"]
      BY <1>5, <2>4
    <3>2. QED
      BY <2>4, <3>1 DEF Absent, Exists
  <2>9. \A x \in Orders \ (kids \cup {p}) : orders'[x] = orders[x] /\ lines'[x] = lines[x]
    BY <1>5
  <2>10. RowsKept(r)
    <3>1. RowKept(r, p)
      BY <1>3, <1>5, <2>7, RowWritten
    <3>2. ASSUME NEW c \in kids \ {p} PROVE RowKept(r, c)
      <4>1. c \in Orders /\ orders[c].status = "OPEN" /\ lock[c] \in {r, Free}
        BY <1>5, <2>4
      <4>2. orders'[c].status # "NONE" /\ ~Exists(c)'
        BY <2>8
      <4>3. QED
        BY <4>1, <4>2, RowWritten
    <3>3. QED
      BY <2>9, <3>1, <3>2, RowLeft DEF RowsKept
  <2>11. NumbersKept
    BY <1>5, <2>7, <2>8, <2>9 DEF NumbersKept
  <2>12. QED
    BY <1>5, <2>6, <2>10, <2>11, OrderCommit DEF OrderKept
<1>6. QED
  BY <1>3, <1>4, <1>5, OrderAbort DEF UnsplitCommit

\* one bill, open until now, takes the next number
NumberTaken(o) ==
    /\ nextBill' = nextBill + 1
    /\ orders[o].status = "OPEN" /\ orders'[o].status = "SETTLED" /\ orders'[o].bill = nextBill
    /\ \A x \in Orders \ {o} : orders'[x].status = "SETTLED" => orders[x].status = "SETTLED"

\* Settling closes a bill that is open under its lock, and its parent likewise.
LEMMA OrderSettles ==
    ASSUME RowsOK, OrderInv, NEW r \in Reqs, SettleCommit(r)
    PROVE  OrderInv' /\ RowsKept(r) /\ \E o \in Orders : NumberTaken(o)
<1>1. req[r] \in Request /\ OrderHeld(r) /\ LinesByKot /\ orders \in [Orders -> OrderRow]
  BY DEF RowsOK, OrderInv
<1>2. At(r, "settle_commit") /\ req[r].pc = "settle_commit"
  BY DEF SettleCommit, At
<1>3. PICK o \in Orders : o = req[r].o /\ lock[o] = r /\ orders[o].status = "OPEN"
  BY <1>1, <1>2 DEF Request, WithOrder, PCs, OrderHeld, BillHeld
<1>4. PICK p : p = Other(r)
  OBVIOUS
<1>5. req[r].last => p \in Orders /\ lock[p] = r /\ orders[p].status = "OPEN"
  <2>1. ASSUME req[r].last PROVE p \in Orders /\ lock[p] = r /\ orders[p].status = "OPEN"
    <3>1. PICK x \in Orders : req[r].others = {x} /\ lock[x] = r /\ orders[x].status = "OPEN"
      BY <1>1, <1>2, <2>1 DEF OrderHeld, ParentHeld
    <3>2. p = x
      BY <1>4, <3>1 DEF Other
    <3>3. QED
      BY <3>1, <3>2
  <2>2. QED
    BY <2>1
<1>6. /\ nextBill' = nextBill + 1 /\ UNCHANGED lines /\ Finish(r)
      /\ orders'[o] = [orders[o] EXCEPT !.status = "SETTLED", !.bill = nextBill]
      /\ \A x \in Orders \ {o} : orders'[x] = IF req[r].last /\ x = p
                                              THEN [orders[x] EXCEPT !.status = "SPLIT"] ELSE orders[x]
  BY <1>3, <1>4 DEF SettleCommit
<1>7. orders'[o].status = "SETTLED" /\ orders'[o].bill = nextBill /\ orders'[o].parent = orders[o].parent
  BY <1>1, <1>6 DEF OrderRow
<1>8. \A x \in Orders \ {o} :
         \/ orders'[x] = orders[x]
         \/ /\ orders[x].status = "OPEN" /\ lock[x] = r
            /\ orders'[x].status = "SPLIT" /\ orders'[x].parent = orders[x].parent
  <2> TAKE x \in Orders \ {o}
  <2>1. CASE req[r].last /\ x = p
    <3>1. orders'[x] = [orders[x] EXCEPT !.status = "SPLIT"]
      BY <1>6, <2>1
    <3>2. QED
      BY <1>1, <1>5, <2>1, <3>1 DEF OrderRow
  <2>2. CASE ~(req[r].last /\ x = p)
    BY <1>6, <2>2
  <2>3. QED
    BY <2>1, <2>2
<1>9. RowsKept(r)
  <2>1. RowKept(r, o)
    BY <1>3, <1>7, RowWritten
  <2>2. ASSUME NEW x \in Orders \ {o} PROVE RowKept(r, x)
    BY <1>6, <1>8, RowWritten, RowLeft
  <2>3. QED
    BY <2>1, <2>2 DEF RowsKept
<1>10. LinesByKot'
  BY <1>1, <1>6 DEF LinesByKot
<1>11. NumberTaken(o)
  BY <1>3, <1>6, <1>7, <1>8 DEF NumberTaken
<1>12. QED
  BY <1>3, <1>6, <1>9, <1>10, <1>11, OrderCommit

\* What any step does to the order rows and the bill numbers.
LEMMA NextOrders ==
    ASSUME RowsOK, OrderInv, NEW r \in Reqs,
           Submit(r) \/ Acquire(r) \/ NotFound(r) \/ Step(r) \/ DeadlockVictim(r) \/ Fail(r)
    PROVE  /\ OrderInv' /\ RowsKept(r)
           /\ NumbersKept \/ \E o \in Orders : NumberTaken(o)
<1>1. CASE Submit(r) \/ Acquire(r)
  BY <1>1, OrderSubmit, OrderAcquire DEF OrderKept
<1>2. CASE NotFound(r) \/ DeadlockVictim(r) \/ Fail(r)
  BY <1>2, OrderAbort DEF NotFound, DeadlockVictim, Fail, OrderKept
<1>3. CASE Step(r)
  BY <1>3, OrderOpenReads, OrderSettleReads, OrderMoveReads, OrderPunches, OrderCloses, OrderTransfers,
     OrderSplits, OrderUnsplits, OrderSettles DEF Step, OrderKept
<1>4. QED
  BY <1>1, <1>2, <1>3

\* Initially no order exists and no request runs.
LEMMA InitOrders == Init => OrderInv
<1> SUFFICES ASSUME Init PROVE OrderInv
  OBVIOUS
<1>1. LinesByKot
  BY DEF Init, LinesByKot, NoLines
<1>2. \A r \in Reqs : OrderHeld(r)
  BY DEF Init, OrderHeld, Idle
<1>3. QED
  BY <1>1, <1>2 DEF OrderInv

BillsInv == RowsOK /\ TableInv /\ OrderInv

\* Row types, tables and order rows together are inductive.
LEMMA NextBills == BillsInv /\ [Next]_vars => BillsInv'
<1> SUFFICES ASSUME BillsInv, [Next]_vars PROVE BillsInv'
  OBVIOUS
<1>1. RowsOK' /\ TableInv'
  BY NextTables DEF BillsInv
<1>2. CASE Next
  BY <1>1, <1>2, NextOrders DEF Next, BillsInv
<1>3. CASE UNCHANGED vars
  <2>1. LinesByKot'
    BY <1>3 DEF vars, BillsInv, OrderInv, LinesByKot
  <2>2. \A r \in Reqs : OrderHeld(r)'
    BY <1>3 DEF vars, BillsInv, OrderInv, OrderHeld, Got, CheckFound, CheckHeld, BillHeld, ParentHeld,
       ParentGot, SourceHeld, Exists, Mergeable, NotSplit
  <2>3. QED
    BY <1>1, <2>1, <2>2 DEF BillsInv, OrderInv
<1>4. QED
  BY <1>2, <1>3

\* A settled, voided, merged or split-up bill is never written again: not its
\* row, its number, nor its lines, whatever add, merge, transfer, split, settle
\* and unsplit requests were under way when it closed.
THEOREM ClosedBillsStay == Spec => ClosedIsFinal
<1>1. ASSUME BillsInv, [Next]_vars
      PROVE  [\A o \in Orders : Closed(o) => orders'[o] = orders[o] /\ lines'[o] = lines[o]]_vars
  <2>1. ASSUME NEW r \in Reqs, RowsKept(r)
        PROVE  \A o \in Orders : Closed(o) => orders'[o] = orders[o] /\ lines'[o] = lines[o]
    BY <2>1 DEF RowsKept, RowKept
  <2>2. CASE Next
    <3>1. PICK r \in Reqs : Submit(r) \/ Acquire(r) \/ NotFound(r) \/ Step(r) \/ DeadlockVictim(r) \/ Fail(r)
      BY <2>2 DEF Next
    <3>2. RowsKept(r)
      BY <1>1, <3>1, NextOrders DEF BillsInv
    <3>3. QED
      BY <2>1, <3>2
  <2>3. QED
    BY <1>1, <2>2
<1>2. Init => BillsInv
  BY InitTables, InitOrders DEF BillsInv
<1>3. QED
  BY <1>1, <1>2, NextBills, PTL DEF Spec, ClosedIsFinal

\* Numbers already handed out stay, and a settlement adds the next one.
LEMMA NumbersStep ==
    ASSUME RowsOK, BillNumbersGapless, NEW r \in Reqs, RowsKept(r), RowsOK',
           NumbersKept \/ \E o \in Orders : NumberTaken(o)
    PROVE  BillNumbersGapless'
<1>1. PICK S : S = {o \in Orders : orders[o].status = "SETTLED"}
  OBVIOUS
<1>2. S = {o \in Known : orders[o].status = "SETTLED"}
  BY <1>1 DEF Known, Exists
<1>3. {orders[o].bill : o \in S} = 1..(nextBill - 1) /\ Cardinality(S) = nextBill - 1
  BY <1>2 DEF BillNumbersGapless
<1>4. PICK T : T = {o \in Orders : orders'[o].status = "SETTLED"}
  OBVIOUS
<1>5. T = {o \in Known' : orders'[o].status = "SETTLED"}
  BY <1>4 DEF Known, Exists
<1>6. \A o \in S : orders'[o] = orders[o]
  BY <1>1 DEF RowsKept, RowKept, Closed
<1>7. {orders'[o].bill : o \in S} = 1..(nextBill - 1)
  BY <1>3, <1>6
<1>8. nextBill \in Nat /\ IsFiniteSet(S)
  <2>1. S \in SUBSET Orders
    BY <1>1
  <2>2. QED
    BY <2>1, BillsAssumption, FS_Subset DEF RowsOK
<1>9. CASE NumbersKept
  <2>1. T = S
    BY <1>1, <1>4, <1>6, <1>9 DEF NumbersKept
  <2>2. QED
    BY <1>3, <1>5, <1>7, <1>9, <2>1 DEF BillNumbersGapless, NumbersKept
<1>10. ASSUME NEW o \in Orders, NumberTaken(o) PROVE BillNumbersGapless'
  <2>1. T = S \cup {o} /\ o \notin S
    BY <1>1, <1>4, <1>6, <1>10 DEF NumberTaken
  <2>2. Cardinality(T) = Cardinality(S) + 1
    BY <1>8, <2>1, FS_AddElement
  <2>3. Cardinality(S) \in Nat
    BY <1>8, FS_CardinalityType
  <2>4. nextBill' = nextBill + 1 /\ orders'[o].bill = nextBill
    BY <1>10 DEF NumberTaken
  <2>5. nextBill >= 1 /\ Cardinality(T) = nextBill' - 1
    BY <1>3, <1>8, <2>2, <2>3, <2>4
  <2>6. {orders'[x].bill : x \in T} = (1..(nextBill - 1)) \cup {nextBill}
    BY <1>7, <2>1, <2>4
  <2>7. (1..(nextBill - 1)) \cup {nextBill} = 1..(nextBill' - 1)
    BY <1>8, <2>4, <2>5
  <2>8. QED
    BY <1>5, <2>5, <2>6, <2>7 DEF BillNumbersGapless
<1>11. QED
  BY <1>9, <1>10

\* However settlements race, fail and roll back, the settled bills of the
\* outlet carry the numbers 1, 2, 3, ... each once and none left out.
THEOREM BillNumbersInSeries == Spec => []BillNumbersGapless
<1>1. Init => BillsInv /\ BillNumbersGapless
  <2>1. ASSUME Init PROVE BillNumbersGapless
    <3>1. {o \in Known : orders[o].status = "SETTLED"} = {} /\ nextBill = 1
      BY <2>1 DEF Init, Absent, Known
    <3>2. QED
      BY <3>1, FS_EmptySet DEF BillNumbersGapless
  <2>2. QED
    BY <2>1, InitTables, InitOrders DEF BillsInv
<1>2. BillsInv /\ BillNumbersGapless /\ [Next]_vars => (BillsInv /\ BillNumbersGapless)'
  <2> SUFFICES ASSUME BillsInv, BillNumbersGapless, [Next]_vars PROVE (BillsInv /\ BillNumbersGapless)'
    OBVIOUS
  <2>1. BillsInv'
    BY NextBills
  <2>2. CASE Next
    <3>1. PICK r \in Reqs : Submit(r) \/ Acquire(r) \/ NotFound(r) \/ Step(r) \/ DeadlockVictim(r) \/ Fail(r)
      BY <2>2 DEF Next
    <3>2. RowsKept(r) /\ (NumbersKept \/ \E o \in Orders : NumberTaken(o))
      BY <3>1, NextOrders DEF BillsInv
    <3>3. QED
      BY <2>1, <3>2, NumbersStep DEF BillsInv
  <2>3. CASE UNCHANGED vars
    BY <2>1, <2>3 DEF vars, BillNumbersGapless, Known, Exists
  <2>4. QED
    BY <2>2, <2>3
<1>3. QED
  BY <1>1, <1>2, PTL DEF Spec

----------------------------------------------------------------------------
(* Split bills and units.                                                   *)

\* an order that does not exist (any more) has nothing on it, and a check
\* belongs to a bill that exists, has no table and is not split again
RowShape(o) ==
    /\ ~Exists(o) => NotSplit(o) /\ lines[o] = NoLines
    /\ Exists(o) /\ orders[o].parent # NoOrder =>
          Exists(orders[o].parent) /\ orders[o].table = NoTable /\ orders[o].splitCount = 0

\* r holds the bill p of its check and knows whether another is still open
Counted(r, p) ==
    /\ req[r].others = {p} /\ lock[p] = r
    /\ req[r].last <=> OpenChecks(p) \subseteq {req[r].o}

\* What a request knows of the bills it splits, moves and closes.
SplitHeld(r) ==
    LET o == req[r].o
    IN  /\ req[r].pc = "punch_commit" => orders[o].parent = NoOrder
        /\ req[r].pc = "scan_reread" => orders[o].status # "NONE" /\ orders[o].parent = NoOrder
        /\ req[r].pc \in {"settle_parent", "settle_count"} =>
              orders[o].parent # NoOrder /\ req[r].others = {orders[o].parent}
        /\ req[r].pc = "settle_commit" =>
              /\ orders[o].parent = NoOrder => ~req[r].last
              /\ orders[o].parent # NoOrder => Counted(r, orders[o].parent)
        /\ req[r].pc = "merge_commit" => o \notin req[r].others
        /\ req[r].pc = "transfer_find" => req[r].from # req[r].t
        /\ req[r].pc = "transfer_commit" => o \notin req[r].others

\* no unit of a KOT that is still to be punched
KotsAhead == nextKot # 0 /\ \A k \in Kots : k >= nextKot => punched[k] = 0

\* what holds of the database, whatever requests run
LinesOK == /\ lines \in [Orders -> [Kots -> Nat]] /\ punched \in [Kots -> Nat]
           /\ kotOrder \in [Kots -> Orders \cup {NoOrder}]
ShapeOK == \A o \in Orders : RowShape(o)
DataInv == LinesOK /\ ShapeOK /\ SplitAccounting /\ EveryUnitBilledOnce /\ KotsAhead
SplitInv == DataInv /\ \A r \in Reqs : SplitHeld(r)

\* the open checks of a bill another request has locked stay as they are
ChecksKept(r) == \A p \in Orders : OpenChecks(p)' = OpenChecks(p) \/ lock[p] \in {r, Free}

\* What a request knows of split bills survives the steps of others.
LEMMA SplitHeldKept ==
    ASSUME RowsOK, OrderInv, SplitInv, NEW r \in Reqs, OthersKept(r), RowsKept(r), ChecksKept(r), ShapeOK'
    PROVE  \A s \in Reqs \ {r} : SplitHeld(s)'
<1> TAKE s \in Reqs \ {r}
<1>1. req'[s] = req[s] /\ OrderHeld(s) /\ SplitHeld(s) /\ req[s] \in Request /\ s # Free
  BY BillsAssumption DEF OthersKept, OrderInv, RowsOK, SplitInv
<1>2. PICK o : o = req[s].o
  OBVIOUS
<1>3. req[s].pc \in WithOrder => o \in Orders
  BY <1>1, <1>2 DEF Request
<1>4. ASSUME req[s].pc \in {"settle_parent", "settle_count", "settle_commit", "punch_commit"}
      PROVE  o \in Orders /\ orders'[o] = orders[o]
  <2>1. o \in Orders /\ BillHeld(s)
    BY <1>1, <1>3, <1>4 DEF OrderHeld, WithOrder, PCs
  <2>2. QED
    BY <1>2, <2>1, LockedRow DEF BillHeld
<1>5. CASE req[s].pc = "scan_reread"
  <2>1. o \in Orders /\ orders[o].status # "NONE" /\ orders[o].parent = NoOrder
    BY <1>1, <1>2, <1>3, <1>5 DEF SplitHeld, WithOrder, PCs
  <2>2. RowKept(r, o) /\ RowShape(o)'
    BY <2>1 DEF RowsKept, ShapeOK
  <2>3. orders'[o].status # "NONE" /\ orders'[o].parent = NoOrder
    BY <2>1, <2>2 DEF RowKept, RowShape, NotSplit
  <2>4. QED
    BY <1>1, <1>2, <1>5, <2>3 DEF SplitHeld
<1>6. CASE req[s].pc \in {"settle_parent", "settle_count", "punch_commit"}
  BY <1>1, <1>2, <1>4, <1>6 DEF SplitHeld
<1>7. CASE req[s].pc = "settle_commit"
  <2>1. o \in Orders /\ orders'[o] = orders[o]
    BY <1>4, <1>7
  <2>2. PICK p : p = orders[o].parent
    OBVIOUS
  <2>3. p \in Orders \cup {NoOrder}
    BY <2>1, <2>2 DEF RowsOK, OrderRow
  <2>4. ASSUME p \in Orders, Counted(s, p) PROVE Counted(s, p)'
    <3>1. lock[p] = s /\ lock[p] \notin {r, Free}
      BY <1>1, <2>4 DEF Counted
    <3>2. lock'[p] = s /\ OpenChecks(p)' = OpenChecks(p)
      BY <2>4, <3>1, LockedRow DEF ChecksKept
    <3>3. QED
      BY <1>1, <2>4, <3>2 DEF Counted
  <2>5. QED
    BY <1>1, <1>2, <1>7, <2>1, <2>2, <2>3, <2>4 DEF SplitHeld
<1>8. CASE req[s].pc \notin {"scan_reread", "settle_parent", "settle_count", "punch_commit", "settle_commit"}
  BY <1>1, <1>8 DEF SplitHeld
<1>9. QED
  BY <1>5, <1>6, <1>7, <1>8

\* Steps that write nothing keep what holds of the database.
LEMMA DataKept ==
    ASSUME DataInv, UNCHANGED db
    PROVE  DataInv' /\ \A r : ChecksKept(r)
<1>1. UNCHANGED <<orders, lines, kotOrder, nextKot, nextBill, punched>>
  BY DEF db
<1>2. \A o : Exists(o)' = Exists(o) /\ Children(o)' = Children(o) /\ OpenChecks(o)' = OpenChecks(o)
             /\ NotSplit(o)' = NotSplit(o)
  BY <1>1 DEF Exists, Children, OpenChecks, NotSplit
<1>3. Known' = Known /\ Billed' = Billed
  BY <1>1, <1>2 DEF Known, Billed
<1>4. LinesOK' /\ ShapeOK'
  BY <1>1, <1>2 DEF DataInv, LinesOK, ShapeOK, RowShape
<1>5. SplitAccounting'
  <2>1. ASSUME NEW p \in Known PROVE ChecksAgree(p)' /\ SharesExact(p)'
    <3>1. ChecksAgree(p) /\ SharesExact(p)
      BY DEF DataInv, SplitAccounting
    <3>2. ChecksAgree(p)'
      BY <1>1, <1>2, <3>1 DEF ChecksAgree
    <3>3. SharesExact(p)'
      BY <1>1, <1>2, <3>1 DEF SharesExact
    <3>4. QED
      BY <3>2, <3>3
  <2>2. QED
    BY <1>3, <2>1 DEF SplitAccounting
<1>6. EveryUnitBilledOnce' /\ KotsAhead'
  BY <1>1, <1>3 DEF DataInv, EveryUnitBilledOnce, KotsAhead
<1>7. QED
  BY <1>2, <1>4, <1>5, <1>6 DEF DataInv, ChecksKept

\* A step that keeps the database, the rows of others and what r knows keeps
\* the invariant.
LEMMA SplitStep ==
    ASSUME RowsOK, OrderInv, SplitInv, NEW r \in Reqs, OthersKept(r), RowsKept(r), ChecksKept(r),
           DataInv', SplitHeld(r)'
    PROVE  SplitInv'
BY SplitHeldKept DEF SplitInv, DataInv

\* A step that writes nothing is one of these.
LEMMA SplitRead ==
    ASSUME RowsOK, OrderInv, SplitInv, NEW r \in Reqs, OthersKept(r), UNCHANGED db, SplitHeld(r)'
    PROVE  SplitInv'
<1>1. RowsKept(r)
  BY NothingWritten
<1>2. DataInv' /\ ChecksKept(r)
  BY DataKept DEF SplitInv
<1>3. QED
  BY <1>1, <1>2, SplitStep

\* An ended request knows of no bill.
LEMMA IdleKnowsNothing ==
    ASSUME RowsOK, NEW r \in Reqs, Finish(r)
    PROVE  SplitHeld(r)' /\ OthersKept(r)
<1>1. req'[r] = Idle
  BY DEF Finish, RowsOK
<1>2. QED
  BY <1>1, KeepsOthers DEF SplitHeld, Idle

\* A rollback writes nothing.
LEMMA SplitAbort ==
    ASSUME RowsOK, OrderInv, SplitInv, NEW r \in Reqs, Abort(r)
    PROVE  SplitInv'
BY IdleKnowsNothing, SplitRead DEF Abort

\* Starting a request: a merge has another target than its sources, a
\* transfer another table.
LEMMA SplitSubmit ==
    ASSUME RowsOK, OrderInv, SplitInv, NEW r \in Reqs, Submit(r)
    PROVE  SplitInv'
<1>1. ASSUME NEW rec, Begin(r, rec), rec.pc = "merge_commit" => rec.o \notin rec.others,
             rec.pc = "transfer_find" => rec.from # rec.t,
             rec.pc \notin {"punch_commit", "scan_reread", "settle_parent", "settle_count", "settle_commit",
                            "transfer_commit"}
      PROVE  SplitInv'
  <2>1. req'[r] = rec /\ UNCHANGED db
    BY <1>1 DEF Begin, RowsOK
  <2>2. SplitHeld(r)'
    BY <1>1, <2>1 DEF SplitHeld
  <2>3. QED
    BY <1>1, <2>1, <2>2, SplitRead, KeepsOthers
<1>2. ASSUME NEW t, BeginOpen(r, t) \/ BeginScan(r, t) PROVE SplitInv'
  <2>1. PICK rec : Begin(r, rec) /\ rec.pc \in {"open_commit", "open_check", "scan_find"}
    <3>1. CASE BeginOpen(r, t)
      <4> DEFINE rec == IF t = NoTable THEN [Idle EXCEPT !.pc = "open_commit", !.want = {Outlet}]
                        ELSE [Idle EXCEPT !.pc = "open_check", !.want = {t}, !.t = t]
      <4>1. Begin(r, rec) /\ rec.pc \in {"open_commit", "open_check"}
        BY <3>1 DEF BeginOpen, Idle
      <4>2. QED
        BY <4>1
    <3>2. CASE BeginScan(r, t)
      <4> DEFINE rec == [Idle EXCEPT !.pc = "scan_find", !.want = {t}, !.t = t]
      <4>1. Begin(r, rec) /\ rec.pc = "scan_find"
        BY <3>2 DEF BeginScan, Idle
      <4>2. QED
        BY <4>1
    <3>3. QED
      BY <1>2, <3>1, <3>2
  <2>2. QED
    BY <1>1, <2>1
<1>3. ASSUME NEW o \in Orders, NEW pc \in {"add_check", "settle_check", "cancel_commit", "split_commit"},
             Begin(r, [Idle EXCEPT !.pc = pc, !.want = {o}, !.o = o])
      PROVE  SplitInv'
  <2> DEFINE rec == [Idle EXCEPT !.pc = pc, !.want = {o}, !.o = o]
  <2>1. Begin(r, rec) /\ rec.pc = pc
    BY <1>3 DEF Idle
  <2>2. QED
    BY <1>1, <2>1
<1>4. ASSUME NEW o \in Orders, BeginUnsplit(r, o) PROVE SplitInv'
  <2> DEFINE rec == [Idle EXCEPT !.pc = "unsplit_parent", !.want = Children(o), !.o = o, !.others = Children(o)]
  <2>1. Begin(r, rec) /\ rec.pc = "unsplit_parent"
    BY <1>4 DEF BeginUnsplit, Idle
  <2>2. QED
    BY <1>1, <2>1
<1>5. ASSUME NEW o \in Orders, NEW to, BeginTransfer(r, o, to) PROVE SplitInv'
  <2> DEFINE rec == [Idle EXCEPT !.pc = "transfer_find",
                                 !.want = ({orders[o].table, to} \ {NoTable}) \cup {o},
                                 !.others = {o}, !.t = to, !.from = orders[o].table]
  <2>1. Begin(r, rec) /\ rec.pc = "transfer_find" /\ rec.from = orders[o].table /\ rec.t = to
    BY <1>5 DEF BeginTransfer, Idle
  <2>2. orders[o].table # to
    BY <1>5 DEF BeginTransfer
  <2>3. QED
    BY <1>1, <2>1, <2>2
<1>6. ASSUME NEW tgt \in Orders, NEW srcs, tgt \notin srcs, BeginMerge(r, tgt, srcs) PROVE SplitInv'
  <2>1. PICK w : w = ({orders[o].table : o \in srcs \cup {tgt}} \ {NoTable}) \cup (srcs \cup {tgt})
    OBVIOUS
  <2> DEFINE rec == [Idle EXCEPT !.pc = "merge_commit", !.want = w, !.o = tgt, !.others = srcs]
  <2>2. Begin(r, rec)
    BY <1>6, <2>1 DEF BeginMerge
  <2>3. rec.pc = "merge_commit" /\ rec.o = tgt /\ rec.others = srcs
    BY DEF Idle
  <2>4. QED
    BY <1>1, <1>6, <2>2, <2>3
<1>7. QED
  BY <1>2, <1>3, <1>4, <1>5, <1>6
     DEF Submit, Offered, Known, BeginAdd, BeginCancel, BeginSplit, BeginSettle

\* Taking one of several locks changes nothing a request knows of split bills.
LEMMA SplitAcquire ==
    ASSUME RowsOK, OrderInv, SplitInv, NEW r \in Reqs, Acquire(r)
    PROVE  SplitInv'
<1>1. PICK row : /\ lock' = [lock EXCEPT ![row] = r] /\ UNCHANGED db
                 /\ req' = [req EXCEPT ![r].want = @ \ {row}]
  BY DEF Acquire
<1>2. req[r] \in Request /\ SplitHeld(r) /\ Orders \subseteq Rows
  BY DEF RowsOK, SplitInv, Rows
<1>3. /\ req'[r].pc = req[r].pc /\ req'[r].o = req[r].o /\ req'[r].others = req[r].others
      /\ req'[r].last = req[r].last /\ req'[r].from = req[r].from /\ req'[r].t = req[r].t
  BY <1>1, <1>2 DEF RowsOK, Request
<1>4. \A x \in Rows : lock[x] = r => lock'[x] = r
  BY <1>1 DEF RowsOK
<1>5. UNCHANGED orders /\ \A p : OpenChecks(p)' = OpenChecks(p)
  BY <1>1 DEF db, OpenChecks, Children, Exists
<1>6. \A p \in Orders : Counted(r, p) => Counted(r, p)'
  BY <1>2, <1>3, <1>4, <1>5 DEF Counted
<1>7. SplitHeld(r)'
  <2>1. CASE req[r].pc = "settle_commit"
    <3>1. req[r].o \in Orders
      BY <1>2, <2>1 DEF Request, WithOrder, PCs
    <3>2. PICK p : p = orders[req[r].o].parent
      OBVIOUS
    <3>3. p \in Orders \cup {NoOrder}
      BY <3>1, <3>2 DEF RowsOK, OrderRow
    <3>4. QED
      BY <1>2, <1>3, <1>5, <1>6, <2>1, <3>2, <3>3 DEF SplitHeld
  <2>2. CASE req[r].pc # "settle_commit"
    BY <1>2, <1>3, <1>5, <2>2 DEF SplitHeld
  <2>3. QED
    BY <2>1, <2>2
<1>8. QED
  BY <1>1, <1>7, SplitRead, KeepsOthers

\* The bill of an open check is split and open.
LEMMA OpenCheckParent ==
    ASSUME RowsOK, DataInv, NEW c \in Orders, orders[c].status = "OPEN", orders[c].parent # NoOrder
    PROVE  /\ orders[c].parent \in Known /\ c \in Children(orders[c].parent)
           /\ orders[orders[c].parent].splitCount # 0 /\ orders[orders[c].parent].status = "OPEN"
<1>1. PICK p \in Orders : p = orders[c].parent
  BY DEF RowsOK, OrderRow
<1>2. Exists(c) /\ Exists(p)
  <2>1. Exists(c) /\ RowShape(c)
    BY DEF Exists, DataInv, ShapeOK
  <2>2. QED
    BY <1>1, <2>1 DEF RowShape
<1>3. c \in Children(p) /\ p \in Known
  BY <1>1, <1>2 DEF Children, Known
<1>4. ChecksAgree(p) /\ IsFiniteSet(Children(p))
  <2>1. Children(p) \in SUBSET Orders
    BY DEF Children
  <2>2. QED
    BY <1>3, <2>1, BillsAssumption, FS_Subset DEF DataInv, SplitAccounting
<1>5. Cardinality(Children(p)) # 0
  BY <1>3, <1>4, FS_EmptySet
<1>6. orders[p].splitCount # 0 /\ orders[p].status = "OPEN"
  BY <1>3, <1>4, <1>5 DEF ChecksAgree
<1>7. QED
  BY <1>1, <1>3, <1>6

\* What going on to the next wait leaves of a request.
LEMMA SplitGoto ==
    ASSUME RowsOK, OrderInv, SplitInv, NEW r \in Reqs, NEW pc, At(r, pc), NEW pc2, NEW want,
           Goto(r, pc2, want)
    PROVE  /\ req'[r].pc = pc2 /\ req'[r].o = req[r].o /\ req'[r].others = req[r].others
           /\ req'[r].last = req[r].last /\ UNCHANGED orders
           /\ SplitHeld(r)' => SplitInv'
<1>1. UNCHANGED db /\ OthersKept(r)
  BY KeepsOthers DEF Goto
<1>2. QED
  BY <1>1, OrderGoto, SplitRead

\* Looking for a bill, reading it again under its lock: a bill found on a
\* table is no check.
LEMMA SplitOpenReads ==
    ASSUME RowsOK, TableInv, OrderInv, SplitInv, NEW r \in Reqs,
           OpenCheck(r) \/ ScanFind(r) \/ ScanReread(r) \/ AddCheck(r) \/ UnsplitParent(r)
    PROVE  SplitInv'
<1>1. req[r] \in Request /\ SplitHeld(r) /\ TableReserved(r)
  BY DEF RowsOK, SplitInv, TableInv
<1>2. ASSUME NEW pc, At(r, pc), NEW pc2 \in {"open_commit", "unsplit_commit"}, NEW want, Goto(r, pc2, want)
      PROVE  SplitInv'
  <2>1. req'[r].pc = pc2 /\ (SplitHeld(r)' => SplitInv')
    BY <1>2, SplitGoto
  <2>2. QED
    BY <2>1 DEF SplitHeld
<1>3. ASSUME NEW pc, At(r, pc), Goto(r, "punch_commit", {Outlet}), orders[req[r].o].parent = NoOrder
      PROVE  SplitInv'
  <2>1. req'[r].pc = "punch_commit" /\ req'[r].o = req[r].o /\ UNCHANGED orders /\ (SplitHeld(r)' => SplitInv')
    BY <1>3, SplitGoto
  <2>2. QED
    BY <1>3, <2>1 DEF SplitHeld
<1>4. CASE OpenCheck(r)
  BY <1>2, <1>4, SplitAbort DEF OpenCheck
<1>5. CASE ScanFind(r)
  <2>1. ASSUME NEW o \in OpenOn(req[r].t), Hold(r), UNCHANGED db,
               req' = [req EXCEPT ![r].pc = "scan_reread", ![r].want = {o}, ![r].o = o]
        PROVE  SplitInv'
    <3>1. req'[r] = [req[r] EXCEPT !.pc = "scan_reread", !.want = {o}, !.o = o]
      BY <2>1 DEF RowsOK
    <3>2. req'[r].pc = "scan_reread" /\ req'[r].o = o
      BY <1>1, <3>1 DEF Request
    <3>3. At(r, "scan_find") /\ req[r].pc = "scan_find"
      BY <1>5 DEF ScanFind, At
    <3>4. OthersKept(r)
      BY <2>1, <3>3, KeepsOthers DEF RowsOK
    <3>5. o \in Orders /\ orders[o].status = "OPEN" /\ orders[o].table \in Tables
      BY <1>1, <3>3 DEF OpenOn, TableReserved
    <3>6. orders[o].parent = NoOrder
      <4>1. RowShape(o) /\ Exists(o)
        BY <3>5 DEF SplitInv, DataInv, ShapeOK, Exists
      <4>2. QED
        BY <3>5, <4>1, BillsAssumption DEF RowShape
    <3>7. SplitHeld(r)'
      BY <2>1, <3>2, <3>5, <3>6 DEF SplitHeld, db
    <3>8. QED
      BY <2>1, <3>4, <3>7, SplitRead
  <2>2. QED
    BY <1>2, <1>5, <2>1 DEF ScanFind
<1>6. CASE ScanReread(r)
  <2>1. At(r, "scan_reread") /\ req[r].pc = "scan_reread"
    BY <1>6 DEF ScanReread, At
  <2>2. orders[req[r].o].parent = NoOrder
    BY <1>1, <2>1 DEF SplitHeld
  <2>3. QED
    BY <1>2, <1>3, <1>6, <2>1, <2>2, SplitAbort DEF ScanReread
<1>7. CASE AddCheck(r)
  BY <1>3, <1>7, SplitAbort DEF AddCheck, Mergeable, NotSplit
<1>8. CASE UnsplitParent(r)
  <2>1. PICK w : w = {req[r].o}
    OBVIOUS
  <2>2. At(r, "unsplit_parent") /\ Goto(r, "unsplit_commit", w)
    BY <1>8, <2>1 DEF UnsplitParent
  <2>3. QED
    BY <1>2, <2>2
<1>9. QED
  BY <1>4, <1>5, <1>6, <1>7, <1>8

\* A settlement counts the open checks of its bill under the bill's lock.
LEMMA SplitSettleReads ==
    ASSUME RowsOK, OrderInv, SplitInv, NEW r \in Reqs, SettleCheck(r) \/ SettleParent(r) \/ SettleCount(r)
    PROVE  SplitInv'
<1>1. req[r] \in Request /\ SplitHeld(r) /\ OrderHeld(r)
  BY DEF RowsOK, SplitInv, OrderInv
<1>2. CASE SettleCheck(r)
  <2>1. At(r, "settle_check") /\ req[r].pc = "settle_check"
    BY <1>2 DEF SettleCheck, At
  <2>2. req[r].o \in Orders /\ ~req[r].last
    BY <1>1, <2>1 DEF Request, WithOrder, PCs, OrderHeld
  <2>3. CASE orders[req[r].o].parent = NoOrder /\ Goto(r, "settle_commit", {Outlet})
    <3>1. /\ req'[r].pc = "settle_commit" /\ req'[r].o = req[r].o /\ ~req'[r].last /\ UNCHANGED orders
          /\ SplitHeld(r)' => SplitInv'
      BY <2>1, <2>2, <2>3, SplitGoto
    <3>2. QED
      BY <2>3, <3>1 DEF SplitHeld
  <2>4. ASSUME orders[req[r].o].parent # NoOrder, Hold(r), UNCHANGED db,
               req' = [req EXCEPT ![r].pc = "settle_parent", ![r].want = {Outlet},
                                  ![r].others = {orders[req[r].o].parent}]
        PROVE  SplitInv'
    <3>1. PICK p \in Orders : p = orders[req[r].o].parent
      BY <2>2, <2>4 DEF RowsOK, OrderRow
    <3>2. req'[r] = [req[r] EXCEPT !.pc = "settle_parent", !.want = {Outlet}, !.others = {p}]
      BY <2>4, <3>1 DEF RowsOK
    <3>3. req'[r].pc = "settle_parent" /\ req'[r].o = req[r].o /\ req'[r].others = {p}
      BY <1>1, <3>2 DEF Request
    <3>4. OthersKept(r) /\ UNCHANGED orders
      BY <2>1, <2>4, KeepsOthers DEF RowsOK, db
    <3>5. SplitHeld(r)'
      BY <2>4, <3>1, <3>3, <3>4 DEF SplitHeld
    <3>6. QED
      BY <2>4, <3>4, <3>5, SplitRead
  <2>5. QED
    BY <1>2, <2>3, <2>4, SplitAbort DEF SettleCheck
<1>3. CASE SettleParent(r)
  <2>1. At(r, "settle_parent") /\ req[r].pc = "settle_parent" /\ Goto(r, "settle_count", req[r].others)
    BY <1>3 DEF SettleParent, At
  <2>2. PICK w : w = req[r].others
    OBVIOUS
  <2>3. /\ req'[r].pc = "settle_count" /\ req'[r].o = req[r].o /\ req'[r].others = req[r].others
        /\ UNCHANGED orders /\ (SplitHeld(r)' => SplitInv')
    BY <2>1, <2>2, SplitGoto
  <2>4. QED
    BY <1>1, <2>1, <2>3 DEF SplitHeld
<1>4. CASE SettleCount(r)
  <2>1. At(r, "settle_count") /\ req[r].pc = "settle_count" /\ Hold(r) /\ UNCHANGED db
    BY <1>4 DEF SettleCount, CountChecks, At
  <2>2. PICK o \in Orders : o = req[r].o /\ orders[o].status = "OPEN"
    BY <1>1, <2>1 DEF Request, WithOrder, PCs, OrderHeld, BillHeld
  <2>3. orders[o].parent # NoOrder /\ req[r].others = {orders[o].parent}
    BY <1>1, <2>1, <2>2 DEF SplitHeld
  <2>4. PICK p \in Orders : p = orders[o].parent
    BY <2>2, <2>3 DEF RowsOK, OrderRow
  <2>5. Got(r, p) /\ Other(r) = p
    BY <1>1, <2>1, <2>3, <2>4 DEF OrderHeld, ParentGot, Other
  <2>6. orders[p].status = "OPEN"
    BY <2>2, <2>3, <2>4, OpenCheckParent DEF SplitInv
  <2>7. PICK last \in BOOLEAN :
           /\ req' = [req EXCEPT ![r].pc = "settle_commit", ![r].want = {}, ![r].last = last]
           /\ last <=> OpenChecks(Other(r)) \ {req[r].o} = {} /\ orders[Other(r)].status = "OPEN"
    BY <1>4 DEF SettleCount, CountChecks
  <2>8. last <=> OpenChecks(p) \subseteq {o}
    BY <2>2, <2>5, <2>6, <2>7
  <2>9. req'[r] = [req[r] EXCEPT !.pc = "settle_commit", !.want = {}, !.last = last]
    BY <2>7 DEF RowsOK
  <2>10. req'[r].pc = "settle_commit" /\ req'[r].o = o /\ req'[r].others = {p} /\ req'[r].last = last
    BY <1>1, <2>2, <2>3, <2>4, <2>9 DEF Request
  <2>11. lock'[p] = r
    BY <2>1, <2>5 DEF Hold, Got, Rows
  <2>12. UNCHANGED orders /\ OpenChecks(p)' = OpenChecks(p)
    BY <2>1 DEF db, OpenChecks, Children, Exists
  <2>13. Counted(r, p)'
    BY <2>8, <2>10, <2>11, <2>12 DEF Counted
  <2>14. SplitHeld(r)'
    BY <2>4, <2>10, <2>12, <2>13, BillsAssumption DEF SplitHeld
  <2>15. OthersKept(r)
    BY <2>1, <2>7, KeepsOthers DEF RowsOK
  <2>16. QED
    BY <2>1, <2>14, <2>15, SplitRead
<1>5. QED
  BY <1>2, <1>3, <1>4

\* The bill a transfer finds on its target table is another than its source.
LEMMA SplitTransferFind ==
    ASSUME RowsOK, OrderInv, SplitInv, NEW r \in Reqs, TransferFind(r)
    PROVE  SplitInv'
<1>1. req[r] \in Request /\ SplitHeld(r) /\ OrderHeld(r)
  BY DEF RowsOK, SplitInv, OrderInv
<1>2. At(r, "transfer_find") /\ req[r].pc = "transfer_find"
  BY DEF TransferFind, At
<1>3. PICK x \in Orders : req[r].others = {x} /\ req[r].o = NoOrder
  BY <1>1, <1>2 DEF OrderHeld, ParentGot
<1>4. Other(r) = x /\ req[r].from # req[r].t
  BY <1>1, <1>2, <1>3 DEF Other, SplitHeld
<1>5. CASE Goto(r, "transfer_commit", {})
  <2>1. /\ req'[r].pc = "transfer_commit" /\ req'[r].o = NoOrder /\ req'[r].others = {x}
        /\ SplitHeld(r)' => SplitInv'
    BY <1>2, <1>3, <1>5, SplitGoto
  <2>2. QED
    BY <2>1, BillsAssumption DEF SplitHeld
<1>6. ASSUME NEW o \in OpenOn(req[r].t), orders[x].table = req[r].from, Hold(r), UNCHANGED db,
             req' = [req EXCEPT ![r].pc = "transfer_commit", ![r].want = {o}, ![r].o = o]
      PROVE  SplitInv'
  <2>1. o # x
    BY <1>4, <1>6 DEF OpenOn
  <2>2. req'[r] = [req[r] EXCEPT !.pc = "transfer_commit", !.want = {o}, !.o = o]
    BY <1>6 DEF RowsOK
  <2>3. req'[r].pc = "transfer_commit" /\ req'[r].o = o /\ req'[r].others = {x}
    BY <1>1, <1>3, <2>2 DEF Request
  <2>4. OthersKept(r)
    BY <1>2, <1>6, KeepsOthers DEF RowsOK
  <2>5. SplitHeld(r)'
    BY <2>1, <2>3 DEF SplitHeld
  <2>6. QED
    BY <1>6, <2>4, <2>5, SplitRead
<1>7. QED
  BY <1>4, <1>5, <1>6, SplitAbort DEF TransferFind

\* the units of KOT k, order by order
Col(rows, k) == [x \in Orders |-> rows[x][k]]

\* The units on a set of orders are a sum.
LEMMA UnitsTotal ==
    ASSUME NEW rows, NEW S \in SUBSET Orders, NEW k
    PROVE  IsFiniteSet(S) /\ UnitsOn(rows, S, k) = Total(S, Col(rows, k))
<1>1. IsFiniteSet(S)
  BY BillsAssumption, FS_Subset
<1>2. PICK h : h = [x \in S |-> rows[x][k]]
  OBVIOUS
<1>3. UnitsOn(rows, S, k) = Total(S, h)
  <2>1. UnitsOn(rows, S, k) = ColumnSum(rows, S, k)
    BY DEF UnitsOn, ColumnSum, MapThenSumSet, MapThenFoldSet
  <2>2. QED
    BY <1>1, <1>2, <2>1, ColumnTotal
<1>4. \A x \in S : h[x] = Col(rows, k)[x]
  BY <1>2 DEF Col
<1>5. Total(S, h) = Total(S, Col(rows, k))
  <2>1. PICK c : c = Col(rows, k)
    OBVIOUS
  <2>2. Total(S, h) = Total(S, c)
    BY <1>1, <1>4, <2>1, TotalSame
  <2>3. QED
    BY <2>1, <2>2
<1>6. QED
  BY <1>1, <1>2, <1>3, <1>5

\* Rows that agree on a set of orders have as many units on it.
LEMMA UnitsSame ==
    ASSUME NEW rows, NEW rows2, NEW S \in SUBSET Orders, NEW k, \A x \in S : rows[x][k] = rows2[x][k]
    PROVE  UnitsOn(rows, S, k) = UnitsOn(rows2, S, k)
<1>1. PICK c1 : c1 = Col(rows, k)
  OBVIOUS
<1>2. PICK c2 : c2 = Col(rows2, k)
  OBVIOUS
<1>3. \A x \in S : c1[x] = c2[x]
  BY <1>1, <1>2 DEF Col
<1>4. IsFiniteSet(S) /\ UnitsOn(rows, S, k) = Total(S, c1) /\ UnitsOn(rows2, S, k) = Total(S, c2)
  BY <1>1, <1>2, UnitsTotal
<1>5. Total(S, c1) = Total(S, c2)
  BY <1>3, <1>4, TotalSame
<1>6. QED
  BY <1>4, <1>5

\* A row is left alone, or is a plain bill (or a new one) before and after.
PlainRow(x) ==
    \/ orders'[x] = orders[x] /\ lines'[x] = lines[x]
    \/ (Mergeable(x) \/ orders[x].status = "NONE") /\ NotSplit(x)' /\ Exists(x)'

\* Steps of this kind touch no split bill and no check.
LEMMA PlainStep ==
    ASSUME RowsOK, DataInv, RowsOK', \A x \in Orders : PlainRow(x)
    PROVE  ShapeOK' /\ SplitAccounting' /\ \A r : ChecksKept(r)
<1>1. NoOrder \notin Orders
  BY BillsAssumption
<1>2. ASSUME NEW c \in Orders, Exists(c), orders[c].parent # NoOrder
      PROVE  orders'[c] = orders[c] /\ lines'[c] = lines[c]
  BY <1>2 DEF PlainRow, Mergeable, NotSplit, Exists
<1>3. ASSUME NEW c \in Orders, orders'[c].parent # NoOrder
      PROVE  orders'[c] = orders[c] /\ lines'[c] = lines[c]
  BY <1>3 DEF PlainRow, NotSplit
<1>4. ASSUME NEW p \in Orders, orders[p].splitCount # 0 \/ orders'[p].splitCount # 0
      PROVE  orders'[p] = orders[p] /\ lines'[p] = lines[p]
  <2>1. orders[p].status = "NONE" => orders[p].splitCount = 0
    BY DEF DataInv, ShapeOK, RowShape, Exists, NotSplit
  <2>2. QED
    BY <1>4, <2>1 DEF PlainRow, NotSplit, Mergeable
<1>5. ASSUME NEW p \in Orders PROVE Children(p)' = Children(p) /\ OpenChecks(p)' = OpenChecks(p)
  <2>1. \A c \in Orders : c \in Children(p) => orders'[c] = orders[c]
    BY <1>1, <1>2, <1>5 DEF Children
  <2>2. \A c \in Orders : c \in Children(p)' => orders'[c] = orders[c]
    BY <1>1, <1>3, <1>5 DEF Children
  <2>3. Children(p)' = Children(p)
    BY <2>1, <2>2 DEF Children, Exists
  <2>4. Children(p) \subseteq Orders
    BY DEF Children
  <2>5. QED
    BY <2>1, <2>3, <2>4 DEF OpenChecks
<1>6. ASSUME NEW o \in Orders, Exists(o) PROVE Exists(o)'
  BY <1>6 DEF PlainRow, Exists
<1>7. ShapeOK'
  <2>1. ASSUME NEW o \in Orders PROVE RowShape(o)'
    <3>1. RowShape(o)
      BY DEF DataInv, ShapeOK
    <3>2. CASE orders'[o] = orders[o] /\ lines'[o] = lines[o]
      <4>1. Exists(o)' = Exists(o) /\ NotSplit(o)' = NotSplit(o)
        BY <3>2 DEF Exists, NotSplit
      <4>2. PICK q \in Orders \cup {NoOrder} : q = orders[o].parent
        BY DEF RowsOK, OrderRow
      <4>3. q # NoOrder /\ Exists(q) => Exists(q)'
        BY <1>6
      <4>4. QED
        BY <3>1, <3>2, <4>1, <4>2, <4>3 DEF RowShape
    <3>3. CASE NotSplit(o)' /\ Exists(o)'
      BY <3>3 DEF RowShape, NotSplit
    <3>4. QED
      BY <3>2, <3>3 DEF PlainRow
  <2>2. QED
    BY <2>1 DEF ShapeOK
<1>8. SplitAccounting'
  <2>1. ASSUME NEW p \in Known' PROVE ChecksAgree(p)' /\ SharesExact(p)'
    <3>1. p \in Orders /\ Children(p)' = Children(p) /\ Children(p) \in SUBSET Orders
      BY <1>5 DEF Known, Children
    <3>2. CASE orders'[p].splitCount # 0
      <4>1. orders'[p] = orders[p] /\ lines'[p] = lines[p] /\ p \in Known
        BY <1>4, <2>1, <3>1, <3>2 DEF Known, Exists
      <4>2. ChecksAgree(p) /\ SharesExact(p)
        BY <4>1 DEF DataInv, SplitAccounting
      <4>3. \A c \in Children(p) : orders'[c] = orders[c] /\ lines'[c] = lines[c]
        BY <1>1, <1>2, <3>1 DEF Children
      <4>4. ChecksAgree(p)'
        BY <3>1, <4>1, <4>2, <4>3 DEF ChecksAgree
      <4>5. ASSUME NEW k \in Kots PROVE UnitsOn(lines', Children(p), k) = UnitsOn(lines, Children(p), k)
        <5>1. PICK S \in SUBSET Orders : S = Children(p)
          BY <3>1
        <5>2. PICK l2 : l2 = lines'
          OBVIOUS
        <5>3. \A x \in S : l2[x][k] = lines[x][k]
          BY <4>3, <5>1, <5>2
        <5>4. UnitsOn(l2, S, k) = UnitsOn(lines, S, k)
          BY <5>3, UnitsSame
        <5>5. QED
          BY <5>1, <5>2, <5>4
      <4>6. SharesExact(p)'
        BY <3>1, <3>2, <4>1, <4>2, <4>5 DEF SharesExact
      <4>7. QED
        BY <4>4, <4>6
    <3>3. CASE orders'[p].splitCount = 0
      <4>1. Cardinality(Children(p)) = 0
        <5>1. CASE p \in Known
          <6>1. orders[p].splitCount = 0 /\ ChecksAgree(p)
            BY <1>4, <3>1, <3>3, <5>1 DEF DataInv, SplitAccounting
          <6>2. QED
            BY <6>1 DEF ChecksAgree
        <5>2. CASE p \notin Known
          <6>1. \A c \in Children(p) : RowShape(c)
            BY <3>1 DEF DataInv, ShapeOK
          <6>2. Children(p) = {}
            BY <1>1, <3>1, <5>2, <6>1 DEF Children, RowShape, Known
          <6>3. QED
            BY <6>2, FS_EmptySet
        <5>3. QED
          BY <5>1, <5>2
      <4>2. QED
        BY <3>1, <3>3, <4>1 DEF ChecksAgree, SharesExact
    <3>4. QED
      BY <3>2, <3>3
  <2>2. QED
    BY <2>1 DEF SplitAccounting
<1>9. QED
  BY <1>5, <1>7, <1>8 DEF ChecksKept

\* A commit that keeps the database keeps the invariant.
LEMMA SplitEnd ==
    ASSUME RowsOK, OrderInv, SplitInv, NEW r \in Reqs, Finish(r), RowsKept(r), ChecksKept(r), DataInv'
    PROVE  SplitInv'
BY IdleKnowsNothing, SplitStep

\* The quantities a selection or a share may have are natural numbers.
LEMMA UnitsBound == \A k \in Kots : Max(Range(Units)) \in Nat
<1> SUFFICES ASSUME NEW k \in Kots PROVE Max(Range(Units)) \in Nat
  OBVIOUS
<1>1. Units \in [Kots -> Nat \ {0}] /\ MaxKot \in Nat
  BY BillsAssumption
<1>2. PICK R : R = Range(Units)
  OBVIOUS
<1>3. R \subseteq Nat /\ Units[k] \in R
  BY <1>1, <1>2 DEF Range
<1>4. IsFiniteSet(Kots)
  BY <1>1, FS_Interval DEF Kots
<1>5. Units \in Surjection(Kots, R)
  BY <1>1, <1>2 DEF Range, Surjection
<1>6. IsFiniteSet(R)
  BY <1>4, <1>5, FS_Surjection
<1>7. R \in SUBSET Int /\ R # {}
  BY <1>3
<1>8. Max(R) \in R
  BY <1>6, <1>7, GreatestOf
<1>9. QED
  BY <1>2, <1>3, <1>8

\* The quantities on the orders are natural numbers.
LEMMA ColType ==
    ASSUME LinesOK, NEW k \in Kots
    PROVE  \A x \in Orders : Col(lines, k)[x] = lines[x][k] /\ lines[x][k] \in Nat
BY DEF LinesOK, Col

\* Every unit punched is billed, in terms of sums.
LEMMA BilledTotal ==
    ASSUME EveryUnitBilledOnce, NEW k \in Kots
    PROVE  /\ Billed \in SUBSET Orders /\ IsFiniteSet(Billed)
           /\ Total(Billed, Col(lines, k)) = punched[k]
<1>1. Billed \in SUBSET Orders
  BY DEF Billed, Known
<1>2. QED
  BY <1>1, UnitsTotal DEF EveryUnitBilledOnce

\* And the other way round, after a step.
LEMMA TotalBilled ==
    ASSUME \A k \in Kots : Total(Billed', Col(lines', k)) = punched'[k]
    PROVE  EveryUnitBilledOnce'
<1>1. Billed' \in SUBSET Orders
  BY DEF Billed, Known
<1>2. ASSUME NEW k \in Kots PROVE UnitsOn(lines', Billed', k) = punched'[k]
  <2>1. PICK S \in SUBSET Orders : S = Billed'
    BY <1>1
  <2>2. PICK l : l = lines'
    OBVIOUS
  <2>3. UnitsOn(l, S, k) = Total(S, Col(l, k))
    BY UnitsTotal
  <2>4. QED
    BY <2>1, <2>2, <2>3
<1>3. QED
  BY <1>2 DEF EveryUnitBilledOnce

\* A punch puts the units of the next KOT on one bill.
LEMMA PunchData ==
    ASSUME RowsOK, DataInv, RowsOK', NEW o \in Orders, nextKot <= MaxKot, Punch(o),
           \A x \in Orders : PlainRow(x), Billed' = Billed \cup {o},
           o \notin Billed => lines[o] = NoLines
    PROVE  DataInv' /\ \A r : ChecksKept(r)
<1>1. PICK n \in Kots : n = nextKot
  <2>1. nextKot \in Nat /\ nextKot # 0 /\ MaxKot \in Nat
    BY BillsAssumption DEF RowsOK, DataInv, KotsAhead
  <2>2. QED
    BY <2>1 DEF Kots
<1>2. PICK u \in Nat : u = Units[n]
  BY BillsAssumption
<1>3. /\ lines' = [lines EXCEPT ![o] = [lines[o] EXCEPT ![n] = u]]
      /\ punched' = [punched EXCEPT ![n] = u] /\ kotOrder' = [kotOrder EXCEPT ![n] = o]
      /\ nextKot' = nextKot + 1
  BY <1>1, <1>2 DEF Punch
<1>4. LinesOK
  BY DEF DataInv
<1>5. LinesOK'
  BY <1>3, <1>4 DEF LinesOK
<1>6. KotsAhead'
  <2>1. \A k \in Kots : k \in Nat
    BY DEF Kots
  <2>2. nextKot' # 0 /\ \A k \in Kots : k >= nextKot' => k # n /\ k >= nextKot
    BY <1>1, <1>3, <2>1 DEF RowsOK
  <2>3. \A k \in Kots : k # n => punched'[k] = punched[k]
    BY <1>3, <1>4 DEF LinesOK
  <2>4. QED
    BY <2>2, <2>3 DEF DataInv, KotsAhead
<1>7. ASSUME NEW k \in Kots PROVE Total(Billed', Col(lines', k)) = punched'[k]
  <2>1. PICK B \in SUBSET Orders : B = Billed /\ IsFiniteSet(B) /\ Total(B, Col(lines, k)) = punched[k]
    BY BilledTotal DEF DataInv
  <2>2. PICK c : c = Col(lines, k)
    OBVIOUS
  <2>3. PICK d : d = Col(lines', k)
    OBVIOUS
  <2>4. \A x \in Orders : c[x] = lines[x][k] /\ c[x] \in Nat /\ c[x] \in Int
    BY <1>4, <2>2, ColType
  <2>5. \A x \in Orders : d[x] = IF x = o /\ k = n THEN u ELSE c[x]
    BY <1>3, <1>4, <2>3, <2>4 DEF Col, LinesOK
  <2>6. PICK E \in SUBSET Orders : E = B \cup {o} /\ E = Billed' /\ o \in E
    BY <2>1
  <2>7. IsFiniteSet(E)
    BY <2>1, <2>6, FS_AddElement
  <2>8. Total(E, c) = punched[k]
    <3>1. CASE o \in B
      <4>1. E = B
        BY <2>6, <3>1
      <4>2. QED
        BY <2>1, <2>2, <4>1
    <3>2. CASE o \notin B
      <4>1. c[o] = 0
        BY <2>1, <2>4, <3>2 DEF NoLines
      <4>2. \A x \in B \cup {o} : c[x] \in Int
        BY <2>4
      <4>3. Total(B \cup {o}, c) = c[o] + Total(B, c)
        BY <2>1, <3>2, <4>2, TotalInsert
      <4>4. punched[k] \in Nat
        BY <1>4 DEF LinesOK
      <4>5. QED
        BY <2>1, <2>2, <2>6, <4>1, <4>3, <4>4
    <3>3. QED
      BY <3>1, <3>2
  <2>9. CASE k # n
    <3>1. \A x \in E : c[x] = d[x]
      BY <2>5, <2>9
    <3>2. Total(E, c) = Total(E, d)
      BY <2>7, <3>1, TotalSame
    <3>3. punched'[k] = punched[k]
      BY <1>3, <1>4, <2>9 DEF LinesOK
    <3>4. QED
      BY <2>3, <2>6, <2>8, <3>2, <3>3
  <2>10. CASE k = n
    <3>1. punched[k] = 0 /\ punched'[k] = u
      <4>1. k >= nextKot
        BY <1>1, <2>10 DEF RowsOK
      <4>2. QED
        BY <1>3, <1>4, <2>10, <4>1 DEF LinesOK, DataInv, KotsAhead
    <3>2. PICK R \in SUBSET E : R = E \ {o}
      OBVIOUS
    <3>3. Total(E, c) = c[o] + Total(R, c)
      BY <2>4, <2>6, <2>7, <3>2, TotalRemove
    <3>4. Total(R, c) \in Nat /\ c[o] \in Nat
      <4>1. IsFiniteSet(R) /\ \A x \in R : c[x] \in Nat
        BY <2>4, <2>7, FS_Subset
      <4>2. QED
        BY <2>4, <4>1, TotalType
    <3>5. c[o] = 0
      BY <2>8, <3>1, <3>3, <3>4
    <3>6. Total(E, d) = (Total(E, c) - c[o]) + d[o]
      <4>1. \A x \in E : c[x] \in Int /\ d[x] \in Int
        BY <1>2, <2>4, <2>5
      <4>2. \A x \in E \ {o} : c[x] = d[x]
        BY <2>5
      <4>3. QED
        BY <2>6, <2>7, <4>1, <4>2, TotalChange
    <3>7. d[o] = u
      BY <2>5, <2>10
    <3>8. Total(E, d) = u
      BY <1>2, <2>8, <3>1, <3>5, <3>6, <3>7
    <3>9. QED
      BY <2>3, <2>6, <3>1, <3>8
  <2>11. QED
    BY <2>9, <2>10
<1>8. EveryUnitBilledOnce'
  BY <1>7, TotalBilled
<1>9. ShapeOK' /\ SplitAccounting' /\ \A r : ChecksKept(r)
  BY PlainStep
<1>10. QED
  BY <1>5, <1>6, <1>8, <1>9 DEF DataInv

\* Steps that leave lines, KOTs and the set of billed orders alone.
LEMMA SameData ==
    ASSUME RowsOK, DataInv, RowsOK', UNCHANGED <<lines, kotOrder, nextKot, punched>>,
           Billed' = Billed
    PROVE  LinesOK' /\ EveryUnitBilledOnce' /\ KotsAhead'
BY DEF DataInv, LinesOK, EveryUnitBilledOnce, KotsAhead

\* A merge or a whole transfer carries every unit of its sources to the target.
LEMMA MoveAllData ==
    ASSUME RowsOK, DataInv, RowsOK', NEW srcs \in SUBSET Orders, NEW tgt \in Orders, tgt \notin srcs,
           MoveAll(srcs, tgt), \A x \in srcs \cup {tgt} : Mergeable(x)
    PROVE  DataInv' /\ \A r : ChecksKept(r)
<1>1. LinesOK
  BY DEF DataInv
<1>2. PICK A \in SUBSET Orders : A = srcs \cup {tgt}
  OBVIOUS
<1>3. \A x \in Orders : orders'[x] = IF x \in srcs THEN [orders[x] EXCEPT !.status = "MERGED"] ELSE orders[x]
  BY DEF MoveAll
<1>4. \A x \in srcs : /\ orders'[x].status = "MERGED" /\ orders'[x].parent = orders[x].parent
                      /\ orders'[x].splitCount = orders[x].splitCount
  BY <1>3 DEF RowsOK, OrderRow
<1>5. \A x \in Orders, k \in Kots :
         lines'[x][k] = IF x = tgt THEN UnitsOn(lines, A, k) ELSE IF x \in srcs THEN 0 ELSE lines[x][k]
  BY <1>2 DEF MoveAll
<1>6. /\ lines' = [x \in Orders |-> [k \in Kots |-> lines'[x][k]]]
      /\ kotOrder' = [k \in Kots |-> IF kotOrder[k] \in srcs THEN tgt ELSE kotOrder[k]]
      /\ UNCHANGED <<nextKot, punched>>
  BY DEF MoveAll
<1>7. \A k \in Kots : /\ IsFiniteSet(A) /\ UnitsOn(lines, A, k) = Total(A, Col(lines, k))
                      /\ UnitsOn(lines, A, k) \in Nat
  <2>1. ASSUME NEW k \in Kots PROVE /\ IsFiniteSet(A) /\ UnitsOn(lines, A, k) = Total(A, Col(lines, k))
                                    /\ UnitsOn(lines, A, k) \in Nat
    <3>1. IsFiniteSet(A) /\ UnitsOn(lines, A, k) = Total(A, Col(lines, k))
      BY UnitsTotal
    <3>2. PICK c : c = Col(lines, k)
      OBVIOUS
    <3>3. \A x \in A : c[x] \in Nat
      BY <1>1, <3>2, ColType
    <3>4. Total(A, c) \in Nat
      BY <3>1, <3>3, TotalType
    <3>5. QED
      BY <3>1, <3>2, <3>4
  <2>2. QED
    BY <2>1
<1>8. LinesOK'
  <2>1. \A x \in Orders, k \in Kots : lines'[x][k] \in Nat
    BY <1>1, <1>5, <1>7 DEF LinesOK
  <2>2. lines' \in [Orders -> [Kots -> Nat]]
    BY <1>6, <2>1
  <2>3. kotOrder' \in [Kots -> Orders \cup {NoOrder}] /\ punched' \in [Kots -> Nat]
    BY <1>1, <1>6 DEF LinesOK
  <2>4. QED
    BY <2>2, <2>3 DEF LinesOK
<1>9. Billed' = Billed \ srcs /\ A \subseteq Billed
  <2>1. A \subseteq Billed
    BY <1>2 DEF Billed, Known, Exists, Mergeable, NotSplit
  <2>2. Billed' = Billed \ srcs
    BY <1>3, <1>4 DEF Billed, Known, Exists
  <2>3. QED
    BY <2>1, <2>2
<1>10. ASSUME NEW k \in Kots PROVE Total(Billed', Col(lines', k)) = punched'[k]
  <2>1. PICK B \in SUBSET Orders : B = Billed /\ IsFiniteSet(B) /\ Total(B, Col(lines, k)) = punched[k]
    BY BilledTotal DEF DataInv
  <2>2. PICK c : c = Col(lines, k)
    OBVIOUS
  <2>3. PICK d : d = Col(lines', k)
    OBVIOUS
  <2>4. \A x \in Orders : c[x] = lines[x][k] /\ c[x] \in Nat /\ c[x] \in Int
    BY <1>1, <2>2, ColType
  <2>5. \A x \in Orders : d[x] = IF x = tgt THEN Total(A, c) ELSE IF x \in srcs THEN 0 ELSE c[x]
    BY <1>5, <1>7, <2>2, <2>3, <2>4 DEF Col
  <2>6. PICK R \in SUBSET Orders : R = B \ A
    OBVIOUS
  <2>7. PICK E \in SUBSET Orders : E = B \ srcs /\ tgt \in E /\ E \ {tgt} = R /\ E = Billed'
    BY <1>2, <1>9, <2>1, <2>6
  <2>8. IsFiniteSet(R) /\ IsFiniteSet(E) /\ Total(A, c) \in Nat
    BY <1>7, <2>2, BillsAssumption, FS_Subset
  <2>9. Total(B, c) = Total(A, c) + Total(R, c)
    <3>1. A \in SUBSET B
      BY <1>9, <2>1
    <3>2. QED
      BY <2>1, <2>4, <2>6, <3>1, TotalSplit
  <2>10. Total(E, d) = d[tgt] + Total(R, d)
    <3>1. \A x \in E : d[x] \in Int
      BY <2>4, <2>5, <2>8
    <3>2. QED
      BY <2>7, <2>8, <3>1, TotalRemove
  <2>11. Total(R, d) = Total(R, c)
    <3>1. \A x \in R : d[x] = c[x]
      BY <1>2, <2>5, <2>6
    <3>2. QED
      BY <2>8, <3>1, TotalSame
  <2>12. d[tgt] = Total(A, c)
    BY <2>5
  <2>13. QED
    BY <1>6, <2>1, <2>2, <2>3, <2>7, <2>9, <2>10, <2>11, <2>12
<1>11. EveryUnitBilledOnce' /\ KotsAhead'
  BY <1>6, <1>10, TotalBilled DEF DataInv, KotsAhead
<1>12. \A x \in Orders : PlainRow(x)
  <2>1. ASSUME NEW x \in srcs PROVE PlainRow(x)
    BY <1>4 DEF PlainRow, Mergeable, NotSplit, Exists
  <2>2. PlainRow(tgt)
    BY <1>3 DEF PlainRow, Mergeable, NotSplit, Exists
  <2>3. ASSUME NEW x \in Orders \ A PROVE PlainRow(x)
    <3>1. orders'[x] = orders[x]
      BY <1>2, <1>3
    <3>2. lines'[x] = [k \in Kots |-> lines[x][k]]
      BY <1>2, <1>5, <1>6
    <3>3. lines[x] = [k \in Kots |-> lines[x][k]]
      BY <1>1 DEF LinesOK
    <3>4. QED
      BY <3>1, <3>2, <3>3 DEF PlainRow
  <2>4. QED
    BY <1>2, <2>1, <2>2, <2>3
<1>13. ShapeOK' /\ SplitAccounting' /\ \A r : ChecksKept(r)
  BY <1>12, PlainStep
<1>14. QED
  BY <1>8, <1>11, <1>13 DEF DataInv

\* A part transfer takes from the source exactly what the target gets.
LEMMA MoveLinesData ==
    ASSUME RowsOK, DataInv, RowsOK', NEW src \in Orders, NEW to \in Orders, src # to, Mergeable(src),
           NEW m \in Selections(src), MoveLines(src, to, m),
           \/ UNCHANGED orders /\ Mergeable(to)
           \/ /\ orders[to].status = "NONE" /\ Mergeable(to)'
              /\ \A x \in Orders \ {to} : orders'[x] = orders[x]
    PROVE  DataInv' /\ \A r : ChecksKept(r)
<1>1. LinesOK
  BY DEF DataInv
<1>2. \A k \in Kots : m[k] \in Nat /\ m[k] <= lines[src][k]
  BY UnitsBound DEF Selections
<1>3. \A x \in Orders, k \in Kots :
         lines'[x][k] = IF x = src THEN lines[src][k] - m[k]
                        ELSE IF x = to THEN lines[to][k] + m[k] ELSE lines[x][k]
  BY DEF MoveLines
<1>4. /\ lines' = [x \in Orders |-> [k \in Kots |-> lines'[x][k]]]
      /\ kotOrder' = [k \in Kots |-> IF m[k] > 0 /\ m[k] = lines[src][k] THEN to ELSE kotOrder[k]]
      /\ UNCHANGED <<nextKot, punched>>
  BY DEF MoveLines
<1>5. \A x \in Orders, k \in Kots : lines[x][k] \in Nat
  BY <1>1 DEF LinesOK
<1>6. LinesOK'
  <2>1. \A x \in Orders, k \in Kots : lines'[x][k] \in Nat
    BY <1>2, <1>3, <1>5
  <2>2. lines' \in [Orders -> [Kots -> Nat]]
    BY <1>4, <2>1
  <2>3. kotOrder' \in [Kots -> Orders \cup {NoOrder}] /\ punched' \in [Kots -> Nat]
    BY <1>1, <1>4 DEF LinesOK
  <2>4. QED
    BY <2>2, <2>3 DEF LinesOK
<1>7. /\ Billed' = Billed \cup {to} /\ src \in Billed
      /\ to \notin Billed => lines[to] = NoLines
  <2>1. src \in Billed
    BY DEF Billed, Known, Exists, Mergeable, NotSplit
  <2>2. CASE UNCHANGED orders /\ Mergeable(to)
    BY <2>1, <2>2 DEF Billed, Known, Exists, Mergeable, NotSplit
  <2>3. CASE /\ orders[to].status = "NONE" /\ Mergeable(to)'
             /\ \A x \in Orders \ {to} : orders'[x] = orders[x]
    <3>1. lines[to] = NoLines
      BY <2>3 DEF DataInv, ShapeOK, RowShape, Exists
    <3>2. to \in Billed'
      BY <2>3 DEF Billed, Known, Exists, Mergeable, NotSplit
    <3>3. \A x \in Orders \ {to} : x \in Billed' <=> x \in Billed
      BY <2>3 DEF Billed, Known, Exists
    <3>4. Billed' \subseteq Orders /\ Billed \subseteq Orders
      BY DEF Billed, Known
    <3>5. Billed' = Billed \cup {to}
      BY <3>2, <3>3, <3>4
    <3>6. QED
      BY <2>1, <3>1, <3>5
  <2>4. QED
    BY <2>2, <2>3
<1>8. ASSUME NEW k \in Kots PROVE Total(Billed', Col(lines', k)) = punched'[k]
  <2>1. PICK B \in SUBSET Orders : B = Billed /\ IsFiniteSet(B) /\ Total(B, Col(lines, k)) = punched[k]
    BY BilledTotal DEF DataInv
  <2>2. PICK c : c = Col(lines, k)
    OBVIOUS
  <2>3. PICK d : d = Col(lines', k)
    OBVIOUS
  <2>4. \A x \in Orders : c[x] = lines[x][k] /\ c[x] \in Int
    BY <1>1, <2>2, ColType
  <2>5. \A x \in Orders : /\ d[x] = IF x = src THEN c[src] - m[k] ELSE IF x = to THEN c[to] + m[k] ELSE c[x]
                          /\ d[x] \in Int
    BY <1>2, <1>3, <2>3, <2>4 DEF Col
  <2>6. PICK e : e = [x \in Orders |-> IF x = src THEN c[src] - m[k] ELSE c[x]]
    OBVIOUS
  <2>7. \A x \in Orders : e[x] = IF x = src THEN c[src] - m[k] ELSE c[x]
    BY <2>6
  <2>8. \A x \in Orders : e[x] \in Int
    BY <1>2, <2>4, <2>7
  <2>9. PICK E \in SUBSET Orders : E = B \cup {to} /\ E = Billed' /\ to \in E /\ src \in E
    BY <1>7, <2>1
  <2>10. IsFiniteSet(E)
    BY <2>1, <2>9, FS_AddElement
  <2>11. Total(E, c) = punched[k] /\ punched[k] \in Nat
    <3>1. punched[k] \in Nat
      BY <1>1 DEF LinesOK
    <3>2. CASE to \in B
      <4>1. E = B
        BY <2>9, <3>2
      <4>2. QED
        BY <2>1, <2>2, <3>1, <4>1
    <3>3. CASE to \notin B
      <4>1. c[to] = 0
        BY <1>7, <2>1, <2>4, <3>3 DEF NoLines
      <4>2. \A x \in B \cup {to} : c[x] \in Int
        BY <2>4
      <4>3. Total(B \cup {to}, c) = c[to] + Total(B, c)
        BY <2>1, <3>3, <4>2, TotalInsert
      <4>4. QED
        BY <2>1, <2>2, <2>9, <3>1, <4>1, <4>3
    <3>4. QED
      BY <3>2, <3>3
  <2>12. Total(E, e) = (Total(E, c) - c[src]) + e[src]
    <3>1. \A x \in E : c[x] \in Int /\ e[x] \in Int
      BY <2>4, <2>8
    <3>2. \A x \in E \ {src} : c[x] = e[x]
      BY <2>7
    <3>3. QED
      BY <2>9, <2>10, <3>1, <3>2, TotalChange
  <2>13. Total(E, d) = (Total(E, e) - e[to]) + d[to]
    <3>1. \A x \in E : e[x] \in Int /\ d[x] \in Int
      BY <2>5, <2>8
    <3>2. \A x \in E \ {to} : e[x] = d[x]
      BY <2>5, <2>7
    <3>3. QED
      BY <2>9, <2>10, <3>1, <3>2, TotalChange
  <2>14. e[src] = c[src] - m[k] /\ e[to] = c[to] /\ d[to] = c[to] + m[k]
    BY <2>5, <2>7
  <2>15. c[src] \in Int /\ c[to] \in Int /\ m[k] \in Int
    BY <1>2, <2>4
  <2>16. Total(E, d) = punched[k]
    BY <2>11, <2>12, <2>13, <2>14, <2>15
  <2>17. QED
    BY <1>4, <2>3, <2>9, <2>16
<1>9. EveryUnitBilledOnce' /\ KotsAhead'
  BY <1>4, <1>8, TotalBilled DEF DataInv, KotsAhead
<1>10. \A x \in Orders : PlainRow(x)
  <2>1. PlainRow(src)
    BY DEF PlainRow, Mergeable, NotSplit, Exists
  <2>2. PlainRow(to)
    BY DEF PlainRow, Mergeable, NotSplit, Exists
  <2>3. ASSUME NEW x \in Orders \ {src, to} PROVE PlainRow(x)
    <3>1. orders'[x] = orders[x]
      OBVIOUS
    <3>2. lines'[x] = [k \in Kots |-> lines[x][k]]
      BY <1>3, <1>4
    <3>3. lines[x] = [k \in Kots |-> lines[x][k]]
      BY <1>1 DEF LinesOK
    <3>4. QED
      BY <3>1, <3>2, <3>3 DEF PlainRow
  <2>4. QED
    BY <2>1, <2>2, <2>3
<1>11. ShapeOK' /\ SplitAccounting' /\ \A r : ChecksKept(r)
  BY <1>10, PlainStep
<1>12. QED
  BY <1>6, <1>9, <1>11 DEF DataInv

\* Settling a check closes its bill exactly when it was the last one open; the
\* bill's lock kept the count that was made of the others true.
LEMMA SettleData ==
    ASSUME RowsOK, OrderInv, SplitInv, NEW r \in Reqs, SettleCommit(r), RowsOK'
    PROVE  DataInv' /\ ChecksKept(r)
<1>1. /\ req[r] \in Request /\ OrderHeld(r) /\ SplitHeld(r) /\ orders \in [Orders -> OrderRow]
      /\ NoOrder \notin Orders
  BY BillsAssumption DEF RowsOK, OrderInv, SplitInv
<1>2. At(r, "settle_commit") /\ req[r].pc = "settle_commit"
  BY DEF SettleCommit, At
<1>3. PICK o \in Orders : o = req[r].o /\ orders[o].status = "OPEN" /\ orders[o].splitCount = 0
  BY <1>1, <1>2 DEF Request, WithOrder, PCs, OrderHeld, BillHeld
<1>4. PICK p \in Orders \cup {NoOrder} : p = orders[o].parent
  BY <1>1 DEF OrderRow
<1>5. PICK last \in BOOLEAN : last <=> req[r].last
  OBVIOUS
<1>6. /\ p = NoOrder => ~last
      /\ p # NoOrder => Counted(r, p) /\ Other(r) = p
  BY <1>1, <1>2, <1>3, <1>4, <1>5 DEF SplitHeld, Counted, Other
<1>7. \A x \in Orders :
         orders'[x] = IF x = o THEN [orders[x] EXCEPT !.status = "SETTLED", !.bill = nextBill]
                      ELSE IF last /\ x = p THEN [orders[x] EXCEPT !.status = "SPLIT"] ELSE orders[x]
  <2>1. \A x \in Orders :
           orders'[x] = IF x = o THEN [orders[x] EXCEPT !.status = "SETTLED", !.bill = nextBill]
                        ELSE IF req[r].last /\ x = Other(r) THEN [orders[x] EXCEPT !.status = "SPLIT"] ELSE orders[x]
    BY <1>3 DEF SettleCommit
  <2>2. QED
    BY <1>5, <1>6, <2>1
<1>8. UNCHANGED <<lines, kotOrder, nextKot, punched>>
  BY DEF SettleCommit
<1>9. p # NoOrder => /\ orders[p].status = "OPEN" /\ orders[p].splitCount # 0 /\ p # o
                     /\ orders[p].parent = NoOrder
  <2>1. ASSUME p # NoOrder
        PROVE  orders[p].status = "OPEN" /\ orders[p].splitCount # 0 /\ p # o /\ orders[p].parent = NoOrder
    <3>1. orders[p].status = "OPEN" /\ orders[p].splitCount # 0 /\ p \in Orders
      BY <1>3, <1>4, <2>1, OpenCheckParent DEF SplitInv
    <3>2. RowShape(p) /\ Exists(p)
      BY <3>1 DEF SplitInv, DataInv, ShapeOK, Exists
    <3>3. QED
      BY <1>3, <3>1, <3>2 DEF RowShape
  <2>2. QED
    BY <2>1
<1>10. /\ \A x \in Orders : /\ orders'[x].parent = orders[x].parent /\ orders'[x].table = orders[x].table
                            /\ orders'[x].splitCount = orders[x].splitCount
       /\ orders'[o].status = "SETTLED"
       /\ p # NoOrder => orders'[p].status = IF last THEN "SPLIT" ELSE "OPEN"
       /\ \A x \in Orders \ {o, p} : orders'[x].status = orders[x].status
  <2>1. ASSUME NEW x \in Orders
        PROVE  /\ orders'[x].parent = orders[x].parent /\ orders'[x].table = orders[x].table
               /\ orders'[x].splitCount = orders[x].splitCount
    BY <1>1, <1>7 DEF OrderRow
  <2>2. orders'[o].status = "SETTLED"
    <3>1. orders'[o] = [orders[o] EXCEPT !.status = "SETTLED", !.bill = nextBill]
      BY <1>7
    <3>2. QED
      BY <1>1, <3>1 DEF OrderRow
  <2>3. ASSUME p # NoOrder PROVE orders'[p].status = IF last THEN "SPLIT" ELSE "OPEN"
    <3>1. p \in Orders /\ p # o /\ orders[p].status = "OPEN"
      BY <1>9, <2>3
    <3>2. orders'[p] = IF last THEN [orders[p] EXCEPT !.status = "SPLIT"] ELSE orders[p]
      BY <1>7, <3>1
    <3>3. QED
      BY <1>1, <3>1, <3>2 DEF OrderRow
  <2>4. \A x \in Orders \ {o, p} : orders'[x].status = orders[x].status
    BY <1>7
  <2>5. QED
    BY <2>1, <2>2, <2>3, <2>4
<1>11. /\ \A x \in Orders : Exists(x)' = Exists(x) /\ NotSplit(x)' = NotSplit(x)
       /\ \A x \in Orders : (orders'[x].status = "MERGED") = (orders[x].status = "MERGED")
  <2>1. ASSUME NEW x \in Orders
        PROVE  /\ Exists(x)' = Exists(x) /\ NotSplit(x)' = NotSplit(x)
               /\ (orders'[x].status = "MERGED") = (orders[x].status = "MERGED")
    <3>1. CASE x = o
      BY <1>3, <1>10, <3>1 DEF Exists, NotSplit
    <3>2. CASE x = p
      BY <1>1, <1>9, <1>10, <3>2 DEF Exists, NotSplit
    <3>3. CASE x \notin {o, p}
      BY <1>10, <3>3 DEF Exists, NotSplit
    <3>4. QED
      BY <3>1, <3>2, <3>3
  <2>2. QED
    BY <2>1
<1>12. Known' = Known /\ \A q : Children(q)' = Children(q)
  BY <1>10, <1>11 DEF Known, Children
<1>13. Billed' = Billed
  <2>1. \A x \in Orders : x \in Billed' <=> x \in Billed
    BY <1>10, <1>11, <1>12 DEF Billed
  <2>2. Billed' \subseteq Orders /\ Billed \subseteq Orders
    BY DEF Billed, Known
  <2>3. QED
    BY <2>1, <2>2
<1>14. LinesOK' /\ EveryUnitBilledOnce' /\ KotsAhead'
  BY <1>8, <1>13, SameData DEF SplitInv
<1>15. ShapeOK'
  <2>1. ASSUME NEW x \in Orders PROVE RowShape(x)'
    <3>1. RowShape(x)
      BY DEF SplitInv, DataInv, ShapeOK
    <3>2. PICK q \in Orders \cup {NoOrder} : q = orders[x].parent
      BY <1>1 DEF OrderRow
    <3>3. Exists(q) /\ q # NoOrder => Exists(q)'
      BY <1>11
    <3>4. QED
      BY <1>8, <1>10, <1>11, <3>1, <3>2, <3>3 DEF RowShape
  <2>2. QED
    BY <2>1 DEF ShapeOK
<1>16. ASSUME NEW q \in Orders, q # p
       PROVE  /\ \A c \in Children(q) : orders'[c].status = orders[c].status
              /\ OpenChecks(q)' = OpenChecks(q)
  <2>1. ASSUME NEW c \in Children(q) PROVE orders'[c].status = orders[c].status
    <3>1. c \in Orders /\ orders[c].parent = q
      BY DEF Children
    <3>2. c # o /\ c # p
      BY <1>1, <1>4, <1>9, <1>16, <3>1
    <3>3. QED
      BY <1>10, <3>1, <3>2
  <2>2. QED
    BY <1>12, <2>1 DEF OpenChecks
<1>17. p # NoOrder => /\ o \in Children(p) /\ OpenChecks(p)' = OpenChecks(p) \ {o}
                      /\ \A c \in Children(p) \ {o} : orders'[c].status = orders[c].status
  <2>1. ASSUME p # NoOrder
        PROVE  /\ o \in Children(p) /\ OpenChecks(p)' = OpenChecks(p) \ {o}
               /\ \A c \in Children(p) \ {o} : orders'[c].status = orders[c].status
    <3>1. o \in Children(p)
      BY <1>3, <1>4, <2>1, OpenCheckParent DEF SplitInv
    <3>2. ASSUME NEW c \in Children(p) \ {o} PROVE orders'[c].status = orders[c].status
      <4>1. c \in Orders /\ orders[c].parent = p
        BY DEF Children
      <4>2. c # p
        BY <1>9, <2>1, <4>1
      <4>3. QED
        BY <1>10, <4>1, <4>2
    <3>3. QED
      BY <1>10, <1>12, <3>1, <3>2 DEF OpenChecks
  <2>2. QED
    BY <2>1
<1>18. SplitAccounting'
  <2>1. ASSUME NEW q \in Known' PROVE ChecksAgree(q)' /\ SharesExact(q)'
    <3>1. q \in Orders /\ ChecksAgree(q) /\ SharesExact(q) /\ Children(q)' = Children(q)
      BY <1>12 DEF Known, SplitInv, DataInv, SplitAccounting
    <3>2. SharesExact(q)'
      BY <1>8, <1>10, <3>1 DEF SharesExact
    <3>3. CASE q # p
      <4>1. CASE q = o
        <5>1. orders'[q].splitCount = 0
          BY <1>3, <1>10, <4>1
        <5>2. Cardinality(Children(q)') = orders'[q].splitCount
          BY <1>10, <3>1 DEF ChecksAgree
        <5>3. QED
          BY <3>2, <5>1, <5>2 DEF ChecksAgree
      <4>2. CASE q # o
        <5>1. orders'[q].status = orders[q].status
          BY <1>10, <3>1, <3>3, <4>2
        <5>2. PICK K : K = Children(q) /\ K = Children(q)'
          BY <3>1
        <5>3. \A c \in K : orders'[c].status = orders[c].status
          BY <1>16, <3>1, <3>3, <5>2
        <5>4. Cardinality(K) = orders[q].splitCount /\ orders'[q].splitCount = orders[q].splitCount
          BY <1>10, <3>1, <5>2 DEF ChecksAgree
        <5>5. ASSUME orders[q].splitCount # 0
              PROVE  /\ \A c \in K : orders'[c].status \in {"OPEN", "SETTLED"}
                     /\ orders'[q].status = IF \E c \in K : orders'[c].status = "OPEN" THEN "OPEN" ELSE "SPLIT"
          <6>1. /\ \A c \in K : orders[c].status \in {"OPEN", "SETTLED"}
                /\ orders[q].status = IF \E c \in K : orders[c].status = "OPEN" THEN "OPEN" ELSE "SPLIT"
            BY <3>1, <5>2, <5>5 DEF ChecksAgree
          <6>2. QED
            BY <5>1, <5>3, <6>1
        <5>6. QED
          BY <3>2, <5>2, <5>4, <5>5 DEF ChecksAgree
      <4>3. QED
        BY <4>1, <4>2
    <3>4. CASE q = p
      <4>1. p # NoOrder /\ orders[p].splitCount # 0
        BY <1>1, <1>9, <3>1, <3>4
      <4>2. \A c \in Children(p) : orders'[c].status \in {"OPEN", "SETTLED"}
        BY <1>10, <1>17, <3>1, <3>4, <4>1 DEF ChecksAgree
      <4>3. last <=> OpenChecks(p)' = {}
        BY <1>3, <1>5, <1>6, <1>17, <4>1 DEF Counted
      <4>4. OpenChecks(p)' = {c \in Children(p) : orders'[c].status = "OPEN"}
        BY <1>12 DEF OpenChecks
      <4>5. orders'[p].status = IF \E c \in Children(p) : orders'[c].status = "OPEN" THEN "OPEN" ELSE "SPLIT"
        BY <1>10, <4>1, <4>3, <4>4
      <4>6. QED
        BY <1>10, <3>1, <3>2, <3>4, <4>2, <4>5 DEF ChecksAgree
    <3>5. QED
      BY <3>2, <3>3, <3>4
  <2>2. QED
    BY <2>1 DEF SplitAccounting
<1>19. ChecksKept(r)
  <2>1. p # NoOrder => lock[p] = r
    BY <1>6 DEF Counted
  <2>2. QED
    BY <1>1, <1>16, <2>1 DEF ChecksKept
<1>20. QED
  BY <1>14, <1>15, <1>18, <1>19 DEF SplitInv, DataInv

\* A live bill with no split count has no checks, and neither has a dead row.
LEMMA NoChecks ==
    ASSUME RowsOK, DataInv, NEW q \in Orders, Exists(q) => orders[q].splitCount = 0
    PROVE  Children(q) = {}
<1>1. CASE Exists(q)
  <2>1. ChecksAgree(q) /\ orders[q].splitCount = 0
    BY <1>1 DEF DataInv, SplitAccounting, Known
  <2>2. PICK K \in SUBSET Orders : K = Children(q)
    BY DEF Children
  <2>3. IsFiniteSet(K) /\ Cardinality(K) = 0
    BY <2>1, <2>2, BillsAssumption, FS_Subset DEF ChecksAgree
  <2>4. QED
    BY <2>2, <2>3, FS_EmptySet
<1>2. CASE ~Exists(q)
  <2>1. ASSUME NEW c \in Children(q) PROVE FALSE
    <3>1. c \in Orders /\ orders[c].parent = q /\ Exists(c) /\ RowShape(c)
      BY DEF Children, DataInv, ShapeOK
    <3>2. QED
      BY <1>2, <3>1, BillsAssumption DEF RowShape
  <2>2. QED
    BY <2>1
<1>3. QED
  BY <1>1, <1>2

\* A step that writes one bill p and rows that are its checks, or that no
\* order is, leaves every other bill and its checks alone.
LEMMA FamilyStep ==
    ASSUME RowsOK, DataInv, RowsOK', NEW p \in Orders, NEW kids \in SUBSET Orders, p \notin kids,
           \A x \in Orders \ (kids \cup {p}) : orders'[x] = orders[x] /\ lines'[x] = lines[x],
           Exists(p)', orders[p].parent = NoOrder, orders'[p].parent = NoOrder,
           \A c \in kids : Exists(c) => orders[c].parent = p /\ orders[c].splitCount = 0,
           \A c \in kids : Exists(c)' => orders'[c].parent = p /\ orders'[c].splitCount = 0,
           \A c \in kids : RowShape(c)', ChecksAgree(p)', SharesExact(p)'
    PROVE  /\ ShapeOK' /\ SplitAccounting'
           /\ \A q \in Orders \ {p} : OpenChecks(q)' = OpenChecks(q)
<1>1. NoOrder \notin Orders
  BY BillsAssumption
<1>2. \A c \in kids : Children(c) = {}
  BY NoChecks
<1>3. ASSUME NEW q \in Orders \ {p}
      PROVE  /\ Children(q)' = Children(q) /\ OpenChecks(q)' = OpenChecks(q)
             /\ \A c \in Children(q) : c \in Orders /\ orders'[c] = orders[c] /\ lines'[c] = lines[c]
  <2>1. ASSUME NEW c \in Orders, Exists(c), orders[c].parent = q
        PROVE  orders'[c] = orders[c] /\ lines'[c] = lines[c]
    <3>1. c # p /\ c \notin kids
      BY <1>1, <1>3, <2>1
    <3>2. QED
      BY <3>1
  <2>2. ASSUME NEW c \in Orders, Exists(c)', orders'[c].parent = q
        PROVE  orders'[c] = orders[c]
    <3>1. c # p /\ c \notin kids
      BY <1>1, <1>3, <2>2
    <3>2. QED
      BY <3>1
  <2>3. \A c \in Orders : c \in Children(q) <=> c \in Children(q)'
    BY <2>1, <2>2 DEF Children, Exists
  <2>4. Children(q) \subseteq Orders /\ Children(q)' \subseteq Orders
    BY DEF Children
  <2>5. Children(q)' = Children(q)
    BY <2>3, <2>4
  <2>6. \A c \in Children(q) : c \in Orders /\ orders'[c] = orders[c] /\ lines'[c] = lines[c]
    BY <2>1 DEF Children
  <2>7. OpenChecks(q)' = OpenChecks(q)
    BY <2>5, <2>6 DEF OpenChecks
  <2>8. QED
    BY <2>5, <2>6, <2>7
<1>4. ASSUME NEW x \in Orders PROVE RowShape(x)'
  <2>1. CASE x = p
    BY <2>1 DEF RowShape
  <2>2. CASE x \notin kids \cup {p}
    <3>1. RowShape(x) /\ orders'[x] = orders[x] /\ lines'[x] = lines[x]
      BY <2>2 DEF DataInv, ShapeOK
    <3>2. Exists(x)' = Exists(x) /\ NotSplit(x)' = NotSplit(x)
      BY <3>1 DEF Exists, NotSplit
    <3>3. PICK q \in Orders \cup {NoOrder} : q = orders[x].parent
      BY DEF RowsOK, OrderRow
    <3>4. Exists(x) /\ q # NoOrder => Exists(q)'
      <4>1. ASSUME Exists(x), q # NoOrder PROVE Exists(q)'
        <5>1. Exists(q) /\ x \in Children(q) /\ q \in Orders
          BY <3>1, <3>3, <4>1 DEF RowShape, Children
        <5>2. q \notin kids
          BY <1>2, <5>1
        <5>3. QED
          BY <5>1, <5>2 DEF Exists
      <4>2. QED
        BY <4>1
    <3>5. QED
      BY <3>1, <3>2, <3>3, <3>4 DEF RowShape
  <2>3. QED
    BY <2>1, <2>2
<1>5. ASSUME NEW q \in Known' PROVE ChecksAgree(q)' /\ SharesExact(q)'
  <2>1. q \in Orders /\ Exists(q)'
    BY DEF Known
  <2>2. CASE q \in kids
    <3>1. orders'[q].splitCount = 0 /\ Children(q)' = {}
      BY <1>2, <1>3, <2>1, <2>2
    <3>2. Cardinality(Children(q)') = 0
      BY <3>1, FS_EmptySet
    <3>3. QED
      BY <3>1, <3>2 DEF ChecksAgree, SharesExact
  <2>3. CASE q \notin kids \cup {p}
    <3>1. orders'[q] = orders[q] /\ lines'[q] = lines[q] /\ q \in Known
      BY <2>1, <2>3 DEF Known, Exists
    <3>2. ChecksAgree(q) /\ SharesExact(q)
      BY <3>1 DEF DataInv, SplitAccounting
    <3>3. PICK K \in SUBSET Orders : K = Children(q) /\ K = Children(q)'
      BY <1>3, <2>1, <2>3 DEF Children
    <3>4. \A c \in K : orders'[c] = orders[c] /\ lines'[c] = lines[c]
      BY <1>3, <2>1, <2>3, <3>3
    <3>5. ChecksAgree(q)'
      BY <3>1, <3>2, <3>3, <3>4 DEF ChecksAgree
    <3>6. ASSUME NEW k \in Kots PROVE UnitsOn(lines', K, k) = UnitsOn(lines, K, k)
      <4>1. PICK l2 : l2 = lines'
        OBVIOUS
      <4>2. \A x \in K : l2[x][k] = lines[x][k]
        BY <3>4, <4>1
      <4>3. UnitsOn(l2, K, k) = UnitsOn(lines, K, k)
        BY <4>2, UnitsSame
      <4>4. QED
        BY <4>1, <4>3
    <3>7. SharesExact(q)'
      BY <3>1, <3>2, <3>3, <3>6 DEF SharesExact
    <3>8. QED
      BY <3>5, <3>7
  <2>4. QED
    BY <2>2, <2>3
<1>6. QED
  BY <1>3, <1>4, <1>5 DEF ShapeOK, SplitAccounting

\* What the checks of a bill add up to.
LEMMA SharesTotal ==
    ASSUME DataInv, NEW p \in Orders, Exists(p), orders[p].splitCount # 0, NEW k \in Kots
    PROVE  Total(Children(p), Col(lines, k)) = lines[p][k]
<1>1. PICK K \in SUBSET Orders : K = Children(p)
  BY DEF Children
<1>2. SharesExact(p)
  BY DEF DataInv, SplitAccounting, Known
<1>3. QED
  BY <1>1, <1>2, UnitsTotal DEF SharesExact

\* Unsplitting takes the checks away and bills the parent again, for as much.
LEMMA UnsplitData ==
    ASSUME RowsOK, DataInv, RowsOK', NEW p \in Orders, NEW kids \in SUBSET Orders, kids = Children(p),
           orders[p].status = "OPEN", orders[p].splitCount # 0, \A c \in kids : orders[c].status = "OPEN",
           orders' = [o \in Orders |->
                         IF o = p THEN [orders[o] EXCEPT !.splitCount = 0]
                         ELSE IF o \in kids THEN [Absent EXCEPT !.status = "DELETED"]
                         ELSE orders[o]],
           lines' = [o \in Orders |-> IF o \in kids THEN NoLines ELSE lines[o]],
           UNCHANGED <<kotOrder, nextKot, nextBill, punched>>
    PROVE  DataInv' /\ \A q \in Orders \ {p} : OpenChecks(q)' = OpenChecks(q)
<1>1. LinesOK /\ NoOrder \notin Orders /\ orders \in [Orders -> OrderRow]
  BY BillsAssumption DEF DataInv, RowsOK
<1>2. Exists(p) /\ orders[p].parent = NoOrder
  <2>1. RowShape(p) /\ Exists(p)
    BY DEF Exists, DataInv, ShapeOK
  <2>2. QED
    BY <2>1 DEF RowShape
<1>3. \A c \in kids : Exists(c) /\ orders[c].parent = p /\ orders[c].splitCount = 0
  <2>1. ASSUME NEW c \in kids PROVE Exists(c) /\ orders[c].parent = p /\ orders[c].splitCount = 0
    <3>1. Exists(c) /\ orders[c].parent = p /\ RowShape(c)
      BY DEF Children, DataInv, ShapeOK
    <3>2. QED
      BY <1>1, <3>1 DEF RowShape
  <2>2. QED
    BY <2>1
<1>4. p \notin kids
  BY <1>3
<1>5. /\ orders'[p].splitCount = 0 /\ orders'[p].status = "OPEN" /\ orders'[p].parent = NoOrder
      /\ Exists(p)'
  <2>1. orders'[p] = [orders[p] EXCEPT !.splitCount = 0]
    OBVIOUS
  <2>2. orders'[p].splitCount = 0 /\ orders'[p].status = "OPEN" /\ orders'[p].parent = NoOrder
    BY <1>1, <1>2, <2>1 DEF OrderRow
  <2>3. QED
    BY <2>2 DEF Exists
<1>6. \A c \in kids : ~Exists(c)' /\ NotSplit(c)' /\ lines'[c] = NoLines
  <2>1. ASSUME NEW c \in kids PROVE ~Exists(c)' /\ NotSplit(c)' /\ lines'[c] = NoLines
    <3>1. orders'[c] = [Absent EXCEPT !.status = "DELETED"]
      BY <1>4
    <3>2. QED
      BY <3>1 DEF Absent, Exists, NotSplit
  <2>2. QED
    BY <2>1
<1>7. \A x \in Orders \ (kids \cup {p}) : orders'[x] = orders[x] /\ lines'[x] = lines[x]
  OBVIOUS
<1>8. Children(p)' = {}
  <2>1. ASSUME NEW c \in Orders, Exists(c)', orders'[c].parent = p PROVE FALSE
    <3>1. c # p /\ c \notin kids
      BY <1>1, <1>5, <1>6, <2>1
    <3>2. orders'[c] = orders[c]
      BY <1>7, <3>1
    <3>3. c \in Children(p)
      BY <2>1, <3>2 DEF Children, Exists
    <3>4. QED
      BY <3>1, <3>3
  <2>2. QED
    BY <2>1 DEF Children
<1>9. ChecksAgree(p)' /\ SharesExact(p)'
  <2>1. Cardinality(Children(p)') = 0
    BY <1>8, FS_EmptySet
  <2>2. QED
    BY <1>5, <2>1 DEF ChecksAgree, SharesExact
<1>10. /\ ShapeOK' /\ SplitAccounting'
       /\ \A q \in Orders \ {p} : OpenChecks(q)' = OpenChecks(q)
  <2>1. \A c \in kids : RowShape(c)'
    BY <1>6 DEF RowShape
  <2>2. QED
    BY <1>2, <1>3, <1>4, <1>5, <1>6, <1>7, <1>9, <2>1, FamilyStep
<1>11. LinesOK'
  <2>1. lines' \in [Orders -> [Kots -> Nat]]
    BY <1>1 DEF LinesOK, NoLines
  <2>2. QED
    BY <1>1, <2>1 DEF LinesOK
<1>12. /\ kids \subseteq Billed /\ p \notin Billed
       /\ Billed' = (Billed \ kids) \cup {p}
  <2>1. kids \subseteq Billed /\ p \notin Billed /\ p \in Billed'
    BY <1>3, <1>5 DEF Billed, Known
  <2>2. \A x \in Orders \ {p} : x \in Billed' <=> x \in Billed \ kids
    <3>1. \A x \in kids : x \notin Billed'
      BY <1>6 DEF Billed, Known
    <3>2. \A x \in Orders \ (kids \cup {p}) : x \in Billed' <=> x \in Billed
      BY <1>7 DEF Billed, Known, Exists
    <3>3. QED
      BY <3>1, <3>2
  <2>3. Billed' \subseteq Orders /\ Billed \subseteq Orders
    BY DEF Billed, Known
  <2>4. QED
    BY <2>1, <2>2, <2>3
<1>13. ASSUME NEW k \in Kots PROVE Total(Billed', Col(lines', k)) = punched'[k]
  <2>1. PICK B \in SUBSET Orders : B = Billed /\ IsFiniteSet(B) /\ Total(B, Col(lines, k)) = punched[k]
    BY BilledTotal DEF DataInv
  <2>2. PICK c : c = Col(lines, k)
    OBVIOUS
  <2>3. PICK d : d = Col(lines', k)
    OBVIOUS
  <2>4. \A x \in Orders : c[x] = lines[x][k] /\ c[x] \in Int
    BY <1>1, <2>2, ColType
  <2>5. PICK R \in SUBSET Orders : R = B \ kids
    OBVIOUS
  <2>6. PICK E \in SUBSET Orders : E = R \cup {p} /\ E = Billed' /\ p \notin R
    BY <1>12, <2>1, <2>5
  <2>7. IsFiniteSet(R) /\ IsFiniteSet(E)
    BY BillsAssumption, FS_Subset
  <2>8. Total(B, c) = Total(kids, c) + Total(R, c)
    <3>1. kids \in SUBSET B
      BY <1>12, <2>1
    <3>2. QED
      BY <2>1, <2>4, <2>5, <3>1, TotalSplit
  <2>9. Total(kids, c) = c[p]
    BY <1>2, <2>2, <2>4, SharesTotal
  <2>10. Total(E, c) = c[p] + Total(R, c)
    <3>1. \A x \in R \cup {p} : c[x] \in Int
      BY <2>4
    <3>2. QED
      BY <2>6, <2>7, <3>1, TotalInsert
  <2>11. Total(E, d) = Total(E, c)
    <3>1. \A x \in E : x \notin kids
      BY <1>4, <2>5, <2>6
    <3>2. \A x \in E : d[x] = c[x]
      BY <2>3, <2>4, <3>1 DEF Col
    <3>3. QED
      BY <2>7, <3>2, TotalSame
  <2>12. QED
    BY <2>1, <2>2, <2>3, <2>6, <2>8, <2>9, <2>10, <2>11
<1>14. EveryUnitBilledOnce' /\ KotsAhead'
  BY <1>13, TotalBilled DEF DataInv, KotsAhead
<1>15. QED
  BY <1>10, <1>11, <1>14 DEF DataInv

\* The ids of the checks a split makes are unused and as many as were asked for.
LEMMA NextIdsCount ==
    ASSUME NEW n \in Nat, n <= Cardinality(Fresh)
    PROVE  /\ NextIds(n) \in SUBSET Orders /\ Cardinality(NextIds(n)) = n
           /\ \A c \in NextIds(n) : orders[c].status = "NONE"
<1>1. PICK F \in SUBSET Nat : F = Fresh /\ IsFiniteSet(F) /\ F \subseteq Orders
  <2>1. Fresh \in SUBSET Orders /\ Orders \in SUBSET Nat /\ IsFiniteSet(Orders)
    BY BillsAssumption DEF Fresh
  <2>2. IsFiniteSet(Fresh)
    BY <2>1, FS_Subset
  <2>3. QED
    BY <2>1, <2>2
<1>2. NextIds(n) = Least(F, n)
  BY <1>1 DEF NextIds, Least, Rank
<1>3. Cardinality(Least(F, n)) = n
  BY <1>1, LeastCount
<1>4. QED
  BY <1>1, <1>2, <1>3 DEF NextIds, Fresh

\* Splitting bills the checks in the place of their parent, for as much.
LEMMA SplitData ==
    ASSUME RowsOK, DataInv, RowsOK', NEW p \in Orders, NEW kids \in SUBSET Orders, Mergeable(p),
           NEW n \in Nat \ {0}, Cardinality(kids) = n, \A c \in kids : orders[c].status = "NONE",
           NEW s \in Shares(p, kids),
           orders' = [o \in Orders |->
                         IF o = p THEN [orders[o] EXCEPT !.splitCount = n]
                         ELSE IF o \in kids THEN [Absent EXCEPT !.status = "OPEN", !.parent = p]
                         ELSE orders[o]],
           lines' = [o \in Orders |-> IF o \in kids THEN s[o] ELSE lines[o]],
           UNCHANGED <<kotOrder, nextKot, nextBill, punched>>
    PROVE  DataInv' /\ \A q \in Orders \ {p} : OpenChecks(q)' = OpenChecks(q)
<1>1. LinesOK /\ NoOrder \notin Orders /\ orders \in [Orders -> OrderRow]
  BY BillsAssumption DEF DataInv, RowsOK
<1>2. Exists(p) /\ orders[p].parent = NoOrder /\ orders[p].splitCount = 0 /\ orders[p].status = "OPEN"
  BY DEF Mergeable, NotSplit, Exists
<1>3. p \notin kids /\ \A c \in kids : ~Exists(c) /\ orders[c].status = "NONE"
  BY <1>2 DEF Exists
<1>4. /\ orders'[p].splitCount = n /\ orders'[p].status = "OPEN" /\ orders'[p].parent = NoOrder
      /\ Exists(p)'
  <2>1. orders'[p] = [orders[p] EXCEPT !.splitCount = n]
    OBVIOUS
  <2>2. orders'[p].splitCount = n /\ orders'[p].status = "OPEN" /\ orders'[p].parent = NoOrder
    BY <1>1, <1>2, <2>1 DEF OrderRow
  <2>3. QED
    BY <2>2 DEF Exists
<1>5. \A c \in kids : /\ Exists(c)' /\ orders'[c].parent = p /\ orders'[c].splitCount = 0
                      /\ orders'[c].status = "OPEN" /\ orders'[c].table = NoTable
  <2>1. ASSUME NEW c \in kids
        PROVE  /\ Exists(c)' /\ orders'[c].parent = p /\ orders'[c].splitCount = 0
               /\ orders'[c].status = "OPEN" /\ orders'[c].table = NoTable
    <3>1. orders'[c] = [Absent EXCEPT !.status = "OPEN", !.parent = p]
      BY <1>3
    <3>2. QED
      BY <3>1 DEF Absent, Exists
  <2>2. QED
    BY <2>1
<1>6. \A x \in Orders \ (kids \cup {p}) : orders'[x] = orders[x] /\ lines'[x] = lines[x]
  OBVIOUS
<1>7. lines'[p] = lines[p] /\ \A c \in kids : lines'[c] = s[c]
  BY <1>3
<1>8. Children(p)' = kids
  <2>1. Children(p) = {}
    BY <1>2, NoChecks
  <2>2. ASSUME NEW c \in Orders, Exists(c)', orders'[c].parent = p PROVE c \in kids
    <3>1. ASSUME c \notin kids PROVE FALSE
      <4>1. c # p
        BY <1>1, <1>4, <2>2
      <4>2. orders'[c] = orders[c]
        BY <1>6, <3>1, <4>1
      <4>3. c \in Children(p)
        BY <2>2, <4>2 DEF Children, Exists
      <4>4. QED
        BY <2>1, <4>3
    <3>2. QED
      BY <3>1
  <2>3. QED
    BY <1>5, <2>2 DEF Children
<1>9. \A k \in Kots : UnitsOn(lines', kids, k) = lines[p][k]
  <2>1. ASSUME NEW k \in Kots PROVE UnitsOn(lines', kids, k) = lines[p][k]
    <3>1. PICK l : l = lines'
      OBVIOUS
    <3>2. \A x \in kids : l[x][k] = s[x][k]
      BY <1>7, <3>1
    <3>3. UnitsOn(l, kids, k) = UnitsOn(s, kids, k)
      BY <3>2, UnitsSame
    <3>4. UnitsOn(s, kids, k) = lines[p][k]
      BY DEF Shares
    <3>5. QED
      BY <3>1, <3>3, <3>4
  <2>2. QED
    BY <2>1
<1>10. ChecksAgree(p)' /\ SharesExact(p)'
  <2>1. kids # {}
    BY FS_EmptySet
  <2>2. ChecksAgree(p)'
    BY <1>4, <1>5, <1>8, <2>1 DEF ChecksAgree
  <2>3. SharesExact(p)'
    BY <1>7, <1>8, <1>9 DEF SharesExact
  <2>4. QED
    BY <2>2, <2>3
<1>11. /\ ShapeOK' /\ SplitAccounting'
       /\ \A q \in Orders \ {p} : OpenChecks(q)' = OpenChecks(q)
  <2>1. \A c \in kids : RowShape(c)'
    BY <1>4, <1>5 DEF RowShape
  <2>2. QED
    BY <1>2, <1>3, <1>4, <1>5, <1>6, <1>10, <2>1, FamilyStep
<1>12. LinesOK'
  <2>1. ASSUME NEW c \in kids PROVE s[c] \in [Kots -> Nat]
    <3>1. s[c] \in [Kots -> 0..Max(Range(Units))]
      BY DEF Shares
    <3>2. QED
      BY <3>1, UnitsBound
  <2>2. lines' \in [Orders -> [Kots -> Nat]]
    BY <1>1, <2>1 DEF LinesOK
  <2>3. QED
    BY <1>1, <2>2 DEF LinesOK
<1>13. /\ kids \cap Billed = {} /\ p \in Billed
       /\ Billed' = (Billed \ {p}) \cup kids
  <2>1. kids \cap Billed = {} /\ p \in Billed /\ p \notin Billed'
    BY <1>2, <1>3, <1>4 DEF Billed, Known
  <2>2. \A x \in Orders \ {p} : x \in Billed' <=> x \in Billed \cup kids
    <3>1. \A x \in kids : x \in Billed'
      BY <1>5 DEF Billed, Known
    <3>2. \A x \in Orders \ (kids \cup {p}) : x \in Billed' <=> x \in Billed
      BY <1>6 DEF Billed, Known, Exists
    <3>3. QED
      BY <3>1, <3>2
  <2>3. Billed' \subseteq Orders /\ Billed \subseteq Orders
    BY DEF Billed, Known
  <2>4. QED
    BY <1>3, <2>1, <2>2, <2>3
<1>14. ASSUME NEW k \in Kots PROVE Total(Billed', Col(lines', k)) = punched'[k]
  <2>1. PICK B \in SUBSET Orders : B = Billed /\ IsFiniteSet(B) /\ Total(B, Col(lines, k)) = punched[k]
    BY BilledTotal DEF DataInv
  <2>2. PICK c : c = Col(lines, k)
    OBVIOUS
  <2>3. PICK d : d = Col(lines', k)
    OBVIOUS
  <2>4. \A x \in Orders : c[x] = lines[x][k] /\ c[x] \in Int
    BY <1>1, <2>2, ColType
  <2>5. \A x \in Orders : d[x] = lines'[x][k] /\ d[x] \in Int
    BY <1>12, <2>3 DEF Col, LinesOK
  <2>6. PICK R \in SUBSET Orders : R = B \ {p}
    OBVIOUS
  <2>7. PICK E \in SUBSET Orders : E = R \cup kids /\ E = Billed' /\ E \ kids = R
    BY <1>13, <2>1, <2>6
  <2>8. IsFiniteSet(R) /\ IsFiniteSet(E)
    BY BillsAssumption, FS_Subset
  <2>9. Total(B, c) = c[p] + Total(R, c)
    <3>1. p \in B /\ \A x \in B : c[x] \in Int
      BY <1>13, <2>1, <2>4
    <3>2. QED
      BY <2>1, <2>6, <3>1, TotalRemove
  <2>10. Total(E, d) = Total(kids, d) + Total(R, d)
    <3>1. kids \in SUBSET E /\ \A x \in E : d[x] \in Int
      BY <2>5, <2>7
    <3>2. QED
      BY <2>7, <2>8, <3>1, TotalSplit
  <2>11. Total(kids, d) = c[p]
    <3>1. PICK l : l = lines'
      OBVIOUS
    <3>2. UnitsOn(l, kids, k) = Total(kids, Col(l, k))
      BY UnitsTotal
    <3>3. QED
      BY <1>9, <2>3, <2>4, <3>1, <3>2
  <2>12. Total(R, d) = Total(R, c)
    <3>1. \A x \in R : d[x] = c[x]
      BY <1>6, <1>13, <2>1, <2>4, <2>5, <2>6
    <3>2. QED
      BY <2>8, <3>1, TotalSame
  <2>13. QED
    BY <2>1, <2>2, <2>3, <2>7, <2>9, <2>10, <2>11, <2>12
<1>15. EveryUnitBilledOnce' /\ KotsAhead'
  BY <1>14, TotalBilled DEF DataInv, KotsAhead
<1>16. QED
  BY <1>11, <1>12, <1>15 DEF DataInv

\* The commits, one by one: a settlement writes its bill and the bill's parent.
LEMMA SplitSettles ==
    ASSUME RowsOK, OrderInv, SplitInv, NEW r \in Reqs, SettleCommit(r), RowsOK', RowsKept(r)
    PROVE  SplitInv'
<1>1. Finish(r)
  BY DEF SettleCommit
<1>2. DataInv' /\ ChecksKept(r)
  BY SettleData
<1>3. QED
  BY <1>1, <1>2, SplitEnd

\* A split writes its bill and unused ids.
LEMMA SplitSplits ==
    ASSUME RowsOK, OrderInv, SplitInv, NEW r \in Reqs, SplitCommit(r), RowsOK', RowsKept(r)
    PROVE  SplitInv'
<1>1. req[r] \in Request /\ OrderHeld(r) /\ DataInv
  BY DEF RowsOK, OrderInv, SplitInv
<1>2. At(r, "split_commit") /\ req[r].pc = "split_commit"
  BY DEF SplitCommit, At
<1>3. PICK p \in Orders : p = req[r].o /\ lock[p] \in {r, Free}
  BY <1>1, <1>2, GotRow DEF Request, WithOrder, PCs, OrderHeld
<1>4. ASSUME NEW n \in Parts, n <= Cardinality(Fresh), Mergeable(p), Finish(r),
             UNCHANGED <<kotOrder, nextKot, nextBill, punched>>,
             orders' = [o \in Orders |->
                           IF o = p THEN [orders[o] EXCEPT !.splitCount = n]
                           ELSE IF o \in NextIds(n) THEN [Absent EXCEPT !.status = "OPEN", !.parent = p]
                           ELSE orders[o]],
             NEW s \in Shares(p, NextIds(n)),
             lines' = [o \in Orders |-> IF o \in NextIds(n) THEN s[o] ELSE lines[o]]
      PROVE  SplitInv'
  <2>1. n \in Nat \ {0}
    BY BillsAssumption
  <2>2. PICK kids \in SUBSET Orders : /\ kids = NextIds(n) /\ Cardinality(kids) = n
                                      /\ \A c \in kids : orders[c].status = "NONE"
    BY <1>4, <2>1, NextIdsCount
  <2>3. DataInv' /\ \A q \in Orders \ {p} : OpenChecks(q)' = OpenChecks(q)
    BY <1>1, <1>4, <2>1, <2>2, SplitData, ZenonT(30)
  <2>4. ChecksKept(r)
    BY <1>3, <2>3 DEF ChecksKept
  <2>5. QED
    BY <1>4, <2>3, <2>4, SplitEnd
<1>5. QED
  BY <1>3, <1>4, SplitAbort DEF SplitCommit

\* An unsplit writes its bill and the bill's checks.
LEMMA SplitUnsplits ==
    ASSUME RowsOK, OrderInv, SplitInv, NEW r \in Reqs, UnsplitCommit(r), RowsOK', RowsKept(r)
    PROVE  SplitInv'
<1>1. req[r] \in Request /\ OrderHeld(r) /\ DataInv
  BY DEF RowsOK, OrderInv, SplitInv
<1>2. At(r, "unsplit_commit") /\ req[r].pc = "unsplit_commit"
  BY DEF UnsplitCommit, At
<1>3. PICK p \in Orders : p = req[r].o /\ lock[p] \in {r, Free}
  BY <1>1, <1>2, GotRow DEF Request, WithOrder, PCs, OrderHeld
<1>4. PICK kids \in SUBSET Orders : kids = Children(p)
  BY DEF Children
<1>5. ASSUME orders[p].status = "OPEN", orders[p].splitCount # 0, Finish(r),
             \A c \in kids : orders[c].status = "OPEN",
             UNCHANGED <<kotOrder, nextKot, nextBill, punched>>,
             orders' = [o \in Orders |->
                           IF o = p THEN [orders[o] EXCEPT !.splitCount = 0]
                           ELSE IF o \in kids THEN [Absent EXCEPT !.status = "DELETED"]
                           ELSE orders[o]],
             lines' = [o \in Orders |-> IF o \in kids THEN NoLines ELSE lines[o]]
      PROVE  SplitInv'
  <2>1. DataInv' /\ \A q \in Orders \ {p} : OpenChecks(q)' = OpenChecks(q)
    BY <1>1, <1>4, <1>5, UnsplitData
  <2>2. ChecksKept(r)
    BY <1>3, <2>1 DEF ChecksKept
  <2>3. QED
    BY <1>5, <2>1, <2>2, SplitEnd
<1>6. QED
  BY <1>3, <1>4, <1>5, SplitAbort DEF UnsplitCommit

\* A KOT goes to a new bill or to one that is no part of a split.
LEMMA SplitPunches ==
    ASSUME RowsOK, OrderInv, SplitInv, NEW r \in Reqs, OpenCommit(r) \/ PunchCommit(r), RowsOK', RowsKept(r)
    PROVE  SplitInv'
<1>1. /\ req[r] \in Request /\ OrderHeld(r) /\ SplitHeld(r) /\ DataInv
      /\ orders \in [Orders -> OrderRow]
  BY DEF RowsOK, OrderInv, SplitInv
<1>2. CASE OpenCommit(r)
  <2>1. ASSUME Room, Finish(r), Punch(NextId),
               orders' = [orders EXCEPT ![NextId] = [Absent EXCEPT !.status = "OPEN", !.table = req[r].t]]
        PROVE  SplitInv'
    <3>1. PICK x \in Orders : x = NextId /\ orders[x].status = "NONE"
      BY <2>1, NextIdUnused DEF Room
    <3>2. orders'[x] = [Absent EXCEPT !.status = "OPEN", !.table = req[r].t]
      BY <1>1, <2>1, <3>1
    <3>3. orders'[x].status = "OPEN" /\ NotSplit(x)' /\ Exists(x)'
      BY <3>2 DEF Absent, NotSplit, Exists
    <3>4. lines[x] = NoLines
      BY <1>1, <3>1 DEF DataInv, ShapeOK, RowShape, Exists
    <3>5. \A y \in Orders \ {x} : orders'[y] = orders[y] /\ lines'[y] = lines[y]
      BY <1>1, <2>1, <3>1, PunchLines DEF OrderInv
    <3>6. \A y \in Orders : PlainRow(y)
      BY <3>1, <3>3, <3>5 DEF PlainRow
    <3>7. Billed' = Billed \cup {x}
      <4>1. x \in Billed'
        BY <3>3 DEF Billed, Known, NotSplit
      <4>2. \A y \in Orders \ {x} : y \in Billed' <=> y \in Billed
        BY <3>5 DEF Billed, Known, Exists
      <4>3. Billed' \subseteq Orders /\ Billed \subseteq Orders
        BY DEF Billed, Known
      <4>4. QED
        BY <4>1, <4>2, <4>3
    <3>8. DataInv' /\ ChecksKept(r)
      BY <1>1, <2>1, <3>1, <3>4, <3>6, <3>7, PunchData DEF Room
    <3>9. QED
      BY <2>1, <3>8, SplitEnd
  <2>2. QED
    BY <1>2, <2>1, SplitAbort DEF OpenCommit
<1>3. CASE PunchCommit(r)
  <2>1. At(r, "punch_commit") /\ req[r].pc = "punch_commit"
    BY <1>3 DEF PunchCommit, At
  <2>2. PICK o \in Orders : o = req[r].o /\ Mergeable(o)
    BY <1>1, <2>1 DEF Request, WithOrder, PCs, OrderHeld, BillHeld, SplitHeld, Mergeable, NotSplit
  <2>3. ASSUME nextKot <= MaxKot, Punch(o), UNCHANGED orders, Finish(r) PROVE SplitInv'
    <3>1. \A y \in Orders \ {o} : lines'[y] = lines[y]
      BY <2>3, PunchLines DEF OrderInv
    <3>2. NotSplit(o)' /\ Exists(o)'
      BY <2>2, <2>3 DEF Mergeable, NotSplit, Exists
    <3>3. \A y \in Orders : PlainRow(y)
      BY <2>2, <2>3, <3>1, <3>2 DEF PlainRow
    <3>4. o \in Billed /\ Billed' = Billed
      BY <2>2, <2>3 DEF Billed, Known, Exists, Mergeable, NotSplit
    <3>5. Billed' = Billed \cup {o}
      BY <3>4
    <3>6. DataInv' /\ ChecksKept(r)
      BY <1>1, <2>3, <3>3, <3>4, <3>5, PunchData
    <3>7. QED
      BY <2>3, <3>6, SplitEnd
  <2>4. QED
    BY <1>3, <2>2, <2>3, SplitAbort DEF PunchCommit
<1>4. QED
  BY <1>2, <1>3

\* Only bills that are no part of a split are voided or merged.
LEMMA SplitCloses ==
    ASSUME RowsOK, OrderInv, SplitInv, NEW r \in Reqs, CancelCommit(r) \/ MergeCommit(r), RowsOK', RowsKept(r)
    PROVE  SplitInv'
<1>1. /\ req[r] \in Request /\ OrderHeld(r) /\ SplitHeld(r) /\ DataInv
      /\ orders \in [Orders -> OrderRow]
  BY DEF RowsOK, OrderInv, SplitInv
<1>2. CASE CancelCommit(r)
  <2>1. At(r, "cancel_commit") /\ req[r].pc = "cancel_commit"
    BY <1>2 DEF CancelCommit, At
  <2>2. PICK o \in Orders : o = req[r].o
    BY <1>1, <2>1 DEF Request, WithOrder, PCs
  <2>3. ASSUME Mergeable(o), orders' = [orders EXCEPT ![o].status = "CANCELLED"],
               UNCHANGED <<lines, kotOrder, nextKot, nextBill, punched>>, Finish(r)
        PROVE  SplitInv'
    <3>1. orders'[o] = [orders[o] EXCEPT !.status = "CANCELLED"]
      BY <1>1, <2>3
    <3>2. /\ orders'[o].status = "CANCELLED" /\ orders'[o].splitCount = orders[o].splitCount
          /\ orders'[o].parent = orders[o].parent
      BY <1>1, <3>1 DEF OrderRow
    <3>3. \A y \in Orders \ {o} : orders'[y] = orders[y]
      BY <1>1, <2>3
    <3>4. NotSplit(o)' /\ Exists(o)'
      BY <2>3, <3>2 DEF Mergeable, NotSplit, Exists
    <3>5. \A y \in Orders : PlainRow(y)
      BY <2>3, <3>3, <3>4 DEF PlainRow
    <3>6. Billed' = Billed
      <4>1. o \in Billed /\ o \in Billed'
        BY <2>3, <3>2, <3>4 DEF Billed, Known, Exists, Mergeable, NotSplit
      <4>2. \A y \in Orders \ {o} : y \in Billed' <=> y \in Billed
        BY <3>3 DEF Billed, Known, Exists
      <4>3. Billed' \subseteq Orders /\ Billed \subseteq Orders
        BY DEF Billed, Known
      <4>4. QED
        BY <4>1, <4>2, <4>3
    <3>7. LinesOK' /\ EveryUnitBilledOnce' /\ KotsAhead'
      BY <1>1, <2>3, <3>6, SameData
    <3>8. ShapeOK' /\ SplitAccounting' /\ ChecksKept(r)
      BY <1>1, <3>5, PlainStep
    <3>9. DataInv'
      BY <3>7, <3>8 DEF DataInv
    <3>10. QED
      BY <2>3, <3>8, <3>9, SplitEnd
  <2>4. QED
    BY <1>2, <2>2, <2>3, SplitAbort DEF CancelCommit
<1>3. CASE MergeCommit(r)
  <2>1. At(r, "merge_commit") /\ req[r].pc = "merge_commit"
    BY <1>3 DEF MergeCommit, At
  <2>2. PICK tgt \in Orders : tgt = req[r].o
    BY <1>1, <2>1 DEF Request, WithOrder, PCs
  <2>3. PICK srcs \in SUBSET Orders : srcs = req[r].others
    BY <1>1 DEF Request
  <2>4. tgt \notin srcs
    BY <1>1, <2>1, <2>2, <2>3 DEF SplitHeld
  <2>5. ASSUME \A x \in srcs \cup {tgt} : Mergeable(x), MoveAll(srcs, tgt), Finish(r) PROVE SplitInv'
    <3>1. DataInv' /\ ChecksKept(r)
      BY <1>1, <2>4, <2>5, MoveAllData
    <3>2. QED
      BY <2>5, <3>1, SplitEnd
  <2>6. QED
    BY <1>3, <2>2, <2>3, <2>5, SplitAbort DEF MergeCommit
<1>4. QED
  BY <1>2, <1>3

\* Nor is any other moved, whole or in part.
LEMMA SplitTransfers ==
    ASSUME RowsOK, OrderInv, SplitInv, NEW r \in Reqs, TransferCommit(r), RowsOK', RowsKept(r)
    PROVE  SplitInv'
<1>1. /\ req[r] \in Request /\ OrderHeld(r) /\ SplitHeld(r) /\ DataInv
      /\ orders \in [Orders -> OrderRow]
  BY DEF RowsOK, OrderInv, SplitInv
<1>2. At(r, "transfer_commit") /\ req[r].pc = "transfer_commit"
  BY DEF TransferCommit, At
<1>3. PICK src \in Orders : req[r].others = {src} /\ Mergeable(src)
  BY <1>1, <1>2 DEF OrderHeld, SourceHeld
<1>4. Other(r) = src
  BY <1>3 DEF Other
<1>5. PICK tgt \in Orders \cup {NoOrder} : tgt = req[r].o
  BY <1>1 DEF Request
<1>6. tgt # src
  BY <1>1, <1>2, <1>3, <1>5 DEF SplitHeld
<1>7. ASSUME tgt # NoOrder, Mergeable(tgt), MoveAll({src}, tgt), Finish(r) PROVE SplitInv'
  <2>1. PICK srcs \in SUBSET Orders : srcs = {src}
    OBVIOUS
  <2>2. /\ \A x \in srcs \cup {tgt} : Mergeable(x)
        /\ tgt \notin srcs /\ tgt \in Orders
    BY <1>3, <1>5, <1>6, <1>7, <2>1
  <2>3. DataInv' /\ ChecksKept(r)
    BY <1>1, <1>7, <2>1, <2>2, MoveAllData
  <2>4. QED
    BY <1>7, <2>3, SplitEnd
<1>8. ASSUME NEW t, orders' = [orders EXCEPT ![src].table = t], Finish(r),
             UNCHANGED <<lines, kotOrder, nextKot, nextBill, punched>>
      PROVE  SplitInv'
  <2>1. orders'[src] = [orders[src] EXCEPT !.table = t]
    BY <1>1, <1>8
  <2>2. /\ orders'[src].status = orders[src].status /\ orders'[src].splitCount = orders[src].splitCount
        /\ orders'[src].parent = orders[src].parent
    BY <1>1, <2>1 DEF OrderRow
  <2>3. \A y \in Orders \ {src} : orders'[y] = orders[y]
    BY <1>1, <1>8
  <2>4. NotSplit(src)' /\ Exists(src)'
    BY <1>3, <2>2 DEF Mergeable, NotSplit, Exists
  <2>5. \A y \in Orders : PlainRow(y)
    BY <1>3, <1>8, <2>3, <2>4 DEF PlainRow
  <2>6. Billed' = Billed
    <3>1. \A y \in Orders : y \in Billed' <=> y \in Billed
      BY <2>2, <2>3 DEF Billed, Known, Exists
    <3>2. Billed' \subseteq Orders /\ Billed \subseteq Orders
      BY DEF Billed, Known
    <3>3. QED
      BY <3>1, <3>2
  <2>7. LinesOK' /\ EveryUnitBilledOnce' /\ KotsAhead'
    BY <1>1, <1>8, <2>6, SameData
  <2>8. ShapeOK' /\ SplitAccounting' /\ ChecksKept(r)
    BY <1>1, <2>5, PlainStep
  <2>9. DataInv'
    BY <2>7, <2>8 DEF DataInv
  <2>10. QED
    BY <1>8, <2>8, <2>9, SplitEnd
<1>9. ASSUME NEW to \in Orders, src # to, NEW m \in Selections(src), MoveLines(src, to, m), Finish(r),
             \/ UNCHANGED orders /\ Mergeable(to)
             \/ /\ orders[to].status = "NONE" /\ Mergeable(to)'
                /\ \A x \in Orders \ {to} : orders'[x] = orders[x]
      PROVE  SplitInv'
  <2>1. DataInv' /\ ChecksKept(r)
    BY <1>1, <1>3, <1>9, MoveLinesData
  <2>2. QED
    BY <1>9, <2>1, SplitEnd
<1>10. CASE (tgt # NoOrder => Mergeable(tgt)) /\ TransferWhole(r) /\ Finish(r)
  BY <1>4, <1>5, <1>7, <1>8, <1>10 DEF TransferWhole
<1>11. CASE (tgt # NoOrder => Mergeable(tgt)) /\ TransferPart(r) /\ Finish(r)
  <2>1. PICK m \in Selections(src) :
           /\ \/ req[r].o # NoOrder /\ UNCHANGED orders
              \/ /\ req[r].o = NoOrder /\ Fresh # {}
                 /\ orders' = [orders EXCEPT ![NextId] =
                                  [Absent EXCEPT !.status = "OPEN", !.table = req[r].t]]
           /\ MoveLines(src, IF req[r].o # NoOrder THEN req[r].o ELSE NextId, m)
    BY <1>4, <1>11 DEF TransferPart
  <2>2. CASE tgt # NoOrder
    <3>1. UNCHANGED orders /\ MoveLines(src, tgt, m) /\ Mergeable(tgt) /\ tgt \in Orders
      BY <1>5, <1>11, <2>1, <2>2
    <3>2. QED
      BY <1>6, <1>9, <1>11, <3>1
  <2>3. CASE tgt = NoOrder
    <3>1. PICK to \in Orders : to = NextId /\ orders[to].status = "NONE"
      BY <1>5, <2>1, <2>3, NextIdUnused
    <3>2. PICK t : t = req[r].t
      OBVIOUS
    <3>3. MoveLines(src, to, m)
      BY <1>5, <2>1, <2>3, <3>1
    <3>4. orders' = [orders EXCEPT ![to] = [Absent EXCEPT !.status = "OPEN", !.table = t]]
      BY <1>5, <2>1, <2>3, <3>1, <3>2
    <3>5. orders'[to] = [Absent EXCEPT !.status = "OPEN", !.table = t]
      BY <1>1, <3>4
    <3>6. Mergeable(to)' /\ \A x \in Orders \ {to} : orders'[x] = orders[x]
      BY <1>1, <3>4, <3>5 DEF Absent, Mergeable, NotSplit
    <3>7. src # to
      BY <1>3, <3>1 DEF Mergeable
    <3>8. QED
      BY <1>9, <1>11, <3>1, <3>3, <3>6, <3>7
  <2>4. QED
    BY <2>2, <2>3
<1>12. QED
  BY <1>5, <1>10, <1>11, SplitAbort DEF TransferCommit

\* The whole invariant is inductive.
LEMMA NextSplit == BillsInv /\ SplitInv /\ [Next]_vars => SplitInv'
<1> SUFFICES ASSUME BillsInv, SplitInv, [Next]_vars PROVE SplitInv'
  OBVIOUS
<1>1. RowsOK /\ TableInv /\ OrderInv
  BY DEF BillsInv
<1>2. BillsInv'
  BY NextBills
<1>3. RowsOK'
  BY <1>2 DEF BillsInv
<1>4. ASSUME NEW r \in Reqs,
             Submit(r) \/ Acquire(r) \/ NotFound(r) \/ Step(r) \/ DeadlockVictim(r) \/ Fail(r)
      PROVE  SplitInv'
  <2>1. RowsKept(r)
    BY <1>1, <1>4, NextOrders
  <2>2. CASE Submit(r)
    BY <1>1, <2>2, SplitSubmit
  <2>3. CASE Acquire(r)
    BY <1>1, <2>3, SplitAcquire
  <2>4. CASE NotFound(r) \/ DeadlockVictim(r) \/ Fail(r)
    BY <1>1, <2>4, SplitAbort DEF NotFound, DeadlockVictim, Fail
  <2>5. CASE OpenCheck(r) \/ ScanFind(r) \/ ScanReread(r) \/ AddCheck(r) \/ UnsplitParent(r)
    BY <1>1, <2>5, SplitOpenReads
  <2>6. CASE SettleCheck(r) \/ SettleParent(r) \/ SettleCount(r)
    BY <1>1, <2>6, SplitSettleReads
  <2>7. CASE TransferFind(r)
    BY <1>1, <2>7, SplitTransferFind
  <2>8. CASE OpenCommit(r) \/ PunchCommit(r)
    BY <1>1, <1>3, <2>1, <2>8, SplitPunches
  <2>9. CASE SettleCommit(r)
    BY <1>1, <1>3, <2>1, <2>9, SplitSettles
  <2>10. CASE CancelCommit(r) \/ MergeCommit(r)
    BY <1>1, <1>3, <2>1, <2>10, SplitCloses
  <2>11. CASE TransferCommit(r)
    BY <1>1, <1>3, <2>1, <2>11, SplitTransfers
  <2>12. CASE SplitCommit(r)
    BY <1>1, <1>3, <2>1, <2>12, SplitSplits
  <2>13. CASE UnsplitCommit(r)
    BY <1>1, <1>3, <2>1, <2>13, SplitUnsplits
  <2>14. QED
    BY <1>4, <2>2, <2>3, <2>4, <2>5, <2>6, <2>7, <2>8, <2>9, <2>10, <2>11, <2>12, <2>13 DEF Step
<1>5. CASE UNCHANGED vars
  <2>1. UNCHANGED db /\ UNCHANGED <<orders, lock, req>>
    BY <1>5 DEF vars, db
  <2>2. DataInv'
    BY <2>1, DataKept DEF SplitInv
  <2>3. ASSUME NEW r \in Reqs PROVE SplitHeld(r)'
    <3>1. SplitHeld(r) /\ req' = req /\ orders' = orders /\ lock' = lock
      BY <2>1 DEF SplitInv
    <3>2. \A p : OpenChecks(p)' = OpenChecks(p)
      BY <3>1 DEF OpenChecks, Children, Exists
    <3>3. QED
      BY <3>1, <3>2 DEF SplitHeld, Counted
  <2>4. QED
    BY <2>2, <2>3 DEF SplitInv
<1>6. QED
  BY <1>4, <1>5 DEF Next

\* An empty database satisfies it.
LEMMA InitSplit == Init => SplitInv
<1> SUFFICES ASSUME Init PROVE SplitInv
  OBVIOUS
<1>1. \A o \in Orders : orders[o] = Absent /\ lines[o] = NoLines
  BY DEF Init
<1>2. \A o \in Orders : /\ orders[o].status = "NONE" /\ orders[o].splitCount = 0
                        /\ orders[o].parent = NoOrder /\ ~Exists(o)
  BY <1>1 DEF Absent, Exists
<1>3. LinesOK
  BY DEF Init, LinesOK, NoLines
<1>4. ShapeOK
  BY <1>1, <1>2 DEF ShapeOK, RowShape, NotSplit
<1>5. Known = {} /\ Billed = {}
  BY <1>2 DEF Known, Billed
<1>6. SplitAccounting
  BY <1>5 DEF SplitAccounting
<1>7. ASSUME NEW k \in Kots PROVE UnitsOn(lines, Billed, k) = punched[k]
  <2>1. PICK S \in SUBSET Orders : S = Billed /\ S = {}
    BY <1>5
  <2>2. PICK c : c = Col(lines, k)
    OBVIOUS
  <2>3. IsFiniteSet(S) /\ UnitsOn(lines, S, k) = Total(S, c)
    BY <2>2, UnitsTotal
  <2>4. Total(S, c) = 0
    BY <2>1, <2>3, TotalStep
  <2>5. punched[k] = 0
    BY DEF Init, NoLines
  <2>6. QED
    BY <2>1, <2>3, <2>4, <2>5
<1>8. EveryUnitBilledOnce
  BY <1>7 DEF EveryUnitBilledOnce
<1>9. KotsAhead
  BY DEF Init, KotsAhead, NoLines
<1>10. ASSUME NEW r \in Reqs PROVE SplitHeld(r)
  <2>1. req[r].pc = "idle"
    BY DEF Init, Idle
  <2>2. QED
    BY <2>1 DEF SplitHeld
<1>11. QED
  BY <1>3, <1>4, <1>6, <1>8, <1>9, <1>10 DEF SplitInv, DataInv

\* In every state the rows, lines and KOTs have their types, the checks of a
\* split bill agree with it, and every unit punched is on one bill.
LEMMA BillsHold == Spec => [](BillsInv /\ SplitInv)
<1>1. Init => BillsInv
  BY InitTables, InitOrders DEF BillsInv
<1>2. QED
  BY <1>1, InitSplit, NextBills, NextSplit, PTL DEF Spec

\* Every variable keeps its type; in particular no line ever holds a negative
\* quantity, although transfers take units off lines other requests read.
THEOREM BillTypes == Spec => []TypeOK
<1>1. BillsInv /\ SplitInv => TypeOK
  BY DEF BillsInv, SplitInv, DataInv, LinesOK, TypeOK
<1>2. QED
  BY <1>1, BillsHold, PTL

\* The checks of a split bill are as many as it says, share its lines out
\* exactly, and it is closed as SPLIT exactly when the last of them has settled,
\* however settlements of its checks, unsplits and rollbacks interleave.
THEOREM SplitBillsAgree == Spec => []SplitAccounting
<1>1. SplitInv => SplitAccounting
  BY DEF SplitInv, DataInv
<1>2. QED
  BY <1>1, BillsHold, PTL

\* Merge, transfer, split and unsplit of any number of requests neither lose a
\* unit the kitchen was sent nor charge it twice.
THEOREM UnitsBilledOnce == Spec => []EveryUnitBilledOnce
<1>1. SplitInv => EveryUnitBilledOnce
  BY DEF SplitInv, DataInv
<1>2. QED
  BY <1>1, BillsHold, PTL

\* However bills are opened on, moved between and split at any number of tables,
\* no table is double-booked, no unit is lost and every check adds up.
THEOREM BillsMoveSoundly == Spec => []MovesSound
<1>1. TableInv /\ SplitInv => MovesSound
  BY DEF TableInv, SplitInv, DataInv, MovesSound
<1>2. BillsInv => TableInv
  BY DEF BillsInv
<1>3. QED
  BY <1>1, <1>2, BillsHold, PTL

----------------------------------------------------------------------------
(* Turns: outside the steps that lock out of turn, a request waits only for *)
(* rows greater than those it holds, and for the outlet's counter last.     *)

Held(r) == {row \in Rows : lock[row] = r}
CounterPCs == {"open_commit", "punch_commit", "settle_parent", "settle_count", "settle_commit"}
InTurn(r) ==
    /\ req[r].pc = "idle" => Held(r) = {} /\ req[r].want = {}
    /\ req[r].pc = "scan_find" => req[r].want \subseteq Tables /\ Held(r) \subseteq Tables
    /\ req[r].pc \notin CounterPCs => Outlet \notin req[r].want \cup Held(r)
    /\ ~OutOfTurn(r) =>
          /\ Outlet \in req[r].want => req[r].want = {Outlet}
          /\ Outlet \in Held(r) => req[r].want = {}
          /\ \A row \in Held(r) : \A w \in req[r].want \ {Outlet} : row < w
TurnInv == RowsOK /\ \A r \in Reqs : InTurn(r)

\* no other request changes, and none of them is granted a row
GrantsNoOther(r) == \A s \in Reqs \ {r} : req'[s] = req[s] /\ Held(s)' \subseteq Held(s)

\* Rows are numbers.
LEMMA RowsAreNumbers ==
    /\ Rows \subseteq Nat /\ Outlet \in Rows /\ Free \notin Reqs
    /\ Outlet \notin Tables /\ Outlet \notin Orders
    /\ Tables \subseteq Rows /\ Orders \subseteq Rows
BY BillsAssumption DEF Rows

\* A step of one request that grants no other a row leaves the others in turn.
LEMMA OthersInTurn ==
    ASSUME NEW r \in Reqs, GrantsNoOther(r), \A s \in Reqs : InTurn(s)
    PROVE  \A s \in Reqs \ {r} : InTurn(s)'
BY DEF GrantsNoOther, InTurn, OutOfTurn

\* Ending a transaction leaves its request idle, with nothing held.
LEMMA TurnEnds ==
    ASSUME RowsOK, NEW r \in Reqs, Finish(r), \A s \in Reqs : InTurn(s)
    PROVE  \A s \in Reqs : InTurn(s)'
<1>1. req'[r] = Idle /\ Held(r)' = {}
  BY RowsAreNumbers DEF Finish, Held, RowsOK
<1>2. InTurn(r)'
  BY <1>1 DEF InTurn, Idle, OutOfTurn
<1>3. GrantsNoOther(r)
  BY RowsAreNumbers DEF GrantsNoOther, Finish, Held, RowsOK
<1>4. QED
  BY <1>2, <1>3, OthersInTurn

\* A request starts with nothing held, so whatever it waits for is in turn.
LEMMA TurnBegins ==
    ASSUME RowsOK, NEW r \in Reqs, NEW rec, Begin(r, rec), \A s \in Reqs : InTurn(s),
           rec.pc # "idle", rec.pc = "scan_find" => rec.want \subseteq Tables,
           Outlet \in rec.want => rec.pc \in CounterPCs /\ rec.want = {Outlet}
    PROVE  \A s \in Reqs : InTurn(s)'
<1>1. req'[r] = rec /\ UNCHANGED lock /\ req[r].pc = "idle"
  BY DEF Begin, RowsOK
<1>2. Held(r)' = {}
  BY <1>1 DEF InTurn, Held
<1>3. InTurn(r)'
  BY <1>1, <1>2 DEF InTurn
<1>4. GrantsNoOther(r)
  BY <1>1 DEF GrantsNoOther, Begin, Held, RowsOK
<1>5. QED
  BY <1>3, <1>4, OthersInTurn

\* Every request the API accepts starts so.
LEMMA TurnSubmits ==
    ASSUME RowsOK, NEW r \in Reqs, Submit(r), \A s \in Reqs : InTurn(s)
    PROVE  \A s \in Reqs : InTurn(s)'
<1> USE RowsAreNumbers DEF Idle, CounterPCs
<1>1. ASSUME NEW t \in Tables \cup {NoTable}, BeginOpen(r, t) PROVE \A s \in Reqs : InTurn(s)'
  <2>1. CASE t = NoTable
    BY <1>1, <2>1, TurnBegins DEF BeginOpen
  <2>2. CASE t # NoTable
    BY <1>1, <2>2, TurnBegins DEF BeginOpen
  <2>3. QED
    BY <2>1, <2>2
<1>2. ASSUME NEW t \in Tables, BeginScan(r, t) PROVE \A s \in Reqs : InTurn(s)'
  BY <1>2, TurnBegins DEF BeginScan
<1>3. ASSUME NEW o \in Orders, BeginAdd(r, o) \/ BeginCancel(r, o) \/ BeginSplit(r, o) \/ BeginSettle(r, o)
      PROVE  \A s \in Reqs : InTurn(s)'
  <2>1. CASE BeginAdd(r, o)
    BY <2>1, TurnBegins DEF BeginAdd
  <2>2. CASE BeginCancel(r, o)
    BY <2>2, TurnBegins DEF BeginCancel
  <2>3. CASE BeginSplit(r, o)
    BY <2>3, TurnBegins DEF BeginSplit
  <2>4. CASE BeginSettle(r, o)
    BY <2>4, TurnBegins DEF BeginSettle
  <2>5. QED
    BY <1>3, <2>1, <2>2, <2>3, <2>4
<1>4. ASSUME NEW o \in Orders, BeginUnsplit(r, o) PROVE \A s \in Reqs : InTurn(s)'
  <2>1. Outlet \notin Children(o)
    BY DEF Children
  <2>2. QED
    BY <1>4, <2>1, TurnBegins DEF BeginUnsplit
<1>5. ASSUME NEW o \in Orders, NEW to \in Tables, BeginTransfer(r, o, to) PROVE \A s \in Reqs : InTurn(s)'
  <2>1. Outlet \notin ({orders[o].table, to} \ {NoTable}) \cup {o}
    BY DEF RowsOK, OrderRow
  <2>2. QED
    BY <1>5, <2>1, TurnBegins DEF BeginTransfer
<1>6. ASSUME NEW tgt \in Orders, NEW srcs \in SUBSET Orders, BeginMerge(r, tgt, srcs)
      PROVE  \A s \in Reqs : InTurn(s)'
  <2> DEFINE all == srcs \cup {tgt}
             tables == {orders[o].table : o \in all} \ {NoTable}
             rec == [Idle EXCEPT !.pc = "merge_commit", !.want = tables \cup all, !.o = tgt, !.others = srcs]
  <2>1. tables \subseteq Tables
    BY DEF RowsOK, OrderRow
  <2>2. Outlet \notin tables \cup all
    BY <2>1
  <2>3. Begin(r, rec)
    BY <1>6 DEF BeginMerge
  <2>4. rec.pc = "merge_commit" /\ rec.want = tables \cup all
    OBVIOUS
  <2> HIDE DEF rec
  <2>5. QED
    BY <2>2, <2>3, <2>4, TurnBegins
<1>7. QED
  BY <1>1, <1>2, <1>3, <1>4, <1>5, <1>6 DEF Submit, Offered, Known

\* The least row awaited is taken first.
LEMMA TurnAcquires ==
    ASSUME RowsOK, NEW r \in Reqs, Acquire(r), \A s \in Reqs : InTurn(s)
    PROVE  \A s \in Reqs : InTurn(s)'
<1> DEFINE row == Min(req[r].want)
<1>1. /\ lock' = [lock EXCEPT ![row] = r] /\ UNCHANGED db /\ lock[row] = Free
      /\ req' = [req EXCEPT ![r].want = @ \ {row}] /\ Cardinality(req[r].want) > 1
  BY DEF Acquire
<1>2. req[r] \in Request /\ req[r].want \in SUBSET Nat /\ req[r].want \subseteq Rows
  BY RowsAreNumbers DEF RowsOK, Request
<1>3. req[r].want # {} /\ req[r].want # {Outlet}
  <2>1. Cardinality({}) = 0 /\ Cardinality({Outlet}) = 1
    BY FS_EmptySet, FS_Singleton
  <2>2. QED
    BY <1>1, <2>1
<1>4. row \in req[r].want /\ \A x \in req[r].want : row <= x
  BY <1>2, <1>3, MinIn
<1> HIDE DEF row
<1>5. req'[r].pc = req[r].pc /\ req'[r].want = req[r].want \ {row}
  BY <1>1, <1>2 DEF RowsOK, Request
<1>6. Held(r)' = Held(r) \cup {row}
  BY <1>1, <1>2, <1>4 DEF Held, RowsOK
<1>7. InTurn(r) /\ (OutOfTurn(r)' <=> OutOfTurn(r))
  BY <1>5 DEF OutOfTurn
<1>8. InTurn(r)'
  <2>1. req'[r].pc # "idle" /\ (Outlet \in req[r].want => OutOfTurn(r))
    BY <1>3, <1>5, <1>7 DEF InTurn
  <2>2. Outlet \in Held(r) => OutOfTurn(r)
    BY <1>3, <1>7 DEF InTurn
  <2>3. \A x \in req'[r].want : row < x
    BY <1>2, <1>4, <1>5
  <2>4. req'[r].pc = "scan_find" => req'[r].want \subseteq Tables /\ Held(r)' \subseteq Tables
    BY <1>4, <1>5, <1>6, <1>7 DEF InTurn
  <2>5. req'[r].pc \notin CounterPCs => Outlet \notin req'[r].want \cup Held(r)'
    BY <1>4, <1>5, <1>6, <1>7 DEF InTurn
  <2>6. ASSUME ~OutOfTurn(r)
        PROVE  /\ Outlet \notin req'[r].want /\ Outlet \notin Held(r)'
               /\ \A x \in Held(r)' : \A w \in req'[r].want \ {Outlet} : x < w
    BY <1>4, <1>5, <1>6, <1>7, <2>1, <2>2, <2>3, <2>6 DEF InTurn
  <2>7. QED
    BY <1>7, <2>1, <2>4, <2>5, <2>6 DEF InTurn
<1>9. GrantsNoOther(r)
  BY <1>1, <1>2, <1>4 DEF GrantsNoOther, Held, RowsOK
<1>10. QED
  BY <1>8, <1>9, OthersInTurn

\* A step to the next lock wait keeps what was held and takes what was awaited.
LEMMA TurnHolds ==
    ASSUME RowsOK, NEW r \in Reqs, NEW pc, At(r, pc), Hold(r), \A s \in Reqs \ {r} : req'[s] = req[s]
    PROVE  Held(r)' = Held(r) \cup req[r].want /\ GrantsNoOther(r)
<1>1. req[r].want \subseteq Rows
  BY DEF RowsOK, Request
<1>2. Held(r)' = Held(r) \cup req[r].want
  BY <1>1 DEF Hold, Held
<1>3. GrantsNoOther(r)
  BY DEF Hold, Held, GrantsNoOther
<1>4. QED
  BY <1>2, <1>3

\* From a step that has not touched it, the outlet's counter is awaited last.
LEMMA TurnToCounter ==
    ASSUME RowsOK, NEW r \in Reqs, NEW pc, At(r, pc), \A s \in Reqs : InTurn(s),
           pc \notin CounterPCs, Hold(r), \A s \in Reqs \ {r} : req'[s] = req[s],
           req'[r].pc \in CounterPCs \ {"settle_count"}, req'[r].want = {Outlet}
    PROVE  \A s \in Reqs : InTurn(s)'
<1>1. req[r].pc = pc /\ InTurn(r)
  BY DEF At
<1>2. Held(r)' = Held(r) \cup req[r].want /\ GrantsNoOther(r)
  BY TurnHolds
<1>3. Outlet \notin Held(r)'
  BY <1>1, <1>2 DEF InTurn
<1>4. InTurn(r)'
  BY <1>3 DEF InTurn, CounterPCs
<1>5. QED
  BY <1>2, <1>4, OthersInTurn

\* From a step that has not touched it, a request may go on out of turn.
LEMMA TurnLeft ==
    ASSUME RowsOK, NEW r \in Reqs, NEW pc, At(r, pc), \A s \in Reqs : InTurn(s),
           pc \notin CounterPCs, Hold(r), \A s \in Reqs \ {r} : req'[s] = req[s],
           req'[r].pc \in {"transfer_commit", "unsplit_commit"}, Outlet \notin req'[r].want
    PROVE  \A s \in Reqs : InTurn(s)'
<1>1. req[r].pc = pc /\ InTurn(r)
  BY DEF At
<1>2. Held(r)' = Held(r) \cup req[r].want /\ GrantsNoOther(r)
  BY TurnHolds
<1>3. Outlet \notin Held(r)'
  BY <1>1, <1>2 DEF InTurn
<1>4. InTurn(r)'
  BY <1>3 DEF InTurn, OutOfTurn
<1>5. QED
  BY <1>2, <1>4, OthersInTurn

\* What Goto does to its request.
LEMMA GotoRequest ==
    ASSUME RowsOK, NEW r \in Reqs, NEW pc, NEW want, Goto(r, pc, want)
    PROVE  /\ req'[r].pc = pc /\ req'[r].want = want /\ Hold(r)
           /\ \A s \in Reqs \ {r} : req'[s] = req[s]
BY DEF Goto, RowsOK, Request

\* Every step of a running request keeps the turns.
LEMMA TurnSteps ==
    ASSUME RowsOK, NEW r \in Reqs, Step(r), \A s \in Reqs : InTurn(s)
    PROVE  \A s \in Reqs : InTurn(s)'
<1> USE RowsAreNumbers
<1>1. req[r] \in Request /\ InTurn(r)
  BY DEF RowsOK
<1>2. ASSUME Finish(r) \/ Abort(r) PROVE \A s \in Reqs : InTurn(s)'
  BY <1>2, TurnEnds DEF Abort
<1>3. ASSUME NEW pc, At(r, pc), pc \notin CounterPCs, NEW pc2 \in CounterPCs \ {"settle_count"}, Goto(r, pc2, {Outlet})
      PROVE  \A s \in Reqs : InTurn(s)'
  BY <1>3, GotoRequest, TurnToCounter
<1>4. CASE OpenCheck(r)
  BY <1>2, <1>3, <1>4 DEF OpenCheck, CounterPCs
<1>5. CASE ScanFind(r)
  <2>1. At(r, "scan_find") /\ req[r].want \subseteq Tables /\ Held(r) \subseteq Tables
    BY <1>1, <1>5 DEF ScanFind, At, InTurn
  <2>2. ASSUME NEW o \in OpenOn(req[r].t), Hold(r),
               req' = [req EXCEPT ![r].pc = "scan_reread", ![r].want = {o}, ![r].o = o]
        PROVE  \A s \in Reqs : InTurn(s)'
    <3>1. req'[r].pc = "scan_reread" /\ req'[r].want = {o} /\ \A s \in Reqs \ {r} : req'[s] = req[s]
      BY <1>1, <2>2 DEF RowsOK, Request
    <3>2. Held(r)' \subseteq Tables /\ GrantsNoOther(r)
      BY <2>1, <2>2, <3>1, TurnHolds
    <3>3. o \in Orders /\ \A t \in Tables : t < o
      BY BillsAssumption DEF OpenOn
    <3>4. InTurn(r)'
      BY <3>1, <3>2, <3>3 DEF InTurn, CounterPCs
    <3>5. QED
      BY <3>2, <3>4, OthersInTurn
  <2>3. QED
    BY <1>3, <1>5, <2>1, <2>2 DEF ScanFind, CounterPCs
<1>6. CASE ScanReread(r)
  BY <1>2, <1>3, <1>6 DEF ScanReread, CounterPCs
<1>7. CASE AddCheck(r)
  BY <1>2, <1>3, <1>7 DEF AddCheck, CounterPCs
<1>8. CASE SettleCheck(r)
  <2>1. At(r, "settle_check")
    BY <1>8 DEF SettleCheck
  <2>2. ASSUME NEW row, Hold(r),
               req' = [req EXCEPT ![r].pc = "settle_parent", ![r].want = {Outlet}, ![r].others = {row}]
        PROVE  \A s \in Reqs : InTurn(s)'
    <3>1. req'[r].pc = "settle_parent" /\ req'[r].want = {Outlet} /\ \A s \in Reqs \ {r} : req'[s] = req[s]
      BY <1>1, <2>2 DEF RowsOK, Request
    <3>2. QED
      BY <2>1, <2>2, <3>1, TurnToCounter DEF CounterPCs
  <2>3. QED
    BY <1>2, <1>3, <1>8, <2>1, <2>2 DEF SettleCheck, CounterPCs
<1>9. CASE SettleParent(r)
  <2>1. At(r, "settle_parent") /\ Goto(r, "settle_count", req[r].others)
    BY <1>9 DEF SettleParent
  <2>2. InTurn(r)' /\ GrantsNoOther(r)
    BY <2>1, GotoRequest, TurnHolds DEF InTurn, OutOfTurn, CounterPCs
  <2>3. QED
    BY <2>2, OthersInTurn
<1>10. CASE SettleCount(r)
  <2> DEFINE last == OpenChecks(Other(r)) \ {req[r].o} = {} /\ orders[Other(r)].status = "OPEN"
  <2>1. At(r, "settle_count") /\ Hold(r)
        /\ req' = [req EXCEPT ![r].pc = "settle_commit", ![r].want = {}, ![r].last = last]
    BY <1>10 DEF SettleCount, CountChecks
  <2> HIDE DEF last
  <2>2. req'[r].pc = "settle_commit" /\ req'[r].want = {} /\ \A s \in Reqs \ {r} : req'[s] = req[s]
    BY <1>1, <2>1 DEF RowsOK, Request
  <2>3. InTurn(r)' /\ GrantsNoOther(r)
    BY <2>1, <2>2, TurnHolds DEF InTurn, CounterPCs
  <2>4. QED
    BY <2>3, OthersInTurn
<1>11. CASE TransferFind(r)
  <2>1. At(r, "transfer_find")
    BY <1>11 DEF TransferFind
  <2>2. ASSUME NEW o \in OpenOn(req[r].t), Hold(r),
               req' = [req EXCEPT ![r].pc = "transfer_commit", ![r].want = {o}, ![r].o = o]
        PROVE  \A s \in Reqs : InTurn(s)'
    <3>1. req'[r].pc = "transfer_commit" /\ req'[r].want = {o} /\ \A s \in Reqs \ {r} : req'[s] = req[s]
      BY <1>1, <2>2 DEF RowsOK, Request
    <3>2. o \in Orders
      BY DEF OpenOn
    <3>3. QED
      BY <2>1, <2>2, <3>1, <3>2, TurnLeft DEF CounterPCs
  <2>3. ASSUME Goto(r, "transfer_commit", {}) PROVE \A s \in Reqs : InTurn(s)'
    BY <2>1, <2>3, GotoRequest, TurnLeft DEF CounterPCs
  <2>4. QED
    BY <1>2, <1>11, <2>2, <2>3 DEF TransferFind
<1>12. CASE UnsplitParent(r)
  <2>1. At(r, "unsplit_parent") /\ Goto(r, "unsplit_commit", {req[r].o})
    BY <1>12 DEF UnsplitParent
  <2>2. req[r].o # Outlet
    BY <1>1, <2>1 DEF At, Request, WithOrder, PCs
  <2>3. QED
    BY <2>1, <2>2, GotoRequest, TurnLeft DEF CounterPCs
<1>13. CASE OpenCommit(r) \/ PunchCommit(r) \/ SettleCommit(r) \/ CancelCommit(r)
  BY <1>2, <1>13 DEF OpenCommit, PunchCommit, SettleCommit, CancelCommit
<1>14. CASE MergeCommit(r) \/ TransferCommit(r) \/ SplitCommit(r) \/ UnsplitCommit(r)
  BY <1>2, <1>14 DEF MergeCommit, TransferCommit, SplitCommit, UnsplitCommit
<1>15. QED
  BY <1>4, <1>5, <1>6, <1>7, <1>8, <1>9, <1>10, <1>11, <1>12, <1>13, <1>14 DEF Step

\* Every step keeps the turns.
LEMMA NextTurns == TurnInv /\ TableInv /\ [Next]_vars => TurnInv'
<1> SUFFICES ASSUME TurnInv, TableInv, [Next]_vars PROVE TurnInv'
  OBVIOUS
<1>1. RowsOK'
  BY NextTables DEF TurnInv
<1>2. CASE UNCHANGED vars
  BY <1>1, <1>2 DEF vars, TurnInv, InTurn, Held, OutOfTurn
<1>3. ASSUME NEW r \in Reqs, NotFound(r) \/ DeadlockVictim(r) \/ Fail(r) PROVE \A s \in Reqs : InTurn(s)'
  BY <1>3, TurnEnds DEF NotFound, DeadlockVictim, Fail, Abort, TurnInv
<1>4. QED
  BY <1>1, <1>2, <1>3, TurnSubmits, TurnAcquires, TurnSteps DEF Next, TurnInv

\* Of requests that all wait for each other in turn there is none: whoever is
\* waited for waits for a greater row.
LEMMA TurnsDoNotCircle == TurnInv => CirclesOutOfTurn
<1> SUFFICES ASSUME TurnInv, NEW C \in SUBSET Reqs, LockCycle(C), \A r \in C : ~OutOfTurn(r) PROVE FALSE
  BY DEF CirclesOutOfTurn
<1>1. PICK next : next = [r \in C |-> Min(req[r].want)]
  OBVIOUS
<1>2. ASSUME NEW r \in C PROVE next[r] \in req[r].want /\ next[r] \in Rows /\ InTurn(r)
  <2>1. req[r].want # {}
    BY DEF LockCycle, WaitsFor
  <2>2. req[r].want \subseteq Rows /\ req[r].want \in SUBSET Nat
    BY RowsAreNumbers DEF TurnInv, RowsOK, Request
  <2>3. QED
    BY <1>1, <2>1, <2>2, MinIn DEF TurnInv
<1>3. ASSUME NEW r \in C PROVE \E s \in C : next[r] \in Held(s) /\ next[r] # Outlet
  <2>1. PICK s \in C : lock[next[r]] = s
    BY <1>1 DEF LockCycle, WaitsFor
  <2>2. next[r] \in Held(s)
    BY <1>2, <2>1 DEF Held
  <2>3. req[s].want # {} /\ InTurn(s)
    BY <1>2
  <2>4. next[r] # Outlet
    BY <2>2, <2>3 DEF InTurn
  <2>5. QED
    BY <2>2, <2>4
<1>4. PICK N : N = {next[r] : r \in C}
  OBVIOUS
<1>5. N \in SUBSET Int /\ N # {} /\ IsFiniteSet(N)
  <2>1. C # {}
    BY DEF LockCycle
  <2>2. IsFiniteSet(Rows)
    BY BillsAssumption, FS_Union, FS_Singleton DEF Rows
  <2>3. N \subseteq Rows
    BY <1>2, <1>4
  <2>4. IsFiniteSet(N)
    BY <2>2, <2>3, FS_Subset
  <2>5. N # {}
    BY <1>4, <2>1
  <2>6. N \in SUBSET Int
    BY <2>3, RowsAreNumbers
  <2>7. QED
    BY <2>4, <2>5, <2>6
<1>6. Max(N) \in N /\ \A n \in N : n <= Max(N)
  BY <1>5, GreatestOf
<1>7. PICK r \in C : next[r] = Max(N)
  BY <1>4, <1>6
<1>8. PICK s \in C : next[r] \in Held(s) /\ next[r] # Outlet
  BY <1>3
<1>9. next[s] \in req[s].want /\ next[s] # Outlet /\ InTurn(s) /\ next[s] \in Nat /\ next[r] \in Nat
  BY <1>2, <1>3, RowsAreNumbers
<1>10. next[r] < next[s]
  BY <1>8, <1>9 DEF InTurn
<1>11. next[s] <= next[r]
  BY <1>4, <1>6, <1>7
<1>12. QED
  BY <1>9, <1>10, <1>11

\* Requests wait for each other in a circle only through a row locked out of
\* turn: by a transfer the bill it found on the target table, by a check's
\* settlement its parent, by an unsplit the bill after its checks.
THEOREM CirclesTurnOut == Spec => []CirclesOutOfTurn
<1>1. Init => TurnInv
  <2>1. ASSUME Init PROVE RowsOK
    BY <2>1, InitTables
  <2>2. ASSUME Init, NEW r \in Reqs PROVE InTurn(r)
    <3>1. Held(r) = {} /\ req[r] = Idle
      BY <2>2, RowsAreNumbers DEF Init, Held
    <3>2. QED
      BY <3>1 DEF InTurn, Idle
  <2>3. QED
    BY <2>1, <2>2 DEF TurnInv
<1>2. QED
  BY <1>1, InitTables, NextTables, NextTurns, TurnsDoNotCircle, PTL DEF Spec
=============================================================================

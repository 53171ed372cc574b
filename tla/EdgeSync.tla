------------------------------ MODULE EdgeSync -----------------------------
(***************************************************************************)
(* Offline billing of one edge device and its delivery to the cloud:       *)
(* apps/edge/sidecar/engine.js (the device, one SQLite transaction per     *)
(* operation), apps/edge/sidecar/server.js (the sync loop, one sync at a   *)
(* time) and apps/api/src/edge/edge-ingest.service.ts (the cloud).         *)
(*                                                                         *)
(* The device queues closed orders and kitchen progress in its outbox and  *)
(* pushes them in batches until the cloud answers.  A push is handled by   *)
(* the cloud in a slot; the device may give up on it, restart and push     *)
(* again while the cloud still works on the first delivery.  A device whose *)
(* disk is lost comes back with a new activation and a fresh series.       *)
(***************************************************************************)
EXTENDS Naturals, FiniteSets, FiniteSetsExt

CONSTANTS
    Orders,     \* client ids of orders opened on the device
    Bad,        \* orders whose figures or catalog references the cloud refuses
    Malformed,  \* orders with a field the cloud's schema of a push does not admit
    Preps,      \* kitchen statuses a ticket may be bumped to
    NewPrep,    \* the status of a fresh ticket
    Slots,      \* concurrent deliveries in the cloud
    MaxSeries,  \* bound on activations of the device
    MaxEntries, \* bound on outbox entries
    Batch,      \* PUSH_BATCH
    NoSlot

ASSUME EdgeAssumption ==
    /\ Bad \subseteq Orders /\ Malformed \subseteq Orders /\ NewPrep \in Preps
    /\ MaxSeries \in Nat \ {0} /\ MaxEntries \in Nat /\ Batch \in Nat \ {0}
    /\ NoSlot \notin Slots

VARIABLES
    local,      \* the device's orders table
    outbox,     \* the device's outbox table
    nextEntry,  \* next outbox id
    series,     \* the device's invoice series, 0 when it has none
    lastSeq,    \* bill_series: last number drawn, per series
    push,       \* the slot whose answer the sync loop awaits
    slot,       \* deliveries being handled by the cloud
    cloud,      \* the cloud's orders of this device
    invoices,   \* edge_invoice_seqs: invoice numbers filed
    refused,    \* orders kept as REJECTED conflicts
    issued,     \* the series of the device's last activation in the cloud
    activating, \* an activation whose answer the device has not stored
    printed,    \* history: the invoice number on each customer's bill
    sold        \* history: times a sale's payments, stock and coupon were booked

device == <<local, outbox, nextEntry, series, lastSeq, printed>>
link == <<push, slot>>
server == <<cloud, invoices, refused, sold>>
keys == <<issued, activating>>
vars == <<device, link, server, keys>>

NoNumber == <<0, 0>>
\* a number of the outlet's online series
Fallback == <<0, 1>>
Numbers == ((1..MaxSeries) \X (Nat \ {0})) \cup {NoNumber}
LocalRow == [status : {"NONE", "OPEN", "SETTLED", "CANCELLED", "PURGED", "WIPED"}, prep : Preps,
             sync : {"local", "queued", "synced", "conflict", "rejected"}, number : Numbers]
NoRow == [status |-> "NONE", prep |-> NewPrep, sync |-> "local", number |-> NoNumber]

Entry == [id : Nat, kind : {"ORDER", "KOT_STATUS"}, order : Orders, prep : Preps,
          status : {"pending", "done", "conflict", "rejected"}, retried : BOOLEAN]
Op == [id : Nat, kind : {"ORDER", "KOT_STATUS"}, order : Orders, prep : Preps,
       status : {"SETTLED", "CANCELLED"}, number : Numbers]
Results == {"applied", "duplicate", "conflict", "rejected", "retry"}
Delivery == [state : {"free", "busy"}, todo : SUBSET Op, checked : BOOLEAN,
             results : SUBSET [id : Nat, order : Orders, kind : {"ORDER", "KOT_STATUS"}, status : Results]]
FreeSlot == [state |-> "free", todo |-> {}, checked |-> FALSE, results |-> {}]
CloudRow == [status : {"NONE", "SETTLED", "CANCELLED"}, prep : Preps,
             number : Numbers \cup {Fallback}]
NoCloudRow == [status |-> "NONE", prep |-> NewPrep, number |-> NoNumber]

Init ==
    /\ local = [o \in Orders |-> NoRow]
    /\ outbox = {}
    /\ nextEntry = 1
    /\ series = 1
    /\ lastSeq = [s \in 1..MaxSeries |-> 0]
    /\ push = NoSlot
    /\ slot = [s \in Slots |-> FreeSlot]
    /\ cloud = [o \in Orders |-> NoCloudRow]
    /\ invoices = {}
    /\ refused = {}
    /\ issued = 1
    /\ activating = FALSE
    /\ printed = [o \in Orders |-> NoNumber]
    /\ sold = [o \in Orders |-> 0]

----------------------------------------------------------------------------
(* The device: every operation is one SQLite transaction. *)

\* _enqueue
Enqueue(kind, o, prep) ==
    /\ nextEntry <= MaxEntries
    /\ outbox' = outbox \cup {[id |-> nextEntry, kind |-> kind, order |-> o, prep |-> prep,
                               status |-> "pending", retried |-> FALSE]}
    /\ nextEntry' = nextEntry + 1

\* createOrder; addItems changes only what is on the bill
CreateOrder(o) ==
    /\ local[o].status = "NONE" /\ series # 0
    /\ local' = [local EXCEPT ![o].status = "OPEN"]
    /\ UNCHANGED <<outbox, nextEntry, series, lastSeq, printed, link, server, keys>>

\* the next number of the device's series, the bill and its outbox entry together
SettleOrder(o) ==
    LET number == <<series, lastSeq[series] + 1>>
    IN  /\ local[o].status = "OPEN" /\ series # 0
        /\ local' = [local EXCEPT ![o].status = "SETTLED", ![o].sync = "queued", ![o].number = number]
        /\ lastSeq' = [lastSeq EXCEPT ![series] = @ + 1]
        /\ Enqueue("ORDER", o, NewPrep)
        /\ printed' = [printed EXCEPT ![o] = number]
        /\ UNCHANGED <<series, link, server, keys>>

CancelOrder(o) ==
    /\ local[o].status = "OPEN"
    /\ local' = [local EXCEPT ![o].status = "CANCELLED", ![o].sync = "queued"]
    /\ Enqueue("ORDER", o, NewPrep)
    /\ UNCHANGED <<series, lastSeq, printed, link, server, keys>>

\* the order's own outbox entry has been accepted by the cloud
Accepted(o) == \E e \in outbox : e.kind = "ORDER" /\ e.order = o /\ e.status \in {"done", "conflict"}

\* advanceTicket: a cancelled order has no tickets; progress is queued only
\* once the order itself was accepted
AdvanceTicket(o, prep) ==
    /\ local[o].status \in {"OPEN", "SETTLED"}
    /\ local' = [local EXCEPT ![o].prep = prep]
    /\ \/ Accepted(o) /\ Enqueue("KOT_STATUS", o, prep)
       \/ ~Accepted(o) /\ UNCHANGED <<outbox, nextEntry>>
    /\ UNCHANGED <<series, lastSeq, printed, link, server, keys>>

\* variant: closed orders are purged by age alone
PurgeableByAge(o) == local[o].status \in {"SETTLED", "CANCELLED"}

\* old enough and durably accepted
Purgeable(o) == local[o].status \in {"SETTLED", "CANCELLED"} /\ local[o].sync \in {"synced", "conflict"}

\* purge runs between syncs; outbox rows age out before orders do
Purge(o) ==
    /\ push = NoSlot
    /\ LET old == {e \in outbox : e.order = o /\ e.status \in {"done", "conflict"}}
       IN  /\ outbox' = outbox \ old
           /\ \/ old # {} /\ UNCHANGED local
              \/ Purgeable(o) /\ local' = [local EXCEPT ![o] = [NoRow EXCEPT !.status = "PURGED"]]
    /\ UNCHANGED <<nextEntry, series, lastSeq, printed, link, server, keys>>

\* a delivery whose answer nobody awaits goes on, and ends with its last operation
Unheard(d) == IF d.todo = {} THEN FreeSlot ELSE [d EXCEPT !.results = {}]

\* The disk is lost: orders, outbox, counters and series are gone.  No answer to
\* the old disk is heard, so it does not matter that outbox ids go on.
Wipe ==
    /\ local' = [o \in Orders |-> IF local[o].status = "NONE" THEN local[o] ELSE [NoRow EXCEPT !.status = "WIPED"]]
    /\ outbox' = {}
    /\ series' = 0
    /\ lastSeq' = [s \in 1..MaxSeries |-> 0]
    /\ activating' = FALSE
    /\ push' = NoSlot
    /\ slot' = [s \in Slots |-> IF push = s THEN Unheard(slot[s]) ELSE slot[s]]
    /\ UNCHANGED <<nextEntry, printed, server, issued>>

----------------------------------------------------------------------------
(* Pushing the outbox. *)

Pending == {e \in outbox : e.status = "pending"}
\* the Batch oldest of the due entries
Oldest(due) == {e \in due : Cardinality({d \in due : d.id < e.id}) < Batch}
Missing(batch) == {e \in batch : e.kind = "ORDER" /\ local[e.order].status = "PURGED"}

\* an order entry is sent with the order as it is now
OpOf(e) == [id |-> e.id, kind |-> e.kind, order |-> e.order,
            prep |-> IF e.kind = "ORDER" THEN local[e.order].prep ELSE e.prep,
            status |-> IF e.kind = "ORDER" THEN local[e.order].status ELSE "SETTLED",
            number |-> IF e.kind = "ORDER" THEN local[e.order].number ELSE NoNumber]

\* an entry the cloud asked to retry may still be backing off; the device
\* authenticates with the token of its own activation.  One malformed order has
\* the whole batch answered with a 400, which leaves the outbox as it was.
Push(s) ==
    /\ push = NoSlot /\ slot[s].state = "free"
    /\ series = issued
    /\ \E waiting \in SUBSET {e \in Pending : e.retried} :
          LET batch == Oldest(Pending \ waiting)
              sent == batch \ Missing(batch)
          IN  /\ sent # {} /\ \A e \in sent : e.order \notin Malformed
              /\ slot' = [slot EXCEPT ![s] = [FreeSlot EXCEPT !.state = "busy",
                                                              !.todo = {OpOf(e) : e \in sent}]]
              /\ outbox' = (outbox \ Missing(batch))
                              \cup {[e EXCEPT !.status = "rejected"] : e \in Missing(batch)}
    /\ push' = s
    /\ UNCHANGED <<local, nextEntry, series, lastSeq, printed, server, keys>>

\* the 20 s timeout, a failed answer or a restart of the device
GiveUp ==
    /\ push # NoSlot
    /\ push' = NoSlot
    /\ slot' = [slot EXCEPT ![push] = Unheard(@)]
    /\ UNCHANGED <<device, server, keys>>

\* the request, its answer, or the API process handling it is lost
Lose(s) ==
    /\ slot[s].state = "busy"
    /\ slot' = [slot EXCEPT ![s] = FreeSlot]
    /\ UNCHANGED <<device, push, server, keys>>

\* variant: the cloud's answer is stored as it came
FinalStatusRaw(r) == r

FinalStatus(r) == CASE r = "rejected" -> "rejected" [] r = "conflict" -> "conflict" [] OTHER -> "done"

SyncState(r) == CASE r = "rejected" -> "rejected" [] r = "conflict" -> "conflict" [] OTHER -> "synced"

\* variant: a retry ends the entry like any other answer
AppliedOnce(e, r) == [e EXCEPT !.status = FinalStatus(r.status)]

\* _applyResult for the answer of one entry
Applied(e, r) == IF r.status = "retry" THEN [e EXCEPT !.retried = TRUE]
                 ELSE [e EXCEPT !.status = FinalStatus(r.status)]

\* variant: an order is taken for synced although the cloud asked to retry
FinalForAny(rs, o) == {r \in rs : r.kind = "ORDER" /\ r.order = o}

\* the final answer on order o in a batch
FinalFor(rs, o) == {r \in rs : r.kind = "ORDER" /\ r.order = o /\ r.status # "retry"}

\* the answers of a whole batch are stored in one transaction
StoreAnswers(s) ==
    LET rs == slot[s].results
    IN  /\ push = s /\ slot[s].state = "busy" /\ slot[s].todo = {}
        /\ outbox' = {LET mine == {r \in rs : r.id = e.id}
                      IN  IF mine = {} THEN e ELSE Applied(e, CHOOSE r \in mine : TRUE) : e \in outbox}
        /\ local' = [o \in Orders |->
                        IF FinalFor(rs, o) = {} THEN local[o]
                        ELSE [local[o] EXCEPT !.sync = SyncState((CHOOSE r \in FinalFor(rs, o) : TRUE).status)]]
        /\ push' = NoSlot
        /\ slot' = [slot EXCEPT ![s] = FreeSlot]
        /\ UNCHANGED <<nextEntry, series, lastSeq, printed, server, keys>>

----------------------------------------------------------------------------
(* The cloud handles the operations of a delivery one by one, oldest first. *)

Current(s) == CHOOSE op \in slot[s].todo : \A x \in slot[s].todo : op.id <= x.id
Handling(s, kind) ==
    /\ slot[s].state = "busy" /\ slot[s].todo # {}
    /\ Current(s).kind = kind

Answer(s, status) ==
    LET d == [slot[s] EXCEPT !.todo = @ \ {Current(s)}, !.checked = FALSE,
                             !.results = @ \cup {[id |-> Current(s).id, order |-> Current(s).order,
                                                  kind |-> Current(s).kind, status |-> status]}]
    IN  slot' = [slot EXCEPT ![s] = IF push = s THEN d ELSE Unheard(d)]

\* applyOrder: look for the order by (terminal, client id)
FindOrder(s) ==
    /\ Handling(s, "ORDER") /\ ~slot[s].checked
    /\ \/ cloud[Current(s).order].status # "NONE" /\ Answer(s, "duplicate")
       \/ cloud[Current(s).order].status = "NONE" /\ slot' = [slot EXCEPT ![s].checked = TRUE]
    /\ UNCHANGED <<device, push, server, keys>>

\* insertLines and the rest of the sale's bookkeeping: lines, KOT, stock, payments,
\* drawer and coupon, all in the transaction of insertOrder
BookSale(op) == sold' = [sold EXCEPT ![op.order] = @ + 1]

\* variant: only the series of the latest activation is known
OwnedNow(s) == s = issued

\* the series belongs to an activation of this terminal, an earlier one included
Owned(s) == s \in 1..issued

\* The invoice number a sale is filed under: a bill of an unknown series, and a
\* number already filed, get one of the outlet's online series.
CloudNumber(op) ==
    CASE op.status # "SETTLED" -> NoNumber
      [] op.status = "SETTLED" /\ Owned(op.number[1]) /\ op.number \notin invoices -> op.number
      [] OTHER -> Fallback

\* what the transaction of insertOrder commits
Commit(op) ==
    /\ cloud' = [cloud EXCEPT ![op.order] = [status |-> op.status, prep |-> op.prep, number |-> CloudNumber(op)]]
    /\ invoices' = invoices \cup ({CloudNumber(op)} \ {NoNumber, Fallback})
    /\ BookSale(op)
    /\ UNCHANGED refused

\* variant: no unique key on (terminal, client id)
InsertOrderNoUnique(s) ==
    /\ Handling(s, "ORDER") /\ slot[s].checked
    /\ Current(s).order \notin Bad
    /\ \E status \in {"applied", "conflict"} : Answer(s, status)
    /\ Commit(Current(s))
    /\ UNCHANGED <<device, push, keys>>

\* the sale is recorded as billed; differences from the cloud's state only make
\* it a conflict.  The unique key turns a second delivery into a duplicate.
InsertOrder(s) ==
    /\ Handling(s, "ORDER") /\ slot[s].checked
    /\ \/ /\ cloud[Current(s).order].status # "NONE"
          /\ Answer(s, "duplicate")
          /\ UNCHANGED server
       \/ /\ cloud[Current(s).order].status = "NONE" /\ Current(s).order \notin Bad
          /\ \E status \in {"applied", "conflict"} :
                /\ CloudNumber(Current(s)) = Fallback => status = "conflict"
                /\ Answer(s, status)
          /\ Commit(Current(s))
       \/ /\ cloud[Current(s).order].status = "NONE" /\ Current(s).order \in Bad
          /\ Answer(s, "rejected")
          /\ refused' = refused \cup {Current(s).order}
          /\ UNCHANGED <<cloud, invoices, sold>>
    /\ UNCHANGED <<device, push, keys>>

\* any other error of the transaction is rolled back and answered with a retry
InsertFails(s) ==
    /\ Handling(s, "ORDER") /\ slot[s].checked
    /\ Answer(s, "retry")
    /\ UNCHANGED <<device, push, server, keys>>

ApplyKotStatus(s) ==
    /\ Handling(s, "KOT_STATUS")
    /\ \/ /\ cloud[Current(s).order].status # "NONE"
          /\ Answer(s, "applied")
          /\ cloud' = [cloud EXCEPT ![Current(s).order].prep = Current(s).prep]
       \/ Answer(s, "retry") /\ UNCHANGED cloud
    /\ UNCHANGED <<device, push, invoices, refused, sold, keys>>

----------------------------------------------------------------------------
(* Activation: the cloud revokes the previous token and issues the next     *)
(* series; the device stores both when the answer arrives.                  *)

\* variant: a terminal that is activated again gets the series it had
SameSeries == issued

NextSeries == issued + 1

Activate ==
    /\ issued < MaxSeries
    /\ issued' = NextSeries
    /\ activating' = TRUE
    /\ UNCHANGED <<device, link, server>>

Adopt ==
    /\ activating
    /\ series' = issued
    /\ activating' = FALSE
    /\ UNCHANGED <<local, outbox, nextEntry, lastSeq, printed, link, server, issued>>

LoseActivation ==
    /\ activating
    /\ activating' = FALSE
    /\ UNCHANGED <<device, link, server, issued>>

----------------------------------------------------------------------------

Next ==
    \/ \E o \in Orders : \/ CreateOrder(o) \/ SettleOrder(o) \/ CancelOrder(o) \/ Purge(o)
                         \/ \E prep \in Preps : AdvanceTicket(o, prep)
    \/ \E s \in Slots : \/ Push(s) \/ Lose(s) \/ StoreAnswers(s)
                        \/ FindOrder(s) \/ InsertOrder(s) \/ InsertFails(s) \/ ApplyKotStatus(s)
    \/ GiveUp \/ Wipe \/ Activate \/ Adopt \/ LoseActivation

Spec == Init /\ [][Next]_vars

(* The sync loop always tries again, and no stage of a delivery whose      *)
(* answer is still awaited fails every time.  Deliveries the device gave   *)
(* up on end or are lost.                                                  *)
Awaited(s) == push = s
Working(s, o) == Awaited(s) /\ slot[s].todo # {} /\ Current(s).order = o
Fairness ==
    /\ SF_vars(\E s \in Slots : Push(s))
    /\ \A o \in Orders :
          /\ SF_vars(\E s \in Slots : Working(s, o) /\ FindOrder(s))
          /\ SF_vars(\E s \in Slots : Working(s, o) /\ InsertOrder(s))
          /\ SF_vars(\E s \in Slots : Working(s, o) /\ ApplyKotStatus(s))
          /\ SF_vars(\E s \in Slots : FinalFor(slot[s].results, o) # {} /\ StoreAnswers(s))
    /\ SF_vars(\E s \in Slots : StoreAnswers(s))
    /\ WF_vars(GiveUp)
    /\ \A s \in Slots : WF_vars(~Awaited(s) /\ Lose(s))

LiveSpec == Spec /\ Fairness

----------------------------------------------------------------------------
(* Properties. *)

\* Every variable keeps its type.
TypeOK ==
    /\ local \in [Orders -> LocalRow]
    /\ outbox \subseteq Entry
    /\ nextEntry \in Nat /\ series \in 0..MaxSeries /\ issued \in 1..MaxSeries
    /\ lastSeq \in [1..MaxSeries -> Nat]
    /\ push \in Slots \cup {NoSlot}
    /\ \A s \in Slots : slot[s].todo \subseteq Op /\ slot[s].state \in {"free", "busy"}
    /\ cloud \in [Orders -> CloudRow]
    /\ invoices \subseteq Numbers /\ refused \subseteq Orders
    /\ activating \in BOOLEAN
    /\ printed \in [Orders -> Numbers] /\ sold \in [Orders -> Nat]

\* "a bill never exists without being queued for the cloud" and nothing is
\* silently lost while the disk lasts: a closed order is waiting in the outbox
\* together with its row, or the cloud has it, or keeps it as a rejected conflict.
Queued(o) == \E e \in outbox : e.kind = "ORDER" /\ e.order = o /\ e.status = "pending"
SaleNeverLost ==
    \A o \in Orders :
        local[o].status \in {"SETTLED", "CANCELLED", "PURGED"} =>
            \/ Queued(o) /\ local[o].status # "PURGED"
            \/ cloud[o].status # "NONE"
            \/ o \in refused /\ local[o].sync = "rejected"

\* However often a batch is delivered, a sale is booked in the cloud once.
SoldOnce == \A o \in Orders : sold[o] = IF cloud[o].status = "NONE" THEN 0 ELSE 1

\* The device believes the cloud has an order only when it does.
SyncedIsStored ==
    \A o \in Orders : (local[o].sync \in {"synced", "conflict"} \/ Accepted(o)) => cloud[o].status # "NONE"

\* No invoice number is given to two customers, across restarts, wiped disks and
\* new activations, and a series has no gap: the numbers before a printed one were
\* printed too.
SeriesGapless ==
    /\ \A a, b \in Orders : printed[a] = printed[b] /\ a # b => printed[a] = NoNumber
    /\ \A o \in Orders : \A n \in 1..printed[o][2] : \E p \in Orders : printed[p] = <<printed[o][1], n>>

\* The cloud files each sale under the number the customer was given: bills of an
\* earlier activation, late and repeated deliveries never need a fallback number.
FiledAsPrinted ==
    \A o \in Orders : cloud[o].status = "SETTLED" => cloud[o].number = printed[o] /\ printed[o] \in invoices

\* Every closed order is finally accepted or refused by the cloud and the device
\* knows it, unless the disk is lost first or a malformed order is in the way.
SalesArrive ==
    \A o \in Orders :
        Queued(o) ~> \/ /\ ~Queued(o)
                        /\ cloud[o].status # "NONE" \/ o \in refused \/ local[o].status = "WIPED"
                     \/ \E m \in Malformed : Queued(m)

\* "Before the order's own push, its payload carries these statuses; once the
\* cloud has accepted it, kitchen progress travels as a KOT_STATUS op"
\* (engine.js): with nothing left to push, the cloud shows the kitchen's status.
KitchenProgressArrives ==
    \A o \in Orders :
        /\ local[o].status = "SETTLED" /\ local[o].sync \in {"synced", "conflict"}
        /\ \A e \in outbox : e.order = o => e.status # "pending"
        => cloud[o].prep = local[o].prep
============================================================================

# Stello Kitchens: TLA+ models of a restaurant platform

Stello Kitchens is a multi-tenant restaurant platform: a NestJS API over PostgreSQL
(`apps/api`), an offline-capable point of sale with its own SQLite database (`apps/edge`),
an aggregator connector (`apps/connector`), a dashboard, a customer ordering PWA and a
package of shared money and rule functions (`packages/shared`). This directory models the
parts that move money or goods, or that several actors change at once.

## Inventory

| Component | State | Operations | Interacts with | What is hard |
|---|---|---|---|---|
| Running bills (`orders`) | orders, lines, KOTs, outlet counters | create, scan and aggregator ingestion, add, settle, cancel, merge, transfer, split, unsplit | tables, tenders, kitchen, edge ingestion | row locks taken one by one, reads before locks, rollback, deadlock |
| Tenders (`orders`, `loyalty`, `gift-cards`) | coupons, OTPs, points, gift cards | redeem, earn, issue, expire, void | settle and edge ingestion | check-then-write on shared counters, lock order |
| Cash (`payments`, `finance`) | drawers, movements, expenses | open, close, pay in and out, void | settle, refunds, payroll | movements racing the close |
| Refunds (`payments`, `gateway-payments`) | refunds, drawer movements, store credit, gateway events | reserve, submit, webhook, recovery, reconcile-now | Razorpay | timeouts, late answers, crashes, duplicates |
| Collections (`gateway-payments`) | payment intents | create, poll, cancel, capture, expire | Razorpay, settle | payment racing cancellation and expiry |
| Edge device (`apps/edge/sidecar`) | local orders, outbox, invoice series, tickets, catalog | bill, number, queue, push, pull, purge, activate | cloud ingestion, LAN kitchen screens | crash and restart, redelivery, back-off |
| Edge ingestion and feed (`edge`) | orders by client id, invoice numbers, feed entries | push, activate, refresh, page | bills, stock, tenders | overlapping deliveries and pulls |
| Scan & order (`scan-order`) | order requests, tokens | submit, accept, reject | bills | two terminals deciding one request |
| Platforms (`apps/connector`, `connector`, `aggregator-sync`) | relay jobs, external orders, sync log | ingest, status, availability | bills, delivery platforms | redelivery, lost answers |
| Floor (`foh`, `billing/parked`) | bookings, waitlist, calls, carts, displays | book, seat, call, park, pair | running bills | two people at one desk |
| Stock (`inventory`, `stocktake`, `central-kitchen`) | stock, ledger, counts, indents | consume, receive, produce, count, transfer | punching, ingestion | ledger and quantity must agree |
| Buying (`procurement`) | purchase orders, receipts, supplier bills | order, receive, book, pay | stock | concurrent receipts and payments |
| Payroll (`staff/payroll`) | advances, runs, payslips | advance, draft, edit, finalise | cash drawer | drafts older than what they recover |
| E-invoices (`invoices`) | invoice rows | generate, cancel, e-way bill | tax portal (IRP) | read, call and write without a lock |
| Queues (`webhooks`, `messaging`, `printing`) | jobs, claims, attempts | enqueue, claim, send, retry | everything that notifies | claims that expire, duplicates, rate limits |
| SaaS billing (`saas-billing`) | subscription, invoices | renew, dun, pay, webhooks | payment provider | clocks, overlapping sweeps |
| Money (`packages/shared`) | none | tax, allocation, split, rounding | all of the above | paise that must add up |
| The rest (identity, menu, staff, reports, devices, user interfaces) | rows and pages | CRUD, reports | | little that interleaves |

`PROJECT.json` lists every component with its status and, under `hazards`, each place where
an order of events nobody tests could break something.

## Modules

### Conventions

A transaction of the API runs at READ COMMITTED. A request is a record that says where it
is; statements that take a lock or read what somebody else may change are steps of their
own; writes are published by the step that commits and releases the locks. A crash, a
timeout, a refused tender and a deadlock victim are all "the request ends, nothing is
written". What the code writes by id alone, without a condition, is written over whatever
the row holds by then. Amounts and quantities are small numbers of units. Definitions marked
"variant" are small changes of the definition that follows them: replacing it by its variant
must break the property `PROJECT.json` pairs it with, and does.

### Core

**Bills** (`orders.service.ts`, `order-ops.service.ts`). A request has a program counter `pc`
and the rows it still waits to lock (`want`). `Acquire` takes one row; the last row of a wait
is taken together with the step that follows it, because nobody can observe the two apart.
Reads made before a transaction (the tables of `merge` and `transfer`, the checks of
`unsplit`) are in the `Begin...` step. `DeadlockVictim` is PostgreSQL aborting a member of a
cycle (external). A KOT's lines are a number of equal units; an order's money is the number
of units on it, so an equal split and a split by item both share units out. `OpenCommit` and
`PunchCommit` end in `Punch` (KOT number, lines, stock ledger, totals). Tables come before
orders in the lock order because all code paths lock them first; ids are numbers because
locks are taken in id order. `Submit` sends an operation only for bills it makes sense for at
that moment; every condition is checked again under the locks, where it can fail.

**Refunds** (`cash.service.ts`, `gateway-payments.service.ts`, `razorpay.gateway.ts`,
`http.ts`). One settled order with a live gateway. `Reserve` is the transaction under the
order's row lock; the API's task then waits for the provider and writes its answer in
`WriteApi`. `wire` holds submissions on their way, which can be lost or arrive after their
sender gave up. The provider keeps one refund per receipt. Webhook events come in any order
and number; `HandleEvent` records and applies one, `DropEvent` is the crash in between. A
worker is a recovery tick or reconcile-now; the claim through `reconciledAt` is left out
because reconcile-now does not take it, so the code must be right without it.

**EdgeSync** (`engine.js`, `server.js`, `edge-ingest.service.ts`, `edge-admin.service.ts`).
Every device operation is one SQLite transaction, hence one action; a restart loses nothing
but the push it awaits (`GiveUp`). A delivery occupies a slot in the cloud; the device may
give up on it and push again meanwhile. `FindOrder` and `InsertOrder` are separate because
another delivery of the same order can commit in between. `CloudNumber` is the number the cloud
files a sale under: the printed one, unless its series belongs to no activation of the terminal
(`Owned`) or the number is filed already; then a number of the outlet's own series, and the
sale is a conflict. Orders in `Bad` are those the cloud refuses one by one; a batch that holds an
order in `Malformed` is answered 400 as a whole (`edge.controller.ts:44`), so `Push` does not
deliver it. `Wipe` loses the disk; the device is activated again and gets the next series. Left
out: more than one fiscal year, bills from before a device had a series, local table claims,
clock correction.

### Counter and floor (composed in MCCounter)

* **Tender**: a settlement or an ingested sale is the list of rows it has yet to lock, in the
  order of the statements: gift cards by code, outlet counter, customer, coupon. The coupon
  and the OTP are read without a lock where the code does so.
* **CashBook**: movements that read the open drawer without a lock (sales, refunds, pay-ins)
  against payouts that lock it (expenses, advances) and against closing; `DayBookCash` is the
  day book's sum as `finance.service.ts` computes it.
* **Collections**: the row is written before the provider is called; creation, payment,
  expiry, webhooks, polls and cancellation all overlap, and any of them may die.
* **ScanOrders**: only the first statement of `accept` is conditional on the row's status;
  everything after it and all of `reject` acts on what was read earlier.
* **TableService**: server calls, waitlist, parked carts and customer displays.
* **Reservations**: bookings lock their own row and then tables in id order; reinstatement and
  seating included.
* **Money**: `computeBill`, `splitLinesEqually` and `allocatePaise` in paise, as a bill that is
  rung up and split equally or by item. Rates and service charges are whole hundredths of a per
  cent: `billing.ts:151` and the columns of the rates (`Decimal(5, 2)`) have two decimals. The reference definitions are in the properties: the
  parts add up exactly, equal checks differ by at most a paisa, no check is given more discount
  than food, and the guests together pay the bill but for the roundings (`Roundings`): half a
  paisa of charge and of tax on each check and on the bill, and the tax on those halves and on the
  paisa by which a check's part of the discount is rounded. A paisa per check is not enough when
  lines are taxed differently: four checks of lines taxed 12% and 28%, a discount and a taxed
  charge can be five paise off.

### Back office (composed in MCOffice)

* **Stock**: stock and ledger under atomic increments, locked receipts and counts, and the
  unlocked read-then-write of production batches and indents.
* **CatalogFeed**: refresh under the feed state's lock, pages read outside it, several pulls of
  one device, of which one may overtake another (`overtaken`), lost replies, a restored database
  that numbers from the start.
* **Aggregators**: the connector's relay queue with its trimming and retries, idempotent
  ingestion, status in both directions, availability pushes against the sync log. `taken` is what
  the platform was told or told us, in its own words (`UpStatus`; PREPARING has none, and the
  client answers ok without a call). At an outlet without credentials (`~live`) every call is
  answered ok and reaches nobody.
* **Procurement**: purchase orders, receipts within a tolerance read earlier, GRN numbers under
  an advisory lock, supplier bills and payments.
* **Payroll**: advances recovered by payslips. A draft keeps what it computed; finalising locks
  the run and, member by member, the open advances, takes from the oldest first and fails as a
  whole when they no longer cover the draft. Pay comes down to what it leaves for recovery.
* **EInvoices**: one document at the tax portal. A request checks the row, calls, and writes.
  Unanswered calls may still arrive; a duplicate or a timeout of `generateIrn` is looked up.
* **Subscriptions**: the state machine of `growth.ts`, invoices, collection, hourly sweeps,
  tenant and platform requests and provider events, each dying at any step. An event finds its
  invoice, creates one if need be, and marks it in separate steps, as these commit one by one.

### Outgoing queues (composed in MCDelivery)

* **JobQueue** is the abstract specification: a job may be handed over more than once, never
  more often than it was taken, and is reported done only after it was handed over.
* **Webhooks**, **Outbox** and **Printing** implement it. Each maps its statuses to the queue's
  (`HookState`, `OutboxState`, `PrintState`) and its history variables to how often a job was
  taken and handed over; `...Implement(s)Queue` is `JobQueue!QueueSpec` under that mapping. A
  worker's claim may expire while it works (webhooks, printing), the rate limit may cut a
  claimed batch (outbox), reports may be lost (printing), and jobs may be retried by hand.
* In **Printing** an agent is an edge agent or a browser station. A station sends to the agent on
  its machine (`SendToAgent`); when that fails or its patience ends, it prints in the browser under
  the same claim (`FallBack`), while the agent it gave up may still finish (`LatePrint`).
  `spooled` counts what was handed to a spooler, a socket or a print dialog: that paper came out is
  nowhere known, and `ok` does not mean it.

**Compositions.** The components of MCCounter, MCOffice and MCDelivery share no variable. One
variable (`desk`, `office`, `queue`) says which of them a behaviour runs; the others stay at
their initial states. The reachable states are the union of those of the components, so an
invariant of one component is checked on all of that component's states, and the spaces add
instead of multiplying. Where code of one component calls another (settle and the drawer,
payroll and the drawer, receipts and stock, accepted scan requests and bills), the callee's
module contains that call as an action of its own.

**MC modules** give the constants their values. The theorems are in **BillsProofs**,
**RefundsProofs**, **EdgeSyncProofs**, **CounterProofs** (Tender, CashBook, Collections),
**FloorProofs** (ScanOrders, TableService, Reservations, the splits of Money, and MCCounter as a
whole), **OfficeProofs** (the seven components of MCOffice, and MCOffice as a whole) and
**DeliveryProofs** (the three queues, and MCDelivery as a whole); **SumProofs** holds lemmas about
sums over finite sets and about sharing out whole numbers.

## Runs

| Run | Instance | Shows |
|---|---|---|
| `bills` | 2 requests, 1 table, 4 orders, 2 KOTs of 1 unit | `OneOpenBillPerTable`, `SplitAccounting`, `EveryUnitBilledOnce`, `BillNumbersGapless`, `ClosedIsFinal`, `CirclesOutOfTurn` (367 000 states) |
| `bills_tables` | 2 requests, 2 tables, 3 orders, 1 KOT of 2 units | the same accounts with parts of a line and moves between tables (331 000) |
| `bills_circle` | 2 requests, 2 tables, 2 orders | counterexample to "concurrent operations serialize instead of deadlocking" |
| `refunds` | 2 refunds, 1 worker, limit 3 of which 2 captured online | `AgreesWithProvider`, `OutflowWithinLimit` (553 000) |
| `refunds_live` | 1 refund, 2 workers, fairness | every open refund is resolved for good (18 000) |
| `edge` | 2 orders (one refused), 2 deliveries, 2 activations, lost disks | `SaleNeverLost`, `SoldOnce`, `SyncedIsStored`, `SeriesGapless`, `FiledAsPrinted` (125 000) |
| `edge_live` | 2 orders (one malformed), 2 deliveries, lost disks, fairness | a queued sale arrives, unless the disk is lost or the malformed order waits with it (3 000) |
| `edge_kitchen` | 1 order | counterexample to "kitchen progress travels as a KOT_STATUS op" |
| `counter` | 2 transactions with 2 cards, 1 code and a coupon of limit 1; 2 tills, 2 sessions; 1 collection; 3 diners, 2 staff; 2 symmetric hosts, 2 bookings, 2 tables; 2 terminals; bills of 2 lines at 5 and 18 per cent, with 7.25 per cent service or none, up to 3 checks | tenders add up and settlements do not deadlock; the day book agrees with the drawers; payouts come before the close; captures win; requests are served once and tables promised once; split bills add up (448 000) |
| `office` | 2 clerks, 2 materials; 2 rows, 2 edits, 1 device with two pulls; 1 platform order, 2 ingests, 2 actors; 1 order, 1 supplier bill, 2 buyers; 2 months, 2 advances, 2 payers; 2 filers; 2 invoices, 2 billers, events CHARGED, PAYMENT_FAILED and CANCELLED for one period | stock equals its ledger; no device skips a change; platform orders arrive once; receipts, payments, recoveries and e-invoices agree with what they book; a tenant is charged once (1 663 000) |
| `payables_phantom` | as `office` | counterexample to "two payments can't over-settle the same bill" |
| `delivery` | 2 workers per queue, 2 jobs each (one a drawer kick), 2 attempts; an edge agent and a browser station | the three refinements of JobQueue; no delivery unscheduled, no message left SENDING, every duplicate print explained (493 000) |

**Bounds.** Two requests suffice for every race between two lock waits; longer cycles are
treated alike by `DeadlockVictim`. Four orders hold a bill, its two checks and a bill beside
it; three orders on two tables hold every transfer. Two KOTs tell a first punch from a later
one. Two refunds that together exceed the limit, and one captured payment smaller than it,
exercise every choice of status and payment. Two slots let a batch be delivered while an
earlier delivery is being inserted. In the other modules two actors meet at one row: a lock,
a check-then-write or a claim has two sides. Two cards, tables, counts of attempts, months and
advances are there because their order matters. A third diner lets two overlapping accepts
follow a finished one. Prices of 0, 1 and 199 paise are a free item, less than
a paisa per check, and an amount neither two nor three checks share evenly (TLC's integers have 32
bits, and products of two percentages in hundredths are long). `Reports` and `StaffMoves` hold a
status the platform has a word for, one it has none for, and one that ends the order. The provider's
event HALTED moves the subscription as CANCELLED does, with another target; it is left to the
proof. `MaxSales`, `MaxMoves`, `MaxStockMoves`, `MaxEdits`, `MaxToggles`,
`MaxSyncs`, `MaxPosts`, `MaxJobs`, `MaxHandling` and `MaxStarts` bound how often something
that has no end in the code is begun; steps of what was begun are never cut off. A request
that meets a bound of Bills (`Room`) is turned away, as one with an unknown item is.

**Deadlock** is checked in the bills runs. The other models may stop: when everything is
settled or a bound is reached. Waiting in circles among settlements and among hosts is stated
as an invariant instead (`SettlementsDoNotDeadlock`, `HostsDoNotDeadlock`).

**Fairness.** Refunds: recovery runs every minute on every
replica, so a tick is started, its lookup and its write succeed now and then (strong), and a
tick that waits in vain times out (weak); submissions do not get lost every time, and the
provider decides. Nothing is assumed of the API's own task or of webhooks. EdgeSync:
`createSyncLoop` always reschedules itself, so a push that the cloud admits is made again and
again, and no stage of an awaited delivery fails every time (strong); an unanswered push times out and an orphaned
delivery ends (weak). A batch with a malformed order is refused every time, and nothing is assumed
that would let it through. Kitchen, purge, activation and the loss of a disk have no fairness.
The other modules state safety only; for the queues, `DeliveryStaysScheduled` and
`NoMessageLeftSending` are the safety halves of delivery. The delivery of an event stays scheduled
whatever sender dies; a test delivery, or one redelivered by hand, stays PENDING without a schedule
when its sender dies (`webhooks.service.ts:241`). A message is put back by the dispatcher that
claimed it, while that dispatcher lives; what a dead one claimed stays SENDING, and no pass claims
it again (`messaging.service.ts:257`).

## What the counterexamples mean

1. *Circles* (`bills_circle`). `merge` and `transfer` read the tables they lock before their
   transaction, and `transfer` locks the bill of the target table after its own
   (`order-ops.service.ts:101`, `181`). If a bill moved meanwhile, a merge and a transfer hold one
   order each and wait for the other's; PostgreSQL aborts one. `CirclesOutOfTurn` says that every
   circle goes through this lock of `transfer` or one of the two others taken out of turn: a check's
   settlement locks its bill after the counter, `unsplit` the bill after its checks.
2. *Kitchen progress* (`edge_kitchen`). A ticket bumped between building the push and storing
   its answer is carried by neither the order nor a KOT_STATUS operation.
3. *Supplier payments* (`payables_phantom`). `recordPayment` locks the open bills and then
   reads them again. A bill booked in between is planned for without a lock, so two payments
   can both settle it in full. For bills no payment touched this way, `PaymentsMatchBills`
   (in `BooksSound`) shows that allocations and paid amounts agree.

### Exceptions the properties carry

Where the code does less than one would wish, the property says by how much, so that anything
more would be found. These are the places a reader should know:

* Lines carry their KOT along; a second part transfer takes it away from the first bill, which
  still has lines of it (`order-ops.service.ts:225-229`). No account depends on it.
* The API writes a refund's answer without a condition on its status (`cash.service.ts:236-243`
  against `gateway-payments.service.ts:224`), so PROCESSED may briefly read PENDING again;
  `AgreesWithProvider` and `RefundsResolve` hold nevertheless.
* A retried KOT_STATUS can be applied after a newer one (`edge-ingest.service.ts:537`).
* Two settlements can read the same OTP (`loyalty-otp.service.ts:47-60`); points are still
  decremented conditionally, so `PointsMatchLedger` holds. A coupon's limit is read without a
  lock: `CouponOverrunBounded` bounds how far it can be exceeded.
* An ingested sale locks coupon and counter in the opposite order of a settlement; it is
  retried when aborted, and `SettlementsDoNotDeadlock` is about settlements only.
* `openDrawer` checks and then creates (`cash.service.ts:39-46`), so two tills may both open one;
  `CashSound` holds with several open. The day book skips the drawer's movements for gift cards and
  advances, which have entries of their own. The comment at `finance.service.ts:345` says the same
  of voided expenses, but their movements are not skipped and the expense is dropped, so each voided drawer expense makes the day book
  one too high. `DayBookAgrees` therefore speaks of days without a void; `ExpensesOnce` of all.
* The comment of `ingest` (`edge-ingest.service.ts:27-40`) lists the only refusals there are; the
  schema of the push refuses a whole batch for one field besides (`edge.controller.ts:44`).
  `SalesArrive` excepts the time in which such an order waits.
* A collection's late failure can hide a payment (`failedLate`), and a crash between recording
  and applying its events can drop it: `PaymentSurfaces` allows those two and nothing else.
* A production batch writes stock read before its transaction (`inventory.service.ts:356-383`):
  `BalanceExplained` is about materials that are not produced in batches. Two dispatches of one
  indent that both read it as a draft both book it (`CommitDispatch`); stock and ledger agree all the
  same, and no property counts transfers by indent.
* A matched platform order is stored as ACCEPTED although no platform was asked
  (`connector.service.ts:98`), and a status the platform has no word for, or any at a simulated
  outlet, is written after an ok that stands for no call, against the comment at
  `aggregator-sync.service.ts:122`: `StatusAgreed` is about connected outlets and other statuses.
* The event of a failed payment looks for an unpaid invoice and marks it later, by id
  (`billing.service.ts:391-395`, `276-279`): an invoice that was paid in between reads FAILED again.
  `ChargesRecorded` allows this for the invoice such an event had found.
* `station.ts:139-143` says that an agent and a station never both print. They do when a send to
  the local agent fails or times out after it reached the printer: `DuplicatesExplained` counts
  these (`fellBack`). `retry` leaves `createdAt`, so a job that is too old stays QUEUED and is never
  offered again (`printing.service.ts:573`).
* Accepts that overlap may share a token number; seating a party by hand may put it on a booked
  table; both are bounded in `TokensSharedByRacersOnly` and `NoDoubleBooking`.
* A device that pulled from a feed that was restored is exempt from `CursorNeverSkips` until it
  starts afresh. So is one that stored a page another of its own pulls had overtaken (the sync
  loop's pull, `engine.js:961-973`, beside that of `bootstrap`, `1071`). A sync log is exempt
  after overlapping or unheard pushes (`muddled`).
* An IRN cancelled at the portal stays GENERATED here when the cancellation's answer is lost,
  and no later call repairs it; a second generation may also write over a cancellation:
  `StaleInvoiceExplained` allows those two. The row never runs ahead of the portal.
* Overlapping sweeps, and a crash between charging and marking, may charge or renew twice
  (`unsure`, `raced`); `ChargedOnce` and `ChargesRecorded` hold for all other invoices.
  `extend_trial` acts on a status read earlier (`billing.service.ts:445-461`).
* Message receipts are read, then written (`messaging.service.ts:294`), and notifying a guest
  writes NOTIFIED by id (`reservations.service.ts:334`): either can put an older status back.

## Proofs

TLAPS checks the theorems for every value of the constants that satisfies the named
assumptions: any number of requests, rows, deliveries or workers, where a run has two or three.
Each theorem rests on an inductive invariant, proved to hold initially and to survive every
action of `Next`; where the property alone is not inductive, the strengthening says what a
request in the middle of its statements knows, and which lock or which conditional write keeps
that true. The last step of a theorem is temporal logic (PTL).

**Sums.** `SumProofs` proves what the sums of the models (`MapThenSumSet` and cardinalities) do
when one row changes, a row moves from one set to another, or a set is counted by classes. The
library's induction theorems take an operator as parameter, which the provers cannot
instantiate; here the hypothesis is a set of subsets closed under adding an element
(`SubsetInduction`), so accounts over finite sets can be proved. Its last part is arithmetic:
quotients and remainders, handing leftover paise round (`Turns`), and sharing out by largest
remainder (`SharedOut`): the remainders make up as many whole paise as the floors leave
(`RestIs`), exactly that many weights come first by remainder (`PlacesCount`), and a weight
without a remainder is not among them (`EarlyHasRemainder`), so none is exceeded.
Last come amounts that are near each other (`Near`), how rounding and multiplying keep them near
(`HalfUp`, `NearTimes`), and how far sums of them can be apart (`NearTotal`).

**BillsProofs.** `BillsInv` is `RowsOK` (types), `TableInv` and `OrderInv`; `SplitInv` adds the
checks and the units.

* `RowTypes`, `BillTypes`: `[]RowsOK` and `[]TypeOK`. That no line's quantity becomes negative
  is part of the second, and needs the accounts of `SplitInv`.
* `TableNeverDoubleBooked`: a request about to open a bill acts on what it read earlier.
  `TableReserved`: it holds the table's row, and what it read under that lock still holds. A
  commit either closes bills or opens one on a table found free under the lock held.
* `ClosedBillsStay`, `BillNumbersInSeries`: a request writes only rows it has locked
  (`OrderHeld`), and what it checked of them under the lock still holds when it writes; the
  number is drawn under the outlet counter's row.
* `CirclesTurnOut`: in a circle in which every request locks in turn, take the one that waits for
  the greatest row; whoever holds that row waits for a greater one (`TurnInv`, `TurnsDoNotCircle`).
* `SplitBillsAgree`, `UnitsBilledOnce`, `BillsMoveSoundly`: `SplitHeld` ties what a request on a
  split bill has read to the checks that exist; `DataInv` says which lines a bill, its checks and
  the bills it was merged from may have, so that each commit moves units without losing any.

**RefundsProofs.** `AgreeInv`: an outcome a task was answered is still the provider's when the
task writes it, because the provider settles a refund once. It gives `RefundTypes` and
`RefundNeverLies`. `MoneyInv` sums rows and ledger: only a reservation under the order's lock
adds to what is on its way out, and it leaves room for all others. It gives `OutflowBounded`.

**EdgeSyncProofs.** `EdgeInv`: each operation and each answer in flight, also those of deliveries
the device gave up, belongs to an outbox entry of the same sale, and an answer "stored" is about
an order the cloud has. An operation in flight carries the number that was printed, its series is
one the terminal was issued, and a number is filed for one sale only. It gives `EdgeTypesKept`,
`SalesReachTheCloud`, `SalesBookedOnce`, `AnswersAreTrue`, `NumbersWithoutGaps` and
`NumbersFiledAsPrinted`.

**CounterProofs.**

* `TendersCorrect` (`TendersBalance`). `LocksSound`: the rows a transaction holds precede, in the
  order of the statements, the rows it still wants, and it holds or will lock all it writes.
  `ChecksHold`: what it found under a lock still holds. `CouponsCounted`: settlements with the
  coupon that committed or may still commit are at most the limit and |Txns| - 1 more.
* `SettlementsNeverDeadlock`: in a set of transactions each waiting for the next, take the
  one that waits for the last row in that order: it is held by a member that waits for an earlier
  one, against `LocksSound`.
* `CashCorrect`, `PayoutsPrecedeClosing`. `TillsHold`: who found a drawer open under its lock
  still finds it open; `MovesExplained`: a drawer's expense movements are the expenses paid from
  it, and its voids at most the voided ones of those. The day book's sum is rearranged by drawer
  (`CountParts`, `TotalAdd`).
* `CollectionsCorrect`: `CaptureEvidence` says that whatever reports a payment (event, poll)
  does so after the provider has it, and an applied one marked the intent.

**FloorProofs.**

* `ScanCorrect`: the claim of a request is its one conditional write, so only the call that
  claimed it goes on to punch it; a token number is shared by no more requests than calls drew
  it before the first of them wrote (`TokensShared`).
* `ServiceCorrect`: what a terminal is about to take has not been taken (`TapHolds`), a table has
  one call that is active or about to be (`ActiveAlone`), and a guest who was seated has no
  message under way that would put the guest back on the list.
* `BookingsCorrect`: a call holds the row of its reservation and the tables it looked at until it
  has written (`RowHeld`, `TablesHeld`), so nothing that overlaps it can be written meanwhile
  (`StillFree`). Of calls that wait for each other, one waits for the greatest table; whoever
  holds that table waits for a greater one, so any number of them never wait in a circle.
* `CounterTypes` (`CounterTypeOK`) and `FloorCorrect` (`FloorSound`) are about MCCounter's own
  specification: a step of it is a step of one component that leaves the variables of the
  others alone, so the invariants of the seven components are kept together (`CounterInv`).
* `MoneyCorrect` (`MoneySound`, on `MoneySpec`): for every menu, bill, discount, service charge and
  number of checks. `EqualShare` shows, by induction over the lines, that a check's part in
  `splitLinesEqually` is that of the leftovers of all lines handed round one after the other, so
  parts differ by a paisa at most; `ItemsExact` exchanges sums by check and by line; and
  `AllocationExact` is `allocatePaise`. The folds of sequences become sums first (`FoldTotal`).
  `SplitPaysTheBill` follows line by line too: raw taxes add up (`RawTaxesAdd`), a check's part of
  the discount is within a paisa of its proportion (`NearShares`), so the taxable amounts are
  (`PartOfBill`), and each rounding of charge and tax adds half a paisa (`TaxNear`, counted in
  hundred-millionths of a paisa, as a charge and a rate are both percentages with two decimals). `TaxesNear` and
  `DuesNear` add this up over the checks, and `SplitsPay` adds half a rupee for each total that is
  rounded off.

**OfficeProofs.**

* `PlatformsCorrect`: `OrdersInv` (an order fires only with the row that stores it, and a status
  the platform has a word for is written after the platform had it) and `OnePush` (until the log is
  `muddled` one push at most is under way, and the log, or that push, is what the platform shows).
* `CursorsSkipNothing`: `RefreshAlone` (one refresh numbers at a time, beyond every cursor),
  `RepliesGood` and `AskedFromCursor` (a page carries all that was numbered between the cursor
  it was asked from and the one it returns).
* `StockCorrect` (`StockSound`). `ClerkHolds`: a balance read under the material's row lock is
  still the row's when it is written; `Account`: a balance and its ledger differ only by an opening
  movement that the clerk who created the row has still to write (`OpenedByOne`); a count posts
  once because its status is checked and set under one lock (`CountsSound`).
* `ProcurementCorrect`. `ReceiptFits`: what a receipt was checked against is still what the order
  shows, as its row is locked, and its number is the next one under the advisory lock
  (`GrnNumbersGapless`). `PlanHolds`: what a payment will write to a bill it has locked
  is what was paid plus what it adds, and a locked bill is unpaid (`LockedUnpaid`). `ReceiptsAddUp` is a sum over receipts, line by line.
* `PayrollCorrect`. `DraftHolds`, `FinaliseHolds`: half-way through, a finalisation has recovered
  exactly the payslips of the members it is done with, from open advances it has locked.
  `GreedyTakesAll` (SumProofs) is the arithmetic of "oldest first": if the open advances cover a
  payslip's recovery, what is taken from them one after the other adds up to it, and no advance
  gives more than is outstanding.
* `InvoicesCorrect`. `AnswerTrue`: what a request was answered by the tax portal is still true
  when the request writes it, because the portal forgets nothing and cancels for good, and
  only an invoice whose IRN is on record is ever cancelled (`CancelsKnown`).
* `SubscriptionsCorrect`. `ChargeSound`: an invoice no two calls collected at once and none died
  over has one collector at most, who has charged it at most once and not before it says so.
  `RenewalsAlone`: a renewal nothing raced finds every other caller idle and its period unpaid.
  Every other step is shown to leave renewed periods alone or to name the period as `raced`.
  `WasPaid`: an invoice that was marked paid stays so unless a failure's event had found it before.
* `OfficeTypes` (`OfficeTypeOK`) and `BooksCorrect` (`BooksSound`) are about MCOffice's own
  specification, composed as in FloorProofs (`OfficeInv`).

**DeliveryProofs.** `HookInv`, `OutboxInv` and `PrintInv` count: what was handed over, and the
workers that have taken a job and not handed it over yet, together never exceed how often it was
taken, and a worker that will report a job has handed it over. In Printing a job is taken by each
claim and by each browser print after a failed send, and a send nobody waits for any more still
counts. With this each step of Webhooks,
Outbox and Printing is a step of JobQueue or a stutter: `WebhooksRefinement`,
`OutboxRefinement`, `PrintingRefinement`. The same invariants give `WebhooksScheduled`,
`OutboxLeavesNothing`, `PrintsExplained` and, over MCDelivery, `DeliveryTypes`.

**Assumptions.** Besides the types of constants, the assumptions keep sentinels apart from ids
("free" is no request, "nobody" no buyer, "no payer" no payer), make sets of rows finite where they are counted, and say: ids of tables
precede those of orders, which stands for locking tables first (`BillsAssumption`); a
reconciliation worker is not an API task (`RefundsAssumption`); a page and a batch hold at
least one row (`FeedAssumption`, `EdgeAssumption`); a sale that redeems points names a phone and
an OTP, as `resolveDiscounts` and `verifyAndConsume` require (`TenderAssumption`); campaign
and OTP messages, and event and test deliveries, are different rows (`OutboxAssumption`,
`WebhooksAssumption`); what a batch is prepared of are materials (`StockAssumption`); payroll has
a month and a member (`PayrollAssumption`); a reservation lasts at most `MaxDuration` (`ReservationAssumption`); and a
menu has a price, a bill a service rule, and no discount is a discount (`MoneyAssumption`).
TLC evaluates each on the instance of a run.

**Only model-checked.** Liveness (`RefundsResolve`, `SalesArrive`) needs fairness
and ENABLED, which the prover does not handle. Every other property of a passing run is stated
by a theorem.

## Plan

Modelled and checked: everything listed under Modules; proved: every safety and action property
of a passing run. Next:

1. Liveness of the queues under the fairness of their schedulers, should the prover come to
   handle ENABLED.
2. Components listed below that keep state of their own: menu edits by chain and outlet, staff
   sessions, KDS pairing.

## Not modelled

About a tenth of the repository's lines is behind these models. Most of the rest cannot be
model-checked to any purpose: the dashboard, the ordering PWA and the edge renderer (the largest
share of the code) only produce the requests the models take as inputs; DTO types, schemas,
translations, seed data and controllers carry no state; reports and exports only read; menu,
brand, staff, device and vendor administration writes single rows that nothing else waits for.
Identity (auth, MFA, roles, API keys, sign-up) is access control and not part of these
protocols. Except in Money, amounts are units: prices, coupon rules and pay are sequential and pure.
Service-charge waivers, the legacy offline sync superseded by the edge outbox, PIN sessions
and screen pairing on the edge (one process, one database) and vendor credit are left out.

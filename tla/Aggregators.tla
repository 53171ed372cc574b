---------------------------- MODULE Aggregators ----------------------------
(***************************************************************************)
(* Delivery platforms: an order's webhook travels through the connector's  *)
(* job queue into the main API; its status and the menu's availability     *)
(* travel back.                                                            *)
(* Sources: apps/connector/src (webhooks.controller, ingest.processor,     *)
(* main-api.service, outbound/push.service, outbound/urbanpiper.client),   *)
(* apps/api/src/connector/connector.service.ts and                         *)
(* apps/api/src/aggregator-sync/aggregator-sync.service.ts.                *)
(*                                                                         *)
(* The platform delivers a webhook as often as it likes, calls between the *)
(* services are lost before or after they had their effect, and staff act  *)
(* on an order while its platform reports progress.  An outlet without     *)
(* credentials for the platform is simulated: calls are answered ok and    *)
(* reach nobody.                                                           *)
(***************************************************************************)
EXTENDS Naturals, FiniteSets

CONSTANTS
    External,       \* orders of the platform
    JobAttempts,    \* attempts the job queue makes
    Ingests,        \* ingest calls the main API may be running at once
    Actors,         \* concurrent staff actions and automatic syncs
    StaffMoves,     \* statuses staff may ask for
    Reports,        \* statuses the platform reports
    MaxToggles,     \* bound on availability changes
    MaxSyncs        \* bound on pushes and status calls started

AggregatorStatus == {"RECEIVED", "ACCEPTED", "REJECTED", "PREPARING", "READY", "PICKED_UP", "DELIVERED", "CANCELLED"}

ASSUME AggregatorAssumption ==
    /\ JobAttempts \in Nat \ {0} /\ {MaxToggles, MaxSyncs} \subseteq Nat
    /\ StaffMoves \subseteq AggregatorStatus \ {"RECEIVED"} /\ Reports \subseteq AggregatorStatus

VARIABLES
    relayJob,   \* the connector's queue: state and attempts of each order's job
    relay,      \* ingest calls under way at the main API
    aggRow,     \* aggregator_orders: status, or NONE
    fired,      \* internal orders created from each external one
    live,       \* has the connector credentials, or does it simulate the platform?
    taken,      \* statuses each order has had at the platform, in its words
    avail,      \* is the item in stock, as the menu says
    shown,      \* as the platform shows it
    synced,     \* as the last successful sync log records it
    muddled,    \* a push overlapped another or had an unreported effect
    actor,      \* each actor's call
    spent       \* toggles and calls used up

aggVars == <<relayJob, relay, aggRow, fired, live, taken, avail, shown, synced, muddled, actor, spent>>

orderVars == <<relayJob, relay, aggRow, fired, taken>>

menuVars == <<avail, shown, synced, muddled>>

TERMINAL == {"DELIVERED", "REJECTED", "CANCELLED"}

Statuses == {"NONE"} \cup AggregatorStatus

UpOrderStatus == {"Acknowledged", "Food Ready", "Dispatched", "Completed", "Cancelled"}

\* A status in the platform's words, or "none" when it has no word for it.
UpStatus(s) ==
    CASE s = "ACCEPTED" -> "Acknowledged"
      [] s = "READY" -> "Food Ready"
      [] s = "PICKED_UP" -> "Dispatched"
      [] s = "DELIVERED" -> "Completed"
      [] s \in {"REJECTED", "CANCELLED"} -> "Cancelled"
      [] OTHER -> "none"

NoPush == [at |-> "idle"]

NoRelay == [x |-> "nothing"]

Relays == {NoRelay} \cup [x: External, try: 0 .. JobAttempts]

ActorCalls == {NoPush} \cup [at: {"ask", "write"}, x: External, to: StaffMoves]
              \cup [at: {"push", "log"}, val: BOOLEAN]

AggTypeOK ==
    /\ relayJob \in [External -> [state: {"none", "waiting", "active", "failed", "done"}, tries: 0 .. JobAttempts]]
    /\ relay \in [Ingests -> Relays]
    /\ aggRow \in [External -> Statuses]
    /\ fired \in [External -> Nat]
    /\ live \in BOOLEAN
    /\ taken \in [External -> SUBSET UpOrderStatus]
    /\ avail \in BOOLEAN /\ shown \in BOOLEAN /\ synced \in BOOLEAN /\ muddled \in BOOLEAN
    /\ actor \in [Actors -> ActorCalls]
    /\ spent \in [toggles: 0 .. MaxToggles, calls: 0 .. MaxSyncs]

AggInit ==
    /\ relayJob = [x \in External |-> [state |-> "none", tries |-> 0]]
    /\ relay = [d \in Ingests |-> NoRelay]
    /\ aggRow = [x \in External |-> "NONE"]
    /\ fired = [x \in External |-> 0]
    /\ live \in BOOLEAN
    /\ taken = [x \in External |-> {}]
    /\ avail = TRUE /\ shown = TRUE /\ synced = TRUE
    /\ muddled = FALSE
    /\ actor = [a \in Actors |-> NoPush]
    /\ spent = [toggles |-> 0, calls |-> 0]

-----------------------------------------------------------------------------

\* The webhook is verified, parsed and queued under the order's id: while a job
\* with that id exists, finished or failed, adding it again changes nothing.
WebhookArrives(x) ==
    /\ relayJob[x].state = "none"
    /\ relayJob' = [relayJob EXCEPT ![x].state = "waiting"]
    /\ UNCHANGED <<relay, aggRow, fired, taken, menuVars, actor, spent>>

\* Old jobs, finished or failed, are trimmed from the queue: the next delivery is
\* queued again, and nobody waits for the calls of the old job any more.
JobTrimmed(x) ==
    /\ relayJob[x].state \in {"done", "failed"}
    /\ relayJob' = [relayJob EXCEPT ![x] = [state |-> "none", tries |-> 0]]
    /\ relay' = [d \in Ingests |-> IF relay[d].x = x THEN [relay[d] EXCEPT !.try = 0] ELSE relay[d]]
    /\ UNCHANGED <<aggRow, fired, taken, menuVars, actor, spent>>

JobStarts(x) ==
    /\ relayJob[x].state = "waiting"
    /\ \E d \in Ingests :
        /\ relay[d] = NoRelay
        /\ relay' = [relay EXCEPT ![d] = [x |-> x, try |-> relayJob[x].tries + 1]]
    /\ relayJob' = [relayJob EXCEPT ![x] = [state |-> "active", tries |-> @.tries + 1]]
    /\ UNCHANGED <<aggRow, fired, taken, menuVars, actor, spent>>

\* The call failed or its answer was lost; the main API may still be at it.
JobFails(x) ==
    /\ relayJob[x].state = "active"
    /\ relayJob' = [relayJob EXCEPT ![x].state = IF relayJob[x].tries < JobAttempts THEN "waiting" ELSE "failed"]
    /\ UNCHANGED <<relay, aggRow, fired, taken, menuVars, actor, spent>>

\* Variant of the code: no unique key on (platform, externalOrderId).
KeyTakenNever(x) == FALSE

KeyTaken(x) == aggRow[x] # "NONE"

\* ingest: the idempotency key, the order and its KOT in one transaction (no order
\* when none of its items is on the menu map); a duplicate rolls back and reports
\* the winner.  A matched order is stored as ACCEPTED at once: the platform is not
\* asked.  The answer ends the attempt that waits for it.
IngestCommits(d, matched) ==
    /\ relay[d] # NoRelay
    /\ LET x == relay[d].x IN
       /\ IF KeyTaken(x)
          THEN UNCHANGED <<aggRow, fired>>
          ELSE /\ aggRow' = [aggRow EXCEPT ![x] = IF matched THEN "ACCEPTED" ELSE "RECEIVED"]
               /\ fired' = [fired EXCEPT ![x] = @ + (IF matched THEN 1 ELSE 0)]
       /\ relayJob' = IF relayJob[x] = [state |-> "active", tries |-> relay[d].try]
                 THEN [relayJob EXCEPT ![x].state = "done"] ELSE relayJob
    /\ relay' = [relay EXCEPT ![d] = NoRelay]
    /\ UNCHANGED <<taken, menuVars, actor, spent>>

IngestDies(d) ==
    /\ relay[d] # NoRelay
    /\ relay' = [relay EXCEPT ![d] = NoRelay]
    /\ UNCHANGED <<relayJob, aggRow, fired, taken, menuVars, actor, spent>>

-----------------------------------------------------------------------------

\* The platform moves the order, when it knows the status at all.
PlatformTakes(x, status) ==
    taken' = IF UpStatus(status) = "none" THEN taken ELSE [taken EXCEPT ![x] = @ \cup {UpStatus(status)}]

\* updateStatus: the platform's report is written by id, whatever the row holds.
PlatformReports(x, status) ==
    /\ aggRow[x] # "NONE" /\ aggRow[x] # status
    /\ PlatformTakes(x, status)
    /\ aggRow' = [aggRow EXCEPT ![x] = status]
    /\ UNCHANGED <<relayJob, relay, fired, menuVars, actor, spent>>

Calls(a, rec) ==
    /\ actor[a] = NoPush
    /\ spent.calls < MaxSyncs
    /\ spent' = [spent EXCEPT !.calls = @ + 1]
    /\ actor' = [actor EXCEPT ![a] = rec]

Returns(a) == actor' = [actor EXCEPT ![a] = NoPush]

\* orderAction: the row is read ...
ActionReads(a, x, status) ==
    /\ aggRow[x] \notin TERMINAL \cup {"NONE"}
    /\ Calls(a, [at |-> "ask", x |-> x, to |-> status])
    /\ UNCHANGED <<orderVars, menuVars>>

\* ... the platform is asked, and agrees and is heard or not, or refuses; the client
\* answers for it when it has no word for the status, and when it is simulated ...
PlatformAgrees(a) ==
    /\ actor[a].at = "ask"
    /\ IF live THEN PlatformTakes(actor[a].x, actor[a].to) ELSE UNCHANGED taken
    /\ \/ actor' = [actor EXCEPT ![a].at = "write"]
       \/ Returns(a)
    /\ UNCHANGED <<relayJob, relay, aggRow, fired, menuVars, spent>>

PlatformRefuses(a) ==
    /\ actor[a].at = "ask"
    /\ Returns(a)
    /\ UNCHANGED <<orderVars, menuVars, spent>>

\* ... and only then our copy moves, by id.
ActionWrites(a) ==
    /\ actor[a].at = "write"
    /\ aggRow' = [aggRow EXCEPT ![actor[a].x] = actor[a].to]
    /\ Returns(a)
    /\ UNCHANGED <<relayJob, relay, fired, taken, menuVars, spent>>

-----------------------------------------------------------------------------

\* Availability.
ItemToggled ==
    /\ spent.toggles < MaxToggles
    /\ spent' = [spent EXCEPT !.toggles = @ + 1]
    /\ avail' = ~avail
    /\ UNCHANGED <<orderVars, shown, synced, muddled, actor>>

SyncRunning == \E a \in Actors : actor[a].at \in {"push", "log"}

\* autoStockSync pushes only what differs from the last successful log; pushStock
\* (full) pushes everything.
SyncNeeded(full) == full \/ avail # synced

SyncReads(a, full) ==
    /\ SyncNeeded(full)
    /\ Calls(a, [at |-> "push", val |-> avail])
    /\ muddled' = (muddled \/ SyncRunning)
    /\ UNCHANGED <<orderVars, avail, shown, synced>>

\* The platform, if there is one, takes the push, and its answer arrives or is lost
\* (logged ERROR).
PushTaken(a) ==
    /\ actor[a].at = "push"
    /\ shown' = IF live THEN actor[a].val ELSE shown
    /\ \/ actor' = [actor EXCEPT ![a].at = "log"] /\ UNCHANGED muddled
       \/ Returns(a) /\ muddled' = TRUE
    /\ UNCHANGED <<orderVars, avail, synced, spent>>

PushFails(a) ==
    /\ actor[a].at = "push"
    /\ Returns(a)
    /\ UNCHANGED <<orderVars, menuVars, spent>>

\* The full state that was pushed is logged, OK or SIMULATED.
SyncLogs(a) ==
    /\ actor[a].at = "log"
    /\ synced' = actor[a].val
    /\ Returns(a)
    /\ UNCHANGED <<orderVars, avail, shown, muddled, spent>>

AggStep ==
    \/ \E x \in External :
        \/ WebhookArrives(x) \/ JobTrimmed(x) \/ JobStarts(x) \/ JobFails(x)
        \/ \E s \in Reports : PlatformReports(x, s)
    \/ \E d \in Ingests : IngestDies(d) \/ \E m \in BOOLEAN : IngestCommits(d, m)
    \/ \E a \in Actors :
        \/ \E x \in External, s \in StaffMoves : ActionReads(a, x, s)
        \/ PlatformAgrees(a) \/ PlatformRefuses(a) \/ ActionWrites(a)
        \/ \E full \in BOOLEAN : SyncReads(a, full)
        \/ PushTaken(a) \/ PushFails(a) \/ SyncLogs(a)
    \/ ItemToggled

AggNext == AggStep /\ UNCHANGED live

AggSpec == AggInit /\ [][AggNext]_aggVars

-----------------------------------------------------------------------------

\* However often a webhook is delivered or its relay retried, the kitchen gets
\* the order once.
FiredOnce == \A x \in External : fired[x] <= 1

\* A job the queue is done with has its order stored, late answers included.
AcceptedNotLost ==
    \A x \in External : relayJob[x].state = "done" => aggRow[x] # "NONE"

\* Does our copy claim something of the platform?  Not when it has no word for the
\* status, and not for the ACCEPTED of a matched order.
Claims(x) == UpStatus(aggRow[x]) # "none" /\ ~(aggRow[x] = "ACCEPTED" /\ fired[x] > 0)

\* At an outlet that is connected, our copy never shows a move the platform has
\* not made, however calls are lost and reports and staff race.
StatusAgreed == live => \A x \in External : Claims(x) => UpStatus(aggRow[x]) \in taken[x]

\* Orders from a platform reach the kitchen once, are not dropped between
\* the connector and the main API, and show only moves the platform made.
PlatformOrdersSound == FiredOnce /\ AcceptedNotLost /\ StatusAgreed

\* At an outlet that is connected, what the last successful log says is what the
\* platform shows, so that the next difference is taken against reality, except
\* after pushes overlapped or one took effect unheard.
SyncLogIsReality == live /\ ~SyncRunning /\ ~muddled => shown = synced

\* What the platforms and the outlet agree on: orders and the menu last pushed.
PlatformsSound == PlatformOrdersSound /\ SyncLogIsReality
=============================================================================

---------------------------- MODULE OfficeProofs ----------------------------
(***************************************************************************)
(* The back office, for any number of orders, devices, requests and rows:  *)
(* platform orders reach the kitchen once and show moves of the platform,  *)
(* the cursor of an offline device skips no change of the outlet's feed,   *)
(* stock agrees with its ledger, the portal holds each invoice once,       *)
(* receipts and payments add up, payslips recover what is booked, and a    *)
(* tenant is charged once for its own subscription.                        *)
(***************************************************************************)
EXTENDS MCOffice, SumProofs

(* Delivery platforms. *)

\* A job that waits, or does not exist yet, has an attempt left.
TriesLeft ==
    \A x \in External : relayJob[x].state \in {"none", "waiting"} => relayJob[x].tries < JobAttempts

\* An order that is not stored has not been sent to the kitchen.
UnfiredUntilStored == \A x \in External : aggRow[x] = "NONE" => fired[x] = 0

\* What a staff action is about to write, the platform did, if it has a word for it.
TakenBeforeWritten ==
    live => \A a \in Actors : actor[a].at = "write" =>
                UpStatus(actor[a].to) \in taken[actor[a].x] \cup {"none"}

\* Until pushes overlap or one is not heard of, at most one is under way, and what
\* it pushed, or else the log, is what the platform shows.
Syncing(a) == actor[a].at \in {"push", "log"}
OnePush ==
    live /\ ~muddled =>
                /\ \A a, b \in Actors : Syncing(a) /\ Syncing(b) => a = b
                /\ \A a \in Actors : actor[a].at = "log" => shown = actor[a].val
                /\ (\A a \in Actors : actor[a].at # "log") => shown = synced

OrdersInv == TriesLeft /\ PlatformOrdersSound /\ UnfiredUntilStored /\ TakenBeforeWritten
AggInv == AggTypeOK /\ OrdersInv /\ OnePush

\* The relay of an order through the connector's queue into the main API.
LEMMA RelayKeeps ==
    ASSUME AggInv,
           UNCHANGED live,
           \/ \E x \in External : WebhookArrives(x) \/ JobTrimmed(x) \/ JobStarts(x) \/ JobFails(x)
           \/ \E d \in Ingests : IngestDies(d) \/ \E m \in BOOLEAN : IngestCommits(d, m)
    PROVE  AggInv'
<1> USE AggregatorAssumption
<1>1. AggTypeOK /\ TriesLeft /\ FiredOnce /\ AcceptedNotLost /\ StatusAgreed
      /\ UnfiredUntilStored /\ TakenBeforeWritten /\ OnePush
  BY DEF AggInv, OrdersInv, PlatformOrdersSound
<1>2. UNCHANGED <<live, taken, avail, shown, synced, muddled, actor, spent>>
  BY DEF WebhookArrives, JobTrimmed, JobStarts, JobFails, IngestCommits, IngestDies, menuVars
<1>3. OnePush'
  BY <1>1, <1>2 DEF OnePush, Syncing
<1>4. ASSUME UNCHANGED <<aggRow, fired>>, relay' \in [Ingests -> Relays],
             relayJob' \in [External -> [state: {"none", "waiting", "active", "failed", "done"}, tries: 0 .. JobAttempts]],
             TriesLeft', AcceptedNotLost'
      PROVE  AggInv'
  <2>1. AggTypeOK'
    BY <1>1, <1>2, <1>4 DEF AggTypeOK
  <2>2. QED
    BY <1>1, <1>2, <1>3, <1>4, <2>1 DEF AggInv, OrdersInv, PlatformOrdersSound, FiredOnce, StatusAgreed,
       Claims, UnfiredUntilStored, TakenBeforeWritten
<1>5. ASSUME NEW x \in External, WebhookArrives(x) \/ JobTrimmed(x) \/ JobStarts(x) \/ JobFails(x)
      PROVE  AggInv'
  <2>1. CASE WebhookArrives(x)
    <3>1. relayJob[x].tries < JobAttempts
      BY <1>1, <2>1 DEF AggTypeOK, TriesLeft, WebhookArrives
    <3>2. QED
      BY <1>1, <1>4, <2>1, <3>1 DEF AggTypeOK, TriesLeft, AcceptedNotLost, WebhookArrives
  <2>2. CASE JobTrimmed(x)
    <3>1. \A e \in Ingests : relay'[e] \in Relays
      BY <1>1, <2>2 DEF AggTypeOK, JobTrimmed, Relays, NoRelay
    <3>2. QED
      BY <1>1, <1>4, <2>2, <3>1 DEF AggTypeOK, TriesLeft, AcceptedNotLost, JobTrimmed
  <2>3. CASE JobStarts(x)
    <3>1. relayJob[x].tries \in 0 .. JobAttempts /\ relayJob[x].tries < JobAttempts
      BY <1>1, <2>3 DEF AggTypeOK, TriesLeft, JobStarts
    <3>2. relayJob[x].tries + 1 \in 0 .. JobAttempts
      BY <3>1
    <3>3. relay' \in [Ingests -> Relays]
      BY <1>1, <2>3, <3>2 DEF AggTypeOK, JobStarts, Relays
    <3>4. QED
      BY <1>1, <1>4, <2>3, <3>2, <3>3 DEF AggTypeOK, TriesLeft, AcceptedNotLost, JobStarts
  <2>4. CASE JobFails(x)
    BY <1>1, <1>4, <2>4 DEF AggTypeOK, TriesLeft, AcceptedNotLost, JobFails
  <2>5. QED
    BY <1>5, <2>1, <2>2, <2>3, <2>4
<1>6. ASSUME NEW d \in Ingests, IngestDies(d) PROVE AggInv'
  BY <1>1, <1>4, <1>6 DEF AggTypeOK, TriesLeft, AcceptedNotLost, IngestDies, Relays
<1>7. ASSUME NEW d \in Ingests, NEW m \in BOOLEAN, IngestCommits(d, m) PROVE AggInv'
  <2> DEFINE y == relay[d].x
  <2>1. y \in External /\ relay[d].try \in 0 .. JobAttempts
    BY <1>1, <1>7 DEF AggTypeOK, IngestCommits, Relays
  <2>2. /\ relay' \in [Ingests -> Relays] /\ relayJob' \in [External -> [state: {"none", "waiting", "active", "failed", "done"}, tries: 0 .. JobAttempts]]
        /\ \A w \in External : w # y => relayJob'[w] = relayJob[w]
        /\ relayJob'[y].state \in {"none", "waiting"} => relayJob'[y] = relayJob[y]
    BY <1>1, <1>7, <2>1 DEF AggTypeOK, IngestCommits, Relays
  <2>3. CASE aggRow[y] # "NONE"
    <3>1. UNCHANGED <<aggRow, fired>>
      BY <1>7, <2>3 DEF IngestCommits, KeyTaken
    <3>2. TriesLeft' /\ AcceptedNotLost'
      BY <1>1, <2>1, <2>2, <2>3, <3>1 DEF AggTypeOK, TriesLeft, AcceptedNotLost
    <3>3. QED
      BY <1>4, <2>2, <3>1, <3>2
  <2>4. CASE aggRow[y] = "NONE"
    <3>1. PICK s \in {"ACCEPTED", "RECEIVED"}, n \in {0, 1} :
             /\ aggRow' = [aggRow EXCEPT ![y] = s]
             /\ fired' = [fired EXCEPT ![y] = @ + n]
             /\ s = "RECEIVED" \/ n = 1
      BY <1>7, <2>4 DEF IngestCommits, KeyTaken
    <3>2. s \in Statuses /\ s # "NONE" /\ UpStatus("RECEIVED") = "none"
      BY DEF Statuses, AggregatorStatus, UpStatus
    <3>3. fired[y] = 0
      BY <1>1, <2>1, <2>4 DEF UnfiredUntilStored
    <3>4. AggTypeOK'
      BY <1>1, <1>2, <2>1, <2>2, <3>1, <3>2 DEF AggTypeOK
    <3>5. TriesLeft' /\ AcceptedNotLost'
      BY <1>1, <2>1, <2>2, <3>1, <3>2 DEF AggTypeOK, TriesLeft, AcceptedNotLost
    <3>6. FiredOnce' /\ UnfiredUntilStored'
      BY <1>1, <2>1, <3>1, <3>2, <3>3 DEF AggTypeOK, FiredOnce, UnfiredUntilStored
    <3>7. StatusAgreed' /\ TakenBeforeWritten'
      <4>1. ASSUME NEW w \in External, w = y PROVE ~Claims(w)'
        BY <1>1, <2>1, <3>1, <3>2, <3>3, <4>1 DEF AggTypeOK, Claims
      <4>2. ASSUME NEW w \in External, w # y PROVE Claims(w)' = Claims(w) /\ aggRow'[w] = aggRow[w]
        BY <1>1, <2>1, <3>1, <4>2 DEF AggTypeOK, Claims
      <4>3. QED
        BY <1>1, <1>2, <4>1, <4>2 DEF StatusAgreed, TakenBeforeWritten
    <3>8. QED
      BY <1>3, <3>4, <3>5, <3>6, <3>7 DEF AggInv, OrdersInv, PlatformOrdersSound
  <2>5. QED
    BY <2>3, <2>4
<1>8. QED
  BY <1>5, <1>6, <1>7

\* Status moves of the platform and of staff.
LEMMA StatusKeeps ==
    ASSUME AggInv, UNCHANGED live,
           \/ \E x \in External, s \in Reports : PlatformReports(x, s)
           \/ \E a \in Actors : \/ \E x \in External, s \in StaffMoves : ActionReads(a, x, s)
                               \/ PlatformAgrees(a) \/ PlatformRefuses(a) \/ ActionWrites(a)
    PROVE  AggInv'
<1> USE AggregatorAssumption
<1>1. AggTypeOK /\ TriesLeft /\ FiredOnce /\ AcceptedNotLost /\ StatusAgreed
      /\ UnfiredUntilStored /\ TakenBeforeWritten /\ OnePush
  BY DEF AggInv, OrdersInv, PlatformOrdersSound
<1>2. UNCHANGED <<live, relayJob, relay, fired, avail, shown, synced, muddled>>
  BY DEF PlatformReports, ActionReads, PlatformAgrees, PlatformRefuses, ActionWrites, menuVars, orderVars
<1>3. "NONE" \notin Reports \cup StaffMoves /\ Reports \cup StaffMoves \subseteq Statuses
  BY DEF AggregatorStatus, Statuses
<1>. DEFINE Grown == /\ taken' \in [External -> SUBSET UpOrderStatus]
                    /\ \A w \in External : taken[w] \subseteq taken'[w]
<1>4. ASSUME NEW x \in External, NEW s \in Statuses, PlatformTakes(x, s)
      PROVE  Grown /\ UpStatus(s) \in taken'[x] \cup {"none"}
  <2>1. UpStatus(s) \in UpOrderStatus \cup {"none"}
    BY DEF UpStatus, UpOrderStatus
  <2>2. PICK u \in UpOrderStatus \cup {"none"} : u = UpStatus(s)
    BY <2>1
  <2>3. taken' = IF u = "none" THEN taken ELSE [taken EXCEPT ![x] = @ \cup {u}]
    BY <1>4, <2>2 DEF PlatformTakes
  <2>4. Grown /\ u \in taken'[x] \cup {"none"}
    BY <1>1, <2>3 DEF AggTypeOK
  <2>5. QED
    BY <2>2, <2>4
<1>5. ASSUME NEW x \in External, NEW s \in Reports, PlatformReports(x, s) PROVE AggInv'
  <2>1. /\ PlatformTakes(x, s) /\ aggRow' = [aggRow EXCEPT ![x] = s]
        /\ actor' = actor /\ spent' = spent /\ aggRow[x] # "NONE"
    BY <1>5 DEF PlatformReports
  <2>2. Grown /\ UpStatus(s) \in taken'[x] \cup {"none"}
    BY <1>3, <1>4, <2>1
  <2>3. AggTypeOK'
    BY <1>1, <1>2, <1>3, <2>1, <2>2 DEF AggTypeOK
  <2>4. StatusAgreed'
    <3>1. ASSUME NEW w \in External, live', Claims(w)' PROVE UpStatus(aggRow'[w]) \in taken'[w]
      <4>1. CASE w = x
        BY <1>1, <2>1, <2>2, <3>1, <4>1 DEF AggTypeOK, Claims
      <4>2. CASE w # x
        <5>1. aggRow'[w] = aggRow[w] /\ Claims(w) /\ live
          BY <1>1, <1>2, <2>1, <3>1, <4>2 DEF AggTypeOK, Claims
        <5>2. QED
          BY <1>1, <2>2, <5>1 DEF StatusAgreed
      <4>3. QED
        BY <4>1, <4>2
    <3>2. QED
      BY <3>1 DEF StatusAgreed
  <2>5. TakenBeforeWritten'
    <3>1. \A a \in Actors : actor[a].at = "write" => actor[a].x \in External
      BY <1>1 DEF AggTypeOK, ActorCalls, NoPush
    <3>2. QED
      BY <1>1, <1>2, <2>1, <2>2, <3>1 DEF TakenBeforeWritten
  <2>6. TriesLeft' /\ FiredOnce' /\ AcceptedNotLost' /\ UnfiredUntilStored'
    BY <1>1, <1>2, <1>3, <2>1 DEF AggTypeOK, TriesLeft, FiredOnce, AcceptedNotLost, UnfiredUntilStored
  <2>7. OnePush'
    BY <1>1, <1>2, <2>1 DEF OnePush, Syncing
  <2>8. QED
    BY <2>3, <2>4, <2>5, <2>6, <2>7 DEF AggInv, OrdersInv, PlatformOrdersSound
<1>6. ASSUME NEW a \in Actors, NEW rec \in {NoPush} \cup [at: {"ask", "write"}, x: External, to: StaffMoves],
             actor' = [actor EXCEPT ![a] = rec], actor[a].at \in {"idle", "ask", "write"}
      PROVE  /\ actor' \in [Actors -> ActorCalls] /\ OnePush'
             /\ \A b \in Actors : b # a => actor'[b] = actor[b]
             /\ actor'[a] = rec
  <2>1. /\ actor'[a] = rec /\ \A b \in Actors : b # a => actor'[b] = actor[b]
        /\ actor' \in [Actors -> ActorCalls]
    BY <1>1, <1>6 DEF AggTypeOK, ActorCalls
  <2>2. rec.at \in {"idle", "ask", "write"}
    BY DEF NoPush
  <2>3. \A b \in Actors : /\ Syncing(b)' <=> Syncing(b)
                          /\ actor'[b].at = "log" <=> actor[b].at = "log"
                          /\ actor'[b].at = "log" => actor'[b].val = actor[b].val
    BY <1>6, <2>1, <2>2 DEF Syncing
  <2>4. OnePush'
    BY <1>1, <1>2, <2>3 DEF OnePush
  <2>5. QED
    BY <2>1, <2>4
<1>7. ASSUME NEW a \in Actors, NEW x \in External, NEW s \in StaffMoves, ActionReads(a, x, s) PROVE AggInv'
  <2>1. /\ actor[a] = NoPush /\ actor' = [actor EXCEPT ![a] = [at |-> "ask", x |-> x, to |-> s]]
        /\ spent' = [spent EXCEPT !.calls = @ + 1] /\ spent.calls < MaxSyncs
        /\ UNCHANGED <<aggRow, taken>>
    BY <1>7 DEF ActionReads, Calls, orderVars
  <2>2. spent' \in [toggles: 0 .. MaxToggles, calls: 0 .. MaxSyncs]
    BY <1>1, <2>1 DEF AggTypeOK
  <2>3. PICK rec \in [at: {"ask", "write"}, x: External, to: StaffMoves] : rec = [at |-> "ask", x |-> x, to |-> s]
    BY <1>7
  <2>4. /\ actor' \in [Actors -> ActorCalls] /\ OnePush' /\ actor'[a] = rec
        /\ \A b \in Actors : b # a => actor'[b] = actor[b]
    <3>1. actor' = [actor EXCEPT ![a] = rec] /\ actor[a].at = "idle"
      BY <2>1, <2>3 DEF NoPush
    <3>2. QED
      BY <1>6, <3>1
  <2>5. TakenBeforeWritten'
    BY <1>1, <1>2, <2>1, <2>3, <2>4 DEF TakenBeforeWritten
  <2>6. QED
    BY <1>1, <1>2, <2>1, <2>2, <2>4, <2>5 DEF AggInv, AggTypeOK, OrdersInv, PlatformOrdersSound, TriesLeft,
       FiredOnce, AcceptedNotLost, StatusAgreed, Claims, UnfiredUntilStored
<1>8. ASSUME NEW a \in Actors, PlatformAgrees(a) PROVE AggInv'
  <2>1. actor[a].at = "ask" /\ actor[a] \in [at: {"ask", "write"}, x: External, to: StaffMoves]
    BY <1>1, <1>8 DEF AggTypeOK, ActorCalls, PlatformAgrees, NoPush
  <2>2. PICK y \in External, t \in StaffMoves : y = actor[a].x /\ t = actor[a].to
    BY <2>1
  <2>3. PICK rec \in {NoPush} \cup [at: {"ask", "write"}, x: External, to: StaffMoves] :
           /\ actor' = [actor EXCEPT ![a] = rec]
           /\ rec.at = "write" => rec.x = y /\ rec.to = t
    BY <1>8, <2>1, <2>2 DEF PlatformAgrees, Returns, NoPush
  <2>4. /\ actor' \in [Actors -> ActorCalls] /\ OnePush' /\ actor'[a] = rec
        /\ \A b \in Actors : b # a => actor'[b] = actor[b]
    BY <1>6, <2>1, <2>3
  <2>5. aggRow' = aggRow /\ spent' = spent /\ (live => PlatformTakes(y, t)) /\ (~live => taken' = taken)
    BY <1>8, <2>2 DEF PlatformAgrees
  <2>6. Grown /\ (live => UpStatus(t) \in taken'[y] \cup {"none"})
    <3>1. CASE live
      BY <1>3, <1>4, <2>5, <3>1
    <3>2. CASE ~live
      BY <1>1, <2>5, <3>2 DEF AggTypeOK
    <3>3. QED
      BY <3>1, <3>2
  <2>7. TakenBeforeWritten'
    <3>1. ASSUME live, NEW b \in Actors, actor'[b].at = "write"
          PROVE  UpStatus(actor'[b].to) \in taken'[actor'[b].x] \cup {"none"}
      <4>1. CASE b = a
        BY <2>3, <2>4, <2>6, <3>1, <4>1
      <4>2. CASE b # a
        <5>1. actor'[b] = actor[b] /\ actor[b].x \in External
          BY <1>1, <2>4, <3>1, <4>2 DEF AggTypeOK, ActorCalls, NoPush
        <5>2. QED
          BY <1>1, <2>6, <3>1, <5>1 DEF TakenBeforeWritten
      <4>3. QED
        BY <4>1, <4>2
    <3>2. QED
      BY <1>2, <3>1 DEF TakenBeforeWritten
  <2>8. StatusAgreed'
    BY <1>1, <1>2, <2>5, <2>6 DEF StatusAgreed, Claims
  <2>9. QED
    BY <1>1, <1>2, <2>4, <2>5, <2>6, <2>7, <2>8 DEF AggInv, AggTypeOK, OrdersInv, PlatformOrdersSound,
       TriesLeft, FiredOnce, AcceptedNotLost, UnfiredUntilStored
<1>9. ASSUME NEW a \in Actors, PlatformRefuses(a) PROVE AggInv'
  <2>1. actor[a].at = "ask" /\ actor' = [actor EXCEPT ![a] = NoPush] /\ UNCHANGED <<aggRow, taken, spent>>
    BY <1>9 DEF PlatformRefuses, Returns, orderVars
  <2>2. /\ actor' \in [Actors -> ActorCalls] /\ OnePush' /\ actor'[a] = NoPush
        /\ \A b \in Actors : b # a => actor'[b] = actor[b]
    BY <1>6, <2>1
  <2>3. TakenBeforeWritten'
    BY <1>1, <1>2, <2>1, <2>2 DEF TakenBeforeWritten, NoPush
  <2>4. QED
    BY <1>1, <1>2, <2>1, <2>2, <2>3 DEF AggInv, AggTypeOK, OrdersInv, PlatformOrdersSound, TriesLeft,
       FiredOnce, AcceptedNotLost, StatusAgreed, Claims, UnfiredUntilStored
<1>10. ASSUME NEW a \in Actors, ActionWrites(a) PROVE AggInv'
  <2>1. actor[a].at = "write" /\ actor[a] \in [at: {"ask", "write"}, x: External, to: StaffMoves]
    BY <1>1, <1>10 DEF AggTypeOK, ActorCalls, ActionWrites, NoPush
  <2>2. PICK y \in External, t \in StaffMoves : y = actor[a].x /\ t = actor[a].to
    BY <2>1
  <2>3. /\ actor' = [actor EXCEPT ![a] = NoPush] /\ aggRow' = [aggRow EXCEPT ![y] = t]
        /\ UNCHANGED <<taken, spent>>
    BY <1>10, <2>2 DEF ActionWrites, Returns
  <2>4. /\ actor' \in [Actors -> ActorCalls] /\ OnePush' /\ actor'[a] = NoPush
        /\ \A b \in Actors : b # a => actor'[b] = actor[b]
    BY <1>6, <2>1, <2>3
  <2>5. (live => UpStatus(t) \in taken[y] \cup {"none"}) /\ t # "NONE"
    BY <1>1, <1>3, <2>1, <2>2 DEF TakenBeforeWritten
  <2>6. TakenBeforeWritten'
    BY <1>1, <1>2, <2>3, <2>4 DEF TakenBeforeWritten, NoPush
  <2>7. AggTypeOK'
    BY <1>1, <1>2, <1>3, <2>3, <2>4 DEF AggTypeOK
  <2>8. AcceptedNotLost' /\ StatusAgreed' /\ UnfiredUntilStored'
    <3>1. AcceptedNotLost' /\ UnfiredUntilStored'
      BY <1>1, <1>2, <2>3, <2>5 DEF AggTypeOK, AcceptedNotLost, UnfiredUntilStored
    <3>2. ASSUME NEW v \in External, live, Claims(v)' PROVE UpStatus(aggRow'[v]) \in taken[v]
      <4>1. CASE v = y
        BY <1>1, <2>3, <2>5, <3>2, <4>1 DEF AggTypeOK, Claims
      <4>2. CASE v # y
        <5>1. aggRow'[v] = aggRow[v] /\ Claims(v)
          BY <1>1, <1>2, <2>3, <3>2, <4>2 DEF AggTypeOK, Claims
        <5>2. QED
          BY <1>1, <3>2, <5>1 DEF StatusAgreed
      <4>3. QED
        BY <4>1, <4>2
    <3>3. QED
      BY <1>2, <2>3, <3>1, <3>2 DEF StatusAgreed
  <2>9. QED
    BY <1>1, <1>2, <2>4, <2>6, <2>7, <2>8 DEF AggInv, OrdersInv, PlatformOrdersSound, TriesLeft, FiredOnce
<1>11. QED
  BY <1>5, <1>7, <1>8, <1>9, <1>10

\* The menu's availability and the pushes that carry it.
LEMMA MenuKeeps ==
    ASSUME AggInv, UNCHANGED live,
           \/ ItemToggled
           \/ \E a \in Actors : \/ \E full \in BOOLEAN : SyncReads(a, full)
                               \/ PushTaken(a) \/ PushFails(a) \/ SyncLogs(a)
    PROVE  AggInv'
<1> USE AggregatorAssumption
<1>1. AggTypeOK /\ OrdersInv /\ TakenBeforeWritten /\ OnePush
  BY DEF AggInv, OrdersInv
<1>2. UNCHANGED <<live, relayJob, relay, aggRow, fired, taken>>
  BY DEF ItemToggled, SyncReads, PushTaken, PushFails, SyncLogs, orderVars
<1>3. /\ spent' \in [toggles: 0 .. MaxToggles, calls: 0 .. MaxSyncs]
      /\ avail' \in BOOLEAN /\ muddled' \in BOOLEAN
  <2>1. CASE ItemToggled
    <3>1. /\ spent \in [toggles: 0 .. MaxToggles, calls: 0 .. MaxSyncs] /\ spent.toggles < MaxToggles
          /\ spent' = [spent EXCEPT !.toggles = @ + 1] /\ avail' = ~avail /\ muddled' = muddled
      BY <1>1, <2>1 DEF AggTypeOK, ItemToggled
    <3>2. spent' \in [toggles: 0 .. MaxToggles, calls: 0 .. MaxSyncs]
      BY <3>1
    <3>3. QED
      BY <1>1, <3>1, <3>2 DEF AggTypeOK
  <2>2. ASSUME NEW a \in Actors, NEW full \in BOOLEAN, SyncReads(a, full)
        PROVE  /\ spent' \in [toggles: 0 .. MaxToggles, calls: 0 .. MaxSyncs]
               /\ avail' \in BOOLEAN /\ muddled' \in BOOLEAN
    <3>1. /\ spent \in [toggles: 0 .. MaxToggles, calls: 0 .. MaxSyncs] /\ spent.calls < MaxSyncs
          /\ spent' = [spent EXCEPT !.calls = @ + 1] /\ avail' = avail
      BY <1>1, <2>2 DEF AggTypeOK, SyncReads, Calls
    <3>2. spent' \in [toggles: 0 .. MaxToggles, calls: 0 .. MaxSyncs]
      BY <3>1
    <3>3. muddled' \in BOOLEAN
      BY <2>2 DEF SyncReads
    <3>4. QED
      BY <1>1, <3>1, <3>2, <3>3 DEF AggTypeOK
  <2>3. ASSUME NEW a \in Actors, PushTaken(a) \/ PushFails(a) \/ SyncLogs(a)
        PROVE  spent' = spent /\ avail' = avail /\ muddled' \in {muddled, TRUE}
    BY <2>3 DEF PushTaken, PushFails, SyncLogs, menuVars
  <2>4. QED
    BY <1>1, <2>1, <2>2, <2>3 DEF AggTypeOK
<1>4. ASSUME actor' \in [Actors -> ActorCalls], shown' \in BOOLEAN, synced' \in BOOLEAN,
             \A b \in Actors : actor'[b].at = "write" => actor'[b] = actor[b], OnePush'
      PROVE  AggInv'
  <2>1. AggTypeOK'
    BY <1>1, <1>2, <1>3, <1>4 DEF AggTypeOK
  <2>2. OrdersInv'
    BY <1>1, <1>2, <1>4 DEF OrdersInv, PlatformOrdersSound, TriesLeft, FiredOnce, AcceptedNotLost,
       StatusAgreed, Claims, UnfiredUntilStored, TakenBeforeWritten
  <2>3. QED
    BY <1>4, <2>1, <2>2 DEF AggInv
<1>5. CASE ItemToggled
  <2>1. UNCHANGED <<actor, shown, synced, muddled>>
    BY <1>5 DEF ItemToggled
  <2>2. OnePush'
    BY <1>1, <1>2, <2>1 DEF OnePush, Syncing
  <2>3. QED
    BY <1>1, <1>4, <2>1, <2>2 DEF AggTypeOK
<1>6. ASSUME NEW a \in Actors, NEW rec \in {NoPush} \cup [at: {"push", "log"}, val: BOOLEAN],
             actor' = [actor EXCEPT ![a] = rec]
      PROVE  /\ actor' \in [Actors -> ActorCalls] /\ actor'[a] = rec
             /\ \A b \in Actors : b # a => actor'[b] = actor[b]
             /\ \A b \in Actors : actor'[b].at = "write" => actor'[b] = actor[b]
  <2>1. /\ actor'[a] = rec /\ \A b \in Actors : b # a => actor'[b] = actor[b]
        /\ actor' \in [Actors -> ActorCalls]
    BY <1>1, <1>6 DEF AggTypeOK, ActorCalls
  <2>2. rec.at # "write"
    BY DEF NoPush
  <2>3. QED
    BY <2>1, <2>2
<1>7. ASSUME NEW a \in Actors, NEW full \in BOOLEAN, SyncReads(a, full) PROVE AggInv'
  <2>1. /\ actor[a] = NoPush /\ actor' = [actor EXCEPT ![a] = [at |-> "push", val |-> avail]]
        /\ muddled' = (muddled \/ SyncRunning) /\ UNCHANGED <<shown, synced>>
    BY <1>7 DEF SyncReads, Calls
  <2>2. PICK rec \in [at: {"push", "log"}, val: BOOLEAN] : rec = [at |-> "push", val |-> avail]
    BY <1>1 DEF AggTypeOK
  <2>3. /\ actor' \in [Actors -> ActorCalls] /\ actor'[a] = rec
        /\ \A b \in Actors : b # a => actor'[b] = actor[b]
        /\ \A b \in Actors : actor'[b].at = "write" => actor'[b] = actor[b]
    <3>1. actor' = [actor EXCEPT ![a] = rec]
      BY <2>1, <2>2
    <3>2. QED
      BY <1>6, <3>1
  <2>4. OnePush'
    <3>1. ASSUME live, ~muddled' PROVE ~muddled /\ \A b \in Actors : b # a => ~Syncing(b)'
      BY <2>1, <2>3, <3>1 DEF SyncRunning, Syncing
    <3>2. ASSUME live, ~muddled', NEW b \in Actors PROVE actor'[b].at # "log" /\ actor[b].at # "log"
      <4>1. CASE b = a
        BY <2>1, <2>2, <2>3, <4>1 DEF NoPush
      <4>2. CASE b # a
        BY <2>3, <3>1, <3>2, <4>2 DEF Syncing
      <4>3. QED
        BY <4>1, <4>2
    <3>3. QED
      BY <1>1, <1>2, <2>1, <3>1, <3>2 DEF OnePush
  <2>5. QED
    BY <1>1, <1>4, <2>1, <2>3, <2>4 DEF AggTypeOK
<1>8. ASSUME NEW a \in Actors, PushTaken(a) \/ PushFails(a) \/ SyncLogs(a) PROVE AggInv'
  <2>1. actor[a].at \in {"push", "log"}
    BY <1>8 DEF PushTaken, PushFails, SyncLogs
  <2>2. actor[a] \in [at: {"push", "log"}, val: BOOLEAN]
    BY <1>1, <2>1 DEF AggTypeOK, ActorCalls, NoPush
  <2>3. PICK v \in BOOLEAN : v = actor[a].val
    BY <2>2
  <2>4. CASE PushTaken(a) /\ actor' = [actor EXCEPT ![a].at = "log"] /\ UNCHANGED muddled
    <3>1. PICK rec \in [at: {"push", "log"}, val: BOOLEAN] : rec = [actor[a] EXCEPT !.at = "log"]
      BY <2>2
    <3>2. actor' = [actor EXCEPT ![a] = rec] /\ rec.at = "log" /\ rec.val = v
      BY <2>2, <2>3, <2>4, <3>1
    <3>3. /\ actor' \in [Actors -> ActorCalls] /\ actor'[a] = rec
          /\ \A b \in Actors : b # a => actor'[b] = actor[b]
          /\ \A b \in Actors : actor'[b].at = "write" => actor'[b] = actor[b]
      BY <1>6, <3>2
    <3>4. shown' = (IF live THEN v ELSE shown) /\ synced' = synced
      BY <2>3, <2>4 DEF PushTaken
    <3>5. OnePush'
      <4>1. \A b \in Actors : Syncing(b)' <=> Syncing(b)
        BY <2>1, <3>2, <3>3 DEF Syncing
      <4>2. ASSUME live, ~muddled', NEW b \in Actors, actor'[b].at = "log" PROVE b = a
        BY <1>1, <2>1, <2>4, <3>3, <4>2 DEF OnePush, Syncing
      <4>3. QED
        BY <1>1, <1>2, <2>4, <3>2, <3>3, <3>4, <4>1, <4>2 DEF OnePush
    <3>6. QED
      BY <1>1, <1>4, <2>3, <3>3, <3>4, <3>5 DEF AggTypeOK
  <2>5. ASSUME Returns(a) PROVE /\ actor' \in [Actors -> ActorCalls] /\ actor'[a] = NoPush
                                /\ \A b \in Actors : b # a => actor'[b] = actor[b]
                                /\ \A b \in Actors : actor'[b].at = "write" => actor'[b] = actor[b]
    BY <1>6, <2>5 DEF Returns
  <2>6. CASE PushTaken(a) /\ Returns(a) /\ muddled'
    <3>1. shown' = (IF live THEN v ELSE shown) /\ synced' = synced
      BY <2>3, <2>6 DEF PushTaken
    <3>2. OnePush'
      BY <2>6 DEF OnePush
    <3>3. QED
      BY <1>1, <1>4, <2>3, <2>5, <2>6, <3>1, <3>2 DEF AggTypeOK
  <2>7. ASSUME live, Returns(a), ~muddled, muddled' = muddled
        PROVE  \A b \in Actors : ~Syncing(b)' /\ (actor'[b].at # "log")
    <3>1. ASSUME NEW b \in Actors, b # a PROVE ~Syncing(b)
      BY <1>1, <2>1, <2>7, <3>1 DEF OnePush, Syncing
    <3>2. QED
      BY <2>5, <2>7, <3>1 DEF Syncing, NoPush
  <2>8. CASE PushFails(a)
    <3>1. Returns(a) /\ UNCHANGED <<shown, synced, muddled>> /\ actor[a].at = "push"
      BY <2>8 DEF PushFails, menuVars
    <3>2. ASSUME live, ~muddled PROVE shown = synced
      <4>1. \A b \in Actors : actor[b].at # "log"
        BY <1>1, <3>1, <3>2 DEF OnePush, Syncing
      <4>2. QED
        BY <1>1, <3>2, <4>1 DEF OnePush
    <3>3. OnePush'
      BY <1>2, <2>7, <3>1, <3>2 DEF OnePush
    <3>4. QED
      BY <1>1, <1>4, <2>5, <3>1, <3>3 DEF AggTypeOK
  <2>9. CASE SyncLogs(a)
    <3>1. Returns(a) /\ UNCHANGED <<shown, muddled>> /\ synced' = v /\ actor[a].at = "log"
      BY <2>3, <2>9 DEF SyncLogs
    <3>2. ASSUME live, ~muddled PROVE shown = v
      BY <1>1, <2>3, <3>1, <3>2 DEF OnePush
    <3>3. OnePush'
      BY <1>2, <2>7, <3>1, <3>2 DEF OnePush
    <3>4. QED
      BY <1>1, <1>4, <2>3, <2>5, <3>1, <3>3 DEF AggTypeOK
  <2>10. QED
    BY <1>8, <2>4, <2>6, <2>8, <2>9 DEF PushTaken
<1>9. QED
  BY <1>5, <1>7, <1>8

\* No order has arrived, nothing is pushed and no call is under way at the start.
LEMMA AggStarts == AggInit => AggInv
<1> SUFFICES ASSUME AggInit PROVE AggInv
  OBVIOUS
<1>1. AggTypeOK
  <2>1. 0 \in 0 .. JobAttempts /\ 0 \in 0 .. MaxToggles /\ 0 \in 0 .. MaxSyncs /\ "NONE" \in Statuses
    BY AggregatorAssumption DEF Statuses
  <2>2. QED
    BY <2>1 DEF AggInit, AggTypeOK, Relays, ActorCalls
<1>2. \A a \in Actors : actor[a].at = "idle"
  BY DEF AggInit, NoPush
<1>3. TriesLeft /\ PlatformOrdersSound /\ UnfiredUntilStored
  <2>1. UpStatus("NONE") = "none"
    BY DEF UpStatus
  <2>2. QED
    BY AggregatorAssumption, <2>1 DEF AggInit, PlatformOrdersSound, TriesLeft, FiredOnce, AcceptedNotLost,
       StatusAgreed, Claims, UnfiredUntilStored
<1>4. TakenBeforeWritten /\ OnePush
  BY <1>2 DEF AggInit, TakenBeforeWritten, OnePush, Syncing
<1>5. OrdersInv
  BY <1>3, <1>4 DEF OrdersInv
<1>6. QED
  BY <1>1, <1>4, <1>5 DEF AggInv

\* No step of the connector takes its invariant away.
LEMMA AggKeeps == AggInv /\ [AggNext]_aggVars => AggInv'
<1> SUFFICES ASSUME AggInv, [AggNext]_aggVars PROVE AggInv'
  OBVIOUS
<1>1. CASE UNCHANGED aggVars
  BY <1>1 DEF AggInv, AggTypeOK, OrdersInv, PlatformOrdersSound, TriesLeft, FiredOnce, AcceptedNotLost,
     StatusAgreed, Claims, UnfiredUntilStored, TakenBeforeWritten, OnePush, Syncing, aggVars
<1>2. QED
  BY <1>1, RelayKeeps, StatusKeeps, MenuKeeps DEF AggNext, AggStep

\* The invariant implies what the connector promises.
LEMMA AggPromises == AggInv => AggTypeOK /\ PlatformsSound
<1>1. AggInv => SyncLogIsReality
  BY DEF AggInv, OnePush, SyncLogIsReality, SyncRunning
<1>2. QED
  BY <1>1 DEF AggInv, OrdersInv, PlatformsSound

\* Orders of a platform reach the kitchen once, are not dropped between the
\* connector and the main API, and show only moves the platform made; the sync
\* log is what a connected platform shows (connector.service.ts: ingest, aggregator-sync.service.ts).
THEOREM PlatformsCorrect == AggSpec => [](AggTypeOK /\ PlatformsSound)
BY AggStarts, AggKeeps, AggPromises, PTL DEF AggSpec


-----------------------------------------------------------------------------
(* The change feed. *)

\* A refresh under way holds the row lock, so nobody numbers entries beside it.
RefreshAlone ==
    \A p \in Pullers : pull[p].at = "build" => feedState.lock = p /\ pull[p].base = feedState.last

\* No entry is numbered beyond the feed's end, and one never numbered was never read.
EntriesNumbered ==
    \A r \in Rows : entry[r].seq <= feedState.last /\ (entry[r].seq = 0 => entry[r].val = Gone)

\* Unless another pull of its device stored a page meanwhile, a request asks from
\* the device's cursor.
CursorOf(p) == device[DeviceOf[p]].cursor
AskedFromCursor ==
    \A p \in Pullers :
        /\ pull[p].at \in {"asked", "build", "page"} /\ p \notin overtaken => pull[p].cursor = CursorOf(p)
        /\ pull[p].at = "page" => pull[p].last <= feedState.last

\* A page brings the device from the cursor c up to its own: what it leaves out is
\* not newer than c, and what it brings is the entry unless renumbered since.
BringsFrom(page, c) ==
    \A r \in Rows : entry[r].seq <= page.cursor =>
        IF r \in DOMAIN page.changes THEN page.changes[r] = entry[r].val ELSE entry[r].seq <= c

ReplyGood(p) ==
    LET page == pull[p].page
    IN  /\ page.epoch <= rebuilds
        /\ page.epoch = rebuilds =>
              /\ page.cursor <= feedState.last
              /\ page.reset => BringsFrom(page, 0)
              /\ ~page.reset /\ p \notin overtaken => BringsFrom(page, CursorOf(p))
RepliesGood == \A p \in Pullers : pull[p].at = "reply" => ReplyGood(p)

CursorsReached == \A d \in Devices : ~device[d].stale => device[d].cursor <= feedState.last

FeedInv == /\ FeedTypeOK /\ RefreshAlone /\ EntriesNumbered /\ AskedFromCursor
           /\ RepliesGood /\ CursorsReached /\ CursorNeverSkips
\* Partial catalogs are functions from some rows to versions.
LEMMA SomeRowsAre == \A f : f \in SomeRows <=> DOMAIN f \subseteq Rows /\ f \in [DOMAIN f -> Versions]
<1>1. ASSUME NEW f, f \in SomeRows PROVE DOMAIN f \subseteq Rows /\ f \in [DOMAIN f -> Versions]
  <2>1. PICK R \in SUBSET Rows : f \in [R -> Versions]
    BY <1>1 DEF SomeRows
  <2>2. DOMAIN f = R
    BY <2>1
  <2>3. QED
    BY <2>1, <2>2
<1>2. ASSUME NEW f, DOMAIN f \subseteq Rows, f \in [DOMAIN f -> Versions] PROVE f \in SomeRows
  BY <1>2 DEF SomeRows
<1>3. QED
  BY <1>1, <1>2

\* What a pull holds at each stage.
LEMMA PullShape ==
    ASSUME FeedTypeOK, NEW p \in Pullers
    PROVE  /\ pull[p].at = "asked" => pull[p] \in [at: {"asked"}, cursor: Nat]
           /\ pull[p].at = "build" => pull[p] \in [at: {"build"}, cursor: Nat, base: Nat, read: SomeRows]
           /\ pull[p].at = "page" => pull[p] \in [at: {"page"}, cursor: Nat, last: Nat]
           /\ pull[p].at = "reply" => pull[p] \in [at: {"reply"}, page: Page]
           /\ pull[p].at \in {"idle", "asked", "build", "page", "reply"}
           /\ pull[p].at = "idle" <=> pull[p] = NoPull
<1>1. pull[p] \in Pulls
  BY DEF FeedTypeOK
<1>2. QED
  BY <1>1 DEF Pulls, NoPull

\* A step of one pull that leaves the feed's entries and the devices alone.
LEMMA OnePullMoves ==
    ASSUME FeedInv, NEW p \in Pullers, NEW rec \in Pulls,
           pull' = [pull EXCEPT ![p] = rec],
           UNCHANGED <<content, edits, entry, rebuilds, device>>,
           feedState' \in [last: Nat, ran: BOOLEAN, lock: Pullers \cup {FeedFree}],
           feedState'.last = feedState.last,
           overtaken' \subseteq overtaken, overtaken \ {p} \subseteq overtaken',
           rec.at = "build" => feedState'.lock = p /\ rec.base = feedState.last,
           \A q \in Pullers \ {p} : pull[q].at = "build" => feedState'.lock = feedState.lock,
           rec.at \in {"asked", "build", "page"} /\ p \notin overtaken' => rec.cursor = CursorOf(p),
           rec.at = "page" => rec.last <= feedState.last,
           rec.at = "reply" => ReplyGood(p)'
    PROVE  FeedInv'
<1>1. /\ pull \in [Pullers -> Pulls] /\ overtaken \subseteq Pullers
      /\ RefreshAlone /\ EntriesNumbered /\ AskedFromCursor /\ RepliesGood /\ CursorsReached /\ CursorNeverSkips
  BY DEF FeedInv, FeedTypeOK
<1>2. pull'[p] = rec /\ pull' \in [Pullers -> Pulls] /\ \A q \in Pullers \ {p} : pull'[q] = pull[q]
  BY <1>1
<1>3. FeedTypeOK'
  BY <1>1, <1>2 DEF FeedInv, FeedTypeOK
<1>4. RefreshAlone'
  BY <1>1, <1>2 DEF RefreshAlone
<1>5. EntriesNumbered' /\ CursorsReached' /\ CursorNeverSkips'
  BY <1>1 DEF EntriesNumbered, CursorsReached, CursorNeverSkips
<1>6. AskedFromCursor'
  BY <1>1, <1>2 DEF AskedFromCursor, CursorOf
<1>7. ASSUME NEW q \in Pullers \ {p}, pull'[q].at = "reply" PROVE ReplyGood(q)'
  <2>1. ReplyGood(q) /\ pull'[q] = pull[q] /\ (q \in overtaken' <=> q \in overtaken)
    BY <1>1, <1>2, <1>7 DEF RepliesGood
  <2>2. PICK page : page = pull[q].page
    OBVIOUS
  <2>3. \A c : BringsFrom(page, c)' <=> BringsFrom(page, c)
    BY DEF BringsFrom
  <2>4. QED
    BY <2>1, <2>2, <2>3 DEF ReplyGood, BringsFrom, CursorOf
<1>8. RepliesGood'
  BY <1>2, <1>7 DEF RepliesGood
<1>9. QED
  BY <1>3, <1>4, <1>5, <1>6, <1>8 DEF FeedInv

\* Asking, taking the lock, reading the catalog and giving up.
LEMMA PullKeeps ==
    ASSUME FeedInv, NEW p \in Pullers,
           StartPull(p) \/ RefreshBegins(p) \/ RefreshSkipped(p) \/ BuildRow(p) \/ PullFails(p)
    PROVE  FeedInv'
<1> USE FeedAssumption
<1>1. /\ FeedTypeOK /\ RefreshAlone /\ AskedFromCursor
      /\ feedState \in [last: Nat, ran: BOOLEAN, lock: Pullers \cup {FeedFree}]
      /\ DeviceOf[p] \in Devices /\ CursorOf(p) \in Nat
  BY DEF FeedInv, FeedTypeOK, CursorOf
<1>2. FeedFree \notin Pullers
  BY DEF FeedFree
<1>3. CASE StartPull(p)
  <2>1. PICK rec \in Pulls : rec = [at |-> "asked", cursor |-> CursorOf(p)]
    BY <1>1 DEF Pulls
  <2>2. pull' = [pull EXCEPT ![p] = rec]
    BY <1>3, <2>1 DEF StartPull, SetPull, CursorOf
  <2>3. QED
    BY <1>1, <1>3, <2>1, <2>2, OnePullMoves DEF StartPull
<1>4. CASE RefreshBegins(p)
  <2>1. pull[p] \in [at: {"asked"}, cursor: Nat] /\ feedState.lock = FeedFree
    BY <1>1, <1>4, PullShape DEF RefreshBegins, TakeFeedLock
  <2>2. PICK none : none = [r \in {} |-> Gone]
    OBVIOUS
  <2>3. none \in SomeRows
    BY <2>2, SomeRowsAre
  <2>4. PICK rec \in Pulls : rec = [at |-> "build", cursor |-> pull[p].cursor, base |-> feedState.last, read |-> none]
    BY <1>1, <2>1, <2>3 DEF Pulls
  <2>5. pull' = [pull EXCEPT ![p] = rec] /\ feedState' = [feedState EXCEPT !.lock = p]
    BY <1>4, <2>2, <2>4 DEF RefreshBegins, TakeFeedLock, SetPull
  <2>6. UNCHANGED <<content, edits, entry, rebuilds, device, overtaken>>
    BY <1>4 DEF RefreshBegins
  <2>7. /\ feedState' \in [last: Nat, ran: BOOLEAN, lock: Pullers \cup {FeedFree}]
        /\ feedState'.last = feedState.last /\ feedState'.lock = p
    BY <1>1, <2>5
  <2>8. \A q \in Pullers \ {p} : pull[q].at # "build"
    BY <1>1, <1>2, <2>1 DEF RefreshAlone
  <2>9. rec.at = "build" /\ rec.base = feedState.last /\ rec.cursor = pull[p].cursor
    BY <2>4
  <2>10. p \notin overtaken => rec.cursor = CursorOf(p)
    BY <1>1, <2>1, <2>9 DEF AskedFromCursor
  <2>11. QED
    BY <2>5, <2>6, <2>7, <2>8, <2>9, <2>10, OnePullMoves
<1>5. CASE RefreshSkipped(p)
  <2>1. pull[p] \in [at: {"asked"}, cursor: Nat]
    BY <1>1, <1>5, PullShape DEF RefreshSkipped
  <2>2. PICK rec \in Pulls : rec = [at |-> "page", cursor |-> pull[p].cursor, last |-> feedState.last]
    BY <1>1, <2>1 DEF Pulls
  <2>3. pull' = [pull EXCEPT ![p] = rec] /\ UNCHANGED <<content, edits, entry, rebuilds, device, overtaken, feedState>>
    BY <1>5, <2>2 DEF RefreshSkipped, SetPull
  <2>4. rec.at = "page" /\ rec.last <= feedState.last
    BY <1>1, <2>2
  <2>5. p \notin overtaken => rec.cursor = CursorOf(p)
    BY <1>1, <2>1, <2>2 DEF AskedFromCursor
  <2>6. QED
    BY <1>1, <2>3, <2>4, <2>5, OnePullMoves
<1>6. CASE BuildRow(p)
  <2>1. pull[p] \in [at: {"build"}, cursor: Nat, base: Nat, read: SomeRows] /\ pull[p].at = "build"
    BY <1>1, <1>6, PullShape DEF BuildRow
  <2>2. PICK read \in SomeRows : read = pull[p].read
    BY <2>1
  <2>3. PICK todo \in SUBSET Nat : todo = Rows \ DOMAIN read
    OBVIOUS
  <2>4. PICK r : r = Min(todo)
    OBVIOUS
  <2>5. r \in Rows
    <3>1. todo # {}
      BY <1>6, <2>2, <2>3 DEF BuildRow
    <3>2. QED
      BY <2>3, <2>4, <3>1, MinIn
  <2>6. PICK more : more = [x \in DOMAIN read \cup {r} |-> IF x = r THEN content[r] ELSE read[x]]
    OBVIOUS
  <2>7. more \in SomeRows
    <3>1. /\ DOMAIN read \subseteq Rows /\ read \in [DOMAIN read -> Versions]
          /\ content[r] \in Versions
      BY <1>1, <2>5, SomeRowsAre DEF FeedTypeOK
    <3>2. DOMAIN more \subseteq Rows /\ more \in [DOMAIN more -> Versions]
      BY <2>5, <2>6, <3>1
    <3>3. QED
      BY <3>2, SomeRowsAre
  <2>8. PICK rec : rec = [pull[p] EXCEPT !.read = more]
    OBVIOUS
  <2>9. rec \in Pulls /\ rec.at = "build" /\ rec.cursor = pull[p].cursor /\ rec.base = pull[p].base
    BY <2>1, <2>7, <2>8 DEF Pulls
  <2>10. pull' = [pull EXCEPT ![p] = rec]
    BY <1>6, <2>2, <2>3, <2>4, <2>6, <2>8 DEF BuildRow, SetPull
  <2>11. UNCHANGED <<content, edits, entry, feedState, rebuilds, device, overtaken>>
    BY <1>6 DEF BuildRow
  <2>12. /\ feedState.lock = p /\ rec.base = feedState.last
         /\ p \notin overtaken => rec.cursor = CursorOf(p)
    BY <1>1, <2>1, <2>9 DEF RefreshAlone, AskedFromCursor
  <2>13. QED
    BY <1>1, <2>9, <2>10, <2>11, <2>12, OnePullMoves
<1>7. CASE PullFails(p)
  <2>1. PICK rec \in Pulls : rec = NoPull
    BY DEF Pulls
  <2>2. /\ pull' = [pull EXCEPT ![p] = rec] /\ UNCHANGED <<content, edits, entry, rebuilds, device, overtaken>>
        /\ feedState' = [feedState EXCEPT !.lock = IF @ = p THEN FeedFree ELSE @]
    BY <1>7, <2>1 DEF PullFails, SetPull
  <2>3. /\ feedState' \in [last: Nat, ran: BOOLEAN, lock: Pullers \cup {FeedFree}]
        /\ feedState'.last = feedState.last
        /\ feedState.lock # p => feedState'.lock = feedState.lock
    BY <1>1, <2>2
  <2>4. \A q \in Pullers \ {p} : pull[q].at = "build" => feedState'.lock = feedState.lock
    BY <1>1, <2>3 DEF RefreshAlone
  <2>5. rec.at = "idle"
    BY <2>1 DEF NoPull
  <2>6. QED
    BY <2>2, <2>3, <2>4, <2>5, OnePullMoves
<1>8. QED
  BY <1>3, <1>4, <1>5, <1>6, <1>7

NewerThan(from) == {r \in Rows : entry[r].seq > from}
FirstOf(newer) == {r \in newer : Cardinality({x \in newer : entry[x].seq < entry[r].seq}) < PageSize}

\* A page that is read leaves out only entries beyond its cursor.
LEMMA PageCut ==
    ASSUME FeedTypeOK, NEW from \in Nat, NEW newer \in SUBSET Rows, NEW page \in SUBSET newer,
           newer = NewerThan(from), page = FirstOf(newer),
           NEW r \in page, NEW s \in newer \ page
    PROVE  entry[r].seq < entry[s].seq
<1> USE FeedAssumption
<1>1. PICK A \in SUBSET newer : A = {x \in newer : entry[x].seq < entry[r].seq}
  OBVIOUS
<1>2. PICK B \in SUBSET newer : B = {x \in newer : entry[x].seq < entry[s].seq}
  OBVIOUS
<1>3. IsFiniteSet(newer) /\ IsFiniteSet(A) /\ IsFiniteSet(B)
  BY FS_Subset
<1>4. Cardinality(A) \in Nat /\ Cardinality(B) \in Nat
  BY <1>3, FS_CardinalityType
<1>5. Cardinality(A) < PageSize /\ ~(Cardinality(B) < PageSize)
  BY <1>1, <1>2 DEF FirstOf
<1>6. \A x \in Rows : entry[x].seq \in Nat
  BY DEF FeedTypeOK
<1>7. SUFFICES ASSUME entry[s].seq <= entry[r].seq PROVE FALSE
  <2>1. r \in Rows /\ s \in Rows
    OBVIOUS
  <2>2. QED
    BY <1>6, <2>1
<1>8. B \in SUBSET A
  <2>1. ASSUME NEW x \in B PROVE x \in A
    <3>1. x \in Rows /\ x \in newer /\ entry[x].seq < entry[s].seq
      BY <1>2
    <3>2. entry[x].seq \in Nat /\ entry[s].seq \in Nat /\ entry[r].seq \in Nat
      BY <1>6, <3>1
    <3>3. entry[x].seq < entry[r].seq
      BY <1>7, <3>1, <3>2
    <3>4. QED
      BY <1>1, <3>1, <3>3
  <2>2. QED
    BY <2>1
<1>9. Cardinality(B) <= Cardinality(A)
  BY <1>3, <1>8, FS_Subset
<1>10. QED
  BY <1>4, <1>5, <1>9

\* Between its start and its cursor, a page that is read brings every entry there is.
LEMMA PageIs ==
    ASSUME FeedTypeOK, EntriesNumbered,
           NEW from \in Nat, from <= feedState.last, NEW newer \in SUBSET Rows, NEW page \in SUBSET newer,
           newer = NewerThan(from), page = FirstOf(newer),
           NEW last, NEW c, c = PageCursor(page, from, last)
    PROVE  /\ c \in Nat /\ c <= feedState.last
           /\ \A r \in Rows : entry[r].seq <= c => r \in page \/ entry[r].seq <= from
<1>1. /\ \A r \in Rows : entry[r].seq \in Nat /\ entry[r].seq <= feedState.last
      /\ feedState.last \in Nat
  BY DEF FeedTypeOK, EntriesNumbered
<1>2. CASE page = {}
  <2>1. c = from
    BY <1>2 DEF PageCursor
  <2>2. QED
    BY <2>1
<1>3. CASE page # {}
  <2>1. PICK S : S = {entry[r].seq : r \in page}
    OBVIOUS
  <2>2. S \in SUBSET Nat /\ S # {}
    BY <1>1, <1>3, <2>1
  <2>3. \A n \in S : n <= feedState.last
    BY <1>1, <2>1
  <2>4. IsFiniteSet(S)
    BY <1>1, <2>2, <2>3, FS_BoundedSetOfNaturals
  <2>5. S \in SUBSET Int
    BY <2>2
  <2>6. c = Max(S)
    BY <1>3, <2>1 DEF PageCursor
  <2>7. c \in S
    BY <2>2, <2>4, <2>5, <2>6, GreatestOf
  <2>8. PICK r \in page : c = entry[r].seq
    BY <2>1, <2>7
  <2>9. ASSUME NEW s \in Rows, entry[s].seq <= c, s \notin page PROVE entry[s].seq <= from
    <3>1. CASE s \in newer
      <4>1. s \in newer \ page
        BY <2>9, <3>1
      <4>2. entry[r].seq < entry[s].seq
        BY <2>8, <4>1, PageCut
      <4>3. entry[r].seq \in Nat /\ entry[s].seq \in Nat
        BY <1>1, <2>8
      <4>4. QED
        BY <2>8, <2>9, <4>2, <4>3
    <3>2. CASE s \notin newer
      <4>1. ~(entry[s].seq > from) /\ entry[s].seq \in Nat
        BY <1>1, <3>2 DEF NewerThan
      <4>2. QED
        BY <4>1
    <3>3. QED
      BY <3>1, <3>2
  <2>10. c \in Nat /\ c <= feedState.last
    BY <2>2, <2>3, <2>7
  <2>11. QED
    BY <2>9, <2>10
<1>4. QED
  BY <1>2, <1>3

\* Reading a page.
LEMMA ReadPageKeeps ==
    ASSUME FeedInv, NEW p \in Pullers, ReadPage(p)
    PROVE  FeedInv'
<1>1. /\ FeedTypeOK /\ EntriesNumbered /\ AskedFromCursor
      /\ feedState \in [last: Nat, ran: BOOLEAN, lock: Pullers \cup {FeedFree}]
      /\ rebuilds \in Nat
  BY FeedAssumption DEF FeedInv, FeedTypeOK
<1>2. pull[p] \in [at: {"page"}, cursor: Nat, last: Nat] /\ pull[p].at = "page" /\ pull[p].last <= feedState.last
  BY <1>1, PullShape DEF ReadPage, AskedFromCursor
<1>3. PICK reset \in BOOLEAN : reset = (pull[p].cursor > pull[p].last)
  <2>1. (pull[p].cursor > pull[p].last) \in BOOLEAN
    BY <1>2
  <2>2. QED
    BY <2>1
<1>4. ~reset => pull[p].cursor <= pull[p].last
  <2>1. ~reset => ~(pull[p].cursor > pull[p].last)
    BY <1>3, Zenon
  <2>2. pull[p].cursor \in Nat /\ pull[p].last \in Nat
    BY <1>2
  <2>3. QED
    BY <2>1, <2>2
<1>5. PICK from : from = IF reset THEN 0 ELSE pull[p].cursor
  OBVIOUS
<1>6. from \in Nat /\ from <= feedState.last /\ (reset => from = 0) /\ (~reset => from = pull[p].cursor)
  <2>1. pull[p].cursor \in Nat /\ pull[p].last \in Nat /\ feedState.last \in Nat
    BY <1>1, <1>2
  <2>2. CASE reset
    BY <1>5, <2>1, <2>2
  <2>3. CASE ~reset
    <3>1. pull[p].cursor <= pull[p].last
      BY <1>4, <2>3
    <3>2. QED
      BY <1>2, <1>5, <2>1, <2>3, <3>1
  <2>4. QED
    BY <2>2, <2>3
<1>7. PICK newer \in SUBSET Rows : newer = NewerThan(from)
  BY DEF NewerThan
<1>8. PICK page \in SUBSET newer : page = FirstOf(newer)
  BY DEF FirstOf
<1>9. PICK c : c = PageCursor(page, from, pull[p].last)
  OBVIOUS
<1>10. /\ c \in Nat /\ c <= feedState.last
       /\ \A r \in Rows : entry[r].seq <= c => r \in page \/ entry[r].seq <= from
  BY <1>1, <1>6, <1>7, <1>8, <1>9, PageIs
<1>11. PICK changes : changes = [r \in page |-> entry[r].val]
  OBVIOUS
<1>12. changes \in SomeRows
  <2>1. \A r \in page : entry[r].val \in Versions
    BY <1>1 DEF FeedTypeOK
  <2>2. DOMAIN changes = page /\ changes \in [page -> Versions]
    BY <1>11, <2>1
  <2>3. QED
    BY <2>2, SomeRowsAre
<1>13. PICK out : out = [reset |-> reset, changes |-> changes, cursor |-> c,
                         more |-> page # newer, epoch |-> rebuilds]
  OBVIOUS
<1>14. out \in Page
  BY <1>1, <1>10, <1>12, <1>13 DEF Page
<1>15. PICK rec : rec = [at |-> "reply", page |-> out]
  OBVIOUS
<1>16. rec \in Pulls /\ rec.at = "reply" /\ rec.page = out
  BY <1>14, <1>15 DEF Pulls
<1>17. pull' = [pull EXCEPT ![p] = rec]
  <2> DEFINE R == pull[p].cursor > pull[p].last
             F == IF R THEN 0 ELSE pull[p].cursor
             P == FirstOf(NewerThan(F))
  <2>1. pull' = [pull EXCEPT ![p] =
           [at |-> "reply", page |-> [reset |-> R, changes |-> [r \in P |-> entry[r].val],
            cursor |-> PageCursor(P, F, pull[p].last), more |-> P # NewerThan(F), epoch |-> rebuilds]]]
    BY Zenon DEF ReadPage, SetPull, NewerThan, FirstOf
  <2>2. reset = R
    BY <1>3
  <2>3. from = F
    BY <1>5, <2>2
  <2>4. newer = NewerThan(F) /\ page = P
    BY <1>7, <1>8, <2>3
  <2> HIDE DEF R, F, P
  <2>5. QED
    BY <1>9, <1>11, <1>13, <1>15, <2>1, <2>2, <2>3, <2>4, Zenon
<1>18. UNCHANGED <<content, edits, entry, feedState, rebuilds, device, overtaken>>
  BY DEF ReadPage
<1>19. BringsFrom(out, from)
  <2>1. out.cursor = c /\ out.changes = changes /\ DOMAIN changes = page
    BY <1>11, <1>13
  <2>2. \A r \in page : changes[r] = entry[r].val
    BY <1>11
  <2>3. QED
    BY <1>10, <2>1, <2>2 DEF BringsFrom
<1>20. ReplyGood(p)'
  <2>1. pull'[p] = rec
    BY <1>1, <1>17 DEF FeedTypeOK
  <2>2. pull'[p].page = out
    BY <1>16, <2>1
  <2>3. out.epoch = rebuilds /\ out.cursor = c /\ out.reset = reset
    BY <1>13
  <2>4. \A x : BringsFrom(out, x)' <=> BringsFrom(out, x)
    BY <1>18 DEF BringsFrom
  <2>5. CursorOf(p)' = CursorOf(p) /\ rebuilds' = rebuilds /\ feedState' = feedState /\ overtaken' = overtaken
    BY <1>18 DEF CursorOf
  <2>6. p \notin overtaken => pull[p].cursor = CursorOf(p)
    BY <1>1, <1>2 DEF AskedFromCursor
  <2>7. reset => BringsFrom(out, 0)
    BY <1>6, <1>19
  <2>8. ~reset /\ p \notin overtaken => BringsFrom(out, CursorOf(p))
    BY <1>6, <1>19, <2>6
  <2>9. out.epoch <= rebuilds /\ out.cursor <= feedState.last
    BY <1>1, <1>10, <2>3
  <2>10. reset => BringsFrom(out, 0)'
    BY <2>4, <2>7
  <2>11. PICK reached : reached = CursorOf(p)
    OBVIOUS
  <2>12. CursorOf(p)' = reached /\ (~reset /\ p \notin overtaken' => BringsFrom(out, reached)')
    BY <2>4, <2>5, <2>8, <2>11
  <2>13. QED
    BY <2>2, <2>3, <2>5, <2>9, <2>10, <2>12 DEF ReplyGood, BringsFrom
<1>21. QED
  BY <1>1, <1>16, <1>17, <1>18, <1>20, OnePullMoves

\* Storing a page: the pulls beside this one are overtaken from then on.
LEMMA ApplyPageKeeps ==
    ASSUME FeedInv, NEW p \in Pullers, ApplyPage(p)
    PROVE  FeedInv'
<1> USE FeedAssumption
<1>1. /\ FeedTypeOK /\ RefreshAlone /\ EntriesNumbered /\ AskedFromCursor
      /\ RepliesGood /\ CursorsReached /\ CursorNeverSkips
      /\ pull \in [Pullers -> Pulls] /\ overtaken \subseteq Pullers /\ DeviceOf \in [Pullers -> Devices]
      /\ device \in [Devices -> [catalog: [Rows -> Versions], cursor: Nat, stale: BOOLEAN]]
      /\ \A r \in Rows : entry[r].seq \in Nat
  BY DEF FeedInv, FeedTypeOK
<1>2. PICK page : page = pull[p].page
  OBVIOUS
<1>3. page \in Page /\ pull[p].at = "reply"
  BY <1>1, <1>2, PullShape DEF ApplyPage
<1>4. /\ page.cursor \in Nat /\ page.changes \in SomeRows
      /\ page.reset \in BOOLEAN /\ page.more \in BOOLEAN
  BY <1>3 DEF Page
<1>5. PICK d \in Devices : d = DeviceOf[p]
  BY <1>1
<1>6. PICK base : base = IF page.reset THEN [r \in Rows |-> Gone] ELSE device[d].catalog
  OBVIOUS
<1>7. Gone \in Versions
  BY DEF Gone, Versions
<1>8. base \in [Rows -> Versions] /\ (page.reset => \A r \in Rows : base[r] = Gone)
      /\ (~page.reset => base = device[d].catalog)
  BY <1>1, <1>6, <1>7
<1>9. PICK catalog : catalog = [r \in Rows |-> IF r \in DOMAIN page.changes THEN page.changes[r] ELSE base[r]]
  OBVIOUS
<1>10. catalog \in [Rows -> Versions]
  BY <1>4, <1>8, <1>9, SomeRowsAre
<1>11. PICK stale \in BOOLEAN : stale = (\/ page.epoch # rebuilds
                                         \/ ~page.reset /\ (device[d].stale \/ p \in overtaken))
  OBVIOUS
<1>12. PICK now : now = [catalog |-> catalog, cursor |-> page.cursor, stale |-> stale]
  OBVIOUS
<1>13. PICK rec : rec = IF page.more THEN [at |-> "asked", cursor |-> page.cursor] ELSE NoPull
  OBVIOUS
<1>14. rec \in Pulls /\ (rec = NoPull \/ (rec.at = "asked" /\ rec.cursor = page.cursor))
  <2>1. CASE page.more
    BY <1>4, <1>13, <2>1 DEF Pulls
  <2>2. CASE ~page.more
    <3>1. rec = NoPull
      BY <1>4, <1>13, <2>2
    <3>2. NoPull \in Pulls
      BY DEF Pulls
    <3>3. QED
      BY <3>1, <3>2
  <2>3. QED
    BY <2>1, <2>2
<1>15. device' = [device EXCEPT ![d] = now] /\ pull' = [pull EXCEPT ![p] = rec]
  BY <1>2, <1>5, <1>6, <1>9, <1>11, <1>12, <1>13 DEF ApplyPage, SetPull
<1>16. /\ device'[d] = now /\ \A x \in Devices \ {d} : device'[x] = device[x]
       /\ pull'[p] = rec /\ \A q \in Pullers \ {p} : pull'[q] = pull[q]
       /\ pull' \in [Pullers -> Pulls]
       /\ device' \in [Devices -> [catalog: [Rows -> Versions], cursor: Nat, stale: BOOLEAN]]
  BY <1>1, <1>4, <1>10, <1>12, <1>14, <1>15
<1>17. UNCHANGED <<content, edits, entry, feedState, rebuilds>> /\ overtaken' = (overtaken \ {p}) \cup Rivals(p)
  BY DEF ApplyPage
<1>18. rec.at \in {"idle", "asked"}
  BY <1>14 DEF NoPull
<1>19. FeedTypeOK'
  <2>1. overtaken' \subseteq Pullers
    BY <1>1, <1>17 DEF Rivals
  <2>2. QED
    BY <1>1, <1>16, <1>17, <2>1 DEF FeedTypeOK
<1>20. RefreshAlone'
  BY <1>1, <1>16, <1>17, <1>18 DEF RefreshAlone
<1>21. EntriesNumbered'
  BY <1>1, <1>17 DEF EntriesNumbered
<1>22. ASSUME NEW q \in Pullers \ {p}, pull[q].at # "idle", q \notin overtaken'
       PROVE  DeviceOf[q] \in Devices \ {d} /\ q \notin overtaken
  <2>1. pull[q] # NoPull
    BY <1>22 DEF NoPull
  <2>2. QED
    BY <1>1, <1>5, <1>17, <1>22, <2>1 DEF Rivals
<1>23. AskedFromCursor'
  <2>1. ASSUME NEW q \in Pullers, pull'[q].at \in {"asked", "build", "page"}, q \notin overtaken'
        PROVE  pull'[q].cursor = CursorOf(q)'
    <3>1. CASE q = p
      <4>1. rec.cursor = page.cursor
        BY <1>14, <1>16, <2>1, <3>1 DEF NoPull
      <4>2. QED
        BY <1>5, <1>12, <1>16, <3>1, <4>1 DEF CursorOf
    <3>2. CASE q # p
      <4>1. pull'[q] = pull[q]
        BY <1>16, <3>2
      <4>2. DeviceOf[q] \in Devices \ {d} /\ q \notin overtaken
        BY <1>22, <2>1, <3>2, <4>1
      <4>3. pull[q].cursor = CursorOf(q)
        BY <1>1, <2>1, <4>1, <4>2 DEF AskedFromCursor
      <4>4. QED
        BY <1>16, <4>1, <4>2, <4>3 DEF CursorOf
    <3>3. QED
      BY <3>1, <3>2
  <2>2. ASSUME NEW q \in Pullers, pull'[q].at = "page" PROVE pull'[q].last <= feedState'.last
    BY <1>1, <1>16, <1>17, <1>18, <2>2 DEF AskedFromCursor
  <2>3. QED
    BY <2>1, <2>2 DEF AskedFromCursor
<1>24. RepliesGood'
  <2>1. ASSUME NEW q \in Pullers, pull'[q].at = "reply" PROVE ReplyGood(q)'
    <3>1. q # p
      BY <1>16, <1>18, <2>1
    <3>2. pull'[q] = pull[q] /\ ReplyGood(q)
      BY <1>1, <1>16, <2>1, <3>1 DEF RepliesGood
    <3>3. PICK its : its = pull[q].page
      OBVIOUS
    <3>4. \A c : BringsFrom(its, c)' <=> BringsFrom(its, c)
      BY <1>17 DEF BringsFrom
    <3>5. PICK c : c = CursorOf(q)
      OBVIOUS
    <3>6. q \notin overtaken' => q \notin overtaken /\ CursorOf(q)' = c
      BY <1>16, <1>22, <2>1, <3>1, <3>2, <3>5 DEF CursorOf
    <3>7. q \notin overtaken' => (BringsFrom(its, CursorOf(q))' <=> BringsFrom(its, c)')
      BY <3>6 DEF BringsFrom
    <3>8. /\ its.epoch <= rebuilds
          /\ its.epoch = rebuilds =>
                /\ its.cursor <= feedState.last
                /\ its.reset => BringsFrom(its, 0)
                /\ ~its.reset /\ q \notin overtaken => BringsFrom(its, c)
      BY <3>2, <3>3, <3>5 DEF ReplyGood
    <3>9. its = pull'[q].page /\ rebuilds' = rebuilds /\ feedState' = feedState
      BY <1>17, <3>2, <3>3
    <3>10. its.epoch = rebuilds /\ its.reset => BringsFrom(its, 0)'
      BY <3>4, <3>8
    <3>11. its.epoch = rebuilds /\ ~its.reset /\ q \notin overtaken' => BringsFrom(its, CursorOf(q))'
      BY <3>4, <3>6, <3>7, <3>8
    <3>12. PICK bare : bare = BringsFrom(its, 0)'
      OBVIOUS
    <3>13. QED
      BY <3>8, <3>9, <3>10, <3>11 DEF ReplyGood, BringsFrom
  <2>2. QED
    BY <2>1 DEF RepliesGood
<1>25. ~stale => /\ page.cursor <= feedState.last
                 /\ page.reset => BringsFrom(page, 0)
                 /\ ~page.reset => BringsFrom(page, device[d].cursor) /\ ~device[d].stale
  <2>1. ReplyGood(p)
    BY <1>1, <1>3 DEF RepliesGood
  <2>2. CursorOf(p) = device[d].cursor
    BY <1>5 DEF CursorOf
  <2>3. QED
    BY <1>2, <1>11, <2>1, <2>2 DEF ReplyGood
<1>26. CursorsReached'
  <2>1. now.stale = stale /\ now.cursor = page.cursor
    BY <1>12
  <2>2. ~device'[d].stale => device'[d].cursor <= feedState.last
    <3>1. ~stale => page.cursor <= feedState.last
      BY <1>25
    <3>2. QED
      BY <1>16, <2>1, <3>1
  <2>3. ASSUME NEW x \in Devices \ {d}, ~device'[x].stale PROVE device'[x].cursor <= feedState.last
    <3>1. device'[x] = device[x]
      BY <1>16
    <3>2. QED
      BY <1>1, <2>3, <3>1 DEF CursorsReached
  <2>4. feedState' = feedState
    BY <1>17
  <2>5. QED
    BY <2>2, <2>3, <2>4 DEF CursorsReached
<1>27. CursorNeverSkips'
  <2>1. ASSUME NEW x \in Devices \ {d}, ~device'[x].stale, NEW r \in Rows, entry'[r].seq <= device'[x].cursor
        PROVE  device'[x].catalog[r] = entry'[r].val
    <3>1. device'[x] = device[x] /\ entry' = entry
      BY <1>16, <1>17
    <3>2. ~device[x].stale /\ entry[r].seq <= device[x].cursor
      BY <2>1, <3>1
    <3>3. device[x].catalog[r] = entry[r].val
      BY <1>1, <3>2 DEF CursorNeverSkips
    <3>4. QED
      BY <3>1, <3>3
  <2>2. ASSUME ~stale, NEW r \in Rows, entry[r].seq <= page.cursor PROVE catalog[r] = entry[r].val
    <3>1. CASE r \in DOMAIN page.changes
      BY <1>9, <1>25, <2>2, <3>1 DEF BringsFrom
    <3>2. CASE r \notin DOMAIN page.changes /\ page.reset
      <4>1. entry[r].seq <= 0
        BY <1>25, <2>2, <3>2 DEF BringsFrom
      <4>2. entry[r].val = Gone
        BY <1>1, <4>1 DEF EntriesNumbered
      <4>3. QED
        BY <1>8, <1>9, <3>2, <4>2
    <3>3. CASE r \notin DOMAIN page.changes /\ ~page.reset
      <4>1. entry[r].seq <= device[d].cursor /\ ~device[d].stale
        BY <1>25, <2>2, <3>3 DEF BringsFrom
      <4>2. device[d].catalog[r] = entry[r].val
        BY <1>1, <4>1 DEF CursorNeverSkips
      <4>3. QED
        BY <1>8, <1>9, <3>3, <4>2
    <3>4. QED
      BY <1>4, <3>1, <3>2, <3>3
  <2>3. now.stale = stale /\ now.cursor = page.cursor /\ now.catalog = catalog
    BY <1>12
  <2>4. QED
    BY <1>16, <1>17, <2>1, <2>2, <2>3 DEF CursorNeverSkips
<1>28. QED
  BY <1>19, <1>20, <1>21, <1>23, <1>24, <1>26, <1>27 DEF FeedInv

\* Ranks are below the number of elements.
LEMMA RankBelow ==
    ASSUME NEW F \in SUBSET Nat, IsFiniteSet(F), NEW a \in F
    PROVE  Rank(F, a) \in Nat /\ Rank(F, a) + 1 <= Cardinality(F)
<1>1. PICK A \in SUBSET F : A = {x \in F : x < a}
  OBVIOUS
<1>2. PICK B \in SUBSET F : B = F \ {a}
  OBVIOUS
<1>3. IsFiniteSet(A) /\ IsFiniteSet(B)
  BY FS_Subset
<1>4. A \in SUBSET B
  BY <1>1, <1>2
<1>5. Cardinality(A) <= Cardinality(B)
  BY <1>3, <1>4, FS_Subset
<1>6. Cardinality(B) = Cardinality(F) - 1
  BY <1>2, FS_RemoveElement
<1>7. Cardinality(A) \in Nat /\ Cardinality(B) \in Nat /\ Cardinality(F) \in Nat
  BY <1>3, FS_CardinalityType
<1>8. Rank(F, a) = Cardinality(A)
  BY <1>1 DEF Rank
<1>9. QED
  BY <1>5, <1>6, <1>7, <1>8

\* A refresh numbers the rows that moved within the numbers it adds to the feed.
LEMMA NumbersOfRefresh ==
    ASSUME NEW read
    PROVE  /\ Cardinality(Changed(read) \cup Removed(read)) \in Nat
           /\ \A r \in Changed(read) \cup Removed(read) :
                 NumberOf(r, read) \in 1 .. Cardinality(Changed(read) \cup Removed(read))
<1> USE FeedAssumption
<1>1. PICK C \in SUBSET Rows : C = Changed(read)
  BY DEF Changed
<1>2. PICK D \in SUBSET Rows : D = Removed(read)
  BY DEF Removed
<1>3. C \cap D = {}
  BY <1>1, <1>2 DEF Changed, Removed
<1>4. IsFiniteSet(C) /\ IsFiniteSet(D) /\ C \in SUBSET Nat /\ D \in SUBSET Nat
  BY FS_Subset
<1>5. Cardinality(C) \in Nat /\ Cardinality(D) \in Nat
  BY <1>4, FS_CardinalityType
<1>6. Cardinality(C \cup D) = Cardinality(C) + Cardinality(D)
  <2>1. Cardinality(C \cup D) = Cardinality(C) + Cardinality(D) - Cardinality(C \cap D)
    BY <1>4, FS_Union
  <2>2. Cardinality(C \cap D) = 0
    BY <1>3, FS_EmptySet
  <2>3. QED
    BY <1>5, <2>1, <2>2
<1>7. ASSUME NEW r \in C PROVE NumberOf(r, read) \in 1 .. (Cardinality(C) + Cardinality(D))
  <2>1. NumberOf(r, read) = Rank(C, r) + 1
    BY <1>1, <1>7 DEF NumberOf, Rank
  <2>2. Rank(C, r) \in Nat /\ Rank(C, r) + 1 <= Cardinality(C)
    BY <1>4, RankBelow
  <2>3. QED
    BY <1>5, <2>1, <2>2
<1>8. ASSUME NEW r \in D PROVE NumberOf(r, read) \in 1 .. (Cardinality(C) + Cardinality(D))
  <2>1. r \notin C
    BY <1>3
  <2>2. NumberOf(r, read) = Cardinality(C) + Rank(D, r) + 1
    BY <1>1, <1>2, <2>1 DEF NumberOf, Rank
  <2>3. Rank(D, r) \in Nat /\ Rank(D, r) + 1 <= Cardinality(D)
    BY <1>4, RankBelow
  <2>4. QED
    BY <1>5, <2>2, <2>3
<1>9. QED
  BY <1>1, <1>2, <1>5, <1>6, <1>7, <1>8

\* Committing a refresh: what moved is numbered beyond everybody's cursor.
LEMMA CommitKeeps ==
    ASSUME FeedInv, NEW p \in Pullers, RefreshCommits(p)
    PROVE  FeedInv'
<1> USE FeedAssumption
<1>1. /\ FeedTypeOK /\ RefreshAlone /\ EntriesNumbered /\ AskedFromCursor
      /\ RepliesGood /\ CursorsReached /\ CursorNeverSkips
      /\ pull \in [Pullers -> Pulls]
      /\ feedState \in [last: Nat, ran: BOOLEAN, lock: Pullers \cup {FeedFree}]
      /\ \A r \in Rows : entry[r] \in [seq: Nat, val: Versions]
      /\ \A d \in Devices : device[d].cursor \in Nat
  BY DEF FeedInv, FeedTypeOK
<1>2. pull[p].at = "build" /\ pull[p] \in [at: {"build"}, cursor: Nat, base: Nat, read: SomeRows]
  BY <1>1, PullShape DEF RefreshCommits
<1>3. PICK read \in SomeRows : read = pull[p].read
  BY <1>2
<1>4. DOMAIN read = Rows
  BY <1>3 DEF RefreshCommits
<1>5. \A r \in Rows : read[r] \in Versions
  BY <1>4, SomeRowsAre
<1>6. feedState.lock = p /\ pull[p].base = feedState.last
  BY <1>1, <1>2 DEF RefreshAlone
<1>7. PICK moved \in SUBSET Rows : moved = Changed(read) \cup Removed(read)
  BY DEF Changed, Removed
<1>8. Cardinality(moved) \in Nat /\ \A r \in moved : NumberOf(r, read) \in 1 .. Cardinality(moved)
  BY <1>7, NumbersOfRefresh
<1>9. PICK last \in Nat : last = feedState.last + Cardinality(moved)
  BY <1>1, <1>8
<1>10. PICK rec : rec = [at |-> "page", cursor |-> pull[p].cursor, last |-> last]
  OBVIOUS
<1>11. /\ entry' = [r \in Rows |-> IF r \in moved
                       THEN [seq |-> feedState.last + NumberOf(r, read), val |-> read[r]] ELSE entry[r]]
       /\ feedState' = [last |-> last, ran |-> TRUE, lock |-> FeedFree]
       /\ pull' = [pull EXCEPT ![p] = rec]
  BY <1>3, <1>6, <1>7, <1>9, <1>10 DEF RefreshCommits, SetPull
<1>12. UNCHANGED <<content, edits, rebuilds, device, overtaken>>
  BY DEF RefreshCommits
<1>13. rec \in Pulls /\ rec.at = "page" /\ rec.cursor = pull[p].cursor /\ rec.last = last
  BY <1>2, <1>10 DEF Pulls
<1>14. /\ pull'[p] = rec /\ pull' \in [Pullers -> Pulls] /\ \A q \in Pullers \ {p} : pull'[q] = pull[q]
       /\ feedState' \in [last: Nat, ran: BOOLEAN, lock: Pullers \cup {FeedFree}]
       /\ feedState'.last = last /\ feedState.last \in Nat /\ feedState.last <= last
  BY <1>1, <1>8, <1>9, <1>11, <1>13
<1>15. ASSUME NEW r \in moved
       PROVE  /\ entry'[r] \in [seq: Nat, val: Versions]
              /\ entry'[r].seq > feedState.last /\ entry'[r].seq <= last
  <2>1. NumberOf(r, read) \in 1 .. Cardinality(moved)
    BY <1>8
  <2>2. PICK n \in 1 .. Cardinality(moved) : n = NumberOf(r, read)
    BY <2>1
  <2>3. entry'[r] = [seq |-> feedState.last + n, val |-> read[r]]
    BY <1>11, <2>2
  <2>4. n \in Nat /\ n > 0 /\ n <= Cardinality(moved)
    BY <1>8
  <2>5. PICK seq : seq = feedState.last + n
    OBVIOUS
  <2>6. seq \in Nat /\ seq > feedState.last /\ seq <= last
    BY <1>8, <1>9, <1>14, <2>4, <2>5
  <2>7. QED
    BY <1>5, <2>3, <2>5, <2>6
<1>16. \A r \in Rows \ moved : entry'[r] = entry[r]
  BY <1>11
<1>17. FeedTypeOK'
  <2>1. entry' \in [Rows -> [seq: Nat, val: Versions]]
    <3>1. \A r \in Rows : entry'[r] \in [seq: Nat, val: Versions]
      BY <1>1, <1>15, <1>16
    <3>2. QED
      BY <1>11, <3>1
  <2>2. QED
    BY <1>1, <1>12, <1>14, <2>1 DEF FeedTypeOK
<1>18. RefreshAlone'
  BY <1>1, <1>6, <1>13, <1>14 DEF RefreshAlone
<1>19. EntriesNumbered'
  <2>1. ASSUME NEW r \in moved PROVE entry'[r].seq <= feedState'.last /\ entry'[r].seq # 0
    BY <1>14, <1>15
  <2>2. ASSUME NEW r \in Rows \ moved
        PROVE  entry'[r].seq <= feedState'.last /\ (entry'[r].seq = 0 => entry'[r].val = Gone)
    <3>1. entry[r].seq <= feedState.last /\ (entry[r].seq = 0 => entry[r].val = Gone) /\ entry[r].seq \in Nat
      BY <1>1 DEF EntriesNumbered
    <3>2. QED
      BY <1>9, <1>14, <1>16, <3>1
  <2>3. QED
    BY <2>1, <2>2 DEF EntriesNumbered
<1>20. AskedFromCursor'
  <2>1. ASSUME NEW q \in Pullers, pull'[q].at \in {"asked", "build", "page"}, q \notin overtaken'
        PROVE  pull'[q].cursor = CursorOf(q)'
    BY <1>1, <1>2, <1>12, <1>13, <1>14, <2>1 DEF AskedFromCursor, CursorOf
  <2>2. ASSUME NEW q \in Pullers, pull'[q].at = "page" PROVE pull'[q].last <= feedState'.last
    <3>1. CASE q = p
      BY <1>9, <1>13, <1>14, <3>1
    <3>2. CASE q # p
      <4>1. pull[q].at = "page" /\ pull'[q] = pull[q] /\ pull[q].last <= feedState.last
        BY <1>1, <1>14, <2>2, <3>2 DEF AskedFromCursor
      <4>2. pull[q].last \in Nat
        BY <1>1, <4>1, PullShape
      <4>3. QED
        BY <1>9, <1>14, <4>1, <4>2
    <3>3. QED
      BY <3>1, <3>2
  <2>3. QED
    BY <2>1, <2>2 DEF AskedFromCursor
<1>21. ASSUME NEW n \in Nat, n <= feedState.last, NEW r \in Rows, entry'[r].seq <= n
       PROVE  entry'[r] = entry[r]
  <2>1. CASE r \in moved
    <3>1. entry'[r].seq \in Nat /\ entry'[r].seq > feedState.last
      BY <1>15, <2>1
    <3>2. QED
      BY <1>14, <1>21, <3>1
  <2>2. CASE r \notin moved
    BY <1>16, <2>2
  <2>3. QED
    BY <2>1, <2>2
<1>22. RepliesGood'
  <2>1. ASSUME NEW q \in Pullers, pull'[q].at = "reply" PROVE ReplyGood(q)'
    <3>1. q # p
      BY <1>13, <1>14, <2>1
    <3>2. pull'[q] = pull[q] /\ ReplyGood(q) /\ pull[q].at = "reply"
      BY <1>1, <1>14, <2>1, <3>1 DEF RepliesGood
    <3>3. PICK its : its = pull[q].page
      OBVIOUS
    <3>4. its \in Page
      BY <1>1, <3>2, <3>3, PullShape
    <3>5. its.cursor \in Nat
      BY <3>4 DEF Page
    <3>6. ASSUME its.cursor <= feedState.last, NEW c, BringsFrom(its, c) PROVE BringsFrom(its, c)'
      BY <1>21, <3>5, <3>6 DEF BringsFrom
    <3>7. PICK c : c = CursorOf(q)
      OBVIOUS
    <3>8. CursorOf(q)' = c
      BY <1>12, <3>7 DEF CursorOf
    <3>9. /\ its.epoch <= rebuilds
          /\ its.epoch = rebuilds =>
                /\ its.cursor <= feedState.last
                /\ its.reset => BringsFrom(its, 0)
                /\ ~its.reset /\ q \notin overtaken => BringsFrom(its, c)
      BY <3>2, <3>3, <3>7 DEF ReplyGood
    <3>10. its.epoch = rebuilds => its.cursor <= feedState'.last
      BY <1>14, <3>5, <3>9
    <3>11. its.epoch = rebuilds /\ its.reset => BringsFrom(its, 0)'
      BY <3>6, <3>9
    <3>12. its.epoch = rebuilds /\ ~its.reset /\ q \notin overtaken => BringsFrom(its, c)'
      BY <3>6, <3>9
    <3>13. BringsFrom(its, CursorOf(q))' <=> BringsFrom(its, c)'
      BY <3>8 DEF BringsFrom
    <3>14. its = pull'[q].page /\ rebuilds' = rebuilds /\ overtaken' = overtaken
      BY <1>12, <3>2, <3>3
    <3>15. QED
      BY <3>9, <3>10, <3>11, <3>12, <3>13, <3>14 DEF ReplyGood, BringsFrom
  <2>2. QED
    BY <2>1 DEF RepliesGood
<1>23. CursorsReached'
  <2>1. ASSUME NEW d \in Devices, ~device'[d].stale PROVE device'[d].cursor <= feedState'.last
    <3>1. device[d].cursor <= feedState.last
      BY <1>1, <1>12, <2>1 DEF CursorsReached
    <3>2. QED
      BY <1>1, <1>9, <1>12, <1>14, <3>1
  <2>2. QED
    BY <2>1 DEF CursorsReached
<1>24. CursorNeverSkips'
  <2>1. ASSUME NEW d \in Devices, ~device[d].stale, NEW r \in Rows, entry'[r].seq <= device[d].cursor
        PROVE  device[d].catalog[r] = entry'[r].val
    <3>1. device[d].cursor <= feedState.last /\ device[d].cursor \in Nat
      BY <1>1, <2>1 DEF CursorsReached
    <3>2. entry'[r] = entry[r]
      BY <1>21, <2>1, <3>1
    <3>3. QED
      BY <1>1, <2>1, <3>2 DEF CursorNeverSkips
  <2>2. QED
    BY <1>12, <2>1 DEF CursorNeverSkips
<1>25. QED
  BY <1>17, <1>18, <1>19, <1>20, <1>22, <1>23, <1>24 DEF FeedInv

\* An edit of the catalog leaves the feed alone.
LEMMA EditKeeps ==
    ASSUME FeedInv, NEW r \in Rows, EditRow(r)
    PROVE  FeedInv'
<1> USE FeedAssumption
<1>1. /\ FeedTypeOK /\ RefreshAlone /\ EntriesNumbered /\ AskedFromCursor
      /\ RepliesGood /\ CursorsReached /\ CursorNeverSkips
  BY DEF FeedInv
<1>2. UNCHANGED <<entry, feedState, rebuilds, pull, device, overtaken>>
  BY DEF EditRow
<1>3. FeedTypeOK'
  <2>1. PICK v \in {Gone, edits + 2} : content' = [content EXCEPT ![r] = v]
    BY DEF EditRow
  <2>2. edits \in 0 .. MaxEdits /\ edits < MaxEdits /\ edits' = edits + 1 /\ MaxEdits \in Nat
    BY <1>1 DEF EditRow, FeedTypeOK
  <2>3. v \in Versions
    BY <2>1, <2>2 DEF Versions, Gone
  <2>4. content' \in [Rows -> Versions] /\ edits' \in 0 .. MaxEdits
    BY <1>1, <2>1, <2>2, <2>3 DEF FeedTypeOK
  <2>5. QED
    BY <1>1, <1>2, <2>4 DEF FeedTypeOK
<1>4. RefreshAlone' /\ EntriesNumbered' /\ AskedFromCursor' /\ CursorsReached' /\ CursorNeverSkips'
  BY <1>1, <1>2 DEF RefreshAlone, EntriesNumbered, AskedFromCursor, CursorOf, CursorsReached, CursorNeverSkips
<1>5. RepliesGood'
  BY <1>1, <1>2 DEF RepliesGood, ReplyGood, BringsFrom, CursorOf
<1>6. QED
  BY <1>3, <1>4, <1>5 DEF FeedInv

\* A restored database: no device is vouched for until it starts afresh, and no
\* reply sent before counts.
LEMMA RebuildKeeps ==
    ASSUME FeedInv, FeedRebuilt
    PROVE  FeedInv'
<1> USE FeedAssumption
<1>1. FeedTypeOK /\ RepliesGood
  BY DEF FeedInv
<1>2. /\ entry' = [r \in Rows |-> Unread] /\ UNCHANGED <<content, edits, overtaken>>
      /\ feedState' = [last |-> 0, ran |-> FALSE, lock |-> FeedFree]
      /\ pull' = [p \in Pullers |-> IF pull[p].at = "reply" THEN pull[p] ELSE NoPull]
      /\ device' = [d \in Devices |-> [device[d] EXCEPT !.stale = TRUE]]
      /\ rebuilds \in 0 .. MaxRebuilds /\ rebuilds < MaxRebuilds /\ rebuilds' = rebuilds + 1
      /\ MaxRebuilds \in Nat
  BY <1>1 DEF FeedRebuilt, FeedTypeOK
<1>3. \A p \in Pullers : pull'[p] \in Pulls /\ pull'[p].at \in {"idle", "reply"}
                         /\ (pull'[p].at = "reply" => pull'[p] = pull[p])
  <2>1. NoPull \in Pulls /\ NoPull.at = "idle"
    BY DEF Pulls, NoPull
  <2>2. \A p \in Pullers : pull[p] \in Pulls
    BY <1>1 DEF FeedTypeOK
  <2>3. QED
    BY <1>2, <2>1, <2>2
<1>4. \A r \in Rows : entry'[r].seq = 0 /\ entry'[r].val = Gone
  BY <1>2 DEF Unread
<1>5. \A d \in Devices : device'[d].stale
  BY <1>1, <1>2 DEF FeedTypeOK
<1>6. FeedTypeOK'
  <2>1. entry' \in [Rows -> [seq: Nat, val: Versions]]
    BY <1>2 DEF Unread, Gone, Versions
  <2>2. /\ feedState' \in [last: Nat, ran: BOOLEAN, lock: Pullers \cup {FeedFree}]
        /\ rebuilds' \in 0 .. MaxRebuilds
    BY <1>2
  <2>3. device' \in [Devices -> [catalog: [Rows -> Versions], cursor: Nat, stale: BOOLEAN]]
    <3>1. device \in [Devices -> [catalog: [Rows -> Versions], cursor: Nat, stale: BOOLEAN]]
      BY <1>1 DEF FeedTypeOK
    <3>2. QED
      BY <1>2, <3>1
  <2>4. pull' \in [Pullers -> Pulls]
    BY <1>2, <1>3
  <2>5. QED
    BY <1>1, <1>2, <2>1, <2>2, <2>4, <2>3 DEF FeedTypeOK
<1>7. RefreshAlone' /\ AskedFromCursor'
  BY <1>3 DEF RefreshAlone, AskedFromCursor
<1>8. EntriesNumbered'
  BY <1>2, <1>4 DEF EntriesNumbered
<1>9. CursorsReached' /\ CursorNeverSkips'
  BY <1>5 DEF CursorsReached, CursorNeverSkips
<1>10. RepliesGood'
  <2>1. ASSUME NEW p \in Pullers, pull'[p].at = "reply" PROVE ReplyGood(p)'
    <3>1. pull'[p] = pull[p] /\ ReplyGood(p)
      BY <1>1, <1>3, <2>1 DEF RepliesGood
    <3>2. PICK its : its = pull[p].page
      OBVIOUS
    <3>3. its \in Page
      BY <1>1, <2>1, <3>1, <3>2, PullShape
    <3>4. its.epoch \in Nat
      BY <3>3 DEF Page
    <3>5. its.epoch <= rebuilds
      BY <3>1, <3>2 DEF ReplyGood
    <3>6. its.epoch <= rebuilds' /\ its.epoch # rebuilds'
      BY <1>2, <3>4, <3>5
    <3>7. its = pull'[p].page
      BY <3>1, <3>2
    <3>8. QED
      BY <3>6, <3>7 DEF ReplyGood
  <2>2. QED
    BY <2>1 DEF RepliesGood
<1>11. QED
  BY <1>6, <1>7, <1>8, <1>9, <1>10 DEF FeedInv

\* Nothing is asked or numbered at first.
LEMMA FeedStarts == FeedInit => FeedInv
<1> SUFFICES ASSUME FeedInit PROVE FeedInv
  OBVIOUS
<1> USE FeedAssumption
<1>1. /\ content = [r \in Rows |-> 1] /\ edits = 0 /\ rebuilds = 0 /\ overtaken = {}
      /\ entry = [r \in Rows |-> Unread] /\ feedState = [last |-> 0, ran |-> FALSE, lock |-> FeedFree]
      /\ pull = [p \in Pullers |-> NoPull]
      /\ device = [d \in Devices |-> [catalog |-> [r \in Rows |-> Gone], cursor |-> 0, stale |-> FALSE]]
  BY DEF FeedInit
<1>2. FeedTypeOK
  <2>1. entry \in [Rows -> [seq: Nat, val: Versions]] /\ content \in [Rows -> Versions]
    BY <1>1 DEF Unread, Gone, Versions
  <2>2. NoPull \in Pulls
    BY DEF Pulls
  <2>3. pull \in [Pullers -> Pulls]
    BY <1>1, <2>2
  <2>4. /\ feedState \in [last: Nat, ran: BOOLEAN, lock: Pullers \cup {FeedFree}]
        /\ edits \in 0 .. MaxEdits /\ rebuilds \in 0 .. MaxRebuilds /\ overtaken \subseteq Pullers
    BY <1>1
  <2>5. PICK none : none = [r \in Rows |-> Gone]
    OBVIOUS
  <2>6. none \in [Rows -> Versions]
    BY <2>5 DEF Gone, Versions
  <2>7. device \in [Devices -> [catalog: [Rows -> Versions], cursor: Nat, stale: BOOLEAN]]
    BY <1>1, <2>5, <2>6
  <2>8. QED
    BY <2>1, <2>3, <2>4, <2>7 DEF FeedTypeOK
<1>3. \A p \in Pullers : pull[p].at = "idle"
  BY <1>1 DEF NoPull
<1>4. RefreshAlone /\ AskedFromCursor /\ RepliesGood
  BY <1>3 DEF RefreshAlone, AskedFromCursor, RepliesGood
<1>5. \A r \in Rows : entry[r].seq = 0 /\ entry[r].val = Gone
  BY <1>1 DEF Unread
<1>6. EntriesNumbered /\ CursorsReached
  BY <1>1, <1>5 DEF EntriesNumbered, CursorsReached
<1>7. CursorNeverSkips
  BY <1>1, <1>5 DEF CursorNeverSkips
<1>8. QED
  BY <1>2, <1>4, <1>6, <1>7 DEF FeedInv

\* No step of the feed takes its invariant away.
LEMMA FeedKeeps == FeedInv /\ [FeedNext]_feedVars => FeedInv'
<1> SUFFICES ASSUME FeedInv, [FeedNext]_feedVars PROVE FeedInv'
  OBVIOUS
<1>1. ASSUME NEW r \in Rows, EditRow(r) PROVE FeedInv'
  BY <1>1, EditKeeps
<1>2. ASSUME NEW p \in Pullers,
             StartPull(p) \/ RefreshBegins(p) \/ RefreshSkipped(p) \/ BuildRow(p) \/ PullFails(p)
      PROVE  FeedInv'
  BY <1>2, PullKeeps
<1>3. ASSUME NEW p \in Pullers, RefreshCommits(p) PROVE FeedInv'
  BY <1>3, CommitKeeps
<1>4. ASSUME NEW p \in Pullers, ReadPage(p) PROVE FeedInv'
  BY <1>4, ReadPageKeeps
<1>5. ASSUME NEW p \in Pullers, ApplyPage(p) PROVE FeedInv'
  BY <1>5, ApplyPageKeeps
<1>6. CASE FeedRebuilt
  BY <1>6, RebuildKeeps
<1>7. CASE UNCHANGED feedVars
  <2>1. UNCHANGED <<content, edits, entry, feedState, rebuilds, pull, device, overtaken>>
    BY <1>7 DEF feedVars
  <2>2. FeedTypeOK' /\ RefreshAlone' /\ EntriesNumbered' /\ AskedFromCursor' /\ CursorsReached' /\ CursorNeverSkips'
    BY <2>1 DEF FeedInv, FeedTypeOK, RefreshAlone, EntriesNumbered, AskedFromCursor, CursorOf,
                CursorsReached, CursorNeverSkips
  <2>3. RepliesGood'
    BY <2>1 DEF FeedInv, RepliesGood, ReplyGood, BringsFrom, CursorOf
  <2>4. QED
    BY <2>2, <2>3 DEF FeedInv
<1>8. QED
  BY <1>1, <1>2, <1>3, <1>4, <1>5, <1>6, <1>7 DEF FeedNext

\* The cursor of a device's catalog skips no change of the feed (CursorNeverSkips),
\* for any number of rows, pages, devices and pulls: a refresh numbers what moved
\* beyond every cursor in use, as it holds the feed's row lock, and a page is cut
\* where its cursor says.
THEOREM CursorsSkipNothing == FeedSpec => [](FeedTypeOK /\ CursorNeverSkips)
<1>1. FeedInv => FeedTypeOK /\ CursorNeverSkips
  BY DEF FeedInv
<1>2. QED
  BY <1>1, FeedStarts, FeedKeeps, PTL DEF FeedSpec

----------------------------------------------------------------------------
(* Stock. *)

ClerkOps == {"idle", "opening", "receipt", "batch", "post", "dispatch", "receive"}
ClerkRecord == [op : ClerkOps, on : Materials \cup Counts \cup Indents \cup {""}, read : Int]
CountRecord == [status : {"none", "COUNTING", "SUBMITTED", "POSTED", "CANCELLED"}, lines : SUBSET Materials,
                variance : [Materials -> Int], entered : SUBSET Materials, posted : [Materials -> Int]]
Posted(c) == [m \in Materials |-> IF count[c].status = "POSTED" /\ m \in count[c].entered THEN count[c].variance[m] ELSE 0]

StockRows ==
    /\ exists \subseteq Materials /\ opened \in [Materials -> BOOLEAN] /\ moves \in Nat
    /\ stock \in [Materials -> Int] /\ stockLedger \in [Materials -> Int]
    /\ matLock \in [Materials -> Clerks \cup {"free"}] /\ countLock \in [Counts -> Clerks \cup {"free"}]
    /\ indent \in [Indents -> {"none", "DRAFT", "DISPATCHED", "RECEIVED"}]
    /\ count \in [Counts -> CountRecord] /\ clerk \in [Clerks -> ClerkRecord]

\* What was never entered has no stock and no movements.
UnbornEmpty == \A m \in Materials : m \notin exists => stock[m] = 0 /\ stockLedger[m] = 0 /\ opened[m]

\* Balance and movements differ by the opening movement that is still to be written.
Account == \A m \in Materials \ DOMAIN Prep : stock[m] = stockLedger[m] + (IF opened[m] THEN 0 ELSE 1)

\* Lines are of materials that exist; what a count posted is what it was entered.
CountsSound ==
    \A c \in Counts : /\ count[c].lines \subseteq exists /\ count[c].entered \subseteq count[c].lines
                      /\ count[c].posted = Posted(c)

\* Only the request that created a material writes its opening movement.
OpenedByOne ==
    \A t, u \in Clerks : clerk[t].op = "opening" /\ clerk[u].op = "opening" /\ clerk[t].on = clerk[u].on => t = u

\* What a request knows between its statements: the balance it will add to is still
\* that of the row it locked, and the count it will post is still open.
ClerkHolds(t) ==
    LET on == clerk[t].on IN
    CASE clerk[t].op = "opening" -> on \in exists /\ ~opened[on]
      [] clerk[t].op = "receipt" -> on \in exists /\ matLock[on] = t /\ clerk[t].read = stock[on]
      [] clerk[t].op = "batch" -> on \in DOMAIN Prep /\ {on} \cup Prep[on] \subseteq exists
      [] clerk[t].op = "post" -> on \in Counts /\ countLock[on] = t /\ CountOpen(on)
      [] clerk[t].op \in {"dispatch", "receive"} -> on \in Indents /\ ShipFrom \in exists
      [] OTHER -> TRUE

ShipsWhatExists == \A i \in Indents : indent[i] # "none" => ShipFrom \in exists

StockInv ==
    /\ StockRows /\ UnbornEmpty /\ Account /\ CountsSound /\ OpenedByOne /\ ShipsWhatExists
    /\ \A t \in Clerks : ClerkHolds(t)

\* What a step by another request leaves as request u knows it.
Spared(u) ==
    LET on == clerk[u].on IN
    /\ clerk'[u] = clerk[u]
    /\ clerk[u].op = "receipt" => stock'[on] = stock[on] /\ matLock'[on] = matLock[on]
    /\ clerk[u].op = "opening" => opened'[on] = opened[on]
    /\ clerk[u].op = "post" => countLock'[on] = countLock[on] /\ count'[on].status \in {"COUNTING", "SUBMITTED"}

\* It goes on knowing what it knew.
LEMMA SparedHolds ==
    ASSUME NEW u \in Clerks, ClerkHolds(u), Spared(u), exists \subseteq exists'
    PROVE  ClerkHolds(u)'
BY DEF ClerkHolds, Spared, CountOpen

\* Ending a request releases its own rows only.
LEMMA ReleaseFrees ==
    ASSUME StockRows, NEW t \in Clerks, Release(t)
    PROVE  /\ clerk' = [clerk EXCEPT ![t] = ClerkIdle] /\ clerk' \in [Clerks -> ClerkRecord]
           /\ matLock' \in [Materials -> Clerks \cup {"free"}] /\ countLock' \in [Counts -> Clerks \cup {"free"}]
           /\ \A u \in Clerks \ {t} :
                 /\ clerk'[u] = clerk[u]
                 /\ \A m \in Materials : matLock[m] = u => matLock'[m] = u
                 /\ \A c \in Counts : countLock[c] = u => countLock'[c] = u
           /\ clerk'[t] = ClerkIdle
<1>1. ClerkIdle \in ClerkRecord
  BY DEF ClerkIdle, ClerkRecord, ClerkOps
<1>2. QED
  BY <1>1, StockAssumption DEF Release, StockRows

\* Each request keeps the rows it has locked.
LEMMA EndSpares ==
    ASSUME StockInv, NEW t \in Clerks, Release(t), NEW u \in Clerks \ {t},
           clerk[u].op = "receipt" => stock'[clerk[u].on] = stock[clerk[u].on],
           clerk[u].op = "opening" => opened'[clerk[u].on] = opened[clerk[u].on],
           clerk[u].op = "post" => count'[clerk[u].on].status \in {"COUNTING", "SUBMITTED"}
    PROVE  Spared(u)
<1>1. clerk'[u] = clerk[u]
  BY ReleaseFrees DEF StockInv
<1>2. ASSUME clerk[u].op = "receipt" PROVE matLock'[clerk[u].on] = matLock[clerk[u].on]
  <2>1. clerk[u].on \in Materials /\ matLock[clerk[u].on] = u
    BY <1>2 DEF StockInv, ClerkHolds, StockRows
  <2>2. QED
    BY <2>1, ReleaseFrees DEF StockInv
<1>3. ASSUME clerk[u].op = "post" PROVE countLock'[clerk[u].on] = countLock[clerk[u].on]
  <2>1. clerk[u].on \in Counts /\ countLock[clerk[u].on] = u
    BY <1>3 DEF StockInv, ClerkHolds
  <2>2. QED
    BY <2>1, ReleaseFrees DEF StockInv
<1>4. QED
  BY <1>1, <1>2, <1>3 DEF Spared

\* What a request is recorded as.
LEMMA ClerkRecords ==
    ASSUME NEW op \in ClerkOps, NEW on \in Materials \cup Counts \cup Indents, NEW read \in Int
    PROVE  [op |-> op, on |-> on, read |-> read] \in ClerkRecord
BY DEF ClerkRecord

\* So with what it leaves to the others, a step that ends keeps what all know.
LEMMA EndKeeps ==
    ASSUME StockInv, NEW t \in Clerks, Release(t), exists \subseteq exists',
           \A u \in Clerks \ {t} : Spared(u)
    PROVE  (\A u \in Clerks : ClerkHolds(u))' /\ OpenedByOne'
<1>1. StockRows /\ clerk' = [clerk EXCEPT ![t] = ClerkIdle]
  BY ReleaseFrees DEF StockInv
<1>2. \A u \in Clerks \ {t} : clerk'[u] = clerk[u]
  BY <1>1, ReleaseFrees
<1>3. clerk'[t].op = "idle"
  BY <1>1, ReleaseFrees DEF ClerkIdle
<1>4. ClerkHolds(t)'
  BY <1>3 DEF ClerkHolds
<1>5. \A u \in Clerks \ {t} : ClerkHolds(u)'
  BY SparedHolds DEF StockInv
<1>6. OpenedByOne'
  BY <1>2, <1>3 DEF OpenedByOne, StockInv
<1>7. QED
  BY <1>4, <1>5, <1>6

\* A committed transaction books its movements on rows that nobody has locked.
LEMMA BookMoves ==
    ASSUME StockInv, NEW delta \in [Materials -> Int], NEW M \in SUBSET Materials, M \subseteq exists', exists \subseteq exists',
           Free(M), \A m \in Materials \ M : delta[m] = 0, Book(delta), opened' = opened
    PROVE  /\ stock' \in [Materials -> Int] /\ stockLedger' \in [Materials -> Int] /\ moves' \in Nat
           /\ UnbornEmpty' /\ Account'
           /\ \A u \in Clerks : clerk[u].op = "receipt" => stock'[clerk[u].on] = stock[clerk[u].on]
<1>1. StockRows
  BY DEF StockInv
<1>2. \A m \in Materials : stock'[m] = stock[m] + delta[m] /\ stockLedger'[m] = stockLedger[m] + delta[m]
  BY DEF Book
<1>3. stock' \in [Materials -> Int] /\ stockLedger' \in [Materials -> Int] /\ moves' \in Nat
  BY <1>1 DEF Book, StockRows
<1>4. \A m \in Materials : stock[m] \in Int /\ stockLedger[m] \in Int /\ delta[m] \in Int
  BY <1>1 DEF StockRows
<1>5. Account'
  BY <1>2, <1>4 DEF Account, StockInv
<1>6. UnbornEmpty'
  BY <1>2, <1>4 DEF UnbornEmpty, StockInv
<1>7. ASSUME NEW u \in Clerks, clerk[u].op = "receipt" PROVE stock'[clerk[u].on] = stock[clerk[u].on]
  <2>1. clerk[u].on \in Materials /\ matLock[clerk[u].on] = u /\ u # "free"
    BY <1>1, <1>7, StockAssumption DEF StockInv, ClerkHolds, StockRows
  <2>2. clerk[u].on \notin M
    BY <2>1 DEF Free
  <2>3. QED
    BY <1>2, <1>4, <2>1, <2>2
<1>8. QED
  BY <1>3, <1>5, <1>6, <1>7

\* A material that is created is unborn until then; its opening movement follows.
LEMMA OpeningKeeps ==
    ASSUME StockInv, NEW t \in Clerks
    PROVE  (\E m \in Materials : CreateMaterial(t, m)) \/ WriteOpening(t) => StockInv'
<1>1. StockRows
  BY DEF StockInv
<1>2. ASSUME NEW m \in Materials, CreateMaterial(t, m) PROVE StockInv'
  <2>1. /\ m \notin exists /\ exists' = exists \cup {m} /\ stock' = [stock EXCEPT ![m] = 1] /\ opened' = [opened EXCEPT ![m] = FALSE]
        /\ clerk[t] = ClerkIdle /\ clerk' = [clerk EXCEPT ![t] = [op |-> "opening", on |-> m, read |-> 0]]
        /\ UNCHANGED <<stockLedger, moves, matLock, count, countLock, indent>>
    BY <1>2 DEF CreateMaterial, Take
  <2>2. StockRows'
    <3>1. [op |-> "opening", on |-> m, read |-> 0] \in ClerkRecord
      BY ClerkRecords DEF ClerkOps
    <3>2. QED
      BY <1>1, <2>1, <3>1 DEF StockRows
  <2>3. UnbornEmpty' /\ CountsSound' /\ ShipsWhatExists'
    <3>1. UnbornEmpty'
      BY <1>1, <2>1 DEF StockRows, UnbornEmpty, StockInv
    <3>2. \A c \in Counts : Posted(c)' = Posted(c)
      BY <2>1 DEF Posted
    <3>3. QED
      BY <2>1, <3>1, <3>2 DEF CountsSound, ShipsWhatExists, StockInv
  <2>4. Account'
    <3>1. stock[m] = 0 /\ stockLedger[m] = 0
      BY <2>1 DEF UnbornEmpty, StockInv
    <3>2. QED
      BY <1>1, <2>1, <3>1 DEF StockRows, Account, StockInv
  <2>5. /\ clerk'[t].op = "opening" /\ clerk'[t].on = m /\ \A u \in Clerks \ {t} : clerk'[u] = clerk[u]
    BY <1>1, <2>1 DEF StockRows
  <2>6. ASSUME NEW u \in Clerks, clerk[u].op \in {"opening", "receipt"} PROVE clerk[u].on \in exists /\ clerk[u].on # m
    BY <2>1, <2>6 DEF ClerkHolds, StockInv
  <2>7. OpenedByOne'
    BY <2>5, <2>6 DEF OpenedByOne, StockInv
  <2>8. ClerkHolds(t)'
    BY <1>1, <2>1, <2>5 DEF ClerkHolds, StockRows
  <2>9. ASSUME NEW u \in Clerks \ {t} PROVE ClerkHolds(u)'
    <3>1. Spared(u)
      <4>1. clerk[u].op = "post" => count[clerk[u].on].status \in {"COUNTING", "SUBMITTED"}
        BY DEF StockInv, ClerkHolds, CountOpen
      <4>2. QED
        BY <1>1, <2>1, <2>5, <2>6, <4>1 DEF Spared, StockRows
    <3>2. QED
      BY <2>1, <3>1, SparedHolds DEF StockInv
  <2>10. QED
    BY <2>2, <2>3, <2>4, <2>7, <2>8, <2>9 DEF StockInv
<1>3. ASSUME WriteOpening(t) PROVE StockInv'
  <2>1. PICK m : m = clerk[t].on
    OBVIOUS
  <2>2. /\ clerk[t].op = "opening" /\ stockLedger' = [stockLedger EXCEPT ![m] = @ + 1] /\ opened' = [opened EXCEPT ![m] = TRUE]
        /\ Release(t) /\ UNCHANGED <<exists, stock, moves, count, indent>>
    BY <1>3, <2>1 DEF WriteOpening
  <2>3. m \in exists /\ m \in Materials /\ ~opened[m]
    BY <1>1, <2>1, <2>2 DEF ClerkHolds, StockInv, StockRows
  <2>4. StockRows'
    BY <1>1, <2>2, <2>3, ReleaseFrees DEF StockRows
  <2>5. UnbornEmpty' /\ CountsSound' /\ ShipsWhatExists'
    <3>1. UnbornEmpty'
      BY <1>1, <2>2, <2>3 DEF StockRows, UnbornEmpty, StockInv
    <3>2. \A c \in Counts : Posted(c)' = Posted(c)
      BY <2>2 DEF Posted
    <3>3. QED
      BY <2>2, <3>1, <3>2 DEF CountsSound, ShipsWhatExists, StockInv
  <2>6. Account'
    <3>1. \A i \in Materials : stock[i] \in Int /\ stockLedger[i] \in Int
      BY <1>1 DEF StockRows
    <3>2. QED
      BY <1>1, <2>2, <2>3, <3>1 DEF StockRows, Account, StockInv
  <2>7. ASSUME NEW u \in Clerks \ {t} PROVE Spared(u)
    <3>1. clerk[u].op = "post" => count[clerk[u].on].status \in {"COUNTING", "SUBMITTED"}
      BY DEF StockInv, ClerkHolds, CountOpen
    <3>2. clerk[u].op = "opening" => clerk[u].on # m
      BY <2>1, <2>2 DEF OpenedByOne, StockInv
    <3>3. clerk[u].op = "opening" => opened'[clerk[u].on] = opened[clerk[u].on]
      BY <1>1, <2>2, <3>2 DEF StockRows
    <3>4. QED
      BY <2>2, <3>1, <3>3, EndSpares
  <2>8. (\A u \in Clerks : ClerkHolds(u))' /\ OpenedByOne'
    BY <2>2, <2>7, EndKeeps
  <2>9. QED
    BY <2>4, <2>5, <2>6, <2>8 DEF StockInv
<1>4. QED
  BY <1>2, <1>3

\* A step outside every request, or one that begins a request, spares the others.
LEMMA TakeKeeps ==
    ASSUME StockInv, NEW t \in Clerks, NEW op \in ClerkOps \ {"opening"}, NEW on, NEW read, Take(t, op, on, read),
           UNCHANGED <<exists, stock, opened, count>>,
           \A m \in Materials : matLock[m] \in Clerks => matLock'[m] = matLock[m],
           \A c \in Counts : countLock[c] \in Clerks => countLock'[c] = countLock[c], ClerkHolds(t)'
    PROVE  (\A u \in Clerks : ClerkHolds(u))' /\ OpenedByOne'
<1>1. /\ \A u \in Clerks \ {t} : clerk'[u] = clerk[u]
      /\ clerk'[t].op = op
  BY DEF Take, StockInv, StockRows
<1>2. ASSUME NEW u \in Clerks \ {t} PROVE Spared(u)
  <2>1. clerk[u].op = "post" => /\ clerk[u].on \in Counts /\ countLock[clerk[u].on] \in Clerks
                                /\ count[clerk[u].on].status \in {"COUNTING", "SUBMITTED"}
    BY DEF StockInv, ClerkHolds, CountOpen
  <2>2. clerk[u].op = "receipt" => clerk[u].on \in Materials /\ matLock[clerk[u].on] \in Clerks
    BY DEF StockInv, ClerkHolds, StockRows
  <2>3. QED
    BY <1>1, <2>1, <2>2 DEF Spared
<1>3. \A u \in Clerks \ {t} : ClerkHolds(u)'
  BY <1>2, SparedHolds DEF StockInv
<1>4. QED
  BY <1>1, <1>3 DEF OpenedByOne, StockInv

\* The same for one that begins none and may move stock nobody has locked.
LEMMA AsideKeeps ==
    ASSUME StockInv, UNCHANGED <<exists, opened, matLock, countLock, clerk>>,
           \A u \in Clerks : clerk[u].op = "receipt" => stock'[clerk[u].on] = stock[clerk[u].on],
           \A c \in Counts : countLock[c] \in Clerks => count'[c] = count[c]
    PROVE  (\A u \in Clerks : ClerkHolds(u))' /\ OpenedByOne'
<1>1. ASSUME NEW u \in Clerks PROVE Spared(u)
  <2>1. clerk[u].op = "post" => /\ clerk[u].on \in Counts /\ countLock[clerk[u].on] \in Clerks
                                /\ count[clerk[u].on].status \in {"COUNTING", "SUBMITTED"}
    BY DEF StockInv, ClerkHolds, CountOpen
  <2>2. QED
    BY <2>1 DEF Spared
<1>2. \A u \in Clerks : ClerkHolds(u)'
  BY <1>1, SparedHolds DEF StockInv
<1>3. QED
  BY <1>2 DEF OpenedByOne, StockInv

\* What a count posted does not depend on stock.
LEMMA CountsAside ==
    ASSUME StockInv, UNCHANGED <<count, indent>>, exists \subseteq exists'
    PROVE  CountsSound' /\ ShipsWhatExists'
<1>1. \A c \in Counts : Posted(c)' = Posted(c)
  BY DEF Posted
<1>2. QED
  BY <1>1 DEF CountsSound, ShipsWhatExists, StockInv

\* What a movement of some materials leaves alone.
LEMMA OnlyMoves ==
    ASSUME NEW M \in SUBSET Materials, NEW n \in Int
    PROVE  Only(M, n) \in [Materials -> Int] /\ \A m \in Materials \ M : Only(M, n)[m] = 0
BY DEF Only

\* Sales and wastage take from rows that nobody has locked.
LEMMA TakingKeeps ==
    ASSUME StockInv, NEW M \in SUBSET Materials, Consume(M)
    PROVE  StockInv'
<1>1. StockRows
  BY DEF StockInv
<1>2. PICK delta \in [Materials -> Int] : delta = Only(M, -1)
  BY OnlyMoves
<1>3. /\ Book(delta) /\ M \subseteq exists /\ Free(M)
      /\ UNCHANGED <<exists, opened, matLock, count, countLock, indent, clerk>>
  BY <1>2 DEF Consume
<1>4. \A m \in Materials \ M : delta[m] = 0
  BY <1>2, OnlyMoves
<1>5. /\ stock' \in [Materials -> Int] /\ stockLedger' \in [Materials -> Int] /\ moves' \in Nat
      /\ UnbornEmpty' /\ Account'
      /\ \A u \in Clerks : clerk[u].op = "receipt" => stock'[clerk[u].on] = stock[clerk[u].on]
  BY <1>3, <1>4, BookMoves
<1>6. StockRows'
  BY <1>1, <1>3, <1>5 DEF StockRows
<1>7. CountsSound' /\ ShipsWhatExists'
  BY <1>3, CountsAside
<1>8. (\A u \in Clerks : ClerkHolds(u))' /\ OpenedByOne'
  BY <1>3, <1>5, AsideKeeps
<1>9. QED
  BY <1>5, <1>6, <1>7, <1>8 DEF StockInv

\* A receipt adds to the balance it read under the row's lock.
LEMMA ReceiptKeeps ==
    ASSUME StockInv, NEW t \in Clerks
    PROVE  (\E m \in Materials : BeginReceipt(t, m)) \/ CommitReceipt(t) => StockInv'
<1>1. StockRows
  BY DEF StockInv
<1>2. ASSUME NEW m \in Materials, BeginReceipt(t, m) PROVE StockInv'
  <2>1. /\ m \in exists /\ matLock[m] = "free" /\ matLock' = [matLock EXCEPT ![m] = t] /\ Take(t, "receipt", m, stock[m])
        /\ clerk' = [clerk EXCEPT ![t] = [op |-> "receipt", on |-> m, read |-> stock[m]]]
        /\ UNCHANGED <<exists, stock, stockLedger, opened, moves, count, countLock, indent>>
    BY <1>2 DEF BeginReceipt, LockMaterial, Free, Take
  <2>2. StockRows'
    <3>1. [op |-> "receipt", on |-> m, read |-> stock[m]] \in ClerkRecord
      BY <1>1, ClerkRecords DEF ClerkOps, StockRows
    <3>2. QED
      BY <1>1, <2>1, <3>1 DEF StockRows
  <2>3. UnbornEmpty' /\ Account'
    BY <2>1 DEF UnbornEmpty, Account, StockInv
  <2>4. CountsSound' /\ ShipsWhatExists'
    BY <2>1, CountsAside
  <2>5. clerk'[t].op = "receipt" /\ clerk'[t].on = m /\ clerk'[t].read = stock'[m] /\ matLock'[m] = t /\ m \in exists'
    BY <1>1, <2>1 DEF StockRows
  <2>6. ClerkHolds(t)'
    BY <2>5 DEF ClerkHolds
  <2>7. (\A u \in Clerks : ClerkHolds(u))' /\ OpenedByOne'
    <3>1. \A i \in Materials : matLock[i] \in Clerks => matLock'[i] = matLock[i]
      BY <1>1, <2>1, StockAssumption DEF StockRows
    <3>2. "receipt" \in ClerkOps \ {"opening"}
      BY DEF ClerkOps
    <3>3. QED
      BY <2>1, <2>6, <3>1, <3>2, TakeKeeps
  <2>8. QED
    BY <2>2, <2>3, <2>4, <2>7 DEF StockInv
<1>3. ASSUME CommitReceipt(t) PROVE StockInv'
  <2>1. PICK m : m = clerk[t].on
    OBVIOUS
  <2>2. /\ clerk[t].op = "receipt" /\ stock' = [stock EXCEPT ![m] = clerk[t].read + 1] /\ stockLedger' = [stockLedger EXCEPT ![m] = @ + 1]
        /\ moves' = moves + 1 /\ Release(t) /\ UNCHANGED <<exists, opened, count, indent>>
    BY <1>3, <2>1 DEF CommitReceipt
  <2>3. m \in exists /\ m \in Materials /\ matLock[m] = t /\ clerk[t].read = stock[m]
    BY <1>1, <2>1, <2>2 DEF ClerkHolds, StockInv, StockRows
  <2>4. stock[m] \in Int /\ stockLedger[m] \in Int
    BY <1>1, <2>3 DEF StockRows
  <2>5. StockRows'
    BY <1>1, <2>2, <2>3, <2>4, ReleaseFrees DEF StockRows
  <2>6. UnbornEmpty' /\ CountsSound' /\ ShipsWhatExists'
    BY <1>1, <2>2, <2>3, CountsAside DEF StockRows, UnbornEmpty, StockInv
  <2>7. Account'
    BY <1>1, <2>2, <2>3, <2>4 DEF StockRows, Account, StockInv
  <2>8. ASSUME NEW u \in Clerks \ {t} PROVE Spared(u)
    <3>1. clerk[u].op = "post" => count[clerk[u].on].status \in {"COUNTING", "SUBMITTED"}
      BY DEF StockInv, ClerkHolds, CountOpen
    <3>2. clerk[u].op = "receipt" => clerk[u].on \in Materials /\ clerk[u].on # m
      BY <1>1, <2>3 DEF StockInv, ClerkHolds, StockRows
    <3>3. clerk[u].op = "receipt" => stock'[clerk[u].on] = stock[clerk[u].on]
      BY <1>1, <2>2, <3>2 DEF StockRows
    <3>4. QED
      BY <2>2, <3>1, <3>3, EndSpares
  <2>9. (\A u \in Clerks : ClerkHolds(u))' /\ OpenedByOne'
    BY <2>2, <2>8, EndKeeps
  <2>10. QED
    BY <2>5, <2>6, <2>7, <2>9 DEF StockInv
<1>4. QED
  BY <1>2, <1>3

\* A batch changes the account of no material that is not produced in batches but by
\* its movements, whatever it read of its output before.
LEMMA BatchKeeps ==
    ASSUME StockInv, NEW t \in Clerks
    PROVE  (\E m \in DOMAIN Prep : BeginBatch(t, m)) \/ CommitBatch(t) => StockInv'
<1>1. StockRows
  BY DEF StockInv
<1>2. ASSUME NEW m \in DOMAIN Prep, BeginBatch(t, m) PROVE StockInv'
  <2>1. /\ {m} \cup Prep[m] \subseteq exists /\ Take(t, "batch", m, stock[m]) /\ m \in Materials
        /\ clerk' = [clerk EXCEPT ![t] = [op |-> "batch", on |-> m, read |-> stock[m]]]
        /\ UNCHANGED <<exists, stock, stockLedger, opened, moves, matLock, count, countLock, indent>>
    BY <1>2, StockAssumption DEF BeginBatch, Take
  <2>2. StockRows'
    <3>1. [op |-> "batch", on |-> m, read |-> stock[m]] \in ClerkRecord
      BY <1>1, <2>1, ClerkRecords DEF ClerkOps, StockRows
    <3>2. QED
      BY <1>1, <2>1, <3>1 DEF StockRows
  <2>3. UnbornEmpty' /\ Account'
    BY <2>1 DEF UnbornEmpty, Account, StockInv
  <2>4. CountsSound' /\ ShipsWhatExists'
    BY <2>1, CountsAside
  <2>5. clerk'[t].op = "batch" /\ clerk'[t].on = m
    BY <1>1, <2>1 DEF StockRows
  <2>6. ClerkHolds(t)'
    BY <2>1, <2>5 DEF ClerkHolds
  <2>7. (\A u \in Clerks : ClerkHolds(u))' /\ OpenedByOne'
    <3>1. "batch" \in ClerkOps \ {"opening"}
      BY DEF ClerkOps
    <3>2. QED
      BY <2>1, <2>6, <3>1, TakeKeeps
  <2>8. QED
    BY <2>2, <2>3, <2>4, <2>7 DEF StockInv
<1>3. ASSUME CommitBatch(t) PROVE StockInv'
  <2>1. PICK m : m = clerk[t].on
    OBVIOUS
  <2>2. PICK delta : delta = [i \in Materials |-> IF i \in Prep[m] THEN -1 ELSE IF i = m THEN 1 ELSE 0]
    OBVIOUS
  <2>3. /\ clerk[t].op = "batch" /\ Free({m} \cup Prep[m])
        /\ stock' = [i \in Materials |-> IF i = m THEN clerk[t].read + 1 ELSE stock[i] + delta[i]]
        /\ stockLedger' = [i \in Materials |-> stockLedger[i] + delta[i]]
        /\ moves' = moves + 1 /\ Release(t) /\ UNCHANGED <<exists, opened, count, indent>>
    BY <1>3, <2>1, <2>2 DEF CommitBatch
  <2>4. m \in DOMAIN Prep /\ m \in Materials /\ {m} \cup Prep[m] \subseteq exists /\ clerk[t].read \in Int
    BY <1>1, <2>1, <2>3, StockAssumption DEF ClerkHolds, StockInv, StockRows, ClerkRecord
  <2>5. /\ \A i \in Materials : stock[i] \in Int /\ stockLedger[i] \in Int /\ delta[i] \in Int
        /\ \A i \in Materials \ ({m} \cup Prep[m]) : delta[i] = 0
    BY <1>1, <2>2 DEF StockRows
  <2>6. stock' \in [Materials -> Int] /\ stockLedger' \in [Materials -> Int] /\ moves' \in Nat
    BY <1>1, <2>3, <2>4, <2>5 DEF StockRows
  <2>7. StockRows'
    BY <1>1, <2>3, <2>6, ReleaseFrees DEF StockRows
  <2>8. \A i \in Materials \ {m} : stock'[i] = stock[i] + delta[i] /\ stockLedger'[i] = stockLedger[i] + delta[i]
    BY <2>3
  <2>9. UnbornEmpty' /\ CountsSound' /\ ShipsWhatExists'
    <3>1. UnbornEmpty'
      BY <2>3, <2>4, <2>5, <2>8 DEF UnbornEmpty, StockInv
    <3>2. QED
      BY <2>3, <3>1, CountsAside
  <2>10. Account'
    BY <2>3, <2>4, <2>5, <2>8 DEF Account, StockInv
  <2>11. ASSUME NEW u \in Clerks \ {t} PROVE Spared(u)
    <3>1. clerk[u].op = "post" => count[clerk[u].on].status \in {"COUNTING", "SUBMITTED"}
      BY DEF StockInv, ClerkHolds, CountOpen
    <3>2. clerk[u].op = "receipt" => clerk[u].on \in Materials /\ clerk[u].on \notin {m} \cup Prep[m]
      BY <1>1, <2>3, StockAssumption DEF StockInv, ClerkHolds, StockRows, Free
    <3>3. clerk[u].op = "receipt" => stock'[clerk[u].on] = stock[clerk[u].on]
      BY <2>5, <2>8, <3>2
    <3>4. QED
      BY <2>3, <3>1, <3>3, EndSpares
  <2>12. (\A u \in Clerks : ClerkHolds(u))' /\ OpenedByOne'
    BY <2>3, <2>11, EndKeeps
  <2>13. QED
    BY <2>7, <2>9, <2>10, <2>12 DEF StockInv
<1>4. QED
  BY <1>2, <1>3

\* A count that a request posts changes under its lock only.
LEMMA CountingKeeps ==
    ASSUME StockInv, NEW c \in Counts
    PROVE  (\/ \E M \in SUBSET Materials : StartCount(c, M)
            \/ \E m \in Materials, v \in {-1, 0} : EnterCount(c, m, v)
            \/ \E m \in Materials : ClearCount(c, m)
            \/ SubmitCount(c) \/ CancelCount(c)) => StockInv'
<1>1. StockRows
  BY DEF StockInv
<1>2. ASSUME NEW new \in CountRecord, count' = [count EXCEPT ![c] = new], new.lines \subseteq exists, new.entered \subseteq new.lines,
             new.status # "POSTED", new.posted = Uncounted,
             CountFree(c) \/ count[c].status = "none",
             UNCHANGED <<exists, stock, stockLedger, opened, moves, matLock, countLock, indent, clerk>>
      PROVE  StockInv'
  <2>1. StockRows'
    BY <1>1, <1>2 DEF StockRows
  <2>2. UnbornEmpty' /\ Account' /\ ShipsWhatExists'
    BY <1>2 DEF UnbornEmpty, Account, ShipsWhatExists, StockInv
  <2>3. CountsSound'
    <3>1. /\ count'[c] = new
          /\ \A d \in Counts \ {c} : count'[d] = count[d]
      BY <1>1, <1>2 DEF StockRows
    <3>2. Posted(c)' = Uncounted
      BY <1>2, <3>1 DEF Posted, Uncounted
    <3>3. \A d \in Counts \ {c} : Posted(d)' = Posted(d)
      BY <3>1 DEF Posted
    <3>4. QED
      BY <1>2, <3>1, <3>2, <3>3 DEF CountsSound, StockInv
  <2>4. ASSUME NEW u \in Clerks PROVE Spared(u)
    <3>1. clerk[u].op = "post" => /\ clerk[u].on \in Counts /\ countLock[clerk[u].on] = u /\ u # "free"
                                  /\ count[clerk[u].on].status \in {"COUNTING", "SUBMITTED"}
      BY StockAssumption DEF StockInv, ClerkHolds, CountOpen
    <3>2. clerk[u].op = "post" => clerk[u].on # c
      BY <1>2, <3>1 DEF CountFree
    <3>3. clerk[u].op = "post" => count'[clerk[u].on] = count[clerk[u].on]
      BY <1>1, <1>2, <3>1, <3>2 DEF StockRows
    <3>4. QED
      BY <1>2, <3>1, <3>3 DEF Spared
  <2>5. \A u \in Clerks : ClerkHolds(u)'
    BY <1>2, <2>4, SparedHolds DEF StockInv
  <2>6. OpenedByOne'
    BY <1>2 DEF OpenedByOne, StockInv
  <2>7. QED
    BY <2>1, <2>2, <2>3, <2>5, <2>6 DEF StockInv
<1>3. count[c] \in CountRecord /\ count[c].lines \subseteq exists /\ count[c].entered \subseteq count[c].lines
  BY <1>1 DEF StockRows, CountsSound, StockInv
<1>4. CountOpen(c) => count[c].status # "POSTED" /\ count[c].posted = Uncounted
  BY DEF CountOpen, CountsSound, StockInv, Posted, Uncounted
<1>5. ASSUME NEW M \in SUBSET Materials, StartCount(c, M) PROVE StockInv'
  <2>1. PICK new : new = [NoCount EXCEPT !.status = "COUNTING", !.lines = M]
    OBVIOUS
  <2>2. new = [status |-> "COUNTING", lines |-> M, variance |-> Uncounted, entered |-> {}, posted |-> Uncounted]
    BY <2>1 DEF NoCount
  <2>3. Uncounted \in [Materials -> Int]
    BY DEF Uncounted
  <2>4. new \in CountRecord
    BY <2>2, <2>3 DEF CountRecord
  <2>5. QED
    BY <1>2, <1>5, <2>1, <2>2, <2>4 DEF StartCount
<1>6. ASSUME NEW m \in Materials, NEW v \in Int, NEW E \in SUBSET Materials, CountOpen(c), CountFree(c), m \in count[c].lines,
             E = count[c].entered \cup {m} \/ E = count[c].entered \ {m},
             count' = [count EXCEPT ![c] = [count[c] EXCEPT !.variance = [count[c].variance EXCEPT ![m] = v], !.entered = E]],
             UNCHANGED <<exists, stock, stockLedger, opened, moves, matLock, countLock, indent, clerk>>
      PROVE  StockInv'
  <2>1. PICK new : new = [count[c] EXCEPT !.variance = [count[c].variance EXCEPT ![m] = v], !.entered = E]
    OBVIOUS
  <2>2. [count[c].variance EXCEPT ![m] = v] \in [Materials -> Int]
    BY <1>3 DEF CountRecord
  <2>3. new \in CountRecord
    BY <1>3, <2>1, <2>2 DEF CountRecord
  <2>4. new.lines = count[c].lines /\ new.entered = E /\ new.status = count[c].status /\ new.posted = count[c].posted
    BY <1>3, <2>1 DEF CountRecord
  <2>5. QED
    BY <1>2, <1>3, <1>4, <1>6, <2>1, <2>3, <2>4
<1>7. ASSUME NEW m \in Materials, NEW v \in {-1, 0}, EnterCount(c, m, v) PROVE StockInv'
  <2>1. count' = [count EXCEPT ![c] = [count[c] EXCEPT !.variance = [count[c].variance EXCEPT ![m] = v], !.entered = count[c].entered \cup {m}]]
    BY <1>1, <1>3, <1>7 DEF EnterCount, StockRows, CountRecord
  <2>2. v \in Int /\ count[c].entered \cup {m} \in SUBSET Materials
    BY <1>3 DEF CountRecord
  <2>3. QED
    BY <1>6, <1>7, <2>1, <2>2 DEF EnterCount
<1>8. ASSUME NEW m \in Materials, ClearCount(c, m) PROVE StockInv'
  <2>1. count' = [count EXCEPT ![c] = [count[c] EXCEPT !.variance = [count[c].variance EXCEPT ![m] = 0], !.entered = count[c].entered \ {m}]]
    BY <1>1, <1>3, <1>8 DEF ClearCount, StockRows, CountRecord
  <2>2. PICK E \in SUBSET Materials : E = count[c].entered \ {m}
    BY <1>3 DEF CountRecord
  <2>3. PICK v \in Int : v = 0
    OBVIOUS
  <2>4. /\ CountOpen(c) /\ CountFree(c) /\ m \in count[c].lines
        /\ UNCHANGED <<exists, stock, stockLedger, opened, moves, matLock, countLock, indent, clerk>>
    BY <1>8 DEF ClearCount
  <2>5. QED
    BY <1>6, <2>1, <2>2, <2>3, <2>4
<1>9. ASSUME NEW status \in {"SUBMITTED", "CANCELLED"}, CountOpen(c), CountFree(c),
             count' = [count EXCEPT ![c] = [count[c] EXCEPT !.status = status]],
             UNCHANGED <<exists, stock, stockLedger, opened, moves, matLock, countLock, indent, clerk>>
      PROVE  StockInv'
  <2>1. PICK new : new = [count[c] EXCEPT !.status = status]
    OBVIOUS
  <2>2. new \in CountRecord
    BY <1>3, <2>1 DEF CountRecord
  <2>3. new.lines = count[c].lines /\ new.entered = count[c].entered /\ new.status = status /\ new.posted = count[c].posted
    BY <1>3, <2>1 DEF CountRecord
  <2>4. QED
    BY <1>2, <1>3, <1>4, <1>9, <2>1, <2>2, <2>3
<1>10. SubmitCount(c) \/ CancelCount(c) => StockInv'
  BY <1>1, <1>9 DEF SubmitCount, CancelCount, CountOpen, StockRows
<1>11. QED
  BY <1>5, <1>7, <1>8, <1>10

\* Posting adjusts the balances by the variances of the count it has locked.
LEMMA PostKeeps ==
    ASSUME StockInv, NEW t \in Clerks
    PROVE  (\E c \in Counts : BeginPost(t, c)) \/ CommitPost(t) => StockInv'
<1>1. StockRows
  BY DEF StockInv
<1>2. ASSUME NEW c \in Counts, BeginPost(t, c) PROVE StockInv'
  <2>1. /\ CountOpen(c) /\ countLock[c] = "free" /\ countLock' = [countLock EXCEPT ![c] = t] /\ Take(t, "post", c, 0)
        /\ clerk' = [clerk EXCEPT ![t] = [op |-> "post", on |-> c, read |-> 0]]
        /\ UNCHANGED <<exists, stock, stockLedger, opened, moves, matLock, count, indent>>
    BY <1>2 DEF BeginPost, LockCount, CountFree, Take
  <2>2. StockRows'
    <3>1. [op |-> "post", on |-> c, read |-> 0] \in ClerkRecord
      BY ClerkRecords DEF ClerkOps
    <3>2. QED
      BY <1>1, <2>1, <3>1 DEF StockRows
  <2>3. UnbornEmpty' /\ Account'
    BY <2>1 DEF UnbornEmpty, Account, StockInv
  <2>4. CountsSound' /\ ShipsWhatExists'
    BY <2>1, CountsAside
  <2>5. clerk'[t].op = "post" /\ clerk'[t].on = c /\ countLock'[c] = t /\ count'[c] = count[c]
    BY <1>1, <2>1 DEF StockRows
  <2>6. ClerkHolds(t)'
    BY <2>1, <2>5 DEF ClerkHolds, CountOpen
  <2>7. (\A u \in Clerks : ClerkHolds(u))' /\ OpenedByOne'
    <3>1. \A d \in Counts : countLock[d] \in Clerks => countLock'[d] = countLock[d]
      BY <1>1, <2>1, StockAssumption DEF StockRows
    <3>2. "post" \in ClerkOps \ {"opening"}
      BY DEF ClerkOps
    <3>3. QED
      BY <2>1, <2>6, <3>1, <3>2, TakeKeeps
  <2>8. QED
    BY <2>2, <2>3, <2>4, <2>7 DEF StockInv
<1>3. ASSUME CommitPost(t) PROVE StockInv'
  <2>1. PICK c : c = clerk[t].on
    OBVIOUS
  <2>2. PICK delta : delta = [m \in Materials |-> IF m \in count[c].entered THEN count[c].variance[m] ELSE 0]
    OBVIOUS
  <2>3. clerk[t].op = "post" /\ c \in Counts /\ countLock[c] = t /\ CountOpen(c)
    BY <1>3, <2>1 DEF CommitPost, ClerkHolds, StockInv
  <2>4. count[c] \in CountRecord /\ count[c].entered \in SUBSET Materials /\ count[c].entered \subseteq exists
        /\ count[c].lines \subseteq exists /\ count[c].entered \subseteq count[c].lines
    BY <1>1, <2>3 DEF StockRows, CountsSound, StockInv, CountRecord
  <2>5. delta \in [Materials -> Int] /\ \A m \in Materials \ count[c].entered : delta[m] = 0
    BY <2>2, <2>4 DEF CountRecord
  <2>6. PICK new : new = [count[c] EXCEPT !.status = "POSTED", !.posted = [m \in Materials |-> count[c].posted[m] + delta[m]]]
    OBVIOUS
  <2>7. count' = [count EXCEPT ![c] = new]
    BY <1>1, <1>3, <2>1, <2>2, <2>3, <2>6 DEF CommitPost, StockRows, CountRecord
  <2>8. /\ Free(count[c].entered) /\ Book(delta) /\ Release(t) /\ UNCHANGED <<exists, opened, indent>>
    BY <1>3, <2>1, <2>2 DEF CommitPost
  <2>9. /\ stock' \in [Materials -> Int] /\ stockLedger' \in [Materials -> Int] /\ moves' \in Nat
        /\ UnbornEmpty' /\ Account'
        /\ \A u \in Clerks : clerk[u].op = "receipt" => stock'[clerk[u].on] = stock[clerk[u].on]
    BY <2>4, <2>5, <2>8, BookMoves
  <2>10. /\ new.status = "POSTED" /\ new.lines = count[c].lines /\ new.entered = count[c].entered
         /\ new.variance = count[c].variance /\ new.posted = [m \in Materials |-> count[c].posted[m] + delta[m]]
    BY <2>4, <2>6 DEF CountRecord
  <2>11. new.posted = delta
    <3>1. count[c].posted = Uncounted
      BY <2>3 DEF CountOpen, CountsSound, StockInv, Posted, Uncounted
    <3>2. new.posted = [m \in Materials |-> 0 + delta[m]]
      BY <2>10, <3>1 DEF Uncounted
    <3>3. QED
      BY <2>5, <3>2
  <2>12. new \in CountRecord
    BY <2>4, <2>5, <2>6, <2>10, <2>11 DEF CountRecord
  <2>13. StockRows'
    BY <1>1, <2>7, <2>8, <2>9, <2>12, ReleaseFrees DEF StockRows
  <2>14. count'[c] = new /\ \A d \in Counts \ {c} : count'[d] = count[d]
    BY <1>1, <2>3, <2>7 DEF StockRows
  <2>15. CountsSound' /\ ShipsWhatExists'
    <3>1. Posted(c)' = delta
      BY <2>2, <2>10, <2>14 DEF Posted
    <3>2. \A d \in Counts \ {c} : Posted(d)' = Posted(d)
      BY <2>14 DEF Posted
    <3>3. CountsSound'
      BY <2>4, <2>8, <2>10, <2>11, <2>14, <3>1, <3>2 DEF CountsSound, StockInv
    <3>4. QED
      BY <2>8, <3>3 DEF ShipsWhatExists, StockInv
  <2>16. ASSUME NEW u \in Clerks \ {t} PROVE Spared(u)
    <3>1. clerk[u].op = "post" => clerk[u].on \in Counts \ {c} /\ count[clerk[u].on].status \in {"COUNTING", "SUBMITTED"}
      BY <2>3 DEF StockInv, ClerkHolds, CountOpen
    <3>2. clerk[u].op = "post" => count'[clerk[u].on].status \in {"COUNTING", "SUBMITTED"}
      BY <2>14, <3>1
    <3>3. QED
      BY <2>8, <2>9, <3>2, EndSpares
  <2>17. (\A u \in Clerks : ClerkHolds(u))' /\ OpenedByOne'
    BY <2>8, <2>16, EndKeeps
  <2>18. QED
    BY <2>9, <2>13, <2>15, <2>17 DEF StockInv
<1>4. QED
  BY <1>2, <1>3

\* A committed request of the central kitchen moves one unit of a material.
LEMMA TransferKeeps ==
    ASSUME StockInv, NEW t \in Clerks, NEW m \in Materials, NEW n \in Int, Free({m}), Book(Only({m}, n)),
           exists \cup {m} = exists', NEW i \in Indents, NEW status \in {"DISPATCHED", "RECEIVED"}, ShipFrom \in exists,
           indent' = [indent EXCEPT ![i] = status], Release(t), UNCHANGED <<opened, count>>
    PROVE  StockInv'
<1>1. StockRows
  BY DEF StockInv
<1>2. PICK delta \in [Materials -> Int] : delta = Only({m}, n)
  BY OnlyMoves
<1>3. Book(delta) /\ \A x \in Materials \ {m} : delta[x] = 0
  BY <1>2, OnlyMoves
<1>4. exists \subseteq exists' /\ {m} \subseteq exists' /\ {m} \in SUBSET Materials
  OBVIOUS
<1>5. /\ stock' \in [Materials -> Int] /\ stockLedger' \in [Materials -> Int] /\ moves' \in Nat
      /\ UnbornEmpty' /\ Account'
      /\ \A u \in Clerks : clerk[u].op = "receipt" => stock'[clerk[u].on] = stock[clerk[u].on]
  BY <1>3, <1>4, BookMoves
<1>6. StockRows'
  BY <1>1, <1>5, ReleaseFrees DEF StockRows
<1>7. CountsSound' /\ ShipsWhatExists'
  <2>1. \A c \in Counts : Posted(c)' = Posted(c)
    BY DEF Posted
  <2>2. QED
    BY <1>4, <2>1 DEF CountsSound, ShipsWhatExists, StockInv
<1>8. ASSUME NEW u \in Clerks \ {t} PROVE Spared(u)
  <2>1. clerk[u].op = "post" => count[clerk[u].on].status \in {"COUNTING", "SUBMITTED"}
    BY DEF StockInv, ClerkHolds, CountOpen
  <2>2. QED
    BY <1>5, <2>1, EndSpares
<1>9. (\A u \in Clerks : ClerkHolds(u))' /\ OpenedByOne'
  BY <1>4, <1>8, EndKeeps
<1>10. QED
  BY <1>5, <1>6, <1>7, <1>9 DEF StockInv

\* A new indent asks for a material that exists.
LEMMA CreatingKeeps ==
    ASSUME StockInv, NEW i \in Indents, CreateIndent(i)
    PROVE  StockInv'
<1>1. StockRows' /\ ShipsWhatExists' /\ UnbornEmpty' /\ Account'
  BY DEF CreateIndent, StockRows, ShipsWhatExists, UnbornEmpty, Account, StockInv
<1>2. CountsSound'
  <2>1. \A c \in Counts : Posted(c)' = Posted(c)
    BY DEF Posted, CreateIndent
  <2>2. QED
    BY <2>1 DEF CountsSound, StockInv, CreateIndent
<1>3. (\A u \in Clerks : ClerkHolds(u))' /\ OpenedByOne'
  BY AsideKeeps DEF CreateIndent
<1>4. QED
  BY <1>1, <1>2, <1>3 DEF StockInv

\* Indents ship a material that exists, and create its namesake where it arrives.
LEMMA IndentKeeps ==
    ASSUME StockInv, NEW t \in Clerks
    PROVE  (\/ \E i \in Indents : ReadIndent(t, i)
            \/ CommitDispatch(t) \/ CommitTransferIn(t) \/ StockFail(t)) => StockInv'
<1>1. StockRows
  BY DEF StockInv
<1>2. ASSUME NEW i \in Indents, ReadIndent(t, i) PROVE StockInv'
  <2>1. PICK op \in {"dispatch", "receive"} : Take(t, op, i, 0) /\ indent[i] # "none"
    BY <1>2 DEF ReadIndent
  <2>2. /\ clerk' = [clerk EXCEPT ![t] = [op |-> op, on |-> i, read |-> 0]]
        /\ UNCHANGED <<exists, stock, stockLedger, opened, moves, matLock, count, countLock, indent>>
    BY <1>2, <2>1 DEF ReadIndent, Take
  <2>3. StockRows'
    <3>1. [op |-> op, on |-> i, read |-> 0] \in ClerkRecord
      BY ClerkRecords DEF ClerkOps
    <3>2. QED
      BY <1>1, <2>2, <3>1 DEF StockRows
  <2>4. UnbornEmpty' /\ Account'
    BY <2>2 DEF UnbornEmpty, Account, StockInv
  <2>5. CountsSound' /\ ShipsWhatExists'
    BY <2>2, CountsAside
  <2>6. clerk'[t].op = op /\ clerk'[t].on = i
    BY <1>1, <2>2 DEF StockRows
  <2>7. ClerkHolds(t)'
    BY <2>1, <2>2, <2>6 DEF ClerkHolds, ShipsWhatExists, StockInv
  <2>8. (\A u \in Clerks : ClerkHolds(u))' /\ OpenedByOne'
    <3>1. op \in ClerkOps \ {"opening"}
      BY DEF ClerkOps
    <3>2. QED
      BY <2>1, <2>2, <2>7, <3>1, TakeKeeps
  <2>9. QED
    BY <2>3, <2>4, <2>5, <2>8 DEF StockInv
<1>3. ASSUME CommitDispatch(t) PROVE StockInv'
  <2>1. clerk[t].on \in Indents /\ ShipFrom \in exists
    BY <1>3 DEF CommitDispatch, ClerkHolds, StockInv
  <2>2. exists \cup {ShipFrom} = exists'
    BY <1>3, <2>1 DEF CommitDispatch
  <2>3. PICK m \in Materials, n \in Int, i \in Indents : m = ShipFrom /\ n = -1 /\ i = clerk[t].on
    BY <2>1, StockAssumption
  <2>4. QED
    BY <1>3, <2>1, <2>2, <2>3, TransferKeeps DEF CommitDispatch
<1>4. ASSUME CommitTransferIn(t) PROVE StockInv'
  <2>1. clerk[t].on \in Indents
    BY <1>4 DEF CommitTransferIn, ClerkHolds, StockInv
  <2>2. ShipFrom \in exists
    BY <1>4, <2>1 DEF CommitTransferIn, ClerkHolds, StockInv
  <2>3. PICK m \in Materials, n \in Int, i \in Indents : m = ShipTo /\ n = 1 /\ i = clerk[t].on
    BY <2>1, StockAssumption
  <2>4. QED
    BY <1>4, <2>2, <2>3, TransferKeeps DEF CommitTransferIn
<1>5. ASSUME StockFail(t) PROVE StockInv'
  <2>1. Release(t) /\ UNCHANGED <<exists, stock, stockLedger, opened, moves, count, indent>>
    BY <1>5 DEF StockFail
  <2>2. StockRows'
    BY <1>1, <2>1, ReleaseFrees DEF StockRows
  <2>3. UnbornEmpty' /\ Account'
    BY <2>1 DEF UnbornEmpty, Account, StockInv
  <2>4. CountsSound' /\ ShipsWhatExists'
    BY <2>1, CountsAside
  <2>5. ASSUME NEW u \in Clerks \ {t} PROVE Spared(u)
    <3>1. clerk[u].op = "post" => count[clerk[u].on].status \in {"COUNTING", "SUBMITTED"}
      BY DEF StockInv, ClerkHolds, CountOpen
    <3>2. QED
      BY <2>1, <3>1, EndSpares
  <2>6. (\A u \in Clerks : ClerkHolds(u))' /\ OpenedByOne'
    BY <2>1, <2>5, EndKeeps
  <2>7. QED
    BY <2>2, <2>3, <2>4, <2>6 DEF StockInv
<1>6. QED
  BY <1>2, <1>3, <1>4, <1>5

\* Whatever request runs, the books of stock keep what they say.
LEMMA StockKeeps == StockInv /\ [StockNext]_stockVars => StockInv'
<1>1. ASSUME StockInv, UNCHANGED stockVars PROVE StockInv'
  <2>1. UNCHANGED <<exists, stock, stockLedger, opened, moves, matLock, count, countLock, indent, clerk>>
    BY <1>1 DEF stockVars
  <2>2. StockRows' /\ UnbornEmpty' /\ Account'
    BY <1>1, <2>1 DEF StockRows, UnbornEmpty, Account, StockInv
  <2>3. CountsSound' /\ ShipsWhatExists'
    BY <1>1, <2>1, CountsAside
  <2>4. (\A u \in Clerks : ClerkHolds(u))' /\ OpenedByOne'
    BY <1>1, <2>1, AsideKeeps
  <2>5. QED
    BY <2>2, <2>3, <2>4 DEF StockInv
<1>2. ASSUME StockInv, NEW m \in Materials, RecordWastage(m) PROVE StockInv'
  <2>1. PICK M \in SUBSET Materials : M = {m}
    OBVIOUS
  <2>2. Consume(M)
    BY <1>2, <2>1 DEF RecordWastage, Consume
  <2>3. QED
    BY <1>2, <2>2, TakingKeeps
<1>3. ASSUME StockInv, NEW t \in Clerks,
             \/ \E m \in Materials : CreateMaterial(t, m) \/ (StockOpen /\ BeginReceipt(t, m))
             \/ \E m \in DOMAIN Prep : StockOpen /\ BeginBatch(t, m)
             \/ \E c \in Counts : StockOpen /\ BeginPost(t, c)
             \/ \E i \in Indents : ReadIndent(t, i)
             \/ WriteOpening(t) \/ CommitReceipt(t) \/ CommitBatch(t) \/ CommitPost(t)
             \/ CommitDispatch(t) \/ CommitTransferIn(t) \/ StockFail(t)
      PROVE  StockInv'
  <2>1. CASE (\E m \in Materials : CreateMaterial(t, m)) \/ WriteOpening(t)
    BY <1>3, <2>1, OpeningKeeps
  <2>2. CASE (\E m \in Materials : BeginReceipt(t, m)) \/ CommitReceipt(t)
    BY <1>3, <2>2, ReceiptKeeps
  <2>3. CASE (\E m \in DOMAIN Prep : BeginBatch(t, m)) \/ CommitBatch(t)
    BY <1>3, <2>3, BatchKeeps
  <2>4. CASE (\E c \in Counts : BeginPost(t, c)) \/ CommitPost(t)
    BY <1>3, <2>4, PostKeeps
  <2>5. CASE (\E i \in Indents : ReadIndent(t, i)) \/ CommitDispatch(t) \/ CommitTransferIn(t) \/ StockFail(t)
    BY <1>3, <2>5, IndentKeeps
  <2>6. QED
    BY <1>3, <2>1, <2>2, <2>3, <2>4, <2>5
<1>4. ASSUME StockInv, NEW c \in Counts,
             \/ \E M \in SUBSET Materials : StartCount(c, M)
             \/ \E m \in Materials, v \in {-1, 0} : EnterCount(c, m, v)
             \/ \E m \in Materials : ClearCount(c, m)
             \/ SubmitCount(c) \/ CancelCount(c)
      PROVE  StockInv'
  BY <1>4, CountingKeeps
<1>5. ASSUME StockInv, NEW i \in Indents, CreateIndent(i) PROVE StockInv'
  BY <1>5, CreatingKeeps
<1>6. QED
  BY <1>1, <1>2, <1>3, <1>4, <1>5, TakingKeeps DEF StockNext

\* Before the first request the stock is the opening balance.
LEMMA StockStarts == StockInit => StockInv
<1> SUFFICES ASSUME StockInit PROVE StockInv
  OBVIOUS
<1> USE StockAssumption
<1>1. /\ exists = Stocked /\ moves = 0 /\ stockLedger = stock
      /\ stock = [m \in Materials |-> IF m \in Stocked THEN 1 ELSE 0]
      /\ opened = [m \in Materials |-> TRUE] /\ matLock = [m \in Materials |-> "free"]
      /\ count = [c \in Counts |-> NoCount] /\ countLock = [c \in Counts |-> "free"]
      /\ indent = [i \in Indents |-> "none"] /\ clerk = [t \in Clerks |-> ClerkIdle]
  BY DEF StockInit
<1>2. NoCount \in CountRecord /\ ClerkIdle \in ClerkRecord
  BY DEF NoCount, CountRecord, ClerkIdle, ClerkRecord, ClerkOps, Uncounted
<1>3. StockRows
  BY <1>1, <1>2 DEF StockRows
<1>4. UnbornEmpty /\ Account /\ ShipsWhatExists
  BY <1>1 DEF UnbornEmpty, Account, ShipsWhatExists
<1>5. CountsSound
  BY <1>1 DEF CountsSound, NoCount, Posted, Uncounted
<1>6. \A t \in Clerks : clerk[t].op = "idle"
  BY <1>1 DEF ClerkIdle
<1>7. QED
  BY <1>3, <1>4, <1>5, <1>6 DEF StockInv, OpenedByOne, ClerkHolds

\* What the invariant says of balances and counts.
LEMMA StockPromises == StockInv => StockTypeOK /\ StockSound
<1> SUFFICES ASSUME StockInv PROVE StockTypeOK /\ StockSound
  OBVIOUS
<1>1. StockTypeOK
  BY DEF StockInv, StockRows, StockTypeOK, CountsSound, CountRecord
<1>2. BalanceExplained
  <2>1. ASSUME NEW m \in exists \ DOMAIN Prep, opened[m] PROVE stock[m] = stockLedger[m]
    BY <2>1 DEF Account, StockInv, StockRows
  <2>2. QED
    BY <2>1 DEF BalanceExplained
<1>3. CountPostsOnce
  BY DEF StockInv, CountsSound, Posted, CountPostsOnce
<1>4. QED
  BY <1>1, <1>2, <1>3 DEF StockSound

\* Receipts, sales, wastage, transfers and counts that overlap (inventory.service.ts,
\* stocktake.service.ts, central-kitchen.service.ts) lose no movement to each other, of
\* materials no batch is produced of, and a count corrects the stock once.
THEOREM StockCorrect == StockSpec => [](StockTypeOK /\ StockSound)
BY StockStarts, StockKeeps, StockPromises, PTL DEF StockSpec

----------------------------------------------------------------------------
(* E-invoices. *)

\* What a request was answered is still so at the portal, which takes nothing back.
AnswerTrue(f) ==
    /\ filer[f] \in {"store", "storeEwb"} => irp.irn # "NONE"
    /\ filer[f] \in {"storeEwb", "ewayed"} => irp.ewb
    /\ filer[f] \in {"cancel", "cancelled"} => inv.irn
    /\ filer[f] = "cancelled" => irp.irn = "CANCELLED"

\* Only an invoice that has its IRN is cancelled, and a cancellation given up on is lost.
CancelsKnown ==
    /\ irp.irn = "CANCELLED" => inv.irn
    /\ "cancel" \in posted => inv.irn /\ lostCancel

EInvInv == EInvTypeOK /\ RowBehindPortal /\ StaleInvoiceExplained /\ CancelsKnown /\ \A f \in Filers : AnswerTrue(f)

\* The portal only goes forward.
PortalAdvances == (irp.irn # "NONE" => irp'.irn # "NONE") /\ (irp.irn = "CANCELLED" => irp'.irn = "CANCELLED") /\ (irp.ewb => irp'.ewb)

\* A request that the step leaves alone keeps its answer.
LEMMA AnswersStay ==
    ASSUME EInvInv, PortalAdvances, inv.irn => inv'.irn, NEW f \in Filers, filer'[f] = filer[f]
    PROVE  AnswerTrue(f)'
BY DEF EInvInv, AnswerTrue, PortalAdvances

\* What an accepted call does at the portal.
LEMMA PortalTakes ==
    ASSUME EInvTypeOK, NEW call \in PortalCalls, Accepts(call), irp' = Effect(call)
    PROVE  /\ irp' \in [irn : {"NONE", "ACTIVE", "CANCELLED"}, ewb : BOOLEAN] /\ PortalAdvances
           /\ call = "irn" => irp'.irn = "ACTIVE" /\ irp'.ewb = irp.ewb
           /\ call = "cancel" => irp'.irn = "CANCELLED" /\ irp'.ewb = irp.ewb
           /\ call = "eway" => irp'.irn = irp.irn /\ irp'.ewb
BY DEF EInvTypeOK, PortalCalls, Accepts, Effect, PortalAdvances

\* No step leaves the row ahead of the portal, or a cancellation unexplained.
LEMMA EInvKeeps == EInvInv /\ [EInvNext]_einvVars => EInvInv'
<1> SUFFICES ASSUME EInvInv, [EInvNext]_einvVars PROVE EInvInv'
  OBVIOUS
<1>1. EInvTypeOK /\ filer \in [Filers -> {"idle", "irn", "lookup", "store", "storeEwb", "cancel", "cancelled", "eway", "ewayed"}]
  BY DEF EInvInv, EInvTypeOK
<1>2. ASSUME NEW f \in Filers, NEW at, Goto(f, at) PROVE filer'[f] = at /\ \A g \in Filers \ {f} : filer'[g] = filer[g]
  BY <1>1, <1>2 DEF Goto
\* a request that only moves on
<1>3. ASSUME NEW f \in Filers, NEW at \in {"idle", "irn", "lookup", "store", "storeEwb", "cancel", "eway"}, Goto(f, at),
             (at \in {"store", "storeEwb"} => irp.irn # "NONE"), (at = "storeEwb" => irp.ewb), (at = "cancel" => inv.irn),
             (filer[f] = "cancelled" => lostCancel'), posted' \subseteq PortalCalls, lostCancel' \in BOOLEAN, (lostCancel => lostCancel'),
             ("cancel" \in posted' => inv.irn /\ lostCancel'), UNCHANGED <<inv, irp, crossed>>
      PROVE  EInvInv'
  <2>1. filer'[f] = at /\ \A g \in Filers \ {f} : filer'[g] = filer[g]
    BY <1>2, <1>3
  <2>2. EInvTypeOK'
    BY <1>1, <1>3 DEF EInvTypeOK, Goto
  <2>3. RowBehindPortal' /\ CancelsKnown'
    BY <1>3 DEF EInvInv, RowBehindPortal, CancelsKnown
  <2>4. StaleInvoiceExplained'
    BY <1>3, <2>1 DEF EInvInv, StaleInvoiceExplained
  <2>5. \A g \in Filers \ {f} : AnswerTrue(g)'
    BY <1>3, <2>1 DEF EInvInv, AnswerTrue
  <2>6. AnswerTrue(f)'
    BY <1>3, <2>1 DEF AnswerTrue
  <2>7. QED
    BY <2>2, <2>3, <2>4, <2>5, <2>6 DEF EInvInv
<1>4. ASSUME NEW f \in Filers, Begin(f) PROVE EInvInv'
  <2>1. PICK at \in {"irn", "cancel", "eway"} : Goto(f, at) /\ filer[f] = "idle" /\ (at = "cancel" => inv.irn)
    BY <1>4 DEF Begin, BeginIrn, BeginCancel, BeginEway
  <2>2. UNCHANGED <<inv, irp, posted, lostCancel, crossed>>
    BY <1>4 DEF Begin
  <2>3. /\ posted' \subseteq PortalCalls /\ lostCancel' \in BOOLEAN /\ (lostCancel => lostCancel')
        /\ ("cancel" \in posted' => inv.irn /\ lostCancel') /\ filer[f] # "cancelled"
    BY <1>1, <2>1, <2>2 DEF EInvInv, EInvTypeOK, CancelsKnown
  <2>4. at \in {"idle", "irn", "lookup", "store", "storeEwb", "cancel", "eway"} /\ at \notin {"store", "storeEwb"}
    BY <2>1
  <2>5. QED
    BY <1>3, <2>1, <2>2, <2>3, <2>4
<1>5. ASSUME NEW f \in Filers, Refused(f) PROVE EInvInv'
  <2>1. PICK at \in {"idle", "lookup"} : Goto(f, at) /\ filer[f] # "cancelled"
    BY <1>5 DEF Refused, AfterRefusal, PortalCalls
  <2>2. UNCHANGED <<inv, irp, posted, lostCancel, crossed>>
    BY <1>5 DEF Refused
  <2>3. /\ posted' \subseteq PortalCalls /\ lostCancel' \in BOOLEAN /\ (lostCancel => lostCancel')
        /\ ("cancel" \in posted' => inv.irn /\ lostCancel') /\ filer[f] # "cancelled"
    BY <1>1, <2>1, <2>2 DEF EInvInv, EInvTypeOK, CancelsKnown
  <2>4. QED
    BY <1>3, <2>1, <2>2, <2>3
<1>6. ASSUME NEW f \in Filers, TimedOut(f) PROVE EInvInv'
  <2>1. PICK at \in {"idle", "lookup"} : Goto(f, at) /\ filer[f] # "cancelled"
    BY <1>6 DEF TimedOut, AfterSilence, PortalCalls
  <2>2. /\ posted' = posted \cup {filer[f]} /\ filer[f] \in PortalCalls /\ lostCancel' = (lostCancel \/ filer[f] = "cancel")
        /\ UNCHANGED <<inv, irp, crossed>>
    BY <1>6 DEF TimedOut
  <2>3. "cancel" \in posted' => inv.irn /\ lostCancel'
    BY <2>2 DEF EInvInv, CancelsKnown, AnswerTrue
  <2>4. posted' \subseteq PortalCalls /\ lostCancel' \in BOOLEAN /\ (lostCancel => lostCancel')
    BY <1>1, <2>2 DEF EInvTypeOK
  <2>5. QED
    BY <1>3, <2>1, <2>2, <2>3, <2>4
<1>7. ASSUME NEW f \in Filers, FilerCrash(f) PROVE EInvInv'
  <2>1. /\ posted' = posted \cup ({filer[f]} \cap PortalCalls) /\ lostCancel' = (lostCancel \/ filer[f] \in {"cancel", "cancelled"})
        /\ Goto(f, "idle") /\ UNCHANGED <<inv, irp, crossed>>
    BY <1>7 DEF FilerCrash
  <2>2. "cancel" \in posted' => inv.irn /\ lostCancel'
    BY <2>1 DEF EInvInv, CancelsKnown, AnswerTrue
  <2>3. posted' \subseteq PortalCalls /\ lostCancel' \in BOOLEAN /\ (lostCancel => lostCancel') /\ (filer[f] = "cancelled" => lostCancel')
    BY <1>1, <2>1 DEF EInvTypeOK
  <2>4. QED
    BY <1>3, <2>1, <2>2, <2>3
<1>8. ASSUME NEW f \in Filers, LookUp(f) PROVE EInvInv'
  <2>1. PICK at \in {"idle", "store", "storeEwb"} :
            /\ Goto(f, at) /\ filer[f] # "cancelled"
            /\ (at \in {"store", "storeEwb"} => irp.irn # "NONE") /\ (at = "storeEwb" => irp.ewb)
    BY <1>8 DEF LookUp
  <2>2. UNCHANGED <<inv, irp, posted, lostCancel, crossed>>
    BY <1>8 DEF LookUp
  <2>3. /\ posted' \subseteq PortalCalls /\ lostCancel' \in BOOLEAN /\ (lostCancel => lostCancel')
        /\ ("cancel" \in posted' => inv.irn /\ lostCancel') /\ filer[f] # "cancelled"
    BY <1>1, <2>1, <2>2 DEF EInvInv, EInvTypeOK, CancelsKnown
  <2>4. QED
    BY <1>3, <2>1, <2>2, <2>3
<1>9. ASSUME NEW f \in Filers, Answered(f) PROVE EInvInv'
  <2>1. PICK call \in PortalCalls : call = filer[f]
    BY <1>9 DEF Answered
  <2>2. /\ Accepts(call) /\ irp' = Effect(call) /\ Goto(f, AfterAnswer(call)) /\ UNCHANGED <<inv, posted, lostCancel, crossed>>
    BY <1>9, <2>1 DEF Answered
  <2>3. /\ irp' \in [irn : {"NONE", "ACTIVE", "CANCELLED"}, ewb : BOOLEAN] /\ PortalAdvances
        /\ call = "irn" => irp'.irn = "ACTIVE" /\ irp'.ewb = irp.ewb
        /\ call = "cancel" => irp'.irn = "CANCELLED" /\ irp'.ewb = irp.ewb
        /\ call = "eway" => irp'.irn = irp.irn /\ irp'.ewb
    BY <1>1, <2>2, PortalTakes
  <2>4. filer'[f] = AfterAnswer(call) /\ \A g \in Filers \ {f} : filer'[g] = filer[g]
    BY <1>2, <2>2
  <2>5. call = "cancel" => inv.irn
    BY <2>1 DEF EInvInv, AnswerTrue
  <2>6. EInvTypeOK'
    BY <1>1, <2>2, <2>3 DEF EInvTypeOK, Goto, AfterAnswer, PortalCalls
  <2>7. RowBehindPortal' /\ CancelsKnown'
    BY <2>2, <2>3, <2>5 DEF EInvInv, RowBehindPortal, CancelsKnown, PortalAdvances, PortalCalls
  <2>8. StaleInvoiceExplained'
    BY <2>1, <2>2, <2>3, <2>4 DEF EInvInv, StaleInvoiceExplained, AfterAnswer, PortalCalls
  <2>9. \A g \in Filers \ {f} : AnswerTrue(g)'
    BY <2>2, <2>3, <2>4, AnswersStay
  <2>10. AnswerTrue(f)'
    <3>1. call = "eway" => irp.irn # "NONE"
      BY <2>2 DEF Accepts
    <3>2. CASE call = "irn"
      BY <2>3, <2>4, <3>2 DEF AnswerTrue, AfterAnswer
    <3>3. CASE call = "cancel"
      BY <2>2, <2>3, <2>4, <2>5, <3>3 DEF AnswerTrue, AfterAnswer
    <3>4. CASE call = "eway"
      BY <2>3, <2>4, <3>4 DEF AnswerTrue, AfterAnswer
    <3>5. QED
      BY <3>2, <3>3, <3>4 DEF PortalCalls
  <2>11. QED
    BY <2>6, <2>7, <2>8, <2>9, <2>10 DEF EInvInv
<1>10. ASSUME NEW call \in PortalCalls, Late(call) PROVE EInvInv'
  <2>1. /\ call \in posted /\ posted' = posted \ {call} /\ UNCHANGED <<inv, lostCancel, crossed, filer>>
        /\ irp' = irp \/ (Accepts(call) /\ irp' = Effect(call))
    BY <1>10 DEF Late
  <2>2. call = "cancel" => inv.irn /\ lostCancel
    BY <2>1 DEF EInvInv, CancelsKnown
  <2>3. /\ irp' \in [irn : {"NONE", "ACTIVE", "CANCELLED"}, ewb : BOOLEAN] /\ PortalAdvances
        /\ irp'.irn = "CANCELLED" => irp.irn = "CANCELLED" \/ call = "cancel"
    <3>1. CASE irp' = irp
      BY <1>1, <3>1 DEF EInvTypeOK, PortalAdvances
    <3>2. CASE Accepts(call) /\ irp' = Effect(call)
      BY <1>1, <3>2, PortalTakes DEF PortalCalls
    <3>3. QED
      BY <2>1, <3>1, <3>2
  <2>4. EInvTypeOK'
    BY <1>1, <2>1, <2>3 DEF EInvTypeOK
  <2>5. RowBehindPortal' /\ CancelsKnown' /\ StaleInvoiceExplained'
    BY <2>1, <2>2, <2>3 DEF EInvInv, RowBehindPortal, CancelsKnown, StaleInvoiceExplained, PortalAdvances
  <2>6. \A g \in Filers : AnswerTrue(g)'
    BY <2>1, <2>3, AnswersStay
  <2>7. QED
    BY <2>4, <2>5, <2>6 DEF EInvInv
<1>11. ASSUME NEW f \in Filers, StoreIrn(f) PROVE EInvInv'
  <2>1. /\ filer[f] \in {"store", "storeEwb"} /\ inv' = [irn |-> TRUE, status |-> "GENERATED", ewb |-> filer[f] = "storeEwb"]
        /\ crossed' = (crossed \/ inv.irn) /\ Goto(f, "idle") /\ UNCHANGED <<irp, posted, lostCancel>>
    BY <1>11 DEF StoreIrn
  <2>2. inv'.irn /\ inv'.status = "GENERATED" /\ (inv'.ewb <=> filer[f] = "storeEwb")
    BY <2>1
  <2>3. filer'[f] = "idle" /\ \A g \in Filers \ {f} : filer'[g] = filer[g]
    BY <1>2, <2>1
  <2>4. EInvTypeOK'
    BY <1>1, <2>1 DEF EInvTypeOK, Goto
  <2>5. RowBehindPortal' /\ CancelsKnown'
    BY <2>1, <2>2 DEF EInvInv, RowBehindPortal, CancelsKnown, AnswerTrue
  <2>6. StaleInvoiceExplained'
    BY <2>1, <2>2 DEF EInvInv, StaleInvoiceExplained, CancelsKnown
  <2>7. \A g \in Filers : AnswerTrue(g)'
    BY <2>1, <2>2, <2>3, AnswersStay DEF AnswerTrue, PortalAdvances
  <2>8. QED
    BY <2>4, <2>5, <2>6, <2>7 DEF EInvInv
<1>12. ASSUME NEW f \in Filers, StoreCancel(f) PROVE EInvInv'
  <2>1. /\ filer[f] = "cancelled" /\ inv' = [inv EXCEPT !.status = "CANCELLED"] /\ Goto(f, "idle") /\ UNCHANGED <<irp, posted, lostCancel, crossed>>
    BY <1>12 DEF StoreCancel
  <2>2. inv'.irn = inv.irn /\ inv'.ewb = inv.ewb /\ inv'.status = "CANCELLED"
    BY <1>1, <2>1 DEF EInvTypeOK
  <2>3. filer'[f] = "idle" /\ \A g \in Filers \ {f} : filer'[g] = filer[g]
    BY <1>2, <2>1
  <2>4. EInvTypeOK'
    BY <1>1, <2>1 DEF EInvTypeOK, Goto
  <2>5. RowBehindPortal' /\ CancelsKnown' /\ StaleInvoiceExplained'
    BY <2>1, <2>2 DEF EInvInv, RowBehindPortal, CancelsKnown, AnswerTrue, StaleInvoiceExplained
  <2>6. \A g \in Filers : AnswerTrue(g)'
    BY <2>1, <2>2, <2>3, AnswersStay DEF AnswerTrue, PortalAdvances
  <2>7. QED
    BY <2>4, <2>5, <2>6 DEF EInvInv
<1>13. ASSUME NEW f \in Filers, StoreEway(f) PROVE EInvInv'
  <2>1. /\ filer[f] = "ewayed" /\ inv' = [inv EXCEPT !.ewb = TRUE] /\ Goto(f, "idle") /\ UNCHANGED <<irp, posted, lostCancel, crossed>>
    BY <1>13 DEF StoreEway
  <2>2. inv'.irn = inv.irn /\ inv'.ewb /\ inv'.status = inv.status
    BY <1>1, <2>1 DEF EInvTypeOK
  <2>3. filer'[f] = "idle" /\ \A g \in Filers \ {f} : filer'[g] = filer[g]
    BY <1>2, <2>1
  <2>4. EInvTypeOK'
    BY <1>1, <2>1 DEF EInvTypeOK, Goto
  <2>5. RowBehindPortal' /\ CancelsKnown' /\ StaleInvoiceExplained'
    <3>1. irp.ewb
      BY <2>1 DEF EInvInv, AnswerTrue
    <3>2. QED
      BY <2>1, <2>2, <2>3, <3>1 DEF EInvInv, RowBehindPortal, CancelsKnown, StaleInvoiceExplained
  <2>6. \A g \in Filers : AnswerTrue(g)'
    BY <2>1, <2>2, <2>3, AnswersStay DEF AnswerTrue, PortalAdvances
  <2>7. QED
    BY <2>4, <2>5, <2>6 DEF EInvInv
<1>14. CASE UNCHANGED einvVars
  <2>1. UNCHANGED <<inv, irp, posted, lostCancel, crossed, filer>>
    BY <1>14 DEF einvVars
  <2>2. EInvTypeOK' /\ RowBehindPortal' /\ CancelsKnown' /\ StaleInvoiceExplained'
    BY <2>1 DEF EInvInv, EInvTypeOK, RowBehindPortal, CancelsKnown, StaleInvoiceExplained
  <2>3. \A g \in Filers : AnswerTrue(g)'
    BY <2>1, AnswersStay DEF PortalAdvances
  <2>4. QED
    BY <2>2, <2>3 DEF EInvInv
<1>15. QED
  BY <1>4, <1>5, <1>6, <1>7, <1>8, <1>9, <1>10, <1>11, <1>12, <1>13, <1>14 DEF EInvNext

\* A bill begins without an e-invoice.
LEMMA EInvStarts == EInvInit => EInvInv
<1> SUFFICES ASSUME EInvInit PROVE EInvInv
  OBVIOUS
<1>1. /\ ~inv.irn /\ inv.status = "PENDING" /\ ~inv.ewb /\ irp.irn = "NONE" /\ ~irp.ewb /\ posted = {}
      /\ \A f \in Filers : filer[f] = "idle"
  BY DEF EInvInit
<1>2. EInvTypeOK
  BY DEF EInvInit, EInvTypeOK
<1>3. QED
  BY <1>1, <1>2 DEF EInvInv, RowBehindPortal, StaleInvoiceExplained, CancelsKnown, AnswerTrue

\* However generations, cancellations and e-way bills of invoices.service.ts race, time
\* out and die, the row never claims more than the portal holds, and shows a cancelled
\* invoice as generated in the three ways the property names only.
THEOREM InvoicesCorrect == EInvSpec => [](EInvTypeOK /\ InvoicesSound)
<1>1. EInvInv => EInvTypeOK /\ InvoicesSound
  BY DEF EInvInv, InvoicesSound
<1>2. QED
  BY <1>1, EInvStarts, EInvKeeps, PTL DEF EInvSpec

----------------------------------------------------------------------------
(* Purchase orders and payables. *)

PoRecord == [status : PoStatuses, ordered : Quantities, received : [PoLines -> Nat]]
GrnRecord == [number : Nat, po : POs, by : Buyers, qty : Quantities]
BillRecord == [status : {"NONE", "OPEN", "PARTIAL", "PAID", "VOID"}, paid : 0 .. BillAmount]
GrnsOf(p) == {g \in grns : g.po = p}
QtyOf(l) == [g \in GrnRecord |-> g.qty[l]]

ProcureRows ==
    /\ tolerance \in 0 .. MaxTolerance
    /\ po \in [POs -> PoRecord] /\ poLock \in [POs -> Buyers \cup {None}]
    /\ grns \in SUBSET GrnRecord /\ IsFiniteSet(grns) /\ grnLock \in Buyers \cup {None}
    /\ supBill \in [SupplierBills -> BillRecord] /\ billLock \in [SupplierBills -> Buyers \cup {None}]
    /\ allocated \in [SupplierBills -> Nat] /\ unlockedPay \in SUBSET SupplierBills
    /\ DOMAIN buyer = Buyers /\ buyer = [b \in Buyers |-> buyer[b]]
    /\ \A b \in Buyers : buyer[b].at \in {"idle", "settings", "locked", "numbered", "bills", "plan"}

\* Receipts add up, and a draft has none yet, so that it may still be changed.
ReceiptsAddUp ==
    \A p \in POs, l \in PoLines :
        /\ po[p].received[l] = Total(GrnsOf(p), QtyOf(l))
        /\ po[p].received[l] <= po[p].ordered[l] + MaxTolerance
        /\ po[p].status \in {"NONE", "DRAFT"} => po[p].received[l] = 0

\* A bill that is locked for a payment is unpaid.
LockedUnpaid == \A s \in SupplierBills : billLock[s] # None => supBill[s].status \in {"OPEN", "PARTIAL"}

\* A receipt that passed its check under the order's lock fits what is on record.
ReceiptFits(b) ==
    LET p == buyer[b].po IN
    /\ p \in POs /\ poLock[p] = b /\ po[p].status \notin {"NONE", "DRAFT"}
    /\ buyer[b].qty \in Quantities /\ buyer[b].before = po[p].received
    /\ \A l \in PoLines : po[p].received[l] + buyer[b].qty[l] <= po[p].ordered[l] + MaxTolerance

\* What a payment will write to a bill it has locked is what is paid and what it adds.
PlanHolds(b) ==
    LET pays == buyer[b].pays  total == buyer[b].total IN
    /\ DOMAIN pays \subseteq SupplierBills
    /\ \A s \in DOMAIN pays : /\ pays[s] \in Nat \ {0} /\ total[s] \in 1 .. BillAmount
                              /\ billLock[s] = b => total[s] = supBill[s].paid + pays[s]

BuyerHolds(b) ==
    /\ buyer[b].at = "settings" => /\ buyer[b].po \in POs /\ buyer[b].extra \in 0 .. MaxTolerance
                                   /\ po[buyer[b].po].status # "NONE"
    /\ buyer[b].at \in {"locked", "numbered"} => ReceiptFits(b)
    /\ buyer[b].at = "numbered" => grnLock = b /\ buyer[b].number = Cardinality(grns) + 1
    /\ buyer[b].at = "plan" => PlanHolds(b)

ProcureInv ==
    /\ ProcureRows /\ ReceiptsAddUp /\ GrnNumbersGapless /\ LockedUnpaid /\ PaymentsMatchBills
    /\ \A b \in Buyers : BuyerHolds(b)

\* the bills a buyer has locked are its own to change, and no more become locked by it
BillsSpared(b) == \A s \in SupplierBills : /\ billLock'[s] = b => billLock[s] = b
                                           /\ billLock[s] = b => supBill'[s] = supBill[s]

\* What a step by another buyer leaves as buyer b knows it.
BuyerSpared(b) ==
    /\ buyer'[b] = buyer[b]
    /\ buyer[b].at = "settings" => po'[buyer[b].po].status # "NONE"
    /\ buyer[b].at \in {"locked", "numbered"} => po'[buyer[b].po] = po[buyer[b].po] /\ poLock'[buyer[b].po] = b
    /\ buyer[b].at = "numbered" => grnLock' = grnLock /\ grns' = grns
    /\ buyer[b].at = "plan" => BillsSpared(b)

\* It goes on knowing it.
LEMMA BuyerSparedHolds ==
    ASSUME NEW b \in Buyers, BuyerHolds(b), BuyerSpared(b)
    PROVE  BuyerHolds(b)'
<1>1. buyer'[b].at \in {"locked", "numbered"} => ReceiptFits(b)'
  BY DEF BuyerHolds, BuyerSpared, ReceiptFits
<1>2. buyer'[b].at = "plan" => PlanHolds(b)'
  <2>1. SUFFICES ASSUME buyer'[b].at = "plan" PROVE PlanHolds(b)'
    OBVIOUS
  <2>2. buyer'[b] = buyer[b] /\ PlanHolds(b)
    BY <2>1 DEF BuyerHolds, BuyerSpared
  <2>3. BillsSpared(b)
    BY <2>1, <2>2 DEF BuyerSpared
  <2>4. PICK pays, total : pays = buyer[b].pays /\ total = buyer[b].total
    OBVIOUS
  <2>5. /\ DOMAIN pays \subseteq SupplierBills
        /\ \A s \in DOMAIN pays : pays[s] \in Nat \ {0} /\ total[s] \in 1 .. BillAmount
        /\ \A s \in DOMAIN pays : billLock[s] = b => total[s] = supBill[s].paid + pays[s]
    BY <2>2, <2>4 DEF PlanHolds
  <2>6. \A s \in DOMAIN pays : billLock'[s] = b => total[s] = supBill'[s].paid + pays[s]
    <3>1. ASSUME NEW s \in DOMAIN pays, billLock'[s] = b PROVE total[s] = supBill'[s].paid + pays[s]
      <4>1. s \in SupplierBills
        BY <2>5
      <4>2. billLock[s] = b /\ supBill'[s] = supBill[s]
        BY <2>3, <3>1, <4>1 DEF BillsSpared
      <4>3. QED
        BY <2>5, <4>2
    <3>2. QED
      BY <3>1
  <2>7. QED
    BY <2>2, <2>4, <2>5, <2>6 DEF PlanHolds
<1>3. QED
  BY <1>1, <1>2 DEF BuyerHolds, BuyerSpared

\* The sum of the receipts of an order, line by line.
GrnSum(S, l) == MapThenSumSet(LAMBDA g : g.qty[l], S)
LEMMA GrnTotal ==
    ASSUME NEW S \in SUBSET GrnRecord, NEW l, IsFiniteSet(S)
    PROVE  GrnSum(S, l) = Total(S, QtyOf(l))
<1>1. PICK h : h = QtyOf(l)
  OBVIOUS
<1> DEFINE Sums(g) == g = [s \in SUBSET S |-> IF s = {} THEN 0 ELSE Chosen(s).qty[l] + g[s \ {Chosen(s)}]]
<1>2. GrnSum(S, l) = (CHOOSE g : Sums(g))[S]
  BY DEF GrnSum, MapThenSumSet, MapThenFoldSet, Chosen
<1>3. ASSUME NEW g PROVE Sums(g) <=> SumsUp(S, h, g)
  <2>1. \A s \in SUBSET S : s # {} => h[Chosen(s)] = Chosen(s).qty[l]
    BY <1>1 DEF Chosen, QtyOf
  <2>2. [s \in SUBSET S |-> IF s = {} THEN 0 ELSE Chosen(s).qty[l] + g[s \ {Chosen(s)}]]
          = [s \in SUBSET S |-> IF s = {} THEN 0 ELSE h[Chosen(s)] + g[s \ {Chosen(s)}]]
    BY <2>1
  <2>3. QED
    BY <2>2 DEF SumsUp
<1> HIDE DEF Sums
<1>4. \E g : Sums(g)
  BY <1>3, SumExists
<1>5. PICK f : f = CHOOSE g : Sums(g)
  OBVIOUS
<1>6. Sums(f)
  BY <1>4, <1>5
<1>7. SumsUp(S, h, f)
  BY <1>3, <1>6
<1>8. Total(S, h) = f[S]
  BY <1>7, TotalIs
<1>9. QED
  BY <1>1, <1>2, <1>5, <1>8

\* A purchase order is changed only while nobody has it locked.
LEMMA OrderingKeeps ==
    ASSUME ProcureInv, NEW p \in POs, NEW new \in PoRecord, po' = [po EXCEPT ![p] = new],
           new.received = po[p].received, new.status # "NONE",
           po[p].status = "NONE" \/ poLock[p] = None,
           \A l \in PoLines : po[p].received[l] <= new.ordered[l] + MaxTolerance,
           new.status = "DRAFT" => po[p].status \in {"NONE", "DRAFT"},
           UNCHANGED <<tolerance, poLock, grns, grnLock, payableVars, buyer>>
    PROVE  ProcureInv'
<1>1. ProcureRows /\ UNCHANGED <<tolerance, poLock, grns, grnLock, buyer, supBill, billLock, allocated, unlockedPay>>
  BY DEF ProcureInv, payableVars
<1>2. ProcureRows'
  BY <1>1 DEF ProcureRows
<1>3. po'[p] = new /\ \A q \in POs \ {p} : po'[q] = po[q]
  BY <1>1 DEF ProcureRows
<1>4. ReceiptsAddUp'
  <2>1. \A q \in POs : GrnsOf(q)' = GrnsOf(q)
    BY DEF GrnsOf
  <2>2. ASSUME NEW q \in POs, NEW l \in PoLines
        PROVE  /\ po'[q].received[l] = Total(GrnsOf(q)', QtyOf(l))
               /\ po'[q].received[l] <= po'[q].ordered[l] + MaxTolerance
               /\ po'[q].status \in {"NONE", "DRAFT"} => po'[q].received[l] = 0
    BY <1>3, <2>1 DEF ReceiptsAddUp, ProcureInv
  <2>3. QED
    BY <2>2 DEF ReceiptsAddUp
<1>5. GrnNumbersGapless' /\ LockedUnpaid' /\ PaymentsMatchBills'
  BY <1>1 DEF GrnNumbersGapless, LockedUnpaid, PaymentsMatchBills, ProcureInv
<1>6. ASSUME NEW b \in Buyers PROVE BuyerSpared(b)
  <2>1. buyer[b].at \in {"settings", "locked", "numbered"} => buyer[b].po \in POs /\ po[buyer[b].po].status # "NONE"
    BY DEF ProcureInv, BuyerHolds, ReceiptFits
  <2>2. buyer[b].at \in {"locked", "numbered"} => poLock[buyer[b].po] = b /\ b # None
    BY ProcurementAssumption DEF ProcureInv, BuyerHolds, ReceiptFits, None
  <2>3. QED
    BY <1>1, <1>3, <2>1, <2>2 DEF BuyerSpared, BillsSpared
<1>7. QED
  BY <1>2, <1>4, <1>5, <1>6, BuyerSparedHolds DEF ProcureInv

\* Orders that are created, changed, approved, sent, cancelled or closed.
LEMMA OrdersKeep ==
    ASSUME ProcureInv, NEW p \in POs
    PROVE  ActOnPo(p) \/ (\E qty \in Quantities : CreatePo(p, qty) \/ UpdatePo(p, qty)) => ProcureInv'
<1>1. po[p] \in PoRecord /\ ProcureRows
  BY DEF ProcureInv, ProcureRows
<1>2. \A l \in PoLines : po[p].received[l] \in Nat /\ po[p].received[l] <= po[p].ordered[l] + MaxTolerance
  BY <1>1 DEF ProcureInv, ReceiptsAddUp, PoRecord
<1>3. po[p].status \in {"NONE", "DRAFT"} => \A l \in PoLines : po[p].received[l] = 0
  BY DEF ProcureInv, ReceiptsAddUp
<1>4. ASSUME NEW status \in PoStatuses \ {"NONE"}, NEW qty \in Quantities,
             po' = [po EXCEPT ![p] = [po[p] EXCEPT !.status = status, !.ordered = qty]],
             po[p].status = "NONE" \/ poLock[p] = None,
             \A l \in PoLines : po[p].received[l] <= qty[l] + MaxTolerance,
             status = "DRAFT" => po[p].status \in {"NONE", "DRAFT"},
             UNCHANGED <<tolerance, poLock, grns, grnLock, payableVars, buyer>>
      PROVE  ProcureInv'
  <2>1. PICK new : new = [po[p] EXCEPT !.status = status, !.ordered = qty]
    OBVIOUS
  <2>2. new \in PoRecord
    BY <1>1, <2>1 DEF PoRecord
  <2>3. new.received = po[p].received /\ new.status = status /\ new.ordered = qty
    BY <1>1, <2>1 DEF PoRecord
  <2>4. QED
    BY <1>4, <2>1, <2>2, <2>3, OrderingKeeps
<1>5. ASSUME NEW qty \in Quantities, CreatePo(p, qty) \/ UpdatePo(p, qty) PROVE ProcureInv'
  <2>1. po' = [po EXCEPT ![p] = [po[p] EXCEPT !.status = "DRAFT", !.ordered = qty]]
    <3>1. po \in [POs -> PoRecord]
      BY <1>1 DEF ProcureRows
    <3>2. CASE CreatePo(p, qty)
      BY <3>1, <3>2 DEF CreatePo, PoRecord
    <3>3. CASE UpdatePo(p, qty)
      <4>1. po' = [po EXCEPT ![p] = [po[p] EXCEPT !.ordered = qty]] /\ po[p].status = "DRAFT"
        BY <3>1, <3>3 DEF UpdatePo
      <4>2. [po[p] EXCEPT !.ordered = qty] = [po[p] EXCEPT !.status = "DRAFT", !.ordered = qty]
        BY <1>1, <4>1 DEF PoRecord
      <4>3. QED
        BY <4>1, <4>2
    <3>4. QED
      BY <1>5, <3>2, <3>3
  <2>2. /\ po[p].status = "NONE" \/ (po[p].status = "DRAFT" /\ poLock[p] = None)
        /\ UNCHANGED <<tolerance, poLock, grns, grnLock, payableVars, buyer>>
    BY <1>5 DEF CreatePo, UpdatePo
  <2>3. \A l \in PoLines : po[p].received[l] <= qty[l] + MaxTolerance
    <3>1. \A l \in PoLines : qty[l] \in Nat
      BY ProcurementAssumption DEF Quantities
    <3>2. QED
      BY <1>3, <2>2, <3>1, ProcurementAssumption
  <2>4. "DRAFT" \in PoStatuses \ {"NONE"}
    BY DEF PoStatuses
  <2>5. QED
    BY <1>4, <2>1, <2>2, <2>3, <2>4
<1>6. ASSUME ActOnPo(p) PROVE ProcureInv'
  <2>1. PICK move \in PO_TRANSITIONS : po[p].status \in move.from /\ po' = [po EXCEPT ![p].status = move.to]
    BY <1>6 DEF ActOnPo
  <2>2. move.to \in PoStatuses \ {"NONE", "DRAFT"}
    BY DEF PO_TRANSITIONS, PoStatuses
  <2>3. PICK status \in PoStatuses \ {"NONE", "DRAFT"}, qty \in Quantities : status = move.to /\ qty = po[p].ordered
    BY <1>1, <2>2 DEF PoRecord
  <2>4. po' = [po EXCEPT ![p] = [po[p] EXCEPT !.status = status, !.ordered = qty]]
    <3>1. po' = [po EXCEPT ![p] = [po[p] EXCEPT !.status = status]]
      BY <2>1, <2>3
    <3>2. [po[p] EXCEPT !.status = status] = [po[p] EXCEPT !.status = status, !.ordered = qty]
      BY <1>1, <2>3 DEF PoRecord
    <3>3. QED
      BY <3>1, <3>2
  <2>5. poLock[p] = None /\ UNCHANGED <<tolerance, poLock, grns, grnLock, payableVars, buyer>>
    BY <1>6 DEF ActOnPo
  <2>6. QED
    BY <1>2, <1>4, <2>3, <2>4, <2>5
<1>7. QED
  BY <1>5, <1>6

\* A step that leaves orders and receipts alone keeps what they add up to.
LEMMA OrderingAside ==
    ASSUME ProcureInv, UNCHANGED <<po, grns>>
    PROVE  ReceiptsAddUp' /\ GrnNumbersGapless'
<1>1. \A q \in POs : GrnsOf(q)' = GrnsOf(q)
  BY DEF GrnsOf
<1>2. ASSUME NEW q \in POs, NEW l \in PoLines
      PROVE  /\ po'[q].received[l] = Total(GrnsOf(q)', QtyOf(l))
             /\ po'[q].received[l] <= po'[q].ordered[l] + MaxTolerance
             /\ po'[q].status \in {"NONE", "DRAFT"} => po'[q].received[l] = 0
  BY <1>1 DEF ReceiptsAddUp, ProcureInv
<1>3. QED
  BY <1>2 DEF ReceiptsAddUp, ProcureInv, GrnNumbersGapless

\* So one that leaves bills and payments alone.
LEMMA PayablesAside ==
    ASSUME ProcureInv, UNCHANGED <<supBill, allocated, unlockedPay>>,
           \A s \in SupplierBills : billLock'[s] # None => billLock[s] # None
    PROVE  LockedUnpaid' /\ PaymentsMatchBills'
BY DEF ProcureInv, LockedUnpaid, PaymentsMatchBills

\* Bills that are booked or voided are not locked.
LEMMA BillsKeep ==
    ASSUME ProcureInv, NEW s \in SupplierBills
    PROVE  CreateSupplierBill(s) \/ VoidBill(s) => ProcureInv'
<1> SUFFICES ASSUME CreateSupplierBill(s) \/ VoidBill(s) PROVE ProcureInv'
  OBVIOUS
<1>1. ProcureRows /\ supBill[s] \in BillRecord
  BY DEF ProcureInv, ProcureRows
<1>2. PICK status \in {"OPEN", "VOID"} :
        /\ supBill' = [supBill EXCEPT ![s].status = status]
        /\ status = "VOID" => supBill[s].paid = 0
  BY DEF CreateSupplierBill, VoidBill
<1>3. /\ UNCHANGED <<tolerance, po, poLock, grns, grnLock, billLock, allocated, unlockedPay, buyer>>
      /\ billLock[s] = None
  BY <1>1 DEF CreateSupplierBill, VoidBill, orderingVars, ProcureInv, LockedUnpaid, ProcureRows
<1>4. /\ supBill'[s].status = status /\ supBill'[s].paid = supBill[s].paid
      /\ \A r \in SupplierBills \ {s} : supBill'[r] = supBill[r]
  BY <1>1, <1>2 DEF ProcureRows, BillRecord
<1>5. supBill' \in [SupplierBills -> BillRecord]
  BY <1>1, <1>2 DEF ProcureRows, BillRecord
<1>6. ProcureRows'
  BY <1>1, <1>3, <1>5 DEF ProcureRows
<1>7. LockedUnpaid'
  BY <1>3, <1>4 DEF ProcureInv, LockedUnpaid
<1>8. PaymentsMatchBills'
  BY <1>2, <1>3, <1>4 DEF ProcureInv, PaymentsMatchBills
<1>9. ASSUME NEW b \in Buyers PROVE BuyerSpared(b)
  <2>1. b # None
    BY ProcurementAssumption DEF None
  <2>2. buyer[b].at \in {"settings", "locked", "numbered"} => po[buyer[b].po].status # "NONE"
    BY DEF ProcureInv, BuyerHolds, ReceiptFits
  <2>3. buyer[b].at \in {"locked", "numbered"} => poLock[buyer[b].po] = b
    BY DEF ProcureInv, BuyerHolds, ReceiptFits
  <2>4. \A r \in SupplierBills : billLock[r] = b => supBill'[r] = supBill[r]
    BY <1>3, <1>4, <2>1
  <2>5. QED
    BY <1>3, <2>2, <2>3, <2>4 DEF BuyerSpared, BillsSpared
<1>10. QED
  BY <1>3, <1>6, <1>7, <1>8, <1>9, OrderingAside, BuyerSparedHolds DEF ProcureInv

\* The settings change, and receipts remember those they read.
LEMMA ToleranceKeeps ==
    ASSUME ProcureInv, NEW n \in 0 .. MaxTolerance, SaveTolerance(n)
    PROVE  ProcureInv'
<1>1. tolerance' = n /\ UNCHANGED <<po, poLock, grns, grnLock, supBill, billLock, allocated, unlockedPay, buyer>>
  BY DEF SaveTolerance, payableVars
<1>2. ProcureRows'
  BY <1>1 DEF ProcureInv, ProcureRows
<1>3. ASSUME NEW b \in Buyers PROVE BuyerSpared(b)
  BY <1>1 DEF ProcureInv, BuyerHolds, ReceiptFits, BuyerSpared, BillsSpared
<1>4. QED
  BY <1>1, <1>2, <1>3, OrderingAside, PayablesAside, BuyerSparedHolds DEF ProcureInv

\* A receipt locks the order, checks what may still come, and draws its number.
LEMMA ReceivingKeeps ==
    ASSUME ProcureInv, NEW b \in Buyers
    PROVE  (\E p \in POs : BeginReceive(b, p)) \/ (\E qty \in Quantities : CheckReceipt(b, qty)) \/ NumberReceipt(b)
             => ProcureInv'
<1>1. ProcureRows /\ b # None
  BY ProcurementAssumption DEF ProcureInv, None
<1>2. ASSUME NEW rec, buyer' = [buyer EXCEPT ![b] = rec],
             rec.at \in {"settings", "locked", "numbered"},
             UNCHANGED <<tolerance, po, grns, payableVars>>,
             poLock' \in [POs -> Buyers \cup {None}], \A p \in POs : poLock[p] # None => poLock'[p] = poLock[p],
             grnLock' \in Buyers \cup {None}, grnLock # None => grnLock' = grnLock,
             BuyerHolds(b)'
      PROVE  ProcureInv'
  <2>1. UNCHANGED <<supBill, billLock, allocated, unlockedPay>>
    BY <1>2 DEF payableVars
  <2>2. /\ buyer'[b] = rec /\ \A c \in Buyers \ {b} : buyer'[c] = buyer[c]
        /\ DOMAIN buyer' = Buyers /\ buyer' = [c \in Buyers |-> buyer'[c]]
    BY <1>1, <1>2 DEF ProcureRows
  <2>3. ProcureRows'
    BY <1>1, <1>2, <2>1, <2>2 DEF ProcureRows
  <2>4. ASSUME NEW c \in Buyers \ {b} PROVE BuyerHolds(c)'
    <3>1. /\ buyer[c].at = "settings" => po[buyer[c].po].status # "NONE"
          /\ buyer[c].at \in {"locked", "numbered"} => buyer[c].po \in POs /\ poLock[buyer[c].po] = c
          /\ buyer[c].at = "numbered" => grnLock = c
          /\ c # None
      BY ProcurementAssumption DEF ProcureInv, BuyerHolds, ReceiptFits, None
    <3>2. BuyerSpared(c)
      BY <1>2, <2>1, <2>2, <3>1 DEF BuyerSpared, BillsSpared
    <3>3. QED
      BY <3>2, BuyerSparedHolds DEF ProcureInv
  <2>5. QED
    BY <1>2, <2>1, <2>3, <2>4, OrderingAside, PayablesAside DEF ProcureInv
<1>3. ASSUME NEW p \in POs, BeginReceive(b, p) PROVE ProcureInv'
  <2>1. PICK rec : rec = [at |-> "settings", po |-> p, extra |-> tolerance]
    OBVIOUS
  <2>2. /\ buyer' = [buyer EXCEPT ![b] = rec] /\ po[p].status # "NONE"
        /\ UNCHANGED <<tolerance, po, poLock, grns, grnLock, payableVars>>
    BY <1>3, <2>1 DEF BeginReceive, Step, orderingVars
  <2>3. rec.at = "settings" /\ rec.po = p /\ rec.extra = tolerance
    BY <2>1
  <2>4. buyer'[b] = rec
    BY <1>1, <2>2 DEF ProcureRows
  <2>5. BuyerHolds(b)'
    BY <1>1, <2>2, <2>3, <2>4 DEF BuyerHolds, ProcureRows
  <2>6. QED
    BY <1>1, <1>2, <2>2, <2>3, <2>5 DEF ProcureRows
<1>4. ASSUME NEW qty \in Quantities, CheckReceipt(b, qty) PROVE ProcureInv'
  <2>1. PICK p \in POs : p = buyer[b].po
    BY <1>4 DEF CheckReceipt, ProcureInv, BuyerHolds
  <2>2. PICK rec : rec = [at |-> "locked", po |-> p, qty |-> qty, before |-> po[p].received]
    OBVIOUS
  <2>3. /\ buyer' = [buyer EXCEPT ![b] = rec] /\ poLock[p] = None /\ poLock' = [poLock EXCEPT ![p] = b]
        /\ CanReceivePo(p) /\ UNCHANGED <<tolerance, po, grns, grnLock, payableVars>>
        /\ \A l \in PoLines : qty[l] <= MaxReceivable(p, l, buyer[b].extra)
    BY <1>4, <2>1, <2>2 DEF CheckReceipt, Step, LockPo
  <2>4. rec.at = "locked" /\ rec.po = p /\ rec.qty = qty /\ rec.before = po[p].received
    BY <2>2
  <2>5. buyer'[b] = rec
    BY <1>1, <2>3 DEF ProcureRows
  <2>6. buyer[b].extra \in Nat /\ buyer[b].extra <= MaxTolerance
    BY <1>4, ProcurementAssumption DEF CheckReceipt, ProcureInv, BuyerHolds
  <2>7. po[p] \in PoRecord /\ po[p].status \notin {"NONE", "DRAFT"}
    BY <1>1, <2>3 DEF ProcureRows, CanReceivePo
  <2>8. ASSUME NEW l \in PoLines PROVE po[p].received[l] + qty[l] <= po[p].ordered[l] + MaxTolerance
    <3>1. /\ po[p].received[l] \in Nat /\ po[p].ordered[l] \in Nat /\ qty[l] \in Nat /\ MaxTolerance \in Nat
          /\ po[p].received[l] <= po[p].ordered[l] + MaxTolerance
      BY <2>7, ProcurementAssumption DEF PoRecord, Quantities, ProcureInv, ReceiptsAddUp
    <3>2. qty[l] <= (IF po[p].ordered[l] + buyer[b].extra >= po[p].received[l]
                     THEN (po[p].ordered[l] + buyer[b].extra) - po[p].received[l] ELSE 0)
      BY <2>3 DEF MaxReceivable
    <3>3. QED
      BY <2>6, <3>1, <3>2
  <2>9. poLock'[p] = b
    BY <1>1, <2>3 DEF ProcureRows
  <2>10. BuyerHolds(b)'
    BY <2>3, <2>4, <2>5, <2>7, <2>8, <2>9 DEF BuyerHolds, ReceiptFits
  <2>11. poLock' \in [POs -> Buyers \cup {None}] /\ \A q \in POs : poLock[q] # None => poLock'[q] = poLock[q]
    BY <1>1, <2>3 DEF ProcureRows
  <2>12. QED
    BY <1>1, <1>2, <2>3, <2>4, <2>10, <2>11 DEF ProcureRows
<1>5. ASSUME NumberReceipt(b) PROVE ProcureInv'
  <2>1. PICK rec : rec = [at |-> "numbered", po |-> buyer[b].po, qty |-> buyer[b].qty,
                          before |-> buyer[b].before, number |-> Cardinality(grns) + 1]
    OBVIOUS
  <2>2. /\ buyer' = [buyer EXCEPT ![b] = rec] /\ grnLock = None /\ grnLock' = b /\ buyer[b].at = "locked"
        /\ UNCHANGED <<tolerance, po, poLock, grns, payableVars>>
    BY <1>5, <2>1 DEF NumberReceipt, Step, GrnNumberLock
  <2>3. /\ rec.at = "numbered" /\ rec.po = buyer[b].po /\ rec.qty = buyer[b].qty /\ rec.before = buyer[b].before
        /\ rec.number = Cardinality(grns) + 1
    BY <2>1
  <2>4. buyer'[b] = rec
    BY <1>1, <2>2 DEF ProcureRows
  <2>5. ReceiptFits(b)
    BY <2>2 DEF ProcureInv, BuyerHolds
  <2>6. ReceiptFits(b)'
    BY <2>2, <2>3, <2>4, <2>5 DEF ReceiptFits
  <2>7. BuyerHolds(b)'
    BY <2>2, <2>3, <2>4, <2>6 DEF BuyerHolds
  <2>8. QED
    BY <1>1, <1>2, <2>2, <2>3, <2>7 DEF ProcureRows
<1>6. QED
  BY <1>3, <1>4, <1>5

\* What ends releases the locks of its own.
LEMMA EndBuyerFrees ==
    ASSUME ProcureInv, NEW b \in Buyers, EndBuyer(b)
    PROVE  /\ buyer'[b].at = "idle" /\ \A c \in Buyers \ {b} : buyer'[c] = buyer[c]
           /\ DOMAIN buyer' = Buyers /\ buyer' = [c \in Buyers |-> buyer'[c]]
           /\ poLock' \in [POs -> Buyers \cup {None}] /\ grnLock' \in Buyers \cup {None}
           /\ billLock' \in [SupplierBills -> Buyers \cup {None}]
           /\ \A p \in POs : poLock[p] # b => poLock'[p] = poLock[p]
           /\ grnLock # b => grnLock' = grnLock
           /\ \A s \in SupplierBills : billLock'[s] = IF billLock[s] = b THEN None ELSE billLock[s]
<1>1. ProcureRows
  BY DEF ProcureInv
<1>2. buyer' = [buyer EXCEPT ![b] = BuyerIdle]
  BY DEF EndBuyer, Step
<1>3. BuyerIdle.at = "idle"
  BY DEF BuyerIdle
<1>4. QED
  BY <1>1, <1>2, <1>3 DEF EndBuyer, ProcureRows

\* A request that fails leaves orders, receipts and bills as they were.
LEMMA BuyerFailKeeps ==
    ASSUME ProcureInv, NEW b \in Buyers, BuyerFails(b)
    PROVE  ProcureInv'
<1>1. EndBuyer(b) /\ UNCHANGED <<tolerance, po, grns, supBill, allocated, unlockedPay>>
  BY DEF BuyerFails
<1>2. ProcureRows /\ b # None
  BY ProcurementAssumption DEF ProcureInv, None
<1>3. ProcureRows'
  BY <1>1, <1>2, EndBuyerFrees DEF ProcureRows
<1>4. \A s \in SupplierBills : billLock'[s] # None => billLock[s] # None
  BY <1>1, EndBuyerFrees
<1>5. ASSUME NEW c \in Buyers PROVE BuyerHolds(c)'
  <2>1. CASE c = b
    BY <1>1, <2>1, EndBuyerFrees DEF BuyerHolds
  <2>2. CASE c # b
    <3>1. /\ buyer[c].at = "settings" => po[buyer[c].po].status # "NONE"
          /\ buyer[c].at \in {"locked", "numbered"} => buyer[c].po \in POs /\ poLock[buyer[c].po] = c
          /\ buyer[c].at = "numbered" => grnLock = c
          /\ c # None
      BY ProcurementAssumption DEF ProcureInv, BuyerHolds, ReceiptFits, None
    <3>2. BuyerSpared(c)
      BY <1>1, <2>2, <3>1, EndBuyerFrees DEF BuyerSpared, BillsSpared
    <3>3. QED
      BY <3>2, BuyerSparedHolds DEF ProcureInv
  <2>3. QED
    BY <2>1, <2>2
<1>6. QED
  BY <1>1, <1>3, <1>4, <1>5, OrderingAside, PayablesAside DEF ProcureInv

\* A receipt is booked with its number, under the order's lock, and its bill with it.
LEMMA ReceiptCommits ==
    ASSUME ProcureInv, NEW b \in Buyers, NEW book \in SupplierBills \cup {0}, CommitReceipts(b, book)
    PROVE  ProcureInv'
<1>1. ProcureRows /\ b # None
  BY ProcurementAssumption DEF ProcureInv, None
<1>2. buyer[b].at = "numbered" /\ EndBuyer(b) /\ UNCHANGED <<tolerance, allocated, unlockedPay>>
  BY DEF CommitReceipts
<1>3. ReceiptFits(b) /\ grnLock = b /\ buyer[b].number = Cardinality(grns) + 1
  BY <1>2 DEF ProcureInv, BuyerHolds
<1>4. PICK p \in POs, qty \in Quantities : p = buyer[b].po /\ qty = buyer[b].qty
  BY <1>3 DEF ReceiptFits
<1>5. PICK g : g = [number |-> buyer[b].number, po |-> p, by |-> b, qty |-> qty]
  OBVIOUS
<1>6. PICK n \in Nat : n = Cardinality(grns)
  BY <1>1, FS_CardinalityType DEF ProcureRows
<1>7. g \in GrnRecord /\ g.number = n + 1 /\ g.po = p /\ g.qty = qty
  BY <1>3, <1>5, <1>6 DEF GrnRecord
<1>8. grns' = grns \cup {g}
  BY <1>4, <1>5 DEF CommitReceipts
<1>9. \A x \in grns : x.number \in 1 .. n
  BY <1>6 DEF ProcureInv, GrnNumbersGapless
<1>10. g \notin grns
  BY <1>7, <1>9
<1>11. IsFiniteSet(grns') /\ Cardinality(grns') = n + 1
  BY <1>1, <1>6, <1>8, <1>10, FS_AddElement DEF ProcureRows
<1>12. GrnNumbersGapless'
  <2>1. {x.number : x \in grns} = 1 .. n
    BY <1>6 DEF ProcureInv, GrnNumbersGapless
  <2>2. {x.number : x \in grns'} = {x.number : x \in grns} \cup {n + 1}
    BY <1>7, <1>8
  <2>3. 1 .. (n + 1) = (1 .. n) \cup {n + 1}
    OBVIOUS
  <2>4. QED
    BY <1>11, <2>1, <2>2, <2>3 DEF GrnNumbersGapless
<1>13. PICK more : more = [l \in PoLines |-> po[p].received[l] + qty[l]]
  OBVIOUS
<1>14. po[p] \in PoRecord /\ \A l \in PoLines : po[p].received[l] \in Nat /\ qty[l] \in Nat
  BY <1>1, ProcurementAssumption DEF ProcureRows, PoRecord, Quantities
<1>15. more \in [PoLines -> Nat] /\ \A l \in PoLines : more[l] = po[p].received[l] + qty[l]
  BY <1>13, <1>14
<1>16. PICK status \in {"RECEIVED", "PARTIALLY_RECEIVED"} :
         po' = [po EXCEPT ![p].received = [l \in PoLines |-> @[l] + qty[l]], ![p].status = status]
  BY <1>4 DEF CommitReceipts, StatusAfterReceipt
<1>17. PICK new : new = [po[p] EXCEPT !.received = more, !.status = status]
  OBVIOUS
<1>18. po' = [po EXCEPT ![p] = new]
  <2>1. po \in [POs -> PoRecord]
    BY <1>1 DEF ProcureRows
  <2>2. \A q \in POs : po'[q] = IF q = p THEN [po[p] EXCEPT !.received = [l \in PoLines |-> @[l] + qty[l]], !.status = status] ELSE po[q]
    BY <1>16, <2>1
  <2>3. [po[p] EXCEPT !.received = [l \in PoLines |-> @[l] + qty[l]], !.status = status] = new
    BY <1>13, <1>17
  <2>4. QED
    BY <1>16, <2>1, <2>2, <2>3
<1>19. new \in PoRecord /\ new.received = more /\ new.ordered = po[p].ordered /\ new.status = status
  <2>1. status \in PoStatuses
    BY DEF PoStatuses
  <2>2. QED
    BY <1>14, <1>15, <1>17, <2>1 DEF PoRecord
<1>20. po'[p] = new /\ \A q \in POs \ {p} : po'[q] = po[q]
  BY <1>1, <1>18 DEF ProcureRows
<1>21. ReceiptsAddUp'
  <2>1. ASSUME NEW q \in POs \ {p}, NEW l \in PoLines
        PROVE  /\ po'[q].received[l] = Total(GrnsOf(q)', QtyOf(l))
               /\ po'[q].received[l] <= po'[q].ordered[l] + MaxTolerance
               /\ po'[q].status \in {"NONE", "DRAFT"} => po'[q].received[l] = 0
    <3>1. GrnsOf(q)' = GrnsOf(q)
      BY <1>7, <1>8 DEF GrnsOf
    <3>2. QED
      BY <1>20, <3>1 DEF ProcureInv, ReceiptsAddUp
  <2>2. ASSUME NEW l \in PoLines
        PROVE  /\ po'[p].received[l] = Total(GrnsOf(p)', QtyOf(l))
               /\ po'[p].received[l] <= po'[p].ordered[l] + MaxTolerance
               /\ po'[p].status \in {"NONE", "DRAFT"} => po'[p].received[l] = 0
    <3>1. PICK S : S = GrnsOf(p)
      OBVIOUS
    <3>2. PICK h : h = QtyOf(l)
      OBVIOUS
    <3>3. GrnsOf(p)' = S \cup {g}
      BY <1>7, <1>8, <3>1 DEF GrnsOf
    <3>4. IsFiniteSet(S) /\ g \notin S /\ S \subseteq GrnRecord
      BY <1>1, <1>10, <3>1, FS_Subset DEF GrnsOf, ProcureRows
    <3>5. \A x \in S \cup {g} : h[x] \in Int
      <4>1. \A x \in GrnRecord : x.qty[l] \in Int
        BY ProcurementAssumption DEF GrnRecord, Quantities
      <4>2. QED
        BY <1>7, <3>2, <3>4, <4>1 DEF QtyOf
    <3>6. Total(S \cup {g}, h) = h[g] + Total(S, h)
      BY <3>4, <3>5, TotalInsert
    <3>7. h[g] = qty[l]
      BY <1>7, <3>2 DEF QtyOf
    <3>8. po[p].received[l] = Total(S, h)
      BY <3>1, <3>2 DEF ProcureInv, ReceiptsAddUp
    <3>9. po[p].received[l] + qty[l] <= po[p].ordered[l] + MaxTolerance
      BY <1>3, <1>4 DEF ReceiptFits
    <3>10. more[l] = Total(S \cup {g}, h)
      BY <1>14, <1>15, <3>6, <3>7, <3>8
    <3>11. status \notin {"NONE", "DRAFT"}
      OBVIOUS
    <3>12. QED
      BY <1>15, <1>19, <1>20, <3>2, <3>3, <3>9, <3>10, <3>11
  <2>3. \A q \in POs : q = p \/ q \in POs \ {p}
    OBVIOUS
  <2>4. QED
    BY <2>1, <2>2, <2>3 DEF ReceiptsAddUp
<1>22. /\ supBill' \in [SupplierBills -> BillRecord]
       /\ \A s \in SupplierBills : supBill'[s] = supBill[s] \/
             (supBill[s].status = "NONE" /\ supBill'[s].status = "OPEN" /\ supBill'[s].paid = supBill[s].paid)
  <2>1. supBill \in [SupplierBills -> BillRecord]
    BY <1>1 DEF ProcureRows
  <2>2. CASE UNCHANGED supBill
    BY <2>1, <2>2
  <2>3. CASE book # 0 /\ supBill[book].status = "NONE" /\ supBill' = [supBill EXCEPT ![book].status = "OPEN"]
    BY <2>1, <2>3 DEF BillRecord
  <2>4. QED
    BY <2>2, <2>3 DEF CommitReceipts
<1>23. \A s \in SupplierBills : billLock[s] # None => supBill'[s] = supBill[s]
  BY <1>22 DEF ProcureInv, LockedUnpaid
<1>24. \A s \in SupplierBills : billLock'[s] # None => billLock'[s] = billLock[s]
  BY <1>2, EndBuyerFrees
<1>25. LockedUnpaid'
  BY <1>23, <1>24 DEF ProcureInv, LockedUnpaid
<1>26. PaymentsMatchBills'
  <2>1. ASSUME NEW s \in SupplierBills
        PROVE  supBill'[s].paid = supBill[s].paid /\ (supBill'[s].status = "VOID" => supBill[s].status = "VOID")
    BY <1>22
  <2>2. QED
    BY <1>2, <2>1 DEF ProcureInv, PaymentsMatchBills
<1>27. ProcureRows'
  <2>1. po' \in [POs -> PoRecord] /\ grns' \in SUBSET GrnRecord
    BY <1>1, <1>7, <1>8, <1>18, <1>19 DEF ProcureRows
  <2>2. QED
    BY <1>1, <1>2, <1>11, <1>22, <2>1, EndBuyerFrees DEF ProcureRows
<1>28. ASSUME NEW c \in Buyers PROVE BuyerHolds(c)'
  <2>1. CASE c = b
    BY <1>2, <2>1, EndBuyerFrees DEF BuyerHolds
  <2>2. CASE c # b
    <3>1. /\ buyer[c].at = "settings" => buyer[c].po \in POs /\ po[buyer[c].po].status # "NONE"
          /\ buyer[c].at \in {"locked", "numbered"} => buyer[c].po \in POs /\ poLock[buyer[c].po] = c
          /\ buyer[c].at = "numbered" => grnLock = c
          /\ c # None
      BY ProcurementAssumption DEF ProcureInv, BuyerHolds, ReceiptFits, None
    <3>2. poLock[p] = b
      BY <1>3, <1>4 DEF ReceiptFits
    <3>3. buyer'[c] = buyer[c]
      BY <1>2, <2>2, EndBuyerFrees
    <3>4. buyer[c].at = "settings" => po'[buyer[c].po].status # "NONE"
      BY <1>19, <1>20, <3>1
    <3>5. buyer[c].at \in {"locked", "numbered"} => po'[buyer[c].po] = po[buyer[c].po] /\ poLock'[buyer[c].po] = c
      BY <1>2, <1>20, <2>2, <3>1, <3>2, EndBuyerFrees
    <3>6. buyer[c].at # "numbered"
      BY <1>3, <2>2, <3>1
    <3>7. BillsSpared(c)
      BY <1>23, <1>24, <3>1 DEF BillsSpared
    <3>8. BuyerSpared(c)
      BY <3>3, <3>4, <3>5, <3>6, <3>7 DEF BuyerSpared
    <3>9. QED
      BY <3>8, BuyerSparedHolds DEF ProcureInv
  <2>3. QED
    BY <2>1, <2>2
<1>29. QED
  BY <1>12, <1>21, <1>25, <1>26, <1>27, <1>28 DEF ProcureInv

\* A payment locks the unpaid bills.
LEMMA LockingKeeps ==
    ASSUME ProcureInv, NEW b \in Buyers, LockBills(b)
    PROVE  ProcureInv'
<1>1. ProcureRows /\ b # None
  BY ProcurementAssumption DEF ProcureInv, None
<1>2. PICK rec : rec = [at |-> "bills"]
  OBVIOUS
<1>3. /\ buyer' = [buyer EXCEPT ![b] = rec] /\ rec.at = "bills"
      /\ UNCHANGED <<tolerance, po, poLock, grns, grnLock, supBill, allocated, unlockedPay>>
  BY <1>2 DEF LockBills, Step, orderingVars
<1>4. \A s \in Unpaid : billLock[s] = None
  BY DEF LockBills, LockUnpaid
<1>5. billLock' = [s \in SupplierBills |-> IF s \in Unpaid THEN b ELSE billLock[s]]
  BY DEF LockBills, LockUnpaid
<1>6. /\ buyer'[b] = rec /\ \A c \in Buyers \ {b} : buyer'[c] = buyer[c]
      /\ DOMAIN buyer' = Buyers /\ buyer' = [c \in Buyers |-> buyer'[c]]
  BY <1>1, <1>3 DEF ProcureRows
<1>7. billLock' \in [SupplierBills -> Buyers \cup {None}]
  BY <1>1, <1>5 DEF ProcureRows
<1>8. ProcureRows'
  BY <1>1, <1>3, <1>6, <1>7 DEF ProcureRows
<1>9. LockedUnpaid'
  <2>1. ASSUME NEW s \in SupplierBills, billLock'[s] # None PROVE supBill[s].status \in {"OPEN", "PARTIAL"}
    <3>1. CASE s \in Unpaid
      BY <3>1 DEF Unpaid
    <3>2. CASE s \notin Unpaid
      BY <1>5, <2>1, <3>2 DEF ProcureInv, LockedUnpaid
    <3>3. QED
      BY <3>1, <3>2
  <2>2. QED
    BY <1>3, <2>1 DEF LockedUnpaid
<1>10. PaymentsMatchBills'
  BY <1>3 DEF ProcureInv, PaymentsMatchBills
<1>11. ASSUME NEW c \in Buyers PROVE BuyerHolds(c)'
  <2>1. CASE c = b
    BY <1>3, <1>6, <2>1 DEF BuyerHolds
  <2>2. CASE c # b
    <3>1. /\ buyer[c].at = "settings" => po[buyer[c].po].status # "NONE"
          /\ buyer[c].at \in {"locked", "numbered"} => poLock[buyer[c].po] = c
      BY DEF ProcureInv, BuyerHolds, ReceiptFits
    <3>2. BillsSpared(c)
      BY <1>3, <1>5, <2>2 DEF BillsSpared
    <3>3. BuyerSpared(c)
      BY <1>3, <1>6, <2>2, <3>1, <3>2 DEF BuyerSpared
    <3>4. QED
      BY <3>3, BuyerSparedHolds DEF ProcureInv
  <2>3. QED
    BY <2>1, <2>2
<1>12. QED
  BY <1>3, <1>8, <1>9, <1>10, <1>11, OrderingAside DEF ProcureInv

\* What is due on a bill, and the sum of it over several.
DueOf(r) == IF supBill[r].paid <= BillAmount THEN BillAmount - supBill[r].paid ELSE 0
DueSum(S) == MapThenSumSet(LAMBDA r : IF supBill[r].paid <= BillAmount THEN BillAmount - supBill[r].paid ELSE 0, S)
LEMMA DueNatural ==
    ASSUME ProcureRows, NEW S \in SUBSET SupplierBills
    PROVE  DueSum(S) \in Nat
<1>1. PICK h : h = [r \in SupplierBills |-> DueOf(r)]
  OBVIOUS
<1> DEFINE Sums(g) == g = [s \in SUBSET S |-> IF s = {} THEN 0
                             ELSE (IF supBill[Chosen(s)].paid <= BillAmount THEN BillAmount - supBill[Chosen(s)].paid ELSE 0)
                                    + g[s \ {Chosen(s)}]]
<1>2. DueSum(S) = (CHOOSE g : Sums(g))[S]
  BY DEF DueSum, MapThenSumSet, MapThenFoldSet, Chosen
<1>3. ASSUME NEW g PROVE Sums(g) <=> SumsUp(S, h, g)
  <2>1. \A s \in SUBSET S : s # {} => h[Chosen(s)] = IF supBill[Chosen(s)].paid <= BillAmount THEN BillAmount - supBill[Chosen(s)].paid ELSE 0
    BY <1>1 DEF Chosen, DueOf
  <2>2. [s \in SUBSET S |-> IF s = {} THEN 0
           ELSE (IF supBill[Chosen(s)].paid <= BillAmount THEN BillAmount - supBill[Chosen(s)].paid ELSE 0)
                  + g[s \ {Chosen(s)}]]
          = [s \in SUBSET S |-> IF s = {} THEN 0 ELSE h[Chosen(s)] + g[s \ {Chosen(s)}]]
    BY <2>1
  <2>3. QED
    BY <2>2 DEF SumsUp
<1> HIDE DEF Sums
<1>4. IsFiniteSet(S)
  BY ProcurementAssumption, FS_Subset
<1>5. \E g : Sums(g)
  BY <1>3, <1>4, SumExists
<1>6. PICK f : f = CHOOSE g : Sums(g)
  OBVIOUS
<1>7. SumsUp(S, h, f)
  BY <1>3, <1>5, <1>6
<1>8. DueSum(S) = Total(S, h)
  BY <1>2, <1>4, <1>6, <1>7, TotalIs
<1>9. \A r \in S : h[r] \in Nat
  <2>1. \A r \in SupplierBills : supBill[r].paid \in 0 .. BillAmount
    BY DEF ProcureRows, BillRecord
  <2>2. QED
    BY <1>1, <2>1, ProcurementAssumption DEF DueOf
<1>10. QED
  BY <1>4, <1>8, <1>9, TotalType

\* Oldest first, no bill gets more than is due on it.
LEMMA AutoPlanFits ==
    ASSUME ProcureRows, NEW amount \in Nat
    PROVE  /\ DOMAIN AutoPlan(amount) = Unpaid
           /\ \A s \in Unpaid : AutoPlan(amount)[s] \in Nat /\ supBill[s].paid + AutoPlan(amount)[s] <= BillAmount
<1>1. ASSUME NEW s \in Unpaid
      PROVE  AutoPlan(amount)[s] \in Nat /\ supBill[s].paid + AutoPlan(amount)[s] <= BillAmount
  <2>1. PICK before \in SUBSET SupplierBills : before = {r \in Unpaid : r < s}
    BY DEF Unpaid
  <2>2. PICK used \in Nat : used = DueSum(before)
    BY DueNatural
  <2>3. AutoPlan(amount)[s] = Min({DueOf(s), IF amount > used THEN amount - used ELSE 0})
    BY <2>1, <2>2 DEF AutoPlan, DueOf, DueSum
  <2>4. PICK rest \in Nat : rest = IF amount > used THEN amount - used ELSE 0
    <3>1. amount > used => amount - used \in Nat
      OBVIOUS
    <3>2. QED
      BY <3>1
  <2>5. supBill[s].paid \in 0 .. BillAmount
    BY DEF ProcureRows, BillRecord, Unpaid
  <2>6. PICK due \in Nat : due = DueOf(s) /\ supBill[s].paid + due <= BillAmount
    BY <2>5, ProcurementAssumption DEF DueOf
  <2>7. PICK least : least = Min({due, rest})
    OBVIOUS
  <2>8. least \in {due, rest} /\ \A x \in {due, rest} : least <= x
    <3>1. {due, rest} \in SUBSET Nat /\ {due, rest} # {}
      OBVIOUS
    <3>2. QED
      BY <2>7, <3>1, MinIn
  <2>9. least \in Nat /\ supBill[s].paid + least <= BillAmount
    BY <2>5, <2>6, <2>8, ProcurementAssumption
  <2>10. QED
    BY <2>3, <2>4, <2>6, <2>7, <2>9
<1>2. QED
  BY <1>1 DEF AutoPlan

\* A payment is planned from what it reads, for locked bills and for new ones.
LEMMA PlanningKeeps ==
    ASSUME ProcureInv, NEW b \in Buyers, NEW amount \in 1 .. BillAmount, PlanPayment(b, amount)
    PROVE  ProcureInv'
<1>1. ProcureRows /\ b # None /\ amount \in Nat \ {0} /\ BillAmount \in Nat
  BY ProcurementAssumption DEF ProcureInv, None
<1>2. PICK plan \in {[s \in {r} |-> amount] : r \in {q \in Unpaid : AllocationFits(q, amount)}} \cup {AutoPlan(amount)} :
        LET bills == {s \in DOMAIN plan : plan[s] > 0}
        IN  Step(b, [at |-> "plan", pays |-> [s \in bills |-> plan[s]],
                     total |-> [s \in bills |-> supBill[s].paid + plan[s]]])
  BY DEF PlanPayment
<1>3. /\ DOMAIN plan \subseteq SupplierBills
      /\ \A s \in DOMAIN plan : plan[s] \in Nat /\ supBill[s].paid + plan[s] <= BillAmount
  <2>1. CASE plan = AutoPlan(amount)
    <3>1. amount \in Nat
      BY <1>1
    <3>2. /\ DOMAIN AutoPlan(amount) = Unpaid
          /\ \A s \in Unpaid : AutoPlan(amount)[s] \in Nat /\ supBill[s].paid + AutoPlan(amount)[s] <= BillAmount
      BY <1>1, <3>1, AutoPlanFits
    <3>3. Unpaid \subseteq SupplierBills
      BY DEF Unpaid
    <3>4. QED
      BY <2>1, <3>2, <3>3
  <2>2. CASE plan \in {[s \in {r} |-> amount] : r \in {q \in Unpaid : AllocationFits(q, amount)}}
    <3>1. PICK r \in Unpaid : AllocationFits(r, amount) /\ plan = [s \in {r} |-> amount]
      BY <2>2
    <3>2. DOMAIN plan = {r} /\ plan[r] = amount /\ r \in SupplierBills
      BY <3>1 DEF Unpaid
    <3>3. QED
      BY <1>1, <3>1, <3>2 DEF AllocationFits
  <2>3. QED
    BY <1>2, <2>1, <2>2
<1>4. PICK bills \in SUBSET SupplierBills : bills = {s \in DOMAIN plan : plan[s] > 0}
  BY <1>3
<1>5. PICK pays, total : pays = [s \in bills |-> plan[s]] /\ total = [s \in bills |-> supBill[s].paid + plan[s]]
  OBVIOUS
<1>6. PICK rec : rec = [at |-> "plan", pays |-> pays, total |-> total]
  OBVIOUS
<1>7. buyer' = [buyer EXCEPT ![b] = rec]
  BY <1>2, <1>4, <1>5, <1>6 DEF Step
<1>8. UNCHANGED <<tolerance, po, poLock, grns, grnLock, supBill, billLock, allocated, unlockedPay>>
  BY DEF PlanPayment, orderingVars, payableVars
<1>9. /\ buyer'[b] = rec /\ \A c \in Buyers \ {b} : buyer'[c] = buyer[c]
      /\ DOMAIN buyer' = Buyers /\ buyer' = [c \in Buyers |-> buyer'[c]]
  BY <1>1, <1>7 DEF ProcureRows
<1>10. rec.at = "plan" /\ rec.pays = pays /\ rec.total = total
  BY <1>6
<1>11. ProcureRows'
  BY <1>1, <1>8, <1>9, <1>10 DEF ProcureRows
<1>12. ASSUME NEW s \in bills
       PROVE  pays[s] \in Nat \ {0} /\ total[s] \in 1 .. BillAmount /\ total[s] = supBill[s].paid + pays[s]
  <2>1. plan[s] \in Nat \ {0} /\ supBill[s].paid + plan[s] <= BillAmount
    BY <1>3, <1>4
  <2>2. supBill[s].paid \in 0 .. BillAmount
    BY <1>1 DEF ProcureRows, BillRecord
  <2>3. pays[s] = plan[s] /\ total[s] = supBill[s].paid + plan[s]
    BY <1>5
  <2>4. QED
    BY <1>1, <2>1, <2>2, <2>3
<1>13. PlanHolds(b)'
  <2>1. DOMAIN pays = bills /\ bills \subseteq SupplierBills
    BY <1>5
  <2>2. \A s \in DOMAIN pays : /\ pays[s] \in Nat \ {0} /\ total[s] \in 1 .. BillAmount
                               /\ billLock'[s] = b => total[s] = supBill'[s].paid + pays[s]
    BY <1>8, <1>12, <2>1
  <2>3. buyer'[b].pays = pays /\ buyer'[b].total = total
    BY <1>9, <1>10
  <2>4. QED
    BY <2>1, <2>2, <2>3 DEF PlanHolds
<1>14. ASSUME NEW c \in Buyers PROVE BuyerHolds(c)'
  <2>1. CASE c = b
    BY <1>9, <1>10, <1>13, <2>1 DEF BuyerHolds
  <2>2. CASE c # b
    <3>1. /\ buyer[c].at = "settings" => po[buyer[c].po].status # "NONE"
          /\ buyer[c].at \in {"locked", "numbered"} => poLock[buyer[c].po] = c
      BY DEF ProcureInv, BuyerHolds, ReceiptFits
    <3>2. BuyerSpared(c)
      BY <1>8, <1>9, <2>2, <3>1 DEF BuyerSpared, BillsSpared
    <3>3. QED
      BY <3>2, BuyerSparedHolds DEF ProcureInv
  <2>3. QED
    BY <2>1, <2>2
<1>15. QED
  BY <1>8, <1>11, <1>14, OrderingAside, PayablesAside DEF ProcureInv

\* A payment adds its allocations and writes the totals it planned.
LEMMA PayingKeeps ==
    ASSUME ProcureInv, NEW b \in Buyers, CommitPayment(b)
    PROVE  ProcureInv'
<1>1. ProcureRows /\ b # None /\ BillAmount \in Nat \ {0}
  BY ProcurementAssumption DEF ProcureInv, None
<1>2. PICK pays, total : pays = buyer[b].pays /\ total = buyer[b].total
  OBVIOUS
<1>3. buyer[b].at = "plan" /\ EndBuyer(b) /\ UNCHANGED <<tolerance, po, grns>>
  BY DEF CommitPayment
<1>4. PlanHolds(b)
  BY <1>3 DEF ProcureInv, BuyerHolds
<1>5. /\ DOMAIN pays \subseteq SupplierBills
      /\ \A s \in DOMAIN pays : pays[s] \in Nat \ {0} /\ total[s] \in 1 .. BillAmount
      /\ \A s \in DOMAIN pays : billLock[s] = b => total[s] = supBill[s].paid + pays[s]
  BY <1>2, <1>4 DEF PlanHolds
<1>6. /\ \A s \in DOMAIN pays : billLock[s] \in {None, b}
      /\ allocated' = [s \in SupplierBills |-> allocated[s] + (IF s \in DOMAIN pays THEN pays[s] ELSE 0)]
      /\ supBill' = [s \in SupplierBills |-> IF s \in DOMAIN pays
                                             THEN [status |-> BillStatus(total[s]), paid |-> total[s]] ELSE supBill[s]]
      /\ unlockedPay' = unlockedPay \cup {s \in DOMAIN pays : billLock[s] # b}
  BY <1>2 DEF CommitPayment
<1>7. ASSUME NEW s \in DOMAIN pays
      PROVE  /\ supBill'[s] \in BillRecord /\ supBill'[s].paid = total[s] /\ supBill'[s].status \in {"PAID", "PARTIAL"}
             /\ allocated'[s] = allocated[s] + pays[s] /\ allocated'[s] \in Nat
  <2>1. s \in SupplierBills /\ total[s] \in 1 .. BillAmount /\ pays[s] \in Nat
    BY <1>5
  <2>2. BillStatus(total[s]) \in {"PAID", "PARTIAL"}
    BY <1>1, <2>1 DEF BillStatus
  <2>3. total[s] \in 0 .. BillAmount
    BY <2>1
  <2>4. PICK rec : rec = [status |-> BillStatus(total[s]), paid |-> total[s]]
    OBVIOUS
  <2>5. rec \in BillRecord /\ rec.paid = total[s] /\ rec.status \in {"PAID", "PARTIAL"}
    BY <2>2, <2>3, <2>4 DEF BillRecord
  <2>6. supBill'[s] = rec /\ allocated'[s] = allocated[s] + pays[s]
    BY <1>6, <2>1, <2>4
  <2>7. allocated[s] \in Nat
    BY <1>1, <2>1 DEF ProcureRows
  <2>8. QED
    BY <2>1, <2>5, <2>6, <2>7
<1>8. ASSUME NEW s \in SupplierBills, s \notin DOMAIN pays
      PROVE  supBill'[s] = supBill[s] /\ allocated'[s] = allocated[s]
  <2>1. allocated[s] \in Nat
    BY <1>1 DEF ProcureRows
  <2>2. supBill'[s] = supBill[s] /\ allocated'[s] = allocated[s] + 0
    BY <1>6, <1>8
  <2>3. QED
    BY <2>1, <2>2
<1>9. ProcureRows'
  <2>1. supBill' \in [SupplierBills -> BillRecord]
    BY <1>1, <1>6, <1>7, <1>8 DEF ProcureRows
  <2>2. allocated' \in [SupplierBills -> Nat]
    BY <1>1, <1>6, <1>7, <1>8 DEF ProcureRows
  <2>3. unlockedPay' \in SUBSET SupplierBills
    BY <1>1, <1>5, <1>6 DEF ProcureRows
  <2>4. QED
    BY <1>1, <1>3, <2>1, <2>2, <2>3, EndBuyerFrees DEF ProcureRows
<1>10. LockedUnpaid'
  <2>1. ASSUME NEW s \in SupplierBills, billLock'[s] # None PROVE supBill'[s].status \in {"OPEN", "PARTIAL"}
    <3>1. billLock[s] # None /\ billLock[s] # b
      BY <1>1, <1>3, <2>1, EndBuyerFrees
    <3>2. s \notin DOMAIN pays
      BY <1>6, <3>1
    <3>3. QED
      BY <1>8, <3>1, <3>2 DEF ProcureInv, LockedUnpaid
  <2>2. QED
    BY <2>1 DEF LockedUnpaid
<1>11. PaymentsMatchBills'
  <2>1. ASSUME NEW s \in SupplierBills \ unlockedPay'
        PROVE  /\ supBill'[s].paid = allocated'[s] /\ allocated'[s] <= BillAmount
               /\ supBill'[s].status = "VOID" => allocated'[s] = 0
    <3>1. /\ supBill[s].paid = allocated[s] /\ allocated[s] <= BillAmount
          /\ supBill[s].status = "VOID" => allocated[s] = 0
      BY <1>6 DEF ProcureInv, PaymentsMatchBills
    <3>2. CASE s \in DOMAIN pays
      <4>1. billLock[s] = b
        BY <1>6, <3>2
      <4>2. total[s] = supBill[s].paid + pays[s] /\ total[s] <= BillAmount
        BY <1>5, <3>2, <4>1
      <4>3. QED
        BY <1>7, <3>1, <3>2, <4>2
    <3>3. CASE s \notin DOMAIN pays
      BY <1>8, <3>1, <3>3
    <3>4. QED
      BY <3>2, <3>3
  <2>2. QED
    BY <2>1 DEF PaymentsMatchBills
<1>12. ASSUME NEW c \in Buyers PROVE BuyerHolds(c)'
  <2>1. CASE c = b
    BY <1>3, <2>1, EndBuyerFrees DEF BuyerHolds
  <2>2. CASE c # b
    <3>1. /\ buyer[c].at = "settings" => po[buyer[c].po].status # "NONE"
          /\ buyer[c].at \in {"locked", "numbered"} => buyer[c].po \in POs /\ poLock[buyer[c].po] = c
          /\ buyer[c].at = "numbered" => grnLock = c
          /\ c # None
      BY ProcurementAssumption DEF ProcureInv, BuyerHolds, ReceiptFits, None
    <3>2. BillsSpared(c)
      <4>1. ASSUME NEW s \in SupplierBills, billLock[s] = c PROVE supBill'[s] = supBill[s]
        BY <1>6, <1>8, <2>2, <3>1, <4>1
      <4>2. ASSUME NEW s \in SupplierBills, billLock'[s] = c PROVE billLock[s] = c
        BY <1>3, <3>1, <4>2, EndBuyerFrees
      <4>3. QED
        BY <4>1, <4>2 DEF BillsSpared
    <3>3. BuyerSpared(c)
      BY <1>3, <2>2, <3>1, <3>2, EndBuyerFrees DEF BuyerSpared
    <3>4. QED
      BY <3>3, BuyerSparedHolds DEF ProcureInv
  <2>3. QED
    BY <2>1, <2>2
<1>13. QED
  BY <1>3, <1>9, <1>10, <1>11, <1>12, OrderingAside DEF ProcureInv

\* Every step keeps orders, receipts, bills and payments sound.
LEMMA ProcureKeeps == ProcureInv /\ [ProcureNext]_procureVars => ProcureInv'
<1> SUFFICES ASSUME ProcureInv, [ProcureNext]_procureVars PROVE ProcureInv'
  OBVIOUS
<1>1. CASE UNCHANGED procureVars
  <2>1. UNCHANGED <<tolerance, po, poLock, grns, grnLock, supBill, billLock, allocated, unlockedPay, buyer>>
    BY <1>1 DEF procureVars
  <2>2. ProcureRows'
    BY <2>1 DEF ProcureInv, ProcureRows
  <2>3. ASSUME NEW b \in Buyers PROVE BuyerHolds(b)'
    BY <2>1 DEF ProcureInv, BuyerHolds, ReceiptFits, PlanHolds
  <2>4. QED
    BY <2>1, <2>2, <2>3, OrderingAside, PayablesAside DEF ProcureInv
<1>2. CASE \E n \in 0 .. MaxTolerance : SaveTolerance(n)
  BY <1>2, ToleranceKeeps
<1>3. CASE \E p \in POs : ActOnPo(p) \/ \E qty \in Quantities : CreatePo(p, qty) \/ UpdatePo(p, qty)
  BY <1>3, OrdersKeep
<1>4. CASE \E s \in SupplierBills : CreateSupplierBill(s) \/ VoidBill(s)
  BY <1>4, BillsKeep
<1>5. ASSUME NEW b \in Buyers,
             \/ \E p \in POs : BeginReceive(b, p)
             \/ \E qty \in Quantities : CheckReceipt(b, qty)
             \/ NumberReceipt(b)
             \/ \E s \in SupplierBills \cup {0} : CommitReceipts(b, s)
             \/ LockBills(b) \/ CommitPayment(b) \/ BuyerFails(b)
             \/ \E n \in 1 .. BillAmount : PlanPayment(b, n)
      PROVE  ProcureInv'
  <2>1. CASE (\E p \in POs : BeginReceive(b, p)) \/ (\E qty \in Quantities : CheckReceipt(b, qty)) \/ NumberReceipt(b)
    BY <2>1, ReceivingKeeps
  <2>2. CASE \E s \in SupplierBills \cup {0} : CommitReceipts(b, s)
    BY <2>2, ReceiptCommits
  <2>3. CASE LockBills(b) \/ CommitPayment(b) \/ BuyerFails(b)
    BY <2>3, LockingKeeps, PayingKeeps, BuyerFailKeeps
  <2>4. CASE \E n \in 1 .. BillAmount : PlanPayment(b, n)
    BY <2>4, PlanningKeeps
  <2>5. QED
    BY <1>5, <2>1, <2>2, <2>3, <2>4
<1>6. QED
  BY <1>1, <1>2, <1>3, <1>4, <1>5 DEF ProcureNext

\* Nothing is ordered, received or owed at the start.
LEMMA ProcureStarts == ProcureInit => ProcureInv
<1> SUFFICES ASSUME ProcureInit PROVE ProcureInv
  OBVIOUS
<1>1. IsFiniteSet(grns) /\ grns = {} /\ Cardinality(grns) = 0
  BY FS_EmptySet DEF ProcureInit
<1>2. /\ po \in [POs -> PoRecord]
      /\ \A p \in POs, l \in PoLines : po[p].received[l] = 0 /\ po[p].ordered[l] = 0
  <2>1. PICK zero : zero = [l \in PoLines |-> 0]
    OBVIOUS
  <2>2. zero \in Quantities /\ zero \in [PoLines -> Nat] /\ \A l \in PoLines : zero[l] = 0
    BY <2>1, ProcurementAssumption DEF Quantities
  <2>3. po = [p \in POs |-> [status |-> "NONE", ordered |-> zero, received |-> zero]]
    BY <2>1 DEF ProcureInit
  <2>4. QED
    BY <2>2, <2>3 DEF PoRecord, PoStatuses
<1>3. supBill \in [SupplierBills -> BillRecord] /\ allocated \in [SupplierBills -> Nat]
  BY ProcurementAssumption DEF ProcureInit, BillRecord
<1>4. BuyerIdle.at = "idle" /\ DOMAIN buyer = Buyers /\ buyer = [b \in Buyers |-> buyer[b]]
  BY DEF ProcureInit, BuyerIdle
<1>5. \A b \in Buyers : buyer[b].at = "idle"
  BY <1>4 DEF ProcureInit
<1>6. poLock \in [POs -> Buyers \cup {None}] /\ grnLock \in Buyers \cup {None} /\ billLock \in [SupplierBills -> Buyers \cup {None}]
  BY DEF ProcureInit
<1>7. tolerance \in 0 .. MaxTolerance /\ unlockedPay = {}
  BY ProcurementAssumption DEF ProcureInit
<1>8. ProcureRows
  BY <1>1, <1>2, <1>3, <1>4, <1>5, <1>6, <1>7 DEF ProcureRows
<1>9. ReceiptsAddUp
  <2>1. ASSUME NEW p \in POs, NEW l \in PoLines PROVE Total(GrnsOf(p), QtyOf(l)) = 0
    <3>1. GrnsOf(p) = {}
      BY <1>1 DEF GrnsOf
    <3>2. QED
      BY <3>1, FS_EmptySet, TotalStep
  <2>2. QED
    BY <1>2, <2>1, ProcurementAssumption DEF ReceiptsAddUp
<1>10. GrnNumbersGapless
  BY <1>1 DEF GrnNumbersGapless
<1>11. LockedUnpaid /\ PaymentsMatchBills
  BY ProcurementAssumption DEF ProcureInit, LockedUnpaid, PaymentsMatchBills
<1>12. \A b \in Buyers : BuyerHolds(b)
  BY <1>5 DEF BuyerHolds
<1>13. QED
  BY <1>8, <1>9, <1>10, <1>11, <1>12 DEF ProcureInv

\* The invariant implies what procurement promises.
LEMMA ProcurePromises == ProcureInv => ProcureTypeOK /\ ProcurementSound
<1> SUFFICES ASSUME ProcureInv PROVE ProcureTypeOK /\ ProcurementSound
  OBVIOUS
<1>1. ProcureRows
  BY DEF ProcureInv
<1>2. ProcureTypeOK
  <2>1. \A p \in POs : po[p].status \in PoStatuses /\ po[p].ordered \in Quantities /\ po[p].received \in [PoLines -> Nat]
    BY <1>1 DEF ProcureRows, PoRecord
  <2>2. \A g \in grns : g.number \in Nat /\ g.po \in POs
    BY <1>1 DEF ProcureRows, GrnRecord
  <2>3. supBill \in [SupplierBills -> [status: {"NONE", "OPEN", "PARTIAL", "PAID", "VOID"}, paid: 0 .. BillAmount]]
    BY <1>1 DEF ProcureRows, BillRecord
  <2>4. QED
    BY <1>1, <2>1, <2>2, <2>3 DEF ProcureRows, ProcureTypeOK
<1>3. ReceiptsWithinOrder
  <2>1. ASSUME NEW p \in POs, NEW l \in PoLines
        PROVE  /\ po[p].received[l] = MapThenSumSet(LAMBDA g : g.qty[l], {g \in grns : g.po = p})
               /\ po[p].received[l] <= po[p].ordered[l] + MaxTolerance
    <3>1. GrnsOf(p) \in SUBSET GrnRecord /\ IsFiniteSet(GrnsOf(p))
      BY <1>1, FS_Subset DEF ProcureRows, GrnsOf
    <3>2. GrnSum(GrnsOf(p), l) = Total(GrnsOf(p), QtyOf(l))
      BY <3>1, GrnTotal
    <3>3. MapThenSumSet(LAMBDA g : g.qty[l], {g \in grns : g.po = p}) = GrnSum(GrnsOf(p), l)
      BY DEF GrnSum, GrnsOf
    <3>4. QED
      BY <3>2, <3>3 DEF ProcureInv, ReceiptsAddUp
  <2>2. QED
    BY <2>1 DEF ReceiptsWithinOrder
<1>4. QED
  BY <1>2, <1>3 DEF ProcureInv, ProcurementSound

\* Goods and money are booked once: receipts add up to what orders show and stay
\* within them, receipts are numbered without a gap, and bills paid under their
\* lock show what was allocated to them.
THEOREM ProcurementCorrect == ProcureSpec => [](ProcureTypeOK /\ ProcurementSound)
BY ProcureStarts, ProcureKeeps, ProcurePromises, PTL DEF ProcureSpec

----------------------------------------------------------------------------
(* Payroll and salary advances. *)

AdvanceRecord == [status : {"NONE", "OPEN", "CLOSED"}, owner : Members, since : Months,
                  amount : Units, monthly : Units, recovered : Units]
RunRecord == [status : {"NONE", "DRAFT", "FINALISED"}, slips : SUBSET Members,
              due : [Members -> Owed], recovery : [Members -> Owed]]
AdvancesOf(p) == {a \in Advances : adv[a].owner = p}
Finalised == {m \in Months : payRun[m].status = "FINALISED"}
RecoveredOn == [a \in Advances |-> adv[a].recovered]
RecoveryOf(p) == [m \in Months |-> payRun[m].recovery[p]]
LeftOn == [a \in Advances |-> Outstanding(a)]

PayRows ==
    /\ adv \in [Advances -> AdvanceRecord] /\ payRun \in [Months -> RunRecord]
    /\ runLock \in [Months -> Payers \cup {Nobody}] /\ advLock \in [Advances -> Payers \cup {Nobody}]
    /\ DOMAIN payer = Payers /\ payer = [c \in Payers |-> payer[c]]
    /\ \A c \in Payers : payer[c].at \in {"idle", "draft", "finalise"}

\* Nothing is recovered on an advance before it is given, or from someone without a payslip.
RowsSound ==
    /\ \A a \in Advances : adv[a].status = "NONE" => adv[a].recovered = 0
    /\ \A m \in Months, p \in Members : p \notin payRun[m].slips => payRun[m].recovery[p] = 0

\* RecoveriesBooked, as totals
BookedTotals == \A p \in Members : Total(AdvancesOf(p), RecoveredOn) = Total(Finalised, RecoveryOf(p))

\* What a draft being computed will write.
DraftHolds(c) ==
    LET m == payer[c].run IN
    /\ m \in Months /\ runLock[m] = c /\ payRun[m].status # "FINALISED"
    /\ payer[c].slips \in SUBSET Members /\ payer[c].due \in [Members -> Owed]

\* What a finalisation has taken so far: for the members it is done with, their
\* payslips' recoveries, from open advances it holds locked.
FinaliseHolds(c) ==
    LET m == payer[c].run  take == payer[c].take IN
    /\ m \in Months /\ runLock[m] = c /\ payRun[m].status = "DRAFT"
    /\ payer[c].recovery = payRun[m].recovery
    /\ take \in [Advances -> Nat]
    /\ \A a \in Advances : take[a] > 0 => /\ advLock[a] = c /\ adv[a].status = "OPEN"
                                          /\ take[a] <= Outstanding(a)
    /\ \A p \in Members : IF p \in payer[c].todo THEN \A a \in AdvancesOf(p) : take[a] = 0
                          ELSE Total(AdvancesOf(p), take) = payRun[m].recovery[p]

\* the fields of a finalisation, which RecoverFrom updates one by one
FinaliseShape(c) == {"at", "run", "recovery", "todo", "take"} \subseteq DOMAIN payer[c]

PayerHolds(c) == /\ payer[c].at = "draft" => DraftHolds(c)
                 /\ payer[c].at = "finalise" => FinaliseHolds(c) /\ FinaliseShape(c)

PayInv == PayRows /\ RowsSound /\ BookedTotals /\ NeverOverRecovered /\ \A c \in Payers : PayerHolds(c)

\* The assumption, part by part.
LEMMA PayrollFacts ==
    /\ Months \subseteq Nat /\ IsFiniteSet(Months) /\ Months # {} /\ Members # {}
    /\ Advances \subseteq Nat /\ IsFiniteSet(Advances) /\ MaxAdvance \in Nat \ {0} /\ Nobody \notin Payers
BY PayrollAssumption, Zenon DEF Nobody

\* What was recovered on a set of advances, as a total.
RecoveredSum(S) == MapThenSumSet(LAMBDA a : adv[a].recovered, S)
LEMMA RecoveredSumTotal ==
    ASSUME NEW S \in SUBSET Advances, IsFiniteSet(S)
    PROVE  RecoveredSum(S) = Total(S, RecoveredOn)
<1>1. PICK h : h = RecoveredOn
  OBVIOUS
<1> DEFINE Sums(g) == g = [s \in SUBSET S |-> IF s = {} THEN 0 ELSE adv[Chosen(s)].recovered + g[s \ {Chosen(s)}]]
<1>2. RecoveredSum(S) = (CHOOSE g : Sums(g))[S]
  BY DEF RecoveredSum, MapThenSumSet, MapThenFoldSet, Chosen
<1>3. ASSUME NEW g PROVE Sums(g) <=> SumsUp(S, h, g)
  <2>1. \A s \in SUBSET S : s # {} => h[Chosen(s)] = adv[Chosen(s)].recovered
    BY <1>1 DEF Chosen, RecoveredOn
  <2>2. [s \in SUBSET S |-> IF s = {} THEN 0 ELSE adv[Chosen(s)].recovered + g[s \ {Chosen(s)}]]
          = [s \in SUBSET S |-> IF s = {} THEN 0 ELSE h[Chosen(s)] + g[s \ {Chosen(s)}]]
    BY <2>1
  <2>3. QED
    BY <2>2 DEF SumsUp
<1> HIDE DEF Sums
<1>4. \E g : Sums(g)
  BY <1>3, SumExists
<1>5. PICK f : f = CHOOSE g : Sums(g)
  OBVIOUS
<1>6. SumsUp(S, h, f)
  BY <1>3, <1>4, <1>5
<1>7. Total(S, h) = f[S]
  BY <1>6, TotalIs
<1>8. QED
  BY <1>1, <1>2, <1>5, <1>7

\* What the payslips of a member recover in a set of months.
RecoverySum(S, p) == MapThenSumSet(LAMBDA m : payRun[m].recovery[p], S)
LEMMA RecoverySumTotal ==
    ASSUME NEW S \in SUBSET Months, IsFiniteSet(S), NEW p
    PROVE  RecoverySum(S, p) = Total(S, RecoveryOf(p))
<1>1. PICK h : h = RecoveryOf(p)
  OBVIOUS
<1> DEFINE Sums(g) == g = [s \in SUBSET S |-> IF s = {} THEN 0 ELSE payRun[Chosen(s)].recovery[p] + g[s \ {Chosen(s)}]]
<1>2. RecoverySum(S, p) = (CHOOSE g : Sums(g))[S]
  BY DEF RecoverySum, MapThenSumSet, MapThenFoldSet, Chosen
<1>3. ASSUME NEW g PROVE Sums(g) <=> SumsUp(S, h, g)
  <2>1. \A s \in SUBSET S : s # {} => h[Chosen(s)] = payRun[Chosen(s)].recovery[p]
    BY <1>1 DEF Chosen, RecoveryOf
  <2>2. [s \in SUBSET S |-> IF s = {} THEN 0 ELSE payRun[Chosen(s)].recovery[p] + g[s \ {Chosen(s)}]]
          = [s \in SUBSET S |-> IF s = {} THEN 0 ELSE h[Chosen(s)] + g[s \ {Chosen(s)}]]
    BY <2>1
  <2>3. QED
    BY <2>2 DEF SumsUp
<1> HIDE DEF Sums
<1>4. \E g : Sums(g)
  BY <1>3, SumExists
<1>5. PICK f : f = CHOOSE g : Sums(g)
  OBVIOUS
<1>6. SumsUp(S, h, f)
  BY <1>3, <1>4, <1>5
<1>7. Total(S, h) = f[S]
  BY <1>6, TotalIs
<1>8. QED
  BY <1>1, <1>2, <1>5, <1>7

\* What is left on a set of advances.
LeftSum(S) == MapThenSumSet(Outstanding, S)
LEMMA LeftSumTotal ==
    ASSUME NEW S \in SUBSET Advances, IsFiniteSet(S)
    PROVE  LeftSum(S) = Total(S, LeftOn)
<1>1. PICK h : h = LeftOn
  OBVIOUS
<1> DEFINE Sums(g) == g = [s \in SUBSET S |-> IF s = {} THEN 0 ELSE Outstanding(Chosen(s)) + g[s \ {Chosen(s)}]]
<1>2. LeftSum(S) = (CHOOSE g : Sums(g))[S]
  BY DEF LeftSum, MapThenSumSet, MapThenFoldSet, Chosen
<1>3. ASSUME NEW g PROVE Sums(g) <=> SumsUp(S, h, g)
  <2>1. \A s \in SUBSET S : s # {} => h[Chosen(s)] = Outstanding(Chosen(s))
    BY <1>1 DEF Chosen, LeftOn
  <2>2. [s \in SUBSET S |-> IF s = {} THEN 0 ELSE Outstanding(Chosen(s)) + g[s \ {Chosen(s)}]]
          = [s \in SUBSET S |-> IF s = {} THEN 0 ELSE h[Chosen(s)] + g[s \ {Chosen(s)}]]
    BY <2>1
  <2>3. QED
    BY <2>2 DEF SumsUp
<1> HIDE DEF Sums
<1>4. \E g : Sums(g)
  BY <1>3, SumExists
<1>5. PICK f : f = CHOOSE g : Sums(g)
  OBVIOUS
<1>6. SumsUp(S, h, f)
  BY <1>3, <1>4, <1>5
<1>7. Total(S, h) = f[S]
  BY <1>6, TotalIs
<1>8. QED
  BY <1>1, <1>2, <1>5, <1>7

\* What a payslip should recover.
InstalmentOn == [a \in Advances |-> Min({adv[a].monthly, Outstanding(a)})]
InstalmentSum(S) == MapThenSumSet(LAMBDA a : Min({adv[a].monthly, Outstanding(a)}), S)
LEMMA InstalmentSumTotal ==
    ASSUME NEW S \in SUBSET Advances, IsFiniteSet(S)
    PROVE  InstalmentSum(S) = Total(S, InstalmentOn)
<1>1. PICK h : h = InstalmentOn
  OBVIOUS
<1> DEFINE Sums(g) == g = [s \in SUBSET S |-> IF s = {} THEN 0 ELSE Min({adv[Chosen(s)].monthly, Outstanding(Chosen(s))}) + g[s \ {Chosen(s)}]]
<1>2. InstalmentSum(S) = (CHOOSE g : Sums(g))[S]
  BY DEF InstalmentSum, MapThenSumSet, MapThenFoldSet, Chosen
<1>3. ASSUME NEW g PROVE Sums(g) <=> SumsUp(S, h, g)
  <2>1. \A s \in SUBSET S : s # {} => h[Chosen(s)] = Min({adv[Chosen(s)].monthly, Outstanding(Chosen(s))})
    BY <1>1 DEF Chosen, InstalmentOn
  <2>2. [s \in SUBSET S |-> IF s = {} THEN 0 ELSE Min({adv[Chosen(s)].monthly, Outstanding(Chosen(s))}) + g[s \ {Chosen(s)}]]
          = [s \in SUBSET S |-> IF s = {} THEN 0 ELSE h[Chosen(s)] + g[s \ {Chosen(s)}]]
    BY <2>1
  <2>3. QED
    BY <2>2 DEF SumsUp
<1> HIDE DEF Sums
<1>4. \E g : Sums(g)
  BY <1>3, SumExists
<1>5. PICK f : f = CHOOSE g : Sums(g)
  OBVIOUS
<1>6. SumsUp(S, h, f)
  BY <1>3, <1>4, <1>5
<1>7. Total(S, h) = f[S]
  BY <1>6, TotalIs
<1>8. QED
  BY <1>1, <1>2, <1>5, <1>7

\* What is left on an advance is a number of units.
LEMMA LeftUnits ==
    ASSUME PayRows, NeverOverRecovered, NEW a \in Advances
    PROVE  /\ Outstanding(a) \in Units /\ adv[a].recovered \in Units /\ adv[a].monthly \in Units
           /\ adv[a].amount \in Units /\ Units \subseteq Nat
           /\ adv[a].amount = adv[a].recovered + Outstanding(a)
<1>1. adv[a].recovered \in Units /\ adv[a].monthly \in Units /\ adv[a].amount \in Units
  BY DEF PayRows, AdvanceRecord
<1>2. adv[a].recovered <= adv[a].amount
  BY DEF NeverOverRecovered
<1>3. PICK amount \in Nat, recovered \in Nat : /\ amount = adv[a].amount /\ recovered = adv[a].recovered
                                               /\ recovered <= amount /\ amount <= MaxAdvance
  BY <1>1, <1>2, PayrollFacts DEF Units
<1>4. amount - recovered \in 0 .. MaxAdvance /\ amount = recovered + (amount - recovered)
  BY <1>3, PayrollFacts
<1>5. Outstanding(a) = amount - recovered
  BY <1>3 DEF Outstanding
<1>6. Units \subseteq Nat
  BY DEF Units
<1>7. QED
  BY <1>1, <1>3, <1>4, <1>5, <1>6 DEF Units

\* What a payslip should recover is at most what all advances could be.
LEMMA DueOwed ==
    ASSUME PayRows, NeverOverRecovered, NEW p \in Members, NEW m \in Months
    PROVE  AdvanceDue(p, m) \in Owed
<1>1. PICK S \in SUBSET Advances : S = {a \in OpenAdvances(p) : adv[a].since <= m}
  BY DEF OpenAdvances
<1>2. IsFiniteSet(S)
  BY PayrollFacts, FS_Subset
<1>3. AdvanceDue(p, m) = Total(S, InstalmentOn)
  <2>1. AdvanceDue(p, m) = InstalmentSum(S)
    BY <1>1 DEF AdvanceDue, InstalmentSum
  <2>2. QED
    BY <1>2, <2>1, InstalmentSumTotal
<1>4. ASSUME NEW a \in S PROVE InstalmentOn[a] \in 0 .. MaxAdvance
  <2>1. PICK monthly \in Units, left \in Units : monthly = adv[a].monthly /\ left = Outstanding(a)
    BY LeftUnits
  <2>2. PICK least : least = Min({monthly, left})
    OBVIOUS
  <2>3. {monthly, left} \in SUBSET Nat /\ {monthly, left} # {}
    BY DEF Units
  <2>4. least \in {monthly, left}
    BY <2>2, <2>3, MinIn
  <2>5. least \in 0 .. MaxAdvance
    BY <2>4 DEF Units
  <2>6. QED
    BY <2>1, <2>2, <2>5 DEF InstalmentOn
<1>5. MaxAdvance \in Nat
  BY PayrollFacts
<1>6. Total(S, InstalmentOn) \in 0 .. MaxAdvance * Cardinality(S)
  BY <1>2, <1>4, <1>5, TotalAtMost
<1>7. /\ MaxAdvance * Cardinality(S) <= MaxAdvance * Cardinality(Advances)
      /\ MaxAdvance * Cardinality(S) \in Int /\ MaxAdvance * Cardinality(Advances) \in Int
  <2>1. PICK n \in Nat, k \in Nat : n = Cardinality(S) /\ n + k = Cardinality(Advances)
    <3>1. Cardinality(S) \in Nat /\ Cardinality(Advances) \in Nat /\ Cardinality(S) <= Cardinality(Advances)
      BY PayrollFacts, FS_Subset, FS_CardinalityType
    <3>2. Cardinality(Advances) - Cardinality(S) \in Nat
      BY <3>1
    <3>3. Cardinality(S) + (Cardinality(Advances) - Cardinality(S)) = Cardinality(Advances)
      BY <3>1
    <3>4. QED
      BY <3>1, <3>2, <3>3
  <2>2. MaxAdvance * (n + k) = MaxAdvance * n + MaxAdvance * k /\ MaxAdvance * k \in Nat /\ MaxAdvance * n \in Nat
    BY <1>5
  <2>3. QED
    BY <2>1, <2>2
<1>8. QED
  BY <1>3, <1>6, <1>7 DEF Owed

\* What an action of c leaves the others: their runs, and the advances they hold.
RunsSpared(c) == \A m \in Months : runLock[m] \notin {c, Nobody} => runLock'[m] = runLock[m] /\ payRun'[m] = payRun[m]
AdvancesSpared(c) ==
    \A a \in Advances : /\ adv'[a].owner = adv[a].owner
                        /\ advLock[a] \notin {c, Nobody} => advLock'[a] = advLock[a] /\ adv'[a] = adv[a]

\* They go on holding what they read.
LEMMA OthersHold ==
    ASSUME PayInv, NEW c, NEW d \in Payers, d # c, payer'[d] = payer[d], RunsSpared(c), AdvancesSpared(c)
    PROVE  PayerHolds(d)'
<1>1. PayRows /\ d # Nobody
  BY PayrollFacts DEF PayInv
<1>2. ASSUME payer[d].at = "draft" PROVE DraftHolds(d)'
  <2>1. DraftHolds(d)
    BY <1>2 DEF PayInv, PayerHolds
  <2>2. QED
    BY <1>1, <2>1 DEF DraftHolds, RunsSpared
<1>3. ASSUME payer[d].at = "finalise" PROVE FinaliseHolds(d)'
  <2>1. FinaliseHolds(d)
    BY <1>3 DEF PayInv, PayerHolds
  <2>2. PICK m \in Months : m = payer[d].run
    BY <2>1 DEF FinaliseHolds
  <2>3. PICK take \in [Advances -> Nat] : take = payer[d].take
    BY <2>1 DEF FinaliseHolds
  <2>4. runLock[m] = d /\ payRun[m].status = "DRAFT" /\ payer[d].recovery = payRun[m].recovery
    BY <2>1, <2>2 DEF FinaliseHolds
  <2>5. runLock'[m] = d /\ payRun'[m] = payRun[m]
    BY <1>1, <2>4 DEF RunsSpared
  <2>6. ASSUME NEW a \in Advances, take[a] > 0
        PROVE  advLock'[a] = d /\ adv'[a].status = "OPEN" /\ take[a] <= Outstanding(a)'
    <3>1. advLock[a] = d /\ adv[a].status = "OPEN" /\ take[a] <= Outstanding(a)
      BY <2>1, <2>3, <2>6 DEF FinaliseHolds
    <3>2. advLock'[a] = d /\ adv'[a] = adv[a]
      BY <1>1, <3>1 DEF AdvancesSpared
    <3>3. Outstanding(a)' = Outstanding(a)
      BY <3>2 DEF Outstanding
    <3>4. QED
      BY <3>1, <3>2, <3>3
  <2>7. ASSUME NEW p \in Members
        PROVE  IF p \in payer[d].todo THEN \A a \in AdvancesOf(p)' : take[a] = 0
               ELSE Total(AdvancesOf(p)', take) = payRun[m].recovery[p]
    <3>1. AdvancesOf(p)' = AdvancesOf(p)
      BY DEF AdvancesOf, AdvancesSpared
    <3>2. QED
      BY <2>1, <2>2, <2>3, <3>1 DEF FinaliseHolds
  <2>8. QED
    BY <2>2, <2>3, <2>4, <2>5, <2>6, <2>7 DEF FinaliseHolds
<1>4. payer[d].at = "finalise" => FinaliseShape(d)'
  BY DEF PayInv, PayerHolds, FinaliseShape
<1>5. QED
  BY <1>2, <1>3, <1>4 DEF PayerHolds

\* Finalised runs stay as they are, and none becomes one.
FinalisedStay == \A m \in Months : /\ payRun'[m].status = "FINALISED" <=> payRun[m].status = "FINALISED"
                                   /\ payRun[m].status = "FINALISED" => payRun'[m] = payRun[m]

\* While no advance changes, what is booked agrees.
LEMMA BookedStay ==
    ASSUME PayInv, UNCHANGED adv, FinalisedStay
    PROVE  BookedTotals' /\ NeverOverRecovered'
<1>1. \A p \in Members : AdvancesOf(p)' = AdvancesOf(p)
  BY DEF AdvancesOf
<1>2. RecoveredOn' = RecoveredOn /\ Finalised' = Finalised
  BY DEF RecoveredOn, Finalised, FinalisedStay
<1>3. ASSUME NEW p \in Members PROVE Total(AdvancesOf(p)', RecoveredOn') = Total(Finalised', RecoveryOf(p)')
  <2>1. IsFiniteSet(Finalised) /\ Finalised \subseteq Months
    BY PayrollFacts, FS_Subset DEF Finalised
  <2>2. PICK h1 : h1 = RecoveryOf(p)
    OBVIOUS
  <2>3. PICK h2 : h2 = RecoveryOf(p)'
    OBVIOUS
  <2>4. \A m \in Finalised : h1[m] = h2[m]
    BY <2>1, <2>2, <2>3 DEF RecoveryOf, FinalisedStay, Finalised
  <2>5. Total(Finalised, h1) = Total(Finalised, h2)
    BY <2>1, <2>4, TotalSame
  <2>6. Total(AdvancesOf(p), RecoveredOn) = Total(Finalised, RecoveryOf(p))
    BY DEF PayInv, BookedTotals
  <2>7. QED
    BY <1>1, <1>2, <2>2, <2>3, <2>5, <2>6
<1>4. BookedTotals'
  BY <1>3 DEF BookedTotals
<1>5. NeverOverRecovered'
  BY DEF PayInv, NeverOverRecovered
<1>6. QED
  BY <1>4, <1>5

\* An advance that is given is nobody's yet, and nothing is recovered on it.
LEMMA GivingKeeps ==
    ASSUME PayInv, NEW a \in Advances, NEW p \in Members, NEW m \in Months, GiveAdvance(a, p, m)
    PROVE  PayInv'
<1>1. PayRows /\ RowsSound /\ NeverOverRecovered
  BY DEF PayInv
<1>2. PICK amount \in Units \ {0} : \E monthly \in 1 .. amount :
        adv' = [adv EXCEPT ![a] = [status |-> "OPEN", owner |-> p, since |-> m,
                                   amount |-> amount, monthly |-> monthly, recovered |-> 0]]
  BY DEF GiveAdvance
<1>3. PICK monthly \in 1 .. amount :
        adv' = [adv EXCEPT ![a] = [status |-> "OPEN", owner |-> p, since |-> m,
                                   amount |-> amount, monthly |-> monthly, recovered |-> 0]]
  BY <1>2
<1>4. PICK new : new = [status |-> "OPEN", owner |-> p, since |-> m,
                        amount |-> amount, monthly |-> monthly, recovered |-> 0]
  OBVIOUS
<1>5. amount \in Nat \ {0} /\ amount \in Units /\ monthly \in Units /\ 0 \in Units
  BY PayrollFacts DEF Units
<1>6. /\ new \in AdvanceRecord /\ new.status = "OPEN" /\ new.owner = p /\ new.recovered = 0 /\ new.amount = amount
  BY <1>4, <1>5 DEF AdvanceRecord
<1>7. adv' = [adv EXCEPT ![a] = new]
  BY <1>3, <1>4
<1>8. adv'[a] = new /\ \A x \in Advances \ {a} : adv'[x] = adv[x]
  BY <1>1, <1>7 DEF PayRows
<1>9. adv[a].status = "NONE" /\ adv[a].recovered = 0 /\ UNCHANGED <<payRun, runLock, advLock, payer>>
  BY <1>1 DEF GiveAdvance, RowsSound
<1>10. PayRows'
  BY <1>1, <1>6, <1>7, <1>9 DEF PayRows
<1>11. RowsSound'
  BY <1>1, <1>6, <1>8, <1>9 DEF RowsSound
<1>12. NeverOverRecovered'
  BY <1>1, <1>5, <1>6, <1>8 DEF NeverOverRecovered
<1>13. \A x \in Advances : RecoveredOn[x] \in Int
  BY <1>1, LeftUnits DEF RecoveredOn
<1>14. RecoveredOn' = RecoveredOn /\ RecoveredOn[a] = 0
  <2>1. \A x \in Advances : adv'[x].recovered = adv[x].recovered
    BY <1>6, <1>8, <1>9
  <2>2. QED
    BY <1>9, <2>1 DEF RecoveredOn
<1>15. ASSUME NEW q \in Members, NEW h, \A x \in Advances : h[x] \in Int, h[a] = 0
       PROVE  Total(AdvancesOf(q)', h) = Total(AdvancesOf(q), h)
  <2>1. PICK S \in SUBSET Advances : S = AdvancesOf(q)
    BY DEF AdvancesOf
  <2>2. PICK T \in SUBSET Advances : T = AdvancesOf(q)'
    BY DEF AdvancesOf
  <2>3. S \ {a} = T \ {a}
    BY <1>8, <2>1, <2>2 DEF AdvancesOf
  <2>4. IsFiniteSet(S) /\ IsFiniteSet(T)
    BY PayrollFacts, FS_Subset
  <2>5. \A x \in S \cup T : h[x] \in Int
    BY <1>15
  <2>6. Total(S, h) = Total(T, h)
    BY <1>15, <2>3, <2>4, <2>5, TotalAside
  <2>7. QED
    BY <2>1, <2>2, <2>6
<1>16. BookedTotals'
  <2>1. Finalised' = Finalised /\ \A q \in Members : RecoveryOf(q)' = RecoveryOf(q)
    BY <1>9 DEF Finalised, RecoveryOf
  <2>2. \A q \in Members : Total(AdvancesOf(q)', RecoveredOn) = Total(AdvancesOf(q), RecoveredOn)
    BY <1>13, <1>14, <1>15
  <2>3. QED
    BY <1>14, <2>1, <2>2 DEF PayInv, BookedTotals
<1>17. ASSUME NEW d \in Payers PROVE PayerHolds(d)'
  <2>1. ASSUME payer[d].at = "draft" PROVE DraftHolds(d)'
    <3>1. DraftHolds(d)
      BY <2>1 DEF PayInv, PayerHolds
    <3>2. QED
      BY <1>9, <3>1 DEF DraftHolds
  <2>2. ASSUME payer[d].at = "finalise" PROVE FinaliseHolds(d)'
    <3>1. FinaliseHolds(d)
      BY <2>2 DEF PayInv, PayerHolds
    <3>2. PICK r \in Months : r = payer[d].run
      BY <3>1 DEF FinaliseHolds
    <3>3. PICK take \in [Advances -> Nat] : take = payer[d].take
      BY <3>1 DEF FinaliseHolds
    <3>4. runLock[r] = d /\ payRun[r].status = "DRAFT" /\ payer[d].recovery = payRun[r].recovery
      BY <3>1, <3>2 DEF FinaliseHolds
    <3>5. take[a] = 0
      <4>1. ~(take[a] > 0)
        BY <1>9, <3>1, <3>3 DEF FinaliseHolds
      <4>2. QED
        BY <4>1
    <3>6. ASSUME NEW x \in Advances, take[x] > 0
          PROVE  advLock'[x] = d /\ adv'[x].status = "OPEN" /\ take[x] <= Outstanding(x)'
      <4>1. x # a
        BY <3>5, <3>6
      <4>2. advLock[x] = d /\ adv[x].status = "OPEN" /\ take[x] <= Outstanding(x)
        BY <3>1, <3>3, <3>6 DEF FinaliseHolds
      <4>3. adv'[x] = adv[x]
        BY <1>8, <4>1
      <4>4. Outstanding(x)' = Outstanding(x)
        BY <4>3 DEF Outstanding
      <4>5. QED
        BY <1>9, <4>2, <4>3, <4>4
    <3>7. ASSUME NEW q \in Members
          PROVE  IF q \in payer[d].todo THEN \A x \in AdvancesOf(q)' : take[x] = 0
                 ELSE Total(AdvancesOf(q)', take) = payRun[r].recovery[q]
      <4>1. IF q \in payer[d].todo THEN \A x \in AdvancesOf(q) : take[x] = 0
            ELSE Total(AdvancesOf(q), take) = payRun[r].recovery[q]
        BY <3>1, <3>2, <3>3 DEF FinaliseHolds
      <4>2. \A x \in AdvancesOf(q)' : x = a \/ x \in AdvancesOf(q)
        BY <1>8 DEF AdvancesOf
      <4>3. Total(AdvancesOf(q)', take) = Total(AdvancesOf(q), take)
        BY <1>15, <3>5
      <4>4. QED
        BY <3>5, <4>1, <4>2, <4>3
    <3>8. QED
      BY <1>9, <3>2, <3>3, <3>4, <3>6, <3>7 DEF FinaliseHolds
  <2>3. payer[d].at = "finalise" => FinaliseShape(d)'
    BY <1>9 DEF PayInv, PayerHolds, FinaliseShape
  <2>4. QED
    BY <1>9, <2>1, <2>2, <2>3 DEF PayerHolds
<1>18. QED
  BY <1>10, <1>11, <1>12, <1>16, <1>17 DEF PayInv

\* A step of c, or of nobody, that books nothing.
LEMMA UnbookedKeeps ==
    ASSUME PayInv, NEW c, UNCHANGED adv, PayRows', RowsSound', FinalisedStay,
           RunsSpared(c), \A a \in Advances : advLock[a] \notin {c, Nobody} => advLock'[a] = advLock[a],
           \A d \in Payers : d # c => payer'[d] = payer[d], c \in Payers => PayerHolds(c)'
    PROVE  PayInv'
<1>1. AdvancesSpared(c)
  BY DEF AdvancesSpared
<1>2. \A d \in Payers : PayerHolds(d)'
  BY <1>1, OthersHold
<1>3. QED
  BY <1>2, BookedStay DEF PayInv

\* The smaller of two amounts owed is one of them.
LEMMA RecoveryOwed ==
    ASSUME NEW due \in Owed, NEW left \in Units
    PROVE  AdvanceRecovery(due, left) \in Owed
<1>1. PICK limit \in Nat : limit = MaxAdvance * Cardinality(Advances)
  <2>1. PICK k \in Nat, n \in Nat : k = MaxAdvance /\ n = Cardinality(Advances)
    BY PayrollFacts, FS_CardinalityType
  <2>2. k * n \in Nat
    OBVIOUS
  <2>3. QED
    BY <2>1, <2>2
<1>2. due \in Nat /\ left \in Nat /\ due <= limit
  BY <1>1 DEF Owed, Units
<1>3. PICK least : least = Min({due, left})
  OBVIOUS
<1>4. {due, left} \in SUBSET Nat /\ {due, left} # {}
  BY <1>2
<1>5. least \in {due, left} /\ \A x \in {due, left} : least <= x
  BY <1>3, <1>4, MinIn
<1>6. least \in Nat /\ least <= limit
  BY <1>2, <1>5
<1>7. QED
  BY <1>1, <1>3, <1>6 DEF AdvanceRecovery, Owed

\* A payslip is recomputed, or a draft deleted, while nobody holds the run.
LEMMA DraftsKeep ==
    ASSUME PayInv, NEW m \in Months
    PROVE  DeleteDraft(m) \/ (\E p \in Members : UpdatePayslip(m, p)) => PayInv'
<1>1. PayRows /\ RowsSound /\ 0 \in Owed
  <2>1. PICK k \in Nat, n \in Nat : k = MaxAdvance /\ n = Cardinality(Advances)
    BY PayrollFacts, FS_CardinalityType
  <2>2. k * n \in Nat
    OBVIOUS
  <2>3. 0 \in Owed
    BY <2>1, <2>2 DEF Owed
  <2>4. QED
    BY <2>3 DEF PayInv
<1>2. ASSUME NEW new \in RunRecord, payRun' = [payRun EXCEPT ![m] = new],
             runLock[m] = Nobody, payRun[m].status = "DRAFT", new.status # "FINALISED",
             \A p \in Members : p \notin new.slips => new.recovery[p] = 0,
             UNCHANGED <<adv, runLock, advLock, payer>>
      PROVE  PayInv'
  <2>1. payRun'[m] = new /\ \A x \in Months \ {m} : payRun'[x] = payRun[x]
    BY <1>1, <1>2 DEF PayRows
  <2>2. PayRows'
    BY <1>1, <1>2 DEF PayRows
  <2>3. RowsSound'
    BY <1>1, <1>2, <2>1 DEF RowsSound
  <2>4. FinalisedStay /\ RunsSpared(Nobody)
    BY <1>2, <2>1 DEF FinalisedStay, RunsSpared
  <2>5. QED
    BY <1>2, <2>2, <2>3, <2>4, PayrollFacts, UnbookedKeeps
<1>3. ASSUME DeleteDraft(m) PROVE PayInv'
  <2>1. PICK new : new = NoRun
    OBVIOUS
  <2>2. new.status = "NONE" /\ new.slips = {} /\ \A p \in Members : new.recovery[p] = 0
    BY <2>1 DEF NoRun
  <2>3. new \in RunRecord
    BY <1>1, <2>1 DEF NoRun, RunRecord
  <2>4. QED
    BY <1>2, <1>3, <2>1, <2>2, <2>3 DEF DeleteDraft
<1>4. ASSUME NEW p \in Members, UpdatePayslip(m, p) PROVE PayInv'
  <2>1. PICK left \in Units : payRun' = [payRun EXCEPT ![m].recovery[p] = AdvanceRecovery(payRun[m].due[p], left)]
    BY <1>4 DEF UpdatePayslip
  <2>2. payRun[m] \in RunRecord
    BY <1>1 DEF PayRows
  <2>3. PICK amount \in Owed : amount = AdvanceRecovery(payRun[m].due[p], left)
    <3>1. payRun[m].due[p] \in Owed
      BY <2>2 DEF RunRecord
    <3>2. QED
      BY <3>1, RecoveryOwed
  <2>4. PICK more : more = [payRun[m].recovery EXCEPT ![p] = amount]
    OBVIOUS
  <2>5. more \in [Members -> Owed] /\ \A q \in Members \ {p} : more[q] = payRun[m].recovery[q]
    BY <2>2, <2>4 DEF RunRecord
  <2>6. PICK new : new = [payRun[m] EXCEPT !.recovery = more]
    OBVIOUS
  <2>7. new \in RunRecord /\ new.recovery = more /\ new.slips = payRun[m].slips /\ new.status = payRun[m].status
    BY <2>2, <2>5, <2>6 DEF RunRecord
  <2>8. payRun' = [payRun EXCEPT ![m] = new]
    BY <1>1, <2>1, <2>2, <2>3, <2>4, <2>6 DEF PayRows, RunRecord
  <2>9. \A q \in Members : q \notin new.slips => new.recovery[q] = 0
    BY <1>1, <1>4, <2>5, <2>7 DEF UpdatePayslip, RowsSound
  <2>10. QED
    BY <1>2, <1>4, <2>7, <2>8, <2>9 DEF UpdatePayslip
<1>5. QED
  BY <1>3, <1>4

\* What ends releases the rows of its own.
LEMMA ReleasedFrees ==
    ASSUME PayRows, NEW c \in Payers, Released(c)
    PROVE  /\ payer'[c].at = "idle" /\ \A d \in Payers : d # c => payer'[d] = payer[d]
           /\ DOMAIN payer' = Payers /\ payer' = [d \in Payers |-> payer'[d]]
           /\ \A d \in Payers : payer'[d].at \in {"idle", "draft", "finalise"}
           /\ runLock' \in [Months -> Payers \cup {Nobody}] /\ advLock' \in [Advances -> Payers \cup {Nobody}]
           /\ \A m \in Months : runLock[m] # c => runLock'[m] = runLock[m]
           /\ \A a \in Advances : advLock[a] # c => advLock'[a] = advLock[a]
<1>1. payer' = [payer EXCEPT ![c] = PayerIdle] /\ PayerIdle.at = "idle"
  BY DEF Released, PayerIdle
<1>2. QED
  BY <1>1 DEF PayRows, Released

\* A request that is rolled back books nothing.
LEMMA RollBackKeeps ==
    ASSUME PayInv, NEW c \in Payers, RollBack(c)
    PROVE  PayInv'
<1>1. Released(c) /\ UNCHANGED <<adv, payRun>> /\ PayRows /\ RowsSound
  BY DEF RollBack, PayInv
<1>2. PayRows'
  BY <1>1, ReleasedFrees DEF PayRows
<1>3. RowsSound'
  BY <1>1 DEF RowsSound
<1>4. RunsSpared(c) /\ FinalisedStay
  BY <1>1, ReleasedFrees DEF RunsSpared, FinalisedStay
<1>5. PayerHolds(c)'
  BY <1>1, ReleasedFrees DEF PayerHolds
<1>6. QED
  BY <1>1, <1>2, <1>3, <1>4, <1>5, ReleasedFrees, UnbookedKeeps

\* A draft is begun under the run's lock, from what the advances leave to recover.
LEMMA DraftingBegins ==
    ASSUME PayInv, NEW c \in Payers, NEW m \in Months, NEW active \in SUBSET Members, BeginDraft(c, m, active)
    PROVE  PayInv'
<1>1. PayRows /\ RowsSound /\ NeverOverRecovered /\ c # Nobody
  BY PayrollFacts DEF PayInv
<1>2. PICK due : due = [p \in Members |-> IF p \in active THEN AdvanceDue(p, m) ELSE 0]
  OBVIOUS
<1>3. due \in [Members -> Owed]
  <2>1. PICK k \in Nat, n \in Nat : k = MaxAdvance /\ n = Cardinality(Advances)
    BY PayrollFacts, FS_CardinalityType
  <2>2. k * n \in Nat
    OBVIOUS
  <2>3. 0 \in Owed
    BY <2>1, <2>2 DEF Owed
  <2>4. \A p \in Members : AdvanceDue(p, m) \in Owed
    BY <1>1, DueOwed
  <2>5. QED
    BY <1>2, <2>3, <2>4
<1>4. PICK rec : rec = [at |-> "draft", run |-> m, slips |-> active, due |-> due]
  OBVIOUS
<1>5. /\ runLock[m] = Nobody /\ runLock' = [runLock EXCEPT ![m] = c] /\ payRun[m].status # "FINALISED"
      /\ payer' = [payer EXCEPT ![c] = rec] /\ UNCHANGED <<adv, payRun, advLock>>
  BY <1>2, <1>4 DEF BeginDraft, LockRun
<1>6. rec.at = "draft" /\ rec.run = m /\ rec.slips = active /\ rec.due = due
  BY <1>4
<1>7. /\ payer'[c] = rec /\ \A d \in Payers : d # c => payer'[d] = payer[d]
      /\ DOMAIN payer' = Payers /\ payer' = [d \in Payers |-> payer'[d]]
  BY <1>1, <1>5 DEF PayRows
<1>8. runLock'[m] = c /\ \A x \in Months : x # m => runLock'[x] = runLock[x]
  BY <1>1, <1>5 DEF PayRows
<1>9. PayRows'
  BY <1>1, <1>5, <1>6, <1>7 DEF PayRows
<1>10. RowsSound'
  BY <1>1, <1>5 DEF RowsSound
<1>11. RunsSpared(c) /\ FinalisedStay
  BY <1>5, <1>8 DEF RunsSpared, FinalisedStay
<1>12. DraftHolds(c)'
  BY <1>3, <1>5, <1>6, <1>7, <1>8 DEF DraftHolds
<1>13. PayerHolds(c)'
  BY <1>6, <1>7, <1>12 DEF PayerHolds
<1>14. QED
  BY <1>5, <1>7, <1>9, <1>10, <1>11, <1>13, UnbookedKeeps

\* The draft is written, a payslip for each active member and none for the others.
LEMMA DraftingCommits ==
    ASSUME PayInv, NEW c \in Payers, CommitDraft(c)
    PROVE  PayInv'
<1>1. PayRows /\ RowsSound /\ c # Nobody
  BY PayrollFacts DEF PayInv
<1>2. payer[c].at = "draft" /\ Released(c) /\ UNCHANGED adv
  BY DEF CommitDraft
<1>3. DraftHolds(c)
  BY <1>2 DEF PayInv, PayerHolds
<1>4. PICK m \in Months : m = payer[c].run
  BY <1>3 DEF DraftHolds
<1>5. PICK slips \in SUBSET Members, due \in [Members -> Owed] : slips = payer[c].slips /\ due = payer[c].due
  BY <1>3 DEF DraftHolds
<1>6. runLock[m] = c /\ payRun[m].status # "FINALISED"
  BY <1>3, <1>4 DEF DraftHolds
<1>7. PICK left \in [slips -> Units] :
        payRun' = [payRun EXCEPT ![m] =
            [status |-> "DRAFT", slips |-> slips, due |-> due,
             recovery |-> [p \in Members |-> IF p \in slips THEN AdvanceRecovery(due[p], left[p]) ELSE 0]]]
  <2>1. PICK left \in [payer[c].slips -> Units] :
          payRun' = [payRun EXCEPT ![payer[c].run] =
              [status |-> "DRAFT", slips |-> payer[c].slips, due |-> payer[c].due,
               recovery |-> [p \in Members |-> IF p \in payer[c].slips
                                               THEN AdvanceRecovery(payer[c].due[p], left[p]) ELSE 0]]]
    BY DEF CommitDraft
  <2>2. QED
    BY <1>4, <1>5, <2>1
<1>8. PICK recovery : recovery = [p \in Members |-> IF p \in slips THEN AdvanceRecovery(due[p], left[p]) ELSE 0]
  OBVIOUS
<1>9. recovery \in [Members -> Owed] /\ \A p \in Members : p \notin slips => recovery[p] = 0
  <2>1. PICK k \in Nat, n \in Nat : k = MaxAdvance /\ n = Cardinality(Advances)
    BY PayrollFacts, FS_CardinalityType
  <2>2. k * n \in Nat
    OBVIOUS
  <2>3. 0 \in Owed
    BY <2>1, <2>2 DEF Owed
  <2>4. \A p \in slips : AdvanceRecovery(due[p], left[p]) \in Owed
    BY RecoveryOwed
  <2>5. QED
    BY <1>8, <2>3, <2>4
<1>10. PICK new : new = [status |-> "DRAFT", slips |-> slips, due |-> due, recovery |-> recovery]
  OBVIOUS
<1>11. new \in RunRecord /\ new.status = "DRAFT" /\ new.slips = slips /\ new.recovery = recovery
  BY <1>9, <1>10 DEF RunRecord
<1>12. payRun' = [payRun EXCEPT ![m] = new]
  BY <1>7, <1>8, <1>10
<1>13. payRun'[m] = new /\ \A x \in Months : x # m => payRun'[x] = payRun[x]
  BY <1>1, <1>12 DEF PayRows
<1>14. PayRows'
  BY <1>1, <1>2, <1>11, <1>12, ReleasedFrees DEF PayRows
<1>15. RowsSound'
  BY <1>1, <1>2, <1>9, <1>11, <1>13 DEF RowsSound
<1>16. RunsSpared(c) /\ FinalisedStay
  BY <1>1, <1>2, <1>6, <1>11, <1>13, ReleasedFrees DEF RunsSpared, FinalisedStay
<1>17. PayerHolds(c)'
  BY <1>1, <1>2, ReleasedFrees DEF PayerHolds
<1>18. QED
  BY <1>1, <1>2, <1>14, <1>15, <1>16, <1>17, ReleasedFrees, UnbookedKeeps

\* A finalisation begins with nothing taken, and those to recover from still to do.
LEMMA FinalisingBegins ==
    ASSUME PayInv, NEW c \in Payers, NEW m \in Months, BeginFinalise(c, m)
    PROVE  PayInv'
<1>1. PayRows /\ RowsSound /\ c # Nobody
  BY PayrollFacts DEF PayInv
<1>2. PICK take : take = [a \in Advances |-> 0]
  OBVIOUS
<1>3. PICK todo : todo = {p \in payRun[m].slips : payRun[m].recovery[p] > 0}
  OBVIOUS
<1>4. PICK rec : rec = [at |-> "finalise", run |-> m, recovery |-> payRun[m].recovery, todo |-> todo, take |-> take]
  OBVIOUS
<1>5. /\ runLock[m] = Nobody /\ runLock' = [runLock EXCEPT ![m] = c] /\ payRun[m].status = "DRAFT"
      /\ payer' = [payer EXCEPT ![c] = rec] /\ UNCHANGED <<adv, payRun, advLock>>
  BY <1>2, <1>3, <1>4 DEF BeginFinalise, LockRun
<1>6. rec.at = "finalise" /\ rec.run = m /\ rec.recovery = payRun[m].recovery /\ rec.todo = todo /\ rec.take = take
  BY <1>4
<1>7. /\ payer'[c] = rec /\ \A d \in Payers : d # c => payer'[d] = payer[d]
      /\ DOMAIN payer' = Payers /\ payer' = [d \in Payers |-> payer'[d]]
  BY <1>1, <1>5 DEF PayRows
<1>8. runLock'[m] = c /\ \A x \in Months : x # m => runLock'[x] = runLock[x]
  BY <1>1, <1>5 DEF PayRows
<1>9. PayRows'
  BY <1>1, <1>5, <1>6, <1>7 DEF PayRows
<1>10. RowsSound'
  BY <1>1, <1>5 DEF RowsSound
<1>11. RunsSpared(c) /\ FinalisedStay
  BY <1>5, <1>8 DEF RunsSpared, FinalisedStay
<1>12. take \in [Advances -> Nat] /\ \A a \in Advances : take[a] = 0 /\ ~(take[a] > 0)
  BY <1>2
<1>13. ASSUME NEW p \in Members
       PROVE  IF p \in todo THEN \A a \in AdvancesOf(p)' : take[a] = 0
              ELSE Total(AdvancesOf(p)', take) = payRun[m].recovery[p]
  <2>1. CASE p \in todo
    BY <1>12, <2>1 DEF AdvancesOf
  <2>2. CASE p \notin todo
    <3>1. payRun[m].recovery[p] \in Nat
      BY <1>1 DEF PayRows, RunRecord, Owed
    <3>2. payRun[m].recovery[p] = 0
      BY <1>1, <1>3, <2>2, <3>1 DEF RowsSound
    <3>3. PICK S \in SUBSET Advances : S = AdvancesOf(p)'
      BY DEF AdvancesOf
    <3>4. IsFiniteSet(S)
      BY PayrollFacts, FS_Subset
    <3>5. Total(S, take) = 0
      BY <1>12, <3>4, TotalZero
    <3>6. QED
      BY <2>2, <3>2, <3>3, <3>5
  <2>3. QED
    BY <2>1, <2>2
<1>14. FinaliseHolds(c)'
  BY <1>5, <1>6, <1>7, <1>8, <1>12, <1>13 DEF FinaliseHolds
<1>15. FinaliseShape(c)'
  BY <1>4, <1>7 DEF FinaliseShape
<1>16. PayerHolds(c)'
  BY <1>6, <1>7, <1>14, <1>15 DEF PayerHolds
<1>17. QED
  BY <1>5, <1>7, <1>9, <1>10, <1>11, <1>16, UnbookedKeeps

\* The order of the advances, as a set of pairs.
OlderPairs == {ab \in Advances \X Advances : Older(ab[1], ab[2])}
LEMMA OlderOrders ==
    ASSUME PayRows, NEW R \in SUBSET Advances
    PROVE  Ordered(R, OlderPairs) /\ \A a \in R : Preceding(R, OlderPairs, a) = {b \in R : Older(b, a)}
<1>1. \A a \in Advances : a \in Nat /\ adv[a].since \in Nat
  BY PayrollFacts DEF PayRows, AdvanceRecord
<1>2. \A a, b \in R : <<a, b>> \in OlderPairs <=> Older(a, b)
  BY DEF OlderPairs
<1>3. \A a, b, c \in R : /\ ~Older(a, a)
                         /\ a = b \/ Older(a, b) \/ Older(b, a)
                         /\ Older(a, b) /\ Older(b, c) => Older(a, c)
  BY <1>1 DEF Older
<1>4. Ordered(R, OlderPairs)
  BY <1>2, <1>3 DEF Ordered
<1>5. \A a \in R : Preceding(R, OlderPairs, a) = {b \in R : Older(b, a)}
  BY <1>2 DEF Preceding
<1>6. QED
  BY <1>4, <1>5

\* Oldest first, what a payslip recovers is taken from the member's open advances.
LEMMA TakingIsWhole ==
    ASSUME PayRows, NeverOverRecovered, NEW R \in SUBSET Advances, NEW n \in Nat, NEW take,
           n <= MapThenSumSet(Outstanding, R), \A a \in R : take[a] = TakeFrom(a, R, n)
    PROVE  Total(R, take) = n /\ \A a \in R : take[a] \in Nat /\ take[a] <= Outstanding(a)
<1>1. \A S \in SUBSET Advances : IsFiniteSet(S)
  BY PayrollFacts, FS_Subset
<1>2. \A S \in SUBSET Advances : MapThenSumSet(Outstanding, S) = Total(S, LeftOn)
  BY <1>1, LeftSumTotal DEF LeftSum
<1>3. \A a \in R : LeftOn[a] \in Nat /\ LeftOn[a] = Outstanding(a)
  BY LeftUnits DEF LeftOn
<1>4. Greedy(R, OlderPairs, LeftOn, n, take)
  <2>1. ASSUME NEW a \in R
        PROVE  take[a] = IF Total(Preceding(R, OlderPairs, a), LeftOn) >= n THEN 0
                         ELSE Min({LeftOn[a], n - Total(Preceding(R, OlderPairs, a), LeftOn)})
    <3>1. PICK S \in SUBSET Advances : S = {b \in R : Older(b, a)}
      OBVIOUS
    <3>2. Preceding(R, OlderPairs, a) = S
      BY <3>1, OlderOrders
    <3>3. PICK r : r = MapThenSumSet(Outstanding, S)
      OBVIOUS
    <3>4. r = Total(S, LeftOn)
      BY <1>2, <3>3
    <3>5. take[a] = IF r >= n THEN 0 ELSE Min({Outstanding(a), n - r})
      BY <3>1, <3>3 DEF TakeFrom
    <3>6. QED
      BY <1>3, <3>2, <3>4, <3>5
  <2>2. QED
    BY <2>1 DEF Greedy
<1>5. Ordered(R, OlderPairs)
  BY OlderOrders
<1>6. n <= Total(R, LeftOn)
  BY <1>2
<1>7. IsFiniteSet(R)
  BY <1>1
<1>8. \A a \in R : LeftOn[a] \in Nat
  BY <1>3
<1>9. Total(R, take) = n /\ \A a \in R : take[a] \in Nat /\ take[a] <= LeftOn[a]
  BY <1>4, <1>5, <1>6, <1>7, <1>8, GreedyTakesAll
<1>10. QED
  BY <1>3, <1>9

\* The next member's advances are locked, and the recovery shared among them.
LEMMA RecoveringKeeps ==
    ASSUME PayInv, NEW c \in Payers, NEW p \in Members, RecoverFrom(c, p)
    PROVE  PayInv'
<1>1. PayRows /\ RowsSound /\ NeverOverRecovered /\ c # Nobody
  BY PayrollFacts DEF PayInv
<1>2. FinaliseHolds(c) /\ FinaliseShape(c) /\ payer[c].at = "finalise" /\ p \in payer[c].todo
  BY DEF RecoverFrom, PayInv, PayerHolds
<1>3. PICK m \in Months : m = payer[c].run
  BY <1>2 DEF FinaliseHolds
<1>4. PICK take \in [Advances -> Nat] : take = payer[c].take
  BY <1>2 DEF FinaliseHolds
<1>5. PICK todo : todo = payer[c].todo
  OBVIOUS
<1>6. PICK n \in Nat : n = payRun[m].recovery[p]
  BY <1>1 DEF PayRows, RunRecord, Owed
<1>7. runLock[m] = c /\ payRun[m].status = "DRAFT" /\ payer[c].recovery = payRun[m].recovery
  BY <1>2, <1>3 DEF FinaliseHolds
<1>8. PICK R \in SUBSET Advances : R = OpenAdvances(p)
  BY DEF OpenAdvances
<1>9. PICK took : took = [a \in Advances |-> IF a \in R THEN TakeFrom(a, R, n) ELSE take[a]]
  OBVIOUS
<1>10. /\ \A a \in R : advLock[a] \in {Nobody, c}
       /\ n <= MapThenSumSet(Outstanding, R)
       /\ advLock' = [a \in Advances |-> IF a \in R THEN c ELSE advLock[a]]
       /\ UNCHANGED <<adv, payRun, runLock>>
  BY <1>6, <1>7, <1>8 DEF RecoverFrom
<1>11. payer' = [payer EXCEPT ![c].todo = todo \ {p}, ![c].take = took]
  <2>1. payer' = [payer EXCEPT ![c].todo = @ \ {p},
                               ![c].take = [a \in Advances |-> IF a \in R THEN TakeFrom(a, R, n) ELSE @[a]]]
    BY <1>6, <1>7, <1>8 DEF RecoverFrom
  <2>2. QED
    BY <1>1, <1>2, <1>4, <1>5, <1>9, <2>1 DEF PayRows, FinaliseShape
<1>12. PICK rec : rec = payer'[c]
  OBVIOUS
<1>13. rec = [payer[c] EXCEPT !.todo = todo \ {p}, !.take = took]
  BY <1>1, <1>11, <1>12 DEF PayRows
<1>14. /\ rec.at = "finalise" /\ rec.run = m /\ rec.recovery = payRun[m].recovery /\ rec.todo = todo \ {p} /\ rec.take = took
       /\ DOMAIN rec = DOMAIN payer[c]
  BY <1>2, <1>3, <1>7, <1>13 DEF FinaliseShape
<1>15. /\ \A d \in Payers : d # c => payer'[d] = payer[d]
       /\ DOMAIN payer' = Payers /\ payer' = [d \in Payers |-> payer'[d]]
  BY <1>1, <1>11 DEF PayRows
<1>16. Total(R, took) = n /\ \A a \in R : took[a] \in Nat /\ took[a] <= Outstanding(a)
  <2>1. \A a \in R : took[a] = TakeFrom(a, R, n)
    BY <1>9
  <2>2. QED
    BY <1>1, <1>10, <2>1, TakingIsWhole
<1>17. \A a \in Advances \ R : took[a] = take[a]
  BY <1>9
<1>18. took \in [Advances -> Nat]
  <2>1. \A a \in Advances : took[a] \in Nat
    BY <1>16, <1>17
  <2>2. QED
    BY <1>9, <2>1
<1>19. \A a \in R : adv[a].status = "OPEN" /\ adv[a].owner = p
  BY <1>8 DEF OpenAdvances
<1>20. ASSUME NEW a \in Advances, took[a] > 0
       PROVE  advLock'[a] = c /\ adv'[a].status = "OPEN" /\ took[a] <= Outstanding(a)'
  <2>1. adv' = adv /\ Outstanding(a)' = Outstanding(a)
    BY <1>10 DEF Outstanding
  <2>2. CASE a \in R
    BY <1>10, <1>16, <1>19, <2>1, <2>2
  <2>3. CASE a \notin R
    <3>1. take[a] > 0 /\ took[a] = take[a]
      BY <1>17, <1>20, <2>3
    <3>2. advLock[a] = c /\ adv[a].status = "OPEN" /\ take[a] <= Outstanding(a)
      BY <1>2, <1>4, <3>1 DEF FinaliseHolds
    <3>3. QED
      BY <1>10, <2>1, <2>3, <3>1, <3>2
  <2>4. QED
    BY <2>2, <2>3
<1>21. ASSUME NEW q \in Members
       PROVE  IF q \in todo \ {p} THEN \A a \in AdvancesOf(q)' : took[a] = 0
              ELSE Total(AdvancesOf(q)', took) = payRun[m].recovery[q]
  <2>1. PICK S \in SUBSET Advances : S = AdvancesOf(q)
    BY DEF AdvancesOf
  <2>2. AdvancesOf(q)' = S
    BY <1>10, <2>1 DEF AdvancesOf
  <2>3. IF q \in todo THEN \A a \in S : take[a] = 0 ELSE Total(S, take) = payRun[m].recovery[q]
    BY <1>2, <1>3, <1>4, <1>5, <2>1 DEF FinaliseHolds
  <2>4. IsFiniteSet(S)
    BY PayrollFacts, FS_Subset
  <2>5. CASE q = p
    <3>1. R \subseteq S
      BY <1>19, <2>1, <2>5 DEF AdvancesOf
    <3>2. \A a \in S \ R : took[a] = 0
      BY <1>2, <1>5, <1>17, <2>3, <2>5
    <3>3. \A a \in S : took[a] \in Int
      BY <1>18
    <3>4. Total(S, took) = Total(R, took)
      BY <2>4, <3>1, <3>2, <3>3, TotalRest
    <3>5. QED
      BY <1>6, <1>16, <2>2, <2>5, <3>4
  <2>6. CASE q # p
    <3>1. \A a \in S : took[a] = take[a]
      BY <1>17, <1>19, <2>1, <2>6 DEF AdvancesOf
    <3>2. Total(S, took) = Total(S, take)
      BY <2>4, <3>1, TotalSame
    <3>3. QED
      BY <2>2, <2>3, <2>6, <3>1, <3>2
  <2>7. QED
    BY <2>5, <2>6
<1>22. FinaliseHolds(c)'
  BY <1>7, <1>10, <1>12, <1>14, <1>18, <1>20, <1>21 DEF FinaliseHolds
<1>23. FinaliseShape(c)'
  BY <1>2, <1>12, <1>14 DEF FinaliseShape
<1>24. PayerHolds(c)'
  BY <1>12, <1>14, <1>22, <1>23 DEF PayerHolds
<1>25. advLock' \in [Advances -> Payers \cup {Nobody}]
  BY <1>1, <1>10 DEF PayRows
<1>26. \A d \in Payers : payer'[d].at \in {"idle", "draft", "finalise"}
  BY <1>1, <1>12, <1>14, <1>15 DEF PayRows
<1>27. PayRows'
  BY <1>1, <1>10, <1>15, <1>25, <1>26 DEF PayRows
<1>28. RowsSound'
  BY <1>1, <1>10 DEF RowsSound
<1>29. RunsSpared(c) /\ FinalisedStay
  BY <1>10 DEF RunsSpared, FinalisedStay
<1>30. \A a \in Advances : advLock[a] \notin {c, Nobody} => advLock'[a] = advLock[a]
  BY <1>10
<1>31. QED
  BY <1>10, <1>15, <1>24, <1>27, <1>28, <1>29, <1>30, UnbookedKeeps

\* A finalised run's recoveries are booked on the advances they were taken from.
LEMMA FinalisingCommits ==
    ASSUME PayInv, NEW c \in Payers, CommitFinalise(c)
    PROVE  PayInv'
<1>1. PayRows /\ RowsSound /\ NeverOverRecovered /\ c # Nobody
  BY PayrollFacts DEF PayInv
<1>2. payer[c].at = "finalise" /\ payer[c].todo = {} /\ Released(c)
  BY DEF CommitFinalise
<1>3. FinaliseHolds(c)
  BY <1>2 DEF PayInv, PayerHolds
<1>4. PICK m \in Months : m = payer[c].run
  BY <1>3 DEF FinaliseHolds
<1>5. PICK take \in [Advances -> Nat] : take = payer[c].take
  BY <1>3 DEF FinaliseHolds
<1>6. runLock[m] = c /\ payRun[m].status = "DRAFT"
  BY <1>3, <1>4 DEF FinaliseHolds
<1>7. \A p \in Members : Total(AdvancesOf(p), take) = payRun[m].recovery[p]
  BY <1>2, <1>3, <1>4, <1>5 DEF FinaliseHolds
<1>8. /\ adv' = [a \in Advances |-> Booked(a, take[a])]
      /\ payRun' = [payRun EXCEPT ![m].status = "FINALISED"]
  BY <1>4, <1>5 DEF CommitFinalise
<1>9. ASSUME NEW a \in Advances
      PROVE  /\ adv'[a] \in AdvanceRecord /\ adv'[a].owner = adv[a].owner
             /\ adv'[a].recovered = adv[a].recovered + take[a]
             /\ adv'[a].status = "NONE" => adv'[a].recovered = 0
             /\ adv'[a].recovered <= adv'[a].amount
             /\ adv'[a].status = "CLOSED" <=> adv'[a].status # "NONE" /\ adv'[a].recovered = adv'[a].amount
             /\ take[a] = 0 => adv'[a] = adv[a]
  <2>1. adv[a] \in AdvanceRecord /\ adv[a].recovered \in Nat /\ adv[a].amount \in Nat
    BY <1>1, LeftUnits DEF PayRows
  <2>2. adv'[a] = Booked(a, take[a])
    BY <1>8
  <2>3. CASE take[a] = 0
    <3>1. adv'[a] = adv[a]
      BY <2>2, <2>3 DEF Booked
    <3>2. adv[a].recovered + 0 = adv[a].recovered
      BY <2>1
    <3>3. QED
      BY <1>1, <2>1, <2>3, <3>1, <3>2 DEF RowsSound, NeverOverRecovered
  <2>4. CASE take[a] # 0
    <3>1. take[a] \in Nat /\ take[a] > 0
      BY <2>4
    <3>2. adv[a].status = "OPEN" /\ take[a] <= Outstanding(a)
      BY <1>3, <1>5, <3>1 DEF FinaliseHolds
    <3>3. PICK more \in Nat : more = adv[a].recovered + take[a] /\ more <= adv[a].amount
      <4>1. Outstanding(a) \in Nat /\ adv[a].amount = adv[a].recovered + Outstanding(a)
        BY <1>1, LeftUnits
      <4>2. PICK r \in Nat, left \in Nat : r = adv[a].recovered /\ left = Outstanding(a)
        BY <2>1, <4>1
      <4>3. r + take[a] \in Nat /\ r + take[a] <= r + left
        BY <3>1, <3>2, <4>2
      <4>4. QED
        BY <4>1, <4>2, <4>3
    <3>4. more \in Units
      BY <1>1, <2>1, <3>3, LeftUnits, PayrollFacts DEF Units
    <3>5. PICK status \in {"OPEN", "CLOSED"} : status = IF more >= adv[a].amount THEN "CLOSED" ELSE "OPEN"
      OBVIOUS
    <3>6. adv'[a] = [adv[a] EXCEPT !.recovered = more, !.status = status]
      BY <2>1, <2>2, <2>4, <3>3, <3>5 DEF Booked, AdvanceRecord
    <3>7. /\ adv'[a] \in AdvanceRecord /\ adv'[a].owner = adv[a].owner /\ adv'[a].recovered = more
          /\ adv'[a].amount = adv[a].amount /\ adv'[a].status = status
      BY <2>1, <3>4, <3>6 DEF AdvanceRecord
    <3>8. status = "CLOSED" <=> more = adv[a].amount
      BY <2>1, <3>3, <3>5
    <3>9. QED
      BY <2>4, <3>3, <3>5, <3>7, <3>8
  <2>5. QED
    BY <2>3, <2>4
<1>10. PICK new : new = [payRun[m] EXCEPT !.status = "FINALISED"]
  OBVIOUS
<1>11. payRun[m] \in RunRecord
  BY <1>1 DEF PayRows
<1>12. new \in RunRecord /\ new.status = "FINALISED" /\ new.slips = payRun[m].slips /\ new.recovery = payRun[m].recovery
  BY <1>10, <1>11 DEF RunRecord
<1>13. /\ payRun' = [payRun EXCEPT ![m] = new] /\ payRun'[m] = new
       /\ \A x \in Months : x # m => payRun'[x] = payRun[x]
  BY <1>1, <1>8, <1>10 DEF PayRows
<1>14. PayRows'
  <2>1. adv' \in [Advances -> AdvanceRecord]
    BY <1>8, <1>9
  <2>2. payRun' \in [Months -> RunRecord]
    BY <1>1, <1>12, <1>13 DEF PayRows
  <2>3. QED
    BY <1>1, <1>2, <2>1, <2>2, ReleasedFrees DEF PayRows
<1>15. RowsSound'
  BY <1>1, <1>9, <1>12, <1>13 DEF RowsSound
<1>16. NeverOverRecovered'
  BY <1>9 DEF NeverOverRecovered
<1>17. ASSUME NEW p \in Members PROVE Total(AdvancesOf(p)', RecoveredOn') = Total(Finalised', RecoveryOf(p)')
  <2>1. PICK S \in SUBSET Advances : S = AdvancesOf(p)
    BY DEF AdvancesOf
  <2>2. AdvancesOf(p)' = S
    BY <1>9, <2>1 DEF AdvancesOf
  <2>3. PICK r1, r2 : r1 = RecoveredOn /\ r2 = RecoveredOn'
    OBVIOUS
  <2>4. \A a \in S : r1[a] \in Int /\ take[a] \in Int /\ r2[a] = r1[a] + take[a]
    <3>1. \A a \in Advances : adv[a].recovered \in Int
      BY <1>1, LeftUnits
    <3>2. QED
      BY <1>9, <2>3, <3>1 DEF RecoveredOn
  <2>5. IsFiniteSet(S)
    BY PayrollFacts, FS_Subset
  <2>6. Total(S, r2) = Total(S, r1) + Total(S, take)
    BY <2>4, <2>5, TotalAdd
  <2>7. PICK F \in SUBSET Months : F = Finalised
    BY DEF Finalised
  <2>8. Finalised' = F \cup {m} /\ m \notin F
    BY <1>6, <1>12, <1>13, <2>7 DEF Finalised
  <2>9. PICK h : h = RecoveryOf(p)
    OBVIOUS
  <2>10. RecoveryOf(p)' = h
    <3>1. \A x \in Months : payRun'[x].recovery = payRun[x].recovery
      BY <1>12, <1>13
    <3>2. QED
      BY <2>9, <3>1 DEF RecoveryOf
  <2>11. \A x \in Months : h[x] \in Nat /\ h[x] = payRun[x].recovery[p]
    BY <1>1, <2>9 DEF RecoveryOf, PayRows, RunRecord, Owed
  <2>12. IsFiniteSet(F)
    BY PayrollFacts, FS_Subset
  <2>13. Total(F \cup {m}, h) = h[m] + Total(F, h)
    <3>1. \A x \in F \cup {m} : h[x] \in Int
      BY <2>11
    <3>2. QED
      BY <2>8, <2>12, <3>1, TotalInsert
  <2>14. Total(S, r1) = Total(F, h)
    BY <2>1, <2>3, <2>7, <2>9 DEF PayInv, BookedTotals
  <2>15. Total(S, take) = h[m]
    BY <1>7, <2>1, <2>11
  <2>16. Total(S, r1) \in Int /\ h[m] \in Int
    BY <2>4, <2>5, <2>11, TotalType
  <2>17. Total(S, r2) = Total(F \cup {m}, h)
    BY <2>6, <2>13, <2>14, <2>15, <2>16
  <2>18. QED
    BY <2>2, <2>3, <2>8, <2>10, <2>17
<1>18. BookedTotals'
  BY <1>17 DEF BookedTotals
<1>19. RunsSpared(c)
  BY <1>1, <1>2, <1>6, <1>13, ReleasedFrees DEF RunsSpared
<1>20. AdvancesSpared(c)
  <2>1. ASSUME NEW a \in Advances, advLock[a] \notin {c, Nobody} PROVE advLock'[a] = advLock[a] /\ adv'[a] = adv[a]
    <3>1. ~(take[a] > 0)
      BY <1>3, <1>5, <2>1 DEF FinaliseHolds
    <3>2. take[a] = 0
      BY <3>1
    <3>3. QED
      BY <1>1, <1>2, <1>9, <2>1, <3>2, ReleasedFrees
  <2>2. QED
    BY <1>9, <2>1 DEF AdvancesSpared
<1>21. \A d \in Payers : PayerHolds(d)'
  <2>1. ASSUME NEW d \in Payers PROVE PayerHolds(d)'
    <3>1. CASE d = c
      BY <1>1, <1>2, <3>1, ReleasedFrees DEF PayerHolds
    <3>2. CASE d # c
      BY <1>1, <1>2, <1>19, <1>20, <3>2, ReleasedFrees, OthersHold
    <3>3. QED
      BY <3>1, <3>2
  <2>2. QED
    BY <2>1
<1>22. QED
  BY <1>14, <1>15, <1>16, <1>18, <1>21 DEF PayInv

\* Every step keeps payslips and advances agreed.
LEMMA PayKeeps == PayInv /\ [PayNext]_payVars => PayInv'
<1> SUFFICES ASSUME PayInv, [PayNext]_payVars PROVE PayInv'
  OBVIOUS
<1>1. CASE UNCHANGED payVars
  <2>1. UNCHANGED <<adv, payRun, runLock, advLock, payer>>
    BY <1>1 DEF payVars
  <2>2. PayRows' /\ RowsSound'
    BY <2>1 DEF PayInv, PayRows, RowsSound
  <2>3. RunsSpared(Nobody) /\ FinalisedStay
    BY <2>1 DEF RunsSpared, FinalisedStay
  <2>4. QED
    BY <2>1, <2>2, <2>3, PayrollFacts, UnbookedKeeps
<1>2. CASE \E a \in Advances, p \in Members, m \in Months : GiveAdvance(a, p, m)
  BY <1>2, GivingKeeps
<1>3. CASE \E c \in Payers, m \in Months : (\E active \in SUBSET Members : BeginDraft(c, m, active)) \/ BeginFinalise(c, m)
  BY <1>3, DraftingBegins, FinalisingBegins
<1>4. CASE \E m \in Months : DeleteDraft(m) \/ \E p \in Members : UpdatePayslip(m, p)
  BY <1>4, DraftsKeep
<1>5. CASE \E c \in Payers : CommitDraft(c) \/ CommitFinalise(c) \/ RollBack(c) \/ \E p \in Members : RecoverFrom(c, p)
  BY <1>5, DraftingCommits, FinalisingCommits, RollBackKeeps, RecoveringKeeps
<1>6. QED
  BY <1>1, <1>2, <1>3, <1>4, <1>5 DEF PayNext

\* No advance is given and no run exists at the start.
LEMMA PayStarts == PayInit => PayInv
<1> SUFFICES ASSUME PayInit PROVE PayInv
  OBVIOUS
<1>1. 0 \in Units /\ 0 \in Owed
  <2>1. PICK k \in Nat, n \in Nat : k = MaxAdvance /\ n = Cardinality(Advances)
    BY PayrollFacts, FS_CardinalityType
  <2>2. k * n \in Nat
    OBVIOUS
  <2>3. QED
    BY <2>1, <2>2 DEF Owed, Units
<1>2. Min(Months) \in Months /\ (CHOOSE p \in Members : TRUE) \in Members
  BY PayrollFacts, MinIn
<1>3. NoAdvance \in AdvanceRecord /\ NoAdvance.status = "NONE" /\ NoAdvance.recovered = 0 /\ NoAdvance.amount = 0
  BY <1>1, <1>2 DEF NoAdvance, AdvanceRecord
<1>4. /\ NoRun \in RunRecord /\ NoRun.status = "NONE" /\ \A p \in Members : NoRun.recovery[p] = 0
  BY <1>1 DEF NoRun, RunRecord
<1>5. (\A a \in Advances : adv[a] = NoAdvance) /\ (\A m \in Months : payRun[m] = NoRun)
  BY DEF PayInit
<1>6. PayerIdle.at = "idle" /\ \A c \in Payers : payer[c] = PayerIdle
  BY DEF PayInit, PayerIdle
<1>7. PayRows
  BY <1>3, <1>4, <1>6 DEF PayInit, PayRows
<1>8. RowsSound /\ NeverOverRecovered
  BY <1>3, <1>4, <1>5 DEF RowsSound, NeverOverRecovered
<1>9. BookedTotals
  <2>1. ASSUME NEW p \in Members PROVE Total(AdvancesOf(p), RecoveredOn) = Total(Finalised, RecoveryOf(p))
    <3>1. Finalised = {}
      BY <1>4, <1>5 DEF Finalised
    <3>2. IsFiniteSet(Finalised) /\ Total(Finalised, RecoveryOf(p)) = 0
      BY <3>1, FS_EmptySet, TotalStep
    <3>3. IsFiniteSet(AdvancesOf(p)) /\ \A a \in AdvancesOf(p) : RecoveredOn[a] = 0
      BY <1>3, <1>5, PayrollFacts, FS_Subset DEF AdvancesOf, RecoveredOn
    <3>4. Total(AdvancesOf(p), RecoveredOn) = 0
      BY <3>3, TotalZero
    <3>5. QED
      BY <3>2, <3>4
  <2>2. QED
    BY <2>1 DEF BookedTotals
<1>10. \A c \in Payers : PayerHolds(c)
  BY <1>6 DEF PayerHolds
<1>11. QED
  BY <1>7, <1>8, <1>9, <1>10 DEF PayInv

\* The invariant implies what payroll promises.
LEMMA PayPromises == PayInv => PayTypeOK /\ PayrollSound
<1> SUFFICES ASSUME PayInv PROVE PayTypeOK /\ PayrollSound
  OBVIOUS
<1>1. PayTypeOK
  BY DEF PayInv, PayRows, PayTypeOK, AdvanceRecord, RunRecord
<1>2. RecoveriesBooked
  <2>1. ASSUME NEW p \in Members
        PROVE  MapThenSumSet(LAMBDA a : adv[a].recovered, {a \in Advances : adv[a].owner = p})
                 = MapThenSumSet(LAMBDA m : payRun[m].recovery[p], {m \in Months : payRun[m].status = "FINALISED"})
    <3>1. AdvancesOf(p) \in SUBSET Advances /\ IsFiniteSet(AdvancesOf(p))
      BY PayrollFacts, FS_Subset DEF AdvancesOf
    <3>2. Finalised \in SUBSET Months /\ IsFiniteSet(Finalised)
      BY PayrollFacts, FS_Subset DEF Finalised
    <3>3. RecoveredSum(AdvancesOf(p)) = Total(AdvancesOf(p), RecoveredOn)
      BY <3>1, RecoveredSumTotal
    <3>4. RecoverySum(Finalised, p) = Total(Finalised, RecoveryOf(p))
      BY <3>2, RecoverySumTotal
    <3>5. RecoveredSum(AdvancesOf(p)) = RecoverySum(Finalised, p)
      BY <3>3, <3>4 DEF PayInv, BookedTotals
    <3>6. QED
      BY <3>5 DEF RecoveredSum, RecoverySum, AdvancesOf, Finalised
  <2>2. QED
    BY <2>1 DEF RecoveriesBooked
<1>3. QED
  BY <1>1, <1>2 DEF PayInv, PayrollSound

\* What finalised payslips recovered from a member is what was booked on the member's
\* advances, none recovered beyond its amount, however drafts and finalisations overlap.
THEOREM PayrollCorrect == PaySpec => [](PayTypeOK /\ PayrollSound)
BY PayStarts, PayKeeps, PayPromises, PTL DEF PaySpec

----------------------------------------------------------------------------
(* Subscriptions. *)

Tenants == {"TRIAL", "ACTIVE", "SUSPENDED"}
BillerAts == {"idle", "sweep", "collect", "paid", "failed", "subscribe", "cancel", "extend"} \cup EventAts
SubRecord == [status : SubStatuses, trial : {"none", "running", "over"}, grace : {"none", "running", "over"},
              cancelAtEnd : BOOLEAN, until : 0 .. MaxPeriod + 1, mandate : BOOLEAN]
InvoiceRecord == [status : {"none", "OPEN", "PAID", "FAILED"}, period : 0 .. MaxPeriod + 1, renewal : BOOLEAN, crossed : BOOLEAN]
EventStates == {"none", "sent", "recorded", "applied", "dropped"}

\* What a sweep or request that is under way works on.
Collects(rec) == rec.at \in {"collect", "paid", "failed"}
Renewal(rec) == rec.at = "sweep" /\ rec.kind = "renew"
Fits(rec) ==
    /\ rec.at \in BillerAts
    /\ Collects(rec) => {"at", "on"} \subseteq DOMAIN rec /\ rec.on \in SubInvoices /\ invoice[rec.on].status # "none"
    /\ rec.at \in {"paid", "failed"} => ~realProvider
    /\ Renewal(rec) => rec.period \in Periods
    /\ rec.at \in EventAts => realProvider /\ rec.ev \in ProviderEvents
    /\ rec.at \in {"event", "due"} => rec.had \in {"none", "running", "over"}
    /\ rec.at \in {"book", "dun"} => rec.on \in SubInvoices /\ invoice[rec.on].status # "none"
    /\ rec.at = "book" => invoice[rec.on].period = rec.ev[2]
    /\ rec.at \in {"dun", "due"} => rec.ev[1] # "CHARGED"

SubColumns ==
    /\ realProvider \in BOOLEAN /\ clock \in 0 .. MaxPeriod /\ sub \in SubRecord
    /\ tenant \in Tenants /\ starts \in 0 .. MaxStarts
    /\ invoice \in [SubInvoices -> InvoiceRecord] /\ charges \in [SubInvoices -> Nat]
    /\ unsure \in SUBSET SubInvoices /\ raced \in SUBSET Periods
    /\ billingEvent \in [ProviderEvents -> EventStates]
BillersFit == biller = [w \in Billers |-> biller[w]] /\ \A w \in Billers : Fits(biller[w])

\* Our provider charges only when there is no other, whose events are all there are.
OneProvider ==
    /\ realProvider => \A i \in SubInvoices : charges[i] = 0
    /\ ~realProvider => \A e \in ProviderEvents : billingEvent[e] = "none"

\* An invoice whose calls neither overlapped nor died knows what was charged.
ChargeSound(i) ==
    /\ \A v, w \in Collecting(i) : v = w
    /\ charges[i] <= 1
    /\ \A w \in Collecting(i) : biller[w].at # "paid" => charges[i] = 0
    /\ charges[i] > 0 /\ Collecting(i) = {} => invoice[i].status = "PAID"

\* Invoices of renewals: one for a period that was not raced for, paid for up to
\* where the subscription runs.
RenewalsSound ==
    /\ \A i \in SubInvoices : invoice[i].status = "none" => ~invoice[i].renewal /\ ~invoice[i].crossed
    /\ \A i \in SubInvoices : invoice[i].renewal /\ invoice[i].status = "PAID" /\ invoice[i].period \notin raced
                                => invoice[i].period <= sub.until
    /\ \A i, j \in SubInvoices :
          invoice[i].renewal /\ invoice[j].renewal /\ invoice[i].period = invoice[j].period
             /\ invoice[i].period \in Periods \ raced => i = j

\* A renewal that nothing raced is alone, and its period not yet paid for.
RenewalsAlone ==
    \A w \in Billers : Renewal(biller[w]) /\ biller[w].period \notin raced =>
        /\ \A v \in Billers : v # w => biller[v] = BillerIdle
        /\ \A i \in SubInvoices : ~(invoice[i].renewal /\ invoice[i].status = "PAID"
                                      /\ invoice[i].period = biller[w].period)

\* An invoice that was paid.
WasPaid(i) == invoice[i].status = "PAID" \/ invoice[i].crossed
EventsRecorded ==
    \A e \in ProviderEvents : e[1] = "CHARGED" /\ billingEvent[e] = "applied" =>
        \E i \in SubInvoices : WasPaid(i) /\ invoice[i].period = e[2]

SubInv ==
    /\ SubColumns /\ BillersFit /\ TenantMirrorsSubscription /\ OneProvider
    /\ \A i \in SubInvoices \ unsure : ChargeSound(i)
    /\ RenewalsSound /\ RenewalsAlone /\ EventsRecorded

\* The assumption, part by part.
LEMMA SubFacts ==
    /\ SubInvoices \subseteq Nat /\ IsFiniteSet(SubInvoices) /\ MaxPeriod \in Nat /\ MaxStarts \in Nat
    /\ \A e \in ProviderEvents : e[2] \in Periods
    /\ \A p \in Periods : p \in 0 .. MaxPeriod + 1
<1>1. \A p \in Periods : p \in 0 .. MaxPeriod + 1
  BY SubscriptionAssumption DEF Periods
<1>2. QED
  BY <1>1, SubscriptionAssumption

\* The state machine knows five states.
LEMMA StatusesAre ==
    /\ SubStatuses = {"TRIAL", "ACTIVE", "PAST_DUE", "SUSPENDED", "CANCELLED"}
    /\ \A t \in TRANSITIONS_SUB : t = <<t[1], t[2], t[3]>> /\ t[3] \in SubStatuses
<1>1. \A t \in TRANSITIONS_SUB : t = <<t[1], t[2], t[3]>>
  BY DEF TRANSITIONS_SUB
<1>2. \A t \in TRANSITIONS_SUB : {t[1], t[3]} \subseteq {"TRIAL", "ACTIVE", "PAST_DUE", "SUSPENDED", "CANCELLED"}
  BY DEF TRANSITIONS_SUB
<1>3. \A s \in {"TRIAL", "ACTIVE", "PAST_DUE", "SUSPENDED", "CANCELLED"} :
          \E t \in TRANSITIONS_SUB : t[1] = s
  <2>1. ASSUME NEW s \in {"TRIAL", "ACTIVE", "PAST_DUE", "SUSPENDED", "CANCELLED"}
        PROVE  <<s, "PAYMENT_SUCCEEDED", "ACTIVE">> \in TRANSITIONS_SUB
    BY DEF TRANSITIONS_SUB
  <2>2. QED
    BY <2>1
<1>4. SubStatuses = {"TRIAL", "ACTIVE", "PAST_DUE", "SUSPENDED", "CANCELLED"}
  BY <1>2, <1>3 DEF SubStatuses
<1>5. QED
  BY <1>1, <1>2, <1>4

\* A transition moves both rows, and the tenant's mirrors the subscription's.
LEMMA TransitionMoves ==
    ASSUME NEW event, NEW patched \in SubRecord, Transition(event, patched)
    PROVE  /\ sub' \in SubRecord /\ sub'.until = patched.until
           /\ tenant' \in Tenants /\ TenantMirrorsSubscription'
<1>1. PICK t \in TRANSITIONS_SUB : t[1] = sub.status /\ t[2] = event
  BY DEF Transition, CanTransition
<1>2. <<sub.status, event, t[3]>> \in TRANSITIONS_SUB /\ t[3] \in SubStatuses
  BY <1>1, StatusesAre
<1>3. PICK next : next = NextStatus(sub.status, event)
  OBVIOUS
<1>4. next \in SubStatuses
  BY <1>2, <1>3 DEF NextStatus
<1>5. sub' = [patched EXCEPT !.status = next] /\ tenant' = TenantStatusFor(next)
  BY <1>3 DEF Transition, Mirror
<1>6. sub' \in SubRecord /\ sub'.until = patched.until /\ sub'.status = next
  BY <1>4, <1>5 DEF SubRecord
<1>7. TenantStatusFor(next) \in Tenants
  BY DEF TenantStatusFor, Tenants
<1>8. QED
  BY <1>5, <1>6, <1>7 DEF TenantMirrorsSubscription

\* What one step of a sweep or request does to them.
LEMMA BillerMoves ==
    ASSUME BillersFit, NEW w \in Billers, NEW rec, Goes(w, rec)
    PROVE  /\ biller' = [v \in Billers |-> biller'[v]] /\ biller'[w] = rec
           /\ \A v \in Billers \ {w} : biller'[v] = biller[v]
<1>1. biller = [v \in Billers |-> biller[v]] /\ biller' = [biller EXCEPT ![w] = rec]
  BY DEF BillersFit, Goes
<1>2. QED
  BY <1>1

\* Invoices are never unmade and keep their period, the paid ones too; a renewal
\* stays one.
InvoicesMade ==
    \A i \in SubInvoices : invoice[i].status # "none" =>
        invoice'[i].status # "none" /\ invoice'[i].period = invoice[i].period
InvoicesStay ==
    InvoicesMade /\ \A i \in SubInvoices : /\ invoice'[i].renewal = invoice[i].renewal
                                           /\ invoice[i].renewal => invoice'[i].period = invoice[i].period
WasPaidStay == \A i \in SubInvoices : WasPaid(i) => WasPaid(i)' /\ invoice'[i].period = invoice[i].period

\* What others work on stays fit for them.
LEMMA OthersFit ==
    ASSUME BillersFit, UNCHANGED realProvider, NEW v \in Billers, biller'[v] = biller[v],
           InvoicesMade
    PROVE  Fits(biller[v])'
BY DEF BillersFit, Fits, Collects, Renewal, InvoicesMade

\* An invoice that a step leaves alone.
Untouched(i) ==
    /\ charges'[i] = charges[i] /\ Collecting(i)' = Collecting(i)
    /\ \A v \in Collecting(i) : biller'[v] = biller[v]
    /\ charges[i] > 0 /\ invoice[i].status = "PAID" => invoice'[i].status = "PAID"

LEMMA UntouchedSound ==
    ASSUME NEW i \in SubInvoices, ChargeSound(i), Untouched(i)
    PROVE  ChargeSound(i)'
BY DEF ChargeSound, Untouched

\* It is, when the caller neither leaves it nor takes it up.
LEMMA AsideUntouched ==
    ASSUME BillersFit, NEW w \in Billers, NEW rec, Goes(w, rec), NEW i \in SubInvoices,
           Collects(biller[w]) => biller[w].on # i, Collects(rec) => rec.on # i,
           charges'[i] = charges[i],
           charges[i] > 0 /\ invoice[i].status = "PAID" => invoice'[i].status = "PAID"
    PROVE  Untouched(i)
<1>1. biller'[w] = rec /\ \A v \in Billers \ {w} : biller'[v] = biller[v]
  BY BillerMoves
<1>2. w \notin Collecting(i) /\ w \notin Collecting(i)'
  BY <1>1 DEF Collecting, Collects
<1>3. \A v \in Billers \ {w} : v \in Collecting(i)' <=> v \in Collecting(i)
  BY <1>1 DEF Collecting
<1>4. Collecting(i) \subseteq Billers /\ Collecting(i)' \subseteq Billers
  BY DEF Collecting
<1>5. QED
  BY <1>1, <1>2, <1>3, <1>4 DEF Untouched

\* A caller starts to collect an invoice nobody collects and that is not paid.
LEMMA StartsCollecting ==
    ASSUME BillersFit, NEW w \in Billers, NEW rec, Goes(w, rec), NEW i \in SubInvoices,
           rec.at = "collect", rec.on = i, Collecting(i) = {}, charges'[i] = charges[i],
           charges \in [SubInvoices -> Nat], invoice[i].status # "PAID", ChargeSound(i)
    PROVE  ChargeSound(i)'
<1>1. biller'[w] = rec /\ \A v \in Billers \ {w} : biller'[v] = biller[v]
  BY BillerMoves
<1>2. Collecting(i)' = {w}
  BY <1>1 DEF Collecting
<1>3. charges[i] = 0
  <2>1. ~(charges[i] > 0)
    BY DEF ChargeSound
  <2>2. QED
    BY <2>1
<1>4. QED
  BY <1>2, <1>3 DEF ChargeSound

\* A caller ends, and the invoice is not charged, or shows it.
LEMMA EndsCollecting ==
    ASSUME BillersFit, NEW w \in Billers, NEW rec, Goes(w, rec), NEW i \in SubInvoices,
           ~Collects(rec), w \in Collecting(i), charges'[i] = charges[i], ChargeSound(i),
           charges[i] = 0 \/ invoice'[i].status = "PAID"
    PROVE  ChargeSound(i)'
<1>1. biller'[w] = rec /\ \A v \in Billers \ {w} : biller'[v] = biller[v]
  BY BillerMoves
<1>2. Collecting(i)' = {}
  <2>1. Collecting(i) = {w}
    BY DEF ChargeSound
  <2>2. QED
    BY <1>1, <2>1 DEF Collecting, Collects
<1>3. charges[i] <= 1
  BY DEF ChargeSound
<1>4. charges[i] = 0 => ~(charges[i] > 0)
  OBVIOUS
<1>5. QED
  BY <1>2, <1>3, <1>4 DEF ChargeSound

\* The renewals' invoices stay right when the period paid for moves on, or what it
\* gives up counts as raced for.
RacedGrows == raced \subseteq raced' /\ raced' \in SUBSET Periods
KeepsPaidPeriods ==
    /\ sub' \in SubRecord
    /\ sub.until <= sub'.until \/ \A p \in Periods : sub'.until < p /\ p <= sub.until => p \in raced'

LEMMA RenewalsKept ==
    ASSUME SubInv, RacedGrows, KeepsPaidPeriods, InvoicesStay, invoice' \in [SubInvoices -> InvoiceRecord],
           \A i \in SubInvoices : invoice'[i].status = "none" => ~invoice'[i].crossed,
           \A i \in SubInvoices : invoice'[i].renewal /\ invoice'[i].status = "PAID" =>
               invoice[i].status = "PAID" \/ invoice'[i].period <= sub'.until
    PROVE  RenewalsSound'
<1>1. RenewalsSound /\ sub \in SubRecord /\ invoice \in [SubInvoices -> InvoiceRecord]
  BY DEF SubInv, SubColumns
<1>2. \A i \in SubInvoices : invoice'[i].status = "none" => ~invoice'[i].renewal /\ ~invoice'[i].crossed
  BY <1>1 DEF RenewalsSound, InvoicesStay, InvoicesMade
<1>3. ASSUME NEW i \in SubInvoices, invoice'[i].renewal, invoice'[i].status = "PAID", invoice'[i].period \notin raced'
      PROVE  invoice'[i].period <= sub'.until
  <2>1. CASE invoice[i].status = "PAID"
    <3>1. PICK p \in 0 .. MaxPeriod + 1 : p = invoice[i].period /\ p = invoice'[i].period
      BY <1>1, <1>3 DEF InvoicesStay, InvoiceRecord
    <3>2. p <= sub.until
      BY <1>1, <1>3, <2>1, <3>1 DEF RenewalsSound, InvoicesStay, RacedGrows
    <3>3. PICK u \in 0 .. MaxPeriod + 1, n \in 0 .. MaxPeriod + 1 : u = sub.until /\ n = sub'.until
      BY <1>1 DEF KeepsPaidPeriods, SubRecord
    <3>4. u <= n \/ \A q \in Periods : n < q /\ q <= u => q \in raced'
      BY <3>3 DEF KeepsPaidPeriods
    <3>5. n < p => p \in Periods
      BY <3>1, <3>3, SubFacts DEF Periods
    <3>6. QED
      BY <1>3, <3>1, <3>2, <3>3, <3>4, <3>5, SubFacts
  <2>2. CASE invoice[i].status # "PAID"
    BY <1>3, <2>2
  <2>3. QED
    BY <2>1, <2>2
<1>4. ASSUME NEW i \in SubInvoices, NEW j \in SubInvoices, invoice'[i].renewal, invoice'[j].renewal,
             invoice'[i].period = invoice'[j].period, invoice'[i].period \in Periods \ raced'
      PROVE  i = j
  BY <1>1, <1>4 DEF RenewalsSound, InvoicesStay, RacedGrows
<1>5. QED
  BY <1>2, <1>3, <1>4 DEF RenewalsSound

\* A step of the clock, the tenant's row or the platform.
LEMMA QuietStep ==
    ASSUME SubInv, UNCHANGED <<realProvider, starts, invoice, charges, unsure, raced, billingEvent, biller>>,
           clock' \in 0 .. MaxPeriod, tenant' \in Tenants, TenantMirrorsSubscription', KeepsPaidPeriods
    PROVE  SubInv'
<1>1. SubColumns'
  BY DEF SubInv, SubColumns, KeepsPaidPeriods
<1>2. BillersFit'
  BY OthersFit DEF SubInv, BillersFit, InvoicesMade
<1>3. OneProvider' /\ EventsRecorded' /\ RenewalsAlone'
  BY DEF SubInv, OneProvider, EventsRecorded, WasPaid, RenewalsAlone
<1>4. \A i \in SubInvoices \ unsure' : ChargeSound(i)'
  <2>1. \A i \in SubInvoices : Collecting(i)' = Collecting(i)
    BY DEF Collecting
  <2>2. QED
    BY <2>1 DEF SubInv, ChargeSound
<1>5. RenewalsSound'
  <2>1. RacedGrows
    BY DEF RacedGrows, SubInv, SubColumns
  <2>2. InvoicesStay
    BY DEF InvoicesStay, InvoicesMade
  <2>3. invoice' \in [SubInvoices -> InvoiceRecord]
    BY DEF SubInv, SubColumns
  <2>4. \A i \in SubInvoices : invoice'[i].status = "none" => ~invoice'[i].crossed
    BY DEF SubInv, RenewalsSound
  <2>5. QED
    BY <2>1, <2>2, <2>3, <2>4, RenewalsKept
<1>6. QED
  BY <1>1, <1>2, <1>3, <1>4, <1>5 DEF SubInv

\* A step of a sweep or request under way that does not go on to renew.
LEMMA MoveStep ==
    ASSUME SubInv, NEW w \in Billers, NEW rec, biller[w] # BillerIdle, Goes(w, rec),
           ~Renewal(rec), Fits(rec)', UNCHANGED realProvider, InvoicesMade, RacedGrows,
           SubColumns', TenantMirrorsSubscription', OneProvider', RenewalsSound', EventsRecorded',
           \A i \in SubInvoices \ unsure' : ChargeSound(i)'
    PROVE  SubInv'
<1>1. BillersFit /\ RenewalsAlone
  BY DEF SubInv
<1>2. /\ biller' = [v \in Billers |-> biller'[v]] /\ biller'[w] = rec
      /\ \A v \in Billers \ {w} : biller'[v] = biller[v]
  BY <1>1, BillerMoves
<1>3. BillersFit'
  <2>1. ASSUME NEW v \in Billers PROVE Fits(biller[v])'
    <3>1. CASE v = w
      BY <1>2, <3>1
    <3>2. CASE v # w
      BY <1>1, <1>2, <3>2, OthersFit
    <3>3. QED
      BY <3>1, <3>2
  <2>2. QED
    BY <1>2, <2>1 DEF BillersFit
<1>4. RenewalsAlone'
  <2>1. ASSUME NEW v \in Billers, Renewal(biller'[v]), biller'[v].period \notin raced' PROVE FALSE
    <3>1. v # w
      BY <1>2, <2>1
    <3>2. Renewal(biller[v]) /\ biller[v].period \notin raced
      BY <1>2, <2>1, <3>1 DEF RacedGrows
    <3>3. biller[w] = BillerIdle
      BY <1>1, <3>1, <3>2 DEF RenewalsAlone
    <3>4. QED
      BY <3>3
  <2>2. QED
    BY <2>1 DEF RenewalsAlone
<1>5. QED
  BY <1>3, <1>4 DEF SubInv

\* What a step that leaves the event table and the provider's charges alone keeps.
LEMMA ProviderKept ==
    ASSUME SubInv, UNCHANGED <<realProvider, charges, billingEvent>>, WasPaidStay
    PROVE  OneProvider' /\ EventsRecorded'
<1>1. OneProvider'
  BY DEF SubInv, OneProvider
<1>2. ASSUME NEW e \in ProviderEvents, e[1] = "CHARGED", billingEvent[e] = "applied"
      PROVE  \E i \in SubInvoices : WasPaid(i)' /\ invoice'[i].period = e[2]
  <2>1. PICK i \in SubInvoices : WasPaid(i) /\ invoice[i].period = e[2]
    BY <1>2 DEF SubInv, EventsRecorded
  <2>2. WasPaid(i)' /\ invoice'[i].period = e[2]
    BY <2>1 DEF WasPaidStay
  <2>3. QED
    BY <2>2
<1>3. QED
  BY <1>1, <1>2 DEF EventsRecorded

\* A sweep, request or delivery starts; one that collects takes an invoice to be paid.
LEMMA StartStep ==
    ASSUME SubInv, NEW w \in Billers, NEW rec, Starts(w, rec),
           UNCHANGED <<realProvider, clock, sub, tenant, invoice, charges>>,
           billingEvent' \in [ProviderEvents -> EventStates],
           \A e \in ProviderEvents : billingEvent'[e] = "applied" => billingEvent[e] = "applied",
           ~realProvider => billingEvent' = billingEvent,
           Fits(rec)', Renewal(rec) => rec.period = sub.until + 1,
           \/ ~Collects(rec) /\ UNCHANGED unsure
           \/ rec.at = "collect" /\ invoice[rec.on].status # "PAID" /\ Overlaps(rec.on)
    PROVE  SubInv'
<1>1. BillersFit /\ RenewalsAlone /\ SubColumns /\ RenewalsSound
  BY DEF SubInv
<1>2. biller[w] = BillerIdle /\ Goes(w, rec) /\ starts < MaxStarts /\ starts' = starts + 1
  BY DEF Starts
<1>3. /\ biller' = [v \in Billers |-> biller'[v]] /\ biller'[w] = rec
      /\ \A v \in Billers \ {w} : biller'[v] = biller[v]
  BY <1>1, <1>2, BillerMoves
<1>4. /\ raced \subseteq raced' /\ raced' \in SUBSET Periods
      /\ \A v \in Billers : Renewal(biller[v]) => biller[v].period \in raced'
      /\ Renewal(rec) /\ (\E v \in Billers : biller[v] # BillerIdle) => rec.period \in raced'
  <2>1. \A v \in Renewing : v \in Billers /\ biller[v].period \in Periods
    BY <1>1 DEF Renewing, BillersFit, Fits, Renewal
  <2>2. Renewal(rec) => rec.period \in Periods
    BY DEF Fits
  <2>3. \A v \in Billers : Renewal(biller[v]) => v \in Renewing
    BY DEF Renewing, Renewal
  <2>4. raced \in SUBSET Periods
    BY <1>1 DEF SubColumns
  <2>5. PICK Others : Others = {biller[v].period : v \in Renewing}
    OBVIOUS
  <2>6. PICK Own : Own = {q \in Periods : /\ rec.at = "sweep" /\ rec.kind = "renew" /\ rec.period = q
                                          /\ \E v \in Billers : biller[v] # BillerIdle}
    OBVIOUS
  <2>7. raced' = raced \cup Others \cup Own
    BY <2>5, <2>6 DEF Starts
  <2>8. Others \in SUBSET Periods /\ \A v \in Renewing : biller[v].period \in Others
    BY <2>1, <2>5
  <2>9. Own \in SUBSET Periods
    BY <2>6
  <2>10. Renewal(rec) /\ (\E v \in Billers : biller[v] # BillerIdle) => rec.period \in Own
    BY <2>2, <2>6 DEF Renewal
  <2>11. QED
    BY <2>3, <2>4, <2>7, <2>8, <2>9, <2>10
<1>5. SubColumns'
  <2>1. starts' \in 0 .. MaxStarts
    BY <1>1, <1>2, SubFacts DEF SubColumns
  <2>2. unsure' \in SUBSET SubInvoices
    <3>1. Collects(rec) => rec.on \in SubInvoices
      BY DEF Fits
    <3>2. QED
      BY <1>1, <3>1 DEF SubColumns, Overlaps, Collects
  <2>3. QED
    BY <1>1, <1>4, <2>1, <2>2 DEF SubColumns
<1>6. BillersFit'
  <2>1. ASSUME NEW v \in Billers PROVE Fits(biller[v])'
    <3>1. CASE v = w
      BY <1>3, <3>1
    <3>2. CASE v # w
      BY <1>1, <1>3, <3>2, OthersFit DEF InvoicesMade
    <3>3. QED
      BY <3>1, <3>2
  <2>2. QED
    BY <1>3, <2>1 DEF BillersFit
<1>7. TenantMirrorsSubscription'
  BY DEF SubInv, TenantMirrorsSubscription
<1>8. OneProvider'
  BY DEF SubInv, OneProvider
<1>9. EventsRecorded'
  BY DEF SubInv, EventsRecorded, WasPaid
<1>10. RenewalsSound'
  BY <1>1, <1>4 DEF RenewalsSound
<1>11. RenewalsAlone'
  <2>1. ASSUME NEW v \in Billers, Renewal(biller'[v]), biller'[v].period \notin raced'
        PROVE  /\ \A x \in Billers : x # v => biller'[x] = BillerIdle
               /\ \A i \in SubInvoices : ~(/\ invoice'[i].renewal /\ invoice'[i].status = "PAID"
                                           /\ invoice'[i].period = biller'[v].period)
    <3>1. v = w
      BY <1>3, <1>4, <2>1
    <3>2. \A x \in Billers : biller[x] = BillerIdle
      BY <1>3, <1>4, <2>1, <3>1
    <3>3. rec.period = sub.until + 1 /\ rec.period \notin raced /\ biller'[v].period = rec.period
      BY <1>3, <1>4, <2>1, <3>1
    <3>4. ASSUME NEW i \in SubInvoices, invoice[i].renewal, invoice[i].status = "PAID", invoice[i].period = rec.period
          PROVE  FALSE
      <4>1. sub.until + 1 <= sub.until
        BY <1>1, <3>3, <3>4 DEF RenewalsSound
      <4>2. sub.until \in 0 .. MaxPeriod + 1
        BY <1>1 DEF SubColumns, SubRecord
      <4>3. QED
        BY <4>1, <4>2, SubFacts
    <3>5. QED
      BY <1>3, <3>1, <3>2, <3>3, <3>4
  <2>2. QED
    BY <2>1 DEF RenewalsAlone
<1>12. ASSUME NEW i \in SubInvoices \ unsure' PROVE ChargeSound(i)'
  <2>1. unsure \subseteq unsure'
    BY DEF Overlaps
  <2>2. ChargeSound(i)
    BY <2>1 DEF SubInv
  <2>3. ~Collects(biller[w])
    BY <1>2 DEF BillerIdle, Collects
  <2>4. CASE Collects(rec) /\ rec.on = i
    <3>1. rec.at = "collect" /\ invoice[i].status # "PAID" /\ Overlaps(i)
      BY <2>4
    <3>2. Collecting(i) = {}
      BY <3>1 DEF Overlaps
    <3>3. QED
      BY <1>1, <1>2, <2>2, <2>4, <3>1, <3>2, StartsCollecting DEF SubColumns
  <2>5. CASE ~(Collects(rec) /\ rec.on = i)
    <3>1. Untouched(i)
      BY <1>1, <1>2, <2>3, <2>5, AsideUntouched
    <3>2. QED
      BY <2>2, <3>1, UntouchedSound
  <2>6. QED
    BY <2>4, <2>5
<1>13. QED
  BY <1>5, <1>6, <1>7, <1>8, <1>9, <1>10, <1>11, <1>12 DEF SubInv

\* The steps of time, of the tenant's flags, of administrators and of the provider.
LEMMA QuietSteps ==
    ASSUME SubInv, PeriodEnds \/ DeadlineLapses \/ Resubscribe \/ PlatformMoves
    PROVE  SubInv'
<1>1. SubColumns /\ TenantMirrorsSubscription /\ MaxPeriod \in Nat
  BY SubFacts DEF SubInv
<1>2. sub \in SubRecord /\ tenant \in Tenants /\ clock \in 0 .. MaxPeriod /\ sub.until \in 0 .. MaxPeriod + 1
  BY <1>1 DEF SubColumns, SubRecord
<1>3. CASE PeriodEnds
  <2>1. clock' \in 0 .. MaxPeriod
    BY <1>1, <1>2, <1>3 DEF PeriodEnds
  <2>2. sub' = sub /\ tenant' = tenant
    BY <1>3 DEF PeriodEnds
  <2>3. KeepsPaidPeriods /\ TenantMirrorsSubscription'
    BY <1>1, <1>2, <2>2 DEF KeepsPaidPeriods, TenantMirrorsSubscription
  <2>4. QED
    BY <1>2, <1>3, <2>1, <2>2, <2>3, QuietStep DEF PeriodEnds
<1>4. CASE DeadlineLapses
  <2>1. sub' \in SubRecord /\ sub'.until = sub.until /\ sub'.status = sub.status
    BY <1>2, <1>4 DEF DeadlineLapses, SubRecord
  <2>2. clock' = clock /\ tenant' = tenant
    BY <1>4 DEF DeadlineLapses
  <2>3. KeepsPaidPeriods /\ TenantMirrorsSubscription'
    BY <1>1, <1>2, <2>1, <2>2 DEF KeepsPaidPeriods, TenantMirrorsSubscription
  <2>4. QED
    BY <1>2, <1>4, <2>2, <2>3, QuietStep DEF DeadlineLapses
<1>5. CASE Resubscribe
  <2>1. sub' \in SubRecord /\ sub'.until = sub.until /\ sub'.status = sub.status
    BY <1>2, <1>5 DEF Resubscribe, SubRecord
  <2>2. clock' = clock /\ tenant' = tenant
    BY <1>5 DEF Resubscribe
  <2>3. KeepsPaidPeriods /\ TenantMirrorsSubscription'
    BY <1>1, <1>2, <2>1, <2>2 DEF KeepsPaidPeriods, TenantMirrorsSubscription
  <2>4. QED
    BY <1>2, <1>5, <2>2, <2>3, QuietStep DEF Resubscribe
<1>6. CASE PlatformMoves
  <2>1. clock' = clock
    BY <1>6 DEF PlatformMoves
  <2>2. PICK patched \in SubRecord : (\E event : Transition(event, patched)) /\ sub.until <= patched.until
    <3>1. ASSUME NEW e, Transition(e, sub)
          PROVE  \E patched \in SubRecord : (\E event : Transition(event, patched)) /\ sub.until <= patched.until
      <4>1. sub.until <= sub.until
        BY <1>2
      <4>2. QED
        BY <1>2, <3>1, <4>1
    <3>2. ASSUME NEW patched, patched = [sub EXCEPT !.grace = "none", !.until = IF @ > clock THEN @ ELSE clock + 1],
                 Transition("ADMIN_REACTIVATE", patched)
          PROVE  patched \in SubRecord /\ sub.until <= patched.until
      <4>1. PICK u \in 0 .. MaxPeriod + 1 : u = (IF sub.until > clock THEN sub.until ELSE clock + 1)
        BY <1>1, <1>2
      <4>2. sub.until <= u
        BY <1>1, <1>2, <4>1
      <4>3. patched = [sub EXCEPT !.grace = "none", !.until = u]
        BY <3>2, <4>1
      <4>4. patched \in SubRecord /\ patched.until = u
        BY <1>2, <4>3 DEF SubRecord
      <4>5. QED
        BY <4>2, <4>4
    <3>3. PICK patched : patched = [sub EXCEPT !.grace = "none", !.until = IF @ > clock THEN @ ELSE clock + 1]
      OBVIOUS
    <3>4. (\E e \in {"ADMIN_SUSPEND", "CANCEL"} : Transition(e, sub)) \/ Transition("ADMIN_REACTIVATE", patched)
      BY <1>6, <3>3 DEF PlatformMoves
    <3>5. CASE Transition("ADMIN_REACTIVATE", patched)
      <4>1. patched \in SubRecord /\ sub.until <= patched.until
        BY <3>2, <3>3, <3>5
      <4>2. QED
        BY <3>5, <4>1
    <3>6. QED
      BY <3>1, <3>4, <3>5
  <2>3. /\ sub' \in SubRecord /\ sub'.until = patched.until
        /\ tenant' \in Tenants /\ TenantMirrorsSubscription'
    BY <2>2, TransitionMoves
  <2>4. KeepsPaidPeriods
    BY <2>2, <2>3 DEF KeepsPaidPeriods
  <2>5. QED
    BY <1>2, <1>6, <2>1, <2>3, <2>4, QuietStep DEF PlatformMoves
<1>7. QED
  BY <1>3, <1>4, <1>5, <1>6

\* A sweep, a cancellation or an extension of a trial starts from the status it reads;
\* so do the delivery of an event and the payment of an invoice.
LEMMA ReadSteps ==
    ASSUME SubInv, NEW w \in Billers,
           \/ SweepReads(w) \/ SubscribeReads(w) \/ CancelReads(w) \/ ExtendReads(w)
           \/ \E i \in SubInvoices : PayInvoice(w, i)
           \/ \E e \in ProviderEvents : RecordBillingEvent(w, e)
    PROVE  SubInv'
<1>1. SubColumns /\ BillersFit
  BY DEF SubInv
<1>2. billingEvent \in [ProviderEvents -> EventStates]
  BY <1>1 DEF SubColumns
<1>3. CASE SweepReads(w)
  <2>1. PICK rec : /\ Starts(w, rec) /\ rec.at = "sweep" /\ rec.period = sub.until + 1
                   /\ rec.kind = "renew" => sub.until <= clock
    <3>1. PICK rec : rec = [at |-> "sweep", kind |-> CASE sub.status = "TRIAL" /\ sub.trial = "over" -> "TRIAL_EXPIRED"
                              [] sub.status = "PAST_DUE" /\ sub.grace = "over" -> "GRACE_EXPIRED"
                              [] sub.status = "ACTIVE" /\ sub.until <= clock /\ sub.cancelAtEnd -> "PERIOD_ENDED"
                              [] sub.status = "ACTIVE" /\ sub.until <= clock /\ ~sub.cancelAtEnd /\ ~sub.mandate -> "renew"
                              [] OTHER -> "nothing", period |-> sub.until + 1]
      OBVIOUS
    <3>2. rec.at = "sweep" /\ rec.period = sub.until + 1
      BY <3>1
    <3>3. rec.kind = "renew" => sub.until <= clock
      BY <3>1
    <3>4. Starts(w, rec)
      BY <1>3, <3>1 DEF SweepReads
    <3>5. QED
      BY <3>2, <3>3, <3>4
  <2>2. rec.kind = "renew" => rec.period \in Periods
    <3>1. sub.until \in 0 .. MaxPeriod + 1 /\ clock \in 0 .. MaxPeriod /\ MaxPeriod \in Nat
      BY <1>1, SubFacts DEF SubColumns, SubRecord
    <3>2. sub.until <= clock => sub.until + 1 \in 1 .. MaxPeriod + 1
      BY <3>1
    <3>3. QED
      BY <2>1, <3>2 DEF Periods
  <2>3. Fits(rec)' /\ ~Collects(rec)
    BY <2>1, <2>2 DEF Fits, Collects, Renewal, BillerAts, EventAts
  <2>4. /\ UNCHANGED <<realProvider, clock, sub, tenant, invoice, charges>>
        /\ UNCHANGED unsure /\ UNCHANGED billingEvent
    BY <1>3 DEF SweepReads
  <2>5. QED
    BY <1>2, <2>1, <2>3, <2>4, StartStep
<1>4. ASSUME NEW rec, Starts(w, rec), ~Collects(rec), ~Renewal(rec), Fits(rec)',
             UNCHANGED <<realProvider, clock, sub, tenant, invoice, charges, unsure, billingEvent>>
      PROVE  SubInv'
  BY <1>2, <1>4, StartStep
<1>5. CASE SubscribeReads(w)
  <2>1. PICK rec : Starts(w, rec) /\ rec.at = "subscribe"
    BY <1>5 DEF SubscribeReads
  <2>2. ~Collects(rec) /\ ~Renewal(rec) /\ Fits(rec)'
    BY <2>1 DEF Collects, Renewal, Fits, BillerAts, EventAts
  <2>3. QED
    BY <1>4, <1>5, <2>1, <2>2 DEF SubscribeReads
<1>6. CASE CancelReads(w)
  <2>1. PICK rec : Starts(w, rec) /\ rec.at = "cancel"
    BY <1>6 DEF CancelReads
  <2>2. ~Collects(rec) /\ ~Renewal(rec) /\ Fits(rec)'
    BY <2>1 DEF Collects, Renewal, Fits, BillerAts, EventAts
  <2>3. QED
    BY <1>4, <1>6, <2>1, <2>2 DEF CancelReads
<1>7. CASE ExtendReads(w)
  <2>1. PICK rec : Starts(w, rec) /\ rec.at = "extend"
    BY <1>7 DEF ExtendReads
  <2>2. ~Collects(rec) /\ ~Renewal(rec) /\ Fits(rec)'
    BY <2>1 DEF Collects, Renewal, Fits, BillerAts, EventAts
  <2>3. QED
    BY <1>4, <1>7, <2>1, <2>2 DEF ExtendReads
<1>8. ASSUME NEW i \in SubInvoices, PayInvoice(w, i) PROVE SubInv'
  <2>1. PICK rec : rec = [at |-> "collect", on |-> i]
    OBVIOUS
  <2>2. Starts(w, rec) /\ Overlaps(i) /\ invoice[i].status \in {"OPEN", "FAILED"}
    BY <1>8, <2>1 DEF PayInvoice, InvoicePayable
  <2>3. /\ UNCHANGED <<realProvider, clock, sub, tenant, invoice, charges>>
        /\ UNCHANGED billingEvent
    BY <1>8 DEF PayInvoice
  <2>4. rec.at = "collect" /\ rec.on = i /\ {"at", "on"} \subseteq DOMAIN rec
    BY <2>1
  <2>5. Fits(rec)' /\ ~Renewal(rec)
    BY <2>2, <2>3, <2>4 DEF Fits, Collects, Renewal, BillerAts, EventAts
  <2>6. rec.at = "collect" /\ invoice[rec.on].status # "PAID" /\ Overlaps(rec.on)
    BY <2>2, <2>4
  <2>7. QED
    BY <1>2, <2>2, <2>3, <2>5, <2>6, StartStep
<1>9. ASSUME NEW e \in ProviderEvents, RecordBillingEvent(w, e) PROVE SubInv'
  <2>1. PICK rec : Starts(w, rec) /\ rec.at = "event" /\ rec.ev = e /\ rec.had \in {"none", "running", "over"}
    BY <1>1, <1>9 DEF RecordBillingEvent, SubColumns, SubRecord
  <2>2. realProvider
    BY <1>9 DEF RecordBillingEvent, SubInv, OneProvider
  <2>3. /\ UNCHANGED <<realProvider, clock, sub, tenant, invoice, charges>>
        /\ UNCHANGED unsure
    BY <1>9 DEF RecordBillingEvent
  <2>4. ~Collects(rec) /\ ~Renewal(rec) /\ Fits(rec)'
    BY <2>1, <2>2, <2>3 DEF Collects, Renewal, Fits, BillerAts, EventAts
  <2>5. billingEvent' = [billingEvent EXCEPT ![e] = "recorded"]
    BY <1>9 DEF RecordBillingEvent
  <2>6. /\ billingEvent' \in [ProviderEvents -> EventStates]
        /\ \A f \in ProviderEvents : billingEvent'[f] = "applied" => billingEvent[f] = "applied"
    BY <1>2, <2>5 DEF EventStates
  <2>7. QED
    BY <2>1, <2>2, <2>3, <2>4, <2>6, StartStep
<1>10. QED
  BY <1>3, <1>5, <1>6, <1>7, <1>8, <1>9

\* A step under way that leaves the invoices and charges alone: a deadline acted on,
\* a cancellation or an extension of a trial written.
LEMMA AsideStep ==
    ASSUME SubInv, NEW w \in Billers, biller[w].at \in BillerAts \ {"idle"}, ~Collects(biller[w]), SubEnds(w),
           UNCHANGED <<realProvider, clock, starts, invoice, charges, unsure, billingEvent>>,
           RacedGrows, KeepsPaidPeriods, tenant' \in Tenants, TenantMirrorsSubscription'
    PROVE  SubInv'
<1>1. SubColumns /\ BillersFit
  BY DEF SubInv
<1>2. biller[w] # BillerIdle /\ Goes(w, BillerIdle)
  BY DEF BillerIdle, SubEnds
<1>3. ~Renewal(BillerIdle) /\ ~Collects(BillerIdle) /\ Fits(BillerIdle)'
  BY DEF Renewal, Fits, Collects, BillerIdle, BillerAts, EventAts
<1>4. InvoicesStay /\ InvoicesMade /\ WasPaidStay
  BY DEF InvoicesStay, InvoicesMade, WasPaidStay, WasPaid
<1>5. SubColumns'
  BY <1>1 DEF SubColumns, KeepsPaidPeriods, RacedGrows
<1>6. OneProvider' /\ EventsRecorded'
  BY <1>4, ProviderKept
<1>7. RenewalsSound'
  <2>1. invoice' \in [SubInvoices -> InvoiceRecord]
    BY <1>5 DEF SubColumns
  <2>2. \A i \in SubInvoices : invoice'[i].status = "none" => ~invoice'[i].crossed
    BY DEF SubInv, RenewalsSound
  <2>3. QED
    BY <1>4, <2>1, <2>2, RenewalsKept
<1>8. ASSUME NEW i \in SubInvoices \ unsure' PROVE ChargeSound(i)'
  <2>1. Untouched(i)
    BY <1>1, <1>2, <1>3, AsideUntouched
  <2>2. ChargeSound(i)
    BY DEF SubInv
  <2>3. QED
    BY <2>1, <2>2, UntouchedSound
<1>9. QED
  BY <1>2, <1>3, <1>4, <1>5, <1>6, <1>7, <1>8, MoveStep

LEMMA StatusSteps ==
    ASSUME SubInv, NEW w \in Billers, SweepMoves(w) \/ CancelWrites(w) \/ ExtendWrites(w)
    PROVE  SubInv'
<1>1. SubColumns /\ TenantMirrorsSubscription
  BY DEF SubInv
<1>2. sub \in SubRecord /\ tenant \in Tenants /\ raced \in SUBSET Periods /\ sub.until <= sub.until
  <2>1. sub.until \in Nat
    BY <1>1 DEF SubColumns, SubRecord
  <2>2. QED
    BY <1>1, <2>1 DEF SubColumns
<1>3. ASSUME NEW event, Transition(event, sub)
      PROVE  KeepsPaidPeriods /\ tenant' \in Tenants /\ TenantMirrorsSubscription'
  BY <1>2, <1>3, TransitionMoves DEF KeepsPaidPeriods
<1>4. ASSUME SubRefused PROVE KeepsPaidPeriods /\ tenant' \in Tenants /\ TenantMirrorsSubscription'
  BY <1>1, <1>2, <1>4 DEF SubRefused, KeepsPaidPeriods, TenantMirrorsSubscription
<1>5. CASE SweepMoves(w)
  <2>1. KeepsPaidPeriods /\ tenant' \in Tenants /\ TenantMirrorsSubscription'
    BY <1>3, <1>4, <1>5 DEF SweepMoves
  <2>2. biller[w].at \in BillerAts \ {"idle"} /\ ~Collects(biller[w]) /\ RacedGrows
    BY <1>2, <1>5 DEF SweepMoves, BillerAts, Collects, RacedGrows
  <2>3. QED
    BY <1>5, <2>1, <2>2, AsideStep DEF SweepMoves
<1>6. CASE CancelWrites(w)
  <2>1. ASSUME sub' = [sub EXCEPT !.cancelAtEnd = TRUE], UNCHANGED tenant
        PROVE  KeepsPaidPeriods /\ tenant' \in Tenants /\ TenantMirrorsSubscription'
    <3>1. sub' \in SubRecord /\ sub'.until = sub.until /\ sub'.status = sub.status
      BY <1>2, <2>1 DEF SubRecord
    <3>2. QED
      BY <1>1, <1>2, <2>1, <3>1 DEF KeepsPaidPeriods, TenantMirrorsSubscription
  <2>2. KeepsPaidPeriods /\ tenant' \in Tenants /\ TenantMirrorsSubscription'
    BY <1>3, <1>4, <1>6, <2>1 DEF CancelWrites
  <2>3. biller[w].at \in BillerAts \ {"idle"} /\ ~Collects(biller[w]) /\ RacedGrows
    BY <1>2, <1>6 DEF CancelWrites, BillerAts, Collects, RacedGrows
  <2>4. QED
    BY <1>6, <2>2, <2>3, AsideStep DEF CancelWrites
<1>7. CASE ExtendWrites(w)
  <2>1. sub' = [sub EXCEPT !.status = "TRIAL", !.trial = "running"] /\ tenant' = TenantStatusFor("TRIAL")
    BY <1>7 DEF ExtendWrites, Mirror
  <2>2. sub' \in SubRecord /\ sub'.until = sub.until /\ sub'.status = "TRIAL"
    BY <1>2, <2>1, StatusesAre DEF SubRecord
  <2>3. KeepsPaidPeriods
    BY <1>2, <2>2 DEF KeepsPaidPeriods
  <2>4. tenant' \in Tenants /\ TenantMirrorsSubscription'
    BY <2>1, <2>2 DEF TenantStatusFor, Tenants, TenantMirrorsSubscription
  <2>5. biller[w].at \in BillerAts \ {"idle"} /\ ~Collects(biller[w]) /\ RacedGrows
    BY <1>2, <1>7 DEF ExtendWrites, BillerAts, Collects, RacedGrows
  <2>6. QED
    BY <1>7, <2>3, <2>4, <2>5, AsideStep DEF ExtendWrites
<1>8. QED
  BY <1>5, <1>6, <1>7

\* A new invoice is one of those not made yet.
LEMMA FreshIsUnbilled ==
    ASSUME Unbilled # {}
    PROVE  FreshInvoice \in SubInvoices /\ invoice[FreshInvoice].status = "none"
<1>1. Unbilled \in SUBSET Nat
  BY SubFacts DEF Unbilled
<1>2. FreshInvoice \in Unbilled
  BY <1>1, MinIn DEF FreshInvoice
<1>3. QED
  BY <1>2 DEF Unbilled

\* Nobody collects an invoice that is not made, and nothing was charged for it.
LEMMA UnmadeUncharged ==
    ASSUME SubInv, NEW i \in SubInvoices, invoice[i].status = "none"
    PROVE  Collecting(i) = {}
BY DEF SubInv, BillersFit, Fits, Collects, Collecting

\* A sweep or request under way takes up an invoice to be paid, or a new one.
LEMMA TakeUpStep ==
    ASSUME SubInv, NEW w \in Billers, biller[w].at \in BillerAts \ {"idle"}, ~Collects(biller[w]),
           NEW i \in SubInvoices, Goes(w, [at |-> "collect", on |-> i]),
           invoice[i].status # "PAID", invoice'[i].status # "none", Overlaps(i) \/ (Collecting(i) = {} /\ UNCHANGED unsure),
           invoice' \in [SubInvoices -> InvoiceRecord], \A j \in SubInvoices \ {i} : invoice'[j] = invoice[j],
           InvoicesMade, UNCHANGED <<realProvider, clock, starts, charges, raced, billingEvent>>,
           WasPaid(i) => WasPaid(i)', sub' \in SubRecord, tenant' \in Tenants, TenantMirrorsSubscription', RenewalsSound'
    PROVE  SubInv'
<1>1. SubColumns /\ BillersFit
  BY DEF SubInv
<1>2. PICK rec : rec = [at |-> "collect", on |-> i]
  OBVIOUS
<1>3. rec.at = "collect" /\ rec.on = i /\ {"at", "on"} \subseteq DOMAIN rec
  BY <1>2
<1>4. biller[w] # BillerIdle /\ Goes(w, rec)
  BY <1>2 DEF BillerIdle
<1>5. ~Renewal(rec) /\ Fits(rec)' /\ Collects(rec)
  BY <1>3 DEF Renewal, Fits, Collects, BillerAts, EventAts
<1>6. WasPaidStay
  <2>1. WasPaid(i) => invoice[i].status # "none"
    BY DEF SubInv, RenewalsSound, WasPaid
  <2>2. QED
    BY <2>1 DEF InvoicesMade, WasPaidStay, WasPaid
<1>7. RacedGrows /\ unsure \subseteq unsure' /\ unsure' \in SUBSET SubInvoices
  BY <1>1 DEF SubColumns, RacedGrows, Overlaps
<1>8. SubColumns'
  BY <1>1, <1>7 DEF SubColumns
<1>9. OneProvider' /\ EventsRecorded'
  BY <1>6, ProviderKept
<1>10. ASSUME NEW j \in SubInvoices \ unsure' PROVE ChargeSound(j)'
  <2>1. ChargeSound(j) /\ charges'[j] = charges[j]
    BY <1>7 DEF SubInv
  <2>2. CASE j = i
    <3>1. Collecting(i) = {}
      BY <2>2 DEF Overlaps
    <3>2. charges \in [SubInvoices -> Nat] /\ rec.at = "collect" /\ rec.on = i
      BY <1>1, <1>3 DEF SubColumns
    <3>3. QED
      BY <1>1, <1>4, <2>1, <2>2, <3>1, <3>2, StartsCollecting
  <2>3. CASE j # i
    <3>1. Collects(rec) => rec.on # j
      BY <1>3, <2>3
    <3>2. Untouched(j)
      BY <1>1, <1>4, <2>1, <2>3, <3>1, AsideUntouched
    <3>3. QED
      BY <2>1, <3>2, UntouchedSound
  <2>4. QED
    BY <2>2, <2>3
<1>11. QED
  BY <1>4, <1>5, <1>6, <1>7, <1>8, <1>9, <1>10, MoveStep

\* A renewal takes up the invoice of its period, or makes it.
LEMMA RenewStep ==
    ASSUME SubInv, NEW w \in Billers, Renews(w)
    PROVE  SubInv'
<1>1. SubColumns /\ BillersFit /\ RenewalsSound /\ RenewalsAlone /\ TenantMirrorsSubscription
  BY DEF SubInv
<1>2. PICK p : p = biller[w].period
  OBVIOUS
<1>3. Renewal(biller[w]) /\ p \in Periods /\ biller[w].at = "sweep"
  BY <1>1, <1>2 DEF Renews, Renewal, BillersFit, Fits
<1>4. biller[w].at \in BillerAts \ {"idle"} /\ ~Collects(biller[w])
  BY <1>3 DEF BillerAts, Collects
<1>5. UNCHANGED <<realProvider, clock, starts, charges, raced, billingEvent>> /\ sub' = sub /\ tenant' = tenant
  BY DEF Renews
<1>6. sub' \in SubRecord /\ tenant' \in Tenants /\ TenantMirrorsSubscription'
  BY <1>1, <1>5 DEF SubColumns, TenantMirrorsSubscription
<1>7. CASE Retried(p) # {}
  <2>1. PICK i \in Retried(p) : Overlaps(i) /\ Goes(w, [at |-> "collect", on |-> i])
    BY <1>2, <1>7 DEF Renews
  <2>2. i \in SubInvoices /\ invoice[i].status \in {"OPEN", "FAILED"}
    BY <2>1 DEF Retried, Payable
  <2>3. invoice' = invoice
    BY <1>2, <1>7 DEF Renews
  <2>4. RenewalsSound'
    BY <1>1, <1>5, <2>3 DEF RenewalsSound
  <2>5. invoice' \in [SubInvoices -> InvoiceRecord]
    BY <1>1, <2>3 DEF SubColumns
  <2>6. /\ invoice[i].status # "PAID" /\ invoice'[i].status # "none" /\ InvoicesMade
        /\ \A j \in SubInvoices \ {i} : invoice'[j] = invoice[j]
        /\ WasPaid(i) => WasPaid(i)'
    BY <2>2, <2>3 DEF InvoicesMade, WasPaid
  <2>7. QED
    BY <1>4, <1>5, <1>6, <2>1, <2>2, <2>4, <2>5, <2>6, TakeUpStep
<1>8. CASE Retried(p) = {}
  <2>1. PICK i : i = FreshInvoice
    OBVIOUS
  <2>2. PICK row : row = NewInvoice(p, TRUE)
    OBVIOUS
  <2>3. /\ Unbilled # {} /\ invoice' = [invoice EXCEPT ![i] = row]
        /\ Goes(w, [at |-> "collect", on |-> i]) /\ unsure' = unsure
    BY <1>2, <1>8, <2>1, <2>2 DEF Renews
  <2>4. i \in SubInvoices /\ invoice[i].status = "none"
    BY <2>1, <2>3, FreshIsUnbilled
  <2>5. row \in InvoiceRecord /\ row.status = "OPEN" /\ row.period = p
    BY <1>3, <2>2, SubFacts DEF InvoiceRecord, NewInvoice
  <2>6. invoice \in [SubInvoices -> InvoiceRecord]
    BY <1>1 DEF SubColumns
  <2>7. /\ invoice'[i] = row /\ \A j \in SubInvoices \ {i} : invoice'[j] = invoice[j]
        /\ invoice' \in [SubInvoices -> InvoiceRecord]
    BY <2>3, <2>4, <2>5, <2>6
  <2>8. Collecting(i) = {}
    BY <2>4, UnmadeUncharged
  <2>9. ASSUME NEW j \in SubInvoices, j # i, invoice[j].renewal, invoice[j].period = p, p \notin raced PROVE FALSE
    <3>1. invoice[j].status \in {"OPEN", "FAILED", "PAID"}
      BY <1>1, <2>6, <2>9 DEF RenewalsSound, InvoiceRecord
    <3>2. invoice[j].status = "PAID"
      BY <1>8, <2>9, <3>1 DEF Retried, Payable
    <3>3. QED
      BY <1>1, <1>2, <1>3, <2>9, <3>2 DEF RenewalsAlone
  <2>10. RenewalsSound'
    <3>1. \A j \in SubInvoices : invoice'[j].status = "none" => ~invoice'[j].renewal /\ ~invoice'[j].crossed
      BY <1>1, <2>5, <2>7 DEF RenewalsSound
    <3>2. \A j \in SubInvoices : invoice'[j].renewal /\ invoice'[j].status = "PAID" /\ invoice'[j].period \notin raced
                                   => invoice'[j].period <= sub.until
      BY <1>1, <2>5, <2>7 DEF RenewalsSound
    <3>3. ASSUME NEW j \in SubInvoices, NEW k \in SubInvoices, invoice'[j].renewal, invoice'[k].renewal,
                 invoice'[j].period = invoice'[k].period, invoice'[j].period \in Periods \ raced
          PROVE  j = k
      <4>1. CASE j = i \/ k = i
        BY <2>5, <2>7, <2>9, <3>3, <4>1
      <4>2. CASE j # i /\ k # i
        BY <1>1, <2>7, <3>3, <4>2 DEF RenewalsSound
      <4>3. QED
        BY <4>1, <4>2
    <3>4. QED
      BY <1>5, <3>1, <3>2, <3>3 DEF RenewalsSound
  <2>11. InvoicesMade /\ ~WasPaid(i)
    BY <1>1, <2>4, <2>7 DEF InvoicesMade, WasPaid, RenewalsSound
  <2>12. QED
    BY <1>4, <1>5, <1>6, <2>3, <2>4, <2>5, <2>7, <2>8, <2>10, <2>11, TakeUpStep
<1>9. QED
  BY <1>7, <1>8

\* A subscription saved with our own provider is invoiced at once.
LEMMA SubscribeStep ==
    ASSUME SubInv, NEW w \in Billers, SubscribeWrites(w)
    PROVE  SubInv'
<1>1. SubColumns /\ BillersFit /\ RenewalsSound /\ TenantMirrorsSubscription
  BY DEF SubInv
<1>2. biller[w].at \in BillerAts \ {"idle"} /\ ~Collects(biller[w])
  BY DEF SubscribeWrites, BillerAts, Collects
<1>3. /\ UNCHANGED <<realProvider, clock, starts, charges, raced, billingEvent>>
      /\ tenant' = tenant /\ unsure' = unsure
  BY DEF SubscribeWrites
<1>4. sub' = [sub EXCEPT !.cancelAtEnd = FALSE, !.mandate = realProvider]
  BY DEF SubscribeWrites
<1>5. sub' \in SubRecord /\ sub'.until = sub.until /\ sub'.status = sub.status
  BY <1>1, <1>4 DEF SubColumns, SubRecord
<1>6. tenant' \in Tenants /\ TenantMirrorsSubscription'
  BY <1>1, <1>3, <1>5 DEF SubColumns, TenantMirrorsSubscription
<1>7. RacedGrows /\ KeepsPaidPeriods
  <2>1. sub.until <= sub.until
    BY <1>1 DEF SubColumns, SubRecord
  <2>2. QED
    BY <1>1, <1>3, <1>5, <2>1 DEF SubColumns, RacedGrows, KeepsPaidPeriods
<1>8. CASE realProvider
  <2>1. SubEnds(w) /\ invoice' = invoice
    BY <1>8 DEF SubscribeWrites
  <2>2. QED
    BY <1>2, <1>3, <1>6, <1>7, <2>1, AsideStep DEF SubscribeWrites
<1>9. CASE ~realProvider
  <2>1. PICK i : i = FreshInvoice
    OBVIOUS
  <2>2. PICK row : row = NewInvoice(clock + 1, FALSE)
    OBVIOUS
  <2>3. /\ Unbilled # {} /\ invoice' = [invoice EXCEPT ![i] = row]
        /\ Goes(w, [at |-> "collect", on |-> i])
    BY <1>9, <2>1, <2>2 DEF SubscribeWrites
  <2>4. i \in SubInvoices /\ invoice[i].status = "none"
    BY <2>1, <2>3, FreshIsUnbilled
  <2>5. row \in InvoiceRecord /\ row.status = "OPEN" /\ row.renewal = FALSE
    <3>1. clock + 1 \in 0 .. MaxPeriod + 1
      BY <1>1, SubFacts DEF SubColumns
    <3>2. QED
      BY <2>2, <3>1 DEF InvoiceRecord, NewInvoice
  <2>6. invoice \in [SubInvoices -> InvoiceRecord]
    BY <1>1 DEF SubColumns
  <2>7. /\ invoice'[i] = row /\ \A j \in SubInvoices \ {i} : invoice'[j] = invoice[j]
        /\ invoice' \in [SubInvoices -> InvoiceRecord]
    BY <2>3, <2>4, <2>5, <2>6
  <2>8. Collecting(i) = {}
    BY <2>4, UnmadeUncharged
  <2>9. InvoicesStay
    <3>1. invoice[i].renewal = FALSE
      BY <1>1, <2>4, <2>6 DEF RenewalsSound, InvoiceRecord
    <3>2. QED
      BY <2>4, <2>5, <2>7, <3>1 DEF InvoicesStay, InvoicesMade
  <2>10. RenewalsSound'
    <3>1. \A j \in SubInvoices : invoice'[j].renewal /\ invoice'[j].status = "PAID" =>
              invoice[j].status = "PAID" \/ invoice'[j].period <= sub'.until
      BY <2>5, <2>7
    <3>2. \A j \in SubInvoices : invoice'[j].status = "none" => ~invoice'[j].crossed
      BY <1>1, <2>5, <2>7 DEF RenewalsSound
    <3>3. QED
      BY <1>7, <2>7, <2>9, <3>1, <3>2, RenewalsKept
  <2>11. InvoicesMade /\ ~WasPaid(i)
    BY <1>1, <2>4, <2>9 DEF InvoicesStay, WasPaid, RenewalsSound
  <2>12. QED
    BY <1>2, <1>3, <1>5, <1>6, <2>3, <2>4, <2>5, <2>7, <2>8, <2>10, <2>11, TakeUpStep
<1>10. QED
  BY <1>8, <1>9

\* Who collects an invoice.
LEMMA CollectorIs ==
    ASSUME SubInv, NEW w \in Billers, Collects(biller[w])
    PROVE  /\ biller[w].on \in SubInvoices /\ w \in Collecting(biller[w].on) /\ {"at", "on"} \subseteq DOMAIN biller[w]
           /\ invoice[biller[w].on].status # "none" /\ biller[w] # BillerIdle
           /\ biller[w].at # "paid" /\ biller[w].on \notin unsure => charges[biller[w].on] = 0
<1>1. Fits(biller[w])
  BY DEF SubInv, BillersFit
<1>2. biller[w].on \in SubInvoices /\ {"at", "on"} \subseteq DOMAIN biller[w] /\ invoice[biller[w].on].status # "none"
  BY <1>1 DEF Fits
<1>3. w \in Collecting(biller[w].on)
  BY DEF Collecting, Collects
<1>4. biller[w] # BillerIdle
  BY DEF BillerIdle, Collects
<1>5. ASSUME biller[w].at # "paid", biller[w].on \notin unsure PROVE charges[biller[w].on] = 0
  <2>1. ChargeSound(biller[w].on)
    BY <1>2, <1>5 DEF SubInv
  <2>2. QED
    BY <1>3, <1>5, <2>1 DEF ChargeSound
<1>6. QED
  BY <1>2, <1>3, <1>4, <1>5

\* Our provider answers a call: the invoice was charged, or was not.
LEMMA AnswerStep ==
    ASSUME SubInv, NEW w \in Billers, biller[w].at = "collect", ~realProvider,
           NEW answer \in {"paid", "failed"}, Goes(w, [biller[w] EXCEPT !.at = answer]),
           charges' = IF answer = "paid" THEN [charges EXCEPT ![biller[w].on] = @ + 1] ELSE charges,
           UNCHANGED <<realProvider, clock, starts, sub, tenant, invoice, unsure, raced, billingEvent>>
    PROVE  SubInv'
<1>1. SubColumns /\ BillersFit /\ RenewalsSound
  BY DEF SubInv
<1>2. Collects(biller[w])
  BY DEF Collects
<1>3. PICK i \in SubInvoices : i = biller[w].on
  BY <1>2, CollectorIs
<1>4. /\ w \in Collecting(i) /\ {"at", "on"} \subseteq DOMAIN biller[w]
      /\ invoice[i].status # "none" /\ biller[w] # BillerIdle
      /\ i \notin unsure => charges[i] = 0
  <2>1. /\ w \in Collecting(i) /\ {"at", "on"} \subseteq DOMAIN biller[w]
        /\ invoice[i].status # "none" /\ biller[w] # BillerIdle
    BY <1>2, <1>3, CollectorIs
  <2>2. i \notin unsure => charges[i] = 0
    BY <1>2, <1>3, CollectorIs
  <2>3. QED
    BY <2>1, <2>2
<1>5. PICK rec : rec = [biller[w] EXCEPT !.at = answer]
  OBVIOUS
<1>6. rec.at = answer /\ rec.on = i /\ {"at", "on"} \subseteq DOMAIN rec
  BY <1>3, <1>4, <1>5
<1>7. Goes(w, rec)
  BY <1>5
<1>8. ~Renewal(rec) /\ Fits(rec)' /\ Collects(rec)
  <2>1. ~realProvider' /\ invoice' = invoice
    OBVIOUS
  <2>2. QED
    BY <1>4, <1>6, <2>1 DEF Renewal, Fits, Collects, BillerAts, EventAts
<1>9. /\ charges' \in [SubInvoices -> Nat] /\ \A j \in SubInvoices \ {i} : charges'[j] = charges[j]
      /\ charges'[i] = IF answer = "paid" THEN charges[i] + 1 ELSE charges[i]
  BY <1>1, <1>3 DEF SubColumns
<1>10. InvoicesMade /\ RacedGrows
  BY <1>1 DEF InvoicesMade, RacedGrows, SubColumns
<1>11. SubColumns' /\ TenantMirrorsSubscription' /\ RenewalsSound'
  BY <1>1, <1>9 DEF SubInv, SubColumns, TenantMirrorsSubscription, RenewalsSound
<1>12. OneProvider' /\ EventsRecorded'
  BY DEF SubInv, OneProvider, EventsRecorded, WasPaid
<1>13. ASSUME NEW j \in SubInvoices \ unsure' PROVE ChargeSound(j)'
  <2>1. ChargeSound(j) /\ j \notin unsure
    BY DEF SubInv
  <2>2. CASE j = i
    <3>1. /\ biller'[w] = rec /\ \A v \in Billers \ {w} : biller'[v] = biller[v]
      BY <1>1, <1>7, BillerMoves
    <3>2. Collecting(i) = {w}
      BY <1>4, <2>1, <2>2 DEF ChargeSound
    <3>3. Collecting(i)' = {w}
      BY <1>6, <3>1, <3>2 DEF Collecting
    <3>4. charges'[i] = IF answer = "paid" THEN 1 ELSE 0
      BY <1>4, <1>9, <2>1, <2>2
    <3>5. biller'[w].at = answer
      BY <1>6, <3>1
    <3>6. QED
      BY <2>2, <3>3, <3>4, <3>5 DEF ChargeSound
  <2>3. CASE j # i
    <3>1. Untouched(j)
      BY <1>1, <1>3, <1>6, <1>7, <1>9, <2>3, AsideUntouched
    <3>2. QED
      BY <2>1, <3>1, UntouchedSound
  <2>4. QED
    BY <2>2, <2>3
<1>14. QED
  BY <1>4, <1>7, <1>8, <1>10, <1>11, <1>12, <1>13, MoveStep

\* A call ends with its invoice uncharged or paid.
LEMMA EndStep ==
    ASSUME SubInv, NEW w \in Billers, Collects(biller[w]), SubEnds(w), UNCHANGED <<realProvider, charges>>,
           biller[w].on \notin unsure' => charges[biller[w].on] = 0 \/ invoice'[biller[w].on].status = "PAID",
           \A j \in SubInvoices \ {biller[w].on} : invoice'[j] = invoice[j],
           unsure \subseteq unsure', InvoicesMade, RacedGrows,
           SubColumns', TenantMirrorsSubscription', OneProvider', RenewalsSound', EventsRecorded'
    PROVE  SubInv'
<1>1. SubColumns /\ BillersFit
  BY DEF SubInv
<1>2. PICK i \in SubInvoices : i = biller[w].on
  BY CollectorIs
<1>3. w \in Collecting(i) /\ biller[w] # BillerIdle
  BY <1>2, CollectorIs
<1>4. Goes(w, BillerIdle)
  BY DEF SubEnds
<1>5. ~Renewal(BillerIdle) /\ ~Collects(BillerIdle) /\ Fits(BillerIdle)'
  BY DEF Renewal, Fits, Collects, BillerIdle, BillerAts, EventAts
<1>6. ASSUME NEW j \in SubInvoices \ unsure' PROVE ChargeSound(j)'
  <2>1. ChargeSound(j) /\ charges'[j] = charges[j]
    BY DEF SubInv
  <2>2. CASE j = i
    BY <1>1, <1>2, <1>3, <1>4, <1>5, <2>1, <2>2, EndsCollecting
  <2>3. CASE j # i
    <3>1. invoice'[j] = invoice[j]
      BY <1>2, <2>3
    <3>2. Untouched(j)
      BY <1>1, <1>2, <1>4, <1>5, <2>1, <2>3, <3>1, AsideUntouched
    <3>3. QED
      BY <2>1, <3>2, UntouchedSound
  <2>4. QED
    BY <2>2, <2>3
<1>7. QED
  BY <1>3, <1>4, <1>5, <1>6, MoveStep

\* The provider is called.
LEMMA ChargeStep ==
    ASSUME SubInv, NEW w \in Billers, Charge(w)
    PROVE  SubInv'
<1>1. UNCHANGED <<realProvider, clock, starts, sub, tenant, invoice, unsure, raced, billingEvent>>
  BY DEF Charge
<1>2. biller[w].at = "collect"
  BY DEF Charge
<1>3. CASE /\ ~realProvider
           /\ charges' = [charges EXCEPT ![biller[w].on] = @ + 1]
           /\ Goes(w, [biller[w] EXCEPT !.at = "paid"])
  BY <1>1, <1>2, <1>3, AnswerStep
<1>4. CASE ~realProvider /\ Goes(w, [biller[w] EXCEPT !.at = "failed"]) /\ UNCHANGED charges
  BY <1>1, <1>2, <1>4, AnswerStep
<1>5. CASE realProvider /\ SubEnds(w) /\ UNCHANGED charges
  <2>1. Collects(biller[w])
    BY <1>2 DEF Collects
  <2>2. charges[biller[w].on] = 0
    BY <1>5, <2>1, CollectorIs DEF SubInv, OneProvider
  <2>3. InvoicesMade /\ RacedGrows
    BY <1>1 DEF InvoicesMade, RacedGrows, SubInv, SubColumns
  <2>4. SubColumns' /\ TenantMirrorsSubscription' /\ RenewalsSound'
    BY <1>1, <1>5 DEF SubInv, SubColumns, TenantMirrorsSubscription, RenewalsSound
  <2>5. OneProvider' /\ EventsRecorded'
    BY <1>1, <1>5 DEF SubInv, OneProvider, EventsRecorded, WasPaid
  <2>6. QED
    BY <1>1, <1>5, <2>1, <2>2, <2>3, <2>4, <2>5, EndStep
<1>6. QED
  BY <1>3, <1>4, <1>5 DEF Charge

\* What marking an invoice does to its row.
LEMMA MarksInvoice ==
    ASSUME SubColumns, NEW i \in SubInvoices, NEW status \in {"PAID", "FAILED"}, NEW late \in BOOLEAN,
           invoice' = [invoice EXCEPT ![i] = [invoice[i] EXCEPT !.status = status, !.crossed = late]]
    PROVE  /\ invoice' \in [SubInvoices -> InvoiceRecord] /\ invoice'[i].status = status
           /\ invoice'[i].period = invoice[i].period /\ invoice'[i].renewal = invoice[i].renewal
           /\ invoice'[i].crossed = late /\ \A j \in SubInvoices \ {i} : invoice'[j] = invoice[j]
<1>1. PICK row : row = [invoice[i] EXCEPT !.status = status, !.crossed = late]
  OBVIOUS
<1>2. invoice \in [SubInvoices -> InvoiceRecord] /\ invoice[i] \in InvoiceRecord
  BY DEF SubColumns
<1>3. invoice' = [invoice EXCEPT ![i] = row]
  BY <1>1
<1>4. /\ row \in InvoiceRecord /\ row.status = status /\ row.period = invoice[i].period
      /\ row.renewal = invoice[i].renewal /\ row.crossed = late
  BY <1>1, <1>2 DEF InvoiceRecord
<1>5. QED
  BY <1>2, <1>3, <1>4

\* Periods given up count as raced for.
LEMMA TakesBack ==
    ASSUME SubColumns, TakenBack, sub' \in SubRecord
    PROVE  RacedGrows /\ KeepsPaidPeriods
<1>1. raced \in SUBSET Periods /\ raced' = raced \cup {p \in Periods : sub'.until < p /\ p <= sub.until}
  BY DEF SubColumns, TakenBack
<1>2. QED
  BY <1>1 DEF RacedGrows, KeepsPaidPeriods

\* Both rows after a payment, or its failure.
LEMMA PaymentMoves ==
    ASSUME SubColumns, TenantMirrorsSubscription
    PROVE  /\ \A p \in 0 .. MaxPeriod + 1 : PaidFor(p) => /\ sub' \in SubRecord /\ tenant' \in Tenants
                                                          /\ TenantMirrorsSubscription' /\ sub'.until = p
           /\ FailedPayment \/ SubRefused \/ (\E event : Transition(event, sub)) =>
                  /\ sub' \in SubRecord /\ tenant' \in Tenants
                  /\ TenantMirrorsSubscription' /\ sub'.until = sub.until
<1>1. sub \in SubRecord /\ tenant \in Tenants
  BY DEF SubColumns
<1>2. ASSUME NEW p \in 0 .. MaxPeriod + 1, PaidFor(p)
      PROVE  /\ sub' \in SubRecord /\ tenant' \in Tenants
             /\ TenantMirrorsSubscription' /\ sub'.until = p
  <2>1. PICK patched : patched = [sub EXCEPT !.until = p, !.grace = "none", !.trial = "none"]
    OBVIOUS
  <2>2. patched \in SubRecord /\ patched.until = p
    BY <1>1, <2>1 DEF SubRecord
  <2>3. Transition("PAYMENT_SUCCEEDED", patched)
    BY <1>2, <2>1 DEF PaidFor
  <2>4. QED
    BY <2>2, <2>3, TransitionMoves
<1>3. ASSUME SubRefused
      PROVE  /\ sub' \in SubRecord /\ tenant' \in Tenants
             /\ TenantMirrorsSubscription' /\ sub'.until = sub.until
  BY <1>1, <1>3 DEF SubRefused, TenantMirrorsSubscription
<1>4. ASSUME NEW event, Transition(event, sub)
      PROVE  /\ sub' \in SubRecord /\ tenant' \in Tenants
             /\ TenantMirrorsSubscription' /\ sub'.until = sub.until
  BY <1>1, <1>4, TransitionMoves
<1>5. ASSUME FailedPayment
      PROVE  /\ sub' \in SubRecord /\ tenant' \in Tenants
             /\ TenantMirrorsSubscription' /\ sub'.until = sub.until
  <2>1. PICK patched : patched = [sub EXCEPT !.grace = IF @ = "none" THEN "running" ELSE @]
    OBVIOUS
  <2>2. patched \in SubRecord /\ patched.until = sub.until
    BY <1>1, <2>1 DEF SubRecord
  <2>3. Transition("PAYMENT_FAILED", patched) \/ SubRefused
    BY <1>5, <2>1 DEF FailedPayment
  <2>4. QED
    BY <1>3, <2>2, <2>3, TransitionMoves
<1>6. QED
  BY <1>2, <1>3, <1>4, <1>5

\* What markPaid does to the invoice and to both rows.
LEMMA PaidRow ==
    ASSUME SubInv, NEW i \in SubInvoices, invoice[i].status # "none", MarkPaid(i)
    PROVE  /\ sub' \in SubRecord /\ tenant' \in Tenants /\ TenantMirrorsSubscription'
           /\ invoice' \in [SubInvoices -> InvoiceRecord] /\ invoice'[i].status = "PAID"
           /\ invoice'[i].period = invoice[i].period /\ invoice'[i].renewal = invoice[i].renewal
           /\ \A j \in SubInvoices \ {i} : invoice'[j] = invoice[j]
           /\ invoice[i].status = "PAID" \/ invoice[i].period <= sub'.until
           /\ InvoicesStay /\ WasPaidStay
<1>1. SubColumns /\ TenantMirrorsSubscription
  BY DEF SubInv
<1>2. invoice[i] \in InvoiceRecord /\ invoice[i].period \in 0 .. MaxPeriod + 1
  BY <1>1 DEF SubColumns, InvoiceRecord
<1>3. CASE invoice[i].status = "PAID"
  <2>1. UNCHANGED <<invoice, sub, tenant>>
    BY <1>3 DEF MarkPaid
  <2>2. QED
    BY <1>1, <1>3, <2>1 DEF SubColumns, TenantMirrorsSubscription, InvoicesStay, InvoicesMade, WasPaidStay, WasPaid
<1>4. CASE invoice[i].status # "PAID"
  <2>1. invoice' = [invoice EXCEPT ![i].status = "PAID"] /\ PaidFor(invoice[i].period)
    BY <1>4 DEF MarkPaid
  <2>2. PICK c \in BOOLEAN : c = invoice[i].crossed
    BY <1>2 DEF InvoiceRecord
  <2>3. [invoice[i] EXCEPT !.status = "PAID"] = [invoice[i] EXCEPT !.status = "PAID", !.crossed = c]
    BY <1>2, <2>2 DEF InvoiceRecord
  <2>4. /\ invoice' \in [SubInvoices -> InvoiceRecord] /\ invoice'[i].status = "PAID"
        /\ invoice'[i].period = invoice[i].period /\ invoice'[i].renewal = invoice[i].renewal
        /\ \A j \in SubInvoices \ {i} : invoice'[j] = invoice[j]
    BY <1>1, <2>1, <2>3, MarksInvoice
  <2>5. sub' \in SubRecord /\ tenant' \in Tenants /\ TenantMirrorsSubscription' /\ sub'.until = invoice[i].period
    BY <1>1, <1>2, <2>1, PaymentMoves
  <2>6. invoice[i].period <= sub'.until
    BY <1>2, <2>5
  <2>7. InvoicesStay /\ WasPaidStay
    BY <2>4 DEF InvoicesStay, InvoicesMade, WasPaidStay, WasPaid
  <2>8. QED
    BY <2>4, <2>5, <2>6, <2>7
<1>5. QED
  BY <1>3, <1>4

\* What markFailed does to them.
LEMMA FailedRow ==
    ASSUME SubInv, NEW i \in SubInvoices, invoice[i].status # "none", MarkFailed(i)
    PROVE  /\ sub' \in SubRecord /\ tenant' \in Tenants /\ TenantMirrorsSubscription' /\ sub'.until = sub.until
           /\ invoice' \in [SubInvoices -> InvoiceRecord] /\ invoice'[i].status = "FAILED"
           /\ \A j \in SubInvoices \ {i} : invoice'[j] = invoice[j]
           /\ InvoicesStay /\ WasPaidStay
<1>1. SubColumns /\ TenantMirrorsSubscription
  BY DEF SubInv
<1>2. invoice \in [SubInvoices -> InvoiceRecord] /\ invoice[i] \in InvoiceRecord
  BY <1>1 DEF SubColumns
<1>3. PICK c \in BOOLEAN : c = (invoice[i].crossed \/ invoice[i].status = "PAID")
  BY <1>2 DEF InvoiceRecord
<1>4. invoice' = [invoice EXCEPT ![i].status = "FAILED", ![i].crossed = c] /\ FailedPayment
  BY <1>3 DEF MarkFailed
<1>5. invoice' = [invoice EXCEPT ![i] = [invoice[i] EXCEPT !.status = "FAILED", !.crossed = c]]
  BY <1>2, <1>4 DEF InvoiceRecord
<1>6. /\ invoice' \in [SubInvoices -> InvoiceRecord] /\ invoice'[i].status = "FAILED"
      /\ invoice'[i].period = invoice[i].period /\ invoice'[i].renewal = invoice[i].renewal
      /\ invoice'[i].crossed = c /\ \A j \in SubInvoices \ {i} : invoice'[j] = invoice[j]
  BY <1>1, <1>5, MarksInvoice
<1>7. sub' \in SubRecord /\ tenant' \in Tenants /\ TenantMirrorsSubscription' /\ sub'.until = sub.until
  BY <1>1, <1>4, PaymentMoves
<1>8. InvoicesStay /\ WasPaidStay
  BY <1>3, <1>6 DEF InvoicesStay, InvoicesMade, WasPaidStay, WasPaid
<1>9. QED
  BY <1>6, <1>7, <1>8

\* Rows that are not made are not crossed, however the made ones are marked.
LEMMA UnmadeUncrossed ==
    ASSUME SubInv, NEW i \in SubInvoices, invoice[i].status # "none", invoice'[i].status # "none",
           \A j \in SubInvoices \ {i} : invoice'[j] = invoice[j]
    PROVE  \A j \in SubInvoices : invoice'[j].status = "none" => ~invoice'[j].crossed
BY DEF SubInv, RenewalsSound

\* A call that was paid says so.
LEMMA PaidStep ==
    ASSUME SubInv, NEW w \in Billers, MarkPaidInvoice(w)
    PROVE  SubInv'
<1>1. SubColumns
  BY DEF SubInv
<1>2. Collects(biller[w]) /\ SubEnds(w)
  BY DEF Collects, MarkPaidInvoice
<1>3. PICK i \in SubInvoices : i = biller[w].on /\ invoice[i].status # "none"
  BY <1>2, CollectorIs
<1>4. UNCHANGED <<realProvider, clock, starts, charges, unsure, billingEvent>> /\ TakenBack /\ MarkPaid(i)
  BY <1>3 DEF MarkPaidInvoice
<1>5. /\ sub' \in SubRecord /\ tenant' \in Tenants /\ TenantMirrorsSubscription'
      /\ invoice' \in [SubInvoices -> InvoiceRecord] /\ invoice'[i].status = "PAID"
      /\ invoice'[i].period = invoice[i].period /\ \A j \in SubInvoices \ {i} : invoice'[j] = invoice[j]
      /\ invoice[i].status = "PAID" \/ invoice[i].period <= sub'.until
      /\ InvoicesStay /\ WasPaidStay
  BY <1>3, <1>4, PaidRow
<1>6. RacedGrows /\ KeepsPaidPeriods /\ InvoicesMade
  BY <1>1, <1>4, <1>5, TakesBack DEF InvoicesStay
<1>7. SubColumns'
  BY <1>1, <1>4, <1>5, <1>6 DEF SubColumns, RacedGrows
<1>8. RenewalsSound'
  <2>1. \A j \in SubInvoices : invoice'[j].renewal /\ invoice'[j].status = "PAID" =>
            invoice[j].status = "PAID" \/ invoice'[j].period <= sub'.until
    BY <1>5
  <2>2. QED
    BY <1>3, <1>5, <1>6, <2>1, UnmadeUncrossed, RenewalsKept
<1>9. OneProvider' /\ EventsRecorded'
  BY <1>4, <1>5, ProviderKept
<1>10. QED
  BY <1>2, <1>3, <1>4, <1>5, <1>6, <1>7, <1>8, <1>9, EndStep

\* A call that was not paid says so.
LEMMA FailedStep ==
    ASSUME SubInv, NEW w \in Billers, MarkFailedInvoice(w)
    PROVE  SubInv'
<1>1. SubColumns /\ BillersFit
  BY DEF SubInv
<1>2. Collects(biller[w]) /\ SubEnds(w) /\ biller[w].at = "failed"
  BY DEF Collects, MarkFailedInvoice
<1>3. PICK i \in SubInvoices : i = biller[w].on /\ invoice[i].status # "none"
  BY <1>2, CollectorIs
<1>4. UNCHANGED <<realProvider, clock, starts, charges, unsure, raced, billingEvent>> /\ MarkFailed(i)
  BY <1>3 DEF MarkFailedInvoice
<1>5. /\ sub' \in SubRecord /\ tenant' \in Tenants /\ TenantMirrorsSubscription' /\ sub'.until = sub.until
      /\ invoice' \in [SubInvoices -> InvoiceRecord] /\ invoice'[i].status = "FAILED"
      /\ \A j \in SubInvoices \ {i} : invoice'[j] = invoice[j]
      /\ InvoicesStay /\ WasPaidStay
  BY <1>3, <1>4, FailedRow
<1>6. RacedGrows /\ KeepsPaidPeriods /\ InvoicesMade
  <2>1. sub.until <= sub'.until
    BY <1>1, <1>5 DEF SubColumns, SubRecord
  <2>2. QED
    BY <1>1, <1>4, <1>5, <2>1 DEF SubColumns, RacedGrows, KeepsPaidPeriods, InvoicesStay
<1>7. SubColumns'
  BY <1>1, <1>4, <1>5 DEF SubColumns
<1>8. RenewalsSound'
  <2>1. \A j \in SubInvoices : invoice'[j].renewal /\ invoice'[j].status = "PAID" =>
            invoice[j].status = "PAID" \/ invoice'[j].period <= sub'.until
    BY <1>5
  <2>2. QED
    BY <1>3, <1>5, <1>6, <2>1, UnmadeUncrossed, RenewalsKept
<1>9. OneProvider' /\ EventsRecorded'
  BY <1>4, <1>5, ProviderKept
<1>10. i \notin unsure => charges[i] = 0
  BY <1>2, <1>3, CollectorIs
<1>11. QED
  BY <1>2, <1>3, <1>4, <1>5, <1>6, <1>7, <1>8, <1>9, <1>10, EndStep

\* With the real provider nothing is charged by us, so no step takes a charge away.
LEMMA UnchargedSound ==
    ASSUME SubInv, realProvider, NEW w \in Billers, NEW rec, Goes(w, rec), ~Collects(biller[w]), ~Collects(rec),
           charges' = charges, unsure' = unsure
    PROVE  \A i \in SubInvoices \ unsure' : ChargeSound(i)'
<1>1. ASSUME NEW i \in SubInvoices \ unsure PROVE ChargeSound(i)'
  <2>1. ChargeSound(i) /\ charges[i] = 0 /\ charges'[i] = charges[i] /\ BillersFit
    BY DEF SubInv, OneProvider
  <2>2. ~(charges[i] > 0)
    BY <2>1
  <2>3. Untouched(i)
    BY <2>1, <2>2, AsideUntouched
  <2>4. QED
    BY <2>1, <2>3, UntouchedSound
<1>2. QED
  BY <1>1

\* A delivery that is under way.
LEMMA DeliveryIs ==
    ASSUME SubInv, NEW w \in Billers, biller[w].at \in EventAts
    PROVE  /\ realProvider /\ biller[w].ev \in ProviderEvents /\ biller[w].ev[2] \in Periods
           /\ biller[w] # BillerIdle /\ ~Collects(biller[w])
<1>1. Fits(biller[w])
  BY DEF SubInv, BillersFit
<1>2. QED
  BY <1>1, SubFacts DEF Fits, BillerIdle, Collects, EventAts

\* The delivery of an event ends: an invoice is marked, or none, and both rows move.
LEMMA EventStep ==
    ASSUME SubInv, NEW w \in Billers, biller[w].at \in EventAts, EventEnds(w),
           sub' \in SubRecord, tenant' \in Tenants, TenantMirrorsSubscription',
           invoice' \in [SubInvoices -> InvoiceRecord], InvoicesStay, WasPaidStay,
           \A i \in SubInvoices : invoice'[i].status = "none" => ~invoice'[i].crossed,
           \A i \in SubInvoices : invoice'[i].renewal /\ invoice'[i].status = "PAID" =>
               invoice[i].status = "PAID" \/ invoice'[i].period <= sub'.until,
           biller[w].ev[1] = "CHARGED" =>
               \E i \in SubInvoices : invoice'[i].status = "PAID" /\ invoice'[i].period = biller[w].ev[2]
    PROVE  SubInv'
<1>1. SubColumns /\ OneProvider /\ EventsRecorded
  BY DEF SubInv
<1>2. PICK e \in ProviderEvents : e = biller[w].ev
  BY DeliveryIs
<1>3. /\ realProvider /\ biller[w] # BillerIdle /\ ~Collects(biller[w])
      /\ UNCHANGED <<realProvider, clock, starts, charges, unsure>> /\ TakenBack /\ SubEnds(w)
      /\ billingEvent' = [billingEvent EXCEPT ![e] = "applied"]
  BY <1>2, DeliveryIs DEF EventEnds
<1>4. ~Renewal(BillerIdle) /\ ~Collects(BillerIdle) /\ Fits(BillerIdle)' /\ Goes(w, BillerIdle)
  BY <1>3 DEF Renewal, Fits, Collects, BillerIdle, BillerAts, EventAts, SubEnds
<1>5. RacedGrows /\ KeepsPaidPeriods
  BY <1>1, <1>3, TakesBack
<1>6. billingEvent' \in [ProviderEvents -> EventStates] /\ \A f \in ProviderEvents \ {e} : billingEvent'[f] = billingEvent[f]
  BY <1>1, <1>3 DEF SubColumns, EventStates
<1>7. SubColumns'
  BY <1>1, <1>3, <1>5, <1>6 DEF SubColumns, RacedGrows
<1>8. RenewalsSound'
  BY <1>5, RenewalsKept
<1>9. OneProvider'
  BY <1>1, <1>3 DEF OneProvider
<1>10. EventsRecorded'
  <2>1. ASSUME NEW f \in ProviderEvents, f[1] = "CHARGED", billingEvent'[f] = "applied"
        PROVE  \E i \in SubInvoices : WasPaid(i)' /\ invoice'[i].period = f[2]
    <3>1. CASE f = e
      BY <1>2, <2>1, <3>1 DEF WasPaid
    <3>2. CASE f # e
      <4>1. PICK i \in SubInvoices : WasPaid(i) /\ invoice[i].period = f[2]
        BY <1>1, <1>6, <2>1, <3>2 DEF EventsRecorded
      <4>2. QED
        BY <4>1 DEF WasPaidStay
    <3>3. QED
      BY <3>1, <3>2
  <2>2. QED
    BY <2>1 DEF EventsRecorded
<1>11. \A i \in SubInvoices \ unsure' : ChargeSound(i)'
  BY <1>3, <1>4, UnchargedSound
<1>12. InvoicesMade
  BY DEF InvoicesStay
<1>13. QED
  BY <1>3, <1>4, <1>5, <1>7, <1>8, <1>9, <1>10, <1>11, <1>12, MoveStep

\* A delivery goes on with what it found or made.
LEMMA GoesOnStep ==
    ASSUME SubInv, NEW w \in Billers, NEW rec, biller[w].at \in EventAts, Goes(w, rec), rec.at \in EventAts,
           Fits(rec)', invoice' \in [SubInvoices -> InvoiceRecord], InvoicesStay, WasPaidStay,
           \A i \in SubInvoices : invoice'[i].status = "none" => ~invoice'[i].crossed,
           \A i \in SubInvoices : invoice'[i].status = "PAID" => invoice[i].status = "PAID",
           UNCHANGED <<realProvider, clock, starts, sub, tenant, charges, unsure, raced, billingEvent>>
    PROVE  SubInv'
<1>1. SubColumns /\ TenantMirrorsSubscription
  BY DEF SubInv
<1>2. realProvider /\ biller[w] # BillerIdle /\ ~Collects(biller[w])
  BY DeliveryIs
<1>3. ~Renewal(rec) /\ ~Collects(rec)
  BY DEF Renewal, Collects, EventAts
<1>4. RacedGrows /\ KeepsPaidPeriods /\ InvoicesMade
  <2>1. sub.until <= sub.until /\ sub \in SubRecord
    BY <1>1 DEF SubColumns, SubRecord
  <2>2. QED
    BY <1>1, <2>1 DEF RacedGrows, KeepsPaidPeriods, InvoicesStay, SubColumns
<1>5. SubColumns' /\ TenantMirrorsSubscription'
  BY <1>1 DEF SubColumns, TenantMirrorsSubscription
<1>6. OneProvider' /\ EventsRecorded'
  BY ProviderKept
<1>7. RenewalsSound'
  BY <1>4, RenewalsKept
<1>8. \A i \in SubInvoices \ unsure' : ChargeSound(i)'
  BY <1>2, <1>3, UnchargedSound
<1>9. QED
  BY <1>2, <1>3, <1>4, <1>5, <1>6, <1>7, <1>8, MoveStep

\* An event looks for its invoice.
LEMMA FindStep ==
    ASSUME SubInv, NEW w \in Billers, EventFinds(w)
    PROVE  SubInv'
<1>1. PICK e : e = biller[w].ev
  OBVIOUS
<1>2. /\ biller[w].at = "event" /\ biller[w].at \in EventAts
      /\ UNCHANGED <<realProvider, clock, starts, sub, tenant, invoice, charges, unsure, raced, billingEvent>>
  BY DEF EventFinds, EventAts
<1>3. realProvider /\ e \in ProviderEvents /\ biller[w].had \in {"none", "running", "over"}
  <2>1. Fits(biller[w])
    BY DEF SubInv, BillersFit
  <2>2. QED
    BY <1>1, <1>2, <2>1 DEF Fits
<1>4. /\ invoice' \in [SubInvoices -> InvoiceRecord] /\ InvoicesStay /\ WasPaidStay
      /\ \A i \in SubInvoices : invoice'[i].status = "none" => ~invoice'[i].crossed
      /\ \A i \in SubInvoices : invoice'[i].status = "PAID" => invoice[i].status = "PAID"
  BY <1>2 DEF SubInv, SubColumns, RenewalsSound, InvoicesStay, InvoicesMade, WasPaidStay, WasPaid
<1>5. ASSUME NEW rec, Goes(w, rec), rec.at \in EventAts, Fits(rec)' PROVE SubInv'
  BY <1>2, <1>4, <1>5, GoesOnStep
<1>6. ASSUME NEW i \in Payable(e[2]), Goes(w, [at |-> "book", on |-> i, ev |-> e]) PROVE SubInv'
  <2>1. PICK rec : rec = [at |-> "book", on |-> i, ev |-> e]
    OBVIOUS
  <2>2. rec.at = "book" /\ rec.on = i /\ rec.ev = e /\ i \in SubInvoices /\ invoice[i].status # "none" /\ invoice[i].period = e[2]
    BY <1>6, <2>1 DEF Payable
  <2>3. Fits(rec)' /\ rec.at \in EventAts
    BY <1>2, <1>3, <2>2 DEF Fits, Collects, Renewal, BillerAts, EventAts
  <2>4. QED
    BY <1>5, <1>6, <2>1, <2>3
<1>7. ASSUME Goes(w, [at |-> "create", ev |-> e]) PROVE SubInv'
  <2>1. PICK rec : rec = [at |-> "create", ev |-> e]
    OBVIOUS
  <2>2. rec.at = "create" /\ rec.ev = e
    BY <2>1
  <2>3. Fits(rec)' /\ rec.at \in EventAts
    BY <1>2, <1>3, <2>2 DEF Fits, Collects, Renewal, BillerAts, EventAts
  <2>4. QED
    BY <1>5, <1>7, <2>1, <2>3
<1>8. ASSUME e[1] = "PAYMENT_FAILED", UnpaidInvoices # {}, Goes(w, [at |-> "dun", on |-> Max(UnpaidInvoices), ev |-> e]) PROVE SubInv'
  <2>1. Max(UnpaidInvoices) \in UnpaidInvoices
    <3>1. UnpaidInvoices \in SUBSET Nat /\ IsFiniteSet(UnpaidInvoices)
      BY SubFacts, FS_Subset DEF UnpaidInvoices
    <3>2. QED
      BY <1>8, <3>1, GreatestOf
  <2>2. PICK i : i = Max(UnpaidInvoices)
    OBVIOUS
  <2>3. PICK rec : rec = [at |-> "dun", on |-> i, ev |-> e]
    OBVIOUS
  <2>4. rec.at = "dun" /\ rec.on = i /\ rec.ev = e /\ i \in SubInvoices /\ invoice[i].status # "none"
    BY <2>1, <2>2, <2>3 DEF UnpaidInvoices
  <2>5. Fits(rec)' /\ rec.at \in EventAts
    BY <1>2, <1>3, <1>8, <2>4 DEF Fits, Collects, Renewal, BillerAts, EventAts
  <2>6. QED
    BY <1>5, <1>8, <2>2, <2>3, <2>5
<1>9. ASSUME e[1] = "PAYMENT_FAILED",
             Goes(w, [at |-> "due", ev |-> e, was |-> biller[w].was, had |-> biller[w].had]) PROVE SubInv'
  <2>1. PICK rec : rec = [at |-> "due", ev |-> e, was |-> biller[w].was, had |-> biller[w].had]
    OBVIOUS
  <2>2. rec.at = "due" /\ rec.ev = e /\ rec.had = biller[w].had
    BY <2>1
  <2>3. Fits(rec)' /\ rec.at \in EventAts
    BY <1>2, <1>3, <1>9, <2>2 DEF Fits, Collects, Renewal, BillerAts, EventAts
  <2>4. QED
    BY <1>5, <1>9, <2>1, <2>3
<1>10. QED
  BY <1>1, <1>6, <1>7, <1>8, <1>9 DEF EventFinds

\* It makes one when it found none.
LEMMA CreateStep ==
    ASSUME SubInv, NEW w \in Billers, EventCreates(w)
    PROVE  SubInv'
<1>1. SubColumns /\ RenewalsSound
  BY DEF SubInv
<1>2. biller[w].at = "create" /\ biller[w].at \in EventAts
  BY DEF EventCreates, EventAts
<1>3. PICK e \in ProviderEvents : e = biller[w].ev /\ e[2] \in Periods /\ realProvider
  BY <1>2, DeliveryIs
<1>4. PICK i : i = FreshInvoice
  OBVIOUS
<1>5. PICK row : row = NewInvoice(e[2], FALSE)
  OBVIOUS
<1>6. PICK rec : rec = [at |-> "book", on |-> i, ev |-> e]
  OBVIOUS
<1>7. /\ invoice' = [invoice EXCEPT ![i] = row] /\ Goes(w, rec) /\ Unbilled # {}
      /\ UNCHANGED <<realProvider, clock, starts, sub, tenant, charges, unsure, raced, billingEvent>>
  BY <1>3, <1>4, <1>5, <1>6 DEF EventCreates
<1>8. i \in SubInvoices /\ invoice[i].status = "none"
  BY <1>4, <1>7, FreshIsUnbilled
<1>9. /\ row \in InvoiceRecord /\ row.status = "OPEN" /\ row.period = e[2]
      /\ row.renewal = FALSE /\ row.crossed = FALSE
  BY <1>3, <1>5, SubFacts DEF InvoiceRecord, NewInvoice
<1>10. invoice \in [SubInvoices -> InvoiceRecord]
  BY <1>1 DEF SubColumns
<1>11. /\ invoice'[i] = row /\ \A j \in SubInvoices \ {i} : invoice'[j] = invoice[j]
       /\ invoice' \in [SubInvoices -> InvoiceRecord]
  BY <1>7, <1>8, <1>9, <1>10
<1>12. InvoicesStay /\ WasPaidStay
  <2>1. invoice[i].renewal = FALSE /\ ~WasPaid(i)
    BY <1>1, <1>8, <1>10 DEF RenewalsSound, InvoiceRecord, WasPaid
  <2>2. QED
    BY <1>8, <1>9, <1>11, <2>1 DEF InvoicesStay, InvoicesMade, WasPaidStay, WasPaid
<1>13. /\ \A j \in SubInvoices : invoice'[j].status = "none" => ~invoice'[j].crossed
       /\ \A j \in SubInvoices : invoice'[j].status = "PAID" => invoice[j].status = "PAID"
  BY <1>1, <1>9, <1>11 DEF RenewalsSound
<1>14. rec.at = "book" /\ rec.on = i /\ rec.ev = e
  BY <1>6
<1>15. Fits(rec)' /\ rec.at \in EventAts
  BY <1>3, <1>7, <1>8, <1>9, <1>11, <1>14 DEF Fits, Collects, Renewal, BillerAts, EventAts
<1>16. QED
  BY <1>2, <1>7, <1>11, <1>12, <1>13, <1>15, GoesOnStep

\* The invoice of a charge is marked paid.
LEMMA BookStep ==
    ASSUME SubInv, NEW w \in Billers, EventBooks(w)
    PROVE  SubInv'
<1>1. biller[w].at = "book" /\ biller[w].at \in EventAts /\ EventEnds(w)
  BY DEF EventBooks, EventAts
<1>2. Fits(biller[w])
  BY DEF SubInv, BillersFit
<1>3. PICK i \in SubInvoices : i = biller[w].on /\ invoice[i].status # "none" /\ invoice[i].period = biller[w].ev[2]
  BY <1>1, <1>2 DEF Fits
<1>4. MarkPaid(i)
  BY <1>3 DEF EventBooks
<1>5. /\ sub' \in SubRecord /\ tenant' \in Tenants /\ TenantMirrorsSubscription'
      /\ invoice' \in [SubInvoices -> InvoiceRecord] /\ invoice'[i].status = "PAID"
      /\ invoice'[i].period = invoice[i].period /\ \A j \in SubInvoices \ {i} : invoice'[j] = invoice[j]
      /\ invoice[i].status = "PAID" \/ invoice[i].period <= sub'.until
      /\ InvoicesStay /\ WasPaidStay
  BY <1>3, <1>4, PaidRow
<1>6. \A j \in SubInvoices : invoice'[j].renewal /\ invoice'[j].status = "PAID" =>
          invoice[j].status = "PAID" \/ invoice'[j].period <= sub'.until
  BY <1>5
<1>7. \A j \in SubInvoices : invoice'[j].status = "none" => ~invoice'[j].crossed
  BY <1>3, <1>5, UnmadeUncrossed
<1>8. \E j \in SubInvoices : invoice'[j].status = "PAID" /\ invoice'[j].period = biller[w].ev[2]
  BY <1>3, <1>5
<1>9. QED
  BY <1>1, <1>5, <1>6, <1>7, <1>8, EventStep

\* The invoice a failure found is marked failed, paid or not.
LEMMA DunStep ==
    ASSUME SubInv, NEW w \in Billers, EventDuns(w)
    PROVE  SubInv'
<1>1. biller[w].at = "dun" /\ biller[w].at \in EventAts /\ EventEnds(w)
  BY DEF EventDuns, EventAts
<1>2. Fits(biller[w])
  BY DEF SubInv, BillersFit
<1>3. PICK i \in SubInvoices : i = biller[w].on /\ invoice[i].status # "none"
  BY <1>1, <1>2 DEF Fits
<1>4. MarkFailed(i) /\ biller[w].ev[1] # "CHARGED"
  BY <1>1, <1>2, <1>3 DEF EventDuns, Fits
<1>5. /\ sub' \in SubRecord /\ tenant' \in Tenants /\ TenantMirrorsSubscription'
      /\ invoice' \in [SubInvoices -> InvoiceRecord] /\ invoice'[i].status = "FAILED"
      /\ \A j \in SubInvoices \ {i} : invoice'[j] = invoice[j]
      /\ InvoicesStay /\ WasPaidStay
  BY <1>3, <1>4, FailedRow
<1>6. \A j \in SubInvoices : invoice'[j].renewal /\ invoice'[j].status = "PAID" =>
          invoice[j].status = "PAID" \/ invoice'[j].period <= sub'.until
  BY <1>5
<1>7. \A j \in SubInvoices : invoice'[j].status = "none" => ~invoice'[j].crossed
  BY <1>3, <1>5, UnmadeUncrossed
<1>8. QED
  BY <1>1, <1>4, <1>5, <1>6, <1>7, EventStep

\* An event that marks no invoice moves the subscription, or is refused.
LEMMA EventMoveStep ==
    ASSUME SubInv, NEW w \in Billers, EventMoves(w)
    PROVE  SubInv'
<1>1. SubColumns /\ TenantMirrorsSubscription
  BY DEF SubInv
<1>2. biller[w].at \in {"event", "due"} /\ biller[w].at \in EventAts /\ EventEnds(w) /\ invoice' = invoice
  BY DEF EventMoves, EventAts
<1>3. Fits(biller[w])
  BY DEF SubInv, BillersFit
<1>4. PICK had \in {"none", "running", "over"} : had = biller[w].had
  BY <1>2, <1>3 DEF Fits
<1>5. biller[w].ev[1] # "CHARGED"
  BY <1>3 DEF EventMoves, Fits
<1>6. PICK patched : patched = [sub EXCEPT !.grace = IF had = "none" THEN "running" ELSE had]
  OBVIOUS
<1>7. patched \in SubRecord /\ sub \in SubRecord
  BY <1>1, <1>6 DEF SubColumns, SubRecord
<1>8. SubRefused \/ \E event : Transition(event, sub) \/ Transition(event, patched)
  BY <1>4, <1>6 DEF EventMoves
<1>9. sub' \in SubRecord /\ tenant' \in Tenants /\ TenantMirrorsSubscription'
  BY <1>1, <1>7, <1>8, PaymentMoves, TransitionMoves
<1>10. /\ invoice' \in [SubInvoices -> InvoiceRecord] /\ InvoicesStay /\ WasPaidStay
       /\ \A i \in SubInvoices : invoice'[i].status = "none" => ~invoice'[i].crossed
       /\ \A i \in SubInvoices : invoice'[i].status = "PAID" => invoice[i].status = "PAID"
  BY <1>2 DEF SubInv, SubColumns, RenewalsSound, InvoicesStay, InvoicesMade, WasPaidStay, WasPaid
<1>11. QED
  BY <1>2, <1>5, <1>9, <1>10, EventStep

\* A process dies.
LEMMA DieStep ==
    ASSUME SubInv, NEW w \in Billers, BillerDies(w)
    PROVE  SubInv'
<1>1. SubColumns /\ BillersFit /\ TenantMirrorsSubscription /\ RenewalsSound /\ OneProvider /\ EventsRecorded
  BY DEF SubInv
<1>2. UNCHANGED <<realProvider, clock, starts, sub, tenant, invoice, charges, raced>> /\ SubEnds(w)
  BY DEF BillerDies
<1>3. Fits(biller[w]) /\ biller[w] # BillerIdle
  BY <1>1 DEF BillersFit, BillerDies
<1>4. unsure \subseteq unsure' /\ unsure' \in SUBSET SubInvoices
  BY <1>1, <1>3 DEF BillerDies, SubColumns, Fits, Collects
<1>5. /\ billingEvent' \in [ProviderEvents -> EventStates]
      /\ \A e \in ProviderEvents : billingEvent'[e] = "applied" => billingEvent[e] = "applied"
      /\ ~realProvider => billingEvent' = billingEvent
  <2>1. CASE biller[w].at \in EventAts
    BY <1>1, <1>3, <2>1 DEF BillerDies, SubColumns, Fits, EventStates
  <2>2. CASE biller[w].at \notin EventAts
    BY <1>1, <2>2 DEF BillerDies, SubColumns
  <2>3. QED
    BY <2>1, <2>2
<1>6. InvoicesMade /\ RacedGrows
  BY <1>1, <1>2 DEF InvoicesMade, RacedGrows, SubColumns
<1>7. SubColumns' /\ TenantMirrorsSubscription' /\ RenewalsSound'
  BY <1>1, <1>2, <1>4, <1>5 DEF SubColumns, TenantMirrorsSubscription, RenewalsSound
<1>8. OneProvider' /\ EventsRecorded'
  BY <1>1, <1>2, <1>5 DEF OneProvider, EventsRecorded, WasPaid
<1>9. CASE Collects(biller[w])
  <2>1. biller[w].on \notin unsure' => charges[biller[w].on] = 0
    <3>1. biller[w].at = "paid" => biller[w].on \in unsure'
      BY DEF BillerDies
    <3>2. QED
      BY <1>4, <1>9, <3>1, CollectorIs
  <2>2. QED
    BY <1>2, <1>4, <1>6, <1>7, <1>8, <1>9, <2>1, EndStep
<1>10. CASE ~Collects(biller[w])
  <2>1. unsure' = unsure
    BY <1>10 DEF BillerDies, Collects
  <2>2. Goes(w, BillerIdle)
    BY <1>2 DEF SubEnds
  <2>3. ~Renewal(BillerIdle) /\ ~Collects(BillerIdle) /\ Fits(BillerIdle)'
    BY DEF Renewal, Fits, Collects, BillerIdle, BillerAts, EventAts
  <2>4. ASSUME NEW i \in SubInvoices \ unsure' PROVE ChargeSound(i)'
    <3>1. ChargeSound(i) /\ charges'[i] = charges[i] /\ invoice'[i] = invoice[i]
      BY <1>2, <2>1 DEF SubInv
    <3>2. Untouched(i)
      BY <1>1, <1>10, <2>2, <2>3, <3>1, AsideUntouched
    <3>3. QED
      BY <3>1, <3>2, UntouchedSound
  <2>5. QED
    BY <1>2, <1>3, <1>6, <1>7, <1>8, <2>2, <2>3, <2>4, MoveStep
<1>11. QED
  BY <1>9, <1>10

\* No step of subscription billing takes its invariant away.
LEMMA SubKeeps == SubInv /\ [SubNext]_subVars => SubInv'
<1> SUFFICES ASSUME SubInv, [SubNext]_subVars PROVE SubInv'
  OBVIOUS
<1>1. CASE UNCHANGED subVars
  <2>1. UNCHANGED <<realProvider, clock, sub, tenant, invoice, charges, unsure, raced, billingEvent, starts, biller>>
    BY <1>1 DEF subVars
  <2>2. clock' \in 0 .. MaxPeriod /\ tenant' \in Tenants /\ TenantMirrorsSubscription'
    BY <2>1 DEF SubInv, SubColumns, TenantMirrorsSubscription
  <2>3. sub.until <= sub.until
    BY DEF SubInv, SubColumns, SubRecord
  <2>4. KeepsPaidPeriods
    BY <2>1, <2>3 DEF SubInv, SubColumns, KeepsPaidPeriods
  <2>5. QED
    BY <2>1, <2>2, <2>4, QuietStep
<1>2. CASE PeriodEnds \/ DeadlineLapses \/ Resubscribe \/ PlatformMoves
  BY <1>2, QuietSteps
<1>3. ASSUME NEW e \in ProviderEvents, ProviderSends(e) PROVE SubInv'
  <2>1. /\ UNCHANGED <<realProvider, clock, starts, sub, tenant, invoice, charges, unsure, raced, biller>>
        /\ realProvider /\ billingEvent' = [billingEvent EXCEPT ![e] = "sent"]
    BY <1>3 DEF ProviderSends
  <2>2. billingEvent \in [ProviderEvents -> EventStates]
    BY DEF SubInv, SubColumns
  <2>3. /\ billingEvent' \in [ProviderEvents -> EventStates]
        /\ \A f \in ProviderEvents : billingEvent'[f] = "applied" => billingEvent[f] = "applied"
    BY <2>1, <2>2 DEF EventStates
  <2>4. SubColumns' /\ TenantMirrorsSubscription' /\ RenewalsSound' /\ RenewalsAlone'
    BY <2>1, <2>3 DEF SubInv, SubColumns, TenantMirrorsSubscription, RenewalsSound, RenewalsAlone
  <2>5. BillersFit'
    BY <2>1, OthersFit DEF SubInv, BillersFit, InvoicesMade
  <2>6. OneProvider' /\ EventsRecorded'
    BY <2>1, <2>3 DEF SubInv, OneProvider, EventsRecorded, WasPaid
  <2>7. \A i \in SubInvoices \ unsure' : ChargeSound(i)'
    <3>1. \A i \in SubInvoices : Collecting(i)' = Collecting(i)
      BY <2>1 DEF Collecting
    <3>2. QED
      BY <2>1, <3>1 DEF SubInv, ChargeSound
  <2>8. QED
    BY <2>4, <2>5, <2>6, <2>7 DEF SubInv
<1>4. ASSUME NEW w \in Billers,
             \/ SweepReads(w) \/ SubscribeReads(w) \/ CancelReads(w) \/ ExtendReads(w)
             \/ \E i \in SubInvoices : PayInvoice(w, i)
             \/ \E e \in ProviderEvents : RecordBillingEvent(w, e)
      PROVE  SubInv'
  BY <1>4, ReadSteps
<1>5. ASSUME NEW w \in Billers, SweepMoves(w) \/ CancelWrites(w) \/ ExtendWrites(w) PROVE SubInv'
  BY <1>5, StatusSteps
<1>6. ASSUME NEW w \in Billers, Renews(w) \/ SubscribeWrites(w) \/ Charge(w) PROVE SubInv'
  BY <1>6, RenewStep, SubscribeStep, ChargeStep
<1>7. ASSUME NEW w \in Billers, \/ MarkPaidInvoice(w) \/ MarkFailedInvoice(w) \/ BillerDies(w)
                                \/ EventFinds(w) \/ EventCreates(w)
                                \/ EventBooks(w) \/ EventDuns(w) \/ EventMoves(w)
      PROVE  SubInv'
  BY <1>7, PaidStep, FailedStep, DieStep, FindStep, CreateStep, BookStep, DunStep, EventMoveStep
<1>8. QED
  BY <1>1, <1>2, <1>3, <1>4, <1>5, <1>6, <1>7 DEF SubNext

\* A tenant starts on trial, with nothing invoiced.
LEMMA SubStarts == SubInit => SubInv
<1> SUFFICES ASSUME SubInit PROVE SubInv
  OBVIOUS
<1>1. /\ \A i \in SubInvoices : /\ invoice[i].status = "none" /\ invoice[i].period = 0
                                /\ invoice[i].renewal = FALSE /\ charges[i] = 0
                                /\ invoice[i].crossed = FALSE
      /\ \A e \in ProviderEvents : billingEvent[e] = "none"
      /\ \A w \in Billers : biller[w] = BillerIdle
  BY DEF SubInit
<1>2. SubColumns
  <2>1. sub \in SubRecord
    <3>1. "TRIAL" \in SubStatuses /\ 0 \in 0 .. MaxPeriod + 1
      BY StatusesAre, SubFacts
    <3>2. QED
      BY <3>1 DEF SubInit, SubRecord
  <2>2. invoice \in [SubInvoices -> InvoiceRecord]
    <3>1. 0 \in 0 .. MaxPeriod + 1
      BY SubFacts
    <3>2. QED
      BY <3>1 DEF SubInit, InvoiceRecord
  <2>3. clock \in 0 .. MaxPeriod /\ starts \in 0 .. MaxStarts
    BY SubFacts DEF SubInit
  <2>4. QED
    BY <2>1, <2>2, <2>3 DEF SubInit, SubColumns, Tenants, EventStates
<1>3. BillersFit
  BY <1>1 DEF SubInit, BillersFit, Fits, Collects, Renewal, BillerIdle, BillerAts, EventAts
<1>4. TenantMirrorsSubscription
  BY DEF SubInit, TenantMirrorsSubscription, TenantStatusFor
<1>5. OneProvider /\ EventsRecorded
  BY <1>1 DEF OneProvider, EventsRecorded
<1>6. \A i \in SubInvoices \ unsure : ChargeSound(i)
  <2>1. \A i \in SubInvoices : Collecting(i) = {}
    BY <1>1 DEF Collecting, BillerIdle
  <2>2. QED
    BY <1>1, <2>1 DEF ChargeSound
<1>7. RenewalsSound /\ RenewalsAlone
  BY <1>1 DEF RenewalsSound, RenewalsAlone, Renewal, BillerIdle
<1>8. QED
  BY <1>2, <1>3, <1>4, <1>5, <1>6, <1>7 DEF SubInv

\* The invariant implies what subscription billing promises.
LEMMA SubPromises == SubInv => SubTypeOK /\ SubscriptionsSound
<1> SUFFICES ASSUME SubInv PROVE SubTypeOK /\ SubscriptionsSound
  OBVIOUS
<1>1. SubTypeOK
  BY DEF SubInv, SubColumns, BillersFit, Fits, SubTypeOK, SubRecord, InvoiceRecord, Tenants, EventStates, BillerAts
<1>2. ChargedOnce
  <2>1. \A i \in SubInvoices \ unsure : charges[i] <= 1
    BY DEF SubInv, ChargeSound
  <2>2. ASSUME NEW p \in Periods \ raced
        PROVE  Cardinality({i \in SubInvoices : invoice[i].renewal /\ invoice[i].period = p}) <= 1
    <3>1. PICK S : S = {i \in SubInvoices : invoice[i].renewal /\ invoice[i].period = p}
      OBVIOUS
    <3>2. \A i, j \in S : i = j
      BY <2>2, <3>1 DEF SubInv, RenewalsSound
    <3>3. S = {} \/ \E i \in S : S = {i}
      BY <3>2
    <3>4. Cardinality(S) \in {0, 1}
      BY <3>3, FS_EmptySet, FS_Singleton
    <3>5. QED
      BY <3>1, <3>4
  <2>3. QED
    BY <2>1, <2>2 DEF ChargedOnce
<1>3. ChargesRecorded
  BY DEF SubInv, ChargeSound, EventsRecorded, WasPaid, ChargesRecorded
<1>4. QED
  BY <1>1, <1>2, <1>3 DEF SubInv, SubscriptionsSound

\* A tenant's access mirrors its subscription; unless calls overlapped or died, it is
\* charged once for an invoice and renewed once for a period; and every charge is on an
\* invoice that was paid, and still is unless the event of a failure overtook it - for
\* any number of invoices, callers, periods and events.
THEOREM SubscriptionsCorrect == SubSpec => [](SubTypeOK /\ SubscriptionsSound)
BY SubStarts, SubKeeps, SubPromises, PTL DEF SubSpec

----------------------------------------------------------------------------
(* The back office together. *)

\* What every component of the back office keeps.
OfficeInv == StockInv /\ FeedInv /\ AggInv /\ ProcureInv /\ SubInv /\ PayInv /\ EInvInv

\* A step of the back office is a step of one component that leaves the others alone.
LEMMA OfficeSteps ==
    ASSUME [OfficeNext]_officeVars
    PROVE  /\ [StockNext]_stockVars /\ [FeedNext]_feedVars /\ [AggNext]_aggVars /\ [ProcureNext]_procureVars
           /\ [SubNext]_subVars /\ [PayNext]_payVars /\ [EInvNext]_einvVars
<1>1. CASE OfficeNext
  BY <1>1 DEF OfficeNext
<1>2. CASE UNCHANGED officeVars
  BY <1>2 DEF officeVars
<1>3. QED
  BY <1>1, <1>2

\* So what each of them keeps, they keep together.
LEMMA OfficeKeeps == OfficeInv /\ [OfficeNext]_officeVars => OfficeInv'
BY OfficeSteps, StockKeeps, FeedKeeps, AggKeeps, ProcureKeeps, SubKeeps, PayKeeps, EInvKeeps DEF OfficeInv

\* And it holds at the start.
LEMMA OfficeStarts == OfficeInit => OfficeInv
BY StockStarts, FeedStarts, AggStarts, ProcureStarts, SubStarts, PayStarts, EInvStarts DEF OfficeInit, OfficeInv

\* The rows, locks and requests of the back office keep their types, whichever of its
\* services runs.
THEOREM OfficeTypes == OfficeSpec => []OfficeTypeOK
<1>1. FeedInv /\ EInvInv => FeedTypeOK /\ EInvTypeOK
  BY DEF FeedInv, EInvInv
<1>2. OfficeInv => OfficeTypeOK
  BY <1>1, StockPromises, AggPromises, ProcurePromises, SubPromises, PayPromises DEF OfficeInv, OfficeTypeOK
<1>3. QED
  BY <1>2, OfficeStarts, OfficeKeeps, PTL DEF OfficeSpec

\* Receipts and supplier payments agree with orders and bills, recoveries with payslips
\* and e-invoices with the tax portal (BooksSound), whichever of the services runs.
THEOREM BooksCorrect == OfficeSpec => []BooksSound
<1>1. EInvInv => InvoicesSound
  BY DEF EInvInv, InvoicesSound
<1>2. OfficeInv => BooksSound
  BY <1>1, ProcurePromises, PayPromises DEF OfficeInv, BooksSound
<1>3. QED
  BY <1>2, OfficeStarts, OfficeKeeps, PTL DEF OfficeSpec
=============================================================================

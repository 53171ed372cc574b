--------------------------- MODULE DeliveryProofs ---------------------------
(***************************************************************************)
(* The three outgoing queues, for any number of jobs, workers, attempts    *)
(* and bounds: webhook deliveries, outbox messages and print jobs each     *)
(* implement JobQueue and keep the promise of their own that TLC checks    *)
(* on MCDelivery.                                                          *)
(*                                                                         *)
(* The argument is the same three times.  A worker that holds a job was    *)
(* given it by a take and has not handed it over, so                       *)
(* handed + workers holding it =< taken, and a worker that is about to     *)
(* report success has handed the job over.                                 *)
(***************************************************************************)
EXTENDS MCDelivery, TLAPS, FiniteSetTheorems

\* When worker p alone may join or leave the workers that hold a job, their number
\* grows by one at most, and changes with p.
LEMMA HoldersMove ==
    ASSUME NEW S, NEW T, NEW p, IsFiniteSet(S), T \subseteq S \cup {p}
    PROVE  /\ IsFiniteSet(T) /\ Cardinality(S) \in Nat /\ Cardinality(T) \in Nat
           /\ Cardinality(T) <= Cardinality(S) + 1
           /\ (p \in T => p \in S) => Cardinality(T) <= Cardinality(S)
           /\ p \in S /\ p \notin T => Cardinality(T) <= Cardinality(S) - 1
<1>1. IsFiniteSet(S \cup {p}) /\ Cardinality(S \cup {p}) <= Cardinality(S) + 1 /\ Cardinality(S) \in Nat
  BY FS_AddElement, FS_CardinalityType
<1>2. IsFiniteSet(T) /\ Cardinality(T) <= Cardinality(S \cup {p}) /\ Cardinality(T) \in Nat
      /\ Cardinality(S \cup {p}) \in Nat
  BY <1>1, FS_Subset, FS_CardinalityType
<1>3. ASSUME p \in T => p \in S PROVE Cardinality(T) <= Cardinality(S)
  <2>1. T \subseteq S
    BY <1>3
  <2>2. QED
    BY <2>1, FS_Subset
<1>4. ASSUME p \in S, p \notin T PROVE Cardinality(T) <= Cardinality(S) - 1
  <2>1. T \subseteq S \ {p}
    BY <1>4
  <2>2. IsFiniteSet(S \ {p}) /\ Cardinality(S \ {p}) = Cardinality(S) - 1
    BY <1>4, FS_RemoveElement
  <2>3. QED
    BY <2>1, <2>2, FS_Subset
<1>5. QED
  BY <1>1, <1>2, <1>3, <1>4

----------------------------------------------------------------------------
(* Webhook deliveries. *)

\* the senders in the middle of posting d
Posters(d) == {p \in Senders : sender[p].at = "posting" /\ sender[p].on = d}

\* A post under way is one that was taken and not yet handed over.
HookCounts ==
    /\ hookTaken \in [Deliveries -> Nat] /\ hookHanded \in [Deliveries -> Nat]
    /\ \A d \in Deliveries : /\ IsFiniteSet(Posters(d))
                             /\ hookHanded[d] + Cardinality(Posters(d)) <= hookTaken[d]

\* A sender with an answer works on a delivery, and 2xx means the receiver got it;
\* an event on the bus has no row yet.
HookWork ==
    /\ \A p \in Senders : /\ sender[p].at # "idle" => sender[p].on \in Deliveries
                          /\ sender[p].at = "ok" => hookHanded[sender[p].on] > 0
    /\ \A d \in bus : delivery[d].status = "none"

HookInv == HookTypeOK /\ HookCounts /\ HookWork /\ DeliveryStaysScheduled

SenderRow == [todo : SUBSET Deliveries, at : {"idle", "posting", "ok", "error"},
              on : Deliveries \cup {"none"}, attempts : Nat]
DeliveryRow == [status : {"none", "PENDING", "SUCCEEDED", "FAILED", "gone", "lost"},
                attempts : Nat, due : {"never", "now", "later"}]

\* Attempt takes the delivery before it posts; a sender that starts no post leaves
\* at most one delivery with a poster less.
LEMMA SenderMoves ==
    ASSUME HookInv, NEW p \in Senders, NEW r \in SenderRow, sender' = [sender EXCEPT ![p] = r],
           UNCHANGED hookHanded,
           \/ UNCHANGED hookTaken /\ r.at # "posting"
           \/ r.on \in Deliveries /\ hookTaken' = [hookTaken EXCEPT ![r.on] = @ + 1]
    PROVE  HookCounts'
<1>1. sender \in [Senders -> SenderRow] /\ hookTaken \in [Deliveries -> Nat] /\ hookHanded \in [Deliveries -> Nat]
  BY DEF HookInv, HookTypeOK, HookCounts, SenderRow
<1>2. ASSUME NEW e \in Deliveries
      PROVE  /\ IsFiniteSet(Posters(e)')
             /\ hookHanded[e] + Cardinality(Posters(e)') <= hookTaken'[e]
  <2>1. Posters(e)' \subseteq Posters(e) \cup {p}
    BY <1>1 DEF Posters
  <2>2. IsFiniteSet(Posters(e)) /\ hookHanded[e] + Cardinality(Posters(e)) <= hookTaken[e]
    BY DEF HookInv, HookCounts
  <2>3. \/ hookTaken'[e] = hookTaken[e] /\ p \notin Posters(e)'
        \/ hookTaken'[e] = hookTaken[e] + 1
    BY <1>1 DEF Posters
  <2>4. /\ IsFiniteSet(Posters(e)') /\ Cardinality(Posters(e)) \in Nat /\ Cardinality(Posters(e)') \in Nat
        /\ Cardinality(Posters(e)') <= Cardinality(Posters(e)) + 1
        /\ p \notin Posters(e)' => Cardinality(Posters(e)') <= Cardinality(Posters(e))
    BY <2>1, <2>2, HoldersMove
  <2>5. QED
    BY <1>1, <2>2, <2>3, <2>4
<1>3. hookTaken' \in [Deliveries -> Nat]
  BY <1>1
<1>4. QED
  BY <1>1, <1>2, <1>3 DEF HookCounts

\* A post that reaches the receiver uses up the attempt that was taken for it.
LEMMA PostCounted ==
    ASSUME HookInv, NEW p \in Senders, Post(p)
    PROVE  HookCounts' /\ hookHanded[sender[p].on] < hookTaken[sender[p].on]
<1> DEFINE d == sender[p].on
<1>1. sender \in [Senders -> SenderRow] /\ hookTaken \in [Deliveries -> Nat] /\ hookHanded \in [Deliveries -> Nat]
  BY DEF HookInv, HookTypeOK, HookCounts, SenderRow
<1>2. d \in Deliveries /\ sender[p].at = "posting" /\ UNCHANGED hookTaken
  BY DEF HookInv, HookWork, Post
<1>3. PICK got \in BOOLEAN : hookHanded' = [hookHanded EXCEPT ![d] = IF got THEN @ + 1 ELSE @]
  BY DEF Post
<1>4. ASSUME NEW e \in Deliveries
      PROVE  /\ IsFiniteSet(Posters(e)') /\ hookHanded'[e] + Cardinality(Posters(e)') <= hookTaken[e]
             /\ e = d => hookHanded[e] < hookTaken[e]
  <2>1. IsFiniteSet(Posters(e)) /\ hookHanded[e] + Cardinality(Posters(e)) <= hookTaken[e]
    BY DEF HookInv, HookCounts
  <2>2. Posters(e)' \subseteq Posters(e) \cup {p} /\ p \notin Posters(e)' /\ (e = d => p \in Posters(e))
    BY <1>1, <1>2 DEF Posters, Post
  <2>3. /\ IsFiniteSet(Posters(e)') /\ Cardinality(Posters(e)) \in Nat /\ Cardinality(Posters(e)') \in Nat
        /\ Cardinality(Posters(e)') <= Cardinality(Posters(e))
        /\ e = d => Cardinality(Posters(e)') <= Cardinality(Posters(e)) - 1
    BY <2>1, <2>2, HoldersMove
  <2>4. hookHanded'[e] \in {hookHanded[e], hookHanded[e] + 1} /\ (e # d => hookHanded'[e] = hookHanded[e])
    BY <1>1, <1>3
  <2>5. QED
    BY <1>1, <2>1, <2>3, <2>4
<1>5. hookHanded' \in [Deliveries -> Nat]
  BY <1>1, <1>2, <1>3
<1>6. QED
  BY <1>1, <1>2, <1>4, <1>5 DEF HookCounts

\* HookTypeOK in terms of the row sets.
LEMMA HookRows ==
    HookTypeOK <=> /\ endpoint \in {"active", "disabled", "gone"} /\ bus \subseteq Events
                   /\ delivery \in [Deliveries -> DeliveryRow] /\ sender \in [Senders -> SenderRow]
BY DEF HookTypeOK, DeliveryRow, SenderRow

\* Posting and finishing keep the invariant.
LEMMA AnswersKept ==
    ASSUME HookInv, NEW p \in Senders, Post(p) \/ Finish(p) \/ SenderDies(p)
    PROVE  HookInv'
<1> USE DEF Deliveries
<1>1. sender \in [Senders -> SenderRow] /\ delivery \in [Deliveries -> DeliveryRow]
  BY HookRows DEF HookInv
<1>2. CASE Post(p)
  <2>1. HookCounts'
    BY <1>2, PostCounted
  <2>2. PICK got \in BOOLEAN, result \in {"ok", "error"} :
           /\ result = "ok" => got
           /\ sender' = [sender EXCEPT ![p].at = result]
           /\ hookHanded' = [hookHanded EXCEPT ![sender[p].on] = IF got THEN @ + 1 ELSE @]
    BY <1>2 DEF Post
  <2>3. sender[p].on \in Deliveries
    BY <1>2 DEF Post, HookInv, HookWork
  <2>4. sender' \in [Senders -> SenderRow]
    BY <1>1, <2>2 DEF SenderRow
  <2>5. HookTypeOK'
    BY <1>2, <2>4 DEF HookInv, HookTypeOK, Post, SenderRow
  <2>6. HookWork'
    BY <1>1, <1>2, <2>2, <2>3 DEF HookInv, HookCounts, HookWork, Post, SenderRow
  <2>7. DeliveryStaysScheduled'
    BY <1>2 DEF HookInv, DeliveryStaysScheduled, Post
  <2>8. QED
    BY <2>1, <2>5, <2>6, <2>7 DEF HookInv
<1>3. CASE Finish(p)
  <2> DEFINE d == sender[p].on
             n == sender[p].attempts
             again == d \notin Tests /\ NextRetry(n)
             new == IF Succeeded(p) THEN [status |-> "SUCCEEDED", attempts |-> n, due |-> "never"]
                    ELSE IF again THEN [status |-> "PENDING", attempts |-> n, due |-> "later"]
                    ELSE [status |-> "FAILED", attempts |-> n, due |-> "never"]
  <2>1. PICK r \in {SenderIdle, [SenderIdle EXCEPT !.todo = sender[p].todo]} : sender' = [sender EXCEPT ![p] = r]
    BY <1>3 DEF Finish
  <2>2. r \in SenderRow /\ r.at = "idle"
    BY <1>1, <2>1 DEF SenderRow, SenderIdle
  <2>3. d \in Deliveries /\ n \in Nat
    BY <1>1, <1>3 DEF Finish, HookInv, HookWork, SenderRow
  <2>4. UNCHANGED delivery \/ delivery' = [delivery EXCEPT ![d] = new]
    BY <1>3 DEF Finish
  <2>5. new \in DeliveryRow /\ (new.status = "PENDING" => new.due # "never" /\ new.attempts < HookAttempts)
    BY <2>3 DEF DeliveryRow, NextRetry
  <2>6. new.status # "none" /\ (UNCHANGED delivery \/ Stored(d))
    BY <1>3 DEF Finish
  <2> HIDE DEF new, d, n
  <2>7. delivery' \in [Deliveries -> DeliveryRow] /\ sender' \in [Senders -> SenderRow]
    BY <1>1, <2>1, <2>2, <2>3, <2>4, <2>5
  <2>8. UNCHANGED <<endpoint, bus, hookTaken, hookHanded, manual>>
    BY <1>3 DEF Finish
  <2>9. HookTypeOK'
    BY <2>7, <2>8 DEF HookInv, HookTypeOK, DeliveryRow, SenderRow
  <2>10. HookCounts'
    BY <2>1, <2>2, <2>8, SenderMoves
  <2>11. HookWork'
    BY <1>1, <2>1, <2>2, <2>3, <2>4, <2>6, <2>8 DEF HookInv, HookTypeOK, HookWork, Stored
  <2>12. DeliveryStaysScheduled'
    BY <1>1, <2>3, <2>4, <2>5, <2>8 DEF HookInv, DeliveryStaysScheduled
  <2>13. QED
    BY <2>9, <2>10, <2>11, <2>12 DEF HookInv
<1>4. CASE SenderDies(p)
  <2>1. SenderIdle \in SenderRow /\ SenderIdle.at = "idle"
    BY DEF SenderIdle, SenderRow
  <2>2. sender' = [sender EXCEPT ![p] = SenderIdle] /\ UNCHANGED <<endpoint, bus, delivery, hookTaken, hookHanded, manual>>
    BY <1>4 DEF SenderDies
  <2>3. HookCounts'
    BY <2>1, <2>2, SenderMoves
  <2>4. HookTypeOK'
    BY <1>1, <2>1, <2>2 DEF HookInv, HookTypeOK, SenderRow
  <2>5. HookWork' /\ DeliveryStaysScheduled'
    BY <1>1, <2>1, <2>2 DEF HookInv, HookWork, DeliveryStaysScheduled
  <2>6. QED
    BY <2>3, <2>4, <2>5 DEF HookInv
<1>5. QED
  BY <1>2, <1>3, <1>4

\* Queueing, claiming and the clock keep the invariant.
LEMMA ScheduleKept ==
    ASSUME HookInv,
           \/ UpdateEndpoint \/ RemoveEndpoint
           \/ \E d \in Events : EmitEvent(d) \/ OnEvent(d)
           \/ \E d \in Deliveries : TimePasses(d)
    PROVE  HookInv'
<1>1. sender \in [Senders -> SenderRow] /\ delivery \in [Deliveries -> DeliveryRow] /\ bus \subseteq Events
      /\ Events \subseteq Deliveries
  BY HookRows DEF HookInv, Deliveries
<1>2. UNCHANGED <<sender, hookTaken, hookHanded, manual>>
  BY DEF UpdateEndpoint, RemoveEndpoint, EmitEvent, OnEvent, TimePasses
<1>3. HookCounts'
  BY <1>2 DEF HookInv, HookCounts, Posters
<1>4. CASE UpdateEndpoint
  BY <1>2, <1>3, <1>4 DEF HookInv, HookTypeOK, HookWork, DeliveryStaysScheduled, UpdateEndpoint
<1>5. CASE RemoveEndpoint
  <2>1. \A d \in Deliveries : delivery'[d] = IF Stored(d) THEN [delivery[d] EXCEPT !.status = "gone"] ELSE delivery[d]
    BY <1>5 DEF RemoveEndpoint
  <2>2. delivery' \in [Deliveries -> DeliveryRow]
    BY <1>1, <1>5 DEF RemoveEndpoint, DeliveryRow
  <2>3. UNCHANGED bus /\ endpoint' = "gone"
    BY <1>5 DEF RemoveEndpoint
  <2>4. HookTypeOK'
    BY <1>1, <1>2, <2>2, <2>3 DEF HookTypeOK, SenderRow, DeliveryRow
  <2>5. HookWork' /\ DeliveryStaysScheduled'
    BY <1>1, <1>2, <2>1, <2>3, ZenonT(30) DEF HookInv, HookWork, DeliveryStaysScheduled, Stored, DeliveryRow
  <2>6. QED
    BY <1>3, <2>4, <2>5 DEF HookInv
<1>6. ASSUME NEW d \in Events, EmitEvent(d) PROVE HookInv'
  BY <1>1, <1>2, <1>3, <1>6 DEF HookInv, HookTypeOK, HookWork, DeliveryStaysScheduled, EmitEvent
<1>7. ASSUME NEW d \in Events, OnEvent(d) PROVE HookInv'
  <2>1. PICK r \in DeliveryRow :
           /\ delivery' = [delivery EXCEPT ![d] = r]
           /\ r.status = "PENDING" => r.due = "now" /\ r.attempts = 0
    <3>1. CASE delivery' = [delivery EXCEPT ![d] = [status |-> "PENDING", attempts |-> 0, due |-> "now"]]
      <4>1. [status |-> "PENDING", attempts |-> 0, due |-> "now"] \in DeliveryRow
        BY DEF DeliveryRow
      <4>2. QED
        BY <3>1, <4>1
    <3>2. CASE delivery' = [delivery EXCEPT ![d].status = "lost"]
      <4>1. [delivery[d] EXCEPT !.status = "lost"] \in DeliveryRow
        BY <1>1 DEF DeliveryRow
      <4>2. [delivery[d] EXCEPT !.status = "lost"].status = "lost"
        BY <1>1 DEF DeliveryRow
      <4>3. QED
        BY <3>2, <4>1, <4>2
    <3>3. QED
      BY <1>7, <3>1, <3>2 DEF OnEvent
  <2>2. bus' = bus \ {d} /\ UNCHANGED endpoint
    BY <1>7 DEF OnEvent
  <2>3. delivery' \in [Deliveries -> DeliveryRow]
    BY <1>1, <2>1
  <2>4. HookTypeOK'
    BY <1>1, <1>2, <2>2, <2>3 DEF HookInv, HookTypeOK, SenderRow, DeliveryRow
  <2>5. HookWork' /\ DeliveryStaysScheduled'
    BY <1>1, <1>2, <2>1, <2>2, WebhooksAssumption DEF HookInv, HookWork, DeliveryStaysScheduled
  <2>6. QED
    BY <1>3, <2>4, <2>5 DEF HookInv
<1>8. ASSUME NEW d \in Deliveries, TimePasses(d) PROVE HookInv'
  <2>1. HookTypeOK'
    BY <1>1, <1>2, <1>8 DEF HookInv, HookTypeOK, TimePasses
  <2>2. HookWork'
    BY <1>1, <1>2, <1>8 DEF HookInv, HookWork, TimePasses, DeliveryRow
  <2>3. DeliveryStaysScheduled'
    BY <1>1, <1>2, <1>8 DEF HookInv, DeliveryStaysScheduled, TimePasses, DeliveryRow
  <2>4. QED
    BY <1>3, <2>1, <2>2, <2>3 DEF HookInv
<1>9. QED
  BY <1>4, <1>5, <1>6, <1>7, <1>8

\* Giving a sender work, and the attempt itself, keep the invariant.
LEMMA AttemptsKept ==
    ASSUME HookInv, NEW p \in Senders,
           \/ \E d \in Tests : TestSend(p, d)
           \/ \E d \in Deliveries \ manual : Redeliver(p, d)
           \/ \E d \in Deliveries : Attempt(p, d)
           \/ ProcessDue(p)
    PROVE  HookInv'
<1>1. sender \in [Senders -> SenderRow] /\ delivery \in [Deliveries -> DeliveryRow] /\ bus \subseteq Events
      /\ Events \subseteq Deliveries /\ Tests \subseteq Deliveries
  BY HookRows DEF HookInv, Deliveries
<1>2. UNCHANGED <<endpoint, bus, hookHanded>> /\ sender[p].at = "idle"
  <2>1. UNCHANGED <<endpoint, bus, hookHanded>> /\ (sender[p] = SenderIdle \/ sender[p].at = "idle")
    BY DEF TestSend, Redeliver, Attempt, ProcessDue
  <2>2. SenderIdle.at = "idle"
    BY DEF SenderIdle
  <2>3. QED
    BY <2>1, <2>2
<1>3. ASSUME NEW T \in SUBSET Deliveries, sender' = [sender EXCEPT ![p].todo = T], UNCHANGED hookTaken
      PROVE  HookCounts' /\ sender' \in [Senders -> SenderRow]
  <2> DEFINE r == [sender[p] EXCEPT !.todo = T]
  <2>1. r \in SenderRow /\ r.at = "idle"
    BY <1>1, <1>2 DEF SenderRow
  <2>2. sender' = [sender EXCEPT ![p] = r]
    BY <1>3
  <2> HIDE DEF r
  <2>3. QED
    BY <1>1, <1>2, <1>3, <2>1, <2>2, SenderMoves
<1>4. ASSUME NEW d \in Tests, TestSend(p, d) PROVE HookInv'
  <2>1. HookCounts' /\ sender' \in [Senders -> SenderRow]
    <3>1. /\ sender' = [sender EXCEPT ![p].todo = {d}] /\ UNCHANGED hookTaken
          /\ {d} \in SUBSET Deliveries
      BY <1>1, <1>4 DEF TestSend
    <3>2. QED
      BY <1>3, <3>1
  <2>2. delivery' \in [Deliveries -> DeliveryRow]
    BY <1>1, <1>4 DEF TestSend, DeliveryRow
  <2>3. HookTypeOK'
    BY <1>1, <1>2, <2>1, <2>2 DEF HookInv, HookTypeOK, SenderRow, DeliveryRow
  <2>4. HookWork' /\ DeliveryStaysScheduled'
    BY <1>1, <1>2, <1>4, WebhooksAssumption
       DEF HookInv, HookWork, DeliveryStaysScheduled, TestSend, SenderRow
  <2>5. QED
    BY <2>1, <2>3, <2>4 DEF HookInv
<1>5. ASSUME NEW d \in Deliveries, Redeliver(p, d) PROVE HookInv'
  <2>1. HookCounts' /\ sender' \in [Senders -> SenderRow]
    <3>1. /\ sender' = [sender EXCEPT ![p].todo = {d}] /\ UNCHANGED hookTaken
          /\ {d} \in SUBSET Deliveries
      BY <1>1, <1>5 DEF Redeliver
    <3>2. QED
      BY <1>3, <3>1
  <2>2. delivery' \in [Deliveries -> DeliveryRow]
    BY <1>1, <1>5 DEF Redeliver, DeliveryRow
  <2>3. HookTypeOK'
    BY <1>1, <1>2, <2>1, <2>2 DEF HookInv, HookTypeOK, SenderRow, DeliveryRow
  <2>4. HookWork'
    BY <1>1, <1>2, <1>5 DEF HookInv, HookWork, Redeliver, Stored, SenderRow, DeliveryRow
  <2>5. DeliveryStaysScheduled'
    BY <1>1, <1>2, <1>5 DEF HookInv, DeliveryStaysScheduled, Redeliver
  <2>6. QED
    BY <2>1, <2>3, <2>4, <2>5 DEF HookInv
<1>6. CASE ProcessDue(p)
  <2> DEFINE due == {d \in Deliveries : delivery[d].status = "PENDING" /\ delivery[d].due = "now"}
  <2>1. HookCounts' /\ sender' \in [Senders -> SenderRow]
    BY <1>1, <1>3, <1>6, ZenonT(30) DEF ProcessDue
  <2>2. \A d \in Deliveries : delivery'[d] = IF d \in due THEN [delivery[d] EXCEPT !.due = "later"] ELSE delivery[d]
    BY <1>6 DEF ProcessDue, Lease
  <2>3. delivery' \in [Deliveries -> DeliveryRow]
    BY <1>1, <1>6 DEF ProcessDue, Lease, DeliveryRow
  <2>4. HookTypeOK'
    BY <1>1, <1>2, <2>1, <2>3 DEF HookInv, HookTypeOK, SenderRow, DeliveryRow
  <2>5. sender' = [sender EXCEPT ![p].todo = due] /\ UNCHANGED manual
    BY <1>6 DEF ProcessDue
  <2>6. HookWork'
    <3>1. \A q \in Senders : sender'[q].at = sender[q].at /\ sender'[q].on = sender[q].on
      BY <1>1, <2>5 DEF SenderRow
    <3>2. \A d \in Deliveries : delivery'[d].status = delivery[d].status
      BY <1>1, <2>2 DEF DeliveryRow
    <3>3. bus \subseteq Deliveries
      BY DEF HookInv, HookTypeOK, Deliveries
    <3>4. UNCHANGED <<hookHanded, bus>>
      BY <1>6 DEF ProcessDue
    <3>5. QED
      BY <3>1, <3>2, <3>3, <3>4 DEF HookInv, HookWork
  <2>7. DeliveryStaysScheduled'
    BY <1>1, <1>2, <2>2, <2>5, ZenonT(30) DEF HookInv, DeliveryStaysScheduled, DeliveryRow
  <2>8. QED
    BY <2>1, <2>4, <2>6, <2>7 DEF HookInv
<1>7. ASSUME NEW d \in Deliveries, Attempt(p, d) PROVE HookInv'
  <2>1. UNCHANGED manual
    BY <1>7 DEF Attempt
  <2>2. CASE /\ sender' = [sender EXCEPT ![p] = SenderIdle]
             /\ UNCHANGED <<delivery, hookTaken>>
    <3>1. SenderIdle \in SenderRow /\ SenderIdle.at = "idle"
      BY DEF SenderIdle, SenderRow
    <3>2. HookCounts'
      BY <1>2, <2>2, <3>1, SenderMoves
    <3>3. HookTypeOK'
      BY <1>1, <1>2, <2>2, <3>1 DEF HookInv, HookTypeOK, SenderRow
    <3>4. HookWork' /\ DeliveryStaysScheduled'
      BY <1>1, <1>2, <2>1, <2>2, <3>1 DEF HookInv, HookWork, DeliveryStaysScheduled
    <3>5. QED
      BY <3>2, <3>3, <3>4 DEF HookInv
  <2>3. CASE /\ Stored(d)
             /\ delivery' = [delivery EXCEPT ![d] = [status |-> "FAILED", attempts |-> @.attempts + 1, due |-> "never"]]
             /\ sender' = [sender EXCEPT ![p].todo = @ \ {d}]
             /\ UNCHANGED hookTaken
    <3>1. HookCounts' /\ sender' \in [Senders -> SenderRow]
      <4>1. sender[p].todo \ {d} \in SUBSET Deliveries
        BY <1>1 DEF SenderRow
      <4>2. sender' = [sender EXCEPT ![p].todo = sender[p].todo \ {d}]
        BY <2>3
      <4>3. QED
        BY <1>3, <2>3, <4>1, <4>2
    <3>2. delivery' \in [Deliveries -> DeliveryRow]
      BY <1>1, <2>3 DEF DeliveryRow
    <3>3. HookTypeOK'
      BY <1>1, <1>2, <3>1, <3>2 DEF HookInv, HookTypeOK, SenderRow, DeliveryRow
    <3>4. HookWork' /\ DeliveryStaysScheduled'
      BY <1>1, <1>2, <2>1, <2>3 DEF HookInv, HookWork, DeliveryStaysScheduled, Stored, SenderRow
    <3>5. QED
      BY <3>1, <3>3, <3>4 DEF HookInv
  <2>4. CASE /\ sender' = [sender EXCEPT ![p] = [todo |-> @.todo \ {d}, at |-> "posting", on |-> d,
                                                 attempts |-> delivery[d].attempts + 1]]
             /\ hookTaken' = [hookTaken EXCEPT ![d] = @ + 1]
             /\ UNCHANGED delivery
    <3> DEFINE r == [todo |-> sender[p].todo \ {d}, at |-> "posting", on |-> d, attempts |-> delivery[d].attempts + 1]
    <3>1. r \in SenderRow /\ r.at = "posting" /\ r.on = d /\ sender' = [sender EXCEPT ![p] = r]
      BY <1>1, <2>4 DEF SenderRow, DeliveryRow
    <3> HIDE DEF r
    <3>2. HookCounts'
      BY <1>2, <2>4, <3>1, SenderMoves
    <3>3. HookTypeOK'
      BY <1>1, <1>2, <2>4, <3>1 DEF HookInv, HookTypeOK, SenderRow
    <3>4. HookWork' /\ DeliveryStaysScheduled'
      BY <1>1, <1>2, <2>1, <2>4, <3>1 DEF HookInv, HookWork, DeliveryStaysScheduled
    <3>5. QED
      BY <3>2, <3>3, <3>4 DEF HookInv
  <2>5. QED
    BY <1>7, <2>2, <2>3, <2>4 DEF Attempt
<1>8. QED
  BY <1>4, <1>5, <1>6, <1>7

\* HookInv is inductive.
LEMMA HookStep == HookInv /\ [HookNext]_hookVars => HookInv'
<1> SUFFICES ASSUME HookInv, [HookNext]_hookVars PROVE HookInv'
  OBVIOUS
<1>1. CASE UNCHANGED hookVars
  BY <1>1 DEF HookInv, HookTypeOK, HookCounts, HookWork, DeliveryStaysScheduled, Posters, hookVars
<1>2. CASE HookNext
  BY <1>2, ScheduleKept, AttemptsKept, AnswersKept DEF HookNext
<1>3. QED
  BY <1>1, <1>2

\* HookInv holds initially.
LEMMA HookStarts == HookInit => HookInv
<1> SUFFICES ASSUME HookInit PROVE HookInv
  OBVIOUS
<1>1. HookTypeOK
  BY DEF HookInit, HookTypeOK, NoDelivery, SenderIdle
<1>2. \A d \in Deliveries : Posters(d) = {}
  BY DEF HookInit, Posters, SenderIdle
<1>3. HookCounts
  BY <1>2, FS_EmptySet DEF HookInit, HookCounts
<1>4. HookWork /\ DeliveryStaysScheduled
  BY DEF HookInit, HookWork, DeliveryStaysScheduled, NoDelivery, SenderIdle, Deliveries
<1>5. QED
  BY <1>1, <1>3, <1>4 DEF HookInv

\* the queue's state for a status of webhook_deliveries
HookStateOf(s) ==
    IF s \in {"none", "lost"} THEN "absent"
    ELSE IF s = "SUCCEEDED" THEN "done"
    ELSE IF s \in {"FAILED", "gone"} THEN "failed" ELSE "open"

HookStates == [d \in Deliveries |-> HookState(d)]

\* HookState depends on the status alone, now and after a step.
LEMMA HookStatus ==
    /\ \A d \in Deliveries : HookStates[d] = HookStateOf(delivery[d].status)
    /\ \A d \in Deliveries : HookStates'[d] = HookStateOf(delivery'[d].status)
    /\ HookStates = [d \in Deliveries |-> HookStates[d]] /\ HookStates' = [d \in Deliveries |-> HookStates'[d]]
BY DEF HookStates, HookState, HookStateOf

\* A step that changes no status and no count is a stutter of the queue.
LEMMA HookStutters ==
    ASSUME \A d \in Deliveries : HookStateOf(delivery'[d].status) = HookStateOf(delivery[d].status),
           UNCHANGED <<hookTaken, hookHanded>>
    PROVE  UNCHANGED HookQueue!queueVars
<1>1. HookStates' = HookStates
  BY HookStatus
<1>2. QED
  BY <1>1 DEF HookQueue!queueVars, HookStates

\* Rewriting one row changes the queue's state of that delivery alone.
LEMMA HookRewrites ==
    ASSUME HookInv, NEW d \in Deliveries, NEW r, delivery' = [delivery EXCEPT ![d] = r]
    PROVE  HookStates' = [HookStates EXCEPT ![d] = HookStateOf(r.status)]
<1>1. \A e \in Deliveries : delivery'[e] = IF e = d THEN r ELSE delivery[e]
  BY DEF HookInv, HookTypeOK
<1>2. \A e \in Deliveries : HookStates'[e] = IF e = d THEN HookStateOf(r.status) ELSE HookStates[e]
  BY <1>1, HookStatus
<1>3. QED
  BY <1>2, HookStatus

\* The queue's actions on one delivery, in terms of HookStates.
LEMMA HookQueueActions ==
    ASSUME NEW d \in Deliveries,
           \/ /\ HookStates[d] = "absent" /\ HookStates' = [HookStates EXCEPT ![d] = "open"]
              /\ UNCHANGED <<hookTaken, hookHanded>>
           \/ /\ hookHanded[d] < hookTaken[d] /\ hookHanded' = [hookHanded EXCEPT ![d] = @ + 1]
              /\ UNCHANGED <<HookStates, hookTaken>>
           \/ /\ hookHanded[d] > 0 /\ HookStates' = [HookStates EXCEPT ![d] = "done"]
              /\ UNCHANGED <<hookTaken, hookHanded>>
           \/ /\ HookStates[d] \notin {"absent", "refused"}
              /\ \E s \in {"open", "failed"} : HookStates' = [HookStates EXCEPT ![d] = s]
              /\ UNCHANGED <<hookTaken, hookHanded>>
    PROVE  HookQueue!QueueNext
<1>1. \/ HookQueue!Submit(d) \/ HookQueue!HandOver(d) \/ HookQueue!ReportDone(d) \/ HookQueue!Settle(d)
  BY DEF HookQueue!Submit, HookQueue!HandOver, HookQueue!ReportDone, HookQueue!Settle, HookStates
<1>2. QED
  BY <1>1 DEF HookQueue!QueueNext

\* Every step on webhook deliveries is a step or a stutter of the queue.
LEMMA HookRefines ==
    ASSUME HookInv, HookNext
    PROVE  [HookQueue!QueueNext]_(HookQueue!queueVars)
<1> USE DEF HookStateOf
<1>1. sender \in [Senders -> SenderRow] /\ delivery \in [Deliveries -> DeliveryRow]
      /\ Events \subseteq Deliveries /\ Tests \subseteq Deliveries
  BY HookRows DEF HookInv, Deliveries
<1>2. CASE UpdateEndpoint \/ \E d \in Events : EmitEvent(d)
  BY <1>2, HookStutters DEF UpdateEndpoint, EmitEvent
<1>3. CASE RemoveEndpoint
  <2> DEFINE J == {d \in Deliveries : Stored(d)}
  <2>1. \A d \in Deliveries : delivery'[d].status = IF d \in J THEN "gone" ELSE delivery[d].status
    BY <1>1, <1>3 DEF RemoveEndpoint, DeliveryRow
  <2>2. \A d \in Deliveries :
           HookStates'[d] = IF d \in J /\ HookStates[d] # "absent" THEN "failed" ELSE HookStates[d]
    BY <2>1, HookStatus DEF Stored
  <2>3. HookQueue!Remove(J)
    BY <1>3, <2>2, HookStatus DEF HookQueue!Remove, RemoveEndpoint, HookStates
  <2>4. QED
    BY <2>3 DEF HookQueue!QueueNext
<1>4. ASSUME NEW d \in Events, OnEvent(d) PROVE [HookQueue!QueueNext]_(HookQueue!queueVars)
  <2>1. delivery[d].status = "none" /\ UNCHANGED <<hookTaken, hookHanded>>
    BY <1>4 DEF OnEvent, HookInv, HookWork
  <2>2. CASE delivery' = [delivery EXCEPT ![d] = [status |-> "PENDING", attempts |-> 0, due |-> "now"]]
    <3>1. HookStates[d] = "absent" /\ HookStates' = [HookStates EXCEPT ![d] = "open"]
      BY <1>1, <2>1, <2>2, HookStatus, HookRewrites
    <3>2. QED
      BY <1>1, <2>1, <3>1, HookQueueActions
  <2>3. CASE delivery' = [delivery EXCEPT ![d].status = "lost"]
    BY <1>1, <2>1, <2>3, HookStutters DEF DeliveryRow
  <2>4. QED
    BY <1>4, <2>2, <2>3 DEF OnEvent
<1>5. ASSUME NEW d \in Deliveries, TimePasses(d) PROVE UNCHANGED HookQueue!queueVars
  BY <1>1, <1>5, HookStutters DEF TimePasses, DeliveryRow
<1>6. ASSUME NEW p \in Senders, NEW d \in Tests, TestSend(p, d) PROVE HookQueue!QueueNext
  <2>1. HookStates[d] = "absent" /\ HookStates' = [HookStates EXCEPT ![d] = "open"]
    BY <1>1, <1>6, HookStatus, HookRewrites DEF TestSend
  <2>2. QED
    BY <1>1, <1>6, <2>1, HookQueueActions DEF TestSend
<1>7. ASSUME NEW p \in Senders, NEW d \in Deliveries, Redeliver(p, d) PROVE HookQueue!QueueNext
  <2> DEFINE r == [delivery[d] EXCEPT !.status = "PENDING", !.due = "never"]
  <2>1. delivery' = [delivery EXCEPT ![d] = r] /\ r.status = "PENDING"
    BY <1>1, <1>7 DEF Redeliver, DeliveryRow
  <2> HIDE DEF r
  <2>2. HookStates[d] \notin {"absent", "refused"} /\ HookStates' = [HookStates EXCEPT ![d] = "open"]
    BY <1>1, <1>7, <2>1, HookStatus, HookRewrites DEF Redeliver, Stored
  <2>3. QED
    BY <1>7, <2>2, HookQueueActions DEF Redeliver
<1>8. ASSUME NEW p \in Senders, NEW d \in Deliveries, Attempt(p, d)
      PROVE  [HookQueue!QueueNext]_(HookQueue!queueVars)
  <2>1. UNCHANGED hookHanded
    BY <1>8 DEF Attempt
  <2>2. CASE UNCHANGED <<delivery, hookTaken>>
    BY <2>1, <2>2, HookStutters
  <2>3. CASE /\ Stored(d) /\ UNCHANGED hookTaken
             /\ delivery' = [delivery EXCEPT ![d] = [status |-> "FAILED", attempts |-> @.attempts + 1, due |-> "never"]]
    <3>1. HookStates[d] \notin {"absent", "refused"} /\ HookStates' = [HookStates EXCEPT ![d] = "failed"]
      BY <1>1, <2>3, HookStatus, HookRewrites DEF Stored
    <3>2. QED
      BY <2>1, <2>3, <3>1, HookQueueActions
  <2>4. CASE Stored(d) /\ UNCHANGED delivery /\ hookTaken' = [hookTaken EXCEPT ![d] = @ + 1]
    <3>1. HookStates' = HookStates /\ HookStates[d] \notin {"absent", "refused"}
      BY <2>4, HookStatus DEF Stored
    <3>2. hookTaken' = [e \in Deliveries |-> IF e \in {d} THEN hookTaken[e] + 1 ELSE hookTaken[e]]
      BY <2>4 DEF HookInv, HookCounts
    <3>3. \E O \in SUBSET {d} : HookStates' = [e \in Deliveries |-> IF e \in O THEN "open" ELSE HookStates[e]]
      <4> WITNESS {} \in SUBSET {d}
      <4> QED
        BY <3>1, HookStatus
    <3>4. HookQueue!TakeJobs({d})
      BY <2>1, <3>1, <3>2, <3>3 DEF HookQueue!TakeJobs, HookStates
    <3>5. QED
      BY <3>4 DEF HookQueue!QueueNext
  <2>5. QED
    BY <1>8, <2>2, <2>3, <2>4 DEF Attempt
<1>9. ASSUME NEW p \in Senders, ProcessDue(p) \/ SenderDies(p) PROVE UNCHANGED HookQueue!queueVars
  <2>1. \A d \in Deliveries : delivery'[d].status = delivery[d].status
    BY <1>1, <1>9 DEF ProcessDue, SenderDies, DeliveryRow
  <2>2. QED
    BY <1>9, <2>1, HookStutters DEF ProcessDue, SenderDies
<1>10. ASSUME NEW p \in Senders, Post(p) PROVE [HookQueue!QueueNext]_(HookQueue!queueVars)
  <2>1. PICK got \in BOOLEAN : hookHanded' = [hookHanded EXCEPT ![sender[p].on] = IF got THEN @ + 1 ELSE @]
    BY <1>10 DEF Post
  <2>2. sender[p].on \in Deliveries /\ hookHanded[sender[p].on] < hookTaken[sender[p].on]
    BY <1>10, PostCounted DEF Post, HookInv, HookWork
  <2>3. UNCHANGED <<delivery, hookTaken>> /\ HookStates' = HookStates
    BY <1>10, HookStatus DEF Post
  <2>4. CASE got
    BY <2>1, <2>2, <2>3, <2>4, HookQueueActions
  <2>5. CASE ~got
    <3>1. UNCHANGED hookHanded
      BY <2>1, <2>5 DEF HookInv, HookCounts
    <3>2. QED
      BY <2>3, <3>1, HookStutters
  <2>6. QED
    BY <2>4, <2>5
<1>11. ASSUME NEW p \in Senders, Finish(p) PROVE [HookQueue!QueueNext]_(HookQueue!queueVars)
  <2> DEFINE d == sender[p].on
  <2>1. d \in Deliveries /\ (Succeeded(p) => hookHanded[d] > 0) /\ UNCHANGED <<hookTaken, hookHanded>>
    BY <1>11 DEF Finish, HookInv, HookWork, Succeeded
  <2>2. CASE UNCHANGED delivery
    BY <2>1, <2>2, HookStutters
  <2>3. CASE Stored(d) /\ ~UNCHANGED delivery
    <3> DEFINE n == sender[p].attempts
               r == IF Succeeded(p) THEN [status |-> "SUCCEEDED", attempts |-> n, due |-> "never"]
                    ELSE IF d \notin Tests /\ NextRetry(n)
                    THEN [status |-> "PENDING", attempts |-> n, due |-> "later"]
                    ELSE [status |-> "FAILED", attempts |-> n, due |-> "never"]
    <3>1. /\ delivery' = [delivery EXCEPT ![d] = r]
          /\ r.status \in {"SUCCEEDED", "PENDING", "FAILED"}
          /\ r.status = "SUCCEEDED" => Succeeded(p)
      BY <1>11, <2>3 DEF Finish
    <3> HIDE DEF r
    <3>2. HookStates' = [HookStates EXCEPT ![d] = HookStateOf(r.status)]
      BY <2>1, <3>1, HookRewrites
    <3>3. HookStates[d] \notin {"absent", "refused"}
      BY <2>1, <2>3, HookStatus DEF Stored
    <3>4. QED
      BY <2>1, <3>1, <3>2, <3>3, HookQueueActions
  <2>4. QED
    BY <1>11, <2>2, <2>3 DEF Finish
<1>12. QED
  BY <1>2, <1>3, <1>4, <1>5, <1>6, <1>7, <1>8, <1>9, <1>10, <1>11 DEF HookNext

\* webhooks.service.ts is a job queue: through overlapping leases, redeliveries,
\* crashes and removed endpoints the receiver gets a delivery no more often than an
\* attempt was begun, and SUCCEEDED is logged only after it got it.
THEOREM WebhooksRefinement == HookSpec => WebhooksImplementQueue
<1>1. HookInit => HookQueue!QueueInit
  BY DEF HookInit, HookQueue!QueueInit, HookState, NoDelivery
<1>2. HookInv /\ [HookNext]_hookVars => [HookQueue!QueueNext]_(HookQueue!queueVars)
  <2>1. CASE UNCHANGED hookVars
    BY <2>1, HookStutters DEF hookVars
  <2>2. QED
    BY <2>1, HookRefines
<1>3. QED
  BY <1>1, <1>2, HookStarts, HookStep, PTL DEF HookSpec, WebhooksImplementQueue, HookQueue!QueueSpec

\* The delivery of an event that nobody redelivered by hand keeps, until it is settled,
\* its place on the worker's schedule with attempts left (webhooks.service.ts: processDue
\* leases, finish reschedules), whatever senders die; the rows keep their types.
\* Nothing is promised of test deliveries and of redeliveries by hand.
THEOREM WebhooksScheduled == HookSpec => [](HookTypeOK /\ DeliveryStaysScheduled)
<1>1. HookInv => HookTypeOK /\ DeliveryStaysScheduled
  BY DEF HookInv
<1>2. QED
  BY <1>1, HookStarts, HookStep, PTL DEF HookSpec

----------------------------------------------------------------------------
(* Outbox messages. *)

Answered == {"ok", "refused", "unsure"}

\* whether a dispatcher with record j may still hand m to the provider
Holds(j, m) ==
    \/ j.at = "calling" /\ j.on = m
    \/ m \in j.todo /\ ~(j.on = m /\ j.at \in Answered)

Holders(m) == {p \in Dispatchers : Holds(job[p], m)}

\* A message that may still be handed over was claimed and not yet accepted.
OutboxCounts ==
    /\ claims \in [Messages -> Nat] /\ accepted \in [Messages -> Nat]
    /\ \A m \in Messages : /\ IsFiniteSet(Holders(m))
                           /\ accepted[m] + Cardinality(Holders(m)) <= claims[m]

\* queued, and not skipped
InOutbox(m) == row[m].status \notin {"none", "SKIPPED"}

\* What a dispatcher with record j is at: a message of its batch, or one sent at
\* once.  The rows of a batch were claimed and are not back in the queue.
DispatcherInv(j) ==
    /\ j.at \in {"idle", "counted"} => j.on = "none"
    /\ j.at = "now" => j.on \in OtpMsgs /\ j.todo = {}
    /\ j.at \in {"calling"} \cup Answered =>
          j.on \in Messages /\ (j.on \in j.todo \/ (j.on \in OtpMsgs /\ j.todo = {}))
    /\ j.on # "none" => InOutbox(j.on)
    /\ \A m \in j.todo : InOutbox(m) /\ row[m].status # "QUEUED" /\ row[m].attempts > 0
    /\ j.at = "ok" => accepted[j.on] > 0

\* No two dispatchers have a row in their batches, and a receipt is for a message
\* the provider accepted.
OutboxWork ==
    /\ IsFiniteSet(sentLately)
    /\ \A p \in Dispatchers : DispatcherInv(job[p])
    /\ \A p, q \in Dispatchers : p # q => job[p].todo \cap job[q].todo = {}
    /\ \A m \in Messages : /\ row[m].known => InOutbox(m)
                           /\ receipt[m] # {} => InOutbox(m) /\ accepted[m] > 0

OutboxInv == OutboxTypeOK /\ OutboxCounts /\ OutboxWork /\ NoMessageLeftSending

OutboxRow == [status : {"none", "QUEUED", "SENDING", "SENT", "SKIPPED", "FAILED"} \cup Receipts,
              attempts : Nat, due : BOOLEAN, known : BOOLEAN]
JobRow == [todo : SUBSET Messages, budget : 0 .. RatePerMinute,
           at : {"idle", "counted", "now", "calling", "ok", "refused", "unsure"},
           on : Messages \cup {"none"}, attempts : Nat]

\* The types OutboxInv gives the tables.
LEMMA OutboxRows ==
    ASSUME OutboxInv
    PROVE  /\ row \in [Messages -> OutboxRow] /\ job \in [Dispatchers -> JobRow]
           /\ receipt \in [Messages -> SUBSET Receipts]
           /\ claims \in [Messages -> Nat] /\ accepted \in [Messages -> Nat]
           /\ CampaignMsgs \subseteq Messages /\ OtpMsgs \subseteq Messages /\ "none" \notin Messages
           /\ JobIdle \in JobRow
BY OutboxAssumption DEF OutboxInv, OutboxTypeOK, OutboxCounts, OutboxRow, JobRow, Messages, JobIdle

\* A dispatcher that claims the messages of J may hold those and none else that it
\* did not hold before.
LEMMA JobMoves ==
    ASSUME OutboxInv, NEW p \in Dispatchers, NEW j, job' = [job EXCEPT ![p] = j],
           NEW J \in SUBSET Messages,
           claims' = [m \in Messages |-> IF m \in J THEN claims[m] + 1 ELSE claims[m]],
           UNCHANGED accepted,
           \A m \in Messages : Holds(j, m) => Holds(job[p], m) \/ m \in J
    PROVE  OutboxCounts'
<1>1. job \in [Dispatchers -> JobRow] /\ claims \in [Messages -> Nat] /\ accepted \in [Messages -> Nat]
  BY OutboxRows
<1>2. ASSUME NEW m \in Messages
      PROVE  IsFiniteSet(Holders(m)') /\ accepted[m] + Cardinality(Holders(m)') <= claims'[m]
  <2>1. IsFiniteSet(Holders(m)) /\ accepted[m] + Cardinality(Holders(m)) <= claims[m]
    BY DEF OutboxInv, OutboxCounts
  <2>2. \A q \in Dispatchers : q # p => job'[q] = job[q]
    BY <1>1
  <2>3. job'[p] = j
    BY <1>1
  <2>4. Holders(m)' \subseteq Holders(m) \cup {p} /\ (m \notin J => (p \in Holders(m)' => p \in Holders(m)))
    BY <2>2, <2>3 DEF Holders, Holds
  <2>5. /\ IsFiniteSet(Holders(m)') /\ Cardinality(Holders(m)) \in Nat /\ Cardinality(Holders(m)') \in Nat
        /\ Cardinality(Holders(m)') <= Cardinality(Holders(m)) + 1
        /\ m \notin J => Cardinality(Holders(m)') <= Cardinality(Holders(m))
    BY <2>1, <2>4, HoldersMove
  <2>6. claims'[m] = IF m \in J THEN claims[m] + 1 ELSE claims[m]
    OBVIOUS
  <2>7. QED
    BY <1>1, <2>1, <2>5, <2>6
<1>3. claims' \in [Messages -> Nat]
  BY <1>1
<1>4. QED
  BY <1>1, <1>2, <1>3 DEF OutboxCounts

\* The same without a claim.
LEMMA JobMovesOn ==
    ASSUME OutboxInv, NEW p \in Dispatchers, NEW j, job' = [job EXCEPT ![p] = j],
           UNCHANGED <<claims, accepted>>, \A m \in Messages : Holds(j, m) => Holds(job[p], m)
    PROVE  OutboxCounts'
<1>1. claims' = [m \in Messages |-> IF m \in {} THEN claims[m] + 1 ELSE claims[m]]
  BY OutboxRows
<1>2. {} \in SUBSET Messages
  OBVIOUS
<1>3. QED
  BY <1>1, <1>2, JobMoves

\* A message the provider accepts uses up a claim.
LEMMA DispatchCounted ==
    ASSUME OutboxInv, NEW p \in Dispatchers, Dispatch(p)
    PROVE  OutboxCounts' /\ accepted[job[p].on] < claims[job[p].on]
<1> DEFINE n == job[p].on
<1>1. job \in [Dispatchers -> JobRow] /\ claims \in [Messages -> Nat] /\ accepted \in [Messages -> Nat]
  BY OutboxRows
<1>2. n \in Messages /\ job[p].at = "calling" /\ UNCHANGED claims
  BY DEF OutboxInv, OutboxWork, DispatcherInv, Dispatch, Answered
<1>3. PICK got \in BOOLEAN, result \in Answered :
         /\ job' = [job EXCEPT ![p].at = result]
         /\ accepted' = [accepted EXCEPT ![n] = IF got THEN @ + 1 ELSE @]
  BY DEF Dispatch, Answered
<1>4. ASSUME NEW m \in Messages
      PROVE  /\ IsFiniteSet(Holders(m)') /\ accepted'[m] + Cardinality(Holders(m)') <= claims[m]
             /\ m = n => accepted[m] < claims[m]
  <2>1. IsFiniteSet(Holders(m)) /\ accepted[m] + Cardinality(Holders(m)) <= claims[m]
    BY DEF OutboxInv, OutboxCounts
  <2>2. \A q \in Dispatchers : q # p => job'[q] = job[q]
    BY <1>1, <1>3
  <2>3. job'[p].at = result /\ job'[p].on = n /\ job'[p].todo = job[p].todo
    BY <1>1, <1>3 DEF JobRow
  <2>4. Holders(m)' \subseteq Holders(m) \cup {p}
    BY <2>2 DEF Holders, Holds
  <2>5. (p \in Holders(m)' => p \in Holders(m)) /\ (m = n => p \in Holders(m) /\ p \notin Holders(m)')
    BY <1>2, <2>3 DEF Holders, Holds, Answered
  <2>6. /\ IsFiniteSet(Holders(m)') /\ Cardinality(Holders(m)) \in Nat /\ Cardinality(Holders(m)') \in Nat
        /\ Cardinality(Holders(m)') <= Cardinality(Holders(m))
        /\ m = n => Cardinality(Holders(m)') <= Cardinality(Holders(m)) - 1
    BY <2>1, <2>4, <2>5, HoldersMove
  <2>7. accepted'[m] \in {accepted[m], accepted[m] + 1} /\ (m # n => accepted'[m] = accepted[m])
    BY <1>1, <1>3
  <2>8. QED
    BY <1>1, <2>1, <2>6, <2>7
<1>5. accepted' \in [Messages -> Nat]
  BY <1>1, <1>2, <1>3
<1>6. QED
  BY <1>1, <1>2, <1>4, <1>5 DEF OutboxCounts

\* What the other dispatchers are at stays true when p moves to a record that is in
\* order, no row leaves the outbox, and only rows of p's batch are put back.
LEMMA DispatchersKept ==
    ASSUME OutboxInv, NEW p \in Dispatchers, NEW j \in JobRow, job' = [job EXCEPT ![p] = j],
           DispatcherInv(j)',
           \A q \in Dispatchers : q # p => j.todo \cap job[q].todo = {},
           \A m \in Messages : InOutbox(m) => InOutbox(m)',
           \A m \in Messages \ job[p].todo : InOutbox(m) /\ row[m].status # "QUEUED" => row'[m].status # "QUEUED",
           \A m \in Messages \ job[p].todo : row[m].attempts > 0 => row'[m].attempts > 0,
           \A m \in Messages : accepted[m] > 0 => accepted'[m] > 0
    PROVE  /\ \A q \in Dispatchers : DispatcherInv(job[q])'
           /\ \A q, o \in Dispatchers : q # o => (job[q].todo \cap job[o].todo = {})'
<1>1. job \in [Dispatchers -> JobRow] /\ OtpMsgs \subseteq Messages
  BY OutboxRows
<1>2. job'[p] = j /\ \A q \in Dispatchers : q # p => job'[q] = job[q]
  BY <1>1
<1>3. \A q \in Dispatchers : DispatcherInv(job[q])
  BY DEF OutboxInv, OutboxWork
<1>4. \A q, o \in Dispatchers : q # o => job[q].todo \cap job[o].todo = {}
  BY DEF OutboxInv, OutboxWork
<1>5. ASSUME NEW q \in Dispatchers, q # p PROVE DispatcherInv(job[q])'
  <2>1. job'[q] = job[q] /\ DispatcherInv(job[q]) /\ job[q] \in JobRow /\ job[q].todo \cap job[p].todo = {}
    BY <1>1, <1>2, <1>3, <1>4, <1>5
  <2>2. job[q].todo \subseteq Messages \ job[p].todo /\ job[q].on \in Messages \cup {"none"}
    BY <2>1 DEF JobRow
  <2>3. \A m \in job[q].todo : InOutbox(m)' /\ row'[m].status # "QUEUED" /\ row'[m].attempts > 0
    BY <2>1, <2>2 DEF DispatcherInv
  <2>4. job[q].on # "none" => InOutbox(job[q].on)'
    BY <2>1, <2>2 DEF DispatcherInv, InOutbox
  <2>5. job[q].at = "ok" => accepted'[job[q].on] > 0
    BY <2>1, <2>2 DEF DispatcherInv, Answered
  <2>6. QED
    BY <2>1, <2>3, <2>4, <2>5 DEF DispatcherInv, InOutbox
<1>6. DispatcherInv(job[p])'
  BY <1>2 DEF DispatcherInv, InOutbox
<1>7. QED
  BY <1>2, <1>4, <1>5, <1>6

\* What the messages and their receipts promise, and the batches.
LEMMA WorkKept ==
    ASSUME IsFiniteSet(sentLately'),
           \A q \in Dispatchers : DispatcherInv(job[q])',
           \A q, o \in Dispatchers : q # o => (job[q].todo \cap job[o].todo = {})',
           \A m \in Messages : /\ row'[m].known => InOutbox(m)'
                               /\ receipt'[m] # {} => InOutbox(m)' /\ accepted'[m] > 0
    PROVE  OutboxWork'
BY DEF OutboxWork, DispatcherInv, InOutbox

\* Steps that change neither dispatchers nor counts keep the invariant.
LEMMA RowsKept ==
    ASSUME OutboxInv,
           \/ MinutePasses \/ \E b \in {"nothing", "marketing", "channel"} : ChangeConsent(b)
           \/ \E m \in CampaignMsgs : SendCampaign(m) \/ EnqueueCampaign(m) \/ MarkCampaignSent(m)
           \/ \E m \in Messages : BackoffPasses(m) \/ \E s \in Receipts : ReadReceipt(m, s) \/ ApplyReceipt(m, s)
    PROVE  OutboxInv'
<1>1. /\ row \in [Messages -> OutboxRow] /\ job \in [Dispatchers -> JobRow]
      /\ receipt \in [Messages -> SUBSET Receipts] /\ CampaignMsgs \subseteq Messages
  BY OutboxRows
<1>2. UNCHANGED <<job, claims, accepted, died>>
  BY DEF MinutePasses, ChangeConsent, SendCampaign, EnqueueCampaign, MarkCampaignSent, BackoffPasses,
         ReadReceipt, ApplyReceipt
<1>3. OutboxCounts'
  BY <1>2 DEF OutboxInv, OutboxCounts, Holders
<1>4. CASE \/ MinutePasses \/ \E b \in {"nothing", "marketing", "channel"} : ChangeConsent(b)
           \/ \E m \in CampaignMsgs : SendCampaign(m) \/ MarkCampaignSent(m)
  <2>1. UNCHANGED <<row, receipt>> /\ sentLately' \in {sentLately, {}}
    BY <1>4 DEF MinutePasses, ChangeConsent, SendCampaign, MarkCampaignSent
  <2>2. OutboxTypeOK'
    BY <1>2, <1>4, <2>1 DEF OutboxInv, OutboxTypeOK, MinutePasses, ChangeConsent, SendCampaign, MarkCampaignSent
  <2>3. IsFiniteSet(sentLately')
    BY <2>1, FS_EmptySet DEF OutboxInv, OutboxWork
  <2>4. OutboxWork' /\ NoMessageLeftSending'
    BY <1>2, <2>1, <2>3 DEF OutboxInv, OutboxWork, DispatcherInv, InOutbox, NoMessageLeftSending
  <2>5. QED
    BY <1>3, <2>2, <2>4 DEF OutboxInv
<1>5. ASSUME NEW m \in Messages, NEW s \in Receipts, ReadReceipt(m, s) PROVE OutboxInv'
  <2>1. UNCHANGED <<row, sentLately, barred, campaign, asked>> /\ receipt' = [receipt EXCEPT ![m] = @ \cup {s}]
        /\ accepted[m] > 0 /\ row[m].known
    BY <1>5 DEF ReadReceipt
  <2>2. OutboxTypeOK'
    BY <1>1, <1>2, <2>1 DEF OutboxInv, OutboxTypeOK
  <2>3. OutboxWork' /\ NoMessageLeftSending'
    BY <1>1, <1>2, <2>1 DEF OutboxInv, OutboxWork, DispatcherInv, InOutbox, NoMessageLeftSending
  <2>4. QED
    BY <1>3, <2>2, <2>3 DEF OutboxInv
<1>6. ASSUME NEW m \in Messages, NEW r \in OutboxRow, row' = [row EXCEPT ![m] = r],
             UNCHANGED <<sentLately, barred, campaign, asked>>,
             \A x \in Messages : receipt'[x] \subseteq receipt[x], receipt' \in [Messages -> SUBSET Receipts],
             \/ row[m] = NoRow /\ ~r.known
             \/ /\ r.status \notin {"none", "SKIPPED", "SENDING"} /\ r.attempts = row[m].attempts
                /\ r.status = "QUEUED" => row[m].status = "QUEUED",
             r.status # "SENDING"
      PROVE  OutboxInv'
  <2>1. \A x \in Messages : row'[x] = IF x = m THEN r ELSE row[x]
    BY <1>1, <1>6
  <2>2. OutboxTypeOK'
    BY <1>1, <1>2, <1>6 DEF OutboxInv, OutboxTypeOK, OutboxRow
  <2>3. NoRow.status = "none"
    BY DEF NoRow
  <2>4. \A q \in Dispatchers : DispatcherInv(job[q])'
    <3> TAKE q \in Dispatchers
    <3>1. DispatcherInv(job[q]) /\ job[q] \in JobRow
      BY <1>1 DEF OutboxInv, OutboxWork
    <3>2. \A x \in job[q].todo : x \in Messages /\ InOutbox(x)' /\ row'[x].status # "QUEUED" /\ row'[x].attempts > 0
      BY <1>6, <2>1, <2>3, <3>1 DEF DispatcherInv, InOutbox, JobRow
    <3>3. job[q].on # "none" => InOutbox(job[q].on)'
      BY <1>2, <1>6, <2>1, <2>3, <3>1 DEF DispatcherInv, InOutbox, JobRow
    <3>4. QED
      BY <1>2, <3>1, <3>2, <3>3 DEF DispatcherInv, InOutbox
  <2>5. \A x \in Messages : /\ row'[x].known => InOutbox(x)'
                            /\ receipt'[x] # {} => InOutbox(x)' /\ accepted'[x] > 0
    BY <1>2, <1>6, <2>1, <2>3 DEF OutboxInv, OutboxWork, InOutbox
  <2>6. OutboxWork'
    BY <1>2, <1>6, <2>4, <2>5, WorkKept DEF OutboxInv, OutboxWork
  <2>7. NoMessageLeftSending'
    BY <1>2, <1>6, <2>1 DEF OutboxInv, NoMessageLeftSending
  <2>8. QED
    BY <1>3, <2>2, <2>6, <2>7 DEF OutboxInv
<1>7. ASSUME NEW m \in CampaignMsgs, EnqueueCampaign(m) PROVE OutboxInv'
  <2>1. Queued(m) \in OutboxRow /\ ~Queued(m).known /\ Queued(m).status # "SENDING"
    BY DEF Queued, OutboxRow
  <2>2. QED
    BY <1>1, <1>6, <1>7, <2>1 DEF EnqueueCampaign
<1>8. ASSUME NEW m \in Messages, BackoffPasses(m) PROVE OutboxInv'
  <2> DEFINE r == [row[m] EXCEPT !.due = TRUE]
  <2>1. r \in OutboxRow /\ r.status = "QUEUED" /\ row[m].status = "QUEUED" /\ r.attempts = row[m].attempts
        /\ row' = [row EXCEPT ![m] = r]
    BY <1>1, <1>8 DEF BackoffPasses, OutboxRow
  <2> HIDE DEF r
  <2>2. QED
    BY <1>1, <1>6, <1>8, <2>1 DEF BackoffPasses
<1>9. ASSUME NEW m \in Messages, NEW s \in Receipts, ApplyReceipt(m, s) PROVE OutboxInv'
  <2> DEFINE r == [row[m] EXCEPT !.status = s]
  <2>1. r \in OutboxRow /\ r.status = s /\ r.attempts = row[m].attempts /\ row' = [row EXCEPT ![m] = r]
    BY <1>1, <1>9 DEF ApplyReceipt, OutboxRow
  <2>2. s \in {"DELIVERED", "READ", "FAILED"}
    BY OutboxAssumption
  <2> HIDE DEF r
  <2>3. receipt' \in [Messages -> SUBSET Receipts] /\ \A x \in Messages : receipt'[x] \subseteq receipt[x]
    BY <1>1, <1>9 DEF ApplyReceipt
  <2>4. QED
    BY <1>6, <1>9, <2>1, <2>2, <2>3 DEF ApplyReceipt
<1>10. QED
  BY <1>4, <1>5, <1>7, <1>8, <1>9

\* whether record j shows that somebody still has to deal with m
Covers(j, m) == m \in j.todo \/ m = j.on

\* What a step of one dispatcher has to respect to keep the invariant.
LEMMA DispatcherStep ==
    ASSUME OutboxInv, NEW p \in Dispatchers, NEW j \in JobRow, job' = [job EXCEPT ![p] = j],
           row' \in [Messages -> OutboxRow], UNCHANGED <<barred, campaign, asked, receipt>>,
           sentLately' \subseteq Messages, IsFiniteSet(sentLately'), died \subseteq died',
           OutboxCounts', DispatcherInv(j)',
           \A q \in Dispatchers : q # p => j.todo \cap job[q].todo = {},
           \A m \in Messages : InOutbox(m) => InOutbox(m)',
           \A m \in Messages \ job[p].todo : InOutbox(m) /\ row[m].status # "QUEUED" => row'[m].status # "QUEUED",
           \A m \in Messages \ job[p].todo : row[m].attempts > 0 => row'[m].attempts > 0,
           \A m \in Messages : accepted[m] > 0 => accepted'[m] > 0,
           \A m \in Messages : row'[m].known => InOutbox(m)',
           \A m \in Messages \ died' : row'[m].status = "SENDING" =>
              \/ Covers(j, m)
              \/ row[m].status = "SENDING" /\ ~Covers(job[p], m)
    PROVE  OutboxInv'
<1>1. job \in [Dispatchers -> JobRow]
  BY OutboxRows
<1>2. OutboxTypeOK'
  BY <1>1 DEF OutboxInv, OutboxTypeOK, OutboxRow, JobRow
<1>3. /\ \A q \in Dispatchers : DispatcherInv(job[q])'
      /\ \A q, o \in Dispatchers : q # o => (job[q].todo \cap job[o].todo = {})'
  BY DispatchersKept
<1>4. \A m \in Messages : receipt'[m] # {} => InOutbox(m)' /\ accepted'[m] > 0
  BY DEF OutboxInv, OutboxWork
<1>5. OutboxWork'
  BY <1>3, <1>4, WorkKept
<1>6. NoMessageLeftSending'
  <2> SUFFICES ASSUME NEW m \in Messages \ died', row'[m].status = "SENDING"
               PROVE  \E q \in Dispatchers : Covers(job'[q], m)
    BY DEF NoMessageLeftSending, Covers
  <2>1. job'[p] = j /\ \A q \in Dispatchers : q # p => job'[q] = job[q]
    BY <1>1
  <2>2. CASE Covers(j, m)
    BY <2>1, <2>2
  <2>3. CASE row[m].status = "SENDING" /\ ~Covers(job[p], m)
    <3>1. PICK q \in Dispatchers : Covers(job[q], m)
      BY <2>3 DEF OutboxInv, NoMessageLeftSending, Covers
    <3>2. QED
      BY <2>1, <2>3, <3>1
  <2>4. QED
    BY <2>2, <2>3
<1>7. QED
  BY <1>2, <1>5, <1>6 DEF OutboxInv

\* Dispatcher steps that leave the rows alone.
LEMMA DispatchersMoveOn ==
    ASSUME OutboxInv, NEW p \in Dispatchers,
           \/ CountBudget(p) \/ Dispatch(p) \/ DispatcherDies(p)
           \/ \E m \in Messages : StartDeliver(p, m)
    PROVE  OutboxInv'
<1>1. /\ row \in [Messages -> OutboxRow] /\ job \in [Dispatchers -> JobRow] /\ JobIdle \in JobRow
      /\ claims \in [Messages -> Nat] /\ accepted \in [Messages -> Nat] /\ "none" \notin Messages
  BY OutboxRows
<1>2. DispatcherInv(job[p]) /\ job[p] \in JobRow
  BY <1>1, SMTT(20) DEF OutboxInv, OutboxWork
<1>3. UNCHANGED <<barred, campaign, asked, row, receipt, sentLately>> /\ died \subseteq died'
  BY DEF CountBudget, Dispatch, DispatcherDies, StartDeliver
<1>4. /\ sentLately \subseteq Messages /\ IsFiniteSet(sentLately)
      /\ \A m \in Messages : row[m].known => InOutbox(m)
      /\ \A q \in Dispatchers : q # p => job[p].todo \cap job[q].todo = {}
  BY DEF OutboxInv, OutboxTypeOK, OutboxWork
<1>5. ASSUME NEW j \in JobRow, job' = [job EXCEPT ![p] = j], j.todo \subseteq job[p].todo,
             OutboxCounts', DispatcherInv(j)', \A m \in Messages : accepted[m] > 0 => accepted'[m] > 0,
             \A m \in Messages \ died' : Covers(job[p], m) => Covers(j, m)
      PROVE  OutboxInv'
  <2>1. \A q \in Dispatchers : q # p => j.todo \cap job[q].todo = {}
    BY <1>4, <1>5
  <2>2. \A m \in Messages : InOutbox(m) => InOutbox(m)'
    BY <1>3 DEF InOutbox
  <2>3. \A m \in Messages : row'[m].known => InOutbox(m)'
    BY <1>3, <1>4 DEF InOutbox
  <2>4. QED
    BY <1>1, <1>3, <1>4, <1>5, <2>1, <2>2, <2>3, DispatcherStep
<1>6. CASE CountBudget(p)
  <2>1. PICK j : j = [job[p] EXCEPT !.at = "counted", !.budget = Budget(Cardinality(sentLately))]
    OBVIOUS
  <2>2. job' = [job EXCEPT ![p] = j] /\ job[p].at = "idle" /\ UNCHANGED <<claims, accepted, died>>
    BY <1>1, <1>6, <2>1 DEF CountBudget
  <2>3. Cardinality(sentLately) \in Nat
    BY <1>4, FS_CardinalityType
  <2>4. Budget(Cardinality(sentLately)) \in 0 .. RatePerMinute
    BY <2>3, OutboxAssumption DEF Budget
  <2>5. j \in JobRow /\ j.todo = job[p].todo /\ j.at = "counted" /\ j.on = job[p].on
    BY <1>2, <2>1, <2>4 DEF JobRow
  <2>6. OutboxCounts'
    BY <1>2, <2>2, <2>5, JobMovesOn DEF Holds, Answered
  <2>7. DispatcherInv(j)'
    BY <1>2, <1>3, <2>2, <2>5 DEF DispatcherInv, InOutbox, Answered
  <2>8. QED
    BY <1>5, <2>2, <2>5, <2>6, <2>7 DEF Covers
<1>7. ASSUME NEW m \in Messages, StartDeliver(p, m) PROVE OutboxInv'
  <2>1. PICK j : j = [job[p] EXCEPT !.at = "calling", !.on = m, !.budget = @ - 1, !.attempts = row[m].attempts]
    OBVIOUS
  <2>2. job' = [job EXCEPT ![p] = j] /\ job[p].at = "counted" /\ m \in job[p].todo /\ job[p].budget > 0
        /\ UNCHANGED <<claims, accepted, died>>
    BY <1>1, <1>7, <2>1 DEF StartDeliver
  <2>3. j \in JobRow /\ j.todo = job[p].todo /\ j.at = "calling" /\ j.on = m
    <3>1. RatePerMinute \in Nat /\ job[p].budget \in 0 .. RatePerMinute
      BY <1>2, OutboxAssumption DEF JobRow
    <3>2. job[p].budget - 1 \in 0 .. RatePerMinute /\ row[m].attempts \in Nat
      BY <1>1, <2>2, <3>1 DEF OutboxRow
    <3>3. QED
      BY <1>2, <2>1, <3>2 DEF JobRow
  <2>4. OutboxCounts'
    BY <1>2, <2>2, <2>3, JobMovesOn DEF Holds, Answered
  <2>5. DispatcherInv(j)'
    BY <1>2, <1>3, <2>2, <2>3 DEF DispatcherInv, InOutbox, Answered
  <2>6. job[p].on = "none"
    BY <1>2, <2>2 DEF DispatcherInv
  <2>7. QED
    BY <1>1, <1>5, <2>2, <2>3, <2>4, <2>5, <2>6 DEF Covers
<1>8. CASE Dispatch(p)
  <2>1. PICK got \in BOOLEAN, result \in Answered :
           /\ result = "ok" => got
           /\ job' = [job EXCEPT ![p].at = result]
           /\ accepted' = [accepted EXCEPT ![job[p].on] = IF got THEN @ + 1 ELSE @]
    BY <1>8 DEF Dispatch, Answered
  <2>2. job[p].on \in Messages /\ job[p].at = "calling" /\ UNCHANGED died
    BY <1>2, <1>8 DEF Dispatch, DispatcherInv
  <2>3. PICK j : j = [job[p] EXCEPT !.at = result]
    OBVIOUS
  <2>4. job' = [job EXCEPT ![p] = j] /\ j \in JobRow /\ j.todo = job[p].todo /\ j.at = result /\ j.on = job[p].on
    BY <1>1, <1>2, <2>3, <2>1 DEF JobRow, Answered
  <2>5. (\A m \in Messages : accepted[m] > 0 => accepted'[m] > 0) /\ (result = "ok" => accepted'[job[p].on] > 0)
    BY <1>1, <2>1, <2>2
  <2>6. DispatcherInv(j)'
    BY <1>2, <1>3, <2>1, <2>2, <2>4, <2>5 DEF DispatcherInv, InOutbox, Answered
  <2>7. QED
    BY <1>5, <1>8, <2>2, <2>4, <2>5, <2>6, DispatchCounted DEF Covers
<1>9. CASE DispatcherDies(p)
  <2>1. job' = [job EXCEPT ![p] = JobIdle] /\ died' = died \cup job[p].todo \cup ({job[p].on} \ {"none"})
        /\ UNCHANGED <<claims, accepted>>
    BY <1>9 DEF DispatcherDies
  <2>2. JobIdle.todo = {} /\ JobIdle.at = "idle" /\ JobIdle.on = "none"
    BY DEF JobIdle
  <2>3. OutboxCounts'
    BY <2>1, <2>2, JobMovesOn DEF Holds
  <2>4. DispatcherInv(JobIdle)'
    BY <2>2 DEF DispatcherInv, Answered
  <2>5. \A m \in Messages \ died' : ~Covers(job[p], m)
    BY <1>1, <2>1 DEF Covers
  <2>6. QED
    BY <1>1, <1>5, <2>1, <2>2, <2>3, <2>4, <2>5
<1>10. QED
  BY <1>6, <1>7, <1>8, <1>9

\* Queueing and claiming a message that is sent at once.
LEMMA SentAtOnce ==
    ASSUME OutboxInv, NEW p \in Dispatchers, ClaimNow(p) \/ \E m \in OtpMsgs : EnqueueNow(p, m)
    PROVE  OutboxInv'
<1>1. /\ row \in [Messages -> OutboxRow] /\ job \in [Dispatchers -> JobRow] /\ JobIdle \in JobRow
      /\ claims \in [Messages -> Nat] /\ accepted \in [Messages -> Nat] /\ "none" \notin Messages
      /\ OtpMsgs \subseteq Messages
  BY OutboxRows
<1>2. DispatcherInv(job[p]) /\ job[p] \in JobRow
  BY <1>1 DEF OutboxInv, OutboxWork
<1>3. UNCHANGED <<barred, campaign, asked, receipt, sentLately, accepted, died>>
  BY DEF ClaimNow, EnqueueNow
<1>4. /\ sentLately \subseteq Messages /\ IsFiniteSet(sentLately)
      /\ \A m \in Messages : row[m].known => InOutbox(m)
  BY DEF OutboxInv, OutboxTypeOK, OutboxWork
<1>5. JobIdle.todo = {} /\ JobIdle.at = "idle" /\ JobIdle.on = "none"
  BY DEF JobIdle
<1>6. ASSUME NEW m \in OtpMsgs, EnqueueNow(p, m) PROVE OutboxInv'
  <2>1. row' = [row EXCEPT ![m] = Queued(m)] /\ job[p] = JobIdle /\ row[m].status = "none" /\ UNCHANGED claims
    <3>1. NoRow.status = "none"
      BY DEF NoRow
    <3>2. QED
      BY <1>6, <3>1 DEF EnqueueNow
  <2>2. /\ Queued(m) \in OutboxRow /\ ~Queued(m).known
        /\ Queued(m).status = IF Skip(m) THEN "SKIPPED" ELSE "QUEUED"
    BY DEF Queued, OutboxRow
  <2>3. PICK j : j = IF Skip(m) THEN JobIdle ELSE [JobIdle EXCEPT !.at = "now", !.on = m]
    OBVIOUS
  <2>4. job' = [job EXCEPT ![p] = j]
    BY <1>6, <2>3 DEF EnqueueNow
  <2>5. j \in JobRow /\ j.todo = {} /\ (j = JobIdle \/ (j.at = "now" /\ j.on = m /\ ~Skip(m)))
    BY <1>1, <2>3, OutboxAssumption DEF JobIdle, JobRow
  <2>6. row' \in [Messages -> OutboxRow] /\ \A x \in Messages : row'[x] = IF x = m THEN Queued(m) ELSE row[x]
    BY <1>1, <2>1, <2>2
  <2>7. OutboxCounts'
    BY <1>3, <1>5, <2>1, <2>4, <2>5, JobMovesOn DEF Holds
  <2>8. DispatcherInv(j)'
    BY <1>1, <1>5, <2>2, <2>5, <2>6 DEF DispatcherInv, InOutbox, Answered
  <2>9. /\ \A x \in Messages : InOutbox(x) => InOutbox(x)' /\ x # m
        /\ \A x \in Messages : row'[x].known => InOutbox(x)'
    BY <1>4, <2>1, <2>2, <2>6 DEF InOutbox
  <2>10. \A x \in Messages : row'[x].status = "SENDING" => row[x].status = "SENDING" /\ ~Covers(job[p], x)
    BY <1>1, <1>5, <2>1, <2>2, <2>6 DEF Covers
  <2>11. \A x \in Messages : InOutbox(x) => row'[x] = row[x]
    BY <2>6, <2>9
  <2>12. \A x \in Messages : row[x].attempts > 0 => row'[x].attempts > 0
    <3>1. row[m] = NoRow /\ NoRow.attempts = 0
      BY <1>6 DEF EnqueueNow, NoRow
    <3>2. QED
      BY <2>6, <3>1
  <2>13. QED
    BY <1>3, <1>4, <2>4, <2>5, <2>6, <2>7, <2>8, <2>9, <2>10, <2>11, <2>12, DispatcherStep
<1>7. CASE ClaimNow(p)
  <2> DEFINE m == job[p].on
  <2>1. m \in OtpMsgs /\ m \in Messages /\ job[p].todo = {} /\ job[p].at = "now" /\ InOutbox(m)
    BY <1>1, <1>2, <1>7 DEF ClaimNow, DispatcherInv
  <2>2. PICK r : r = [row[m] EXCEPT !.status = "SENDING", !.attempts = 1]
    OBVIOUS
  <2>3. r \in OutboxRow /\ r.status = "SENDING" /\ r.attempts = 1 /\ row' = [row EXCEPT ![m] = r]
    BY <1>1, <1>7, <2>1, <2>2, ZenonT(30) DEF ClaimNow, OutboxRow
  <2>4. PICK j : j = [job[p] EXCEPT !.at = "calling", !.attempts = 1]
    OBVIOUS
  <2>5. /\ j \in JobRow /\ j.todo = {} /\ j.at = "calling" /\ j.on = m
        /\ job' = [job EXCEPT ![p] = j]
    BY <1>1, <1>2, <1>7, <2>1, <2>4 DEF ClaimNow, JobRow
  <2>6. claims' = [x \in Messages |-> IF x \in {m} THEN claims[x] + 1 ELSE claims[x]]
    BY <1>1, <1>7, <2>1 DEF ClaimNow
  <2> HIDE DEF m
  <2>7. \A x \in Messages : Holds(j, x) => Holds(job[p], x) \/ x \in {m}
    BY <2>5 DEF Holds
  <2>8. OutboxCounts'
    <3>1. PICK J : J = {m}
      OBVIOUS
    <3>2. J \in SUBSET Messages /\ claims' = [x \in Messages |-> IF x \in J THEN claims[x] + 1 ELSE claims[x]]
      BY <2>1, <2>6, <3>1
    <3>3. \A x \in Messages : Holds(j, x) => Holds(job[p], x) \/ x \in J
      BY <2>7, <3>1
    <3>4. UNCHANGED accepted
      BY <1>7 DEF ClaimNow
    <3>5. QED
      BY <2>5, <3>2, <3>3, <3>4, JobMoves
  <2>9. row' \in [Messages -> OutboxRow] /\ \A x \in Messages : row'[x] = IF x = m THEN r ELSE row[x]
    BY <1>1, <2>1, <2>3
  <2>10. DispatcherInv(j)'
    BY <2>1, <2>3, <2>5, <2>9 DEF DispatcherInv, InOutbox, Answered
  <2>11. /\ \A x \in Messages : InOutbox(x) => InOutbox(x)'
         /\ \A x \in Messages : row'[x].known => InOutbox(x)'
    BY <1>4, <2>3, <2>9 DEF InOutbox
  <2>12. \A x \in Messages : row'[x].status = "SENDING" =>
            Covers(j, x) \/ (row[x].status = "SENDING" /\ ~Covers(job[p], x))
    BY <2>1, <2>5, <2>9 DEF Covers, m
  <2>13. \A x \in Messages : /\ row[x].attempts > 0 => row'[x].attempts > 0
                             /\ row[x].status # "QUEUED" => row'[x].status # "QUEUED"
    BY <2>3, <2>9
  <2>14. QED
    BY <1>3, <1>4, <2>1, <2>5, <2>8, <2>9, <2>10, <2>11, <2>12, <2>13, DispatcherStep
<1>8. QED
  BY <1>6, <1>7

\* A pass of processOutbox claims rows that are in no batch.
LEMMA BatchClaimed ==
    ASSUME OutboxInv, NEW p \in Dispatchers, ClaimDue(p)
    PROVE  OutboxInv'
<1>1. /\ row \in [Messages -> OutboxRow] /\ job \in [Dispatchers -> JobRow] /\ JobIdle \in JobRow
      /\ claims \in [Messages -> Nat] /\ accepted \in [Messages -> Nat] /\ "none" \notin Messages
  BY OutboxRows
<1>2. PICK J : J = {m \in Messages : row[m].status = "QUEUED" /\ row[m].due /\ claims[m] < MaxClaims}
  OBVIOUS
<1>3. UNCHANGED <<barred, campaign, asked, receipt, sentLately, accepted, died>>
  BY DEF ClaimDue
<1>4. /\ sentLately \subseteq Messages /\ IsFiniteSet(sentLately)
      /\ \A m \in Messages : row[m].known => InOutbox(m)
  BY DEF OutboxInv, OutboxTypeOK, OutboxWork
<1>5. /\ job[p] = JobIdle /\ job' = [job EXCEPT ![p].todo = J]
      /\ row' = [m \in Messages |-> IF m \in J
                    THEN [row[m] EXCEPT !.status = "SENDING", !.attempts = @ + 1] ELSE row[m]]
      /\ claims' = [m \in Messages |-> IF m \in J THEN claims[m] + 1 ELSE claims[m]]
  BY <1>2 DEF ClaimDue
<1>6. JobIdle.todo = {} /\ JobIdle.at = "idle" /\ JobIdle.on = "none"
  BY DEF JobIdle
<1>7. J \in SUBSET Messages /\ \A m \in J : row[m].status = "QUEUED"
  BY <1>2
<1>8. PICK j : j = [JobIdle EXCEPT !.todo = J]
  OBVIOUS
<1>9. j \in JobRow /\ j.todo = J /\ j.at = "idle" /\ j.on = "none" /\ job' = [job EXCEPT ![p] = j]
  BY <1>1, <1>5, <1>7, <1>8, OutboxAssumption DEF JobIdle, JobRow
<1>10. /\ row' \in [Messages -> OutboxRow]
       /\ \A m \in J : row'[m].status = "SENDING" /\ row'[m].attempts > 0 /\ row'[m].known = row[m].known
       /\ \A m \in Messages \ J : row'[m] = row[m]
  <2>1. \A m \in Messages : row'[m] = IF m \in J
                 THEN [row[m] EXCEPT !.status = "SENDING", !.attempts = @ + 1] ELSE row[m]
    BY <1>5
  <2>2. ASSUME NEW m \in Messages
        PROVE  LET r == [row[m] EXCEPT !.status = "SENDING", !.attempts = @ + 1]
               IN  r \in OutboxRow /\ r.status = "SENDING" /\ r.attempts > 0 /\ r.known = row[m].known
    <3>1. row[m] \in OutboxRow /\ row[m].attempts \in Nat
      BY <1>1 DEF OutboxRow
    <3>2. PICK n \in Nat : n = row[m].attempts + 1 /\ n > 0
      BY <3>1
    <3>3. [row[m] EXCEPT !.status = "SENDING", !.attempts = n] \in OutboxRow
      BY <3>1, <3>2 DEF OutboxRow
    <3>4. QED
      BY <3>1, <3>2, <3>3 DEF OutboxRow
  <2>3. row' \in [Messages -> OutboxRow]
    BY <1>1, <1>5, <2>2
  <2>4. QED
    BY <1>7, <2>1, <2>2, <2>3
<1>11. OutboxCounts'
  <2>1. \A m \in Messages : Holds(j, m) => Holds(job[p], m) \/ m \in J
    BY <1>9 DEF Holds, Answered
  <2>2. QED
    <3>1. claims' = [m \in Messages |-> IF m \in J THEN claims[m] + 1 ELSE claims[m]]
      BY <1>5
    <3>2. job' = [job EXCEPT ![p] = j] /\ UNCHANGED accepted
      BY <1>3, <1>9
    <3>3. QED
      BY <1>7, <2>1, <3>1, <3>2, JobMoves
<1>12. DispatcherInv(j)'
  BY <1>7, <1>9, <1>10 DEF DispatcherInv, InOutbox, Answered
<1>13. \A q \in Dispatchers : q # p => j.todo \cap job[q].todo = {}
  BY <1>7, <1>9 DEF OutboxInv, OutboxWork, DispatcherInv
<1>14. /\ \A x \in Messages : InOutbox(x) => InOutbox(x)'
       /\ \A x \in Messages : row'[x].known => InOutbox(x)'
  BY <1>4, <1>10 DEF InOutbox
<1>15. \A x \in Messages : /\ row[x].attempts > 0 => row'[x].attempts > 0
                           /\ row[x].status # "QUEUED" => row'[x].status # "QUEUED"
  BY <1>10
<1>16. \A x \in Messages : row'[x].status = "SENDING" =>
          Covers(j, x) \/ (row[x].status = "SENDING" /\ ~Covers(job[p], x))
  BY <1>1, <1>5, <1>6, <1>9, <1>10 DEF Covers
<1>17. QED
  BY <1>3, <1>4, <1>9, <1>10, <1>11, <1>12, <1>13, <1>14, <1>15, <1>16, DispatcherStep

\* What Rest leaves of a dispatcher's record when it is done with m.
LEMMA RestFacts ==
    ASSUME OutboxInv, NEW j \in JobRow, NEW m
    PROVE  /\ Rest(j, m) \in JobRow /\ Rest(j, m).todo = j.todo \ {m}
           /\ Rest(j, m).on = "none" /\ Rest(j, m).at \in {"idle", "counted"}
<1>1. JobIdle \in JobRow /\ JobIdle.todo = {} /\ JobIdle.at = "idle" /\ JobIdle.on = "none"
  BY OutboxRows DEF JobIdle
<1>2. CASE j.todo = {m}
  BY <1>1, <1>2 DEF Rest
<1>3. CASE j.todo # {m}
  <2>1. Rest(j, m) = [j EXCEPT !.todo = @ \ {m}, !.at = "counted", !.on = "none"]
    BY <1>3 DEF Rest
  <2>2. QED
    BY <2>1, ZenonT(30) DEF JobRow
<1>4. QED
  BY <1>2, <1>3

\* Putting a row over the budget back, and recording an outcome, end p's work on m.
LEMMA MessageDone ==
    ASSUME OutboxInv, NEW p \in Dispatchers, RecordOutcome(p) \/ \E m \in Messages : Defer(p, m)
    PROVE  OutboxInv'
<1>1. /\ row \in [Messages -> OutboxRow] /\ job \in [Dispatchers -> JobRow] /\ JobIdle \in JobRow
      /\ claims \in [Messages -> Nat] /\ accepted \in [Messages -> Nat] /\ "none" \notin Messages
      /\ OtpMsgs \subseteq Messages
  BY OutboxRows
<1>2. DispatcherInv(job[p]) /\ job[p] \in JobRow
  BY <1>1 DEF OutboxInv, OutboxWork
<1>3. UNCHANGED <<barred, campaign, asked, receipt, claims, accepted, died>>
  BY DEF RecordOutcome, Defer
<1>4. /\ sentLately \subseteq Messages /\ IsFiniteSet(sentLately)
      /\ \A m \in Messages : row[m].known => InOutbox(m)
      /\ \A q \in Dispatchers : q # p => job[p].todo \cap job[q].todo = {}
  BY DEF OutboxInv, OutboxTypeOK, OutboxWork
<1>5. ASSUME NEW m \in Messages, NEW r \in OutboxRow, NEW j \in JobRow,
             row' = [row EXCEPT ![m] = r], job' = [job EXCEPT ![p] = j],
             InOutbox(m), r.status \in {"SENT", "QUEUED", "FAILED"},
             m \in job[p].todo \/ (r.status # "QUEUED" /\ r.attempts = row[m].attempts),
             j.todo = job[p].todo \ {m}, j.on = "none", j.at \in {"idle", "counted"},
             job[p].on \in {m, "none"},
             sentLately' \subseteq Messages, IsFiniteSet(sentLately')
      PROVE  OutboxInv'
  <2>1. row' \in [Messages -> OutboxRow] /\ \A x \in Messages : row'[x] = IF x = m THEN r ELSE row[x]
    BY <1>1, <1>5
  <2>2. \A x \in Messages : Holds(j, x) => Holds(job[p], x)
    BY <1>1, <1>5 DEF Holds, Answered
  <2>3. OutboxCounts'
    BY <1>3, <1>5, <2>2, JobMovesOn
  <2>4. \A x \in j.todo : x \in Messages /\ x # m /\ row'[x] = row[x]
    BY <1>2, <1>5, <2>1 DEF JobRow
  <2>5. DispatcherInv(j)'
    BY <1>2, <1>5, <2>4 DEF DispatcherInv, InOutbox, Answered
  <2>6. \A q \in Dispatchers : q # p => j.todo \cap job[q].todo = {}
    BY <1>4, <1>5
  <2>7. /\ \A x \in Messages : InOutbox(x) => InOutbox(x)'
        /\ \A x \in Messages : row'[x].known => InOutbox(x)'
    BY <1>4, <1>5, <2>1 DEF InOutbox
  <2>8. \A x \in Messages \ job[p].todo : /\ row[x].attempts > 0 => row'[x].attempts > 0
                                          /\ row[x].status # "QUEUED" => row'[x].status # "QUEUED"
    BY <1>5, <2>1
  <2>9. \A x \in Messages : row'[x].status = "SENDING" =>
           Covers(j, x) \/ (row[x].status = "SENDING" /\ ~Covers(job[p], x))
    BY <1>1, <1>5, <2>1 DEF Covers
  <2>10. QED
    BY <1>3, <1>5, <2>1, <2>3, <2>5, <2>6, <2>7, <2>8, <2>9, DispatcherStep
<1>6. ASSUME NEW m \in Messages, Defer(p, m) PROVE OutboxInv'
  <2>1. PICK j : j = Rest(job[p], m)
    OBVIOUS
  <2>2. j \in JobRow /\ j.todo = job[p].todo \ {m} /\ j.on = "none" /\ j.at \in {"idle", "counted"}
    BY <1>2, <2>1, RestFacts
  <2>3. job' = [job EXCEPT ![p] = j] /\ m \in job[p].todo /\ job[p].at = "counted" /\ UNCHANGED sentLately
    BY <1>6, <2>1 DEF Defer
  <2>4. job[p].on = "none" /\ InOutbox(m) /\ row[m].attempts > 0
    BY <1>2, <2>3 DEF DispatcherInv
  <2>5. PICK r : r = [row[m] EXCEPT !.status = "QUEUED", !.attempts = @ - 1, !.due = FALSE]
    OBVIOUS
  <2>6. r \in OutboxRow /\ r.status = "QUEUED"
    <3>1. row[m] \in OutboxRow /\ row[m].attempts - 1 \in Nat
      BY <1>1, <2>4 DEF OutboxRow
    <3>2. QED
      BY <2>5, <3>1 DEF OutboxRow
  <2>7. row' = [row EXCEPT ![m] = r]
    BY <1>1, <1>6, <2>5 DEF Defer, PutBack
  <2>8. QED
    BY <1>4, <1>5, <2>2, <2>3, <2>4, <2>6, <2>7
<1>7. CASE RecordOutcome(p)
  <2>1. PICK m : m = job[p].on
    OBVIOUS
  <2>2. /\ m \in Messages /\ InOutbox(m) /\ (m \in job[p].todo \/ (m \in OtpMsgs /\ job[p].todo = {}))
        /\ job[p].at \in Answered
    BY <1>1, <1>2, <1>7, <2>1 DEF RecordOutcome, DispatcherInv, Answered
  <2>3. PICK j : j = IF job[p].todo = {} THEN JobIdle ELSE Rest(job[p], m)
    OBVIOUS
  <2>4. j \in JobRow /\ j.todo = job[p].todo \ {m} /\ j.on = "none" /\ j.at \in {"idle", "counted"}
    <3>1. JobIdle.todo = {} /\ JobIdle.at = "idle" /\ JobIdle.on = "none"
      BY DEF JobIdle
    <3>2. QED
      BY <1>1, <1>2, <2>3, <3>1, RestFacts
  <2>5. job' = [job EXCEPT ![p] = j]
    BY <1>7, <2>1, <2>3 DEF RecordOutcome
  <2> DEFINE retry == job[p].at = "unsure" /\ job[p].attempts < OutboxAttempts /\ m \notin OtpMsgs
  <2>6. PICK r : r = IF WentOut(p) THEN [row[m] EXCEPT !.status = "SENT", !.known = TRUE]
                     ELSE IF retry THEN [row[m] EXCEPT !.status = "QUEUED", !.due = FALSE]
                     ELSE [row[m] EXCEPT !.status = "FAILED"]
    OBVIOUS
  <2>7. row' = [row EXCEPT ![m] = r]
    BY <1>1, <1>7, <2>1, <2>2, <2>6 DEF RecordOutcome
  <2>8. /\ r \in OutboxRow /\ r.status \in {"SENT", "QUEUED", "FAILED"} /\ r.attempts = row[m].attempts
        /\ r.status = "QUEUED" => m \notin OtpMsgs
    BY <1>1, <2>2, <2>6, ZenonT(30) DEF OutboxRow
  <2>9. sentLately' \subseteq Messages /\ IsFiniteSet(sentLately')
    <3>1. sentLately' \in {sentLately, sentLately \cup {m}}
      BY <1>7, <2>1 DEF RecordOutcome
    <3>2. QED
      BY <1>4, <2>2, <3>1, FS_AddElement
  <2>10. QED
    BY <1>5, <2>1, <2>2, <2>4, <2>5, <2>7, <2>8, <2>9
<1>8. QED
  BY <1>6, <1>7

\* OutboxInv holds initially.
LEMMA OutboxStarts == OutboxInit => OutboxInv
<1> SUFFICES ASSUME OutboxInit PROVE OutboxInv
  OBVIOUS
<1>1. OutboxTypeOK
  BY OutboxAssumption DEF OutboxInit, OutboxTypeOK, NoRow, JobIdle
<1>2. \A m \in Messages : Holders(m) = {}
  BY DEF OutboxInit, Holders, Holds, JobIdle
<1>3. OutboxCounts
  BY <1>2, FS_EmptySet DEF OutboxInit, OutboxCounts
<1>4. OutboxWork
  BY FS_EmptySet DEF OutboxInit, OutboxWork, DispatcherInv, InOutbox, NoRow, JobIdle, Answered
<1>5. NoMessageLeftSending
  BY DEF OutboxInit, NoMessageLeftSending, NoRow
<1>6. QED
  BY <1>1, <1>3, <1>4, <1>5 DEF OutboxInv

\* OutboxInv is inductive.
LEMMA OutboxStep == OutboxInv /\ [OutboxNext]_outboxVars => OutboxInv'
<1> SUFFICES ASSUME OutboxInv, [OutboxNext]_outboxVars PROVE OutboxInv'
  OBVIOUS
<1>1. CASE UNCHANGED outboxVars
  BY <1>1 DEF OutboxInv, OutboxTypeOK, OutboxCounts, OutboxWork, NoMessageLeftSending, Holders, Holds,
       DispatcherInv, InOutbox, outboxVars
<1>2. CASE OutboxNext
  BY <1>2, RowsKept, DispatchersMoveOn, SentAtOnce, BatchClaimed, MessageDone DEF OutboxNext
<1>3. QED
  BY <1>1, <1>2

\* the queue's state for a status of message_outbox
OutboxStateOf(s) ==
    IF s = "none" THEN "absent"
    ELSE IF s = "SKIPPED" THEN "refused"
    ELSE IF s \in {"QUEUED", "SENDING"} THEN "open"
    ELSE IF s = "FAILED" THEN "failed" ELSE "done"

OutboxStates == [m \in Messages |-> OutboxState(m)]

\* OutboxState depends on the status alone, now and after a step.
LEMMA OutboxStatus ==
    /\ \A m \in Messages : OutboxStates[m] = OutboxStateOf(row[m].status)
    /\ \A m \in Messages : OutboxStates'[m] = OutboxStateOf(row'[m].status)
    /\ OutboxStates = [m \in Messages |-> OutboxStates[m]] /\ OutboxStates' = [m \in Messages |-> OutboxStates'[m]]
BY DEF OutboxStates, OutboxState, OutboxStateOf

\* A step that changes no status and no count is a stutter of the queue.
LEMMA OutboxStutters ==
    ASSUME \A m \in Messages : OutboxStateOf(row'[m].status) = OutboxStateOf(row[m].status),
           UNCHANGED <<claims, accepted>>
    PROVE  UNCHANGED OutboxQueue!queueVars
<1>1. OutboxStates' = OutboxStates
  BY OutboxStatus
<1>2. QED
  BY <1>1 DEF OutboxQueue!queueVars, OutboxStates

\* Rewriting one row changes the queue's state of that message alone.
LEMMA OutboxRewrites ==
    ASSUME OutboxInv, NEW m \in Messages, NEW r, row' = [row EXCEPT ![m] = r]
    PROVE  OutboxStates' = [OutboxStates EXCEPT ![m] = OutboxStateOf(r.status)]
<1>1. \A x \in Messages : row'[x] = IF x = m THEN r ELSE row[x]
  BY OutboxRows
<1>2. \A x \in Messages : OutboxStates'[x] = IF x = m THEN OutboxStateOf(r.status) ELSE OutboxStates[x]
  BY <1>1, OutboxStatus
<1>3. QED
  BY <1>2, OutboxStatus

\* The queue's actions on one message, in terms of OutboxStates.
LEMMA OutboxQueueActions ==
    ASSUME NEW m \in Messages,
           \/ /\ OutboxStates[m] = "absent"
              /\ \E s \in {"open", "refused"} : OutboxStates' = [OutboxStates EXCEPT ![m] = s]
              /\ UNCHANGED <<claims, accepted>>
           \/ /\ accepted[m] < claims[m] /\ accepted' = [accepted EXCEPT ![m] = @ + 1]
              /\ UNCHANGED <<OutboxStates, claims>>
           \/ /\ accepted[m] > 0 /\ OutboxStates' = [OutboxStates EXCEPT ![m] = "done"]
              /\ UNCHANGED <<claims, accepted>>
           \/ /\ OutboxStates[m] \notin {"absent", "refused"}
              /\ \E s \in {"open", "failed"} : OutboxStates' = [OutboxStates EXCEPT ![m] = s]
              /\ UNCHANGED <<claims, accepted>>
    PROVE  OutboxQueue!QueueNext
<1>1. \/ OutboxQueue!Submit(m) \/ OutboxQueue!HandOver(m) \/ OutboxQueue!ReportDone(m) \/ OutboxQueue!Settle(m)
  BY DEF OutboxQueue!Submit, OutboxQueue!HandOver, OutboxQueue!ReportDone, OutboxQueue!Settle, OutboxStates
<1>2. QED
  BY <1>1 DEF OutboxQueue!QueueNext

\* The queue's take, in terms of OutboxStates.
LEMMA OutboxTakes ==
    ASSUME NEW J \in SUBSET Messages, NEW O \in SUBSET J,
           \A m \in J : OutboxStates[m] \notin {"absent", "refused"},
           claims' = [m \in Messages |-> IF m \in J THEN claims[m] + 1 ELSE claims[m]], UNCHANGED accepted,
           \A m \in Messages : OutboxStates'[m] = IF m \in O THEN "open" ELSE OutboxStates[m]
    PROVE  OutboxQueue!QueueNext
<1>1. OutboxStates' = [m \in Messages |-> IF m \in O THEN "open" ELSE OutboxStates[m]]
  BY OutboxStatus
<1>2. OutboxQueue!TakeJobs(J)
  BY <1>1 DEF OutboxQueue!TakeJobs, OutboxStates
<1>3. QED
  BY <1>2 DEF OutboxQueue!QueueNext

\* Every step on outbox messages is a step or a stutter of the queue.
LEMMA OutboxRefines ==
    ASSUME OutboxInv, OutboxNext
    PROVE  [OutboxQueue!QueueNext]_(OutboxQueue!queueVars)
<1> USE DEF OutboxStateOf
<1>1. /\ row \in [Messages -> OutboxRow] /\ job \in [Dispatchers -> JobRow]
      /\ claims \in [Messages -> Nat] /\ accepted \in [Messages -> Nat]
      /\ CampaignMsgs \subseteq Messages /\ OtpMsgs \subseteq Messages
  BY OutboxRows
<1>2. \A p \in Dispatchers : DispatcherInv(job[p])
  BY DEF OutboxInv, OutboxWork
<1>3. \A m \in Messages : InOutbox(m) => OutboxStates[m] \notin {"absent", "refused"}
  BY OutboxStatus DEF InOutbox
<1>4. CASE \/ MinutePasses \/ \E b \in {"nothing", "marketing", "channel"} : ChangeConsent(b)
           \/ \E m \in CampaignMsgs : SendCampaign(m) \/ MarkCampaignSent(m)
           \/ \E m \in Messages, s \in Receipts : ReadReceipt(m, s)
           \/ \E p \in Dispatchers : \/ CountBudget(p) \/ DispatcherDies(p)
                                     \/ \E m \in Messages : StartDeliver(p, m)
  BY <1>4, OutboxStutters DEF MinutePasses, ChangeConsent, SendCampaign, MarkCampaignSent, ReadReceipt, CountBudget,
       DispatcherDies, StartDeliver
<1>5. ASSUME NEW m \in Messages, row[m] = NoRow, row' = [row EXCEPT ![m] = Queued(m)], UNCHANGED <<claims, accepted>>
      PROVE  OutboxQueue!QueueNext
  <2>1. NoRow.status = "none" /\ Queued(m).status \in {"QUEUED", "SKIPPED"}
    BY DEF NoRow, Queued
  <2>2. OutboxStates[m] = "absent" /\ OutboxStates' = [OutboxStates EXCEPT ![m] = OutboxStateOf(Queued(m).status)]
    BY <1>5, <2>1, OutboxStatus, OutboxRewrites, ZenonT(30)
  <2>3. QED
    BY <1>5, <2>1, <2>2, OutboxQueueActions
<1>6. CASE \/ \E m \in CampaignMsgs : EnqueueCampaign(m)
           \/ \E p \in Dispatchers, m \in OtpMsgs : EnqueueNow(p, m)
  BY <1>1, <1>5, <1>6 DEF EnqueueCampaign, EnqueueNow
<1>7. ASSUME NEW m \in Messages, BackoffPasses(m) PROVE UNCHANGED OutboxQueue!queueVars
  <2>1. \A x \in Messages : row'[x].status = row[x].status
    BY <1>1, <1>7 DEF BackoffPasses, OutboxRow
  <2>2. QED
    BY <1>7, <2>1, OutboxStutters DEF BackoffPasses
<1>8. ASSUME NEW m \in Messages, NEW s \in Receipts, ApplyReceipt(m, s) PROVE OutboxQueue!QueueNext
  <2>1. s \in {"DELIVERED", "READ", "FAILED"} /\ UNCHANGED <<claims, accepted>> /\ s \in receipt[m]
    BY <1>8, OutboxAssumption DEF ApplyReceipt
  <2>2. InOutbox(m) /\ accepted[m] > 0
    BY <2>1 DEF OutboxInv, OutboxWork
  <2>3. PICK r : r = [row[m] EXCEPT !.status = s]
    OBVIOUS
  <2>4. row' = [row EXCEPT ![m] = r] /\ r.status = s
    BY <1>1, <1>8, <2>3 DEF ApplyReceipt, OutboxRow
  <2>5. OutboxStates' = [OutboxStates EXCEPT ![m] = OutboxStateOf(s)]
    BY <2>4, OutboxRewrites
  <2>6. QED
    BY <1>3, <2>1, <2>2, <2>5, OutboxQueueActions
<1>9. ASSUME NEW p \in Dispatchers, ClaimNow(p) PROVE OutboxQueue!QueueNext
  <2>1. PICK m : m = job[p].on
    OBVIOUS
  <2>2. m \in Messages /\ InOutbox(m)
    BY <1>1, <1>2, <1>9, <2>1, OutboxRows DEF ClaimNow, DispatcherInv
  <2>3. \A x \in Messages : row'[x].status = IF x = m THEN "SENDING" ELSE row[x].status
    BY <1>1, <1>9, <2>1, <2>2 DEF ClaimNow, OutboxRow
  <2>4. \A x \in Messages : OutboxStates'[x] = IF x \in {m} THEN "open" ELSE OutboxStates[x]
    BY <2>3, OutboxStatus
  <2>5. claims' = [x \in Messages |-> IF x \in {m} THEN claims[x] + 1 ELSE claims[x]] /\ UNCHANGED accepted
    BY <1>1, <1>9, <2>1 DEF ClaimNow
  <2>6. QED
    BY <1>3, <2>2, <2>4, <2>5, OutboxTakes
<1>10. ASSUME NEW p \in Dispatchers, ClaimDue(p) PROVE OutboxQueue!QueueNext
  <2>1. PICK J : J = {m \in Messages : row[m].status = "QUEUED" /\ row[m].due /\ claims[m] < MaxClaims}
    OBVIOUS
  <2>2. J \in SUBSET Messages /\ \A m \in J : row[m].status = "QUEUED"
    BY <2>1
  <2>3. /\ row' = [m \in Messages |-> IF m \in J
                    THEN [row[m] EXCEPT !.status = "SENDING", !.attempts = @ + 1] ELSE row[m]]
        /\ claims' = [m \in Messages |-> IF m \in J THEN claims[m] + 1 ELSE claims[m]] /\ UNCHANGED accepted
    BY <1>10, <2>1 DEF ClaimDue
  <2>4. \A m \in Messages : row'[m].status = IF m \in J THEN "SENDING" ELSE row[m].status
    BY <1>1, <2>3 DEF OutboxRow
  <2>5. \A m \in Messages : OutboxStates'[m] = OutboxStates[m]
    BY <2>2, <2>4, OutboxStatus
  <2>6. PICK O \in SUBSET J : O = {}
    OBVIOUS
  <2>7. \A m \in Messages : OutboxStates'[m] = IF m \in O THEN "open" ELSE OutboxStates[m]
    BY <2>5, <2>6
  <2>8. \A m \in J : OutboxStates[m] \notin {"absent", "refused"}
    BY <2>2, OutboxStatus
  <2>9. QED
    BY <2>2, <2>3, <2>7, <2>8, OutboxTakes
<1>11. ASSUME NEW p \in Dispatchers, NEW m \in Messages, Defer(p, m) PROVE OutboxQueue!QueueNext
  <2>1. InOutbox(m) /\ UNCHANGED <<claims, accepted>>
    BY <1>2, <1>11 DEF Defer, DispatcherInv
  <2>2. PICK r : r = [row[m] EXCEPT !.status = "QUEUED", !.attempts = @ - 1, !.due = FALSE]
    OBVIOUS
  <2>3. row' = [row EXCEPT ![m] = r] /\ r.status = "QUEUED"
    BY <1>1, <1>11, <2>2 DEF Defer, PutBack, OutboxRow
  <2>4. OutboxStates' = [OutboxStates EXCEPT ![m] = OutboxStateOf(r.status)]
    BY ONLY <2>3, OutboxInv, OutboxRewrites
  <2>5. OutboxStateOf(r.status) = "open"
    BY <2>3
  <2>6. QED
    BY <1>3, <2>1, <2>4, <2>5, OutboxQueueActions
<1>12. ASSUME NEW p \in Dispatchers, Dispatch(p) PROVE [OutboxQueue!QueueNext]_(OutboxQueue!queueVars)
  <2>1. PICK got \in BOOLEAN : accepted' = [accepted EXCEPT ![job[p].on] = IF got THEN @ + 1 ELSE @]
    BY <1>12 DEF Dispatch
  <2>2. job[p].on \in Messages /\ accepted[job[p].on] < claims[job[p].on]
    BY <1>2, <1>12, DispatchCounted DEF Dispatch, DispatcherInv
  <2>3. UNCHANGED <<row, claims>> /\ OutboxStates' = OutboxStates
    BY <1>12, OutboxStatus DEF Dispatch
  <2>4. CASE got
    BY <2>1, <2>2, <2>3, <2>4, OutboxQueueActions
  <2>5. CASE ~got
    <3>1. UNCHANGED accepted
      BY <1>1, <2>1, <2>5
    <3>2. QED
      BY <2>3, <3>1, OutboxStutters
  <2>6. QED
    BY <2>4, <2>5
<1>13. ASSUME NEW p \in Dispatchers, RecordOutcome(p) PROVE OutboxQueue!QueueNext
  <2>1. PICK m : m = job[p].on
    OBVIOUS
  <2>2. m \in Messages /\ InOutbox(m) /\ (WentOut(p) => accepted[m] > 0) /\ UNCHANGED <<claims, accepted>>
    BY <1>1, <1>2, <1>13, <2>1, OutboxRows DEF RecordOutcome, DispatcherInv, Answered, WentOut
  <2> DEFINE retry == job[p].at = "unsure" /\ job[p].attempts < OutboxAttempts /\ m \notin OtpMsgs
  <2>3. PICK r : r = IF WentOut(p) THEN [row[m] EXCEPT !.status = "SENT", !.known = TRUE]
                     ELSE IF retry THEN [row[m] EXCEPT !.status = "QUEUED", !.due = FALSE]
                     ELSE [row[m] EXCEPT !.status = "FAILED"]
    OBVIOUS
  <2>4. row' = [row EXCEPT ![m] = r]
    BY <1>1, <1>13, <2>1, <2>2, <2>3 DEF RecordOutcome
  <2>5. r.status \in {"SENT", "QUEUED", "FAILED"} /\ (r.status = "SENT" => WentOut(p))
    BY <1>1, <2>2, <2>3 DEF OutboxRow
  <2>6. OutboxStates' = [OutboxStates EXCEPT ![m] = OutboxStateOf(r.status)]
    BY <2>2, <2>4, OutboxRewrites
  <2>7. QED
    BY <1>3, <2>2, <2>5, <2>6, OutboxQueueActions
<1>14. QED
  BY <1>4, <1>6, <1>7, <1>8, <1>9, <1>10, <1>11, <1>12, <1>13 DEF OutboxNext

\* The outbox of messaging.service.ts is a job queue: a message skipped for an
\* opt-out or a disabled channel is never sent, the provider accepts one no more
\* often than it was claimed, and SENT, DELIVERED and READ follow an acceptance,
\* through overlapping passes, timeouts, retries, crashes and racing receipts.
THEOREM OutboxRefinement == OutboxSpec => OutboxImplementsQueue
<1>1. OutboxInit => OutboxQueue!QueueInit
  BY DEF OutboxInit, OutboxQueue!QueueInit, OutboxState, NoRow
<1>2. OutboxInv /\ [OutboxNext]_outboxVars => [OutboxQueue!QueueNext]_(OutboxQueue!queueVars)
  <2>1. CASE UNCHANGED outboxVars
    BY <2>1, OutboxStutters DEF outboxVars
  <2>2. QED
    BY <2>1, OutboxRefines
<1>3. QED
  BY <1>1, <1>2, OutboxStarts, OutboxStep, PTL DEF OutboxSpec, OutboxImplementsQueue, OutboxQueue!QueueSpec

\* Only a process that died leaves a message in SENDING (messaging.service.ts has
\* no sweep for those): the rate limit, retries and the two ways of claiming put
\* every other one back or settle it, and the rows keep their types.
THEOREM OutboxLeavesNothing == OutboxSpec => [](OutboxTypeOK /\ NoMessageLeftSending)
<1>1. OutboxInv => OutboxTypeOK /\ NoMessageLeftSending
  BY DEF OutboxInv
<1>2. QED
  BY <1>1, OutboxStarts, OutboxStep, PTL DEF OutboxSpec

----------------------------------------------------------------------------
(* Print jobs. *)

\* an agent's row that may still put job j on paper, and the agents with one
MayPrint(rec, j) == j \in rec.todo \/ (rec.at \in {"sending", "printing"} /\ rec.on = j)
PrintHolders(j) == {a \in Agents : MayPrint(agent[a], j)}

\* A job an agent may still print, or a local agent nobody waits for, was claimed or
\* taken on by the browser, and has not been handed over on that account.
PrintCounts ==
    /\ jobClaims \in [PrintJobs -> Nat] /\ fellBack \in [PrintJobs -> Nat]
    /\ spooled \in [PrintJobs -> Nat] /\ late \in [PrintJobs -> Nat]
    /\ \A j \in PrintJobs :
          /\ IsFiniteSet(PrintHolders(j))
          /\ spooled[j] + late[j] + Cardinality(PrintHolders(j)) <= jobClaims[j] + fellBack[j]

\* An agent works on a job that exists and that it has taken from its batch, and one
\* that reports success has handed it over; a retry is of a job that exists.
Works(rec) ==
    /\ \A j \in rec.todo : print[j].status # "none"
    /\ rec.at # "idle" => rec.on \in PrintJobs /\ print[rec.on].status # "none"
    /\ rec.at \in {"sending", "unsent", "printing"} => rec.on \notin rec.todo
    /\ rec.at \in {"ok", "okRead"} => spooled[rec.on] > 0
PrintWork ==
    /\ \A a \in Agents : Works(agent[a])
    /\ \A c \in Clicks : click[c] # "none" => print[click[c]].status # "none"

\* jobs a first or a further claim is already explained for
Owed(r) == r.status \in {"none", "QUEUED"} \/ (r.status = "PRINTING" /\ r.stale)

\* Every claim but the first follows a claim presumed lost or a retry.
ClaimsExplained ==
    /\ staled \in [PrintJobs -> Nat] /\ retried \in [PrintJobs -> Nat]
    /\ \A j \in PrintJobs :
          jobClaims[j] + (IF Owed(print[j]) THEN 1 ELSE 0) <= 1 + staled[j] + retried[j]

PrintInv == PrintTypeOK /\ PrintCounts /\ PrintWork /\ ClaimsExplained

JobRecord == [status : {"none", "QUEUED", "PRINTING", "PRINTED", "FAILED", "CANCELLED"},
              by : Agents \cup {"none"}, claim : Nat, stale : BOOLEAN, old : BOOLEAN]
AgentRecord == [todo : SUBSET PrintJobs, at : AgentAts, on : PrintJobs \cup {"none"}, claim : Nat]

\* PrintTypeOK in terms of the record sets, and the types of the counts.
LEMMA PrintTypes ==
    /\ PrintTypeOK <=> /\ printer \in {"active", "disabled", "gone"} /\ notice \subseteq Tickets
                       /\ print \in [PrintJobs -> JobRecord] /\ agent \in [Agents -> AgentRecord]
                       /\ late \in [PrintJobs -> Nat] /\ click \in [Clicks -> PrintJobs \cup {"none"}]
    /\ PrintInv => /\ print \in [PrintJobs -> JobRecord] /\ agent \in [Agents -> AgentRecord]
                   /\ click \in [Clicks -> PrintJobs \cup {"none"}]
                   /\ jobClaims \in [PrintJobs -> Nat] /\ fellBack \in [PrintJobs -> Nat]
                   /\ spooled \in [PrintJobs -> Nat] /\ late \in [PrintJobs -> Nat]
                   /\ staled \in [PrintJobs -> Nat] /\ retried \in [PrintJobs -> Nat]
    /\ Tickets \subseteq PrintJobs /\ Asked \subseteq PrintJobs
<1>1. PrintTypeOK <=> /\ printer \in {"active", "disabled", "gone"} /\ notice \subseteq Tickets
                      /\ print \in [PrintJobs -> JobRecord] /\ agent \in [Agents -> AgentRecord]
                      /\ late \in [PrintJobs -> Nat] /\ click \in [Clicks -> PrintJobs \cup {"none"}]
  BY DEF PrintTypeOK, JobRecord, AgentRecord
<1>2. PrintInv => /\ jobClaims \in [PrintJobs -> Nat] /\ fellBack \in [PrintJobs -> Nat]
                  /\ spooled \in [PrintJobs -> Nat] /\ late \in [PrintJobs -> Nat]
                  /\ staled \in [PrintJobs -> Nat] /\ retried \in [PrintJobs -> Nat]
  BY DEF PrintInv, PrintCounts, ClaimsExplained
<1>3. QED
  BY <1>1, <1>2 DEF PrintInv, PrintJobs

\* What a step of agent a does to the counts of a job: nothing, or it hands the job
\* over, or leaves it to a local agent, or takes it on again.
CountMoves(a, r, j) ==
    \/ /\ spooled'[j] + late'[j] = spooled[j] + late[j] /\ fellBack'[j] = fellBack[j]
       /\ MayPrint(r, j) => MayPrint(agent[a], j)
    \/ /\ spooled'[j] + late'[j] = spooled[j] + late[j] + 1 /\ fellBack'[j] = fellBack[j]
       /\ MayPrint(agent[a], j) /\ ~MayPrint(r, j)
    \/ spooled'[j] + late'[j] = spooled[j] + late[j] /\ fellBack'[j] = fellBack[j] + 1

\* Such a step keeps the counts.
LEMMA AgentCounts ==
    ASSUME PrintInv, NEW a \in Agents, NEW r \in AgentRecord, agent' = [agent EXCEPT ![a] = r],
           UNCHANGED jobClaims,
           spooled' \in [PrintJobs -> Nat], late' \in [PrintJobs -> Nat], fellBack' \in [PrintJobs -> Nat],
           \A j \in PrintJobs : CountMoves(a, r, j)
    PROVE  PrintCounts'
<1>1. /\ agent \in [Agents -> AgentRecord] /\ jobClaims \in [PrintJobs -> Nat] /\ fellBack \in [PrintJobs -> Nat]
      /\ spooled \in [PrintJobs -> Nat] /\ late \in [PrintJobs -> Nat]
  BY PrintTypes
<1>2. \A b \in Agents : agent'[b] = IF b = a THEN r ELSE agent[b]
  BY <1>1
<1>3. ASSUME NEW j \in PrintJobs
      PROVE  /\ IsFiniteSet(PrintHolders(j)')
             /\ spooled'[j] + late'[j] + Cardinality(PrintHolders(j)') <= jobClaims[j] + fellBack'[j]
  <2>1. PICK S, T : S = PrintHolders(j) /\ T = PrintHolders(j)'
    OBVIOUS
  <2>2. /\ T \subseteq S \cup {a} /\ (a \in T <=> MayPrint(r, j)) /\ (a \in S <=> MayPrint(agent[a], j))
    BY <1>2, <2>1 DEF PrintHolders, MayPrint
  <2>3. IsFiniteSet(S) /\ spooled[j] + late[j] + Cardinality(S) <= jobClaims[j] + fellBack[j]
    BY <2>1 DEF PrintInv, PrintCounts
  <2>4. /\ IsFiniteSet(T) /\ Cardinality(S) \in Nat /\ Cardinality(T) \in Nat
        /\ Cardinality(T) <= Cardinality(S) + 1
        /\ (a \in T => a \in S) => Cardinality(T) <= Cardinality(S)
        /\ a \in S /\ a \notin T => Cardinality(T) <= Cardinality(S) - 1
    BY <2>2, <2>3, HoldersMove
  <2>5. CountMoves(a, r, j)
    OBVIOUS
  <2>6. PICK x \in Nat, y \in Nat : x = spooled[j] + late[j] /\ y = spooled'[j] + late'[j]
    BY <1>1
  <2>7. jobClaims[j] \in Nat /\ fellBack[j] \in Nat /\ fellBack'[j] \in Nat
    BY <1>1
  <2>8. y + Cardinality(T) <= jobClaims[j] + fellBack'[j]
    BY <2>2, <2>3, <2>4, <2>5, <2>6, <2>7 DEF CountMoves
  <2>9. QED
    BY <2>1, <2>4, <2>6, <2>8
<1>4. QED
  BY <1>1, <1>3 DEF PrintCounts

\* It keeps the invariant when the agent's new row works, and no count but those moves.
LEMMA AgentTurns ==
    ASSUME PrintInv, NEW a \in Agents, NEW r \in AgentRecord, agent' = [agent EXCEPT ![a] = r],
           UNCHANGED <<printer, notice, print, click, jobClaims, staled, retried>>,
           spooled' \in [PrintJobs -> Nat], late' \in [PrintJobs -> Nat], fellBack' \in [PrintJobs -> Nat],
           \A j \in PrintJobs : CountMoves(a, r, j) /\ spooled[j] <= spooled'[j],
           r.todo \subseteq agent[a].todo,
           r.at # "idle" => r.on \in PrintJobs /\ print[r.on].status # "none",
           r.at \in {"sending", "unsent", "printing"} => r.on \notin r.todo,
           r.at \in {"ok", "okRead"} => spooled'[r.on] > 0
    PROVE  PrintInv'
<1>1. /\ agent \in [Agents -> AgentRecord] /\ print \in [PrintJobs -> JobRecord] /\ spooled \in [PrintJobs -> Nat]
  BY PrintTypes
<1>2. \A b \in Agents : agent'[b] = IF b = a THEN r ELSE agent[b]
  BY <1>1
<1>3. PrintCounts'
  BY AgentCounts
<1>4. PrintTypeOK'
  <2>1. agent' \in [Agents -> AgentRecord]
    BY <1>1
  <2>2. QED
    BY <2>1 DEF PrintInv, PrintTypeOK, AgentRecord
<1>5. PrintWork'
  <2>1. ASSUME NEW b \in Agents, b # a PROVE Works(agent[b])'
    <3>1. agent'[b] = agent[b] /\ Works(agent[b])
      BY <1>2, <2>1 DEF PrintInv, PrintWork
    <3>2. agent[b].at \in {"ok", "okRead"} => spooled'[agent[b].on] > 0
      <4>1. agent[b].at \in {"ok", "okRead"} => agent[b].on \in PrintJobs /\ spooled[agent[b].on] > 0
        BY <3>1 DEF Works
      <4>2. QED
        BY <1>1, <4>1
    <3>3. QED
      BY <3>1, <3>2 DEF Works
  <2>2. Works(agent[a])
    BY DEF PrintInv, PrintWork
  <2>3. Works(agent[a])'
    BY <1>2, <2>2 DEF Works
  <2>4. \A b \in Agents : Works(agent[b])'
    BY <2>1, <2>3
  <2>5. QED
    BY <2>4 DEF PrintInv, PrintWork
<1>6. ClaimsExplained'
  BY DEF PrintInv, ClaimsExplained
<1>7. QED
  BY <1>3, <1>4, <1>5, <1>6 DEF PrintInv

\* An agent that goes on to the next job of its batch, or starts over with an error.
LEMMA GoesOn ==
    ASSUME PrintInv, NEW a \in Agents, agent[a].at # "idle", AgentNext(a) \/ NotHeard(a)
    PROVE  \E r \in AgentRecord : /\ agent' = [agent EXCEPT ![a] = r] /\ r.todo = agent[a].todo
                                  /\ r.at = "idle" \/ (r.at = "error" /\ r.on = agent[a].on)
<1>1. agent \in [Agents -> AgentRecord]
  BY PrintTypes
<1>2. CASE AgentNext(a)
  <2>1. PICK r : r = [AgentIdle EXCEPT !.todo = agent[a].todo]
    OBVIOUS
  <2>2. r \in AgentRecord /\ r.at = "idle" /\ r.todo = agent[a].todo
    BY <1>1, <2>1 DEF AgentRecord, AgentIdle, AgentAts
  <2>3. QED
    BY <1>2, <2>1, <2>2 DEF AgentNext
<1>3. CASE agent' = [agent EXCEPT ![a].at = "error", ![a].claim = 0]
  <2>1. PICK r : r = [agent[a] EXCEPT !.at = "error", !.claim = 0]
    OBVIOUS
  <2>2. r \in AgentRecord /\ r.at = "error" /\ r.on = agent[a].on /\ r.todo = agent[a].todo
    BY <1>1, <2>1 DEF AgentRecord, AgentAts
  <2>3. agent' = [agent EXCEPT ![a] = r]
    BY <1>1, <1>3, <2>1
  <2>4. QED
    BY <2>2, <2>3
<1>4. QED
  BY <1>2, <1>3 DEF NotHeard

\* Starting a job of the batch, a report read, refused or lost, and an agent that
\* dies keep the invariant.
LEMMA AgentsMoveOn ==
    ASSUME PrintInv, NEW a \in Agents,
           \/ \E j \in PrintJobs : StartPrint(a, j)
           \/ ReadForReport(a) \/ ReportLost(a)
    PROVE  PrintInv'
<1>1. /\ print \in [PrintJobs -> JobRecord] /\ agent \in [Agents -> AgentRecord]
      /\ spooled \in [PrintJobs -> Nat] /\ late \in [PrintJobs -> Nat] /\ fellBack \in [PrintJobs -> Nat]
  BY PrintTypes, SMTT(20)
<1>2. UNCHANGED <<printer, notice, print, late, click, jobClaims, spooled, staled, retried, fellBack>>
  BY DEF StartPrint, ReadForReport, ReportLost
<1>3. Works(agent[a])
  BY DEF PrintInv, PrintWork
<1>4. PICK r : /\ r \in AgentRecord /\ agent' = [agent EXCEPT ![a] = r]
               /\ r.todo \subseteq agent[a].todo
               /\ r.at \in {"sending", "printing"} => r.on \in agent[a].todo /\ r.on \notin r.todo
               /\ r.at # "unsent"
               /\ r.at # "idle" => r.on \in PrintJobs /\ (r.on \in agent[a].todo \/ (agent[a].at # "idle" /\ r.on = agent[a].on))
               /\ r.at \in {"ok", "okRead"} => agent[a].at = "ok" /\ r.on = agent[a].on
  <2>1. CASE \E j \in PrintJobs : StartPrint(a, j)
    <3>1. PICK j \in PrintJobs, at \in {"sending", "printing"} :
             /\ agent' = [agent EXCEPT ![a].todo = @ \ {j}, ![a].at = at, ![a].on = j]
             /\ j \in agent[a].todo
      BY <2>1, Zenon DEF StartPrint
    <3>2. PICK r : r = [agent[a] EXCEPT !.todo = @ \ {j}, !.at = at, !.on = j]
      OBVIOUS
    <3>3. agent' = [agent EXCEPT ![a] = r]
      BY <1>1, <3>1, <3>2
    <3>4. r \in AgentRecord /\ r.at = at /\ r.on = j /\ r.todo = agent[a].todo \ {j}
      BY <1>1, <3>2 DEF AgentRecord, AgentAts
    <3>5. QED
      BY <3>1, <3>3, <3>4
  <2>2. ASSUME NEW q \in AgentRecord, agent' = [agent EXCEPT ![a] = q], q.todo = agent[a].todo,
               q.at = "idle" \/ (q.at = "error" /\ q.on = agent[a].on), agent[a].at # "idle"
        PROVE  /\ q.todo \subseteq agent[a].todo
               /\ q.at \in {"sending", "printing"} => q.on \in agent[a].todo /\ q.on \notin q.todo
               /\ q.at # "unsent"
               /\ q.at # "idle" => q.on \in PrintJobs /\ (q.on \in agent[a].todo \/ (agent[a].at # "idle" /\ q.on = agent[a].on))
               /\ q.at \in {"ok", "okRead"} => agent[a].at = "ok" /\ q.on = agent[a].on
    BY <1>3, <2>2 DEF Works
  <2>3. CASE ReportLost(a) \/ (ReadForReport(a) /\ ~ReportAccepted(a))
    <3>1. agent[a].at # "idle" /\ NotHeard(a)
      BY <2>3 DEF ReportLost, ReadForReport
    <3>2. PICK q \in AgentRecord : /\ agent' = [agent EXCEPT ![a] = q] /\ q.todo = agent[a].todo
                                   /\ q.at = "idle" \/ (q.at = "error" /\ q.on = agent[a].on)
      BY <3>1, GoesOn
    <3>3. QED
      BY <2>2, <3>1, <3>2
  <2>4. CASE ReadForReport(a) /\ ReportAccepted(a)
    <3>1. PICK r : r = [agent[a] EXCEPT !.at = IF @ = "ok" THEN "okRead" ELSE "errorRead",
                                        !.claim = print[agent[a].on].claim]
      OBVIOUS
    <3>2. agent' = [agent EXCEPT ![a] = r] /\ agent[a].at \in {"ok", "error"}
      BY <1>1, <2>4, <3>1 DEF ReadForReport
    <3>3. agent[a].on \in PrintJobs
      BY <1>3, <3>2 DEF Works
    <3>4. r \in AgentRecord /\ r.on = agent[a].on /\ r.todo = agent[a].todo
      BY <1>1, <3>1, <3>3 DEF AgentRecord, JobRecord, AgentAts
    <3>5. r.at = IF agent[a].at = "ok" THEN "okRead" ELSE "errorRead"
      BY <1>1, <3>1 DEF AgentRecord
    <3>6. QED
      BY <3>2, <3>3, <3>4, <3>5
  <2>5. QED
    BY <2>1, <2>3, <2>4
<1>5. \A j \in PrintJobs : MayPrint(r, j) => MayPrint(agent[a], j)
  BY <1>4 DEF MayPrint
<1>6. \A j \in PrintJobs : CountMoves(a, r, j) /\ spooled[j] <= spooled'[j]
  BY <1>1, <1>2, <1>5 DEF CountMoves
<1>7. r.at # "idle" => r.on \in PrintJobs /\ print[r.on].status # "none"
  BY <1>3, <1>4 DEF Works
<1>8. r.at \in {"ok", "okRead"} => spooled'[r.on] > 0
  BY <1>2, <1>3, <1>4 DEF Works
<1>9. r.at \in {"sending", "unsent", "printing"} => r.on \notin r.todo
  BY <1>4
<1>10. QED
  BY <1>1, <1>2, <1>4, <1>6, <1>7, <1>8, <1>9, AgentTurns

\* A job that is handed over uses up the claim it was printed for.
LEMMA PaperCounted ==
    ASSUME PrintInv, NEW a \in Agents, PrintOut(a) \/ SendToAgent(a)
    PROVE  /\ PrintInv' /\ agent[a].on \in PrintJobs
           /\ spooled[agent[a].on] < jobClaims[agent[a].on] + fellBack[agent[a].on]
<1>1. /\ agent \in [Agents -> AgentRecord] /\ jobClaims \in [PrintJobs -> Nat] /\ fellBack \in [PrintJobs -> Nat]
      /\ spooled \in [PrintJobs -> Nat] /\ late \in [PrintJobs -> Nat]
  BY PrintTypes
<1>2. PICK n : n = agent[a].on
  OBVIOUS
<1>3. Works(agent[a]) /\ agent[a].at \in {"sending", "printing"}
  BY DEF PrintOut, SendToAgent, PrintInv, PrintWork
<1>4. n \in PrintJobs /\ n \notin agent[a].todo /\ print[n].status # "none"
  BY <1>2, <1>3 DEF Works
<1>5. PICK at \in {"ok", "error", "unsent"}, x \in {0, 1}, y \in {0, 1} :
         /\ agent' = [agent EXCEPT ![a].at = at] /\ x + y <= 1 /\ (at = "ok" => x = 1)
         /\ spooled' = [spooled EXCEPT ![n] = @ + x] /\ late' = [late EXCEPT ![n] = @ + y]
  <2>1. late = [late EXCEPT ![n] = @ + 0] /\ spooled = [spooled EXCEPT ![n] = @ + 0]
    BY <1>1, <1>4
  <2>2. ASSUME NEW out \in BOOLEAN, Hands(n, out)
        PROVE  \E x \in {0, 1} : spooled' = [spooled EXCEPT ![n] = @ + x] /\ (out <=> x = 1)
    <3>1. CASE out
      BY <2>2, <3>1 DEF Hands
    <3>2. CASE ~out
      <4>1. spooled' = [spooled EXCEPT ![n] = @ + 0]
        BY <1>1, <1>4, <2>1, <2>2, <3>2 DEF Hands
      <4>2. QED
        BY <3>2, <4>1
    <3>3. QED
      BY <3>1, <3>2
  <2>3. CASE PrintOut(a)
    <3>1. PICK out \in BOOLEAN, result \in {"ok", "error"} :
             agent' = [agent EXCEPT ![a].at = result] /\ Hands(n, out) /\ (result = "ok" => out)
      BY <1>2, <2>3 DEF PrintOut, Answers, BrowserAnswers
    <3>2. PICK x \in {0, 1} : spooled' = [spooled EXCEPT ![n] = @ + x] /\ (out <=> x = 1)
      BY <2>2, <3>1
    <3>3. PICK y \in {0, 1} : y = 0 /\ late' = [late EXCEPT ![n] = @ + y]
      BY <2>1, <2>3 DEF PrintOut
    <3>4. result \in {"ok", "error", "unsent"} /\ (result = "ok" => x = 1) /\ x + y <= 1
      BY <3>1, <3>2, <3>3
    <3>5. QED
      BY <3>1, <3>2, <3>3, <3>4, Zenon
  <2>4. CASE SendToAgent(a) /\ UNCHANGED spooled /\ late' = [late EXCEPT ![n] = @ + 1] /\ agent' = [agent EXCEPT ![a].at = "unsent"]
    BY <2>1, <2>4
  <2>5. CASE SendToAgent(a) /\ UNCHANGED late
             /\ \E out \in BOOLEAN : \E result \in Answers(out) :
                   agent' = [agent EXCEPT ![a].at = IF result = "ok" THEN "ok" ELSE "unsent"] /\ Hands(n, out)
    <3>1. PICK out \in BOOLEAN, at \in {"ok", "unsent"} :
             agent' = [agent EXCEPT ![a].at = at] /\ Hands(n, out) /\ (at = "ok" => out)
      BY <2>5 DEF Answers
    <3>2. PICK x \in {0, 1} : spooled' = [spooled EXCEPT ![n] = @ + x] /\ (out <=> x = 1)
      BY <2>2, <3>1
    <3>3. PICK y \in {0, 1} : y = 0 /\ late' = [late EXCEPT ![n] = @ + y]
      BY <2>1, <2>5
    <3>4. at \in {"ok", "error", "unsent"} /\ (at = "ok" => x = 1) /\ x + y <= 1
      BY <3>1, <3>2, <3>3
    <3>5. QED
      BY <3>1, <3>2, <3>3, <3>4, Zenon
  <2>6. QED
    BY <1>2, <2>3, <2>4, <2>5, Zenon DEF SendToAgent
<1>6. UNCHANGED <<printer, notice, print, click, jobClaims, staled, retried, fellBack>>
  BY DEF PrintOut, SendToAgent
<1>7. PICK r \in AgentRecord : /\ agent' = [agent EXCEPT ![a] = r] /\ r.at = at /\ r.on = n
                               /\ r.todo = agent[a].todo /\ print[n].status # "none"
  <2>1. PICK r : r = [agent[a] EXCEPT !.at = at]
    OBVIOUS
  <2>2. r \in AgentRecord /\ r.at = at /\ r.on = n /\ r.todo = agent[a].todo
    BY <1>1, <1>2, <1>5, <2>1 DEF AgentRecord, AgentAts
  <2>3. agent' = [agent EXCEPT ![a] = r]
    BY <1>1, <1>5, <2>1
  <2>4. QED
    BY <1>4, <2>2, <2>3
<1>8. \A j \in PrintJobs : /\ spooled'[j] = IF j = n THEN spooled[j] + x ELSE spooled[j]
                           /\ late'[j] = IF j = n THEN late[j] + y ELSE late[j]
  BY <1>1, <1>5
<1>9. spooled' \in [PrintJobs -> Nat] /\ late' \in [PrintJobs -> Nat]
  <2>1. spooled[n] + x \in Nat /\ late[n] + y \in Nat
    BY <1>1, <1>4
  <2>2. QED
    BY <1>1, <1>5, <2>1
<1>10. \A j \in PrintJobs : MayPrint(r, j) => MayPrint(agent[a], j) /\ j # n
  BY <1>4, <1>5, <1>7 DEF MayPrint
<1>11. MayPrint(agent[a], n) /\ ~MayPrint(r, n)
  BY <1>2, <1>3, <1>4, <1>10 DEF MayPrint
<1>12. ASSUME NEW j \in PrintJobs PROVE CountMoves(a, r, j) /\ spooled[j] <= spooled'[j]
  <2>1. spooled[j] \in Nat /\ late[j] \in Nat /\ fellBack'[j] = fellBack[j]
    BY <1>1, <1>6
  <2>2. CASE j # n
    BY <1>8, <1>10, <2>1, <2>2 DEF CountMoves
  <2>3. CASE j = n
    <3>1. spooled'[j] = spooled[j] + x /\ late'[j] = late[j] + y /\ x + y \in {0, 1}
      BY <1>5, <1>8, <2>3
    <3>2. spooled'[j] + late'[j] \in {spooled[j] + late[j], spooled[j] + late[j] + 1} /\ spooled[j] <= spooled'[j]
      BY <2>1, <3>1
    <3>3. QED
      BY <1>11, <2>1, <2>3, <3>2 DEF CountMoves
  <2>4. QED
    BY <2>2, <2>3
<1>13. r.at = "ok" => spooled'[n] > 0
  BY <1>1, <1>4, <1>5, <1>7, <1>8
<1>14. PrintInv'
  <2>1. \A j \in PrintJobs : CountMoves(a, r, j) /\ spooled[j] <= spooled'[j]
    BY <1>12
  <2>2. fellBack' \in [PrintJobs -> Nat]
    BY <1>1, <1>6
  <2>3. r.at \in {"sending", "unsent", "printing"} => r.on \notin r.todo
    BY <1>4, <1>7
  <2>4. r.at \in {"ok", "okRead"} => spooled'[r.on] > 0
    BY <1>5, <1>7, <1>13
  <2>5. QED
    BY <1>4, <1>6, <1>7, <1>9, <2>1, <2>2, <2>3, <2>4, AgentTurns
<1>15. spooled[n] < jobClaims[n] + fellBack[n]
  <2>1. PICK S : S = PrintHolders(n) /\ a \in S
    BY <1>11 DEF PrintHolders
  <2>2. IsFiniteSet(S) /\ spooled[n] + late[n] + Cardinality(S) <= jobClaims[n] + fellBack[n]
    BY <1>4, <2>1 DEF PrintInv, PrintCounts
  <2>3. Cardinality(S) \in Nat /\ Cardinality(S) # 0
    BY <2>1, <2>2, FS_CardinalityType, FS_EmptySet
  <2>4. QED
    BY <1>1, <1>4, <2>2, <2>3
<1>16. QED
  BY <1>2, <1>4, <1>14, <1>15

\* So does a send that was abandoned and comes to its end.
LEMMA LateCounted ==
    ASSUME PrintInv, NEW j \in PrintJobs, LatePrint(j)
    PROVE  PrintInv' /\ spooled[j] < jobClaims[j] + fellBack[j] /\ spooled' = [spooled EXCEPT ![j] = @ + 1]
<1>1. /\ jobClaims \in [PrintJobs -> Nat] /\ fellBack \in [PrintJobs -> Nat]
      /\ spooled \in [PrintJobs -> Nat] /\ late \in [PrintJobs -> Nat]
  BY PrintTypes
<1>2. /\ late[j] > 0 /\ late' = [late EXCEPT ![j] = @ - 1] /\ spooled' = [spooled EXCEPT ![j] = @ + 1]
      /\ UNCHANGED <<printer, notice, print, agent, click, jobClaims, staled, retried, fellBack>>
  BY DEF LatePrint, Hands
<1>3. late' \in [PrintJobs -> Nat] /\ spooled' \in [PrintJobs -> Nat]
  <2>1. late[j] - 1 \in Nat /\ spooled[j] + 1 \in Nat
    BY <1>1, <1>2
  <2>2. QED
    BY <1>1, <1>2, <2>1
<1>4. \A n \in PrintJobs : spooled'[n] + late'[n] = spooled[n] + late[n] /\ spooled[n] <= spooled'[n]
  BY <1>1, <1>2
<1>5. PrintCounts'
  <2>1. \A n \in PrintJobs : PrintHolders(n)' = PrintHolders(n)
    BY <1>2 DEF PrintHolders, MayPrint
  <2>2. QED
    BY <1>1, <1>2, <1>3, <1>4, <2>1 DEF PrintInv, PrintCounts
<1>6. PrintTypeOK'
  BY <1>2, <1>3 DEF PrintInv, PrintTypeOK
<1>7. PrintWork'
  <2>1. ASSUME NEW a \in Agents PROVE Works(agent[a])'
    <3>1. Works(agent[a])
      BY DEF PrintInv, PrintWork
    <3>2. agent[a].at \in {"ok", "okRead"} => spooled'[agent[a].on] > 0
      <4>1. agent[a].at \in {"ok", "okRead"} => agent[a].on \in PrintJobs /\ spooled[agent[a].on] > 0
        BY <3>1 DEF Works
      <4>2. QED
        BY <1>1, <1>3, <1>4, <4>1
    <3>3. QED
      BY <1>2, <3>1, <3>2 DEF Works
  <2>2. QED
    BY <1>2, <2>1 DEF PrintInv, PrintWork
<1>8. ClaimsExplained'
  BY <1>2 DEF PrintInv, ClaimsExplained
<1>9. spooled[j] < jobClaims[j] + fellBack[j]
  <2>1. PICK S : S = PrintHolders(j)
    OBVIOUS
  <2>2. IsFiniteSet(S) /\ spooled[j] + late[j] + Cardinality(S) <= jobClaims[j] + fellBack[j]
    BY <2>1 DEF PrintInv, PrintCounts
  <2>3. Cardinality(S) \in Nat
    BY <2>2, FS_CardinalityType
  <2>4. QED
    BY <1>1, <1>2, <2>2, <2>3
<1>10. QED
  BY <1>2, <1>5, <1>6, <1>7, <1>8, <1>9 DEF PrintInv

\* The browser that steps in takes the job on a second time.
LEMMA BrowserStepsIn ==
    ASSUME PrintInv, NEW a \in Agents, FallBack(a)
    PROVE  /\ PrintInv' /\ agent[a].on \in PrintJobs /\ print[agent[a].on].status # "none"
           /\ UNCHANGED fellBack \/ fellBack' = [fellBack EXCEPT ![agent[a].on] = @ + 1]
<1>1. /\ agent \in [Agents -> AgentRecord] /\ fellBack \in [PrintJobs -> Nat]
      /\ spooled \in [PrintJobs -> Nat] /\ late \in [PrintJobs -> Nat]
  BY PrintTypes
<1>2. PICK n : n = agent[a].on
  OBVIOUS
<1>3. Works(agent[a]) /\ agent[a].at = "unsent"
  BY DEF FallBack, PrintInv, PrintWork
<1>4. n \in PrintJobs /\ n \notin agent[a].todo /\ print[n].status # "none"
  BY <1>2, <1>3 DEF Works
<1>5. PICK at \in {"error", "printing"}, x \in {0, 1} :
         /\ agent' = [agent EXCEPT ![a].at = at] /\ (at = "printing" => x = 1)
         /\ fellBack' = [fellBack EXCEPT ![n] = @ + x]
         /\ UNCHANGED fellBack \/ fellBack' = [fellBack EXCEPT ![n] = @ + 1]
  <2>1. fellBack = [fellBack EXCEPT ![n] = @ + 0]
    BY <1>1, <1>4
  <2>2. QED
    BY <1>2, <2>1 DEF FallBack
<1>6. UNCHANGED <<printer, notice, print, late, click, jobClaims, spooled, staled, retried>>
  BY DEF FallBack
<1>7. PICK r \in AgentRecord : /\ agent' = [agent EXCEPT ![a] = r] /\ r.at = at /\ r.on = n /\ r.todo = agent[a].todo
  <2>1. PICK r : r = [agent[a] EXCEPT !.at = at]
    OBVIOUS
  <2>2. r \in AgentRecord /\ r.at = at /\ r.on = n /\ r.todo = agent[a].todo
    BY <1>1, <1>2, <1>5, <2>1 DEF AgentRecord, AgentAts
  <2>3. agent' = [agent EXCEPT ![a] = r]
    BY <1>1, <1>5, <2>1
  <2>4. QED
    BY <1>4, <2>2, <2>3
<1>8. \A j \in PrintJobs : fellBack'[j] = IF j = n THEN fellBack[j] + x ELSE fellBack[j]
  BY <1>1, <1>5
<1>9. fellBack' \in [PrintJobs -> Nat]
  <2>1. fellBack[n] + x \in Nat
    BY <1>1, <1>4
  <2>2. QED
    BY <1>1, <1>5, <2>1
<1>10. ASSUME NEW j \in PrintJobs PROVE CountMoves(a, r, j) /\ spooled[j] <= spooled'[j]
  <2>1. spooled[j] \in Nat /\ late[j] \in Nat /\ fellBack[j] \in Nat /\ spooled'[j] = spooled[j] /\ late'[j] = late[j]
    BY <1>1, <1>6
  <2>2. CASE j = n /\ x = 1
    BY <1>8, <2>1, <2>2 DEF CountMoves
  <2>3. CASE ~(j = n /\ x = 1)
    <3>1. fellBack'[j] = fellBack[j]
      BY <1>8, <2>1, <2>3
    <3>2. MayPrint(r, j) => MayPrint(agent[a], j)
      BY <1>5, <1>7, <2>3 DEF MayPrint
    <3>3. QED
      BY <2>1, <3>1, <3>2 DEF CountMoves
  <2>4. QED
    BY <2>2, <2>3
<1>11. PrintInv'
  <2>1. \A j \in PrintJobs : CountMoves(a, r, j) /\ spooled[j] <= spooled'[j]
    BY <1>10
  <2>2. spooled' \in [PrintJobs -> Nat] /\ late' \in [PrintJobs -> Nat]
    BY <1>1, <1>6
  <2>3. r.at \notin {"ok", "okRead"}
    BY <1>5, <1>7
  <2>4. QED
    BY <1>4, <1>6, <1>7, <1>9, <2>1, <2>2, <2>3, AgentTurns
<1>12. QED
  BY <1>2, <1>4, <1>5, <1>11

\* An agent that dies leaves what it was sending to the local agent.
LEMMA DiesKept ==
    ASSUME PrintInv, NEW a \in Agents, AgentDies(a)
    PROVE  PrintInv'
<1>1. /\ agent \in [Agents -> AgentRecord] /\ fellBack \in [PrintJobs -> Nat]
      /\ spooled \in [PrintJobs -> Nat] /\ late \in [PrintJobs -> Nat]
  BY PrintTypes
<1>2. PICK n : n = agent[a].on
  OBVIOUS
<1>3. PICK r : r = AgentIdle
  OBVIOUS
<1>4. r \in AgentRecord /\ r.at = "idle" /\ r.todo = {}
  BY <1>3 DEF AgentRecord, AgentIdle, AgentAts
<1>5. /\ agent' = [agent EXCEPT ![a] = r]
      /\ UNCHANGED <<printer, notice, print, click, jobClaims, spooled, staled, retried, fellBack>>
      /\ IF agent[a].at = "sending" THEN late' = [late EXCEPT ![n] = @ + 1] ELSE UNCHANGED late
  BY <1>2, <1>3 DEF AgentDies
<1>6. \A j \in PrintJobs : ~MayPrint(r, j)
  BY <1>4 DEF MayPrint
<1>7. spooled' \in [PrintJobs -> Nat] /\ fellBack' \in [PrintJobs -> Nat]
  BY <1>1, <1>5
<1>8. CASE agent[a].at = "sending"
  <2>1. n \in PrintJobs /\ MayPrint(agent[a], n)
    BY <1>2, <1>8 DEF PrintInv, PrintWork, Works, MayPrint
  <2>2. \A j \in PrintJobs : late'[j] = IF j = n THEN late[j] + 1 ELSE late[j]
    BY <1>1, <1>5, <1>8
  <2>3. late' \in [PrintJobs -> Nat]
    <3>1. late[n] + 1 \in Nat
      BY <1>1, <2>1
    <3>2. QED
      BY <1>1, <1>5, <1>8, <3>1
  <2>4. \A j \in PrintJobs : CountMoves(a, r, j) /\ spooled[j] <= spooled'[j]
    BY <1>1, <1>5, <1>6, <2>1, <2>2 DEF CountMoves
  <2>5. QED
    BY <1>4, <1>5, <1>7, <2>3, <2>4, AgentTurns
<1>9. CASE agent[a].at # "sending"
  <2>1. late' = late
    BY <1>5, <1>9
  <2>2. \A j \in PrintJobs : CountMoves(a, r, j) /\ spooled[j] <= spooled'[j]
    BY <1>1, <1>5, <1>6, <2>1 DEF CountMoves
  <2>3. QED
    BY <1>1, <1>4, <1>5, <1>7, <2>1, <2>2, AgentTurns
<1>10. QED
  BY <1>8, <1>9

\* A claim takes the jobs that are due for an agent that has nothing in hand.
LEMMA JobsClaimed ==
    ASSUME PrintInv, NEW a \in Agents, ClaimJobs(a)
    PROVE  PrintInv'
<1>1. /\ print \in [PrintJobs -> JobRecord] /\ agent \in [Agents -> AgentRecord]
      /\ jobClaims \in [PrintJobs -> Nat] /\ fellBack \in [PrintJobs -> Nat]
      /\ spooled \in [PrintJobs -> Nat] /\ late \in [PrintJobs -> Nat]
      /\ staled \in [PrintJobs -> Nat] /\ retried \in [PrintJobs -> Nat]
  BY PrintTypes
<1>2. PICK J \in SUBSET {j \in PrintJobs : Claimable(j) /\ jobClaims[j] < MaxHandling} :
        /\ agent[a] = AgentIdle
        /\ print' = [j \in PrintJobs |-> IF j \in J
                        THEN [status |-> "PRINTING", by |-> a, claim |-> jobClaims[j] + 1, stale |-> FALSE, old |-> FALSE]
                        ELSE print[j]]
        /\ agent' = [agent EXCEPT ![a].todo = J]
        /\ jobClaims' = [j \in PrintJobs |-> IF j \in J THEN jobClaims[j] + 1 ELSE jobClaims[j]]
  BY DEF ClaimJobs
<1>3. UNCHANGED <<printer, notice, late, click, spooled, staled, retried, fellBack>>
  BY DEF ClaimJobs
<1>4. J \in SUBSET PrintJobs /\ \A j \in J : Owed(print[j]) /\ print[j].status # "none"
  BY <1>2 DEF Claimable, Owed
<1>5. PICK r : r = [agent[a] EXCEPT !.todo = J]
  OBVIOUS
<1>6. agent[a].at = "idle" /\ agent[a].todo = {}
  BY <1>2 DEF AgentIdle
<1>7. r \in AgentRecord /\ r.at = "idle" /\ r.todo = J
  BY <1>1, <1>4, <1>5, <1>6 DEF AgentRecord
<1>8. \A b \in Agents : agent'[b] = IF b = a THEN r ELSE agent[b]
  BY <1>1, <1>2, <1>5
<1>9. jobClaims' \in [PrintJobs -> Nat]
  BY <1>1, <1>2
<1>10. ASSUME NEW j \in PrintJobs
       PROVE  /\ IsFiniteSet(PrintHolders(j)')
              /\ spooled[j] + late[j] + Cardinality(PrintHolders(j)') <= jobClaims'[j] + fellBack[j]
  <2>1. PICK S, T : S = PrintHolders(j) /\ T = PrintHolders(j)'
    OBVIOUS
  <2>2. IsFiniteSet(S) /\ spooled[j] + late[j] + Cardinality(S) <= jobClaims[j] + fellBack[j]
    BY <2>1 DEF PrintInv, PrintCounts
  <2>3. T \subseteq S \cup {a} /\ (j \notin J => a \notin T)
    BY <1>7, <1>8, <2>1 DEF PrintHolders, MayPrint
  <2>4. /\ IsFiniteSet(T) /\ Cardinality(S) \in Nat /\ Cardinality(T) \in Nat
        /\ Cardinality(T) <= Cardinality(S) + 1
        /\ j \notin J => Cardinality(T) <= Cardinality(S)
    BY <2>2, <2>3, HoldersMove
  <2>5. jobClaims'[j] = IF j \in J THEN jobClaims[j] + 1 ELSE jobClaims[j]
    BY <1>2
  <2>6. jobClaims[j] \in Nat /\ fellBack[j] \in Nat /\ spooled[j] \in Nat /\ late[j] \in Nat
    BY <1>1
  <2>7. spooled[j] + late[j] + Cardinality(T) <= jobClaims'[j] + fellBack[j]
    BY <2>2, <2>4, <2>5, <2>6
  <2>8. QED
    BY <2>1, <2>4, <2>7
<1>11. PrintCounts'
  BY <1>1, <1>3, <1>9, <1>10 DEF PrintCounts
<1>12. \A j \in PrintJobs : /\ j \in J => print'[j] \in JobRecord /\ print'[j].status = "PRINTING" /\ ~print'[j].stale
                            /\ j \notin J => print'[j] = print[j]
  BY <1>1, <1>2 DEF JobRecord
<1>13. PrintTypeOK'
  <2>1. print' \in [PrintJobs -> JobRecord]
    BY <1>1, <1>2, <1>12
  <2>2. agent' \in [Agents -> AgentRecord]
    BY <1>1, <1>2, <1>7, <1>8
  <2>3. QED
    BY <1>3, <2>1, <2>2 DEF PrintInv, PrintTypeOK, AgentRecord, JobRecord
<1>14. PrintWork'
  <2>1. \A j \in PrintJobs : print[j].status # "none" => print'[j].status # "none"
    BY <1>12
  <2>2. \A c \in Clicks : click[c] # "none" => print'[click[c]].status # "none"
    BY <2>1 DEF PrintInv, PrintWork, PrintTypeOK
  <2>3. ASSUME NEW b \in Agents, b # a PROVE Works(agent[b])'
    <3>1. agent'[b] = agent[b] /\ Works(agent[b]) /\ agent[b].todo \subseteq PrintJobs
      BY <1>1, <1>8, <2>3 DEF PrintInv, PrintWork, AgentRecord
    <3>2. QED
      BY <1>3, <2>1, <3>1 DEF Works
  <2>4. Works(agent[a])'
    <3>1. \A j \in J : print'[j].status # "none"
      BY <1>4, <1>12
    <3>2. QED
      BY <1>7, <1>8, <3>1 DEF Works
  <2>5. \A b \in Agents : Works(agent[b])'
    BY <2>3, <2>4
  <2>6. QED
    BY <1>3, <2>2, <2>5 DEF PrintWork
<1>15. ClaimsExplained'
  <2>1. ASSUME NEW j \in PrintJobs
        PROVE  jobClaims'[j] + (IF Owed(print'[j]) THEN 1 ELSE 0) <= 1 + staled[j] + retried[j]
    <3>1. jobClaims[j] + (IF Owed(print[j]) THEN 1 ELSE 0) <= 1 + staled[j] + retried[j]
      BY DEF PrintInv, ClaimsExplained
    <3>2. jobClaims'[j] = IF j \in J THEN jobClaims[j] + 1 ELSE jobClaims[j]
      BY <1>2
    <3>3. j \in J => Owed(print[j]) /\ ~Owed(print'[j])
      BY <1>4, <1>12 DEF Owed
    <3>4. QED
      BY <1>1, <1>12, <3>1, <3>2, <3>3
  <2>2. QED
    BY <1>1, <1>3, <2>1 DEF ClaimsExplained
<1>16. QED
  BY <1>11, <1>13, <1>14, <1>15 DEF PrintInv

\* Rewriting one job keeps the invariant when the job gains no claim that is not
\* explained, retries end or begin at existing jobs, and no agent moves on to more.
LEMMA JobRewritten ==
    ASSUME PrintInv, NEW j \in PrintJobs, NEW r \in JobRecord, print' = [print EXCEPT ![j] = r],
           UNCHANGED <<late, jobClaims, spooled, fellBack>>, PrintCounts',
           printer' \in {"active", "disabled", "gone"}, notice' \subseteq Tickets,
           agent' \in [Agents -> AgentRecord],
           \A a \in Agents : \/ agent'[a] = agent[a]
                             \/ agent'[a].todo = agent[a].todo /\ agent'[a].at = "idle"
                             \/ /\ agent'[a].todo = agent[a].todo /\ agent'[a].at = "error"
                                /\ agent[a].at # "idle" /\ agent'[a].on = agent[a].on,
           click' \in [Clicks -> PrintJobs \cup {"none"}], \A c \in Clicks : click'[c] \in {click[c], "none"},
           r.status = "none" => print[j].status = "none",
           \/ UNCHANGED <<staled, retried>> /\ (Owed(r) => Owed(print[j]))
           \/ staled' = [staled EXCEPT ![j] = @ + 1] /\ UNCHANGED retried
           \/ retried' = [retried EXCEPT ![j] = @ + 1] /\ UNCHANGED staled
    PROVE  PrintInv'
<1>1. /\ print \in [PrintJobs -> JobRecord] /\ jobClaims \in [PrintJobs -> Nat]
      /\ staled \in [PrintJobs -> Nat] /\ retried \in [PrintJobs -> Nat]
      /\ click \in [Clicks -> PrintJobs \cup {"none"}]
  BY PrintTypes
<1>2. \A x \in PrintJobs : print'[x] = IF x = j THEN r ELSE print[x]
  BY <1>1
<1>3. PrintTypeOK'
  <2>1. print' \in [PrintJobs -> JobRecord]
    BY <1>1
  <2>2. QED
    BY <2>1, PrintTypes DEF PrintTypeOK, JobRecord, AgentRecord
<1>4. PrintWork'
  <2>1. \A x \in PrintJobs : print[x].status # "none" => print'[x].status # "none"
    BY <1>2
  <2>2. \A c \in Clicks : click[c] # "none" => print[click[c]].status # "none"
    BY DEF PrintInv, PrintWork
  <2>3. \A c \in Clicks : click'[c] # "none" => print'[click'[c]].status # "none"
    BY <1>1, <2>1, <2>2
  <2>4. ASSUME NEW a \in Agents PROVE Works(agent[a])'
    <3>1. Works(agent[a]) /\ agent[a].todo \subseteq PrintJobs
      BY PrintTypes DEF PrintInv, PrintWork, AgentRecord
    <3>2. QED
      BY <2>1, <3>1 DEF Works
  <2>5. QED
    BY <2>3, <2>4 DEF PrintWork
<1>5. ClaimsExplained'
  <2>1. staled' \in [PrintJobs -> Nat] /\ retried' \in [PrintJobs -> Nat]
    BY <1>1
  <2>2. ASSUME NEW x \in PrintJobs
        PROVE  jobClaims[x] + (IF Owed(print'[x]) THEN 1 ELSE 0) <= 1 + staled'[x] + retried'[x]
    <3>1. jobClaims[x] + (IF Owed(print[x]) THEN 1 ELSE 0) <= 1 + staled[x] + retried[x]
      BY DEF PrintInv, ClaimsExplained
    <3>2. CASE x # j
      BY <1>1, <1>2, <3>1, <3>2
    <3>3. CASE x = j
      <4>1. \/ staled'[j] = staled[j] /\ retried'[j] = retried[j] /\ (Owed(r) => Owed(print[j]))
            \/ staled'[j] = staled[j] + 1 /\ retried'[j] = retried[j]
            \/ staled'[j] = staled[j] /\ retried'[j] = retried[j] + 1
        BY <1>1
      <4>2. print'[x] = r
        BY <1>2, <3>3
      <4>3. QED
        BY <1>1, <3>1, <3>3, <4>1, <4>2
    <3>4. QED
      BY <3>2, <3>3
  <2>3. QED
    BY <2>1, <2>2 DEF ClaimsExplained
<1>6. QED
  BY <1>3, <1>4, <1>5 DEF PrintInv

\* The counts are kept when neither agents nor counts change.
LEMMA CountsStay ==
    ASSUME PrintInv, UNCHANGED <<agent, late, jobClaims, spooled, fellBack>>
    PROVE  PrintCounts'
BY DEF PrintInv, PrintCounts, PrintHolders, MayPrint

\* Orders, requests, ageing, cancelling and retrying keep the invariant.
LEMMA JobRowsKept ==
    ASSUME PrintInv,
           \/ \E j \in Tickets : OnOrderEvent(j) \/ EnqueueTicket(j)
           \/ \E j \in Asked : AskForPrint(j)
           \/ \E j \in PrintJobs : ClaimGoesStale(j) \/ JobAges(j) \/ CancelJob(j)
           \/ \E c \in Clicks : RetryJob(c) \/ \E j \in PrintJobs : ReadForRetry(c, j)
           \/ UpdatePrinter
    PROVE  PrintInv'
<1>1. /\ print \in [PrintJobs -> JobRecord] /\ agent \in [Agents -> AgentRecord]
      /\ click \in [Clicks -> PrintJobs \cup {"none"}]
      /\ staled \in [PrintJobs -> Nat] /\ retried \in [PrintJobs -> Nat]
      /\ Tickets \subseteq PrintJobs /\ Asked \subseteq PrintJobs
  BY PrintTypes
<1>2. /\ UNCHANGED <<agent, late, jobClaims, spooled, fellBack>> /\ PrintCounts'
  <2>1. UNCHANGED <<agent, late, jobClaims, spooled, fellBack>>
    BY DEF OnOrderEvent, EnqueueTicket, AskForPrint, ClaimGoesStale, JobAges, CancelJob, RetryJob, ReadForRetry, UpdatePrinter
  <2>2. QED
    BY <2>1, CountsStay
<1>3. printer \in {"active", "disabled", "gone"} /\ notice \subseteq Tickets
  BY DEF PrintInv, PrintTypeOK
<1>4. CASE \/ UpdatePrinter
           \/ \E j \in Tickets : OnOrderEvent(j) \/ (EnqueueTicket(j) /\ UNCHANGED print)
  <2>1. /\ UNCHANGED <<print, click, staled, retried>>
        /\ printer' \in {"active", "disabled", "gone"} /\ notice' \subseteq Tickets
    BY <1>3, <1>4 DEF UpdatePrinter, OnOrderEvent, EnqueueTicket
  <2>2. QED
    BY <1>2, <2>1 DEF PrintInv, PrintTypeOK, PrintWork, Works, ClaimsExplained
<1>5. CASE \E c \in Clicks, j \in PrintJobs : ReadForRetry(c, j)
  <2>1. PICK c \in Clicks, j \in PrintJobs : ReadForRetry(c, j)
    BY <1>5
  <2>2. UNCHANGED <<printer, notice, print, staled, retried>> /\ print[j].status # "none"
    BY <2>1 DEF ReadForRetry
  <2>3. \A d \in Clicks : click'[d] = IF d = c THEN j ELSE click[d]
    BY <1>1, <2>1 DEF ReadForRetry
  <2>4. click' \in [Clicks -> PrintJobs \cup {"none"}]
    BY <1>1, <2>1 DEF ReadForRetry
  <2>5. QED
    BY <1>2, <2>2, <2>3, <2>4 DEF PrintInv, PrintTypeOK, PrintWork, Works, ClaimsExplained
<1>6. ASSUME NEW j \in PrintJobs, NewJob(j), print[j].status = "none", notice' \subseteq Tickets,
             UNCHANGED <<printer, click, staled, retried>>
      PROVE  PrintInv'
  <2>1. PICK r : r = [NoJob EXCEPT !.status = "QUEUED"]
    OBVIOUS
  <2>2. r \in JobRecord /\ r.status = "QUEUED" /\ print' = [print EXCEPT ![j] = r]
    BY <1>6, <2>1 DEF NoJob, JobRecord, NewJob
  <2>3. Owed(print[j])
    BY <1>6 DEF Owed
  <2>4. QED
    BY <1>1, <1>2, <1>3, <1>6, <2>2, <2>3, JobRewritten
<1>7. CASE \/ \E j \in Tickets : EnqueueTicket(j) /\ ~UNCHANGED print
           \/ \E j \in Asked : AskForPrint(j)
  BY <1>1, <1>3, <1>6, <1>7 DEF EnqueueTicket, AskForPrint
<1>8. CASE \E j \in PrintJobs : ClaimGoesStale(j)
  <2>1. PICK j \in PrintJobs : ClaimGoesStale(j)
    BY <1>8
  <2>2. UNCHANGED <<printer, notice, click, retried>> /\ staled' = [staled EXCEPT ![j] = @ + 1]
    BY <2>1 DEF ClaimGoesStale
  <2>3. PICK r : r = [print[j] EXCEPT !.stale = TRUE]
    OBVIOUS
  <2>4. r \in JobRecord /\ r.status = print[j].status /\ print' = [print EXCEPT ![j] = r]
    BY <1>1, <2>1, <2>3 DEF JobRecord, ClaimGoesStale
  <2>5. QED
    BY <1>1, <1>2, <1>3, <2>2, <2>4, JobRewritten
<1>9. CASE \E j \in PrintJobs : JobAges(j)
  <2>1. PICK j \in PrintJobs : JobAges(j)
    BY <1>9
  <2>2. UNCHANGED <<printer, notice, click, staled, retried>>
    BY <2>1 DEF JobAges
  <2>3. PICK r : r = [print[j] EXCEPT !.old = TRUE]
    OBVIOUS
  <2>4. r \in JobRecord /\ r.status = print[j].status /\ r.stale = print[j].stale /\ print' = [print EXCEPT ![j] = r]
    BY <1>1, <2>1, <2>3 DEF JobRecord, JobAges
  <2>5. Owed(r) => Owed(print[j])
    BY <2>4 DEF Owed
  <2>6. QED
    BY <1>1, <1>2, <1>3, <2>2, <2>4, <2>5, JobRewritten
<1>10. CASE \E j \in PrintJobs : CancelJob(j)
  <2>1. PICK j \in PrintJobs : CancelJob(j)
    BY <1>10
  <2>2. UNCHANGED <<printer, notice, click, staled, retried>>
    BY <2>1 DEF CancelJob
  <2>3. PICK r : r = [print[j] EXCEPT !.status = "CANCELLED"]
    OBVIOUS
  <2>4. r \in JobRecord /\ r.status = "CANCELLED" /\ print' = [print EXCEPT ![j] = r]
    BY <1>1, <2>1, <2>3 DEF JobRecord, CancelJob
  <2>5. ~Owed(r)
    BY <2>4 DEF Owed
  <2>6. QED
    BY <1>1, <1>2, <1>3, <2>2, <2>4, <2>5, JobRewritten
<1>11. CASE \E c \in Clicks : RetryJob(c)
  <2>1. PICK c \in Clicks : RetryJob(c)
    BY <1>11
  <2>2. PICK j : j = click[c]
    OBVIOUS
  <2>3. j \in PrintJobs
    BY <1>1, <2>1, <2>2 DEF RetryJob
  <2>4. PICK r : r = [print[j] EXCEPT !.status = "QUEUED", !.by = "none", !.claim = 0, !.stale = FALSE]
    OBVIOUS
  <2>5. r \in JobRecord /\ r.status = "QUEUED"
    BY <1>1, <2>3, <2>4, ZenonT(30) DEF JobRecord
  <2>6. print' = [print EXCEPT ![j] = r]
    BY <1>1, <2>1, <2>2, <2>3, <2>4 DEF RetryJob
  <2>7. retried' = [retried EXCEPT ![j] = @ + 1] /\ UNCHANGED <<printer, notice, staled>>
    BY <2>1, <2>2 DEF RetryJob
  <2>8. click' \in [Clicks -> PrintJobs \cup {"none"}] /\ \A d \in Clicks : click'[d] \in {click[d], "none"}
    BY <1>1, <2>1 DEF RetryJob
  <2>9. QED
    BY <1>1, <1>2, <1>3, <2>3, <2>5, <2>6, <2>7, <2>8, JobRewritten
<1>12. QED
  BY <1>4, <1>5, <1>7, <1>8, <1>9, <1>10, <1>11

\* A report is written under the claim it was read for.
LEMMA ReportWritten ==
    ASSUME PrintInv, NEW a \in Agents, WriteReport(a)
    PROVE  PrintInv'
<1>1. /\ print \in [PrintJobs -> JobRecord] /\ agent \in [Agents -> AgentRecord]
      /\ click \in [Clicks -> PrintJobs \cup {"none"}]
  BY PrintTypes
<1>2. printer \in {"active", "disabled", "gone"} /\ notice \subseteq Tickets
  BY DEF PrintInv, PrintTypeOK
<1>3. /\ UNCHANGED <<printer, notice, late, click, jobClaims, spooled, staled, retried, fellBack>>
      /\ agent[a].at \in {"okRead", "errorRead"} /\ (AgentNext(a) \/ NotHeard(a))
  BY DEF WriteReport
<1>4. PICK n : n = agent[a].on
  OBVIOUS
<1>5. n \in PrintJobs
  BY <1>3, <1>4 DEF PrintInv, PrintWork, Works
<1>6. agent[a].at # "idle"
  BY <1>3
<1>7. PICK q \in AgentRecord : /\ agent' = [agent EXCEPT ![a] = q] /\ q.todo = agent[a].todo
                               /\ q.at = "idle" \/ (q.at = "error" /\ q.on = agent[a].on)
  BY <1>3, <1>6, GoesOn
<1>8. \A j \in PrintJobs : CountMoves(a, q, j)
  BY <1>3, <1>7 DEF CountMoves, MayPrint
<1>9. PrintCounts'
  <2>1. spooled' \in [PrintJobs -> Nat] /\ late' \in [PrintJobs -> Nat] /\ fellBack' \in [PrintJobs -> Nat]
    BY <1>3, PrintTypes
  <2>2. QED
    BY <1>3, <1>7, <1>8, <2>1, AgentCounts
<1>10. /\ agent' \in [Agents -> AgentRecord]
       /\ \A b \in Agents : \/ agent'[b] = agent[b]
                            \/ agent'[b].todo = agent[b].todo /\ agent'[b].at = "idle"
                            \/ /\ agent'[b].todo = agent[b].todo /\ agent'[b].at = "error"
                               /\ agent[b].at # "idle" /\ agent'[b].on = agent[b].on
  BY <1>1, <1>6, <1>7
<1>11. PICK r : /\ r \in JobRecord /\ print' = [print EXCEPT ![n] = r]
                /\ r = print[n] \/ r.status \in {"PRINTED", "FAILED"}
  <2>1. CASE UNCHANGED print
    BY <1>1, <1>5, <2>1
  <2>2. CASE ~UNCHANGED print
    <3>1. PICK s \in {"PRINTED", "FAILED"} : print' = [print EXCEPT ![n].status = s]
      BY <1>4, <2>2 DEF WriteReport
    <3>2. PICK r : r = [print[n] EXCEPT !.status = s]
      OBVIOUS
    <3>3. r \in JobRecord /\ r.status = s
      BY <1>1, <1>5, <3>2 DEF JobRecord
    <3>4. print' = [print EXCEPT ![n] = r]
      BY <1>1, <3>1, <3>2
    <3>5. QED
      BY <3>3, <3>4
  <2>3. QED
    BY <2>1, <2>2
<1>12. /\ r.status = "none" => print[n].status = "none"
       /\ Owed(r) => Owed(print[n])
  BY <1>11 DEF Owed
<1>13. QED
  BY <1>1, <1>2, <1>3, <1>5, <1>9, <1>10, <1>11, <1>12, JobRewritten

\* Removing the printer cancels its open jobs.
LEMMA PrinterRemoved ==
    ASSUME PrintInv, DeletePrinter
    PROVE  PrintInv'
<1>1. print \in [PrintJobs -> JobRecord] /\ click \in [Clicks -> PrintJobs \cup {"none"}]
      /\ jobClaims \in [PrintJobs -> Nat] /\ staled \in [PrintJobs -> Nat] /\ retried \in [PrintJobs -> Nat]
  BY PrintTypes
<1>2. UNCHANGED <<notice, agent, late, click, jobClaims, spooled, staled, retried, fellBack>> /\ printer' = "gone"
  BY DEF DeletePrinter
<1>3. \A j \in PrintJobs : /\ print'[j] \in JobRecord
                           /\ print'[j] = print[j] \/ print'[j].status = "CANCELLED"
  BY <1>1 DEF DeletePrinter, JobRecord
<1>4. \A j \in PrintJobs : /\ print[j].status # "none" => print'[j].status # "none"
                           /\ Owed(print'[j]) => Owed(print[j])
  BY <1>3 DEF Owed
<1>5. PrintCounts'
  BY <1>2, CountsStay
<1>6. PrintTypeOK'
  <2>1. print' \in [PrintJobs -> JobRecord]
    BY <1>3 DEF DeletePrinter
  <2>2. QED
    BY <1>2, <2>1 DEF PrintInv, PrintTypeOK, JobRecord
<1>7. PrintWork'
  <2>1. ASSUME NEW a \in Agents PROVE Works(agent[a])'
    <3>1. Works(agent[a]) /\ agent[a].todo \subseteq PrintJobs
      BY PrintTypes DEF PrintInv, PrintWork, AgentRecord
    <3>2. QED
      BY <1>2, <1>4, <3>1 DEF Works
  <2>2. QED
    BY <1>1, <1>2, <1>4, <2>1 DEF PrintInv, PrintWork
<1>8. ClaimsExplained'
  <2>1. ASSUME NEW j \in PrintJobs
        PROVE  jobClaims[j] + (IF Owed(print'[j]) THEN 1 ELSE 0) <= 1 + staled[j] + retried[j]
    <3>1. jobClaims[j] + (IF Owed(print[j]) THEN 1 ELSE 0) <= 1 + staled[j] + retried[j]
      BY DEF PrintInv, ClaimsExplained
    <3>2. QED
      BY <1>1, <1>4, <3>1
  <2>2. QED
    BY <1>1, <1>2, <2>1 DEF ClaimsExplained
<1>9. QED
  BY <1>5, <1>6, <1>7, <1>8 DEF PrintInv

\* PrintInv holds at the start.
LEMMA PrintStarts == PrintInit => PrintInv
<1> SUFFICES ASSUME PrintInit PROVE PrintInv
  OBVIOUS
<1>1. NoJob \in JobRecord /\ NoJob.status = "none" /\ AgentIdle \in AgentRecord /\ AgentIdle.at = "idle" /\ AgentIdle.todo = {}
  BY DEF NoJob, AgentIdle, JobRecord, AgentRecord, AgentAts
<1>2. PrintTypeOK
  BY <1>1 DEF PrintInit, PrintTypeOK, JobRecord, AgentRecord
<1>3. \A j \in PrintJobs : PrintHolders(j) = {}
  BY <1>1 DEF PrintInit, PrintHolders, MayPrint
<1>4. PrintCounts
  BY <1>3, FS_EmptySet DEF PrintInit, PrintCounts
<1>5. PrintWork /\ ClaimsExplained
  BY <1>1 DEF PrintInit, PrintWork, Works, ClaimsExplained
<1>6. QED
  BY <1>2, <1>4, <1>5 DEF PrintInv

\* PrintInv is inductive.
LEMMA PrintStep == PrintInv /\ [PrintNext]_printVars => PrintInv'
<1> SUFFICES ASSUME PrintInv, [PrintNext]_printVars PROVE PrintInv'
  OBVIOUS
<1>1. CASE UNCHANGED printVars
  BY <1>1 DEF PrintInv, PrintTypeOK, PrintCounts, PrintHolders, MayPrint, PrintWork, Works, ClaimsExplained, printVars
<1>2. CASE PrintNext
  BY <1>2, AgentsMoveOn, PaperCounted, LateCounted, BrowserStepsIn, DiesKept, JobsClaimed, JobRowsKept, ReportWritten,
     PrinterRemoved DEF PrintNext
<1>3. QED
  BY <1>1, <1>2

\* the queue's state for a status of print_jobs
PrintStateOf(s) ==
    IF s = "none" THEN "absent"
    ELSE IF s \in {"QUEUED", "PRINTING"} THEN "open"
    ELSE IF s = "PRINTED" THEN "done" ELSE "failed"

PrintStates == [j \in PrintJobs |-> PrintState(j)]
PrintTaken == [j \in PrintJobs |-> jobClaims[j] + fellBack[j]]

\* PrintState depends on the status alone, now and after a step.
LEMMA PrintStatus ==
    /\ \A j \in PrintJobs : PrintStates[j] = PrintStateOf(print[j].status)
    /\ \A j \in PrintJobs : PrintStates'[j] = PrintStateOf(print'[j].status)
    /\ PrintStates = [j \in PrintJobs |-> PrintStates[j]] /\ PrintStates' = [j \in PrintJobs |-> PrintStates'[j]]
BY DEF PrintStates, PrintState, PrintStateOf

\* A step that changes no status and no count is a stutter of the queue.
LEMMA PrintStutters ==
    ASSUME \A j \in PrintJobs : PrintStateOf(print'[j].status) = PrintStateOf(print[j].status),
           UNCHANGED <<jobClaims, fellBack, spooled>>
    PROVE  UNCHANGED PrintQueue!queueVars
<1>1. PrintStates' = PrintStates
  BY PrintStatus
<1>2. QED
  BY <1>1 DEF PrintQueue!queueVars, PrintStates

\* Rewriting one job changes the queue's state of that job alone.
LEMMA PrintRewrites ==
    ASSUME PrintInv, NEW j \in PrintJobs, NEW r, print' = [print EXCEPT ![j] = r]
    PROVE  PrintStates' = [PrintStates EXCEPT ![j] = PrintStateOf(r.status)]
<1>1. \A x \in PrintJobs : print'[x] = IF x = j THEN r ELSE print[x]
  BY PrintTypes
<1>2. \A x \in PrintJobs : PrintStates'[x] = IF x = j THEN PrintStateOf(r.status) ELSE PrintStates[x]
  BY <1>1, PrintStatus
<1>3. QED
  BY <1>2, PrintStatus

\* The queue's actions on one job, in terms of PrintStates.
LEMMA PrintQueueActions ==
    ASSUME NEW j \in PrintJobs,
           \/ /\ PrintStates[j] = "absent" /\ PrintStates' = [PrintStates EXCEPT ![j] = "open"]
              /\ UNCHANGED <<PrintTaken, spooled>>
           \/ /\ spooled[j] < PrintTaken[j] /\ spooled' = [spooled EXCEPT ![j] = @ + 1]
              /\ UNCHANGED <<PrintStates, PrintTaken>>
           \/ /\ spooled[j] > 0 /\ PrintStates' = [PrintStates EXCEPT ![j] = "done"]
              /\ UNCHANGED <<PrintTaken, spooled>>
           \/ /\ PrintStates[j] \notin {"absent", "refused"}
              /\ \E s \in {"open", "failed"} : PrintStates' = [PrintStates EXCEPT ![j] = s]
              /\ UNCHANGED <<PrintTaken, spooled>>
    PROVE  PrintQueue!QueueNext
<1>1. \/ PrintQueue!Submit(j) \/ PrintQueue!HandOver(j) \/ PrintQueue!ReportDone(j) \/ PrintQueue!Settle(j)
  BY DEF PrintQueue!Submit, PrintQueue!HandOver, PrintQueue!ReportDone, PrintQueue!Settle, PrintStates, PrintTaken
<1>2. QED
  BY <1>1 DEF PrintQueue!QueueNext

\* A step that takes the jobs of J changes no other count and no state of the queue.
LEMMA PrintTakes ==
    ASSUME NEW J \in SUBSET PrintJobs, \A j \in J : PrintStates[j] \notin {"absent", "refused"},
           UNCHANGED <<PrintStates, spooled>>,
           PrintTaken' = [j \in PrintJobs |-> IF j \in J THEN PrintTaken[j] + 1 ELSE PrintTaken[j]]
    PROVE  PrintQueue!QueueNext
<1>1. PICK O \in SUBSET J : O = {}
  OBVIOUS
<1>2. PrintStates' = [j \in PrintJobs |-> IF j \in O THEN "open" ELSE PrintStates[j]]
  BY <1>1, PrintStatus
<1>3. PrintQueue!TakeJobs(J)
  BY <1>2 DEF PrintQueue!TakeJobs, PrintStates, PrintTaken
<1>4. QED
  BY <1>3 DEF PrintQueue!QueueNext

\* Every step on print jobs is a step or a stutter of the queue.
LEMMA PrintRefines ==
    ASSUME PrintInv, PrintNext
    PROVE  [PrintQueue!QueueNext]_(PrintQueue!queueVars)
<1>1. /\ print \in [PrintJobs -> JobRecord] /\ agent \in [Agents -> AgentRecord]
      /\ click \in [Clicks -> PrintJobs \cup {"none"}]
      /\ jobClaims \in [PrintJobs -> Nat] /\ fellBack \in [PrintJobs -> Nat] /\ spooled \in [PrintJobs -> Nat]
      /\ Tickets \subseteq PrintJobs /\ Asked \subseteq PrintJobs
  BY PrintTypes
<1>2. CASE \/ UpdatePrinter \/ \E j \in Tickets : OnOrderEvent(j) \/ (EnqueueTicket(j) /\ UNCHANGED print)
           \/ \E c \in Clicks, j \in PrintJobs : ReadForRetry(c, j)
           \/ \E a \in Agents : \/ ReadForReport(a) \/ ReportLost(a) \/ AgentDies(a)
                                \/ \E j \in PrintJobs : StartPrint(a, j)
  <2>1. UNCHANGED <<print, jobClaims, fellBack, spooled>>
    BY <1>2 DEF UpdatePrinter, OnOrderEvent, EnqueueTicket, ReadForRetry, ReadForReport, ReportLost, AgentDies, StartPrint
  <2>2. QED
    BY <2>1, PrintStutters
<1>3. ASSUME NEW j \in PrintJobs, ClaimGoesStale(j) \/ JobAges(j) PROVE UNCHANGED PrintQueue!queueVars
  <2>1. \A x \in PrintJobs : print'[x].status = print[x].status
    <3>1. PICK r : print' = [print EXCEPT ![j] = r] /\ r.status = print[j].status
      <4>1. CASE ClaimGoesStale(j)
        <5>1. PICK r : r = [print[j] EXCEPT !.stale = TRUE]
          OBVIOUS
        <5>2. r.status = print[j].status /\ print' = [print EXCEPT ![j] = r]
          BY <1>1, <4>1, <5>1 DEF ClaimGoesStale, JobRecord
        <5>3. QED
          BY <5>2
      <4>2. CASE JobAges(j)
        <5>1. PICK r : r = [print[j] EXCEPT !.old = TRUE]
          OBVIOUS
        <5>2. r.status = print[j].status /\ print' = [print EXCEPT ![j] = r]
          BY <1>1, <4>2, <5>1 DEF JobAges, JobRecord
        <5>3. QED
          BY <5>2
      <4>3. QED
        BY <1>3, <4>1, <4>2
    <3>2. QED
      BY <1>1, <3>1
  <2>2. UNCHANGED <<jobClaims, fellBack, spooled>>
    BY <1>3 DEF ClaimGoesStale, JobAges
  <2>3. QED
    BY <2>1, <2>2, PrintStutters
<1>4. ASSUME NEW j \in PrintJobs, NewJob(j), print[j].status = "none", UNCHANGED <<jobClaims, fellBack, spooled>>
      PROVE  PrintQueue!QueueNext
  <2>1. PICK r : r = [NoJob EXCEPT !.status = "QUEUED"]
    OBVIOUS
  <2>2. r.status = "QUEUED" /\ print' = [print EXCEPT ![j] = r]
    BY <1>4, <2>1 DEF NoJob, NewJob
  <2>3. PrintStates' = [PrintStates EXCEPT ![j] = PrintStateOf(r.status)]
    BY <2>2, PrintRewrites
  <2>4. PrintStateOf(r.status) = "open" /\ PrintStates[j] = "absent"
    BY <1>4, <2>2, PrintStatus DEF PrintStateOf
  <2>5. QED
    BY <1>4, <2>3, <2>4, PrintQueueActions DEF PrintTaken
<1>5. CASE \/ \E j \in Tickets : EnqueueTicket(j) /\ ~UNCHANGED print
           \/ \E j \in Asked : AskForPrint(j)
  BY <1>1, <1>4, <1>5 DEF EnqueueTicket, AskForPrint
<1>6. ASSUME NEW j \in PrintJobs, CancelJob(j) PROVE PrintQueue!QueueNext
  <2>1. PICK r : r = [print[j] EXCEPT !.status = "CANCELLED"]
    OBVIOUS
  <2>2. r.status = "CANCELLED" /\ print' = [print EXCEPT ![j] = r]
    BY <1>1, <1>6, <2>1 DEF CancelJob, JobRecord
  <2>3. PrintStates' = [PrintStates EXCEPT ![j] = PrintStateOf(r.status)]
    BY <2>2, PrintRewrites
  <2>4. PrintStateOf(r.status) = "failed" /\ PrintStates[j] \notin {"absent", "refused"}
    BY <1>6, <2>2, PrintStatus DEF PrintStateOf, CancelJob
  <2>5. UNCHANGED <<jobClaims, fellBack, spooled>>
    BY <1>6 DEF CancelJob
  <2>6. QED
    BY <2>3, <2>4, <2>5, PrintQueueActions DEF PrintTaken
<1>7. ASSUME NEW c \in Clicks, RetryJob(c) PROVE PrintQueue!QueueNext
  <2>1. PICK j : j = click[c]
    OBVIOUS
  <2>2. j \in PrintJobs /\ print[j].status # "none" /\ UNCHANGED <<jobClaims, fellBack, spooled>>
    BY <1>1, <1>7, <2>1 DEF RetryJob, PrintInv, PrintWork
  <2>3. PICK r : r = [print[j] EXCEPT !.status = "QUEUED", !.by = "none", !.claim = 0, !.stale = FALSE]
    OBVIOUS
  <2>4. r.status = "QUEUED"
    BY <1>1, <2>2, <2>3 DEF JobRecord
  <2>5. print' = [print EXCEPT ![j] = r]
    BY <1>1, <1>7, <2>1, <2>2, <2>3 DEF RetryJob
  <2>6. PrintStates' = [PrintStates EXCEPT ![j] = PrintStateOf(r.status)]
    BY <2>2, <2>5, PrintRewrites
  <2>7. PrintStateOf(r.status) = "open" /\ PrintStates[j] \notin {"absent", "refused"}
    BY <2>2, <2>4, PrintStatus DEF PrintStateOf
  <2>8. QED
    BY <2>2, <2>6, <2>7, PrintQueueActions DEF PrintTaken
<1>8. ASSUME NEW a \in Agents, ClaimJobs(a) PROVE PrintQueue!QueueNext
  <2>1. PICK J \in SUBSET {j \in PrintJobs : Claimable(j) /\ jobClaims[j] < MaxHandling} :
           /\ jobClaims' = [j \in PrintJobs |-> IF j \in J THEN jobClaims[j] + 1 ELSE jobClaims[j]]
           /\ print' = [j \in PrintJobs |-> IF j \in J
                           THEN [status |-> "PRINTING", by |-> a, claim |-> jobClaims[j] + 1, stale |-> FALSE, old |-> FALSE]
                           ELSE print[j]]
    BY <1>8 DEF ClaimJobs
  <2>2. J \in SUBSET PrintJobs /\ \A j \in J : print[j].status \in {"QUEUED", "PRINTING"}
    BY <2>1 DEF Claimable
  <2>3. UNCHANGED <<fellBack, spooled>>
    BY <1>8 DEF ClaimJobs
  <2>4. \A j \in PrintJobs : print'[j].status = IF j \in J THEN "PRINTING" ELSE print[j].status
    BY <2>1
  <2>5. \A j \in PrintJobs : PrintStates'[j] = PrintStates[j]
    BY <2>2, <2>4, PrintStatus DEF PrintStateOf
  <2>6. UNCHANGED PrintStates
    BY <2>5, PrintStatus
  <2>7. \A j \in J : PrintStates[j] \notin {"absent", "refused"}
    BY <2>2, PrintStatus DEF PrintStateOf
  <2>8. PrintTaken' = [j \in PrintJobs |-> IF j \in J THEN PrintTaken[j] + 1 ELSE PrintTaken[j]]
    <3>1. \A j \in PrintJobs : jobClaims'[j] + fellBack'[j] = IF j \in J THEN jobClaims[j] + fellBack[j] + 1 ELSE jobClaims[j] + fellBack[j]
      BY <1>1, <2>1, <2>3
    <3>2. QED
      BY <3>1 DEF PrintTaken
  <2>9. QED
    BY <2>2, <2>3, <2>6, <2>7, <2>8, PrintTakes
<1>9. CASE DeletePrinter
  <2>1. PICK J : J = {j \in PrintJobs : print[j].status \in {"QUEUED", "PRINTING"}}
    OBVIOUS
  <2>2. J \in SUBSET PrintJobs /\ UNCHANGED <<jobClaims, fellBack, spooled>>
    BY <1>9, <2>1 DEF DeletePrinter
  <2>3. \A j \in PrintJobs : print'[j].status = IF j \in J THEN "CANCELLED" ELSE print[j].status
    BY <1>1, <1>9, <2>1 DEF DeletePrinter, JobRecord
  <2>4. \A j \in PrintJobs : PrintStates'[j] = IF j \in J /\ PrintStates[j] # "absent" THEN "failed" ELSE PrintStates[j]
    BY <2>1, <2>3, PrintStatus DEF PrintStateOf
  <2>5. PrintQueue!Remove(J)
    BY <2>2, <2>4, PrintStatus DEF PrintQueue!Remove, PrintStates
  <2>6. QED
    BY <2>2, <2>5 DEF PrintQueue!QueueNext
<1>10. ASSUME NEW n \in PrintJobs, spooled[n] < jobClaims[n] + fellBack[n], spooled' = [spooled EXCEPT ![n] = @ + 1],
              UNCHANGED <<print, jobClaims, fellBack>>
       PROVE  PrintQueue!QueueNext
  <2>1. UNCHANGED <<PrintStates, PrintTaken>> /\ spooled[n] < PrintTaken[n]
    BY <1>10, PrintStatus DEF PrintTaken
  <2>2. QED
    BY <1>10, <2>1, PrintQueueActions
<1>11. ASSUME NEW a \in Agents, PrintOut(a) \/ SendToAgent(a) PROVE [PrintQueue!QueueNext]_(PrintQueue!queueVars)
  <2>1. PICK n : n = agent[a].on
    OBVIOUS
  <2>2. n \in PrintJobs /\ spooled[n] < jobClaims[n] + fellBack[n]
    BY <1>11, <2>1, PaperCounted
  <2>3. UNCHANGED <<print, jobClaims, fellBack>>
    BY <1>11 DEF PrintOut, SendToAgent
  <2>4. UNCHANGED spooled \/ spooled' = [spooled EXCEPT ![n] = @ + 1]
    <3>1. (\E out \in BOOLEAN : Hands(n, out)) \/ UNCHANGED spooled
      BY <1>11, <2>1 DEF PrintOut, SendToAgent
    <3>2. QED
      BY <1>1, <3>1 DEF Hands
  <2>5. CASE UNCHANGED spooled
    BY <2>3, <2>5, PrintStutters
  <2>6. QED
    BY <1>10, <2>2, <2>3, <2>4, <2>5
<1>12. ASSUME NEW j \in PrintJobs, LatePrint(j) PROVE PrintQueue!QueueNext
  <2>1. UNCHANGED <<print, jobClaims, fellBack>>
    BY <1>12 DEF LatePrint
  <2>2. QED
    BY <1>10, <1>12, <2>1, LateCounted
<1>13. ASSUME NEW a \in Agents, FallBack(a) PROVE [PrintQueue!QueueNext]_(PrintQueue!queueVars)
  <2>1. PICK n : n = agent[a].on
    OBVIOUS
  <2>2. /\ n \in PrintJobs /\ print[n].status # "none"
        /\ UNCHANGED fellBack \/ fellBack' = [fellBack EXCEPT ![n] = @ + 1]
    BY <1>13, <2>1, BrowserStepsIn
  <2>3. UNCHANGED <<print, jobClaims, spooled>>
    BY <1>13 DEF FallBack
  <2>4. CASE UNCHANGED fellBack
    BY <2>3, <2>4, PrintStutters
  <2>5. CASE fellBack' = [fellBack EXCEPT ![n] = @ + 1]
    <3>1. \A j \in PrintJobs : jobClaims'[j] + fellBack'[j] = IF j \in {n} THEN jobClaims[j] + fellBack[j] + 1 ELSE jobClaims[j] + fellBack[j]
      BY <1>1, <2>3, <2>5
    <3>2. PrintTaken' = [j \in PrintJobs |-> IF j \in {n} THEN PrintTaken[j] + 1 ELSE PrintTaken[j]]
      BY <3>1 DEF PrintTaken
    <3>3. \A j \in {n} : PrintStates[j] \notin {"absent", "refused"}
      BY <2>2, PrintStatus DEF PrintStateOf
    <3>4. UNCHANGED PrintStates
      BY <2>3, PrintStatus
    <3>5. QED
      BY <2>2, <2>3, <3>2, <3>3, <3>4, PrintTakes
  <2>6. QED
    BY <2>2, <2>4, <2>5
<1>14. ASSUME NEW a \in Agents, WriteReport(a) PROVE [PrintQueue!QueueNext]_(PrintQueue!queueVars)
  <2>1. PICK n : n = agent[a].on
    OBVIOUS
  <2>2. n \in PrintJobs /\ (agent[a].at = "okRead" => spooled[n] > 0) /\ UNCHANGED <<jobClaims, fellBack, spooled>>
    BY <1>14, <2>1 DEF WriteReport, PrintInv, PrintWork, Works
  <2>3. CASE UNCHANGED print
    BY <2>2, <2>3, PrintStutters
  <2>4. CASE ~UNCHANGED print
    <3>1. PICK s \in {"PRINTED", "FAILED"} : /\ print[n].status = "PRINTING" /\ (s = "PRINTED" => agent[a].at = "okRead")
                                             /\ print' = [print EXCEPT ![n].status = s]
      BY <1>14, <2>1, <2>4 DEF WriteReport
    <3>2. PICK r : r = [print[n] EXCEPT !.status = s]
      OBVIOUS
    <3>3. r.status = s /\ print' = [print EXCEPT ![n] = r]
      BY <1>1, <2>2, <3>1, <3>2 DEF JobRecord
    <3>4. PrintStates' = [PrintStates EXCEPT ![n] = PrintStateOf(r.status)]
      BY <2>2, <3>3, PrintRewrites
    <3>5. PrintStates[n] \notin {"absent", "refused"}
      BY <2>2, <3>1, PrintStatus DEF PrintStateOf
    <3>6. PrintStateOf(r.status) = IF s = "PRINTED" THEN "done" ELSE "failed"
      BY <3>1, <3>3 DEF PrintStateOf
    <3>7. QED
      BY <2>2, <3>1, <3>4, <3>5, <3>6, PrintQueueActions DEF PrintTaken
  <2>5. QED
    BY <2>3, <2>4
<1>15. QED
  BY <1>2, <1>3, <1>5, <1>6, <1>7, <1>8, <1>9, <1>11, <1>12, <1>13, <1>14 DEF PrintNext

\* Print jobs implement the queue: a job is reported printed only after it was handed
\* to a printer or a print dialog, and that happens no more often than it was claimed
\* or taken on by a browser after a failed send (printing.service.ts: claimScoped,
\* completeJob, retry, cancelJob; station.ts: deliver), for any number of jobs and agents.
THEOREM PrintingRefinement == PrintSpec => PrintingImplementsQueue
<1>1. PrintInit => PrintQueue!QueueInit
  BY DEF PrintInit, PrintQueue!QueueInit, PrintState, NoJob
<1>2. PrintInv /\ [PrintNext]_printVars => [PrintQueue!QueueNext]_(PrintQueue!queueVars)
  <2>1. CASE UNCHANGED printVars
    BY <2>1 DEF printVars, PrintQueue!queueVars, PrintState
  <2>2. QED
    BY <2>1, PrintRefines
<1>3. QED
  BY <1>1, <1>2, PrintStarts, PrintStep, PTL DEF PrintSpec, PrintingImplementsQueue, PrintQueue!QueueSpec

\* The invariant of the print jobs holds its types, and counts a ticket that is handed
\* over against the claim, the lost claim, the retry or the failed send that let it out.
LEMMA PrintPromises == PrintInv => PrintTypeOK /\ DuplicatesExplained
<1>1. ASSUME PrintInv, NEW j \in PrintJobs PROVE spooled[j] <= 1 + staled[j] + retried[j] + fellBack[j]
  <2>1. /\ jobClaims[j] \in Nat /\ spooled[j] \in Nat /\ staled[j] \in Nat /\ retried[j] \in Nat
        /\ late[j] \in Nat /\ fellBack[j] \in Nat
    BY <1>1, PrintTypes
  <2>2. PICK S : S = PrintHolders(j)
    OBVIOUS
  <2>3. /\ IsFiniteSet(S) /\ spooled[j] + late[j] + Cardinality(S) <= jobClaims[j] + fellBack[j]
        /\ jobClaims[j] + (IF Owed(print[j]) THEN 1 ELSE 0) <= 1 + staled[j] + retried[j]
    BY <1>1, <2>2 DEF PrintInv, PrintCounts, ClaimsExplained
  <2>4. Cardinality(S) \in Nat
    BY <2>3, FS_CardinalityType
  <2>5. QED
    BY <2>1, <2>3, <2>4
<1>2. QED
  BY <1>1 DEF PrintInv, DuplicatesExplained

\* A ticket is printed a second time only when a claim was presumed lost
\* (STALE_CLAIM_SECONDS), somebody retried the job, or a browser stepped in after a
\* failed send, however many agents poll the printer; and the rows keep their types.
THEOREM PrintsExplained == PrintSpec => [](PrintTypeOK /\ DuplicatesExplained)
  BY PrintPromises, PrintStarts, PrintStep, PTL DEF PrintSpec

----------------------------------------------------------------------------
(* The three queues as MCDelivery composes them *)

DeliveryInv == HookInv /\ OutboxInv /\ PrintInv

\* A step of the instance is a step of one queue and leaves the other two alone.
LEMMA DeliverySteps ==
    [DeliveryNext]_deliveryVars => [HookNext]_hookVars /\ [OutboxNext]_outboxVars /\ [PrintNext]_printVars
  BY Zenon DEF DeliveryNext, deliveryVars

\* Each queue keeps its own invariant whichever queue moves.
LEMMA DeliveryKeeps == DeliveryInv /\ [DeliveryNext]_deliveryVars => DeliveryInv'
  BY DeliverySteps, HookStep, OutboxStep, PrintStep, Zenon DEF DeliveryInv

\* The queues start empty.
LEMMA DeliveryStarts == DeliveryInit => DeliveryInv
  BY HookStarts, OutboxStarts, PrintStarts, Zenon DEF DeliveryInit, DeliveryInv

\* Every row, worker and counter of webhooks, outbox and print jobs keeps its type
\* through the instance the runs check, for any number of rows and workers.
THEOREM DeliveryTypes == DeliverySpec => []DeliveryTypeOK
<1>1. DeliveryInv => DeliveryTypeOK
  BY PrintPromises, Zenon DEF DeliveryInv, HookInv, OutboxInv, DeliveryTypeOK
<1>2. QED
  BY <1>1, DeliveryStarts, DeliveryKeeps, PTL DEF DeliverySpec
=============================================================================

------------------------------ MODULE Webhooks ------------------------------
(***************************************************************************)
(* Outgoing webhooks: webhooks.service.ts over the in-process event bus of *)
(* domain-events.ts.  One endpoint; deliveries of events, which the worker *)
(* claims under a lease and retries, and deliveries of test sends.         *)
(*                                                                         *)
(* A worker's batch of 20 posts with a timeout of 10 s each may outlast    *)
(* its lease of 2 minutes, so a claimed delivery may be claimed again.     *)
(***************************************************************************)
EXTENDS Naturals, FiniteSets

CONSTANTS
    Events,      \* deliveries made for domain events
    Tests,       \* deliveries made by testSend
    Senders,     \* workers of the API instances, and requests that send at once
    HookAttempts, \* MAX_ATTEMPTS
    MaxPosts     \* bound on the attempts begun for one delivery

ASSUME WebhooksAssumption == Events \cap Tests = {} /\ HookAttempts \in Nat \ {0} /\ MaxPosts \in Nat

Deliveries == Events \cup Tests

VARIABLES
    endpoint,  \* active, disabled or gone
    bus,       \* events whose handler has found the endpoint and not stored a row yet
    delivery,  \* webhook_deliveries: status, attempts and nextAttemptAt
    sender,    \* what each sender still has to do, and the attempt it is at
    hookTaken, hookHanded, \* history: attempts begun, posts the receiver answered with 2xx
    manual     \* history: deliveries somebody redelivered

hookVars == <<endpoint, bus, delivery, sender, hookTaken, hookHanded, manual>>

NoDelivery == [status |-> "none", attempts |-> 0, due |-> "never"]
SenderIdle == [todo |-> {}, at |-> "idle", on |-> "none", attempts |-> 0]

HookTypeOK ==
    /\ endpoint \in {"active", "disabled", "gone"}
    /\ bus \subseteq Events
    /\ delivery \in [Deliveries -> [status : {"none", "PENDING", "SUCCEEDED", "FAILED", "gone", "lost"},
                                    attempts : Nat, due : {"never", "now", "later"}]]
    /\ sender \in [Senders -> [todo : SUBSET Deliveries, at : {"idle", "posting", "ok", "error"},
                               on : Deliveries \cup {"none"}, attempts : Nat]]

HookInit ==
    /\ endpoint = "active"
    /\ bus = {}
    /\ delivery = [d \in Deliveries |-> NoDelivery]
    /\ sender = [p \in Senders |-> SenderIdle]
    /\ hookTaken = [d \in Deliveries |-> 0] /\ hookHanded = [d \in Deliveries |-> 0]
    /\ manual = {}

Stored(d) == delivery[d].status \in {"PENDING", "SUCCEEDED", "FAILED"}

----------------------------------------------------------------------------
(* The endpoint. *)

UpdateEndpoint ==
    /\ endpoint # "gone"
    /\ endpoint' = IF endpoint = "active" THEN "disabled" ELSE "active"
    /\ UNCHANGED <<bus, delivery, sender, hookTaken, hookHanded, manual>>

\* its deliveries go with it
RemoveEndpoint ==
    /\ endpoint # "gone"
    /\ endpoint' = "gone"
    /\ delivery' = [d \in Deliveries |-> IF Stored(d) THEN [delivery[d] EXCEPT !.status = "gone"] ELSE delivery[d]]
    /\ UNCHANGED <<bus, sender, hookTaken, hookHanded, manual>>

----------------------------------------------------------------------------
(* Fan-out: the endpoint is looked up, then the row is stored. *)

EmitEvent(d) ==
    /\ delivery[d].status = "none" /\ d \notin bus /\ endpoint = "active"
    /\ bus' = bus \cup {d}
    /\ UNCHANGED <<endpoint, delivery, sender, hookTaken, hookHanded, manual>>

\* the row needs its endpoint; the bus itself does not survive a crash
OnEvent(d) ==
    /\ d \in bus
    /\ bus' = bus \ {d}
    /\ \/ /\ endpoint # "gone"
          /\ delivery' = [delivery EXCEPT ![d] = [status |-> "PENDING", attempts |-> 0, due |-> "now"]]
       \/ delivery' = [delivery EXCEPT ![d].status = "lost"]
    /\ UNCHANGED <<endpoint, sender, hookTaken, hookHanded, manual>>

----------------------------------------------------------------------------
(* Sending. *)

TestSend(p, d) ==
    /\ sender[p] = SenderIdle /\ delivery[d].status = "none" /\ endpoint # "gone"
    /\ delivery' = [delivery EXCEPT ![d] = [status |-> "PENDING", attempts |-> 0, due |-> "never"]]
    /\ sender' = [sender EXCEPT ![p].todo = {d}]
    /\ UNCHANGED <<endpoint, bus, hookTaken, hookHanded, manual>>

Redeliver(p, d) ==
    /\ sender[p] = SenderIdle /\ Stored(d)
    /\ delivery' = [delivery EXCEPT ![d].status = "PENDING", ![d].due = "never"]
    /\ sender' = [sender EXCEPT ![p].todo = {d}]
    /\ manual' = manual \cup {d}
    /\ UNCHANGED <<endpoint, bus, hookTaken, hookHanded>>

\* variant: a claimed delivery is taken off the schedule instead of leased
LeaseUnscheduled == "never"

Lease == "later"

\* processDue claims what is due for the length of the lease
ProcessDue(p) ==
    LET due == {d \in Deliveries : delivery[d].status = "PENDING" /\ delivery[d].due = "now"}
    IN  /\ sender[p] = SenderIdle /\ due # {}
        /\ delivery' = [d \in Deliveries |-> IF d \in due THEN [delivery[d] EXCEPT !.due = Lease] ELSE delivery[d]]
        /\ sender' = [sender EXCEPT ![p].todo = due]
        /\ UNCHANGED <<endpoint, bus, hookTaken, hookHanded, manual>>

\* a lease or a backoff runs out
TimePasses(d) ==
    /\ delivery[d].status = "PENDING" /\ delivery[d].due = "later"
    /\ delivery' = [delivery EXCEPT ![d].due = "now"]
    /\ UNCHANGED <<endpoint, bus, sender, hookTaken, hookHanded, manual>>

\* attempt: a missing row ends the whole batch, a disabled endpoint the delivery
Attempt(p, d) ==
    /\ sender[p].at = "idle" /\ d \in sender[p].todo
    /\ \/ /\ ~Stored(d)
          /\ sender' = [sender EXCEPT ![p] = SenderIdle]
          /\ UNCHANGED <<delivery, hookTaken>>
       \/ /\ Stored(d) /\ endpoint # "active" /\ d \notin Tests
          /\ delivery' = [delivery EXCEPT ![d] = [status |-> "FAILED", attempts |-> @.attempts + 1, due |-> "never"]]
          /\ sender' = [sender EXCEPT ![p].todo = @ \ {d}]
          /\ UNCHANGED hookTaken
       \/ /\ Stored(d) /\ (endpoint = "active" \/ d \in Tests)
          /\ sender' = [sender EXCEPT ![p] = [todo |-> @.todo \ {d}, at |-> "posting", on |-> d,
                                              attempts |-> delivery[d].attempts + 1]]
          /\ hookTaken' = [hookTaken EXCEPT ![d] = @ + 1]
          /\ UNCHANGED delivery
    /\ UNCHANGED <<endpoint, bus, hookHanded, manual>>

\* the post is answered with 2xx; refused or never sent; or received, the answer lost
Post(p) ==
    /\ sender[p].at = "posting"
    /\ \E got \in BOOLEAN, result \in {"ok", "error"} :
          /\ result = "ok" => got
          /\ sender' = [sender EXCEPT ![p].at = result]
          /\ hookHanded' = [hookHanded EXCEPT ![sender[p].on] = IF got THEN @ + 1 ELSE @]
    /\ UNCHANGED <<endpoint, bus, delivery, hookTaken, manual>>

\* nextRetryDelay is null when no attempt is left
NextRetry(n) == n < HookAttempts

\* variant: the log looks at whether a request was made, not at its answer
SucceededUnanswered(p) == sender[p].at # "idle"

Succeeded(p) == sender[p].at = "ok"

\* finish overwrites the row by its id, whoever else has finished it meanwhile
Finish(p) ==
    LET d == sender[p].on
        n == sender[p].attempts
        again == d \notin Tests /\ NextRetry(n)
    IN  /\ sender[p].at \in {"ok", "error"}
        /\ \/ /\ Stored(d)
              /\ delivery' = [delivery EXCEPT ![d] =
                     IF Succeeded(p) THEN [status |-> "SUCCEEDED", attempts |-> n, due |-> "never"]
                     ELSE IF again THEN [status |-> "PENDING", attempts |-> n, due |-> "later"]
                     ELSE [status |-> "FAILED", attempts |-> n, due |-> "never"]]
              /\ sender' = [sender EXCEPT ![p] = [SenderIdle EXCEPT !.todo = sender[p].todo]]
           \/ ~Stored(d) /\ sender' = [sender EXCEPT ![p] = SenderIdle] /\ UNCHANGED delivery
        /\ UNCHANGED <<endpoint, bus, hookTaken, hookHanded, manual>>

SenderDies(p) ==
    /\ sender[p] # SenderIdle
    /\ sender' = [sender EXCEPT ![p] = SenderIdle]
    /\ UNCHANGED <<endpoint, bus, delivery, hookTaken, hookHanded, manual>>

----------------------------------------------------------------------------

HookNext ==
    \/ UpdateEndpoint \/ RemoveEndpoint
    \/ \E d \in Events : EmitEvent(d) \/ OnEvent(d)
    \/ \E d \in Deliveries : TimePasses(d)
    \/ \E p \in Senders :
          \/ \E d \in Tests : TestSend(p, d)
          \/ \E d \in Deliveries \ manual : Redeliver(p, d)
          \/ \E d \in Deliveries : hookTaken[d] < MaxPosts /\ Attempt(p, d)
          \/ ProcessDue(p) \/ Post(p) \/ Finish(p) \/ SenderDies(p)

HookSpec == HookInit /\ [][HookNext]_hookVars

----------------------------------------------------------------------------
(* Properties. *)

HookState(d) ==
    CASE delivery[d].status \in {"none", "lost"} -> "absent"
      [] delivery[d].status = "SUCCEEDED" -> "done"
      [] delivery[d].status \in {"FAILED", "gone"} -> "failed"
      [] OTHER -> "open"

HookQueue == INSTANCE JobQueue WITH
    Jobs <- Deliveries, state <- [d \in Deliveries |-> HookState(d)],
    taken <- hookTaken, handed <- hookHanded

\* Deliveries are a job queue: one is logged SUCCEEDED only after the receiver got
\* it, and the receiver gets it no more often than an attempt was begun, through
\* overlapping leases, redeliveries, crashes and removed endpoints.
WebhooksImplementQueue == HookQueue!QueueSpec

\* The delivery of an event that was not redelivered by hand and is not settled
\* stays on the worker's schedule with attempts left, whoever crashes between
\* claiming and finishing it.  Test deliveries have no schedule, and a redelivery by
\* hand takes it away: when their sender dies they stay PENDING for good.
DeliveryStaysScheduled ==
    \A d \in Events \ manual : delivery[d].status = "PENDING" =>
        delivery[d].due # "never" /\ delivery[d].attempts < HookAttempts
=============================================================================

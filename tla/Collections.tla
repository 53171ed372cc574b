---------------------------- MODULE Collections ----------------------------
(***************************************************************************)
(* Collecting a bill through the payment gateway by dynamic QR or payment  *)
(* link: the collection half of gateway-payments.service.ts against        *)
(* razorpay.gateway.ts, or against the simulated gateway of                *)
(* payment.gateway.ts when no keys are configured.                         *)
(***************************************************************************)
EXTENDS Naturals, FiniteSets

CONSTANTS
    Intents,   \* gateway_payments rows
    Topics     \* the webhook events one capture sends (qr_code.credited, payment.captured)

VARIABLES
    live,      \* whether the real gateway is configured
    intent,    \* our row: status and whether providerRef is saved
    call,      \* the request that creates the collection
    remote,    \* the collection at the provider
    event,     \* each webhook event: unknown, recorded, applied, or dropped by a crash
    cancel,    \* whether a request that cancelled the intent still has to tell the provider
    poll,      \* what refreshCollect was told and has not acted on yet
    pastDue,   \* whether the deadline has passed
    seen,      \* history: markPaid has marked the intent paid
    failedLate \* history: the create request failed after that

collectVars == <<live, intent, call, remote, event, cancel, poll, pastDue, seen, failedLate>>

CollectTypeOK ==
    /\ live \in BOOLEAN
    /\ intent \in [Intents -> [status : {"none", "CREATED", "PAID", "FAILED", "CANCELLED", "EXPIRED"},
                               ref : BOOLEAN]]
    /\ call \in [Intents -> {"none", "sent", "over"}]
    /\ remote \in [Intents -> {"none", "active", "paid", "closed"}]
    /\ event \in [Intents -> [Topics -> {"unknown", "recorded", "applied", "dropped"}]]
    /\ cancel \in [Intents -> BOOLEAN]
    /\ poll \in [Intents -> {"none", "PAID", "EXPIRED", "PENDING"}]
    /\ pastDue \in [Intents -> BOOLEAN] /\ seen \in [Intents -> BOOLEAN]
    /\ failedLate \in [Intents -> BOOLEAN]

CollectInit ==
    /\ live \in BOOLEAN
    /\ intent = [i \in Intents |-> [status |-> "none", ref |-> FALSE]]
    /\ call = [i \in Intents |-> "none"]
    /\ remote = [i \in Intents |-> "none"]
    /\ event = [i \in Intents |-> [k \in Topics |-> "unknown"]]
    /\ cancel = [i \in Intents |-> FALSE]
    /\ poll = [i \in Intents |-> "none"]
    /\ pastDue = [i \in Intents |-> FALSE]
    /\ seen = [i \in Intents |-> FALSE]
    /\ failedLate = [i \in Intents |-> FALSE]

----------------------------------------------------------------------------
(* createCollect: the row is written before the provider is called. *)

CreateIntent(i) ==
    /\ intent[i].status = "none"
    /\ intent' = [intent EXCEPT ![i].status = "CREATED"]
    /\ call' = [call EXCEPT ![i] = "sent"]
    /\ UNCHANGED <<live, remote, event, cancel, poll, pastDue, seen, failedLate>>

\* the request reaches the provider, perhaps after we gave up on it
RemoteCreates(i) ==
    /\ call[i] # "none" /\ remote[i] = "none"
    /\ live \/ call[i] = "sent"
    /\ remote' = [remote EXCEPT ![i] = "active"]
    /\ UNCHANGED <<live, intent, call, event, cancel, poll, pastDue, seen, failedLate>>

SaveAnswer(i) ==
    /\ call[i] = "sent" /\ remote[i] # "none"
    /\ intent' = [intent EXCEPT ![i].ref = TRUE]
    /\ call' = [call EXCEPT ![i] = "over"]
    /\ UNCHANGED <<live, remote, event, cancel, poll, pastDue, seen, failedLate>>

\* a refusal, a timeout or a lost answer: FAILED, whatever the status is by now
CallFails(i) ==
    /\ live /\ call[i] = "sent"
    /\ intent' = [intent EXCEPT ![i].status = "FAILED"]
    /\ call' = [call EXCEPT ![i] = "over"]
    /\ failedLate' = [failedLate EXCEPT ![i] = seen[i]]
    /\ UNCHANGED <<live, remote, event, cancel, poll, pastDue, seen>>

\* the process dies during the call
CallDies(i) ==
    /\ call[i] = "sent"
    /\ call' = [call EXCEPT ![i] = "over"]
    /\ UNCHANGED <<live, intent, remote, event, cancel, poll, pastDue, seen, failedLate>>

----------------------------------------------------------------------------
(* The provider, the customer and the clock. *)

CustomerPays(i) ==
    /\ live /\ remote[i] = "active"
    /\ remote' = [remote EXCEPT ![i] = "paid"]
    /\ UNCHANGED <<live, intent, call, event, cancel, poll, pastDue, seen, failedLate>>

RemoteExpires(i) ==
    /\ live /\ pastDue[i] /\ remote[i] = "active"
    /\ remote' = [remote EXCEPT ![i] = "closed"]
    /\ UNCHANGED <<live, intent, call, event, cancel, poll, pastDue, seen, failedLate>>

DeadlinePasses(i) ==
    /\ intent[i].status # "none" /\ ~pastDue[i]
    /\ pastDue' = [pastDue EXCEPT ![i] = TRUE]
    /\ UNCHANGED <<live, intent, call, remote, event, cancel, poll, seen, failedLate>>

----------------------------------------------------------------------------
(* Marking an intent paid. *)

\* variant: only an intent that is still waiting is marked paid
MarkPaidIfWaiting(i) ==
    IF intent[i].status = "CREATED"
    THEN intent' = [intent EXCEPT ![i].status = "PAID"] /\ seen' = [seen EXCEPT ![i] = TRUE]
    ELSE UNCHANGED intent /\ seen' = [seen EXCEPT ![i] = TRUE]

\* markPaid: the update's condition is status <> PAID, so a payment wins over a
\* cancellation or an expiry
MarkPaid(i) ==
    /\ intent' = [intent EXCEPT ![i].status = "PAID"]
    /\ seen' = [seen EXCEPT ![i] = TRUE]

\* the event id is recorded first; a delivery that finds it is a duplicate
RecordEvent(i, k) ==
    /\ live /\ remote[i] = "paid" /\ event[i][k] = "unknown"
    /\ event' = [event EXCEPT ![i][k] = "recorded"]
    /\ UNCHANGED <<live, intent, call, remote, cancel, poll, pastDue, seen, failedLate>>

ApplyCapture(i, k) ==
    /\ event[i][k] = "recorded"
    /\ event' = [event EXCEPT ![i][k] = "applied"]
    /\ MarkPaid(i)
    /\ UNCHANGED <<live, call, remote, cancel, poll, pastDue, failedLate>>

CaptureDies(i, k) ==
    /\ event[i][k] = "recorded"
    /\ event' = [event EXCEPT ![i][k] = "dropped"]
    /\ UNCHANGED <<live, intent, call, remote, cancel, poll, pastDue, seen, failedLate>>

\* simulatePaid, refused with the real gateway
SimulatePaid(i) ==
    /\ ~live /\ intent[i].ref
    /\ remote' = [remote EXCEPT ![i] = "paid"]
    /\ MarkPaid(i)
    /\ UNCHANGED <<live, call, event, cancel, poll, pastDue, failedLate>>

----------------------------------------------------------------------------
(* Cancelling, polling and expiring. *)

Cancellable(i) == intent[i].status = "CREATED"

\* the row first, then the provider, if its reference was known
CancelIntent(i) ==
    /\ Cancellable(i)
    /\ intent' = [intent EXCEPT ![i].status = "CANCELLED"]
    /\ cancel' = [cancel EXCEPT ![i] = intent[i].ref]
    /\ UNCHANGED <<live, call, remote, event, poll, pastDue, seen, failedLate>>

\* cancelCollect at the gateway; the simulated one does nothing
CloseRemote(i) ==
    remote' = [remote EXCEPT ![i] = IF live /\ @ = "active" THEN "closed" ELSE @]

CancelRemote(i) ==
    /\ cancel[i]
    /\ cancel' = [cancel EXCEPT ![i] = FALSE]
    /\ CloseRemote(i) \/ UNCHANGED remote
    /\ UNCHANGED <<live, intent, call, event, poll, pastDue, seen, failedLate>>

\* recoveryTick and getCollect poll collections that wait and have a reference
PollRemote(i) ==
    /\ intent[i].status = "CREATED" /\ intent[i].ref /\ poll[i] = "none"
    /\ poll' = [poll EXCEPT ![i] = CASE remote[i] = "paid" -> "PAID"
                                     [] remote[i] = "closed" -> "EXPIRED"
                                     [] OTHER -> "PENDING"]
    /\ UNCHANGED <<live, intent, call, remote, event, cancel, pastDue, seen, failedLate>>

ExpireIfWaiting(i) ==
    intent' = [intent EXCEPT ![i].status = IF @ = "CREATED" THEN "EXPIRED" ELSE @]

\* refreshCollect after the answer
ActOnPoll(i) ==
    /\ poll[i] # "none"
    /\ poll' = [poll EXCEPT ![i] = "none"]
    /\ \/ poll[i] = "PAID" /\ MarkPaid(i) /\ UNCHANGED remote
       \/ /\ poll[i] = "EXPIRED"
          /\ ExpireIfWaiting(i) /\ UNCHANGED <<remote, seen>>
       \/ /\ poll[i] = "PENDING" /\ pastDue[i]
          /\ CloseRemote(i) \/ UNCHANGED remote
          /\ ExpireIfWaiting(i) /\ UNCHANGED seen
       \/ poll[i] = "PENDING" /\ ~pastDue[i] /\ UNCHANGED <<intent, remote, seen>>
    /\ UNCHANGED <<live, call, event, cancel, pastDue, failedLate>>

----------------------------------------------------------------------------

CollectNext ==
    \E i \in Intents :
       \/ CreateIntent(i) \/ RemoteCreates(i) \/ SaveAnswer(i) \/ CallFails(i) \/ CallDies(i)
       \/ CustomerPays(i) \/ RemoteExpires(i) \/ DeadlinePasses(i)
       \/ \E k \in Topics : RecordEvent(i, k) \/ ApplyCapture(i, k) \/ CaptureDies(i, k)
       \/ SimulatePaid(i) \/ CancelIntent(i) \/ CancelRemote(i) \/ PollRemote(i) \/ ActOnPoll(i)

CollectSpec == CollectInit /\ [][CollectNext]_collectVars

----------------------------------------------------------------------------
(* Properties. *)

\* An intent is PAID only for money the provider holds, and once markPaid has run
\* for it, it stays PAID through racing cancellations, polls and expiries; only
\* the create request's own failure, coming late, can hide it.
CaptureWins ==
    \A i \in Intents : /\ intent[i].status = "PAID" => remote[i] = "paid"
                       /\ seen[i] => intent[i].status = "PAID" \/ failedLate[i]

\* A collection whose payment was received is reported unpaid only while a webhook
\* or a poll is still to come, after a crash between recording and applying its
\* events, or because its create request failed: nothing else loses a payment.
PaymentSurfaces ==
    \A i \in Intents :
        live /\ remote[i] = "paid" /\ intent[i].status # "PAID" =>
            \/ failedLate[i]
            \/ \E k \in Topics : event[i][k] \in {"unknown", "recorded"}
            \/ \A k \in Topics : event[i][k] = "dropped"

\* A capture is neither overwritten nor overlooked.
CollectionsSound == CaptureWins /\ PaymentSurfaces
=============================================================================

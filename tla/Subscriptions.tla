--------------------------- MODULE Subscriptions ---------------------------
(***************************************************************************)
(* A tenant's own subscription: apps/api/src/saas-billing (billing.service *)
(* .ts, billing.provider.ts, billing.scheduler.ts, entitlements.service    *)
(* .ts) and the state machine of packages/shared/src/growth.ts.            *)
(*                                                                         *)
(* Time is a count of billing periods: period p runs until clock reaches   *)
(* p.  With the mock provider we charge invoices ourselves; the real one   *)
(* charges its mandate and sends events.  Sweeps, requests of the tenant,  *)
(* of the platform and events overlap, and any of them dies at any step.   *)
(***************************************************************************)
EXTENDS Naturals, FiniteSets, FiniteSetsExt

CONSTANTS
    SubInvoices, \* subscription_invoices rows that may come to exist, in order
    Billers,     \* concurrent sweeps and requests
    MaxPeriod,   \* bound on the clock
    MaxStarts,   \* bound on sweeps, requests and deliveries started
    ProviderEvents \* events the real provider may send: pairs of a type and a period

Periods == 1 .. MaxPeriod + 1

ASSUME SubscriptionAssumption ==
    /\ SubInvoices \subseteq Nat \ {0} /\ IsFiniteSet(SubInvoices) /\ {MaxPeriod, MaxStarts} \subseteq Nat
    /\ ProviderEvents \subseteq {"CHARGED", "PAYMENT_FAILED", "HALTED", "CANCELLED"} \X Periods

VARIABLES
    realProvider, \* whether the real provider is configured
    clock,       \* billing periods that are over
    sub,         \* the subscription: status, deadlines, flags, last paid period
    tenant,      \* Tenant.status
    invoice,     \* status and period of each invoice, whether a sweep made it, and
                 \* (history) whether it was marked failed after it was paid
    charges,     \* how often our provider call charged each invoice
    unsure,      \* invoices charged by overlapping calls or before a crash
    raced,       \* periods renewed by overlapping calls, or taken back by a late payment
    billingEvent,\* webhook events by period: none, sent, recorded, applied, dropped
    starts,      \* how many were started
    biller       \* sweeps and requests under way

subVars == <<realProvider, clock, sub, tenant, invoice, charges, unsure, raced, billingEvent, starts, biller>>

BillerIdle == [at |-> "idle"]

\* Where the delivery of an event stands, once the event is stored.
EventAts == {"event", "create", "book", "dun", "due"}

\* A new row of subscription_invoices.
NewInvoice(p, renewal) == [status |-> "OPEN", period |-> p, renewal |-> renewal, crossed |-> FALSE]

\* growth.ts; CANCEL of an ACTIVE subscription leaves it ACTIVE
TRANSITIONS_SUB ==
    {<<"TRIAL", "TRIAL_EXPIRED", "SUSPENDED">>, <<"ACTIVE", "PAYMENT_FAILED", "PAST_DUE">>,
     <<"ACTIVE", "CANCEL", "ACTIVE">>, <<"ACTIVE", "PERIOD_ENDED", "CANCELLED">>,
     <<"PAST_DUE", "PAYMENT_FAILED", "PAST_DUE">>, <<"PAST_DUE", "GRACE_EXPIRED", "SUSPENDED">>}
    \cup {<<s, "PAYMENT_SUCCEEDED", "ACTIVE">> : s \in {"TRIAL", "ACTIVE", "PAST_DUE", "SUSPENDED", "CANCELLED"}}
    \cup {<<s, "CANCEL", "CANCELLED">> : s \in {"TRIAL", "PAST_DUE", "SUSPENDED"}}
    \cup {<<s, "ADMIN_SUSPEND", "SUSPENDED">> : s \in {"TRIAL", "ACTIVE", "PAST_DUE"}}
    \cup {<<s, "ADMIN_REACTIVATE", "ACTIVE">> : s \in {"TRIAL", "PAST_DUE", "SUSPENDED", "CANCELLED"}}

SubStatuses == {t[1] : t \in TRANSITIONS_SUB}
CanTransition(from, event) == \E t \in TRANSITIONS_SUB : t[1] = from /\ t[2] = event
NextStatus(from, event) == CHOOSE to \in SubStatuses : <<from, event, to>> \in TRANSITIONS_SUB
TenantStatusFor(s) ==
    CASE s = "TRIAL" -> "TRIAL" [] s \in {"ACTIVE", "PAST_DUE"} -> "ACTIVE" [] OTHER -> "SUSPENDED"

SubTypeOK ==
    /\ realProvider \in BOOLEAN /\ clock \in 0 .. MaxPeriod
    /\ sub \in [status: SubStatuses, trial: {"none", "running", "over"}, grace: {"none", "running", "over"},
                cancelAtEnd: BOOLEAN, until: 0 .. MaxPeriod + 1, mandate: BOOLEAN]
    /\ tenant \in {"TRIAL", "ACTIVE", "SUSPENDED"} /\ starts \in 0 .. MaxStarts
    /\ invoice \in [SubInvoices -> [status: {"none", "OPEN", "PAID", "FAILED"}, period: 0 .. MaxPeriod + 1,
                                   renewal: BOOLEAN, crossed: BOOLEAN]]
    /\ charges \in [SubInvoices -> Nat] /\ unsure \subseteq SubInvoices /\ raced \subseteq Periods
    /\ billingEvent \in [ProviderEvents -> {"none", "sent", "recorded", "applied", "dropped"}]
    /\ \A w \in Billers :
          biller[w].at \in {"idle", "sweep", "collect", "paid", "failed", "subscribe", "cancel", "extend"} \cup EventAts

SubInit ==
    /\ realProvider \in BOOLEAN /\ clock = 0
    /\ sub = [status |-> "TRIAL", trial |-> "running", grace |-> "none", cancelAtEnd |-> FALSE,
              until |-> 0, mandate |-> FALSE]
    /\ tenant = "TRIAL" /\ starts = 0
    /\ invoice = [i \in SubInvoices |-> [status |-> "none", period |-> 0, renewal |-> FALSE, crossed |-> FALSE]]
    /\ charges = [i \in SubInvoices |-> 0] /\ unsure = {} /\ raced = {}
    /\ billingEvent = [e \in ProviderEvents |-> "none"]
    /\ biller = [w \in Billers |-> BillerIdle]

----------------------------------------------------------------------------
(* Time. *)

PeriodEnds ==
    /\ clock < MaxPeriod /\ clock' = clock + 1
    /\ UNCHANGED <<realProvider, starts, sub, tenant, invoice, charges, unsure, raced, billingEvent, biller>>

DeadlineLapses ==
    /\ \/ sub.trial = "running" /\ sub' = [sub EXCEPT !.trial = "over"]
       \/ sub.grace = "running" /\ sub' = [sub EXCEPT !.grace = "over"]
    /\ UNCHANGED <<realProvider, clock, starts, tenant, invoice, charges, unsure, raced, billingEvent, biller>>

----------------------------------------------------------------------------
(* The state machine and invoices. *)

Mirror(status) == tenant' = TenantStatusFor(status)

\* transition: under the row lock, with a patch; refused moves throw
Transition(event, patched) ==
    /\ CanTransition(sub.status, event)
    /\ sub' = [patched EXCEPT !.status = NextStatus(sub.status, event)]
    /\ Mirror(NextStatus(sub.status, event))
SubRefused == UNCHANGED <<sub, tenant>>

Unbilled == {i \in SubInvoices : invoice[i].status = "none"}
FreshInvoice == Min(Unbilled)
Payable(p) == {i \in SubInvoices : invoice[i].status \in {"OPEN", "FAILED"} /\ invoice[i].period = p}

Collecting(i) == {w \in Billers : biller[w].at \in {"collect", "paid", "failed"} /\ biller[w].on = i}
\* history: another call is collecting the invoice as this one starts to
Overlaps(i) == unsure' = IF Collecting(i) # {} THEN unsure \cup {i} ELSE unsure

Goes(w, rec) == biller' = [biller EXCEPT ![w] = rec]
SubEnds(w) == Goes(w, BillerIdle)
\* history: whoever starts beside a renewal, or renews beside others, races for its period
Renewing == {v \in Billers : biller[v].at = "sweep" /\ biller[v].kind = "renew"}
Starts(w, rec) ==
    /\ biller[w] = BillerIdle /\ starts < MaxStarts
    /\ starts' = starts + 1 /\ Goes(w, rec)
    /\ raced' = raced \cup {biller[v].period : v \in Renewing}
                     \cup {q \in Periods : /\ rec.at = "sweep" /\ rec.kind = "renew" /\ rec.period = q
                                            /\ \E v \in Billers : biller[v] # BillerIdle}

\* the columns markPaid patches, and the status
PaidFor(p) == Transition("PAYMENT_SUCCEEDED",
                         [sub EXCEPT !.until = p, !.grace = "none", !.trial = "none"])

\* history: periods paid for that the new currentPeriodEnd gives up
TakenBack == raced' = raced \cup {p \in Periods : sub'.until < p /\ p <= sub.until}

\* the grace window starts at the first failure and is not extended by retries
FailedPayment ==
    IF CanTransition(sub.status, "PAYMENT_FAILED")
    THEN Transition("PAYMENT_FAILED", [sub EXCEPT !.grace = IF @ = "none" THEN "running" ELSE @])
    ELSE SubRefused

\* markPaid, once for an invoice
MarkPaid(i) ==
    IF invoice[i].status = "PAID" THEN UNCHANGED <<invoice, sub, tenant>>
    ELSE invoice' = [invoice EXCEPT ![i].status = "PAID"] /\ PaidFor(invoice[i].period)

\* markFailed: by id, whatever the invoice has become
MarkFailed(i) ==
    /\ invoice' = [invoice EXCEPT ![i].status = "FAILED", ![i].crossed = @ \/ invoice[i].status = "PAID"]
    /\ FailedPayment

----------------------------------------------------------------------------
(* runCycle: what is due is read, then acted on. *)

SweepReads(w) ==
    LET kind == CASE sub.status = "TRIAL" /\ sub.trial = "over" -> "TRIAL_EXPIRED"
                  [] sub.status = "PAST_DUE" /\ sub.grace = "over" -> "GRACE_EXPIRED"
                  [] sub.status = "ACTIVE" /\ sub.until <= clock /\ sub.cancelAtEnd -> "PERIOD_ENDED"
                  [] sub.status = "ACTIVE" /\ sub.until <= clock /\ ~sub.cancelAtEnd /\ ~sub.mandate -> "renew"
                  [] OTHER -> "nothing"
    IN  /\ kind # "nothing"
        /\ Starts(w, [at |-> "sweep", kind |-> kind, period |-> sub.until + 1])
        /\ UNCHANGED <<realProvider, clock, sub, tenant, invoice, charges, unsure, billingEvent>>

SweepMoves(w) ==
    /\ biller[w].at = "sweep" /\ biller[w].kind # "renew"
    /\ IF CanTransition(sub.status, biller[w].kind) THEN Transition(biller[w].kind, sub) ELSE SubRefused
    /\ SubEnds(w)
    /\ UNCHANGED <<realProvider, clock, starts, invoice, charges, unsure, raced, billingEvent>>

\* Variant of the code: a failed renewal is invoiced anew at every retry.
RetriedNever(p) == {}

\* an OPEN or FAILED invoice of the period is collected again
Retried(p) == Payable(p)

Renews(w) ==
    LET p == biller[w].period
    IN  /\ biller[w].at = "sweep" /\ biller[w].kind = "renew"
        /\ IF Retried(p) # {}
           THEN /\ \E i \in Retried(p) : Overlaps(i) /\ Goes(w, [at |-> "collect", on |-> i])
                /\ UNCHANGED invoice
           ELSE /\ Unbilled # {}
                /\ invoice' = [invoice EXCEPT ![FreshInvoice] = NewInvoice(p, TRUE)]
                /\ Goes(w, [at |-> "collect", on |-> FreshInvoice])
                /\ UNCHANGED unsure
        /\ UNCHANGED <<realProvider, clock, starts, sub, tenant, charges, raced, billingEvent>>

----------------------------------------------------------------------------
(* collect, and what becomes of it. *)

\* chargeInvoice: the mock charges or refuses; the real provider answers PENDING
Charge(w) ==
    /\ biller[w].at = "collect"
    /\ \/ /\ ~realProvider
          /\ charges' = [charges EXCEPT ![biller[w].on] = @ + 1]
          /\ Goes(w, [biller[w] EXCEPT !.at = "paid"])
       \/ ~realProvider /\ Goes(w, [biller[w] EXCEPT !.at = "failed"]) /\ UNCHANGED charges
       \/ realProvider /\ SubEnds(w) /\ UNCHANGED charges
    /\ UNCHANGED <<realProvider, clock, starts, sub, tenant, invoice, unsure, raced, billingEvent>>

MarkPaidInvoice(w) ==
    /\ biller[w].at = "paid"
    /\ MarkPaid(biller[w].on)
    /\ TakenBack
    /\ SubEnds(w)
    /\ UNCHANGED <<realProvider, clock, starts, charges, unsure, billingEvent>>

MarkFailedInvoice(w) ==
    /\ biller[w].at = "failed"
    /\ MarkFailed(biller[w].on)
    /\ SubEnds(w)
    /\ UNCHANGED <<realProvider, clock, starts, charges, unsure, raced, billingEvent>>

----------------------------------------------------------------------------
(* Requests of the tenant. *)

InvoicePayable(i) == invoice[i].status \in {"OPEN", "FAILED"}

PayInvoice(w, i) ==
    /\ InvoicePayable(i)
    /\ Overlaps(i)
    /\ Starts(w, [at |-> "collect", on |-> i])
    /\ UNCHANGED <<realProvider, clock, sub, tenant, invoice, charges, billingEvent>>

\* a live subscription changes its plan or resumes
Resubscribe ==
    /\ sub.status \in {"ACTIVE", "PAST_DUE"} /\ sub.cancelAtEnd
    /\ sub' = [sub EXCEPT !.cancelAtEnd = FALSE]
    /\ UNCHANGED <<realProvider, clock, starts, tenant, invoice, charges, unsure, raced, billingEvent, biller>>

SubscribeReads(w) ==
    /\ sub.status \in {"TRIAL", "SUSPENDED", "CANCELLED"}
    /\ Starts(w, [at |-> "subscribe"])
    /\ UNCHANGED <<realProvider, clock, sub, tenant, invoice, charges, unsure, billingEvent>>

\* the provider's subscription is saved; the mock one is invoiced and charged
SubscribeWrites(w) ==
    /\ biller[w].at = "subscribe"
    /\ sub' = [sub EXCEPT !.cancelAtEnd = FALSE, !.mandate = realProvider]
    /\ IF realProvider THEN SubEnds(w) /\ UNCHANGED invoice
       ELSE /\ Unbilled # {}
            /\ invoice' = [invoice EXCEPT ![FreshInvoice] = NewInvoice(clock + 1, FALSE)]
            /\ Goes(w, [at |-> "collect", on |-> FreshInvoice])
    /\ UNCHANGED <<realProvider, clock, starts, tenant, charges, unsure, raced, billingEvent>>

\* cancel: the status read decides between a flag and a transition
CancelReads(w) ==
    /\ Starts(w, [at |-> "cancel", was |-> sub.status])
    /\ UNCHANGED <<realProvider, clock, sub, tenant, invoice, charges, unsure, billingEvent>>

CancelWrites(w) ==
    /\ biller[w].at = "cancel"
    /\ \/ biller[w].was = "ACTIVE" /\ sub' = [sub EXCEPT !.cancelAtEnd = TRUE] /\ UNCHANGED tenant
       \/ biller[w].was # "ACTIVE" /\ Transition("CANCEL", sub)
       \/ biller[w].was # "ACTIVE" /\ ~CanTransition(sub.status, "CANCEL") /\ SubRefused
    /\ SubEnds(w)
    /\ UNCHANGED <<realProvider, clock, starts, invoice, charges, unsure, raced, billingEvent>>

----------------------------------------------------------------------------
(* The platform's administrators. *)

PlatformMoves ==
    /\ \/ \E e \in {"ADMIN_SUSPEND", "CANCEL"} : Transition(e, sub)
       \/ Transition("ADMIN_REACTIVATE",
                     [sub EXCEPT !.grace = "none", !.until = IF @ > clock THEN @ ELSE clock + 1])
    /\ UNCHANGED <<realProvider, clock, starts, invoice, charges, unsure, raced, billingEvent, biller>>

\* extend_trial checks the status it read, and writes both rows itself
ExtendReads(w) ==
    /\ sub.status \in {"TRIAL", "SUSPENDED"}
    /\ Starts(w, [at |-> "extend"])
    /\ UNCHANGED <<realProvider, clock, sub, tenant, invoice, charges, unsure, billingEvent>>

ExtendWrites(w) ==
    /\ biller[w].at = "extend"
    /\ sub' = [sub EXCEPT !.status = "TRIAL", !.trial = "running"]
    /\ Mirror("TRIAL")
    /\ SubEnds(w)
    /\ UNCHANGED <<realProvider, clock, starts, invoice, charges, unsure, raced, billingEvent>>

----------------------------------------------------------------------------
(* Events of the real provider. *)

ProviderSends(e) ==
    /\ realProvider /\ sub.mandate /\ e[2] <= clock + 1
    /\ billingEvent[e] = "none"
    /\ billingEvent' = [billingEvent EXCEPT ![e] = "sent"]
    /\ UNCHANGED <<realProvider, clock, starts, sub, tenant, invoice, charges, unsure, raced, biller>>

\* the event's id is stored first; a replay finds it and is skipped
RecordBillingEvent(w, e) ==
    /\ billingEvent[e] = "sent"
    /\ billingEvent' = [billingEvent EXCEPT ![e] = "recorded"]
    /\ Starts(w, [at |-> "event", ev |-> e, was |-> sub.status, had |-> sub.grace])
    /\ UNCHANGED <<realProvider, clock, sub, tenant, invoice, charges, unsure>>

UnpaidInvoices == {i \in SubInvoices : invoice[i].status \in {"OPEN", "FAILED"}}

\* applyWebhook: a charge or a failure looks for its invoice first: the one of the
\* period to be paid, or the newest one that is not paid ...
EventFinds(w) ==
    LET e == biller[w].ev
        p == e[2]
    IN  /\ biller[w].at = "event"
        /\ \/ /\ e[1] = "CHARGED" /\ Payable(p) # {}
              /\ \E i \in Payable(p) : Goes(w, [at |-> "book", on |-> i, ev |-> e])
           \/ e[1] = "CHARGED" /\ Payable(p) = {} /\ Goes(w, [at |-> "create", ev |-> e])
           \/ e[1] = "PAYMENT_FAILED" /\ UnpaidInvoices # {} /\ Goes(w, [at |-> "dun", on |-> Max(UnpaidInvoices), ev |-> e])
           \/ /\ e[1] = "PAYMENT_FAILED" /\ UnpaidInvoices = {}
              /\ Goes(w, [at |-> "due", ev |-> e, was |-> biller[w].was, had |-> biller[w].had])
        /\ UNCHANGED <<realProvider, clock, starts, sub, tenant, invoice, charges, unsure, raced, billingEvent>>

\* ... a charge without one gets an invoice made for it, in a transaction of its own ...
EventCreates(w) ==
    LET e == biller[w].ev
    IN  /\ biller[w].at = "create" /\ Unbilled # {}
        /\ invoice' = [invoice EXCEPT ![FreshInvoice] = NewInvoice(e[2], FALSE)]
        /\ Goes(w, [at |-> "book", on |-> FreshInvoice, ev |-> e])
        /\ UNCHANGED <<realProvider, clock, starts, sub, tenant, charges, unsure, raced, billingEvent>>

EventEnds(w) ==
    /\ billingEvent' = [billingEvent EXCEPT ![biller[w].ev] = "applied"]
    /\ TakenBack
    /\ SubEnds(w)
    /\ UNCHANGED <<realProvider, clock, starts, charges, unsure>>

\* ... and only then the invoice is marked.
EventBooks(w) == biller[w].at = "book" /\ MarkPaid(biller[w].on) /\ EventEnds(w)

EventDuns(w) == biller[w].at = "dun" /\ MarkFailed(biller[w].on) /\ EventEnds(w)

\* a failure without an invoice, a halt and a cancellation move the subscription: how
\* is chosen by the row read before the event was recorded, and when the state machine
\* refuses it, nothing happens
EventMoves(w) ==
    LET was == biller[w].was
        had == biller[w].had
        type == biller[w].ev[1]
        ev == CASE type = "PAYMENT_FAILED" -> "PAYMENT_FAILED"
                [] type = "HALTED" -> IF CanTransition(was, "GRACE_EXPIRED") THEN "GRACE_EXPIRED" ELSE "ADMIN_SUSPEND"
                [] type = "CANCELLED" -> IF was = "ACTIVE" THEN "PERIOD_ENDED" ELSE "CANCEL"
    IN  /\ \/ biller[w].at = "due"
           \/ biller[w].at = "event" /\ type \in {"HALTED", "CANCELLED"}
        /\ IF CanTransition(was, ev) /\ CanTransition(sub.status, ev)
           THEN Transition(ev, IF type = "PAYMENT_FAILED"
                               THEN [sub EXCEPT !.grace = IF had = "none" THEN "running" ELSE had] ELSE sub)
           ELSE SubRefused
        /\ UNCHANGED invoice
        /\ EventEnds(w)

\* the process dies; a charge that was made is not known
BillerDies(w) ==
    /\ biller[w] # BillerIdle
    /\ unsure' = IF biller[w].at = "paid" THEN unsure \cup {biller[w].on} ELSE unsure
    /\ billingEvent' = IF biller[w].at \in EventAts THEN [billingEvent EXCEPT ![biller[w].ev] = "dropped"]
                       ELSE billingEvent
    /\ SubEnds(w)
    /\ UNCHANGED <<realProvider, clock, starts, sub, tenant, invoice, charges, raced>>

----------------------------------------------------------------------------

SubNext ==
    \/ PeriodEnds \/ DeadlineLapses \/ Resubscribe \/ PlatformMoves
    \/ \E e \in ProviderEvents : ProviderSends(e)
    \/ \E w \in Billers :
          \/ SweepReads(w) \/ SweepMoves(w) \/ Renews(w)
          \/ Charge(w) \/ MarkPaidInvoice(w) \/ MarkFailedInvoice(w)
          \/ SubscribeReads(w) \/ SubscribeWrites(w) \/ CancelReads(w) \/ CancelWrites(w)
          \/ ExtendReads(w) \/ ExtendWrites(w)
          \/ \E i \in SubInvoices : PayInvoice(w, i)
          \/ \E e \in ProviderEvents : RecordBillingEvent(w, e)
          \/ EventFinds(w) \/ EventCreates(w) \/ EventBooks(w) \/ EventDuns(w) \/ EventMoves(w)
          \/ BillerDies(w)

SubSpec == SubInit /\ [][SubNext]_subVars

----------------------------------------------------------------------------
(* Properties. *)

\* Login is gated by the tenant's row, billing by the subscription's: whichever
\* sweep, request or event moved one last, the two agree.
TenantMirrorsSubscription == tenant = TenantStatusFor(sub.status)

\* A tenant is charged once for an invoice and renewed once for a period, unless
\* two calls overlapped, one died between charging and saying so, or the payment of
\* an older invoice took the period back.
ChargedOnce ==
    /\ \A i \in SubInvoices \ unsure : charges[i] <= 1
    /\ \A p \in Periods \ raced :
          Cardinality({i \in SubInvoices : invoice[i].renewal /\ invoice[i].period = p}) <= 1

\* Money the tenant paid is on an invoice as PAID: an invoice charged once, by one
\* call that is over and did not die, and every event of a charge that was applied -
\* unless the event of a failure had found that invoice unpaid, and marked it failed
\* after it was paid.
ChargesRecorded ==
    /\ \A i \in SubInvoices \ unsure :
          charges[i] > 0 /\ Collecting(i) = {} => invoice[i].status = "PAID"
    /\ \A e \in ProviderEvents : e[1] = "CHARGED" /\ billingEvent[e] = "applied" =>
          \E i \in SubInvoices : /\ invoice[i].period = e[2]
                                 /\ invoice[i].status = "PAID" \/ invoice[i].crossed

\* What subscription billing promises tenants.
SubscriptionsSound == TenantMirrorsSubscription /\ ChargedOnce /\ ChargesRecorded
=============================================================================

------------------------------- MODULE Outbox -------------------------------
(***************************************************************************)
(* Outgoing messages: messaging.service.ts with transports.ts, and the     *)
(* campaigns of crm.service.ts that fill the outbox.  One tenant, one      *)
(* customer; a campaign message and a one-time password differ in how they *)
(* are queued and whether they are retried.                                *)
(***************************************************************************)
EXTENDS Naturals, FiniteSets

CONSTANTS
    CampaignMsgs,   \* outbox rows of the campaign, one for each request that sends it
    OtpMsgs,        \* outbox rows sent at once
    Receipts,       \* statuses the provider reports: DELIVERED, READ, FAILED
    Dispatchers,    \* processOutbox of the API instances, and sendNow
    OutboxAttempts, \* MAX_ATTEMPTS
    RatePerMinute,  \* the tenant's budget
    MaxClaims       \* bound on how often one row is claimed

ASSUME OutboxAssumption ==
    /\ CampaignMsgs \cap OtpMsgs = {} /\ "none" \notin CampaignMsgs \cup OtpMsgs
    /\ Receipts \subseteq {"DELIVERED", "READ", "FAILED"}
    /\ {OutboxAttempts, RatePerMinute, MaxClaims} \subseteq Nat \ {0}

Messages == CampaignMsgs \cup OtpMsgs

\* STATUS_RANK
Rank(s) == CASE s = "QUEUED" -> 0 [] s = "SENDING" -> 1 [] s = "SENT" -> 2
             [] s = "DELIVERED" -> 3 [] s = "READ" -> 4 [] OTHER -> 5

VARIABLES
    barred,     \* what may not be sent: marketing to an opted-out customer, or the channel
    campaign,   \* its status
    asked,      \* requests that found the campaign unsent and have not finished
    row,        \* message_outbox: status, attempts, whether it is due and has a provider id
    job,        \* what each dispatcher has claimed, its budget and what it is sending
    receipt,    \* receipts a handler has read the row for and not yet written
    sentLately, \* rows whose sentAt lies within the last minute
    claims, accepted, \* history: claims, and messages the provider accepted
    died        \* history: rows claimed by a process that died

outboxVars == <<barred, campaign, asked, row, job, receipt, sentLately, claims, accepted, died>>

NoRow == [status |-> "none", attempts |-> 0, due |-> FALSE, known |-> FALSE]
JobIdle == [todo |-> {}, budget |-> 0, at |-> "idle", on |-> "none", attempts |-> 0]

OutboxTypeOK ==
    /\ barred \in {"nothing", "marketing", "channel"} /\ campaign \in {"DRAFT", "SENT"} /\ asked \subseteq CampaignMsgs
    /\ row \in [Messages -> [status : {"none", "QUEUED", "SENDING", "SENT", "SKIPPED", "FAILED"} \cup Receipts,
                             attempts : Nat, due : BOOLEAN, known : BOOLEAN]]
    /\ job \in [Dispatchers -> [todo : SUBSET Messages, budget : 0 .. RatePerMinute,
                                at : {"idle", "counted", "now", "calling", "ok", "refused", "unsure"},
                                on : Messages \cup {"none"}, attempts : Nat]]
    /\ receipt \in [Messages -> SUBSET Receipts]
    /\ sentLately \subseteq Messages

OutboxInit ==
    /\ barred = "nothing" /\ campaign = "DRAFT" /\ asked = {}
    /\ row = [m \in Messages |-> NoRow]
    /\ job = [p \in Dispatchers |-> JobIdle]
    /\ receipt = [m \in Messages |-> {}]
    /\ sentLately = {}
    /\ claims = [m \in Messages |-> 0] /\ accepted = [m \in Messages |-> 0]
    /\ died = {}

----------------------------------------------------------------------------
(* Opting out and queueing. *)

\* optOut from the console or an inbound STOP, removeOptOut, and saveConfig
ChangeConsent(b) ==
    /\ barred # b /\ barred' = b
    /\ UNCHANGED <<campaign, asked, row, job, receipt, sentLately, claims, accepted, died>>

\* sendCampaign checks the status first and sets it last
SendCampaign(m) ==
    /\ campaign # "SENT" /\ m \notin asked /\ row[m] = NoRow
    /\ asked' = asked \cup {m}
    /\ UNCHANGED <<barred, campaign, row, job, receipt, sentLately, claims, accepted, died>>

\* skipReason
Skip(m) == barred = "channel" \/ (barred = "marketing" /\ m \in CampaignMsgs)

Queued(m) == [status |-> IF Skip(m) THEN "SKIPPED" ELSE "QUEUED", attempts |-> 0, due |-> TRUE, known |-> FALSE]

EnqueueCampaign(m) ==
    /\ m \in asked /\ row[m] = NoRow
    /\ row' = [row EXCEPT ![m] = Queued(m)]
    /\ UNCHANGED <<barred, campaign, asked, job, receipt, sentLately, claims, accepted, died>>

MarkCampaignSent(m) ==
    /\ m \in asked /\ row[m] # NoRow
    /\ asked' = asked \ {m} /\ campaign' = "SENT"
    /\ UNCHANGED <<barred, row, job, receipt, sentLately, claims, accepted, died>>

\* sendNow stores the row QUEUED, due at once, and claims it in a second statement
EnqueueNow(p, m) ==
    /\ job[p] = JobIdle /\ row[m] = NoRow
    /\ row' = [row EXCEPT ![m] = Queued(m)]
    /\ job' = [job EXCEPT ![p] = IF Skip(m) THEN JobIdle ELSE [JobIdle EXCEPT !.at = "now", !.on = m]]
    /\ UNCHANGED <<barred, campaign, asked, receipt, sentLately, claims, accepted, died>>

ClaimNow(p) ==
    LET m == job[p].on
    IN  /\ job[p].at = "now"
        /\ row' = [row EXCEPT ![m].status = "SENDING", ![m].attempts = 1]
        /\ job' = [job EXCEPT ![p].at = "calling", ![p].attempts = 1]
        /\ claims' = [claims EXCEPT ![m] = @ + 1]
        /\ UNCHANGED <<barred, campaign, asked, receipt, sentLately, accepted, died>>

----------------------------------------------------------------------------
(* processOutbox. *)

ClaimDue(p) ==
    LET due == {m \in Messages : row[m].status = "QUEUED" /\ row[m].due /\ claims[m] < MaxClaims}
    IN  /\ job[p] = JobIdle /\ due # {}
        /\ row' = [m \in Messages |-> IF m \in due
                      THEN [row[m] EXCEPT !.status = "SENDING", !.attempts = @ + 1] ELSE row[m]]
        /\ job' = [job EXCEPT ![p].todo = due]
        /\ claims' = [m \in Messages |-> IF m \in due THEN claims[m] + 1 ELSE claims[m]]
        /\ UNCHANGED <<barred, campaign, asked, receipt, sentLately, accepted, died>>

\* variant: the budget is not cut off at zero, which messages sent at once can pass
BudgetUncut(sent) == RatePerMinute - sent

Budget(sent) == IF sent >= RatePerMinute THEN 0 ELSE RatePerMinute - sent

\* the budget is counted once for the pass
CountBudget(p) ==
    /\ job[p].at = "idle" /\ job[p].todo # {}
    /\ job' = [job EXCEPT ![p].at = "counted", ![p].budget = Budget(Cardinality(sentLately))]
    /\ UNCHANGED <<barred, campaign, asked, row, receipt, sentLately, claims, accepted, died>>

\* variant: a row over the budget is skipped without being put back
PutBackNot(m) == UNCHANGED row

PutBack(m) ==
    row' = [row EXCEPT ![m].status = "QUEUED", ![m].attempts = @ - 1, ![m].due = FALSE]

\* after its last row the dispatcher is done
Rest(j, m) == IF j.todo = {m} THEN JobIdle ELSE [j EXCEPT !.todo = @ \ {m}, !.at = "counted", !.on = "none"]

Defer(p, m) ==
    /\ job[p].at = "counted" /\ m \in job[p].todo /\ job[p].budget = 0
    /\ PutBack(m)
    /\ job' = [job EXCEPT ![p] = Rest(@, m)]
    /\ UNCHANGED <<barred, campaign, asked, receipt, sentLately, claims, accepted, died>>

StartDeliver(p, m) ==
    /\ job[p].at = "counted" /\ m \in job[p].todo /\ job[p].budget > 0
    /\ job' = [job EXCEPT ![p].at = "calling", ![p].on = m, ![p].budget = @ - 1,
                          ![p].attempts = row[m].attempts]
    /\ UNCHANGED <<barred, campaign, asked, row, receipt, sentLately, claims, accepted, died>>

\* dispatch through the transport: accepted, refused for good (4xx, no template), or
\* a timeout, 429 or 5xx, after which the provider may have accepted it all the same
Dispatch(p) ==
    /\ job[p].at = "calling"
    /\ \E got \in BOOLEAN, result \in {"ok", "refused", "unsure"} :
          /\ result = "ok" => got
          /\ result = "refused" => ~got
          /\ job' = [job EXCEPT ![p].at = result]
          /\ accepted' = [accepted EXCEPT ![job[p].on] = IF got THEN @ + 1 ELSE @]
    /\ UNCHANGED <<barred, campaign, asked, row, receipt, sentLately, claims, died>>

\* variant: a timeout counts as sent
WentOutUnsure(p) == job[p].at \in {"ok", "unsure"}

WentOut(p) == job[p].at = "ok"

\* deliver records the outcome by the row's id
RecordOutcome(p) ==
    LET m == job[p].on
        retry == job[p].at = "unsure" /\ job[p].attempts < OutboxAttempts /\ m \notin OtpMsgs
    IN  /\ job[p].at \in {"ok", "refused", "unsure"}
        /\ row' = [row EXCEPT ![m] =
              IF WentOut(p) THEN [@ EXCEPT !.status = "SENT", !.known = TRUE]
              ELSE IF retry THEN [@ EXCEPT !.status = "QUEUED", !.due = FALSE]
              ELSE [@ EXCEPT !.status = "FAILED"]]
        /\ sentLately' = IF WentOut(p) THEN sentLately \cup {m} ELSE sentLately
        /\ job' = [job EXCEPT ![p] = IF @.todo = {} THEN JobIdle ELSE Rest(@, m)]
        /\ UNCHANGED <<barred, campaign, asked, receipt, claims, accepted, died>>

\* nextAttemptAt comes round
BackoffPasses(m) ==
    /\ row[m].status = "QUEUED" /\ ~row[m].due
    /\ row' = [row EXCEPT ![m].due = TRUE]
    /\ UNCHANGED <<barred, campaign, asked, job, receipt, sentLately, claims, accepted, died>>

MinutePasses ==
    /\ sentLately # {} /\ sentLately' = {}
    /\ UNCHANGED <<barred, campaign, asked, row, job, receipt, claims, accepted, died>>

DispatcherDies(p) ==
    /\ job[p] # JobIdle
    /\ job' = [job EXCEPT ![p] = JobIdle]
    /\ died' = died \cup job[p].todo \cup ({job[p].on} \ {"none"})
    /\ UNCHANGED <<barred, campaign, asked, row, receipt, sentLately, claims, accepted>>

----------------------------------------------------------------------------
(* Delivery receipts: applyDelivery reads the row, then writes it. *)

ReadReceipt(m, s) ==
    /\ accepted[m] > 0 /\ row[m].known /\ s \notin receipt[m]
    /\ Rank(s) > Rank(row[m].status) \/ (s = "FAILED" /\ row[m].status = "SENT")
    /\ receipt' = [receipt EXCEPT ![m] = @ \cup {s}]
    /\ UNCHANGED <<barred, campaign, asked, row, job, sentLately, claims, accepted, died>>

ApplyReceipt(m, s) ==
    /\ s \in receipt[m]
    /\ receipt' = [receipt EXCEPT ![m] = @ \ {s}]
    /\ row' = [row EXCEPT ![m].status = s]
    /\ UNCHANGED <<barred, campaign, asked, job, sentLately, claims, accepted, died>>

----------------------------------------------------------------------------

OutboxNext ==
    \/ MinutePasses \/ \E b \in {"nothing", "marketing", "channel"} : ChangeConsent(b)
    \/ \E m \in CampaignMsgs : SendCampaign(m) \/ EnqueueCampaign(m) \/ MarkCampaignSent(m)
    \/ \E p \in Dispatchers :
          \/ \E m \in OtpMsgs : EnqueueNow(p, m)
          \/ \E m \in Messages : Defer(p, m) \/ StartDeliver(p, m)
          \/ ClaimNow(p) \/ ClaimDue(p) \/ CountBudget(p) \/ Dispatch(p) \/ RecordOutcome(p) \/ DispatcherDies(p)
    \/ \E m \in Messages : BackoffPasses(m) \/ \E s \in Receipts : ReadReceipt(m, s) \/ ApplyReceipt(m, s)

OutboxSpec == OutboxInit /\ [][OutboxNext]_outboxVars

----------------------------------------------------------------------------
(* Properties. *)

OutboxState(m) ==
    CASE row[m].status = "none" -> "absent"
      [] row[m].status = "SKIPPED" -> "refused"
      [] row[m].status \in {"QUEUED", "SENDING"} -> "open"
      [] row[m].status = "FAILED" -> "failed"
      [] OTHER -> "done"

OutboxQueue == INSTANCE JobQueue WITH
    Jobs <- Messages, state <- [m \in Messages |-> OutboxState(m)],
    taken <- claims, handed <- accepted

\* The outbox is a job queue: a message skipped for an opt-out or a disabled
\* channel is never sent, one is reported sent, delivered or read only after the
\* provider accepted it, and it is accepted no more often than it was claimed.
OutboxImplementsQueue == OutboxQueue!QueueSpec

\* Every message in the sending state is one a live dispatcher still has to send or
\* put back, or one whose dispatcher died: the rate limit, retries and the two
\* ways of claiming leave no message behind.
NoMessageLeftSending ==
    \A m \in Messages \ died : row[m].status = "SENDING" =>
        \E p \in Dispatchers : m \in job[p].todo \/ m = job[p].on
=============================================================================

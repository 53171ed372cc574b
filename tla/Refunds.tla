------------------------------ MODULE Refunds ------------------------------
(***************************************************************************)
(* Refunds of one settled order: CashService.refund                        *)
(* (apps/api/src/payments/cash.service.ts), the Razorpay client            *)
(* (payments/razorpay.gateway.ts), the refund webhook and the recovery     *)
(* worker (gateway-payments/gateway-payments.service.ts).                  *)
(*                                                                         *)
(* The API reserves a refund in one transaction under the order's row lock,*)
(* submits it to the provider outside any lock, and writes the answer.     *)
(* Webhooks, the recovery worker and an operator's reconcile-now resolve   *)
(* the same row concurrently.  A task is such an activity after its first  *)
(* database step; the API's task for a refund carries the refund's id.     *)
(***************************************************************************)
EXTENDS Naturals, FiniteSets, FiniteSetsExt

CONSTANTS
    Refunds,   \* ids of refunds rows, the least unused is next
    Workers,   \* recovery ticks on any replica and operators' reconcile-now calls
    Amounts,   \* amounts asked for, in paise
    Keys,      \* request keys clients send and resend, NoKey among them if some send none
    Limit,     \* min(order total, recorded payments)
    Captured,  \* Captured[g]: amount of the order's gth PAID gateway payment, oldest first
    NoKey, NoPayment, NoRefund

Payments == DOMAIN Captured
Tasks == Refunds \cup Workers

ASSUME RefundsAssumption ==
    /\ Refunds \subseteq Nat /\ Refunds \cap Workers = {}
    /\ Amounts \subseteq Nat \ {0} /\ Limit \in Nat
    /\ Payments \subseteq Nat /\ Captured \in [Payments -> Nat]
    /\ NoPayment \notin Payments /\ NoRefund \notin Refunds

VARIABLES
    refunds,   \* the refunds table
    ledger,    \* money returned in cash through the drawer, and issued as store credit
    task,      \* the state of each task
    wire,      \* refund submissions on their way to the provider
    provider,  \* the provider's refund for each receipt (receipt = refund id)
    seen       \* gateway_events: webhook events recorded

vars == <<refunds, ledger, task, wire, provider, seen>>

Unresolved == {"PENDING", "UNKNOWN"}
Terminal == {"PROCESSED", "FAILED"}
RefundRow == [status : {"NONE", "MANUAL"} \cup Unresolved \cup Terminal, amount : Amounts \cup {0},
              mode : {"CASH", "GIFT_CARD", "UPI"}, key : Keys \cup {NoKey},
              payment : Payments \cup {NoPayment}]
Absent == [status |-> "NONE", amount |-> 0, mode |-> "CASH", key |-> NoKey, payment |-> NoPayment]

ProviderStatus == {"pending", "processed", "failed"}
\* "error": no answer; "refused": a 4xx answer with no earlier refund to return
Answers == ProviderStatus \cup {"error", "refused"}
Task == [pc : {"idle", "find", "wait", "write"}, refund : Refunds \cup {NoRefund},
         from : Unresolved, answer : Answers]
Idle == [pc |-> "idle", refund |-> NoRefund, from |-> "PENDING", answer |-> "error"]

Init ==
    /\ refunds = [i \in Refunds |-> Absent]
    /\ ledger = [cash |-> 0, credit |-> 0]
    /\ task = [a \in Tasks |-> Idle]
    /\ wire = {}
    /\ provider = [i \in Refunds |-> "none"]
    /\ seen = {}

----------------------------------------------------------------------------

AmountOf(S) == MapThenSumSet(LAMBDA i : refunds[i].amount, S)
Rows == {i \in Refunds : refunds[i].status # "NONE"}

\* variant: an uncertain refund does not keep its amount reserved
ReservedSettled == {i \in Rows : refunds[i].status \notin {"FAILED", "UNKNOWN"}}

\* only a verified failure releases the amount
Reserved == {i \in Rows : refunds[i].status # "FAILED"}

\* variant: the provider's status is stored as it came
StatusOfRaw(s) == s

\* refundStatusOf
StatusOf(s) == CASE s = "processed" -> "PROCESSED" [] s = "failed" -> "FAILED" [] OTHER -> "PENDING"

\* captured payments with enough left to refund amount from
Fitting(amount) ==
    {g \in Payments : AmountOf({i \in Reserved : refunds[i].payment = g}) + amount <= Captured[g]}

NewRow(amount, mode, key) ==
    LET fits == IF mode = "UPI" THEN Fitting(amount) ELSE {}
    IN  [amount |-> amount, mode |-> mode, key |-> key,
         payment |-> IF fits = {} THEN NoPayment ELSE Min(fits),
         status |-> IF mode # "UPI" THEN "PROCESSED"
                    ELSE IF fits = {} THEN "MANUAL" ELSE "PENDING"]

\* Task a submits refund i with the refund id as its receipt.  The submission may
\* be lost, the sender's crash before it is sent included, and it may arrive
\* after its sender gave up.
Submit(a, i) ==
    /\ wire' = wire \cup {i}
    /\ task' = [task EXCEPT ![a].pc = "wait", ![a].refund = i]

\* the key was used: the earlier refund is returned, or the details differ
Replayed(key) == key # NoKey /\ \E i \in Rows : refunds[i].key = key

\* the transaction of CashService.refund; the cash movement needs an open drawer
Reserve(amount, mode, key) ==
    /\ ~Replayed(key)
    /\ AmountOf(Reserved) + amount <= Limit
    /\ Rows # Refunds
    /\ LET i == Min(Refunds \ Rows)
           row == NewRow(amount, mode, key)
       IN  /\ refunds' = [refunds EXCEPT ![i] = row]
           /\ IF row.status = "PENDING" THEN Submit(i, i) ELSE UNCHANGED <<task, wire>>
    /\ \E drawerOpen \in BOOLEAN :
          ledger' = [cash |-> ledger.cash + IF mode = "CASH" /\ drawerOpen THEN amount ELSE 0,
                     credit |-> ledger.credit + IF mode = "GIFT_CARD" THEN amount ELSE 0]
    /\ UNCHANGED <<provider, seen>>

----------------------------------------------------------------------------
(* Answers.  The sender of a submission waits for one, or gives up. *)

Answered(a, answer) == task' = [task EXCEPT ![a].pc = "write", ![a].answer = answer]

\* the provider's refund, or the one an earlier submission made
Answer(a) ==
    /\ task[a].pc = "wait"
    /\ provider[task[a].refund] # "none"
    /\ Answered(a, provider[task[a].refund])
    /\ UNCHANGED <<refunds, ledger, wire, provider, seen>>

\* the 15 s timeout or a transport failure
TimeOut(a) ==
    /\ task[a].pc = "wait"
    /\ Answered(a, "error")
    /\ UNCHANGED <<refunds, ledger, wire, provider, seen>>

\* a 4xx with no earlier refund found; to the API that is one more error
Refuse(w) ==
    /\ task[w].pc = "wait"
    /\ Answered(w, "refused")
    /\ wire' = wire \ {task[w].refund}
    /\ UNCHANGED <<refunds, ledger, provider, seen>>

\* variant: an error is taken as a failure
WriteApiFailed(i) ==
    /\ task[i].pc = "write"
    /\ refunds' = [refunds EXCEPT ![i].status = IF task[i].answer \in ProviderStatus
                                                THEN StatusOf(task[i].answer) ELSE "FAILED"]
    /\ task' = [task EXCEPT ![i] = Idle]
    /\ UNCHANGED <<ledger, wire, provider, seen>>

\* the API writes what it was answered, whatever the row holds by now
WriteApi(i) ==
    /\ task[i].pc = "write"
    /\ refunds' = [refunds EXCEPT ![i].status = IF task[i].answer \in ProviderStatus
                                                THEN StatusOf(task[i].answer) ELSE "UNKNOWN"]
    /\ task' = [task EXCEPT ![i] = Idle]
    /\ UNCHANGED <<ledger, wire, provider, seen>>

\* the API process dies with its task; so does a recovery tick
Crash(a) ==
    /\ task[a].pc # "idle"
    /\ task' = [task EXCEPT ![a] = Idle]
    /\ UNCHANGED <<refunds, ledger, wire, provider, seen>>

----------------------------------------------------------------------------
(* The provider (external).  It refuses a receipt it has already used.      *)

Accept(i) ==
    /\ i \in wire
    /\ wire' = wire \ {i}
    /\ provider' = [provider EXCEPT ![i] = IF @ = "none" THEN "pending" ELSE @]
    /\ UNCHANGED <<refunds, ledger, task, seen>>

Lose(i) ==
    /\ i \in wire
    /\ wire' = wire \ {i}
    /\ UNCHANGED <<refunds, ledger, task, provider, seen>>

PayOut(i) ==
    /\ provider[i] = "pending"
    /\ \E s \in {"processed", "failed"} : provider' = [provider EXCEPT ![i] = s]
    /\ UNCHANGED <<refunds, ledger, task, wire, seen>>

----------------------------------------------------------------------------
(* Webhooks.  The provider sends refund.created and one refund.processed or *)
(* refund.failed, in any order and as often as it likes.                    *)

Events == [refund : Refunds, status : ProviderStatus]
Sent == {e \in Events : provider[e.refund] \in {e.status} \cup (IF e.status = "pending"
                                                               THEN {"processed", "failed"} ELSE {})}

Resolve(i, s) ==
    refunds' = IF refunds[i].status \in Unresolved
               THEN [refunds EXCEPT ![i].status = StatusOf(s)] ELSE refunds

\* The event is recorded, and a redelivery of a recorded event stops here; then
\* it is applied.  Only redeliveries can see the two apart.
HandleEvent(e) ==
    /\ e \in Sent \ seen
    /\ seen' = seen \cup {e}
    /\ Resolve(e.refund, e.status)
    /\ UNCHANGED <<ledger, task, wire, provider>>

\* a crash after recording: no redelivery applies the event any more
DropEvent(e) ==
    /\ e \in Sent \ seen
    /\ seen' = seen \cup {e}
    /\ UNCHANGED <<refunds, ledger, task, wire, provider>>

----------------------------------------------------------------------------
(* Recovery.  The claim through reconciledAt only spaces ticks out: an      *)
(* operator's reconcile-now does not take it, and a claim lapses with time. *)

StartReconcile(w, i) ==
    /\ task[w].pc = "idle"
    /\ refunds[i].status \in Unresolved
    /\ task' = [task EXCEPT ![w] = [Idle EXCEPT !.pc = "find", !.refund = i,
                                                !.from = refunds[i].status]]
    /\ UNCHANGED <<refunds, ledger, wire, provider, seen>>

\* variant: a refund the provider has not seen is not submitted again
FindRefundOnly(w) ==
    LET i == task[w].refund
    IN  /\ task[w].pc = "find"
        /\ IF provider[i] = "none" THEN Answered(w, "refused") ELSE Answered(w, provider[i])
        /\ UNCHANGED <<refunds, ledger, wire, provider, seen>>

\* submit again only what the provider has never seen
FindRefund(w) ==
    LET i == task[w].refund
    IN  /\ task[w].pc = "find"
        /\ \/ provider[i] = "none" /\ Submit(w, i)
           \/ provider[i] # "none" /\ Answered(w, provider[i]) /\ UNCHANGED wire
        /\ UNCHANGED <<refunds, ledger, provider, seen>>

FindFails(w) ==
    /\ task[w].pc = "find"
    /\ Answered(w, "error")
    /\ UNCHANGED <<refunds, ledger, wire, provider, seen>>

WriteRecovered(w) ==
    /\ task[w].pc = "write"
    /\ task[w].answer \in ProviderStatus
    /\ Resolve(task[w].refund, task[w].answer)
    /\ task' = [task EXCEPT ![w] = Idle]
    /\ UNCHANGED <<ledger, wire, provider, seen>>

\* still uncertain: the reservation stays, the next tick tries again
WriteUncertain(w) ==
    LET i == task[w].refund
        unknown == /\ task[w].answer = "error" /\ task[w].from = "PENDING"
                   /\ refunds[i].status = "PENDING"
    IN  /\ task[w].pc = "write"
        /\ task[w].answer \notin ProviderStatus
        /\ refunds' = IF unknown THEN [refunds EXCEPT ![i].status = "UNKNOWN"] ELSE refunds
        /\ task' = [task EXCEPT ![w] = Idle]
        /\ UNCHANGED <<ledger, wire, provider, seen>>

----------------------------------------------------------------------------

Next ==
    \/ \E amount \in Amounts, mode \in {"CASH", "GIFT_CARD", "UPI"}, key \in Keys :
          Reserve(amount, mode, key)
    \/ \E a \in Tasks : Answer(a) \/ TimeOut(a) \/ Crash(a)
    \/ \E i \in Refunds : WriteApi(i) \/ Accept(i) \/ Lose(i) \/ PayOut(i)
    \/ \E e \in Events : HandleEvent(e) \/ DropEvent(e)
    \/ \E w \in Workers : \/ FindRefund(w) \/ FindFails(w) \/ Refuse(w)
                          \/ WriteRecovered(w) \/ WriteUncertain(w)
                          \/ \E i \in Refunds : StartReconcile(w, i)

Spec == Init /\ [][Next]_vars

(* Ticks run every minute for ever, and neither the network, the processes *)
(* nor the provider fail at the same point every time.  Nothing is assumed *)
(* of the API's own task or of webhooks.                                   *)
For(w, i) == task[w].refund = i
Fairness ==
    \A i \in Refunds :
        /\ WF_vars(PayOut(i))
        /\ SF_vars(Accept(i))
        /\ SF_vars(\E w \in Workers : StartReconcile(w, i))
        /\ SF_vars(\E w \in Workers : For(w, i) /\ FindRefund(w))
        /\ SF_vars(\E w \in Workers : For(w, i) /\ WriteRecovered(w))
        /\ WF_vars(\E w \in Workers : For(w, i) /\ (TimeOut(w) \/ WriteUncertain(w)))

LiveSpec == Spec /\ Fairness

----------------------------------------------------------------------------
(* Properties. *)

\* Every variable keeps its type.
TypeOK ==
    /\ refunds \in [Refunds -> RefundRow]
    /\ ledger \in [cash : Nat, credit : Nat]
    /\ task \in [Tasks -> Task]
    /\ \A i \in Refunds : task[i].pc # "idle" => task[i].refund = i
    /\ \A a \in Tasks : task[a].pc # "idle" => task[a].refund \in Refunds
    /\ wire \subseteq Refunds
    /\ provider \in [Refunds -> ProviderStatus \cup {"none"}]
    /\ seen \subseteq Events

\* A refund row never claims an outcome the provider did not reach: FAILED,
\* which releases the amount, means the provider failed it, and PROCESSED means
\* it paid, although timeouts, late answers, webhooks and recovery race.
AgreesWithProvider ==
    \A i \in Refunds : refunds[i].payment # NoPayment =>
        /\ refunds[i].status = "FAILED" => provider[i] = "failed"
        /\ refunds[i].status = "PROCESSED" => provider[i] = "processed"

\* The inductive strengthening of AgreesWithProvider: an outcome a task was
\* answered still holds when the task writes it, for the provider settles once.
AnswersHold ==
    \A a \in Tasks : task[a].pc = "write" /\ task[a].answer \in {"processed", "failed"} =>
        provider[task[a].refund] = task[a].answer
AgreeInv == TypeOK /\ AgreesWithProvider /\ AnswersHold

\* Money out never exceeds what was taken for the order, nor what one captured
\* payment holds, whatever is still uncertain: a refund counts until the provider
\* has failed it.
Outstanding == {i \in Rows : provider[i] # "failed"}
OutflowWithinLimit ==
    /\ AmountOf(Outstanding) <= Limit
    /\ \A g \in Payments : AmountOf({i \in Outstanding : refunds[i].payment = g}) <= Captured[g]
    /\ ledger.cash + ledger.credit <= Limit

\* Every refund left open by a timeout, a crash or a lost webhook is finally
\* resolved for good, and as the provider resolved it.
RefundsResolve ==
    \A i \in Refunds : refunds[i].status \in Unresolved ~> [](/\ refunds[i].status \in Terminal
                                                             /\ refunds[i].status = StatusOf(provider[i]))
============================================================================

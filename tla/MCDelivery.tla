---------------------------- MODULE MCDelivery ----------------------------
(* Instance of the three outgoing queues for TLC, composed as in MCCounter: *)
(* a behaviour runs one queue and leaves the others, with which it shares   *)
(* no state, at their initial states.                                       *)
EXTENDS Webhooks, Outbox, Printing, TLC

VARIABLE queue \* which component this behaviour runs

deliveryVars == <<queue, hookVars, outboxVars, printVars>>

DeliveryInit ==
    /\ queue \in {"webhooks", "outbox", "printing"}
    /\ HookInit /\ OutboxInit /\ PrintInit

DeliveryNext ==
    /\ UNCHANGED queue
    /\ \/ /\ queue = "webhooks" /\ HookNext
          /\ UNCHANGED <<outboxVars, printVars>>
       \/ /\ queue = "outbox" /\ OutboxNext
          /\ UNCHANGED <<hookVars, printVars>>
       \/ /\ queue = "printing" /\ PrintNext
          /\ UNCHANGED <<hookVars, outboxVars>>

DeliverySpec == DeliveryInit /\ [][DeliveryNext]_deliveryVars

\* Every row, worker and counter of the three queues keeps its type.
DeliveryTypeOK == HookTypeOK /\ OutboxTypeOK /\ PrintTypeOK

WorkerSymmetry == Permutations(Senders) \cup Permutations(Dispatchers)
============================================================================

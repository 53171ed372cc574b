----------------------------- MODULE MCCounter -----------------------------
(* Instance of the components at the till and on the floor for TLC.  They   *)
(* share no state, so a behaviour runs one of them, chosen at the start,    *)
(* and leaves the others at their initial states: what holds of every such  *)
(* behaviour holds of each component on its own, and the state spaces add   *)
(* up instead of multiplying.                                               *)
EXTENDS Tender, CashBook, Collections, ScanOrders, TableService, Reservations, Money, TLC

VARIABLE desk \* which component this behaviour runs

counterVars == <<desk, tenderVars, cashVars, collectVars, scanVars, tableVars, bookVars, ticket>>

CounterInit ==
    /\ desk \in {"tenders", "drawer", "collections", "scan", "service", "bookings", "split"}
    /\ TenderInit /\ CashInit /\ CollectInit /\ ScanInit /\ TableInit /\ BookInit /\ MoneyInit
    /\ desk # "collections" => live

CounterNext ==
    /\ UNCHANGED desk
    /\ \/ /\ desk = "tenders" /\ TenderNext
          /\ UNCHANGED <<cashVars, collectVars, scanVars, tableVars, bookVars, ticket>>
       \/ /\ desk = "drawer" /\ CashNext
          /\ UNCHANGED <<tenderVars, collectVars, scanVars, tableVars, bookVars, ticket>>
       \/ /\ desk = "collections" /\ CollectNext
          /\ UNCHANGED <<tenderVars, cashVars, scanVars, tableVars, bookVars, ticket>>
       \/ /\ desk = "scan" /\ ScanNext
          /\ UNCHANGED <<tenderVars, cashVars, collectVars, tableVars, bookVars, ticket>>
       \/ /\ desk = "service" /\ TableNext
          /\ UNCHANGED <<tenderVars, cashVars, collectVars, scanVars, bookVars, ticket>>
       \/ /\ desk = "bookings" /\ BookNext
          /\ UNCHANGED <<tenderVars, cashVars, collectVars, scanVars, tableVars, ticket>>
       \/ /\ desk = "split" /\ MoneyNext
          /\ UNCHANGED <<tenderVars, cashVars, collectVars, scanVars, tableVars, bookVars>>

CounterSpec == CounterInit /\ [][CounterNext]_counterVars

\* Every row, lock and request of the components at the counter keeps its type.
CounterTypeOK == TenderTypeOK /\ CashTypeOK /\ CollectTypeOK /\ ScanTypeOK /\ TableTypeOK
                 /\ BookTypeOK /\ MoneyTypeOK

\* Requests of guests and staff that race are served once: a scanned request is
\* punched once, a guest seated once, a cart taken once, a call open once, and a
\* table promised once for a time.
FloorSound == ScanSound /\ ServedOnce /\ BookingsSound

Member == [NoPlan EXCEPT !.phone = TRUE]
MCPlans == {[Member EXCEPT !.coupon = TRUE, !.cards = {1, 2}],
            [Member EXCEPT !.redeem = TRUE, !.code = 1],
            [NoPlan EXCEPT !.cards = {1, 2}, !.coupon = TRUE]}
MCWishes == {[start |-> 0, minutes |-> 2, tables |-> {1}],
             [start |-> 1, minutes |-> 1, tables |-> {1, 2}]}
HostSymmetry == Permutations(Hosts)
MCLineRates == <<500, 1800>>
MCServiceRules == {[percent |-> 0, taxable |-> FALSE], [percent |-> 725, taxable |-> TRUE]}
============================================================================

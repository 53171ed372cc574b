----------------------------- MODULE MCOffice -----------------------------
(* Instance of the back-office components for TLC, composed as in           *)
(* MCCounter: a behaviour runs one component and leaves the others, with    *)
(* which it shares no state, at their initial states.                       *)
EXTENDS Stock, CatalogFeed, Aggregators, Procurement, Subscriptions, Payroll, EInvoices

VARIABLE office \* which component this behaviour runs

officeVars == <<office, stockVars, feedVars, aggVars, procureVars, subVars, payVars, einvVars>>

OfficeInit ==
    /\ office \in {"stock", "feed", "platform", "buying", "saas", "payroll", "einvoice"}
    /\ StockInit /\ FeedInit /\ AggInit /\ ProcureInit /\ SubInit /\ PayInit /\ EInvInit
    /\ office # "saas" => realProvider
    /\ office # "platform" => live

OfficeNext ==
    /\ UNCHANGED office
    /\ \/ /\ office = "stock" /\ StockNext
          /\ UNCHANGED <<feedVars, aggVars, procureVars, subVars, payVars, einvVars>>
       \/ /\ office = "feed" /\ FeedNext
          /\ UNCHANGED <<stockVars, aggVars, procureVars, subVars, payVars, einvVars>>
       \/ /\ office = "platform" /\ AggNext
          /\ UNCHANGED <<stockVars, feedVars, procureVars, subVars, payVars, einvVars>>
       \/ /\ office = "buying" /\ ProcureNext
          /\ UNCHANGED <<stockVars, feedVars, aggVars, subVars, payVars, einvVars>>
       \/ /\ office = "saas" /\ SubNext
          /\ UNCHANGED <<stockVars, feedVars, aggVars, procureVars, payVars, einvVars>>
       \/ /\ office = "payroll" /\ PayNext
          /\ UNCHANGED <<stockVars, feedVars, aggVars, procureVars, subVars, einvVars>>
       \/ /\ office = "einvoice" /\ EInvNext
          /\ UNCHANGED <<stockVars, feedVars, aggVars, procureVars, subVars, payVars>>

OfficeSpec == OfficeInit /\ [][OfficeNext]_officeVars

\* Every row, lock and request of the back office keeps its type.
OfficeTypeOK == StockTypeOK /\ FeedTypeOK /\ AggTypeOK /\ ProcureTypeOK /\ SubTypeOK /\ PayTypeOK /\ EInvTypeOK

\* The books agree with what happened: receipts and supplier payments with orders
\* and bills, recoveries with payslips, e-invoices with the tax portal.
BooksSound == ProcurementSound /\ PayrollSound /\ InvoicesSound

MCPrep == [m \in {"gravy"} |-> {"onion"}]
MCDeviceOf == [p \in Pullers |-> "till"]
MCProviderEvents == {"CHARGED", "PAYMENT_FAILED", "CANCELLED"} \X {1}
============================================================================

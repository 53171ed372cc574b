----------------------------- MODULE EInvoices -----------------------------
(***************************************************************************)
(* The e-invoice of one settled bill: invoices.service.ts and              *)
(* masters-india.provider.ts of apps/api/src/invoices.                     *)
(*                                                                         *)
(* A request reads the invoice row, calls the tax portal (IRP) and writes  *)
(* the row afterwards, without a lock or a transaction around the three.   *)
(* A call may be answered, refused, or time out and still reach the portal *)
(* later.  The portal gives a document one IRN for ever.  Amounts, HSN     *)
(* rows and addresses are left out.  With the mock provider calls always   *)
(* answer, which is one of the behaviours below.                           *)
(***************************************************************************)
EXTENDS Naturals

CONSTANT Filers \* concurrent requests

VARIABLES
    inv,        \* the invoices row: has it an IRN, its status, has it an e-way bill
    irp,        \* what the portal holds of the document
    posted,     \* calls that timed out here and may still reach the portal
    lostCancel, \* a cancellation ended here without its result being written
    crossed,    \* an IRN was stored over one that had been stored meanwhile
    filer       \* what each request is at

einvVars == <<inv, irp, posted, lostCancel, crossed, filer>>

PortalCalls == {"irn", "cancel", "eway"}

EInvTypeOK ==
    /\ inv \in [irn: BOOLEAN, status: {"PENDING", "GENERATED", "CANCELLED"}, ewb: BOOLEAN]
    /\ irp \in [irn: {"NONE", "ACTIVE", "CANCELLED"}, ewb: BOOLEAN]
    /\ posted \subseteq PortalCalls /\ lostCancel \in BOOLEAN /\ crossed \in BOOLEAN
    /\ filer \in [Filers -> {"idle", "irn", "lookup", "store", "storeEwb",
                             "cancel", "cancelled", "eway", "ewayed"}]

EInvInit ==
    /\ inv = [irn |-> FALSE, status |-> "PENDING", ewb |-> FALSE]
    /\ irp = [irn |-> "NONE", ewb |-> FALSE]
    /\ posted = {} /\ lostCancel = FALSE /\ crossed = FALSE
    /\ filer = [f \in Filers |-> "idle"]

Goto(f, at) == filer' = [filer EXCEPT ![f] = at]

----------------------------------------------------------------------------
(* The first step of a request: its checks. *)

BeginIrn(f) == filer[f] = "idle" /\ ~inv.irn /\ Goto(f, "irn")
BeginCancel(f) == filer[f] = "idle" /\ inv.irn /\ inv.status # "CANCELLED" /\ Goto(f, "cancel")
BeginEway(f) == filer[f] = "idle" /\ inv.irn /\ inv.status = "GENERATED" /\ ~inv.ewb /\ Goto(f, "eway")

Begin(f) ==
    /\ BeginIrn(f) \/ BeginCancel(f) \/ BeginEway(f)
    /\ UNCHANGED <<inv, irp, posted, lostCancel, crossed>>

----------------------------------------------------------------------------
(* The portal. *)

Accepts(call) == \/ call = "irn" /\ irp.irn = "NONE"
                 \/ call = "cancel" /\ irp.irn = "ACTIVE"
                 \/ call = "eway" /\ irp.irn = "ACTIVE" /\ ~irp.ewb

Effect(call) == CASE call = "irn" -> [irp EXCEPT !.irn = "ACTIVE"]
                  [] call = "cancel" -> [irp EXCEPT !.irn = "CANCELLED"]
                  [] call = "eway" -> [irp EXCEPT !.ewb = TRUE]

AfterAnswer(call) == CASE call = "irn" -> "store" [] call = "cancel" -> "cancelled" [] call = "eway" -> "ewayed"

Answered(f) ==
    /\ filer[f] \in PortalCalls /\ Accepts(filer[f])
    /\ irp' = Effect(filer[f])
    /\ Goto(f, AfterAnswer(filer[f]))
    /\ UNCHANGED <<inv, posted, lostCancel, crossed>>

\* a duplicate (2150) is looked up; any other refusal ends the request
AfterRefusal(call) == IF call = "irn" /\ irp.irn # "NONE" THEN "lookup" ELSE "idle"

Refused(f) ==
    /\ filer[f] \in PortalCalls
    /\ \/ ~Accepts(filer[f]) /\ Goto(f, AfterRefusal(filer[f]))
       \/ Goto(f, "idle")
    /\ UNCHANGED <<inv, irp, posted, lostCancel, crossed>>

\* the outcome is unknown: generateIrn looks the document up, the others fail
AfterSilence(call) == IF call = "irn" THEN "lookup" ELSE "idle"

TimedOut(f) ==
    /\ filer[f] \in PortalCalls
    /\ posted' = posted \cup {filer[f]}
    /\ lostCancel' = (lostCancel \/ filer[f] = "cancel")
    /\ Goto(f, AfterSilence(filer[f]))
    /\ UNCHANGED <<inv, irp, crossed>>

\* a call given up on reaches the portal, or never does
Late(call) ==
    /\ call \in posted /\ posted' = posted \ {call}
    /\ irp' \in {irp} \cup (IF Accepts(call) THEN {Effect(call)} ELSE {})
    /\ UNCHANGED <<inv, lostCancel, crossed, filer>>

\* byDocument
LookUp(f) ==
    /\ filer[f] = "lookup"
    /\ \/ irp.irn # "NONE" /\ Goto(f, IF irp.ewb THEN "storeEwb" ELSE "store")
       \/ Goto(f, "idle")
    /\ UNCHANGED <<inv, irp, posted, lostCancel, crossed>>

----------------------------------------------------------------------------
(* Writing the row. *)

StoreIrn(f) ==
    /\ filer[f] \in {"store", "storeEwb"}
    /\ inv' = [irn |-> TRUE, status |-> "GENERATED", ewb |-> filer[f] = "storeEwb"]
    /\ crossed' = (crossed \/ inv.irn)
    /\ Goto(f, "idle")
    /\ UNCHANGED <<irp, posted, lostCancel>>

StoreCancel(f) ==
    /\ filer[f] = "cancelled"
    /\ inv' = [inv EXCEPT !.status = "CANCELLED"]
    /\ Goto(f, "idle")
    /\ UNCHANGED <<irp, posted, lostCancel, crossed>>

StoreEway(f) ==
    /\ filer[f] = "ewayed"
    /\ inv' = [inv EXCEPT !.ewb = TRUE]
    /\ Goto(f, "idle")
    /\ UNCHANGED <<irp, posted, lostCancel, crossed>>

\* the process dies
FilerCrash(f) ==
    /\ filer[f] # "idle"
    /\ posted' = posted \cup ({filer[f]} \cap PortalCalls)
    /\ lostCancel' = (lostCancel \/ filer[f] \in {"cancel", "cancelled"})
    /\ Goto(f, "idle")
    /\ UNCHANGED <<inv, irp, crossed>>

EInvNext ==
    \/ \E f \in Filers : \/ Begin(f) \/ Answered(f) \/ Refused(f) \/ TimedOut(f) \/ LookUp(f)
                         \/ StoreIrn(f) \/ StoreCancel(f) \/ StoreEway(f) \/ FilerCrash(f)
    \/ \E call \in PortalCalls : Late(call)

EInvSpec == EInvInit /\ [][EInvNext]_einvVars

----------------------------------------------------------------------------
\* The row never runs ahead of the portal: an IRN or e-way bill on an invoice was
\* issued, and an invoice marked cancelled is cancelled at the portal ("Cancel at
\* the IRP (via the GSP) and only then mark the invoice cancelled").
RowBehindPortal ==
    /\ inv.irn => irp.irn # "NONE"
    /\ inv.ewb => irp.ewb
    /\ inv.status = "CANCELLED" => irp.irn = "CANCELLED"

\* An invoice shown as generated that the portal has cancelled has one of three
\* reasons: the cancellation is about to be written, its result was lost, or a
\* second generation was writing its answer across it.
StaleInvoiceExplained ==
    inv.status = "GENERATED" /\ irp.irn = "CANCELLED"
        => lostCancel \/ crossed \/ \E f \in Filers : filer[f] = "cancelled"

\* Invoice row and tax portal differ only in ways the protocol cannot exclude.
InvoicesSound == RowBehindPortal /\ StaleInvoiceExplained
============================================================================

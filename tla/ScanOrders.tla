----------------------------- MODULE ScanOrders -----------------------------
(***************************************************************************)
(* Scan & order: a diner's cart becomes a request, and a member of staff   *)
(* accepts it (it is punched onto a bill and given a token number) or      *)
(* rejects it.  Source: apps/api/src/scan-order/scan-order.service.ts.     *)
(*                                                                         *)
(* Only the first statement of accept is conditional on the row's status.  *)
(* Everything after it, and all of reject, acts on what was read earlier,  *)
(* so accepts, rejects and crashes interleave between their statements.    *)
(* Punching the order (OrdersService.ingestScanOrder) is module Bills; a   *)
(* request here only counts how often it was punched.                      *)
(***************************************************************************)
EXTENDS Naturals, FiniteSets, FiniteSetsExt

CONSTANTS
    Diners,     \* the requests that can be submitted
    Staff       \* concurrent API calls of members of staff

ASSUME ScanAssumption == IsFiniteSet(Diners) /\ IsFiniteSet(Staff)

VARIABLES
    scanRow,    \* order_requests: status and token number of each request
    punched,    \* how many orders each request has been punched into
    scanCall    \* the accept or reject each member of staff has under way

scanVars == <<scanRow, punched, scanCall>>

ScanStatuses == {"NONE", "PENDING", "PROCESSING", "ACCEPTED", "REJECTED"}

NoToken == 0

NoAccept == [at |-> "idle"]

Tokens == {scanRow[r].token : r \in Diners} \ {NoToken}

ScanTypeOK ==
    /\ scanRow \in [Diners -> [status: ScanStatuses, token: 0 .. Cardinality(Diners)]]
    /\ punched \in [Diners -> Nat]
    /\ \A s \in Staff :
        \/ scanCall[s] = NoAccept
        \/ scanCall[s] \in [at: {"ingest", "revert", "number", "reject"}, req: Diners]
        \/ scanCall[s] \in [at: {"record"}, req: Diners, token: 1 .. Cardinality(Diners)]

ScanInit ==
    /\ scanRow = [r \in Diners |-> [status |-> "NONE", token |-> NoToken]]
    /\ punched = [r \in Diners |-> 0]
    /\ scanCall = [s \in Staff |-> NoAccept]

-----------------------------------------------------------------------------

\* Statements on the row.
SetStatus(r, status) == scanRow' = [scanRow EXCEPT ![r].status = status]

\* Variant of the code: a request somebody else is processing can be claimed too.
ClaimableUnlessDecided(r) == scanRow[r].status \in {"PENDING", "PROCESSING"}

\* The conditional claim every accept starts with.
RequestPending(r) == scanRow[r].status = "PENDING"

Proceed(s, at) == scanCall' = [scanCall EXCEPT ![s] = [at |-> at, req |-> scanCall[s].req]]

EndCall(s) == scanCall' = [scanCall EXCEPT ![s] = NoAccept]

\* createRequest: every item and combo is on the menu and in stock.
SubmitRequest(r) ==
    /\ scanRow[r].status = "NONE"
    /\ SetStatus(r, "PENDING")
    /\ UNCHANGED <<punched, scanCall>>

AcceptClaim(s, r) ==
    /\ scanCall[s] = NoAccept
    /\ RequestPending(r)
    /\ SetStatus(r, "PROCESSING")
    /\ scanCall' = [scanCall EXCEPT ![s] = [at |-> "ingest", req |-> r]]
    /\ UNCHANGED punched

\* ingestScanOrder commits ...
AcceptIngest(s) ==
    /\ scanCall[s].at = "ingest"
    /\ punched' = [punched EXCEPT ![scanCall[s].req] = @ + 1]
    /\ Proceed(s, "number")
    /\ UNCHANGED scanRow

\* ... or fails (an item ran out, the table is gone) and changes nothing.
AcceptIngestFails(s) ==
    /\ scanCall[s].at = "ingest"
    /\ Proceed(s, "revert")
    /\ UNCHANGED <<scanRow, punched>>

\* The row goes back only if it is still claimed.
AcceptRevert(s) ==
    /\ scanCall[s].at = "revert"
    /\ LET r == scanCall[s].req IN
       IF scanRow[r].status = "PROCESSING" THEN SetStatus(r, "PENDING") ELSE UNCHANGED scanRow
    /\ EndCall(s)
    /\ UNCHANGED punched

\* The highest token so far is read without a lock.
NextToken == IF Tokens = {} THEN 1 ELSE Max(Tokens) + 1

AcceptNumber(s) ==
    /\ scanCall[s].at = "number"
    /\ scanCall' = [scanCall EXCEPT ![s] = [at |-> "record", req |-> @.req, token |-> NextToken]]
    /\ UNCHANGED <<scanRow, punched>>

\* An update by id, whatever the row has become.
AcceptRecord(s) ==
    /\ scanCall[s].at = "record"
    /\ scanRow' = [scanRow EXCEPT ![scanCall[s].req] =
                    [status |-> "ACCEPTED", token |-> scanCall[s].token]]
    /\ EndCall(s)
    /\ UNCHANGED punched

\* reject reads the row, and writes it by id.
RejectRead(s, r) ==
    /\ scanCall[s] = NoAccept
    /\ scanRow[r].status = "PENDING"
    /\ scanCall' = [scanCall EXCEPT ![s] = [at |-> "reject", req |-> r]]
    /\ UNCHANGED <<scanRow, punched>>

RejectRecord(s) ==
    /\ scanCall[s].at = "reject"
    /\ SetStatus(scanCall[s].req, "REJECTED")
    /\ EndCall(s)
    /\ UNCHANGED punched

\* The API process dies, or the database refuses a statement.
AcceptDies(s) ==
    /\ scanCall[s] # NoAccept
    /\ EndCall(s)
    /\ UNCHANGED <<scanRow, punched>>

ScanNext ==
    \/ \E r \in Diners : SubmitRequest(r)
    \/ \E s \in Staff, r \in Diners : AcceptClaim(s, r) \/ RejectRead(s, r)
    \/ \E s \in Staff :
        \/ AcceptIngest(s)
        \/ AcceptIngestFails(s)
        \/ AcceptRevert(s)
        \/ AcceptNumber(s)
        \/ AcceptRecord(s)
        \/ RejectRecord(s)
        \/ AcceptDies(s)

ScanSpec == ScanInit /\ [][ScanNext]_scanVars

-----------------------------------------------------------------------------

\* Whatever accepts, rejects and crashes race, a request's food is cooked
\* once at the most: one that can still be accepted has not been punched,
\* and one that shows as accepted has been.
RequestsPunchedOnce ==
    \A r \in Diners :
        /\ punched[r] <= 1
        /\ scanRow[r].status \in {"NONE", "PENDING"} => punched[r] = 0
        /\ scanRow[r].status = "ACCEPTED" => punched[r] = 1

\* Token numbers are drawn without a lock, so accepts that overlap may get
\* the same one; no more requests share a token than calls can overlap.
TokensSharedByRacersOnly ==
    \A t \in Tokens : Cardinality({r \in Diners : scanRow[r].token = t}) <= Cardinality(Staff)

\* What the scan desk promises its diners.
ScanSound == RequestsPunchedOnce /\ TokensSharedByRacersOnly
=============================================================================
